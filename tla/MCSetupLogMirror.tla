--------------------------- MODULE MCSetupLogMirror ---------------------------
(* Symmetry of the calls at a sink.                                        *)
EXTENDS SetupLogMirror, TLC

SlotSymmetry == Permutations(Slots)
=============================================================================
