--------------------------- MODULE MCDetachedTask ---------------------------
(* DetachedTask for TLC.                                                    *)
EXTENDS DetachedTask, TLC

CallerSymmetry == Permutations(Callers)
=============================================================================
