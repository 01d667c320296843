SPECIFICATION Spec
CONSTANTS
  Names = {n1, n2}
  Passphrases = {p1, p2}
  AutoSources = {"file", "keyring"}
  None = none
  MaxFaults = 2
INVARIANTS OldKeyIsGone
PROPERTY ChangesAtOnce
