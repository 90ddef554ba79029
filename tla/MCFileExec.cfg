SPECIFICATION Spec
CONSTANTS
  Root = Root
  None = None
  P = P
  Q = Q
  R = R
  S = S
  B = B
  F = F
  X = X
  N = N
  Dirs <- MCDirs
  Files <- MCFiles
  Names <- MCNames
  Interp <- MCInterp
  Texts <- MCTexts
  MAX_DEPTH = 3
  MaxGen = 2
  Starts <- MCStarts
INVARIANTS
  SubtreeUnchanged
  ExecutesListed
  RecordIsDecision
CHECK_DEADLOCK FALSE
