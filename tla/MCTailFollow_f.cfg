\* tail -f a b: any of the paths may be missing at start; no reopening.
CONSTANTS
  a = a
  b = b
  NoFile = NoFile
  NoInode = NoInode
  FileOrder <- MCFileOrder
  vflag = FALSE
  qflag = FALSE
  MaxInodes = 4
  MaxBytes = 3
  InitialPresence <- AnyPresence
  Fflag = FALSE
  MaxReadErrors = 0
  MaxOpenErrors = 0
  AllowTruncate = FALSE
  SplitOpen = FALSE
SPECIFICATION Spec
INVARIANT NoDuplicateOutput
INVARIANT HeaderAttribution
PROPERTY EventuallyCaughtUp
PROPERTY ImplementsTailOutput
