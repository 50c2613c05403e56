\* tail -F a b where b does not exist yet when tail starts.
CONSTANTS
  a = a
  b = b
  NoFile = NoFile
  NoInode = NoInode
  FileOrder <- MCFileOrder
  vflag = FALSE
  qflag = FALSE
  MaxInodes = 4
  MaxBytes = 3
  InitialPresence <- LastMissing
  Fflag = TRUE
  MaxReadErrors = 0
  MaxOpenErrors = 0
  AllowTruncate = FALSE
  SplitOpen = FALSE
SPECIFICATION Spec
INVARIANT HeaderAttribution
