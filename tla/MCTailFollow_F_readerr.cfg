\* tail -F a b on a disk that may fail one read.
CONSTANTS
  a = a
  b = b
  NoFile = NoFile
  NoInode = NoInode
  FileOrder <- MCFileOrder
  vflag = FALSE
  qflag = FALSE
  MaxInodes = 4
  MaxBytes = 3
  InitialPresence <- BothPresent
  Fflag = TRUE
  MaxReadErrors = 1
  MaxOpenErrors = 0
  AllowTruncate = FALSE
  SplitOpen = FALSE
SPECIFICATION Spec
INVARIANT NoDuplicateOutput
