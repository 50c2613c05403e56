\* tail -F a b on a disk that may fail one read.
CONSTANTS
  a = a
  b = b
  NoFile = NoFile
  NoInode = NoInode
  FileOrder <- MCFileOrder
  vflag = FALSE
  qflag = FALSE
  MaxInodes = 3
  MaxBytes = 2
  InitialPresence <- AnyPresence
  Fflag = TRUE
  MaxReadErrors = 1
  MaxOpenErrors = 1
  AllowTruncate = FALSE
  SplitOpen = TRUE
SPECIFICATION Spec
PROPERTY EventuallyCaughtUp
PROPERTY DrainedBeforeRelease
