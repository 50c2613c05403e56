\* tail -F a b: both files exist, writers append, unlink, recreate and truncate them.
CONSTANTS
  a = a
  b = b
  NoFile = NoFile
  NoInode = NoInode
  FileOrder <- MCFileOrder
  InitialPresence <- BothPresent
  Fflag = TRUE
  vflag = FALSE
  qflag = FALSE
  MaxInodes = 4
  MaxBytes = 3
  MaxReadErrors = 0
  MaxOpenErrors = 0
  AllowTruncate = TRUE
  SplitOpen = FALSE
SPECIFICATION Spec
INVARIANT TypeOK
INVARIANT NoDuplicateOutput
INVARIANT HeaderAttribution
