\* tail -F a b while a writer may unlink the file between the fopen and the fstat of the -F check.
CONSTANTS
  a = a
  b = b
  NoFile = NoFile
  NoInode = NoInode
  FileOrder <- MCFileOrder
  vflag = FALSE
  qflag = FALSE
  MaxInodes = 4
  MaxBytes = 3
  InitialPresence <- BothPresent
  Fflag = TRUE
  MaxReadErrors = 0
  MaxOpenErrors = 0
  AllowTruncate = FALSE
  SplitOpen = TRUE
SPECIFICATION Spec
INVARIANT NoDuplicateOutput
