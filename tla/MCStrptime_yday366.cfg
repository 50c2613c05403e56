\* %j 366 in a common year: the month search reads past the first row of start_of_month.
CONSTANTS
  Cases <- CasesJ366
  InitTm <- MCInitTm
  TzName <- MCTzName
  LocalOffset = 540
  UpperWords <- MCUpperWords
  MaxScanIndex = 27
SPECIFICATION Spec
INVARIANT IndexInBounds
