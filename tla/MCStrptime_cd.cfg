\* %C %D on "20 02/29/24": the year parsed inside %D is lost to the outer century.
CONSTANTS
  Cases <- CasesCD
  InitTm <- MCInitTm
  TzName <- MCTzName
  LocalOffset = 540
  UpperWords <- MCUpperWords
  MaxScanIndex = 27
SPECIFICATION Spec
INVARIANT CompletionCorrect
