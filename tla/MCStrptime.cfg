\* _strptime() on whole and truncated inputs of the date and time formats.
CONSTANTS
  Cases <- CasesStrptime
  InitTm <- MCInitTm
  TzName <- MCTzName
  LocalOffset = 540
  UpperWords <- MCUpperWords
  MaxScanIndex = 27
SPECIFICATION Spec
INVARIANT TypeOK
INVARIANT CompletionCorrect
INVARIANT NeverRejectsValid
INVARIANT TimeCorrect
INVARIANT ZoneCorrect
