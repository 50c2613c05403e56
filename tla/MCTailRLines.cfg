\* rlines() on every file of up to 6 bytes, window sizes 1 to 3; maparound(), mapprint() and fseeko() may fail.
CONSTANTS
  NL = NL
  X = X
  MaxLen = 6
  MaxLines = 3
  WindowSizes <- MCWindowSizes
  MapFails = TRUE
  SeekFails = TRUE
  MaxGrow = 1
SPECIFICATION FSpec
INVARIANT FindsLastLines
INVARIANT ReadsInWindow
PROPERTY Terminates
PROPERTY ImplementsReverseScanner
INVARIANT PrintsLastLines
\* rlines() returns: a finished call has no successor.
CHECK_DEADLOCK FALSE
