\* forward() RLINES with fseeko() failing after mapprint(): the drain prints the file again.
CONSTANTS
  NL = NL
  X = X
  MaxLen = 6
  MaxLines = 3
  WindowSizes <- MCWindowSizes
  MapFails = FALSE
  SeekFails = TRUE
  MaxGrow = 0
SPECIFICATION FSpec
INVARIANT PrintsEachByteOnce
\* rlines() returns: a finished call has no successor.
CHECK_DEADLOCK FALSE
