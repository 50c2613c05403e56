\* forward() on every file of up to 5 bytes and every offset up to 4.
CONSTANTS
  NL = NL
  X = X
  MaxLen = 5
  MaxOff = 4
SPECIFICATION Spec
INVARIANT ForwardMatchesReference
\* forward() returns: a finished call has no successor.
CHECK_DEADLOCK FALSE
