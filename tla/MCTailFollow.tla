----------------------------- MODULE MCTailFollow -----------------------------
(* Instances of TailFollow for TLC: two file arguments a and b.             *)
EXTENDS TailFollow, TLC

CONSTANTS a, b

MCFileOrder == <<a, b>>

\* Both paths exist when tail starts.
BothPresent == {{a, b}}

\* Any of the paths may be missing at start.
AnyPresence == SUBSET {a, b}

\* Only the first path exists at start; the last one appears later.
LastMissing == {{a}}

================================================================================
