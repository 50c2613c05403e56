---------------------------- MODULE MCTailForward -----------------------------
(* forward() applied once to every small input: each initial state is one  *)
(* call (style, off, regular, content); the single step makes the call.    *)
EXTENDS TailForward, TLC

CONSTANTS MaxLen, MaxOff

VARIABLES style, off, regular, c, out, done

vars == <<style, off, regular, c, out, done>>

Init ==
  /\ style \in Styles
  /\ off \in 0 .. MaxOff
  /\ regular \in BOOLEAN
  /\ c \in BoundedSeq(Chars, MaxLen)
  /\ out = <<>>
  /\ done = FALSE

\* forward(fp, fn, style, off, sbp) on a file holding c.
Call ==
  /\ ~done
  /\ out' = Forward(style, off, regular, c)
  /\ done' = TRUE
  /\ UNCHANGED <<style, off, regular, c>>

Spec == Init /\ [][Call]_vars

\* forward() prints exactly the part of the file its style and offset
\* select, whether the file is a seekable regular file or a pipe: the
\* first off bytes or lines skipped (FBYTES, FLINES), the last off bytes
\* (RBYTES), or the last off lines with the final byte never taken for a
\* line break (RLINES, rlines() on a regular file, lines() on a pipe).
ForwardMatchesReference == done => out = Reference(style, off, c)

================================================================================
