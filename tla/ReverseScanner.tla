---------------------------- MODULE ReverseScanner ----------------------------
(***************************************************************************)
(* What the Reverse Scanner promises (spec, sec. 4.2 and 4.3), with no     *)
(* window and no loop: for a non-empty file it finds, in one step, the     *)
(* start of the last n lines with the final byte never counted, and prints *)
(* from there; a zero-length file gives no work.  A failure of the window  *)
(* or of the seek is reported and ends the call, at any point; a failure   *)
(* to write the range is fatal to the run and happens before anything is  *)
(* printed.  The call always ends.                                         *)
(***************************************************************************)
EXTENDS Integers, Sequences, SequencesExt

CONSTANTS
  NL, X,
  MaxLen,      \* longest file
  MaxLines,    \* largest requested line count
  Faults,      \* whether the window or the seek may fail
  WriteFails   \* whether writing the range may fail

F == INSTANCE TailForward

VARIABLES
  c, n,     \* the file content and the number of lines wanted
  answer,   \* the offset printed from, -1 before
  failed,   \* an error was reported
  status    \* "run", then "ret" (returned) or "exit" (the run ended)

vars == <<c, n, answer, failed, status>>

Init ==
  /\ c \in BoundedSeq(F!Chars, MaxLen)
  /\ n \in 1 .. MaxLines
  /\ answer = -1 /\ failed = FALSE /\ status = "run"

\* findStartOffset and the write of the range, as one step.
Find ==
  /\ status = "run" /\ answer = -1 /\ c # <<>>
  /\ answer' = F!LastLinesStart(c, n)
  /\ UNCHANGED <<c, n, failed, status>>

\* A normal return: after the lines were printed, or at once for an empty
\* file.
Return ==
  /\ status = "run" /\ (answer # -1 \/ c = <<>>)
  /\ status' = "ret"
  /\ UNCHANGED <<c, n, answer, failed>>

\* The window cannot be advanced, or the stream cannot be positioned.
Fail ==
  /\ Faults /\ status = "run"
  /\ failed' = TRUE /\ status' = "ret"
  /\ UNCHANGED <<c, n, answer>>

\* Writing the range fails: fatal.
Exit ==
  /\ WriteFails /\ status = "run" /\ answer = -1 /\ c # <<>>
  /\ status' = "exit"
  /\ UNCHANGED <<c, n, answer, failed>>

Next == Find \/ Return \/ Fail \/ Exit

Spec == Init /\ [][Next]_vars /\ WF_vars(Next)

================================================================================
