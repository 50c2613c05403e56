---------------------------- MODULE ForwardRLines -----------------------------
(***************************************************************************)
(* The RLINES case of forward() on a non-empty regular file (forward.c:    *)
(* 145-153 and the drain at 168-175): rlines() as in TailRLines, then the  *)
(* drain of the stream from wherever rlines() left it.  rlines() returns   *)
(* void, so forward() cannot tell a failed call from a successful one.     *)
(* Output is recorded as the file offsets of the bytes printed, so a byte  *)
(* printed twice can be told apart.  main() opened the stream, so it is at *)
(* offset 0 when rlines() starts.  A writer may append to the file while  *)
(* forward() runs: rlines() works from the st_size of forward()'s fstat,  *)
(* and the drain reads to the end of file as it is then.                  *)
(***************************************************************************)
EXTENDS TailRLines, Functions

CONSTANT MaxGrow   \* bytes a writer may append after the fstat

VARIABLES
  pos,      \* the stream offset of fp
  out,      \* the file offsets printed, in order
  drained,  \* forward() has run its drain
  grown     \* bytes appended since the fstat: the file is size + grown long

fvars == <<vars, pos, out, drained, grown>>

\* The offsets from a to b.
Offsets(a, b) == [k \in 1 .. (b - a + 1) |-> a + k - 1]

\* main() opened the file; forward() calls rlines() for S_ISREG and
\* st_size > 0 with off != 0.
FInit ==
  /\ Init
  /\ c # <<>>
  /\ pos = 0 /\ out = <<>> /\ drained = FALSE /\ grown = 0

SeekOffset_shown(sz, cur) == cur

\* fseeko(fp, sbp->st_size, SEEK_SET): the offset the stream is set to.
SeekOffset(sz, cur) == sz

\* One step of rlines(): mapprint() writes [curoff, size) and the seek
\* moves the stream.
RLinesStep ==
  /\ Next
  /\ out' = IF printed' # printed THEN out \o Offsets(printed', size - 1) ELSE out
  /\ pos' = IF pc = "seek" /\ pc' = "unmap" THEN SeekOffset(size, curoff) ELSE pos
  /\ UNCHANGED <<drained, grown>>

\* rlines() returned (not through exit()): while ((ch = getc(fp)) != EOF)
\* putchar(ch), from the stream offset to the end of file as it is now.
DrainAfter ==
  /\ pc = "ret" /\ ~drained
  /\ out' = out \o Offsets(pos, size + grown - 1)
  /\ pos' = size + grown
  /\ drained' = TRUE
  /\ UNCHANGED <<vars, grown>>

\* Another process appends a byte to the file.
Appended ==
  /\ grown < MaxGrow
  /\ grown' = grown + 1
  /\ UNCHANGED <<vars, pos, out, drained>>

FNext == RLinesStep \/ DrainAfter

\* tail is one process that always makes progress; the writer need not.
FSpec == FInit /\ [][FNext \/ Appended]_fvars /\ WF_fvars(FNext)

--------------------------------------------------------------------------------
(* Properties.                                                             *)

\* When forward() finishes and rlines() reported no error, the output is
\* the last n lines of the file as fstat saw it, followed by exactly the
\* bytes appended since, up to the end of file at the drain: mapprint()
\* writes up to the stale st_size, the seek puts the stream there, and the
\* drain continues from it with no gap and no byte twice.
PrintsLastLines ==
  (drained /\ ~failed) =>
    /\ out = Offsets(F!LastLinesStart(c, n), pos - 1)
    /\ pos \in size .. size + grown

\* forward() never prints a byte of the file twice, on any path through
\* rlines() and the drain after it.
PrintsEachByteOnce == IsInjective(out)

================================================================================
