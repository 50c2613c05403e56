------------------------------ MODULE TailOutput ------------------------------
(***************************************************************************)
(* What following files promises about the bytes it prints (spec, sec. 1   *)
(* and 4.4), with no paths, streams or polling: writers append bytes to    *)
(* files, and the follower prints, in chunks, bytes of one file at a time. *)
(* Of each file it prints a contiguous run of the file's bytes in the      *)
(* order they were written: where it first prints a file it may start      *)
(* anywhere (the initial positioning may skip a prefix), but from then on  *)
(* every chunk of that file starts right after the last byte printed of   *)
(* it.  So no byte is printed twice, none is printed out of order, and    *)
(* none between two printed bytes of a file is left out.  Headers are not *)
(* part of this view.                                                      *)
(***************************************************************************)
EXTENDS Naturals, Sequences, SequencesExt

CONSTANTS
  Inodes,    \* the files
  ByteIds    \* the bytes that can be written, each at most once

VARIABLES
  data,      \* file -> its bytes in write order
  out        \* the bytes printed, in order

vars == <<data, out>>

WrittenIds == UNION {ToSet(data[i]) : i \in Inodes}

Init ==
  /\ data = [i \in Inodes |-> <<>>]
  /\ out = <<>>

\* A writer appends a byte not written before to file i.
Write(i) ==
  /\ \E b \in ByteIds \ WrittenIds : data' = [data EXCEPT ![i] = Append(@, b)]
  /\ UNCHANGED out

\* The positions of file i's bytes already printed.
PrintedAt(i) == {k \in DOMAIN data[i] : data[i][k] \in ToSet(out)}

\* Where the next chunk of file i may start: anywhere before anything of it
\* was printed, else right after the last byte printed of it.
Starts(i) ==
  IF PrintedAt(i) = {} THEN 1 .. Len(data[i])
  ELSE {1 + CHOOSE k \in PrintedAt(i) : \A j \in PrintedAt(i) : j <= k}

\* The follower prints bytes lo .. hi of file i.
PrintChunk(i) ==
  /\ \E lo \in Starts(i), hi \in 1 .. Len(data[i]) :
       /\ lo <= hi
       /\ out' = out \o SubSeq(data[i], lo, hi)
  /\ UNCHANGED data

Next == \E i \in Inodes : Write(i) \/ PrintChunk(i)

Spec == Init /\ [][Next]_vars

================================================================================
