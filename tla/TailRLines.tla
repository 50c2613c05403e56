------------------------------ MODULE TailRLines ------------------------------
(***************************************************************************)
(* The Reverse Scanner: rlines() of src/src.freebsd/coreutils/tail/        *)
(* forward.c, one step per statement of its loops.  The file is mapped a   *)
(* window at a time; maparound() and mapprint() (misc.c, not part of this  *)
(* source) are modelled from the specification: maparound(target) maps a   *)
(* window of W bytes aligned below the target and clipped to the file, and *)
(* either may fail.  Inputs are chosen in Init: the file content c, the    *)
(* requested line count n and the window size W.                           *)
(***************************************************************************)
EXTENDS Integers, Sequences, SequencesExt

CONSTANTS
  NL, X,
  MaxLen,        \* longest file
  MaxLines,      \* largest requested line count (off >= 1)
  WindowSizes,   \* TAILMAPLEN values to try
  MapFails,      \* whether maparound()/mapprint() may fail
  SeekFails      \* whether fseeko() may fail

F == INSTANCE TailForward

VARIABLES
  c, n, W,           \* the inputs: file content, lines wanted, window size
  curoff, off,       \* rlines' curoff and off
  mapoff, maplen,    \* map.mapoff, map.maplen
  mapped,            \* map.start != NULL: a window is mapped
  i,                 \* the inner loop index
  printed,           \* the offset mapprint() printed from, -1 before
  failed,            \* rlines returned through ierr()
  pc

vars == <<c, n, W, curoff, off, mapoff, maplen, mapped, i, printed, failed, pc>>

size == Len(c)

Init ==
  /\ c \in BoundedSeq(F!Chars, MaxLen)
  /\ n \in 1 .. MaxLines
  /\ W \in WindowSizes
  /\ curoff = 0 /\ off = n /\ mapoff = 0 /\ maplen = 0
  /\ mapped = FALSE /\ i = 0 /\ printed = -1 /\ failed = FALSE
  /\ pc = "begin"

\* curoff = size - 2: the last byte is never examined.
FirstScanned_lastByte(sz) == sz - 1
FirstScanned(sz) == sz - 2

Begin_tinyFile ==
  /\ pc = "begin"
  /\ IF size <= 1
       THEN pc' = "ret" /\ UNCHANGED <<curoff, mapoff>>
       ELSE /\ mapoff' = size
            /\ curoff' = FirstScanned(size)
            /\ pc' = "loop"
  /\ UNCHANGED <<c, n, W, off, maplen, mapped, i, printed, failed>>

\* if (!(size = st_size)) return; map.mapoff = map.maxoff = size;
Begin ==
  /\ pc = "begin"
  /\ IF size = 0
       THEN pc' = "ret" /\ UNCHANGED <<curoff, mapoff>>
       ELSE /\ mapoff' = size
            /\ curoff' = FirstScanned(size)
            /\ pc' = "loop"
  /\ UNCHANGED <<c, n, W, off, maplen, mapped, i, printed, failed>>

MustRemap_offByOne(cur, moff) == cur + 1 < moff

\* curoff < map.mapoff: the byte to examine is below the mapped window.
MustRemap(cur, moff) == cur < moff

ScanIndex_offByOne(cur, moff) == cur - moff + 1

\* i = curoff - map.mapoff: the index of curoff in the window.
ScanIndex(cur, moff) == cur - moff

\* maparound(&map, curoff): the window [mapoff, mapoff + maplen).
WindowStart(target) == target - (target % W)
WindowLen(target) == F!MinOf(W, size - WindowStart(target))

\* while (curoff >= 0): remap when needed, then scan the window downwards.
Loop ==
  /\ pc = "loop"
  /\ \/ /\ curoff < 0
        /\ pc' = "print"
        /\ UNCHANGED <<mapoff, maplen, mapped, i, failed>>
     \/ /\ curoff >= 0
        /\ ~MustRemap(curoff, mapoff)
        /\ i' = ScanIndex(curoff, mapoff)
        /\ pc' = "scan"
        /\ UNCHANGED <<mapoff, maplen, mapped, failed>>
     \/ /\ curoff >= 0
        /\ MustRemap(curoff, mapoff)
        /\ mapoff' = WindowStart(curoff)
        /\ maplen' = WindowLen(curoff)
        /\ mapped' = TRUE
        /\ i' = ScanIndex(curoff, WindowStart(curoff))
        /\ pc' = "scan"
        /\ UNCHANGED failed
     \/ /\ curoff >= 0
        /\ MustRemap(curoff, mapoff)
        /\ MapFails
        \* ierr(fn); return;  whether the old window survives the failed
        \* maparound() is not specified
        /\ mapped' \in {mapped, FALSE}
        /\ failed' = TRUE
        /\ pc' = "ret"
        /\ UNCHANGED <<mapoff, maplen, i>>
  /\ UNCHANGED <<c, n, W, curoff, off, printed>>

\* for (; i >= 0; i--) if (map.start[i] == '\n' && --off == 0) break;
\* curoff = map.mapoff + i; if (i >= 0) break;
Scan ==
  /\ pc = "scan"
  /\ \/ /\ i >= 0
        /\ c[mapoff + i + 1] = NL /\ off = 1
        /\ off' = 0
        /\ curoff' = mapoff + i
        /\ pc' = "print"
        /\ UNCHANGED i
     \/ /\ i >= 0
        /\ ~(c[mapoff + i + 1] = NL /\ off = 1)
        /\ off' = IF c[mapoff + i + 1] = NL THEN off - 1 ELSE off
        /\ i' = i - 1
        /\ UNCHANGED <<curoff, pc>>
     \/ /\ i < 0
        /\ curoff' = mapoff + i
        /\ pc' = "loop"
        /\ UNCHANGED <<off, i>>
  /\ UNCHANGED <<c, n, W, mapoff, maplen, mapped, printed, failed>>

\* curoff++; mapprint(&map, curoff, size - curoff), exit(1) if it fails.
MapPrint ==
  /\ pc = "print"
  /\ curoff' = curoff + 1
  /\ \/ /\ printed' = curoff + 1
        /\ mapped' \in {mapped, TRUE}
        /\ pc' = "seek"
     \/ /\ MapFails
        /\ pc' = "exit"
        /\ UNCHANGED <<printed, mapped>>
  /\ UNCHANGED <<c, n, W, off, mapoff, maplen, i, failed>>

\* fseeko(fp, sbp->st_size, SEEK_SET); on failure ierr(fn); return;
Seek ==
  /\ pc = "seek"
  /\ \/ pc' = "unmap" /\ UNCHANGED failed
     \/ SeekFails /\ failed' = TRUE /\ pc' = "ret"
  /\ UNCHANGED <<c, n, W, curoff, off, mapoff, maplen, mapped, i, printed>>

\* if (map.start != NULL && munmap(map.start, map.maplen)) ...
Unmap ==
  /\ pc = "unmap"
  /\ mapped' = FALSE
  /\ pc' = "ret"
  /\ UNCHANGED <<c, n, W, curoff, off, mapoff, maplen, i, printed, failed>>

Next == Begin \/ Loop \/ Scan \/ MapPrint \/ Seek \/ Unmap

\* rlines() is sequential code: it keeps running until it returns.
Spec == Init /\ [][Next]_vars /\ WF_vars(Next)

--------------------------------------------------------------------------------
(* Properties.                                                             *)

\* The scan prints from the start of the last n lines of the file, the last
\* byte never counting as a line break, or from offset 0 when the file has
\* fewer lines, whatever the window size (spec, sec. 8).
FindsLastLines == printed # -1 => printed = F!LastLinesStart(c, n)

\* Every byte the inner loop examines lies inside the mapped window and is
\* never the last byte of the file.
ReadsInWindow ==
  (pc = "scan" /\ i >= 0) =>
    /\ mapped
    /\ 0 <= i /\ i < maplen
    /\ mapoff + i <= size - 2

\* When rlines() returns, on every path, no window is left mapped.
MappingReleased == pc = "ret" => ~mapped

\* The abstract Reverse Scanner, seen through rlines()' variables: the offset
\* mapprint() printed from is the answer, and the call is running until pc
\* reaches a return or the exit of mapprint()'s failure.
RS == INSTANCE ReverseScanner
        WITH answer <- printed,
             status <- IF pc \in {"ret", "exit"} THEN pc ELSE "run",
             Faults <- MapFails \/ SeekFails,
             WriteFails <- MapFails

\* rlines() implements the Reverse Scanner: it prints once, from the start
\* of the last n lines, before a normal return (never returning silently on
\* a non-empty file), reports every failure it returns on, exits only
\* before printing, and always ends.
ImplementsReverseScanner == RS!Spec

\* rlines() always returns or exits.
Terminates == <>(pc \in {"ret", "exit"})

================================================================================
