------------------------------ MODULE TailForward -----------------------------
(***************************************************************************)
(* The Offset Locator: forward() of src/src.freebsd/coreutils/tail/        *)
(* forward.c, as operators from (style, off, file content) to what it     *)
(* prints.  A file is a sequence of bytes, NL or any other byte X; offset  *)
(* k of the file is c[k + 1].  `regular' is S_ISREG(st_mode); forward()   *)
(* takes the seeking path only for a regular file of nonzero size.         *)
(*                                                                         *)
(* bytes() and lines() live in read.c, which is not part of this source;  *)
(* they are modelled from the specification (fixed-capacity rings).        *)
(***************************************************************************)
EXTENDS Integers, Sequences, SequencesExt, FiniteSets

CONSTANTS NL, X

Chars == {NL, X}
Styles == {"FBYTES", "FLINES", "RBYTES", "RLINES"}

MinOf(p, q) == IF p < q THEN p ELSE q

\* while ((ch = getc(fp)) != EOF) putchar(ch): everything from offset pos.
Drain(c, pos) == SubSeq(c, pos + 1, Len(c))

\* S_ISREG(sbp->st_mode) && sbp->st_size > 0
Seekable(regular, c) == regular /\ Len(c) > 0

--------------------------------------------------------------------------------
(* FBYTES and FLINES: offsets from the beginning.                          *)

\* while (off--) if (getc(fp) == EOF) break;   the offset it stops at
RECURSIVE SkipBytes(_, _, _)
SkipBytes(c, pos, off) ==
  IF off = 0 \/ pos = Len(c) THEN pos ELSE SkipBytes(c, pos + 1, off - 1)

FBytes(off, regular, c) ==
  IF off = 0 THEN 0
  ELSE IF Seekable(regular, c) THEN MinOf(off, Len(c))
  ELSE SkipBytes(c, 0, off)

\* for (;;) { ch = getc(fp); EOF -> break; ch == '\n' && !--off -> break }
RECURSIVE SkipLines(_, _, _)
SkipLines(c, pos, off) ==
  IF pos = Len(c) THEN pos
  ELSE IF c[pos + 1] = NL /\ off = 1 THEN pos + 1
  ELSE SkipLines(c, pos + 1, IF c[pos + 1] = NL THEN off - 1 ELSE off)

FLines(off, c) == IF off = 0 THEN 0 ELSE SkipLines(c, 0, off)

--------------------------------------------------------------------------------
(* RBYTES and RLINES on a pipe: bytes() and lines() (from the spec).       *)

\* A ring of `off' byte slots written cyclically while the whole stream is
\* read; at end of file the slots are replayed from the oldest.
RECURSIVE FillByteRing(_, _, _)
FillByteRing(c, k, ring) ==
  IF k > Len(c) THEN ring
  ELSE FillByteRing(c, k + 1,
         [ring EXCEPT !.buf[ring.wp + 1] = c[k],
                      !.wp = (@ + 1) % Len(ring.buf),
                      !.full = @ \/ ring.wp + 1 = Len(ring.buf)])

\* The slots from the oldest: after the write index when the ring is full.
ReplayRing(buf, wp, full) ==
  IF full THEN SubSeq(buf, wp + 1, Len(buf)) \o SubSeq(buf, 1, wp)
          ELSE SubSeq(buf, 1, wp)

BytesRing(c, off) ==
  LET r == FillByteRing(c, 1, [buf |-> [j \in 1 .. off |-> X], wp |-> 0, full |-> FALSE])
  IN ReplayRing(r.buf, r.wp, r.full)

\* A ring of `off' line buffers: a line is stored when its '\n' arrives;
\* at end of file a last line without '\n' is stored too, then the lines
\* are replayed from the oldest.
RECURSIVE FillLineRing(_, _, _)
StoreLine(ring) ==
  [ring EXCEPT !.buf[ring.wp + 1] = ring.cur,
               !.wp = (@ + 1) % Len(ring.buf),
               !.full = @ \/ ring.wp + 1 = Len(ring.buf),
               !.cur = <<>>]
FillLineRing(c, k, ring) ==
  IF k > Len(c) THEN IF ring.cur = <<>> THEN ring ELSE StoreLine(ring)
  ELSE LET r == [ring EXCEPT !.cur = Append(@, c[k])]
       IN FillLineRing(c, k + 1, IF c[k] = NL THEN StoreLine(r) ELSE r)

LinesRing(c, off) ==
  LET r == FillLineRing(c, 1, [buf |-> [j \in 1 .. off |-> <<>>], wp |-> 0,
                               full |-> FALSE, cur |-> <<>>])
  IN FlattenSeq(ReplayRing(r.buf, r.wp, r.full))

--------------------------------------------------------------------------------
(* RLINES on a regular file: the backward scan of rlines().                *)

\* for (i = ...; i >= 0; i--) if (map.start[i] == '\n' && --off == 0) break;
\* over the whole file, from offset curoff down: the offset of the newline
\* where the count reaches zero, or -1.
RECURSIVE ScanBack(_, _, _)
ScanBack(c, curoff, off) ==
  IF curoff < 0 THEN -1
  ELSE IF c[curoff + 1] = NL /\ off = 1 THEN curoff
  ELSE ScanBack(c, curoff - 1, IF c[curoff + 1] = NL THEN off - 1 ELSE off)

\* The last byte is ignored (curoff = size - 2); printing starts after the
\* newline found (curoff++).
RLinesStart_lastByte(c, off) == ScanBack(c, Len(c) - 1, off) + 1
RLinesStart(c, off) == ScanBack(c, Len(c) - 2, off) + 1

--------------------------------------------------------------------------------
(* forward(): what each style prints.                                      *)

\* RBYTES: seek to size - off when the file is at least off long, else stay
\* at offset 0; on a pipe read everything (off == 0) or use bytes().
RBytes(off, regular, c) ==
  IF Seekable(regular, c)
    THEN Drain(c, IF Len(c) >= off THEN Len(c) - off ELSE 0)
  ELSE IF off = 0 THEN <<>>
  ELSE BytesRing(c, off)

\* RLINES: seek to the end (off == 0) or rlines(); on a pipe read
\* everything (off == 0) or use lines().
RLines(off, regular, c) ==
  IF Seekable(regular, c)
    THEN IF off = 0 THEN <<>> ELSE Drain(c, RLinesStart(c, off))
  ELSE IF off = 0 THEN <<>>
  ELSE LinesRing(c, off)

Forward(style, off, regular, c) ==
  CASE style = "FBYTES" -> Drain(c, FBytes(off, regular, c))
    [] style = "FLINES" -> Drain(c, FLines(off, c))
    [] style = "RBYTES" -> RBytes(off, regular, c)
    [] style = "RLINES" -> RLines(off, regular, c)

--------------------------------------------------------------------------------
(* Reference definitions, from the meaning of each style (spec, sec. 8).   *)

\* Newlines counted in offsets lo .. hi.
NewlinesIn(c, lo, hi) == Cardinality({k \in lo .. hi : c[k + 1] = NL})

\* The last n lines: the smallest start such that fewer than n newlines lie
\* between it and the last byte (the last byte itself never counts).
LastLinesStart(c, n) ==
  CHOOSE s \in 0 .. Len(c) :
    /\ NewlinesIn(c, s, Len(c) - 2) < n
    /\ \A t \in 0 .. s - 1 : NewlinesIn(c, t, Len(c) - 2) >= n

\* After the first n lines: the offset just past the n-th newline, or the
\* end of the file when it has fewer.
AfterLinesStart(c, n) ==
  IF n = 0 THEN 0
  ELSE IF NewlinesIn(c, 0, Len(c) - 1) < n THEN Len(c)
  ELSE CHOOSE s \in 1 .. Len(c) : c[s] = NL /\ NewlinesIn(c, 0, s - 1) = n

Reference(style, n, c) ==
  CASE style = "FBYTES" -> Drain(c, MinOf(n, Len(c)))
    [] style = "FLINES" -> Drain(c, AfterLinesStart(c, n))
    [] style = "RBYTES" -> Drain(c, Len(c) - MinOf(n, Len(c)))
    [] style = "RLINES" -> IF n = 0 THEN <<>> ELSE Drain(c, LastLinesStart(c, n))

================================================================================
