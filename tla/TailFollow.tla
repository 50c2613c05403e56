------------------------------ MODULE TailFollow ------------------------------
(***************************************************************************)
(* The follow loop of tail -f / tail -F: follow() and show() of            *)
(* src/src.freebsd/coreutils/tail/forward.c, together with the files it    *)
(* watches.  The tail process is a single thread whose program counter     *)
(* walks the loops of follow() one tracked file at a time; the rest of the *)
(* system (writers appending, rotating, removing and truncating files)     *)
(* acts between any two of its steps.                                      *)
(*                                                                         *)
(* A byte is a unique identifier drawn from ByteIds when it is written, so *)
(* that the output can be compared with what was written: out is the      *)
(* sequence of headers ("==> name <==") and bytes tail has printed.        *)
(***************************************************************************)
EXTENDS Naturals, Sequences, SequencesExt, FiniteSets

CONSTANTS
  FileOrder,        \* <<f1, ..., fn>>: the file arguments, files[0..no_files-1]
  Fflag,            \* -F: reopen a file whose path is removed or replaced
  vflag, qflag,     \* -v / -q header policy
  InitialPresence,  \* the sets of paths that may exist when tail starts
  NoFile,           \* last == NULL
  NoInode,          \* no file at a path / stream closed
  MaxInodes,        \* files that can ever exist (bounds Create)
  MaxBytes,         \* bytes that can ever be written (bounds Write)
  MaxReadErrors,    \* read errors the disk may produce (bounds ShowStep)
  MaxOpenErrors,    \* failures to open or fstat a path that exists
                    \* (EACCES, EMFILE, EIO), all transient
  AllowTruncate,    \* whether writers may truncate a file in place
  SplitOpen         \* whether fopen and fstat of the -F check are two steps

Files   == ToSet(FileOrder)
Inodes  == 1 .. MaxInodes
ByteIds == 1 .. MaxBytes

ASSUME /\ IsInjective(FileOrder)
       /\ NoFile \notin Files
       /\ NoInode \notin Inodes
       /\ InitialPresence \subseteq SUBSET Files
       /\ MaxInodes >= Len(FileOrder)

no_files == Len(FileOrder)

VARIABLES
  \* the file system, written by the environment
  fs,         \* path -> inode it names, or NoInode
  data,       \* inode -> its content, a sequence of byte ids
  allocated,  \* inodes created so far
  written,    \* byte ids written so far (each id is written once)
  \* the tail process
  fp,         \* file->fp: the open stream [ino, off], or Closed
  st,         \* file->st: identity (st_ino) captured at the last open
  last,       \* the static `last': file whose bytes were printed last
  out,        \* everything printed on stdout
  pc, idx,    \* which loop of follow() and which file of it
  ftmp,       \* the inode fileargs_fopen() opened, not yet fstat'ed
  errors,     \* read errors that occurred so far
  openErrors, \* failed opens of an existing path so far
  skipped     \* history: bytes the initial positioning chose not to print

vars == <<fs, data, allocated, written, fp, st, last, out, pc, idx, ftmp, errors, openErrors, skipped>>

Closed == [ino |-> NoInode, off |-> 0]

Header(f)  == [kind |-> "hdr", file |-> f, id |-> 0]
Byte(f, b) == [kind |-> "byte", file |-> f, id |-> b]

\* The ids printed in an output sequence o.
Printed(o) == {o[k].id : k \in {j \in DOMAIN o : o[j].kind = "byte"}}

\* vflag || (qflag == 0 && no_files > 1): headers are printed at all.
ShowHeaders == vflag \/ (~qflag /\ no_files > 1)

--------------------------------------------------------------------------------
(* The environment: other processes writing and rotating the files.        *)

Write(i) ==
  /\ i \in allocated
  /\ Cardinality(written) < MaxBytes
  /\ LET b == CHOOSE x \in ByteIds \ written : TRUE
     IN /\ data' = [data EXCEPT ![i] = Append(@, b)]
        /\ written' = written \cup {b}
  /\ UNCHANGED <<fs, allocated, fp, st, last, out, pc, idx, ftmp, errors, openErrors, skipped>>

\* unlink(path), or rename(path, path.0): the path no longer names the inode;
\* a writer that holds the inode open may go on writing to it.
Unlink(f) ==
  /\ fs[f] # NoInode
  /\ fs' = [fs EXCEPT ![f] = NoInode]
  /\ UNCHANGED <<data, allocated, written, fp, st, last, out, pc, idx, ftmp, errors, openErrors, skipped>>

Create(f) ==
  /\ fs[f] = NoInode
  /\ allocated # Inodes
  /\ LET i == CHOOSE x \in Inodes \ allocated : TRUE
     IN /\ fs' = [fs EXCEPT ![f] = i]
        /\ allocated' = allocated \cup {i}
  /\ UNCHANGED <<data, written, fp, st, last, out, pc, idx, ftmp, errors, openErrors, skipped>>

Truncate(f) ==
  /\ AllowTruncate
  /\ fs[f] # NoInode
  /\ data[fs[f]] # <<>>
  /\ data' = [data EXCEPT ![fs[f]] = <<>>]
  /\ UNCHANGED <<fs, allocated, written, fp, st, last, out, pc, idx, ftmp, errors, openErrors, skipped>>

Environment ==
  \/ \E i \in Inodes : Write(i)
  \/ \E f \in Files : Unlink(f) \/ Create(f) \/ Truncate(f)


--------------------------------------------------------------------------------
(* The tail process.                                                       *)

Pos(f) == CHOOSE k \in 1 .. no_files : FileOrder[k] = f

\* main() opened every path that existed and captured its identity with
\* fstat before calling follow(); a path that did not exist has fp == NULL.
Init ==
  \E P \in InitialPresence :
    /\ fs = [f \in Files |-> IF f \in P THEN Pos(f) ELSE NoInode]
    /\ allocated = {Pos(f) : f \in P}
    /\ data = [i \in Inodes |-> <<>>]
    /\ written = {}
    /\ fp = [f \in Files |-> IF f \in P THEN [ino |-> Pos(f), off |-> 0] ELSE Closed]
    /\ st = fs
    /\ last = NoFile
    /\ out = <<>>
    /\ pc = "start"
    /\ idx = 1
    /\ ftmp = NoInode
    /\ errors = 0 /\ openErrors = 0
    /\ skipped = {}

\* The bytes from the stream position of file f to its end of file.
Avail(f) == SubSeq(data[fp[f].ino], fp[f].off + 1, Len(data[fp[f].ino]))

\* What the printing loop of show() emits for bytes s of file f: a header
\* before the first byte when another file printed last, then the bytes.
Emit(f, s) ==
  IF s = <<>> THEN <<>>
  ELSE (IF last # f /\ ShowHeaders THEN <<Header(f)>> ELSE <<>>)
         \o [j \in 1 .. Len(s) |-> Byte(f, s[j])]

\* The ways getc() can end: at end of file after every available byte, or,
\* while the disk may still fail, with a read error after any n of them.
Outcomes(f) ==
  {[n |-> Len(Avail(f)), err |-> FALSE]}
    \cup (IF errors < MaxReadErrors
            THEN {[n |-> n, err |-> TRUE] : n \in 0 .. Len(Avail(f))}
            ELSE {})

\* Mutant: the stream position is advanced one byte too far.
AfterShow_offByOne(f, o) ==
  IF o.err THEN Closed ELSE [fp[f] EXCEPT !.off = @ + o.n + 1]

\* Mutant: the stream position is never advanced.
AfterShow_noAdvance(f, o) ==
  IF o.err THEN Closed ELSE fp[f]

\* The stream show() leaves: closed and NULL after ferror, else advanced.
AfterShow(f, o) ==
  IF o.err THEN Closed ELSE [fp[f] EXCEPT !.off = @ + o.n]

\* The printing of show(file) when getc() ends with outcome o.
Show(f, o) ==
  LET s == SubSeq(Avail(f), 1, o.n) IN
  /\ out' = out \o Emit(f, s)
  /\ last' = IF s = <<>> THEN last ELSE f
  /\ errors' = IF o.err THEN errors + 1 ELSE errors

\* The initial pass of follow(): header, then forward() positions the stream
\* at the offset the locator computes (any k of the bytes present) and
\* copies the rest to stdout, leaving the stream at end of file.
StartFile ==
  /\ pc = "start"
  /\ idx <= no_files
  /\ LET f == FileOrder[idx]
         c == data[fp[f].ino]
     IN IF fp[f] = Closed
          THEN UNCHANGED <<out, fp, skipped>>
          ELSE \E k \in 0 .. Len(c) :
                 /\ out' = out \o (IF ShowHeaders THEN <<Header(f)>> ELSE <<>>)
                               \o [j \in 1 .. Len(c) - k |-> Byte(f, c[k + j])]
                 /\ fp' = [fp EXCEPT ![f].off = Len(c)]
                 /\ skipped' = skipped \cup ToSet(SubSeq(c, 1, k))
  /\ idx' = idx + 1
  /\ UNCHANGED <<fs, data, allocated, written, st, last, pc, ftmp, errors, openErrors>>

\* Mutant: last is set to the first file instead of the last one.
StartLast_first == FileOrder[1]

\* End of the initial pass: return when no file is open and -F is not
\* given; otherwise last = the last file of the list.
StartLast == FileOrder[no_files]

StartDone ==
  /\ pc = "start"
  /\ idx = no_files + 1
  /\ IF ~Fflag /\ \A f \in Files : fp[f] = Closed
       THEN pc' = "done" /\ UNCHANGED <<last, idx>>
       ELSE /\ last' = StartLast
            /\ pc' = IF Fflag THEN "check" ELSE "show"
            /\ idx' = 1
  /\ UNCHANGED <<fs, data, allocated, written, fp, st, out, ftmp, errors, openErrors, skipped>>

\* Mutant: the loops stop one file short.
NextFile_short(here, next) ==
  IF idx < no_files - 1 THEN idx' = idx + 1 /\ pc' = here
                        ELSE idx' = 1 /\ pc' = next

\* i++, file++: on to the next file of this loop, or after the last one
\* to the loop that follows.
NextFile(here, next) ==
  IF idx < no_files THEN idx' = idx + 1 /\ pc' = here
                    ELSE idx' = 1 /\ pc' = next

\* Mutant: a newly opened file is positioned at its end.
Opened_atEnd(ino) == [ino |-> ino, off |-> Len(data[ino])]

Opened(ino) == [ino |-> ino, off |-> 0]

\* Mutant: the identity of the adopted stream is not recorded.
Snapshot_missing(f, ino) == st

\* memcpy(&file->st, &sb2, ...): the identity of the stream just adopted.
Snapshot(f, ino) == [st EXCEPT ![f] = ino]

\* What fileargs_fopen() and fstat() of path f give: the inode the path
\* names, or NoInode when it names none or, while the budget lasts, when
\* the open or the fstat of an existing file fails.
Opening(f) ==
  {fs[f]} \cup (IF fs[f] # NoInode /\ openErrors < MaxOpenErrors THEN {NoInode} ELSE {})

\* The failure budget spent by an open of f that gave ino.
CountOpen(f, ino) ==
  openErrors' = IF ino = NoInode /\ fs[f] # NoInode THEN openErrors + 1 ELSE openErrors

\* -F, fp == NULL: try to open the path again; if the open or the fstat
\* fails the stream stays NULL.
Reopen(f, ino) ==
  /\ fp[f] = Closed
  /\ IF ino # NoInode
       THEN fp' = [fp EXCEPT ![f] = Opened(ino)] /\ st' = Snapshot(f, ino)
       ELSE UNCHANGED <<fp, st>>
  /\ UNCHANGED <<out, last, errors>>

\* In the cases below ino is the inode ftmp opened (NoInode when
\* fileargs_fopen failed) and gone is sb2.st_nlink == 0.

\* -F, the path cannot be opened: show() drains what is left, then the
\* stream is closed and set NULL (whatever show() left of it).
Vanished(f, ino) ==
  /\ fp[f] # Closed
  /\ ino = NoInode
  /\ \E o \in Outcomes(f) : Show(f, o) /\ fp' = [fp EXCEPT ![f] = Closed]
  /\ UNCHANGED st

\* st_ino or st_dev differ (one device here), or st_nlink == 0.
Replaced(f, ino, gone) == ino # st[f] \/ gone

\* Mutant: the old stream is closed without being drained.
Rotated_nodrain(f, ino, gone) ==
  /\ fp[f] # Closed
  /\ ino # NoInode
  /\ Replaced(f, ino, gone)
  /\ fp' = [fp EXCEPT ![f] = Opened(ino)]
  /\ st' = Snapshot(f, ino)
  /\ UNCHANGED <<out, last, errors>>

\* -F, the path names another file: show() drains the old stream, which
\* is closed; ftmp is adopted with its identity.
Rotated(f, ino, gone) ==
  /\ fp[f] # Closed
  /\ ino # NoInode
  /\ Replaced(f, ino, gone)
  /\ \E o \in Outcomes(f) : Show(f, o) /\ fp' = [fp EXCEPT ![f] = Opened(ino)]
  /\ st' = Snapshot(f, ino)

\* -F, same file: ftmp is closed again.
Unchanged(f, ino, gone) ==
  /\ fp[f] # Closed
  /\ ino # NoInode
  /\ ~Replaced(f, ino, gone)
  /\ UNCHANGED <<fp, st, out, last, errors>>

\* The classification of an open stream once ftmp is known.
Classify(f, ino, gone) ==
  Vanished(f, ino) \/ Rotated(f, ino, gone) \/ Unchanged(f, ino, gone)

\* One iteration of the -F loop with fopen and fstat as one step: the inode
\* ftmp opened is still linked under the path, so st_nlink > 0.
CheckFile ==
  /\ pc = "check"
  /\ LET f == FileOrder[idx] IN
       \E ino \in Opening(f) :
         /\ \/ Reopen(f, ino)
            \/ ~SplitOpen /\ Classify(f, ino, FALSE)
         /\ CountOpen(f, ino)
  /\ NextFile("check", "show")
  /\ UNCHANGED <<fs, data, allocated, written, ftmp, skipped>>

\* ftmp = fileargs_fopen(fa, file->file_name, "r"): the inode the path
\* names now; other processes may act before the fstat.
OpenTmp ==
  /\ pc = "check" /\ SplitOpen
  /\ fp[FileOrder[idx]] # Closed
  /\ \E ino \in Opening(FileOrder[idx]) :
       ftmp' = ino /\ CountOpen(FileOrder[idx], ino)
  /\ pc' = "fstat"
  /\ UNCHANGED <<fs, data, allocated, written, fp, st, last, out, idx, errors, skipped>>

\* fstat(fileno(ftmp), &sb2): the identity of the inode opened.  Its link
\* count is 0 only if it was unlinked since; when no path of ours names it
\* any more it may have been unlinked or renamed elsewhere.
StatTmp ==
  /\ pc = "fstat"
  /\ \E gone \in IF ftmp # NoInode /\ ftmp \notin Range(fs) THEN BOOLEAN ELSE {FALSE} :
       Classify(FileOrder[idx], ftmp, gone)
  /\ ftmp' = NoInode
  /\ NextFile("check", "show")
  /\ UNCHANGED <<fs, data, allocated, written, openErrors, skipped>>

\* The second loop: show() every open file; after the last one, usleep()
\* and start the next round.
ShowFile ==
  /\ pc = "show"
  /\ LET f == FileOrder[idx] IN
       IF fp[f] # Closed
         THEN \E o \in Outcomes(f) : Show(f, o) /\ fp' = [fp EXCEPT ![f] = AfterShow(f, o)]
         ELSE UNCHANGED <<fp, out, last, errors>>
  /\ NextFile("show", IF Fflag THEN "check" ELSE "show")
  /\ UNCHANGED <<fs, data, allocated, written, st, ftmp, openErrors, skipped>>

\* follow() returned.
Terminated ==
  /\ pc = "done"
  /\ UNCHANGED vars

TailStep == StartFile \/ StartDone \/ CheckFile \/ OpenTmp \/ StatTmp \/ ShowFile

Next == TailStep \/ Environment \/ Terminated

\* tail is one process that never blocks for long (usleep returns), so it
\* keeps taking steps; the writers are not obliged to do anything.
Spec == Init /\ [][Next]_vars /\ WF_vars(TailStep)

--------------------------------------------------------------------------------
(* Properties.                                                             *)

TypeOK ==
  /\ fs \in [Files -> Inodes \cup {NoInode}]
  /\ data \in [Inodes -> Seq(ByteIds)]
  /\ allocated \subseteq Inodes
  /\ written \subseteq ByteIds
  /\ fp \in [Files -> {Closed} \cup [ino : Inodes, off : 0 .. MaxBytes]]
  /\ st \in [Files -> Inodes \cup {NoInode}]
  /\ last \in Files \cup {NoFile}
  /\ out \in Seq([kind : {"hdr", "byte"}, file : Files, id : 0 .. MaxBytes])
  /\ pc \in {"start", "check", "fstat", "show", "done"}
  /\ ftmp \in Inodes \cup {NoInode}
  /\ idx \in 1 .. no_files + 1
  /\ errors \in 0 .. MaxReadErrors
  /\ openErrors \in 0 .. MaxOpenErrors
  /\ skipped \subseteq ByteIds

\* No byte is printed twice: neither the identity check of -F nor reopening
\* a file may make tail print again what it printed before.
NoDuplicateOutput ==
  \A j, k \in DOMAIN out :
    (j < k /\ out[j].kind = "byte" /\ out[k].kind = "byte") => out[j].id # out[k].id

IsHeader(e) == e.kind = "hdr"

\* When headers are on, every printed byte is preceded by a header and the
\* nearest header before it names the file the byte was read from: the
\* `last' logic of show() and follow() never lets one file's bytes run on
\* under another file's header.
HeaderAttribution ==
  ShowHeaders =>
    \A k \in DOMAIN out :
      out[k].kind = "byte" =>
        LET h == SelectLastInSubSeq(out, 1, k, IsHeader)
        IN h # 0 /\ out[h].file = out[k].file

IsByte(e) == e.kind = "byte"

\* The ids of the bytes printed, headers left out.
PrintedBytes == LET bs == SelectSeq(out, IsByte) IN [k \in 1 .. Len(bs) |-> bs[k].id]

TO == INSTANCE TailOutput WITH data <- data, out <- PrintedBytes

\* tail's output implements TailOutput: of each file it prints one
\* contiguous run of the file's bytes in write order, starting wherever
\* forward() positioned the stream, with every show() continuing from where
\* the last one of that file stopped, across the -F reopen loop and the
\* first loop of follow().
ImplementsTailOutput == TO!Spec

\* Whenever tail lets go of a stream (the path vanished or names another
\* file under -F) without a read error, every byte of that file except
\* those the initial positioning skipped has been printed: show() drains
\* the old file before fclose() and before the new stream is adopted.
DrainedBeforeRelease ==
  [][\A f \in Files :
       (fp[f] # Closed /\ fp'[f].ino # fp[f].ino /\ errors' = errors)
         => ToSet(data[fp[f].ino]) \subseteq Printed(out') \cup skipped]_vars

\* The file tail follows for argument f: under -F whatever the path names
\* now, under -f the file opened at start.
Followed(f) == IF Fflag THEN fs[f] ELSE st[f]

CaughtUp ==
  \A f \in Files :
    Followed(f) # NoInode =>
      ToSet(data[Followed(f)]) \subseteq Printed(out) \cup skipped

\* Once the writers stop, tail eventually prints every byte of every file it
\* follows (other than the skipped prefix) and stays caught up.
EventuallyCaughtUp == <>[]CaughtUp

================================================================================
