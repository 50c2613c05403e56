# TLA+ models of tail's positioning and follow engine, and of strptime

This directory holds TLA+ models of the FreeBSD `tail` core in
`src/src.freebsd/coreutils/tail/forward.c` (the follow loop, `forward()`
and `rlines()`), and `_strptime()` of
`src/src.freebsd/compat/strptime.c`. TLC checks them. `PROJECT.json` lists
the components, runs, mutants, the map from definitions to source lines,
the findings and the hazards.

## 1. Inventory

### Components

| Component | Source | State it keeps | Operations |
|---|---|---|---|
| Offset Locator | `forward()` forward.c:88-176; `bytes()`, `lines()` in read.c (not under src/) | the stream position; the ring buffers of `bytes()`/`lines()` | one case per style: FBYTES, FLINES, RBYTES, RLINES, each for regular files and for pipes; then the drain at 168-175 |
| Reverse Scanner | `rlines()` forward.c:181-227; `maparound()`, `mapprint()` in misc.c (not under src/) | `struct mapinfo` (mapped window `[mapoff, mapoff+maplen)`), `curoff`, the remaining line count `off` | map a window around `curoff`, scan it backwards for the N-th `\n`, print from after it, seek the stream to `st_size`, unmap |
| Dumper | `show()` forward.c:229-252 and the drain at forward.c:168-175 | none of its own; it reads `file->fp` and writes stdout | copy to EOF; print a header when `last != file`; on `ferror` close the stream and set `fp = NULL` |
| Display cursor | `static const file_info_t *last`, forward.c:64 | the file whose bytes were printed last | set by `show()` (238) and by `follow()` (279) |
| Follow Loop | `follow()` forward.c:258-333 | per file: `fp`, `st` (identity from `fstat`); `active` | initial pass (header + `forward()` per open file); with `-F`, per file: reopen a closed path, or drain-and-close a vanished one, or drain-and-adopt a replaced one, or keep it; then `show()` every open file; `usleep(250000)` |
| Time parser | `_strptime`, `strptime_bsd`, `first_wday_of` in strptime.c | the `struct tm` fields, `flags`, `century`, `year`, `day_offset`, `week_offset` | one case per conversion; then the calendar completion (622-694). Nothing in this core calls it |

### Interactions

`main()` (tail.c, not under src/) opens each argument and calls `fstat`.
`follow()` then prints a header per open file and calls `forward()`. That
call positions the stream with the Offset Locator, which uses the Reverse
Scanner for the last N lines of a regular file, and drains it. `follow()`
then loops for ever. Under `-F` it re-opens each path and compares
`st_ino`/`st_dev`/`st_nlink` with the `st` it saved. In either mode it calls
`show()` on every open stream. All output shares one stdout. The `last`
pointer decides whether a header goes before the next byte.

Nothing in tail runs concurrently. The concurrency is with the other
processes that write, rename, unlink and truncate the files between any two
of tail's system calls. Faults come from the disk (a read returns an error)
and from the file system (a path vanishes or names a new inode).

### What is hard

* The order of the steps at a rotation. The old stream must be drained,
  then closed, then replaced. The identity saved in `st` must be refreshed
  at the same time, or every round looks like a rotation.
* The `last` cursor is process-wide. `follow()` sets it once, to the last
  argument, before the loop starts.
* Read errors. `show()` closes the stream, and what happens next depends on
  `-F`.
* Truncation in place keeps the identity, so the offset tail holds is stale.
* The backward scan's boundaries: the ignored last byte, a 1-byte file, a
  window edge, and the N-th newline. `st_size` was read at open time.
* The strptime calendar completion: week 0 and week 53, the day of the year
  past the end of the year, and leap years.

### What makes each component correct

* Follow Loop and Dumper:
  * no byte is printed twice;
  * every byte sits under its own file's header;
  * a stream is released only once it has been drained;
  * once the writers stop, every byte of every followed file is eventually
    printed.
* Offset Locator: the output is the suffix that the style and offset define,
  and it is the same for a regular file and for a pipe with the same content.
  Examples: the last N lines, the last min(N, L) bytes, everything after the
  N-th newline.
* Reverse Scanner: the offset it finds equals the reference "start of the
  last N lines, with the last byte ignored" for every window size. It never
  reads outside the mapped window, and it releases the mapping on every
  path.
* Time parser: the completed `tm_mon`/`tm_mday`/`tm_wday` agree with the
  calendar for the given year and day of the year. Every array index stays
  in bounds. A time given in another zone comes back as the same instant
  in local time.

## 2. Plan

Modules in order of importance:

1. **TailFollow** (done, section 3). It covers the Follow Loop, the
   Dumper's `show()` and the `last` cursor, against an environment of
   writers and a disk that can fail a read. MC module: `MCTailFollow`.
2. **TailForward** (done, section 4). It models the Offset Locator as operators
   over a file content, a sequence over {NL, X}: `forward()`'s eight cases,
   `bytes()` and `lines()` as ring buffers modelled from the spec, and the
   drain. Checks:
   * the regular-file and pipe paths agree;
   * each style matches its reference suffix over all contents of length
     at most 5 and offsets at most 4 (this covers the scenarios of spec
     section 8).
3. **TailRLines** (done, section 5). It models `rlines()` as a state machine over
   the mapped window (`mapoff`, `maplen`, `curoff`, `off`, `mapped`) with a
   window size constant. Checks:
   * the result equals the TailForward reference, for window sizes 1 to 3;
   * every read is inside the window (`map.start[i]`);
   * the mapping is released on every exit, including the error paths
     (hazard at 200/219).
4. **ReverseScanner** (done, section 5): the abstract contract of the
   Reverse Scanner, which TailRLines refines. **TailOutput** (done, section
   3): the output is an interleaving of contiguous, duplicate-free runs of
   each followed file, in write order. TailFollow implements it through
   `INSTANCE ... WITH`, with `out` mapped to the printed byte ids.
5. **Strptime** (done, section 6). `_strptime()` as a state machine: the
   format loop, the field conversions (with the C locale's names), the
   nested calls of `%+ %D %F %R %T %c %x %X %r`,
   and the completion at 622-694, checked against the independent
   `Calendar` module. The index into `start_of_month` is a checked bound.
   The zone conversions `%s %z %Z` and `strptime_bsd()`'s
   `localtime_r(timegm())` are modelled too, in a fixed-offset local zone.
6. A split `CheckFile` (done, section 3, `SplitOpen`) that makes `fopen`
   and `fstat` separate steps, to explore the `st_nlink == 0` window
   (hazard at 299). Also in section 3: failures to open an existing path
   (`MaxOpenErrors`). In section 5: a file that grows while `rlines()`
   runs (`MaxGrow`).

## 3. The TailFollow model

### State

| Variable | Code |
|---|---|
| `fs`, `data`, `allocated`, `written` | the file system: which inode each path names, and each inode's bytes. Each byte is a unique id, so output can be compared with input |
| `fp[f]` | `file->fp`: `Closed` (NULL) or `[ino, off]`, the open inode and the stream offset |
| `st[f]` | `file->st.st_ino` (one device, so `st_dev` never differs) |
| `last` | the static `last` |
| `out` | stdout: headers `==> f <==` and bytes, each tagged with the file it was printed for |
| `pc`, `idx` | which loop of `follow()` runs, and on which file (`i`) |
| `ftmp` | the inode `fileargs_fopen()` opened at 298, between it and the `fstat()` at 299 (only with `SplitOpen`) |
| `errors` | read errors so far, capped by `MaxReadErrors` |
| `openErrors` | failed opens or fstats of a path that exists, capped by `MaxOpenErrors` |
| `skipped` | history: bytes the initial positioning chose not to print |

### Actions

* `StartFile` is one iteration of the first loop (266-275). It prints a
  header and runs `forward()`. The model abstracts `forward()` to "skip any
  prefix, print the rest, leave the stream at EOF". Which prefix is skipped
  is the Offset Locator's job, modelled in TailForward.
* `StartDone` is 276-279: return, or `last = --file`.
* `CheckFile` is one iteration of the `-F` loop (283-326), with one
  disjunct per branch: `Reopen`, `Vanished`, `Rotated`, `Unchanged`.
  `Vanished` and `Rotated` call `show()` (`Show`) before they close or
  adopt, as the code does. The three branches after the open are one
  operator, `Classify(f, ino, gone)`, of the inode `ftmp` opened and of
  `sb2.st_nlink == 0`.
* `Opening(f)` is what `fileargs_fopen()` and `fstat()` give: the inode
  the path names, or no file. The open can fail even when the path exists
  (EACCES, EMFILE, EIO), while `openErrors < MaxOpenErrors`; such a
  failure is spent by `CountOpen`. A failed `fstat` after a successful
  open has the same effect (both lead to the same `fclose`, `NULL` and
  `show()`), so it is one outcome. `Reopen` and the `-F` classification
  both draw from it.
* With `SplitOpen = TRUE`, the open check of an open stream is two steps,
  so writers can act between them. `OpenTmp` (298) records in `ftmp` the
  inode the path names. `StatTmp` (299-300) classifies the stream with it.
  If no path names that inode any more, it was either unlinked or renamed
  away, and the model cannot tell which. So `gone` (`st_nlink == 0`) is
  then either value. With `SplitOpen = FALSE`, `CheckFile` does both
  steps in one, with `gone = FALSE`, because the inode is still linked.
* `ShowFile` is one iteration of the second loop (329-330). After the last
  file it also takes the `usleep` (332).
* `Show` is `show()`. It reads every available byte, or, while
  `errors < MaxReadErrors`, any n of them followed by a read error that
  closes the stream. It prints a header when `last # f`, and updates
  `last`.
* `Terminated` is the `return` at 277. It stutters.
* The environment has four actions:
  * `Write(i)` appends to any existing inode, including one that was
    unlinked but that a writer still holds;
  * `Unlink(f)` is `unlink` or `rename` away;
  * `Create(f)` makes a new inode at the path;
  * `Truncate(f)` empties the file in place, only when `AllowTruncate`.

### Fairness

`WF_vars(TailStep)`. tail is one process that never blocks indefinitely:
`usleep` returns, reads of regular files return, and `TailStep` is always
enabled. The writers get no fairness, since they may stop at any time.
`EventuallyCaughtUp` is `<>[]CaughtUp`, so it asks what holds once the
writers have stopped. The bounds make them stop.

### Bounds

* Two file arguments, `a` and `b`. That is the least that makes headers,
  `last` and the order of the loops matter.
* `MaxInodes = 4`, or 3 in `follow_F_faults`. That gives two original
  files plus one or two re-creations, enough for a rotation of either file,
  or two rotations of one.
* `MaxBytes = 3`, or 2 in `follow_F_faults`. 3 gives a byte before a rotation, a byte after it, and
  a byte in the other file, or a write, a truncation and a write.
* `MaxReadErrors` is 0 or 1. One error shows both of its consequences.
* `MaxOpenErrors` is 1 in `follow_F_faults` and 0 elsewhere. One failure
  takes the open stream through the vanished branch, or leaves a closed
  one closed for a round.

The counterexamples below are 9 to 17 steps long, and all bounds are
reached in the passing runs. Symmetry is not used: the argument order is
observable through `last` and the loop order.

### Runs

| Run | cfg | Expect | What it shows |
|---|---|---|---|
| follow_F | MCTailFollow_F.cfg | pass | `tail -F a b` with appends, unlinks, re-creations and truncations in place: `NoDuplicateOutput`, `HeaderAttribution`, `TypeOK` (1.5M states) |
| follow_F_faults | MCTailFollow_F_faults.cfg | pass | without truncation, with paths possibly missing at start, one failing read and the fopen/fstat of the check split in two (`SplitOpen`): nothing is lost (`EventuallyCaughtUp`, `DrainedBeforeRelease`) |
| follow_f | MCTailFollow_f.cfg | pass | `tail -f`: any presence at start, including none, which makes `follow()` return; files are followed after unlink. `NoDuplicateOutput`, `HeaderAttribution`, `EventuallyCaughtUp`, `ImplementsTailOutput` |
| header_missing | MCTailFollow_header.cfg | violation | `HeaderAttribution`: `b` is missing at start, and later its bytes print with no header |
| readerr_duplicate | MCTailFollow_F_readerr.cfg | violation | `NoDuplicateOutput`: under `-F` a read error makes the file print again from byte 0 |
| open_race | MCTailFollow_race.cfg | violation | `NoDuplicateOutput`: the path is unlinked between `fileargs_fopen()` and `fstat()`, and the followed inode is adopted again at offset 0 and reprinted |

### Findings

* **Missing header (code bug, forward.c:279).** `last = --file` points at
  the last argument even when that file was never opened. When it appears
  under `-F`, its first bytes run on under the previous file's header.
  Spec section 4.4 step 3 requires a header on the first byte of each file.
* **Truncation (divergence, forward.c:234).** No size check is made, so the
  stale offset skips new data. Spec section 1 says truncation is handled.
  `MCTailFollow_F.cfg` with `PROPERTY EventuallyCaughtUp` in place of its
  invariants shows this. TLC finds a 12-state counterexample: write, read,
  truncate, write. It is not kept as a run.
  For the same reason `DrainedBeforeRelease` fails when a truncated file is
  then rotated (the drain reads from the stale offset), so `follow_F`,
  the run with truncation, checks only `NoDuplicateOutput`,
  `HeaderAttribution` and `TypeOK`.
* **Read errors (divergence, forward.c:245).** `show()` closes the stream.
  Under `-F` the file is reprinted from the start (run `readerr_duplicate`);
  under `-f` it is never read again (the same cfg with `Fflag = FALSE`
  and `EventuallyCaughtUp` shows it; it is not kept as a separate run). Spec section 4.4 says a read error is retried on the next
  pass.
* **Failed open of an existing file (forward.c:301).** A transient open
  or `fstat` failure goes through the same branch as a vanished path:
  `show()`, `fclose`, `fp = NULL`. The next round reopens at offset 0.
  `follow_F_faults` shows that nothing is lost. `MCTailFollow_race.cfg`
  with `SplitOpen = FALSE` and `MaxOpenErrors = 1` shows the file printed
  twice, in 12 states. That has the same consequence as
  `readerr_duplicate`, so it is not kept as a run.
* **Unlink between open and fstat (code bug, forward.c:316).** If the
  path is unlinked after `fileargs_fopen()` (298) but before `fstat()`
  (299), `sb2` describes the followed inode itself, with `st_nlink == 0`.
  Line 316 takes that for a rotation. `show()` drains the stream, `ftmp`
  (the same inode, at offset 0) is adopted, and the next `show()` prints
  the file again (run `open_race`, 10 steps). The file was not replaced,
  so spec 4.4's "follow the new file from its start" does not apply.

### Refinement: TailOutput

`TailOutput` is what following promises about the bytes printed, with no
paths, streams or polling. Writers append fresh bytes to files
(`Write(i)`). The follower prints a chunk of one file at a time
(`PrintChunk(i)`). The first chunk of a file may start anywhere, because
the initial positioning may skip a prefix. Every later chunk of that file
must start right after the last byte of it printed. So of each file, tail
prints one contiguous run of its bytes in write order. That rules out
duplicates, reordering and gaps. `TailFollow` instantiates it with
`data <- data` and `out <- PrintedBytes` (the ids of the printed bytes,
headers left out). Tail's own steps print one chunk or nothing, and the
writers' `Write` is the abstract `Write`. `Unlink` and `Create` are
stutters.

`ImplementsTailOutput` (`TO!Spec`) is checked in `follow_f`. Under `-F`
it also holds without truncation and faults: `MCTailFollow_F.cfg` with
`AllowTruncate = FALSE` has 434,566 states. It is not kept as a separate
run. With truncation it fails at once, because a truncation is not an
append. With a read error or a failed open under `-F`, the reprint
breaks it as it breaks `NoDuplicateOutput`.

### Not modelled here

* Standard input (the skip at 296). `main()` in tail.c (not under src/)
  gives `follow()` standard input only when there is no file argument.
  Then it is the only tracked file, and under `-F` the loop only skips
  it, so what remains is the show loop of `-f` over one stream. Two things
  are left unchecked:
  * A read error makes `show()` `fclose()` standard input (241-245), though
    the spec (sections 3 and 6) says it is never closed.
  * The `fp == NULL` branch then reopens the name `stdin` by path.
* Errors inside `forward()` during the initial pass.
* Byte values and the header text: a header is one output element.

Files that are created and replaced within one poll interval, and writes
to an old file after tail has switched away, are inherent to polling.
No property claims them (see the hazards).

## 4. The TailForward model (Offset Locator)

`TailForward` has no variables. `forward()` is the operator
`Forward(style, off, regular, c)`, the bytes it prints for a file whose
content is `c`, a sequence over `{NL, X}`; `regular` is `S_ISREG`. Each
case of the `switch` is one operator:

| Operator | Code |
|---|---|
| `FBytes`, `SkipBytes` | FBYTES, 94-112: seek to `min(off, st_size)` on a regular file, else `getc` `off` times |
| `FLines`, `SkipLines` | FLINES, 113-127: read up to the `off`-th `\n` |
| `RBytes` | RBYTES, 128-144: `fseeko(-off, SEEK_END)` only when `st_size >= off`; on a pipe read all (`off == 0`) or `bytes()` |
| `RLines`, `RLinesStart`, `ScanBack` | RLINES, 145-163, and `rlines()`'s scan collapsed to one recursion over the whole file |
| `BytesRing`, `LinesRing` (+ helpers) | `bytes()` and `lines()` of read.c, from the spec: rings of `off` slots replayed from the oldest |
| `Drain` | the drain loop, 168-175 |

`Reference(style, n, c)` states what each style means (spec section 8)
without any loop: the last `min(n, L)` bytes, the text after the `n`-th
newline, the smallest start with fewer than `n` newlines between it and the
last byte. `MCTailForward` chooses every style, offset `0..4`, file kind and
content of length `0..5` in `Init`; one `Call` step evaluates `Forward`.

| Run | cfg | Expect | What it shows |
|---|---|---|---|
| forward | MCTailForward.cfg | pass | `ForwardMatchesReference`: all eight paths print the reference suffix, so a regular file and a pipe with the same content print the same thing (5040 states) |

The bounds reach an offset larger than the file, a file without a final
newline, a file of only newlines, a one-byte file and the empty regular
file (which takes the pipe path).

## 5. The TailRLines model (Reverse Scanner)

`TailRLines` is `rlines()` with one action per statement: `Begin`
(188-198), `Loop` (199-203: leave the loop, scan the current window, remap,
or a failed `maparound`), `Scan` (204-211: one iteration of the inner
`for`), `MapPrint` (212-216), `Seek` (218-222) and `Unmap` (223-226). The
variables are `curoff`, `off`, `i`, and the `mapinfo` fields `mapoff`,
`maplen` and `mapped` (`map.start != NULL`). `maparound(target)` is
modelled from the spec: it maps `W` bytes aligned below the target, clipped
to the file. Inputs (content up to 6 bytes, `n` in 1..3, `W` in 1..3) are
chosen in `Init`. Fairness is weak fairness of `Next`: `rlines()` is
sequential code that runs until it returns.

| Run | cfg | Expect | What it shows |
|---|---|---|---|
| rlines | MCTailRLines.cfg | pass | `maparound`, `mapprint` and `fseeko` may fail or not: `FindsLastLines` (whatever is printed starts at the TailForward reference offset, for every window size), `ReadsInWindow` (every `map.start[i]` read is in the window and never the last byte), `Terminates`, `ImplementsReverseScanner` (the refinement below) and `PrintsLastLines` (without a reported error, forward() prints exactly the last n lines of the file as `fstat` saw it, then exactly the bytes appended since; one byte may be appended) (57154 states) |
| rlines_redrain | MCTailRLines_redrain.cfg | violation | `PrintsEachByteOnce`: a failing `fseeko` after `mapprint` leaves the stream at 0, and forward()'s drain prints the whole file again |

### Composition with forward()

`ForwardRLines` extends `TailRLines` with the stream offset `pos`, the
output `out` (the file offsets printed, so that a byte printed twice shows)
and `drained`. `RLinesStep` is a step of `rlines()` together with its
effect on the stream: `mapprint` appends `[curoff, size)` to `out`, and a
successful `fseeko` sets `pos` to `st_size`. `DrainAfter` is forward()'s
drain (168-175) once `rlines()` has returned, not through `exit`. The
stream starts at 0, because main() opened it and the RLINES case reads
nothing before it calls `rlines()`. Only non-empty files are chosen,
since forward() calls `rlines()` only when `st_size > 0`.

A writer may append up to `MaxGrow` bytes at any time (`Appended`, which
has no fairness). `rlines()` keeps working from the `st_size` of
forward()'s `fstat` (`size`). Both the mapping and the seek use it. The
drain reads to the end of file as it is when the drain runs. `MaxGrow = 1`
in `rlines` is enough to put a byte past the stale size that only the
drain can print.

### Refinement

`ReverseScanner` is the contract of spec section 4.2, with no window and
no loop. For a non-empty file, one `Find` step sets the answer to the
start of the last n lines. `Return` follows that, or comes at once for an
empty file. `Fail` (window or seek) may end the call at any point, and
`Exit` (a failed write, which is fatal) may end it before anything is
printed. The call always ends (weak fairness). `TailRLines` instantiates
it with `answer <- printed`, and with `status` taken from `pc` ("ret" and
"exit" are themselves, anything else is "run"). `ImplementsReverseScanner`
(`RS!Spec`) is checked as a property of the `rlines` run. Together, the
refinement and `PrintsLastLines` say four things:
* the scan prints once, from the right offset;
* it never returns normally without printing a non-empty file;
* it exits only before printing;
* it always ends.

`MappingReleased` (the window is unmapped on every return) holds without
faults. TLC finds it violated with `SeekFails = TRUE` or
`MapFails = TRUE`, because the error returns at 200 and 221 skip the
`munmap` at 223. Spec section 2 (WindowedView) requires the release on
every exit path. The same `fseeko` failure is kept as the run
`rlines_redrain`, where its visible consequence is checked.

Window sizes 1 to 3 over files of up to 6 bytes put the `n`-th newline
inside a window, on a window edge, and in a window that has to be remapped
several times.

**Finding (code bug, forward.c:220).** `rlines()` is `void`. When
`fseeko` fails after `mapprint` has printed the last lines, it returns
with the stream at offset 0, and forward() drains it: the whole file is
printed after its last lines. Spec 4.2 prints only the last N lines, and
4.3 says a failure aborts only that file's output. The window also stays
mapped (see above).

Not modelled: a file that changes size during the call (`st_size` is read
at open time).

## 6. The Strptime model (Time parser)

`Strptime` is `_strptime()` (strptime.c:88-697), one action per branch of
the loop and per case of the `switch`, wrapped by `strptime_bsd()`
(697-716). `Calendar` is an independent proleptic Gregorian calendar.
It also gives the C library's `gmtime_r()`, `timegm()` and `localtime_r()`
(`BrokenDown`, `TimeGm`, `LocalTime`), with an instant counted as a day
since 1970 and a second of that day. `MCStrptime` renders inputs and
states the properties.

### State

| Variable | Code |
|---|---|
| `format`, `input` | the arguments of the outer call, chosen in `Init` from `Cases` |
| `buf` | the input pointer `buf`, as the sequence still to read (`<<>>` is the NUL) |
| `tm` | `*tm`, shared by every call; starts as the caller's `InitTm` (all zero) |
| `stack` | one frame per active `_strptime` call: its `ptr` (`fmt`), `flags`, `century`, `year`, `day_offset` (`doff`), `week_offset` (`woff`), `Ealternative`/`Oalternative` (`alt`), the month index `i`, and `pc` |
| `reads` | history: every index read from `start_of_month[leap]` |
| `gmt` | `*GMTp`, set by `%s`, `%z` and `%Z` GMT/UTC in any call |
| `ret` | `strptime_bsd()` has returned |

The local zone is given by constants: `TzName` is `tzname[]` after
`tzset()`, and `LocalOffset` is its offset. Here that is Asia/Tokyo:
JST/JDT, +540 minutes, with no daylight saving time since 1951, so
`localtime_r()` adds the offset and sets `tm_isdst = 0`. `UpperWords`
are the input tokens made only of upper-case letters, which is the run
`%Z` reads.

Characters are one-character strings. The strings `nl_langinfo()` returns
come from the C locale. These are AM and PM, the day and month names and
their abbreviations (`DayName`, `DayAbbr`, `MonName`, `MonAbbr`). Each is
a single token, and `strncasecmp(buf, ex, strlen(ex))` is a match of the
next token. In the C locale no name is a prefix of another one's string,
except that the full name "May" is its own abbreviation.

### Actions

* `Literal` (109-120): a space skips white space; another character must
  match, or the call fails.
* `Percent` (122-126), `FormatEnd` (the end of `while (*ptr != 0)`).
* One action per conversion: `ConvPercent`, `ConvC`, `ConvJ`, `ConvMS`,
  `ConvHour`, `ConvP`, `ConvWeek`, `ConvWday`, `ConvMday`, `ConvMon`,
  `ConvYear`, `ConvSpace`, `ConvDayName` (`%A`/`%a`, 340-358),
  `ConvMonName` (`%B`/`%b`/`%h`, 443-480), `ConvAlt` (`%E`/`%O`),
  `ConvDefault`. `ConvDayName` tries each day's full name and then its
  abbreviation. `ConvMonName` tries the full names, and then the
  abbreviations unless `%O` was given. Under `%O` only `%OB` tries names
  at all. `FirstOf` is their `for (...) if (match) break;` loops. Digit
  fields use `ScanDigits`, the code's `for (i = 0; len && isdigit(*buf);
  buf++)` loop.
* `ConvS` (500-522): `ScanLong` is `strtol()`, which reads white space, a
  sign and every digit. If there is no digit it reads nothing and gives 0.
  `gmtime_r()` then fills all of `tm`, and the action sets `gmt` and five flags.
* `ConvZone` (`%Z`, 548-572): an empty run of capitals is accepted and
  reads nothing. GMT and UTC set `gmt`, `tzname[0]` and `tzname[1]` set
  `tm_isdst`, and any other run fails.
* `ConvZ` (`%z`, 574-607): `OffsetDigits` is the `len` loop. It reads
  four digits, or two followed by `i *= 100`. `OffsetOK` holds the bounds.
  The offset is subtracted from `tm_hour` and `tm_min` and `gmt` is set.
* `ConvCall` pushes a frame for the format of `%D %F %R %T`, of `%+`
  (`_DATE_FMT`, or the same `%a %b %e %H:%M:%S %Z %Y` where it is not
  defined), or of
  `%c %x %X %r`, which is the C locale's `D_T_FMT` (`%a %b %e %H:%M:%S %Y`),
  `D_FMT`, `T_FMT` or `T_FMT_AMPM`. `Return` pops the frame.
  A `NULL` result fails the caller; otherwise the caller
  adds the call's flags. The nested call runs its own completion on the
  shared `tm`, as in the code.
* The completion is one action per block: `Century` (622-631),
  `YdayFromDate` (633-664), `MonthStart`/`MonthScan` (666-682), then
  `MdayFromYday` (683-688) and `WdayFromYday` (689-693).
* `MonthScan` is one iteration of the month search at 669. `start_of_month`
  is laid out as its 26 ints in memory. A read past them is undefined
  behaviour, so the loop test there is any outcome, up to the index bound
  `MaxScanIndex = 27`.
* `StrptimeBsd` (697-716): if the outer call returned a pointer and `gmt`
  is set, it calls `localtime_r(timegm(tm))`. `timegm()` carries the
  out-of-range hour and minute that `%z` leaves.
* `Returned` stutters once `strptime_bsd()` has returned.

### Properties

* `CompletionCorrect`: when the call succeeds on a whole input whose fields
  name a day, `tm_year`, `tm_yday`, `tm_mon`, `tm_mday` and `tm_wday` are
  that day's. The day is computed by `Calendar` from the given values
  (`%U`/`%W` weeks as strftime prints them), never from the code's tables.
* `NeverRejectsValid`: a whole input with every field in range, that names
  an existing day, in a format of handled conversions, is never rejected
  (this includes the week-0 checks at 644 and 656).
* `TimeCorrect`: the hour, minute and second are the ones written (`%H`,
  `%k`, `%I` with or without `%p`, `%M`, `%S`).
  This property and `CompletionCorrect` are stated for calls that did not
  set `*GMTp`.
* `ZoneCorrect`: what `strptime_bsd()` returns is the named instant in
  local time. For `%s` that is the Epoch seconds. For a date and time
  with a `%z` offset, or with `%Z` GMT or UTC, it is the written instant.
  The local zone's own `%Z` names set only `tm_isdst`. The whole `tm` is
  compared, so the sign of hours and minutes, the `+hh` scaling, and the
  carries across day, month, leap day and year all count.
* `IndexInBounds`: every index into `start_of_month[leap]` is in 0..12.
* `TypeOK`: the stack depth, the control points and `tm_mon` in 0..11.

### Inputs and bounds

`MakeCases` renders every assignment of the values below to the fields of
a format the way strftime prints them (zero-padded, `%e`/`%k` blank-padded),
and for two date formats and one time format also every proper prefix.
The values are the edges: the years 1900 (not leap), 2000 (leap), 2023,
2024; `%y` 0, 68, 69, 99 (the 69 pivot); months 1, 2, 12 and the invalid
13; days 1, 29, 31; `%j` 1, 60, 365, 366; weeks 0, 1, 52, 53 with every
week day; hours 0, 23, 24 and 12-hour 0, 1, 11, 12 with AM and PM; every
day name, and month names of January, February, May, June and December.
A rendered day name is any of the seven, so most `%c` inputs name a week
day other than the date's. `Designated` counts those as naming no day, so
`CompletionCorrect` claims nothing for them. `%c` is also tried on every
prefix of one input, so that a name test fails on a short input.
The zone inputs are these:
* `%Y-%m-%d %H:%M:%S %z` at the first and last day of a month, 29
  February, midnight, 23:59 and second 60. The offsets are +0000, +0530,
  -0330, +1400, -1200, and the rejected -1300, +1460 and +1500.
* `%FT%T%z` with the ISO 8601 hours-only offsets +05 and -08.
* `%+` with each `%Z` name: empty, GMT, UTC, JST, JDT, EST and AM.
* `%s` at 0, -1, 2000-02-29 15:00 UTC (00:00 on 1 March in Tokyo) and
  2^31 - 1.

`%Ob` and `%Oh` are not given: the code rejects every input for them (only
`%OB` is tried under `%O`), and strptime(3) does not list them.

| Run | cfg | Expect | What it shows |
|---|---|---|---|
| strptime | MCStrptime.cfg | pass | the date formats `%Y-%m-%d`, `%F`, `%D`, `%Y %j`, `%y %j`, `%Y %U %w`, `%Y %W %u`, `%Y %U`, `%Y %W`, `%C %y %m %e`, `%EY %j` and the time formats `%I:%M %p`, `%T`, `%R%n%%`, `%k:%M`, `%H%t%S`, `%Q`, `%Y%`, and with names `%c`, `%A %B %d %Y`, `%Y %U %a`, `%OB %d %Y`, `%h %e %y`, `%x %r`, `%X`, and the zone formats `%Y-%m-%d %H:%M:%S %z`, `%FT%T%z`, `%+`, `%s`: `CompletionCorrect`, `NeverRejectsValid`, `TimeCorrect`, `ZoneCorrect`, `TypeOK` (59279 states) |
| strptime_yday366 | MCStrptime_yday366.cfg | violation | `IndexInBounds`: `2023 366` under `%Y %j` reads `start_of_month[0][13]` |
| strptime_cd | MCStrptime_cd.cfg | violation | `CompletionCorrect`: `20 02/29/24` under `%C %D` gives the year 2000 |

### Findings

* **Unbounded month search (code bug, strptime.c:669).** Day 366 of a
  common year reads `start_of_month[0][13]`. That is the first int of the
  next row, 0, so the loop wraps. With `%U`/`%W` week 53 and a late week day
  in a leap year, the day of the year is past 366 and the loop reads beyond
  the whole array, which is undefined behaviour.
* **`%C` with `%D` (divergence, strptime.c:169).** The nested call parses
  `%y` into its own local `year` and sets `tm_year` to 124. The outer call
  then sees `century = 20`, `year = -1`, and overwrites `tm_year` with
  100. strptime(3) says `%D` is `%m/%d/%y`, and `%C %m/%d/%y` gives 2024.
* **Year 0 (code bug, strptime.c:82).** `first_wday_of(0)` applies C's
  truncating `%` to -1 and returns 0, Sunday. 1 January of year 0 was a
  Saturday. Substituting `Cases <- CasesYear0` (`%Y %j` on `0000 001`) in
  the date cfg makes TLC report `CompletionCorrect` violated (`tm_wday` 0,
  reference 6). It is not kept as a separate run.
* **`%p` before the hour (strptime.c:317).** The XXX comment at 313
  admits it. With `Cases <- CasesAmPm` (`%p %I` on `PM 11`), `TimeCorrect`
  is violated: `tm_hour` is 11.
* **`%z` before the time (strptime.c:604).** Nothing in the code prevents
  the same order dependence. `%z %H:%M` subtracts the offset from the
  caller's `tm_hour`, and `%H` then overwrites it. `*GMTp` is still set,
  so `strptime_bsd()` converts the local clock time as if it were UTC. The
  cases keep `%z` after the time, as ISO 8601 and strftime write it.
  `ZoneCorrect` claims nothing for the other order. With `%z %F %T` on
  `+0530 2024-02-29 23:59:60`, TLC reports it violated: the result is
  5 h 30 min late.

### Not modelled

* Locales other than C.
* Zones with daylight saving time. `localtime_r()` would choose
  `tm_isdst` by date, and the zone database is outside the code.
* `strtol()`'s `ERANGE` and a failing `gmtime_r()`. They need numbers far
  beyond TLC's integers.
* The case-insensitive matching of AM, PM and the names: each is one
  token, written the way strftime writes it.
