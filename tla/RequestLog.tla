------------------------------ MODULE RequestLog ------------------------------
(***************************************************************************)
(* The request log of a hosted edge: the sink that appends one line per    *)
(* event and rotates the file (internal/reqlog/file.go), and the shipper   *)
(* that follows it with a persisted cursor and posts the lines to the      *)
(* control plane (internal/reqlog/shipper.go), as startRequestPipeline     *)
(* (cmd/beamd/main.go) wires them: a tailed sink and one shipper.          *)
(*                                                                         *)
(* Files are inodes that hold complete lines; <path> and <path>.1 are two  *)
(* names for them.  An offset counts complete lines.  The process may be   *)
(* killed between any two file operations: the files and the cursor stay,  *)
(* buffers and the memory of both goroutines do not.  The file system,     *)
(* which may fail a call and give the number of a removed file out again,  *)
(* and the control plane, which drops duplicates by request_id, are        *)
(* external.                                                               *)
(***************************************************************************)
EXTENDS Integers, Sequences, FiniteSets

CONSTANTS
    MaxEvents,      \* bound: events are numbered in the order recorded
    MaxInode,       \* bound: inode numbers the file system has
    MaxStops,       \* bound: kills and orderly stops of the process
    Buffer,         \* capacity of FileSink.ch
    MaxBytes,       \* rotation threshold, in lines
    BatchSize       \* lines per post

ASSUME LogBounds ==
    /\ MaxEvents \in Nat /\ MaxInode \in Nat \ {0} /\ MaxStops \in Nat
    /\ Buffer \in Nat \ {0} /\ MaxBytes \in Nat \ {0}
    /\ BatchSize \in Nat \ {0}

\* A complete line is an event, or what a fragment and an event after it make.
Event == 1..MaxEvents
Corrupt == 0
Line == Event \cup {Corrupt}
Inode == 1..MaxInode
NoFile == 0

VARIABLES
    content,        \* the complete lines of each inode
    log, dot1,      \* the inodes named <path> and <path>.1
    torn,           \* <path> ends in part of a line
    joined,         \* ... which is not the open writer's: the next joins it
    cursorFile,     \* the persisted cursor
    running,        \* the process runs
    stopping,       \* FileSink.Close was called
    sink,           \* where the writer goroutine is
    f,              \* the file it has open
    queue,          \* FileSink.ch
    buf,            \* lines that bufio.Writer still holds some byte of
    pending,        \* run's pending
    writeFailed,    \* run's writeFailed
    dropped,        \* FileSink.dropped
    uncounted,      \* history: losses the code does not count
    first, next,    \* the events this process has recorded: first .. next - 1
    ship,           \* where the shipper is
    cur,            \* drain's cur
    old,            \* drain's old
    ino,            \* drain's sample of <path>'s inode
    path,           \* what drainFile reads, and through which cursor
    batch,          \* the lines in hand
    received,       \* events the control plane has
    stops,
    healthy,        \* the last failure of disk and control plane is over
    lapsed,         \* history: the file system has misled the code for good
    stuck           \* history: drain went past the <path>.1 that is there

diskVars == <<content, log, dot1, torn, joined>>
writerVars == <<f, buf, pending, writeFailed, dropped, uncounted>>
sinkVars == <<stopping, sink, queue, first, next, writerVars>>
shipVars == <<ship, cur, old, ino, path, batch>>
processVars == <<running, stops, healthy>>
logVars == <<diskVars, cursorFile, processVars, sinkVars, shipVars, received,
             lapsed, stuck>>

NoCursor == [ino |-> NoFile, off |-> 0]

LogInit ==
    /\ content = [i \in Inode |-> <<>>]
    /\ log = 1 /\ dot1 = NoFile /\ torn = FALSE /\ joined = FALSE
    /\ cursorFile = NoCursor
    /\ running = TRUE /\ stops = 0 /\ healthy = FALSE
    /\ stopping = FALSE /\ sink = "run" /\ f = 1 /\ queue = <<>> /\ buf = <<>>
    /\ pending = 0 /\ writeFailed = FALSE /\ dropped = 0 /\ uncounted = 0
    /\ first = 1 /\ next = 1
    /\ ship = "idle" /\ cur = NoCursor /\ old = NoCursor /\ ino = NoFile
    /\ path = "log" /\ batch = <<>>
    /\ received = {} /\ lapsed = FALSE /\ stuck = FALSE

-----------------------------------------------------------------------------
(* The file system                                                         *)

\* The first k buffered lines, as they come to stand in the file: the first of
\* them joins a fragment that is not its own.
Written(k) == [j \in 1..k |-> IF joined /\ j = 1 THEN Corrupt ELSE buf[j]]
Joined(k) == IF joined /\ k > 0 THEN 1 ELSE 0

\* They reach the file, and part of the next line if t; an event that joined a
\* fragment is lost, and nothing counts it.
Pour(k) == content' = [content EXCEPT ![f] = @ \o Written(k)]
Fragment(k, t) == t \/ (joined /\ k = 0)
Spill(k, t) ==
    /\ Pour(k)
    /\ torn' = Fragment(k, t)
    /\ joined' = (joined /\ k = 0)

\* What a failed write may leave behind: a proper prefix of what was to go.
Partial(k, t) == ~healthy /\ k < Len(buf) /\ ((k = 0 /\ torn) => t)

\* A flush whose error nobody looks at: all of the buffer, or part of it.
FlushIgnored(k, t) == (k = Len(buf) /\ ~t) \/ Partial(k, t)

\* openOrErr: truncate a torn tail, whatever comes of it, then open or create
\* <path>.  torn is what the tail is by now, n the losses counted by now.  The
\* new file may have the number of one that was removed, and a cursor may still
\* name that number; of the numbers nothing names, which are alike, it has the
\* lowest.
Named == {log, dot1, cursorFile.ino, cur.ino, old.ino, ino}
openOrErr(ok, repaired, tail, n) ==
    /\ (healthy => ok /\ repaired) /\ (~tail => repaired)
    /\ torn' = ~repaired
    /\ joined' = (ok /\ ~repaired)
    /\ dropped' = n + (IF tail /\ repaired THEN 1 ELSE 0)
    /\ IF ok /\ log = NoFile
         THEN /\ log' \in {i \in Inode \ {dot1} :
                           i \in Named \/ \A j \in Inode \ Named : i <= j}
              /\ lapsed' = (lapsed \/ log' \in {cursorFile.ino, cur.ino, old.ino})
         ELSE UNCHANGED <<log, lapsed>>
    /\ f' = IF ok THEN log' ELSE NoFile

-----------------------------------------------------------------------------
(* The sink                                                                *)

\* Record never blocks: a full channel drops the event and counts it.
Record ==
    /\ running /\ ~stopping /\ next <= MaxEvents
    /\ next' = next + 1
    /\ IF Len(queue) < Buffer
         THEN queue' = Append(queue, next) /\ UNCHANGED dropped
         ELSE dropped' = dropped + 1 /\ UNCHANGED queue
    /\ UNCHANGED <<diskVars, cursorFile, processVars, stopping, sink, first, f,
                   buf, pending, writeFailed, uncounted, shipVars, received,
                   lapsed, stuck>>

\* writeOne without a file, or with a writer whose error has latched.
WriteDropped ==
    /\ running /\ sink = "run" /\ queue # <<>>
    /\ f = NoFile \/ writeFailed
    /\ queue' = Tail(queue)
    /\ dropped' = dropped + 1
    /\ UNCHANGED <<diskVars, cursorFile, processVars, stopping, sink, first,
                   next, f, buf, pending, writeFailed, uncounted, shipVars,
                   received, lapsed, stuck>>

\* The buffer takes the line; when it overflows, all before the line and part
\* of it go to the file.
Take(spill) ==
    IF spill
      THEN /\ Spill(Len(buf), TRUE)
           /\ buf' = <<Head(queue)>>
           /\ uncounted' = uncounted + Joined(Len(buf))
      ELSE /\ buf' = Append(buf, Head(queue))
           /\ UNCHANGED <<content, torn, joined, uncounted>>

\* The size the writer knows has reached the threshold.
Full == Len(content'[f]) + Len(buf') >= MaxBytes

\* Mutant: the unshipped <path>.1 is not looked for.
WriteOne_Clobber(spill, seen) ==
    /\ running /\ sink = "run" /\ queue # <<>> /\ f # NoFile /\ ~writeFailed
    /\ seen
    /\ queue' = Tail(queue)
    /\ Take(spill)
    /\ pending' = pending + 1
    /\ sink' = IF Full THEN "rotate" ELSE "run"
    /\ UNCHANGED <<log, dot1, cursorFile, processVars, stopping, first, next,
                   f, writeFailed, dropped, shipVars, received, lapsed, stuck>>

\* writeOne appends a line.  Past the threshold it rotates, unless the shipper
\* has not finished <path>.1; a Stat that fails is taken for no <path>.1.
WriteOne(spill, seen) ==
    /\ running /\ sink = "run" /\ queue # <<>> /\ f # NoFile /\ ~writeFailed
    /\ queue' = Tail(queue)
    /\ Take(spill)
    /\ pending' = pending + 1
    /\ seen \/ (~healthy /\ Full /\ dot1 # NoFile)
    /\ sink' = IF Full /\ (dot1 = NoFile \/ ~seen) THEN "rotate" ELSE "run"
    /\ lapsed' = (lapsed \/ ~seen)
    /\ UNCHANGED <<log, dot1, cursorFile, processVars, stopping, first, next,
                   f, writeFailed, dropped, shipVars, received, stuck>>

\* The overflowing buffer cannot be written: the event is counted, the writer
\* is replaced at the next tick.
WriteError(k, t) ==
    /\ running /\ sink = "run" /\ queue # <<>> /\ f # NoFile /\ ~writeFailed
    /\ ~healthy /\ ((k = 0 /\ torn) => t)
    /\ Spill(k, t)
    /\ queue' = Tail(queue)
    /\ buf' = SubSeq(buf, k + 1, Len(buf))
    /\ dropped' = dropped + 1 /\ uncounted' = uncounted + Joined(k)
    /\ writeFailed' = TRUE
    /\ UNCHANGED <<log, dot1, cursorFile, processVars, stopping, sink, first,
                   next, f, pending, shipVars, received, lapsed, stuck>>

\* rotate, first part: flush (an error is ignored), close, rename, over a
\* <path>.1 that was not seen; the caller forgets what was pending.
Rotate(k, t, renamed) ==
    /\ running /\ sink = "rotate"
    /\ FlushIgnored(k, t) /\ (healthy => renamed)
    /\ uncounted' = uncounted + Len(buf) - k + Joined(k)
    /\ IF renamed
         THEN /\ content' = [i \in Inode |-> IF i = f THEN content[f] \o Written(k)
                                             ELSE IF i = dot1 THEN <<>>
                                             ELSE content[i]]
              /\ dot1' = log /\ log' = NoFile /\ torn' = FALSE /\ joined' = FALSE
         ELSE /\ Pour(k) /\ torn' = Fragment(k, t) /\ joined' = FALSE
              /\ UNCHANGED <<dot1, log>>
    /\ f' = NoFile /\ buf' = <<>> /\ pending' = 0
    /\ sink' = "open"
    /\ UNCHANGED <<cursorFile, processVars, stopping, queue, first, next,
                   writeFailed, dropped, shipVars, received, lapsed, stuck>>

\* rotate, last part: a fresh file, or none until a later tick.
Opened(ok, repaired) ==
    /\ running /\ sink = "open"
    /\ openOrErr(ok, repaired, torn, dropped)
    /\ sink' = "run"
    /\ UNCHANGED <<content, dot1, cursorFile, processVars, stopping, queue,
                   first, next, buf, pending, writeFailed, uncounted, shipVars,
                   received, stuck>>

\* flushTick: the buffer reaches the file.
Flush ==
    /\ running /\ sink = "run" /\ f # NoFile /\ ~writeFailed
    /\ Spill(Len(buf), FALSE)
    /\ buf' = <<>> /\ pending' = 0
    /\ uncounted' = uncounted + Joined(Len(buf))
    /\ UNCHANGED <<log, dot1, cursorFile, processVars, stopping, sink, queue,
                   first, next, f, writeFailed, dropped, shipVars, received,
                   lapsed, stuck>>

\* Mutant: the abandoned buffer is not counted.
reopen_Uncounted(ok, repaired, tail) ==
    /\ openOrErr(ok, repaired, tail, dropped)
    /\ pending' = 0 /\ writeFailed' = FALSE /\ buf' = <<>>

\* reopen abandons the writer, counts what was pending and starts over.
reopen(ok, repaired, tail) ==
    /\ openOrErr(ok, repaired, tail, dropped + pending)
    /\ pending' = 0 /\ writeFailed' = FALSE /\ buf' = <<>>

\* flushTick: the flush fails after part of the buffer, and run reopens.
FlushError(k, t, ok, repaired) ==
    /\ running /\ sink = "run" /\ f # NoFile /\ ~writeFailed
    /\ Partial(k, t)
    /\ Pour(k)
    /\ uncounted' = uncounted + Joined(k)
    /\ reopen(ok, repaired, Fragment(k, t))
    /\ UNCHANGED <<dot1, cursorFile, processVars, stopping, sink, queue,
                   first, next, shipVars, received, stuck>>

\* flushTick replaces a failed writer, or opens the file that is missing
\* (nothing is pending then).
TickReopen(ok, repaired) ==
    /\ running /\ sink = "run" /\ (writeFailed \/ f = NoFile)
    /\ reopen(ok, repaired, torn)
    /\ UNCHANGED <<content, dot1, cursorFile, processVars, stopping, sink,
                   queue, first, next, uncounted, shipVars, received, stuck>>

-----------------------------------------------------------------------------
(* The shipper                                                             *)

\* The cursor drainFile advances, and the file it reads through it.
Reading == IF path = "old" THEN old ELSE cur
FileRead == IF path = "log" THEN log ELSE dot1

MoveTo(off) ==
    IF path = "old" THEN old' = [old EXCEPT !.off = off] /\ UNCHANGED cur
                    ELSE cur' = [cur EXCEPT !.off = off] /\ UNCHANGED old

\* drain returns: its locals are gone, cur is what it returns.
DrainReturns ==
    /\ ship' = "idle" /\ path' = "log"
    /\ old' = NoCursor /\ ino' = NoFile /\ batch' = <<>>
    /\ UNCHANGED cur

\* drain samples the inode of <path>, which may be missing in a rotation.
DrainBegin ==
    /\ running /\ ship = "idle" /\ log # NoFile
    /\ ino' = log
    /\ ship' = "resolve"
    /\ UNCHANGED <<diskVars, cursorFile, processVars, sinkVars, cur, old, path,
                   batch, received, lapsed, stuck>>

\* Where drain goes on: in <path> if that is the cursor's generation, in a
\* <path>.1 it has found, or straight to the adoption of the sampled file.
Continue(found) ==
    /\ running /\ ship = "resolve"
    /\ IF cur.ino = ino
         THEN ship' = "read" /\ path' = "log" /\ UNCHANGED old
         ELSE IF ~found
         THEN ship' = "adopt" /\ UNCHANGED <<path, old>>
         ELSE /\ ship' = "read"
              /\ path' = IF dot1 = cur.ino THEN "tracked" ELSE "old"
              /\ old' = [ino |-> dot1, off |-> 0]
    /\ UNCHANGED <<diskVars, cursorFile, processVars, sinkVars, cur, ino,
                   batch, received, lapsed>>

\* Mutant: a fresh cursor ignores a <path>.1 that is already there.
Resolve_SkipOld(seen) ==
    /\ seen
    /\ Continue(dot1 # NoFile /\ cur.ino # NoFile)
    /\ stuck' = (cur.ino = ino /\ stuck)

\* drain follows rotation: <path>.1 first, from the cursor if it is the
\* cursor's generation and from the start if it is not, then <path>.  A Stat
\* that fails is taken for no <path>.1.
Resolve(seen) ==
    /\ seen \/ (~healthy /\ dot1 # NoFile /\ cur.ino # ino)
    /\ Continue(seen /\ dot1 # NoFile)
    /\ stuck' = IF cur.ino = ino THEN stuck ELSE ~seen

\* readBatch, and what drainFile does with its answer: a missing or exhausted
\* file is drained, another generation is left for the next tick, an offset
\* past the end starts over, and complete lines are shipped.
readBatch ==
    /\ running /\ ship = "read"
    /\ LET left == Len(content[Reading.ino]) - Reading.off
           drained == FileRead = NoFile \/ (FileRead = Reading.ino /\ left = 0)
           taken == IF left < BatchSize THEN left ELSE BatchSize
       IN  \/ /\ drained /\ path # "log"
              /\ ship' = "remove"
              /\ UNCHANGED <<cur, old, ino, path, batch>>
           \/ /\ (drained /\ path = "log") \/ FileRead \notin {NoFile, Reading.ino}
              /\ DrainReturns
           \/ /\ FileRead = Reading.ino /\ ~drained
              /\ IF left < 0
                   THEN MoveTo(0) /\ ship' = "save" /\ UNCHANGED batch
                   ELSE /\ batch' = SubSeq(content[Reading.ino], Reading.off + 1,
                                           Reading.off + taken)
                        /\ ship' = "ship"
                        /\ UNCHANGED <<cur, old>>
              /\ UNCHANGED <<ino, path>>
    /\ UNCHANGED <<diskVars, cursorFile, processVars, sinkVars, received, lapsed,
                   stuck>>

\* A transient read error: the next tick tries again.
ReadError ==
    /\ running /\ ship = "read" /\ ~healthy
    /\ DrainReturns
    /\ UNCHANGED <<diskVars, cursorFile, processVars, sinkVars, received, lapsed,
                   stuck>>

\* The lines that are posted: drainFile skips the corrupt ones.
Elements(s) == {s[k] : k \in DOMAIN s}
Batch == Elements(batch) \ {Corrupt}

\* Mutant: the cursor advances whatever the control plane answered.
Ship_Advance(got, ok) ==
    /\ running /\ ship = "ship" /\ (ok => got) /\ (healthy => ok)
    /\ received' = IF got THEN received \cup Batch ELSE received
    /\ batch' = <<>>
    /\ MoveTo(Reading.off + Len(batch)) /\ ship' = "save"
    /\ UNCHANGED <<diskVars, cursorFile, processVars, sinkVars, ino, path, lapsed,
                   stuck>>

\* ship posts the batch, if anything of it is left.  The control plane may have
\* it although the answer was lost or bad; only a 2xx moves the cursor.
Ship(got, ok) ==
    /\ running /\ ship = "ship" /\ (ok => got)
    /\ (healthy \/ Batch = {}) => ok
    /\ received' = IF got THEN received \cup Batch ELSE received
    /\ IF ok THEN /\ MoveTo(Reading.off + Len(batch))
                  /\ ship' = "save" /\ batch' = <<>> /\ UNCHANGED <<ino, path>>
             ELSE DrainReturns
    /\ UNCHANGED <<diskVars, cursorFile, processVars, sinkVars, lapsed, stuck>>

\* saveCursor replaces the file atomically, or fails and leaves it.
saveCursor(ok) ==
    /\ running /\ ship = "save" /\ (healthy => ok)
    /\ cursorFile' = IF ok THEN Reading ELSE cursorFile
    /\ ship' = "read"
    /\ UNCHANGED <<diskVars, processVars, sinkVars, cur, old, ino, path, batch,
                   received, lapsed, stuck>>

\* <path>.1 is drained: remove it, so that the sink can rotate again, whether
\* that succeeds or not ...
RemoveOld(ok) ==
    /\ running /\ ship = "remove" /\ (healthy => ok)
    /\ IF ok THEN /\ content' = [content EXCEPT ![dot1] = <<>>]
                  /\ dot1' = NoFile
             ELSE UNCHANGED <<content, dot1>>
    /\ stuck' = ~ok
    /\ ship' = "adopt"
    /\ UNCHANGED <<log, torn, joined, cursorFile, processVars, sinkVars, cur,
                   old, ino, path, batch, received, lapsed>>

\* ... and start on the file sampled at the beginning.
Adopt ==
    /\ running /\ ship = "adopt"
    /\ cur' = [ino |-> ino, off |-> 0]
    /\ path' = "log" /\ old' = NoCursor /\ ino' = NoFile
    /\ ship' = "save"
    /\ UNCHANGED <<diskVars, cursorFile, processVars, sinkVars, batch,
                   received, lapsed, stuck>>

-----------------------------------------------------------------------------
(* The process                                                             *)

\* The process is gone, with everything it held in memory.
ProcessEnds ==
    /\ running' = FALSE /\ stopping' = FALSE
    /\ sink' = "run" /\ f' = NoFile /\ queue' = <<>> /\ buf' = <<>>
    /\ joined' = FALSE
    /\ pending' = 0 /\ writeFailed' = FALSE /\ dropped' = 0 /\ uncounted' = 0
    /\ first' = next
    /\ ship' = "idle" /\ cur' = NoCursor /\ old' = NoCursor
    /\ ino' = NoFile /\ path' = "log" /\ batch' = <<>>
    /\ UNCHANGED <<cursorFile, log, dot1, next, received, healthy, lapsed, stuck>>

Kill ==
    /\ running /\ stops < MaxStops
    /\ stops' = stops + 1
    /\ ProcessEnds
    /\ UNCHANGED <<content, torn>>

\* stopReqlog: FileSink.Close ...
CloseBegin ==
    /\ running /\ ~stopping /\ stops < MaxStops
    /\ stops' = stops + 1
    /\ stopping' = TRUE
    /\ UNCHANGED <<diskVars, cursorFile, running, healthy, sink, queue, first, next,
                   writerVars, shipVars, received, lapsed, stuck>>

\* ... whose writer drains the channel, flushes, and ends; the process exits
\* wherever the shipper's final drain is.
CloseEnd(k, t) ==
    /\ running /\ stopping /\ sink = "run" /\ queue = <<>>
    /\ IF f = NoFile THEN UNCHANGED <<content, torn>>
       ELSE FlushIgnored(k, t) /\ Pour(k) /\ torn' = Fragment(k, t)
    /\ ProcessEnds
    /\ UNCHANGED stops

\* NewFileSink and loadCursor.  (A start that cannot open the log exits.)
Restart(repaired) ==
    /\ ~running
    /\ running' = TRUE
    /\ openOrErr(TRUE, repaired, torn, 0)
    /\ cur' = cursorFile
    /\ UNCHANGED <<content, dot1, cursorFile, stops, healthy, stopping, sink, queue,
                   buf, pending, writeFailed, uncounted, first, next, ship,
                   old, ino, path, batch, received, stuck>>

\* Disk and control plane work from here on.
Recover ==
    /\ ~healthy
    /\ healthy' = TRUE
    /\ UNCHANGED <<diskVars, cursorFile, running, stops, sinkVars, shipVars,
                   received, lapsed, stuck>>

-----------------------------------------------------------------------------
Writer ==
    \/ WriteDropped \/ Flush
    \/ \E a, b \in BOOLEAN : WriteOne(a, b) \/ Opened(a, b) \/ TickReopen(a, b)
    \/ \E k \in 0..Len(buf), t \in BOOLEAN :
         \/ WriteError(k, t)
         \/ \E b \in BOOLEAN : Rotate(k, t, b)
         \/ \E a, b \in BOOLEAN : FlushError(k, t, a, b)

Shipper ==
    \/ DrainBegin \/ readBatch \/ ReadError \/ Adopt
    \/ \E got, ok \in BOOLEAN : Ship(got, ok)
    \/ \E ok \in BOOLEAN : Resolve(ok) \/ saveCursor(ok) \/ RemoveOld(ok)

Process ==
    \/ Kill \/ CloseBegin
    \/ \E repaired \in BOOLEAN : Restart(repaired)
    \/ \E k \in 0..Len(buf), t \in BOOLEAN : CloseEnd(k, t)

LogNext == Record \/ Writer \/ Shipper \/ Process \/ Recover

LogSpec == LogInit /\ [][LogNext]_logVars

\* The writer and the shipper keep running, the ticker fires, a killed edge is
\* restarted, and some failure of the disk or the control plane is the last.
\* (Merely succeeding again and again is not enough: a drain that does not
\* continue the cursor's generation starts <path>.1 over at every tick, so one
\* drain has to get through it.)
LogFairness ==
    /\ WF_logVars(Recover)
    /\ WF_logVars(WriteDropped \/ \E b \in BOOLEAN : WriteOne(b, TRUE))
    /\ WF_logVars(Rotate(Len(buf), FALSE, TRUE)) /\ WF_logVars(Opened(TRUE, TRUE))
    /\ WF_logVars(TickReopen(TRUE, TRUE)) /\ WF_logVars(buf # <<>> /\ Flush)
    /\ WF_logVars(DrainBegin) /\ WF_logVars(Resolve(TRUE)) /\ WF_logVars(readBatch)
    /\ WF_logVars(Ship(TRUE, TRUE)) /\ WF_logVars(saveCursor(TRUE))
    /\ WF_logVars(RemoveOld(TRUE)) /\ WF_logVars(Adopt)
    /\ WF_logVars(Restart(TRUE)) /\ WF_logVars(CloseEnd(Len(buf), FALSE))

LogFairSpec == LogSpec /\ LogFairness

-----------------------------------------------------------------------------
(* Properties                                                              *)

Cursor == [ino : Inode \cup {NoFile}, off : Nat]

\* Every variable has its type.
LogTypeOK ==
    /\ content \in [Inode -> Seq(Line)]
    /\ log \in Inode \cup {NoFile} /\ dot1 \in Inode \cup {NoFile}
    /\ torn \in BOOLEAN /\ joined \in BOOLEAN
    /\ cursorFile \in Cursor /\ cur \in Cursor /\ old \in Cursor
    /\ running \in BOOLEAN /\ stopping \in BOOLEAN /\ writeFailed \in BOOLEAN
    /\ sink \in {"run", "rotate", "open"}
    /\ f \in Inode \cup {NoFile} /\ ino \in Inode \cup {NoFile}
    /\ queue \in Seq(Event) /\ buf \in Seq(Event)
    /\ pending \in Nat /\ dropped \in Nat /\ uncounted \in Nat
    /\ first \in Nat /\ next \in Nat /\ batch \in Seq(Line)
    /\ ship \in {"idle", "resolve", "read", "ship", "save", "remove", "adopt"}
    /\ path \in {"log", "tracked", "old"}
    /\ received \subseteq Event /\ stops \in 0..MaxStops
    /\ healthy \in BOOLEAN /\ lapsed \in BOOLEAN /\ stuck \in BOOLEAN

\* Events that are a complete line of a file with a name.
OnDisk == (UNION {Elements(content[i]) : i \in {log, dot1} \ {NoFile}}) \ {Corrupt}

\* What a cursor has put behind it.
Behind(c) ==
    IF c.ino = NoFile THEN {}
    ELSE {content[c.ino][k] : k \in 1..c.off \cap DOMAIN content[c.ino]} \ {Corrupt}

\* Nothing is skipped: whatever cursor a drain, a retry or a restart may go on
\* from, every event before it has reached the control plane ("the cursor
\* advances ONLY on a 2xx, so ... edge restart replays the window losslessly").
\* Two things a file system may do take that away, and from then on nothing is
\* said: a new file gets the number that a cursor still has for a removed one,
\* or the writer's Stat of a <path>.1 that is there fails, and it rotates.
CursorCovers ==
    /\ LogTypeOK
    /\ ~lapsed =>
         /\ Behind(cursorFile) \subseteq received
         /\ ship \notin {"remove", "adopt"} => Behind(cur) \subseteq received
         /\ (path = "old" /\ ship \in {"read", "ship", "save"}) =>
              Behind(old) \subseteq received

\* A complete line leaves the disk only once the control plane has it: neither
\* rotation, nor the removal of <path>.1, nor the repair of a torn tail after
\* a kill, failed or not, takes an unshipped event away, until the file system
\* has misled the code as above.
ShippedBeforeRemoved ==
    [][~lapsed' => OnDisk \ OnDisk' \subseteq received]_logVars

\* Events this process has recorded and that are nowhere any more.
Lost ==
    (first..(next - 1)) \ (Elements(queue) \cup Elements(buf) \cup OnDisk
                           \cup received)

\* What this process lost is counted (Dropped), by a full channel, a failed
\* write or an abandoned buffer, but for two losses the code counts nowhere: of
\* a rotation whose flush fails, and of the event that joins a fragment which
\* could not be repaired.
LossCounted == running /\ ~lapsed => Cardinality(Lost) <= dropped + uncounted

\* What drain still looks at: not a <path>.1 it went past.
Tracked == IF stuck /\ dot1 # NoFile THEN OnDisk \ Elements(content[dot1]) ELSE OnDisk

\* Every event in a file the shipper follows reaches the control plane, and a
\* rotated file goes away again so that rotation can resume, through restarts
\* and outages that end.  What stays for good is a <path>.1 whose Stat or
\* Remove failed once drain had come to it: the cursor moves past it.
LogDrains ==
    []<>(lapsed \/ (Tracked \subseteq received /\ (dot1 = NoFile \/ stuck)))
=============================================================================
