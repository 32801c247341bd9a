----------------------------- MODULE AccessLog -----------------------------
(***************************************************************************)
(* The access log: the per-CPU ring buffers that are shared with user      *)
(* space (fw/mmap_buffer.c), the writer in the kernel (fw/access_log.c)    *)
(* and the logger daemon (logger/) with one worker thread per CPU.         *)
(*                                                                         *)
(* A byte of the buffer is a cell.  A record is a header, some cells of    *)
(* fields and, if records were dropped before it, one cell with their      *)
(* number.  A cell names its record, its place in it and the length of     *)
(* the record, which is what the reader finds out by parsing.              *)
(***************************************************************************)
EXTENDS Integers, Sequences, FiniteSets

CONSTANTS
    Cpus,       \* the online CPUs
    Size,       \* cells in a ring, a power of two
    Header,     \* cells of the header of a record
    Lens,       \* lengths of records, without the number of dropped ones
    Garbage,    \* values an uninitialized variable may have
    MaxEvents,  \* bound: requests to log
    MaxStarts,  \* bound: starts of the daemon
    MaxBlock,   \* max_events: rows that make the daemon insert a block
    MaxLost     \* bound: inserts that are stored without an answer

ASSUME SizeAssumption == Size \in Nat \ {0, 1}
ASSUME RecordAssumption == Header \in Nat /\ Lens \subseteq Nat \ {0}
ASSUME GarbageAssumption == Garbage \subseteq Nat

VARIABLES
    ring,       \* per CPU: head, tail, is_ready and the cells
    wr,         \* per CPU: the writer, in softirq context
    dropped,    \* per CPU: mmap_log_dropped
    free,       \* progress of tfw_mmap_buffer_free()
    opened,     \* holder->dev_is_opened
    daemon,     \* the logger process
    stop_flag,
    th,         \* per CPU: the worker thread
    db,         \* blocks the database has stored; ok: and the worker knows
    \* What happened, for the properties:
    sent,       \* per CPU: every cell ever committed
    drops,      \* per CPU: records that were dropped
    garbled,    \* per CPU: an uninitialized number was stored in dropped
    events,     \* requests logged so far
    starts

kernel == <<ring, wr, dropped, free, opened>>
logger == <<daemon, stop_flag, th, db>>
ghost  == <<sent, drops, garbled, events, starts>>
vars   == <<kernel, logger, ghost>>

Empty == [id |-> 0, at |-> 0, len |-> 0, lost |-> 0]
NoWr  == [st |-> "idle", room |-> 0, p |-> 0, id |-> 0, len |-> 0]

-----------------------------------------------------------------------------
\* The writer: do_access_log_req_mmap().

\* Mutant: the room is not reduced by what is unread.
GetRoomAll(b) == Size - 1

\* Free cells, counted from the tail as it is now.
GetRoom(b) == Size - (b.head - b.tail) - 1

\* A record of len cells is begun behind the head, if its header fits in.
LogStart(c, len) ==
    /\ free.st = "no"
    /\ wr[c].st = "idle"
    /\ events < MaxEvents
    /\ events' = events + 1
    /\ IF GetRoom(ring[c]) < Header
       THEN /\ dropped' = [dropped EXCEPT ![c] = @ + 1]
            /\ drops' = [drops EXCEPT ![c] = @ + 1]
            /\ UNCHANGED <<ring, wr>>
       ELSE /\ wr' = [wr EXCEPT ![c] =
                   [st |-> "write", room |-> GetRoom(ring[c]), p |-> 0,
                    id |-> events + 1, len |-> len]]
            /\ UNCHANGED <<ring, dropped, drops>>
    /\ UNCHANGED <<free, opened, logger, sent, garbled, starts>>

\* goto drop: the record is given up and counted.
Drop(c, n) ==
    /\ dropped' = [dropped EXCEPT ![c] = n + 1]
    /\ drops' = [drops EXCEPT ![c] = @ + 1]
    /\ wr' = [wr EXCEPT ![c] = NoWr]

\* The cells of a record when it is complete, the number of drops included.
Total(c) == wr[c].len + IF dropped[c] > 0 THEN 1 ELSE 0

\* One cell is written: WRITE_FIELD(), WRITE_TO_BUF().
LogWrite(c) ==
    /\ wr[c].st = "write"
    /\ wr[c].p < Total(c)
    /\ IF wr[c].room = 0
       THEN /\ Drop(c, dropped[c])
            /\ UNCHANGED ring
       ELSE /\ wr' = [wr EXCEPT ![c].room = @ - 1, ![c].p = @ + 1]
            /\ ring' = [ring EXCEPT ![c].cell[(ring[c].head + wr[c].p) % Size] =
                   [id |-> wr[c].id, at |-> wr[c].p + 1, len |-> Total(c),
                    lost |-> IF wr[c].p = wr[c].len THEN dropped[c] ELSE 0]]
            /\ UNCHANGED <<dropped, drops>>
    /\ UNCHANGED <<free, opened, logger, sent, garbled, events, starts>>

\* tfw_mmap_buffer_commit() accepts a record of n cells.
Fits(b, n) == b.head + n - b.tail < Size - 1

\* Mutant: the number is not put back if the commit fails.
LogCommitForgets(c) ==
    /\ wr[c].st = "write"
    /\ wr[c].p = Total(c)
    /\ LET b == ring[c]
           n == wr[c].p
       IN  IF Fits(b, n)
           THEN /\ ring' = [ring EXCEPT ![c].head = @ + n]
                /\ sent' = [sent EXCEPT ![c] =
                       @ \o [i \in 1..n |-> b.cell[(b.head + i - 1) % Size]]]
                /\ dropped' = [dropped EXCEPT ![c] = 0]
                /\ wr' = [wr EXCEPT ![c] = NoWr]
                /\ UNCHANGED drops
           ELSE Drop(c, 0) /\ UNCHANGED <<ring, sent>>
    /\ UNCHANGED <<free, opened, logger, garbled, events, starts>>

\* The number of dropped records, which is in the record now, is cleared
\* before the commit and put back if that fails.  If there was none, what is
\* put back was never set.
LogCommit(c) ==
    /\ wr[c].st = "write"
    /\ wr[c].p = Total(c)
    /\ LET b == ring[c]
           n == wr[c].p
       IN  IF Fits(b, n)
           THEN /\ ring' = [ring EXCEPT ![c].head = @ + n]
                /\ sent' = [sent EXCEPT ![c] =
                       @ \o [i \in 1..n |-> b.cell[(b.head + i - 1) % Size]]]
                /\ dropped' = [dropped EXCEPT ![c] = 0]
                /\ wr' = [wr EXCEPT ![c] = NoWr]
                /\ UNCHANGED <<drops, garbled>>
           ELSE /\ \/ dropped[c] > 0 /\ Drop(c, dropped[c])
                   \/ dropped[c] = 0 /\ \E g \in Garbage : Drop(c, g)
                /\ garbled' = [garbled EXCEPT ![c] = @ \/ dropped[c] = 0]
                /\ UNCHANGED <<ring, sent>>
    /\ UNCHANGED <<free, opened, logger, events, starts>>

-----------------------------------------------------------------------------
\* The device, and the end of the buffers.

\* tfw_access_log_stop() comes after the sockets are closed: nobody writes.
FreeBegin ==
    /\ free.st = "no"
    /\ \A c \in Cpus : wr[c].st = "idle"
    /\ free' = [st |-> "clear", left |-> Cpus]
    /\ UNCHANGED <<ring, wr, dropped, opened, logger, ghost>>

\* The flags of the buffers are cleared one after another.
FreeClear(c) ==
    /\ free.st = "clear"
    /\ c \in free.left
    /\ ring' = [ring EXCEPT ![c].ready = FALSE]
    /\ free' = [free EXCEPT !.left = @ \ {c}]
    /\ UNCHANGED <<wr, dropped, opened, logger, ghost>>

\* The loop that waits for user space ends and the memory is given back.
FreeDone ==
    /\ free = [st |-> "clear", left |-> {}]
    /\ ~opened
    /\ free' = [free EXCEPT !.st = "freed"]
    /\ UNCHANGED <<ring, wr, dropped, opened, logger, ghost>>

\* dev_file_open() tests both flags, ...
OpenTest ==
    /\ daemon = "off"
    /\ starts < MaxStarts
    /\ free.st = "no"
    /\ ~opened
    /\ daemon' = "open"
    /\ starts' = starts + 1
    /\ stop_flag' = FALSE
    /\ UNCHANGED <<kernel, th, db, sent, drops, garbled, events>>

NewThread(pc) == [pc |-> pc, t |-> 0, h |-> 0, blk |-> <<>>,
                  reconnect |-> TRUE, table |-> TRUE]

\* ... and marks the device.  The daemon starts its workers.
OpenSet ==
    /\ daemon = "open"
    /\ daemon' = "run"
    /\ opened' = TRUE
    /\ th' = [c \in Cpus |-> NewThread("new")]
    /\ UNCHANGED <<ring, wr, dropped, free, stop_flag, db, ghost>>

\* All workers are joined and the device is closed.
Close ==
    /\ daemon = "run"
    /\ \A c \in Cpus : th[c].pc = "done"
    /\ daemon' = "off"
    /\ opened' = FALSE
    /\ UNCHANGED <<ring, wr, dropped, free, stop_flag, th, db, ghost>>

\* The process is killed: one CPU unmaps all buffers, and dev_file_vm_close()
\* clears the flag of the buffer of that CPU each time.
Crash ==
    /\ daemon = "run"
    /\ daemon' = "off"
    /\ opened' = FALSE
    /\ IF \E c \in Cpus : th[c].pc \notin {"new", "done"}
       THEN \E c \in Cpus : ring' = [ring EXCEPT ![c].ready = FALSE]
       ELSE UNCHANGED ring
    /\ th' = [c \in Cpus |-> NewThread("done")]
    /\ UNCHANGED <<wr, dropped, free, stop_flag, db, ghost>>

\* sig_handler().
Signal ==
    /\ daemon = "run"
    /\ ~stop_flag
    /\ stop_flag' = TRUE
    /\ UNCHANGED <<kernel, daemon, th, db, ghost>>

-----------------------------------------------------------------------------
\* The database client of a worker.  Each result is <<answer, worker>>.

\* ClickhouseWithReconnection::ensure_connected(): a lost connection may be
\* re-established, if the policy lets the client try and the server answers.
EnsureConnected(w) ==
    IF ~w.reconnect THEN {<<TRUE, w>>}
    ELSE {<<FALSE, w>>, <<TRUE, [w EXCEPT !.reconnect = FALSE]>>}

\* What the server may have done when a query fails.
DoneOnFailure ==
    IF Cardinality({i \in 1..Len(db) : ~db[i].ok}) < MaxLost THEN BOOLEAN ELSE {FALSE}

\* execute() and flush() of the client: the results are <<success, worker, done>>,
\* where done says whether the server has carried the query out.  Insert() also
\* throws if the connection breaks before the server's answer arrives; every
\* failure asks for a reconnect.
Query(w) ==
    UNION { IF ~a[1] THEN {<<FALSE, a[2], FALSE>>}
            ELSE {<<TRUE, a[2], TRUE>>} \cup
                 {<<FALSE, [a[2] EXCEPT !.reconnect = TRUE], done>> : done \in DoneOnFailure} :
            a \in EnsureConnected(w) }

\* ClickHouseDecorator::ensure_table_created(): what is returned after an
\* attempt is that the table is still to be created.
EnsureTable(w) ==
    IF ~w.table THEN {<<TRUE, w>>}
    ELSE { <<~a[1], [a[2] EXCEPT !.table = ~a[1]]>> : a \in Query(w) }

\* Mutant: the block is not cleared after it was inserted.
FlushKeeps(w, force) ==
    UNION { IF ~a[1] THEN {<<FALSE, a[2], FALSE>>}
            ELSE IF a[2].blk = <<>> \/ (~force /\ Len(a[2].blk) < MaxBlock)
                 THEN {<<TRUE, a[2], FALSE>>}
            ELSE Query(a[2]) :
            a \in EnsureTable(w) }

\* ClickHouseDecorator::flush(): the results are <<success, worker, stored>>.
\* Without success the block is kept, to be inserted again, also if the server
\* has stored it.
Flush(w, force) ==
    UNION { IF ~a[1] THEN {<<FALSE, a[2], FALSE>>}
            ELSE IF a[2].blk = <<>> \/ (~force /\ Len(a[2].blk) < MaxBlock)
                 THEN {<<TRUE, a[2], FALSE>>}
            ELSE { IF q[1] THEN <<TRUE, [q[2] EXCEPT !.blk = <<>>], TRUE>> ELSE q :
                   q \in Query(a[2]) } :
            a \in EnsureTable(w) }

-----------------------------------------------------------------------------
\* The worker: run_thread(), event_loop() and AccessLogProcessor.

At(c, pc) == daemon = "run" /\ th[c].pc = pc

Goto(w, pc) == [w EXCEPT !.pc = pc]

\* The processor is created: its client, and then the mapping, for which
\* dev_file_mmap() marks the buffer as ready.
WorkerMap(c) ==
    /\ At(c, "new")
    /\ \E a \in EnsureTable(th[c]) :
           th' = [th EXCEPT ![c] = Goto(a[2], "top")]
    /\ ring' = [ring EXCEPT ![c].ready = TRUE]
    /\ UNCHANGED <<wr, dropped, free, opened, daemon, stop_flag, db, ghost>>

\* The processor cannot be created: the thread ends and the others run on.
WorkerFails(c) ==
    /\ At(c, "new")
    /\ th' = [th EXCEPT ![c] = Goto(@, "done")]
    /\ UNCHANGED <<kernel, daemon, stop_flag, db, ghost>>

\* The head of the loop: request_stop() if the daemon is to stop.
WorkerTop(c) ==
    /\ At(c, "top")
    /\ ring' = IF stop_flag THEN [ring EXCEPT ![c].ready = FALSE] ELSE ring
    /\ th' = [th EXCEPT ![c] = Goto(@, "consume")]
    /\ UNCHANGED <<wr, dropped, free, opened, daemon, stop_flag, db, ghost>>

\* consume(): nothing is read without a connection or from an empty buffer.
Consume(c) ==
    /\ At(c, "consume")
    /\ \E a \in EnsureConnected(th[c]) :
           th' = [th EXCEPT ![c] =
               IF ~a[1] \/ ring[c].head = ring[c].tail THEN Goto(a[2], "check")
               ELSE [a[2] EXCEPT !.pc = "read", !.t = ring[c].tail, !.h = ring[c].head]]
    /\ UNCHANGED <<kernel, daemon, stop_flag, db, ghost>>

\* process_events(): one event is parsed and appended to the block.
ReadEvent(c) ==
    /\ At(c, "read")
    /\ th[c].t < th[c].h
    /\ LET e == ring[c].cell[th[c].t % Size]
       IN  th' = [th EXCEPT ![c].t = @ + e.len,
                            ![c].blk = Append(@, <<c, e.id>>)]
    /\ UNCHANGED <<kernel, daemon, stop_flag, db, ghost>>

\* The tail is moved behind the events that were read, then send(NOT_FORCE).
StoreTail(c) ==
    /\ At(c, "read")
    /\ th[c].t >= th[c].h
    /\ ring' = [ring EXCEPT ![c].tail = th[c].t]
    /\ th' = [th EXCEPT ![c] = Goto(@, "send")]
    /\ UNCHANGED <<wr, dropped, free, opened, daemon, stop_flag, db, ghost>>

\* An exception: the block is cleared and the buffer skipped; if it cannot be
\* cleared, or the client threw, an error is returned and the loop goes on
\* without asking whether the processor has stopped.
ReadFails(c) ==
    /\ At(c, "read")
    /\ th[c].t < th[c].h
    /\ ring' = [ring EXCEPT ![c].tail = th[c].h]
    /\ \/ th' = [th EXCEPT ![c] = [@ EXCEPT !.pc = "check", !.blk = <<>>]]
       \/ th' = [th EXCEPT ![c] = Goto(@, "idle")]
    /\ UNCHANGED <<wr, dropped, free, opened, daemon, stop_flag, db, ghost>>

\* The table after a flush: the block is a part of it if the server has stored
\* it, whether the answer arrived or not.
Inserted(c, f) ==
    db' = IF f[3] THEN Append(db, [cpu |-> c, rows |-> th[c].blk, ok |-> f[1]]) ELSE db

\* The result of a flush is taken over.
Flushed(c, f, pc) ==
    /\ th' = [th EXCEPT ![c] = Goto(f[2], pc)]
    /\ Inserted(c, f)

Send(c) ==
    /\ At(c, "send")
    /\ \E f \in Flush(th[c], FALSE) : Flushed(c, f, "top")
    /\ UNCHANGED <<kernel, daemon, stop_flag, ghost>>

\* Mutant: only the daemon itself can stop a worker.
CheckOwnFlag(c) ==
    /\ At(c, "check")
    /\ th' = [th EXCEPT ![c] = Goto(@, IF stop_flag THEN "exit" ELSE "idle")]
    /\ UNCHANGED <<kernel, daemon, stop_flag, db, ghost>>

\* Nothing was consumed: the worker ends if its buffer is not ready any more,
\* and the daemon with it.
Check(c) ==
    /\ At(c, "check")
    /\ IF ring[c].ready
       THEN /\ th' = [th EXCEPT ![c] = Goto(@, "idle")]
            /\ UNCHANGED stop_flag
       ELSE /\ th' = [th EXCEPT ![c] = Goto(@, "exit")]
            /\ stop_flag' = TRUE
    /\ UNCHANGED <<kernel, daemon, db, ghost>>

\* A sleep, or send(FORCE) after POLL_N of them.
Idle(c) ==
    /\ At(c, "idle")
    /\ \/ /\ th' = [th EXCEPT ![c] = Goto(@, "top")]
          /\ UNCHANGED db
       \/ \E f \in Flush(th[c], TRUE) : Flushed(c, f, "top")
    /\ UNCHANGED <<kernel, daemon, stop_flag, ghost>>

\* The destructors: the buffer is unmapped, where dev_file_vm_close() runs on
\* the CPU of the thread, and what is left in the block is inserted or lost.
Exit(c) ==
    /\ At(c, "exit")
    /\ ring' = [ring EXCEPT ![c].ready = FALSE]
    /\ \E f \in Flush(th[c], TRUE) :
           /\ th' = [th EXCEPT ![c] = [f[2] EXCEPT !.pc = "done", !.blk = <<>>]]
           /\ Inserted(c, f)
    /\ UNCHANGED <<wr, dropped, free, opened, daemon, stop_flag, ghost>>

-----------------------------------------------------------------------------
Init ==
    /\ ring = [c \in Cpus |-> [head |-> 0, tail |-> 0, ready |-> FALSE,
                               cell |-> [i \in 0..Size-1 |-> Empty]]]
    /\ wr = [c \in Cpus |-> NoWr]
    /\ dropped = [c \in Cpus |-> 0]
    /\ free = [st |-> "no", left |-> {}]
    /\ opened = FALSE
    /\ daemon = "off"
    /\ stop_flag = FALSE
    /\ th = [c \in Cpus |-> NewThread("done")]
    /\ db = <<>>
    /\ sent = [c \in Cpus |-> <<>>]
    /\ drops = [c \in Cpus |-> 0]
    /\ garbled = [c \in Cpus |-> FALSE]
    /\ events = 0
    /\ starts = 0

Writer(c) == (\E len \in Lens : LogStart(c, len)) \/ LogWrite(c) \/ LogCommit(c)

Worker(c) ==
    \/ WorkerMap(c) \/ WorkerFails(c) \/ WorkerTop(c) \/ Consume(c)
    \/ ReadEvent(c) \/ StoreTail(c) \/ ReadFails(c) \/ Send(c)
    \/ Check(c) \/ Idle(c) \/ Exit(c)

Free == FreeBegin \/ (\E c \in Cpus : FreeClear(c)) \/ FreeDone

Next ==
    \/ \E c \in Cpus : Writer(c) \/ Worker(c)
    \/ Free \/ OpenTest \/ OpenSet \/ Close \/ Crash \/ Signal

\* Threads run, the daemon joins them, and tfw_mmap_buffer_free() goes on once
\* it has begun.  Nobody has to log a request, to stop the system or to start
\* the daemon.
Fairness ==
    /\ \A c \in Cpus : WF_vars(Worker(c)) /\ WF_vars(FreeClear(c))
    /\ WF_vars(Close) /\ WF_vars(FreeDone)

Spec == Init /\ [][Next]_vars /\ Fairness
-----------------------------------------------------------------------------
\* Properties

\* What is committed and not yet consumed is in the ring as it was written,
\* whatever the writer does behind the head while a worker reads, is killed
\* half-way or starts again from the tail its predecessor left
\* (tfw_mmap_buffer_get_room(), AccessLogProcessor::consume()).
UnreadIntact ==
    \A c \in Cpus :
        /\ ring[c].head = Len(sent[c])
        /\ ring[c].tail <= ring[c].head
        /\ \A i \in ring[c].tail .. ring[c].head - 1 :
               ring[c].cell[i % Size] = sent[c][i + 1]

\* The sum of the numbers in committed records.
Reported(s) ==
    LET sum[i \in 0..Len(s)] == IF i = 0 THEN 0 ELSE sum[i-1] + s[i].lost
    IN  sum[Len(s)]

\* No dropped record is forgotten or counted twice: those reported by later
\* records and those still to be reported are all that were dropped, as long
\* as do_access_log_req_mmap() has not restored a number it never saved.
DropsReported ==
    \A c \in Cpus : garbled[c] \/ Reported(sent[c]) + dropped[c] = drops[c]

\* All rows of r are of earlier requests than all rows of s.
Precede(r, s) == \A i \in 1..Len(r), j \in 1..Len(s) : r[i][2] < s[j][2]

\* The rows r are the first ones of s.
Begins(r, s) == Len(r) <= Len(s) /\ \A i \in 1..Len(r) : s[i] = r[i]

Sorted(s) == \A i, j \in 1..Len(s) : i < j => s[i][2] < s[j][2]

\* What rows s of the same CPU may come after the block b.
MayFollow(s, b) == Precede(b.rows, s) \/ (~b.ok /\ Begins(b.rows, s))

\* The rows of a CPU are in the order of its requests and each is there once,
\* although workers are killed between reading events, moving the tail and
\* inserting, and inserts are tried again (consume(), ClickHouseDecorator::
\* flush()); but a block whose answer was lost is stored again, as a whole and
\* before any newer row, and nothing else is ever repeated.
RowsOnceInOrder ==
    /\ \A i \in 1..Len(db) : Sorted(db[i].rows)
    /\ \A i, j \in 1..Len(db) :
           i < j /\ db[i].cpu = db[j].cpu => MayFollow(db[j].rows, db[i])

\* No worker is still to map its buffer, which would mark it as ready again.
Settled ==
    \/ daemon = "off"
    \/ daemon = "run" /\ \A c \in Cpus : th[c].pc # "new" /\ ~ring[c].ready

\* tfw_mmap_buffer_free() waits for the daemon, and that wait ends: every worker
\* finds its buffer not ready, whether the database answers or not, and the
\* device is closed.  A worker that maps its buffer after the flags were cleared
\* is excepted: dev_file_mmap() does not ask whether the buffers are freed.
FreeCompletes ==
    free.st = "clear" /\ free.left = {} /\ Settled ~> free.st = "freed"

-----------------------------------------------------------------------------
(* The inductive invariants behind UnreadIntact, RowsOnceInOrder and DropsReported. *)

Cells == [id : Nat, at : Nat, len : Nat, lost : Nat]
Rows  == Cpus \X Nat
Blocks == [cpu : Cpus, rows : Seq(Rows), ok : BOOLEAN]
Rings == [head : Nat, tail : Nat, ready : BOOLEAN, cell : [0..Size-1 -> Cells]]
Writers == [st : {"idle", "write"}, room : Nat, p : Nat, id : Nat, len : Nat]
ThreadPoints == {"new", "top", "consume", "read", "send", "check", "idle", "exit", "done"}
Threads == [pc : ThreadPoints, t : Nat, h : Nat, blk : Seq(Rows),
            reconnect : BOOLEAN, table : BOOLEAN]

TypeOK ==
    /\ ring \in [Cpus -> Rings]
    /\ wr \in [Cpus -> Writers]
    /\ dropped \in [Cpus -> Nat]
    /\ th \in [Cpus -> Threads]
    /\ db \in Seq(Blocks)
    /\ sent \in [Cpus -> Seq(Cells)]
    /\ events \in Nat

\* The unread cells are fewer than the ring has and as they were committed.
Mapped(b, s) ==
    /\ b.head = Len(s) /\ b.tail <= b.head /\ b.head - b.tail < Size
    /\ \A i \in b.tail .. b.head - 1 : b.cell[i % Size] = s[i + 1]

\* A record is followed by the next one or by the end, and no other record
\* begins within it; the identifiers of records grow.
Framed(s) ==
    \A i \in 1..Len(s) : s[i].at = 1 =>
        /\ s[i].len >= 1 /\ i + s[i].len <= Len(s) + 1
        /\ i + s[i].len <= Len(s) => s[i + s[i].len].at = 1
        /\ \A j \in i+1 .. i + s[i].len - 1 : s[j].at # 1

Ordered(s) ==
    \A i, j \in 1..Len(s) : i < j /\ s[j].at = 1 => s[i].id < s[j].id

\* A record begins at position p, or will.
Boundary(s, p) == p <= Len(s) /\ (p < Len(s) => s[p + 1].at = 1)

\* The writer has reserved what it may still write, and what it has written is
\* behind the head; n is the length the record will have.
Writing(w, b, n) ==
    w.st = "write" =>
        /\ w.room + w.p + (b.head - b.tail) < Size
        /\ w.len >= 1 /\ w.p <= n
        /\ \A j \in 0 .. w.p - 1 :
               LET e == b.cell[(b.head + j) % Size]
               IN  e.id = w.id /\ e.at = j + 1 /\ e.len = n

\* The next record has a larger identifier than id.
Older(w, id) == id <= events /\ (w.st = "write" => id < w.id)

\* Identifiers are numbers of requests, and those of the ring are older than
\* the one that is written.
Stamped(c) ==
    /\ wr[c].st = "write" => wr[c].id <= events
    /\ \A i \in 1..Len(sent[c]) : Older(wr[c], sent[c][i].id)

\* Records that begin behind position p have larger identifiers than id.
Behind(s, p, id) ==
    \A j \in 1..Len(s) : p < j /\ s[j].at = 1 => id < s[j].id

\* A worker that reads is between the tail and the head it has seen.
Reading(w, b, s) ==
    /\ Boundary(s, b.tail)
    /\ w.pc = "read" => /\ b.tail <= w.t /\ w.t <= w.h
                        /\ Boundary(s, w.t) /\ Boundary(s, w.h)

\* Where the worker will go on.
ReadPos(w, b) == IF w.pc = "read" THEN w.t ELSE b.tail

\* The rows in the block are of this CPU, in order, and older than what is to
\* be read; those of the database are older than that, and the block may follow
\* them.
BlockInOrder(c) ==
    LET blk == th[c].blk IN
    /\ \A i \in 1..Len(blk) :
           /\ blk[i][1] = c
           /\ Behind(sent[c], ReadPos(th[c], ring[c]), blk[i][2])
           /\ Older(wr[c], blk[i][2])
    /\ Sorted(blk)

\* A row that is stored: no unread record is older.
RowBefore(c, r) == Behind(sent[c], ring[c].tail, r[2]) /\ Older(wr[c], r[2])

RowsBefore(c) ==
    \A i \in 1..Len(db) : db[i].cpu = c =>
        /\ \A k \in 1..Len(db[i].rows) : RowBefore(c, db[i].rows[k])
        /\ MayFollow(th[c].blk, db[i])

CpuInv(c) ==
    /\ Mapped(ring[c], sent[c])
    /\ Framed(sent[c]) /\ Ordered(sent[c])
    /\ Writing(wr[c], ring[c], Total(c))
    /\ Reading(th[c], ring[c], sent[c])
    /\ Stamped(c) /\ BlockInOrder(c) /\ RowsBefore(c)

IInv == TypeOK /\ (\A c \in Cpus : CpuInv(c)) /\ RowsOnceInOrder

\* The number of dropped records is in the cell behind the fields of a record,
\* as it is until the record is committed.
Noting(w, b, n) ==
    w.st = "write" =>
        \A j \in 0 .. w.p - 1 :
            b.cell[(b.head + j) % Size].lost = IF j = w.len THEN n ELSE 0

\* What DropsReported needs besides IInv.
CountInv ==
    /\ drops \in [Cpus -> Nat]
    /\ garbled \in [Cpus -> BOOLEAN]
    /\ DropsReported
    /\ \A c \in Cpus : Noting(wr[c], ring[c], dropped[c])
=============================================================================
