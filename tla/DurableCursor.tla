--------------------------- MODULE DurableCursor ----------------------------
(***************************************************************************)
(* A wallet process that keeps its state in the checkpoint store and its   *)
(* place in the event stream in a watermark: saveAndAdvance                *)
(* (src/postgres/save-and-advance.ts) over PgWatermarks                    *)
(* (src/postgres/watermarks.ts), with the errors of PostgresErrors, under  *)
(* crashes, lost answers, aborts and restarts.                             *)
(*                                                                         *)
(* The process is the consumer of the library and lives outside it: on     *)
(* start it reads the cursor, then loads the latest checkpoint, then       *)
(* applies the events after the cursor, with a save now and then.  When it *)
(* saves is up to it, saveAndAdvance takes any cursor: in the schedule     *)
(* "fixed" it saves after each event, so at the same places in every run   *)
(* (the batches of the crash tests, a batch being an event here), in the   *)
(* schedule "free" after any number of them.  One process runs at a time,  *)
(* but the server's side of a dead one's connection outlives it.           *)
(* CheckpointStore checks save by statement; here a save is one step that  *)
(* takes the head row's lock until its transaction ends.                   *)
(***************************************************************************)
EXTENDS Naturals, FiniteSets, PostgresErrors

CONSTANTS
    Conn,           \* connections of the pool
    Schedules,      \* when the process may save: "fixed", "free"
    MaxEvents,      \* bound: events in the stream
    MaxFaults,      \* bound: kills, lost connections and failing statements
    NoConn          \* model value: no connection

ASSUME CursorAssumption ==
    /\ MaxEvents \in Nat /\ MaxFaults \in Nat /\ NoConn \notin Conn
    /\ Schedules \subseteq {"fixed", "free"}

VARIABLES
    schedule,   \* one of Schedules, the same throughout
    pc,         \* where the process is
    seen,       \* the cursor watermarks.get returned at start
    mem,        \* the events its state has applied
    pos,        \* the last event it has applied
    saved,      \* the position of the last save it knows to be durable
    conn,       \* the connection of the call in progress
    aborted,    \* the signal handed to the call in progress is aborted
    tx,         \* [Conn -> the server's transaction on it]
    db,         \* committed: the latest checkpoint's data and the watermark
    acked,      \* ghost: the furthest position a save that returned had saved
    torn,       \* ghost: a COMMIT moved the cursor back between a process's get
                \* of it and its load
    faults

process == <<schedule, pc, seen, mem, pos, saved, conn, aborted, torn>>
vars == <<process, tx, db, acked, faults>>

Event == 1 .. MaxEvents

\* A transaction: idle, open, or with its COMMIT on the way; "done" is
\* committed and not answered yet.  data and cursor hold what it wrote, wrote
\* which rows it has locked, and orphan says its client is gone.
Idle == [st |-> "idle", data |-> {}, cursor |-> 0, wrote |-> {}, orphan |-> FALSE]

Init ==
    /\ schedule \in Schedules /\ torn = FALSE
    /\ pc = "down" /\ seen = 0 /\ mem = {} /\ pos = 0 /\ saved = 0
    /\ conn = NoConn /\ aborted = FALSE
    /\ tx = [c \in Conn |-> Idle]
    /\ db = [data |-> {}, cursor |-> 0]
    /\ acked = 0 /\ faults = 0

\* A row lock is held by the transaction that wrote the row until it ends.
Unlocked(row) == \A c \in Conn \ {conn} : row \notin tx[c].wrote

(***************************************************************************)
(* The process                                                             *)
(***************************************************************************)
Start ==
    /\ pc = "down"
    /\ pc' = "get"
    /\ UNCHANGED <<schedule, torn, seen, mem, pos, saved, conn, aborted, tx, db, acked, faults>>

\* watermarks.get on its own connection: no row is no cursor.
get ==
    /\ pc = "get"
    /\ seen' = db.cursor
    /\ pc' = "load"
    /\ UNCHANGED <<schedule, torn, mem, pos, saved, conn, aborted, tx, db, acked, faults>>

\* CheckpointStore.load of the latest checkpoint, and the resume from it.
Load ==
    /\ pc = "load"
    /\ mem' = db.data
    /\ pos' = seen /\ saved' = seen
    /\ torn' = (torn \/ db.cursor < seen)
    /\ pc' = "sync"
    /\ UNCHANGED <<schedule, seen, conn, aborted, tx, db, acked, faults>>

Apply ==
    /\ pc = "sync" /\ pos < MaxEvents
    /\ schedule = "fixed" => pos = saved
    /\ pos' = pos + 1
    /\ mem' = mem \cup {pos + 1}
    /\ UNCHANGED <<schedule, torn, pc, seen, saved, conn, aborted, tx, db, acked, faults>>

(***************************************************************************)
(* saveAndAdvance                                                          *)
(***************************************************************************)
\* withTransaction's BEGIN on a free connection.
Begin ==
    /\ pc = "sync" /\ pos > saved
    /\ \E c \in Conn :
          /\ tx[c] = Idle
          /\ conn' = c
          /\ tx' = [tx EXCEPT ![c].st = "open"]
    /\ pc' = "save"
    /\ UNCHANGED <<schedule, torn, seen, mem, pos, saved, aborted, db, acked, faults>>

\* What withTransaction makes of an error: no timeout is set on it.
withTransactionError(err) ==
    IF isConnectionFailure(err) THEN Typed("TransactionFaultError")
    ELSE translatePostgresError(err, FALSE)
MayRetry(e) == e.class \in StorageError /\ Retryability[e.class] = "retryable"

\* The form that leaves the transaction open on the pooled connection.
ThrowNoRollback(err) ==
    /\ conn' = NoConn
    /\ pc' = IF err.code \in {"40001", "40P01"} THEN "sync" ELSE "down"
    /\ aborted' = FALSE
    /\ UNCHANGED <<schedule, torn, seen, mem, pos, saved, tx, db, acked>>

\* The call throws err inside withTransaction: ROLLBACK, the connection back
\* to the pool, and the translated error decides whether the process tries the
\* save again or ends.  An AbortError is no StorageError and ends it.
Throw(err) ==
    /\ tx' = [tx EXCEPT ![conn] = Idle]
    /\ conn' = NoConn
    /\ pc' = IF MayRetry(withTransactionError(err)) THEN "sync" ELSE "down"
    /\ aborted' = FALSE
    /\ UNCHANGED <<schedule, torn, seen, mem, pos, saved, db, acked>>

\* withAbort: an aborted signal rejects before the statement is sent.
withAbort(Statement) ==
    IF aborted
    THEN Throw(abortError([isError |-> FALSE, class |-> "undefined", code |-> "",
                           severity |-> FALSE, constraint |-> ""]))
         /\ UNCHANGED faults
    ELSE Statement

\* checkpoints.save(..., { tx }): the head row is locked until the end.
Save ==
    /\ pc = "save"
    /\ withAbort(/\ Unlocked("head")
                 /\ tx' = [tx EXCEPT ![conn].data = mem,
                                     ![conn].wrote = @ \cup {"head"}]
                 /\ pc' = "set"
                 /\ UNCHANGED <<schedule, torn, seen, mem, pos, saved, conn, aborted, db, acked, faults>>)

\* set without { tx }: the statement runs and commits on another connection.
SetOutsideTx ==
    /\ pc = "set"
    /\ db' = [db EXCEPT !.cursor = pos]
    /\ tx' = [tx EXCEPT ![conn].cursor = pos]
    /\ pc' = "commit"
    /\ UNCHANGED <<schedule, torn, seen, mem, pos, saved, conn, aborted, acked, faults>>

\* watermarks.set(..., { tx, signal }): an upsert, last write wins.  The value
\* is a position, never null and always a JSON value.
set ==
    /\ pc = "set"
    /\ withAbort(/\ Unlocked("watermark")
                 /\ tx' = [tx EXCEPT ![conn].cursor = pos,
                                     ![conn].wrote = @ \cup {"watermark"}]
                 /\ pc' = "commit"
                 /\ UNCHANGED <<schedule, torn, seen, mem, pos, saved, conn, aborted, db, acked, faults>>)

\* COMMIT is sent and not awaited.
CommitNotAwaited ==
    /\ pc = "commit"
    /\ tx' = [tx EXCEPT ![conn].st = "committing", ![conn].orphan = TRUE]
    /\ saved' = pos /\ acked' = IF pos > acked THEN pos ELSE acked
    /\ conn' = NoConn /\ pc' = "sync"
    /\ UNCHANGED <<schedule, torn, seen, mem, pos, aborted, db, faults>>

Commit ==
    /\ pc = "commit"
    /\ tx' = [tx EXCEPT ![conn].st = "committing"]
    /\ pc' = "answer"
    /\ UNCHANGED <<schedule, torn, seen, mem, pos, saved, conn, aborted, db, acked, faults>>

\* saveAndAdvance returns the summary.
Return ==
    /\ pc = "answer" /\ tx[conn].st = "done"
    /\ tx' = [tx EXCEPT ![conn] = Idle]
    /\ saved' = pos
    /\ acked' = IF pos > acked THEN pos ELSE acked
    /\ conn' = NoConn /\ pc' = "sync" /\ aborted' = FALSE
    /\ UNCHANGED <<schedule, torn, seen, mem, pos, db, faults>>

(***************************************************************************)
(* The server                                                              *)
(***************************************************************************)
ServerCommits(c) ==
    /\ tx[c].st = "committing"
    /\ db' = [data |-> tx[c].data, cursor |-> tx[c].cursor]
    /\ tx' = [tx EXCEPT ![c] = IF tx[c].orphan THEN Idle ELSE [Idle EXCEPT !.st = "done"]]
    /\ UNCHANGED <<process, acked, faults>>

\* The server finds the client gone: what was not committed is rolled back; a
\* COMMIT on the way may have been lost with the connection.
ServerNotices(c) ==
    /\ tx[c].orphan
    /\ tx' = [tx EXCEPT ![c] = Idle]
    /\ UNCHANGED <<process, db, acked, faults>>

(***************************************************************************)
(* Faults                                                                  *)
(***************************************************************************)
InCall == pc \in {"save", "set", "commit", "answer"}

\* Errors a statement of save or set can meet, one the caller may retry and
\* one it may not: a deadlock and a cancelled statement.
StatementErrors ==
    [isError : {TRUE}, class : {"PostgresError"}, severity : {TRUE},
     code : {"40P01", "57014"}, constraint : {""}]

StatementFails ==
    /\ pc \in {"save", "set"} /\ faults < MaxFaults
    /\ \E err \in StatementErrors : Throw(err)
    /\ faults' = faults + 1

\* The connection is lost under the call: a TransactionFaultError, whatever
\* became of the transaction, and the caller may retry it.
ConnectionLost ==
    /\ InCall /\ faults < MaxFaults
    /\ LET err == [isError |-> TRUE, class |-> "Error", code |-> "CONNECTION_CLOSED",
                   severity |-> FALSE, constraint |-> ""]
       IN  pc' = IF MayRetry(withTransactionError(err)) THEN "sync" ELSE "down"
    /\ tx' = [tx EXCEPT ![conn] = IF tx[conn].st = "done" THEN Idle
                                  ELSE [@ EXCEPT !.orphan = TRUE]]
    /\ conn' = NoConn /\ aborted' = FALSE
    /\ faults' = faults + 1
    /\ UNCHANGED <<schedule, torn, seen, mem, pos, saved, db, acked>>

Kill ==
    /\ pc # "down" /\ faults < MaxFaults
    /\ pc' = "down" /\ conn' = NoConn /\ aborted' = FALSE
    /\ tx' = IF InCall
             THEN [tx EXCEPT ![conn] = IF tx[conn].st = "done" THEN Idle
                                       ELSE [@ EXCEPT !.orphan = TRUE]]
             ELSE tx
    /\ faults' = faults + 1
    /\ UNCHANGED <<schedule, torn, seen, mem, pos, saved, db, acked>>

\* The caller aborts the signal it handed to the call.
Abort ==
    /\ InCall /\ ~aborted /\ faults < MaxFaults
    /\ aborted' = TRUE
    /\ faults' = faults + 1
    /\ UNCHANGED <<schedule, torn, pc, seen, mem, pos, saved, conn, tx, db, acked>>

ProcessStep ==
    Start \/ get \/ Load \/ Apply \/ Begin \/ Save \/ set \/ Commit \/ Return

Server(c) == ServerCommits(c) \/ ServerNotices(c)

Next ==
    \/ ProcessStep
    \/ \E c \in Conn : Server(c)
    \/ StatementFails \/ ConnectionLost \/ Kill \/ Abort

\* The process is restarted when it ends and runs on; the server handles what
\* reaches it and notices clients that are gone.
Spec ==
    /\ Init /\ [][Next]_vars
    /\ WF_vars(ProcessStep)
    /\ \A c \in Conn : WF_vars(Server(c))

Transaction ==
    [st : {"idle", "open", "committing", "done"}, data : SUBSET Event,
     cursor : 0 .. MaxEvents, wrote : SUBSET {"head", "watermark"}, orphan : BOOLEAN]

\* The type invariant, and that the process has a connection just when it is in
\* a call.
TypeOK ==
    /\ schedule \in Schedules /\ torn \in BOOLEAN
    /\ pc \in {"down", "get", "load", "sync", "save", "set", "commit", "answer"}
    /\ mem \in SUBSET Event
    /\ seen \in 0 .. MaxEvents /\ pos \in 0 .. MaxEvents
    /\ saved \in 0 .. MaxEvents /\ acked \in 0 .. MaxEvents
    /\ conn \in Conn \cup {NoConn} /\ (conn \in Conn <=> InCall)
    /\ aborted \in BOOLEAN /\ faults \in 0 .. MaxFaults
    /\ tx \in [Conn -> Transaction]
    /\ db \in [data : SUBSET Event, cursor : 0 .. MaxEvents]

(***************************************************************************)
(* Properties                                                              *)
(***************************************************************************)
\* No event is skipped (docs/CONTRACT.md, "the silent-skip failure"): the state
\* of a process that resumed has every event up to its position, and the durable
\* one up to the cursor, although the cursor and the checkpoint are read by two
\* statements, between which a COMMIT of its predecessor, sent before it died,
\* can still land.  Events are lost in one case only: that COMMIT moves the
\* cursor back, which needs a process that saves at other places than its
\* predecessors did.
NoEventSkipped ==
    /\ torn => schedule = "free"
    /\ \/ torn
       \/ /\ 1 .. db.cursor \subseteq db.data
          /\ pc \notin {"down", "get", "load"} => 1 .. pos \subseteq mem

\* What saveAndAdvance returned for is durable and stays so: no late COMMIT of
\* an earlier call, no retry after a lost answer and no restart puts the
\* watermark, which is last-write-wins, behind an acknowledged position.
AcknowledgedStays == acked <= db.cursor

\* Once faults stop, a process that was started comes to the end of the stream
\* with all of it saved: aborted and failed saves, lost answers and dead
\* predecessors leave nothing behind that blocks the next save.  With the fixed
\* schedule what it knows to be saved is what is durable in the end.
SyncCompletes ==
    pc = "get" ~> [](/\ pc = "sync" /\ saved = MaxEvents
                     /\ schedule = "fixed" => db.cursor = MaxEvents /\ db.data = Event)
=============================================================================
