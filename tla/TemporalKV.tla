----------------------------- MODULE TemporalKV -----------------------------
(***************************************************************************)
(* PgTemporalKV (src/postgres/temporal-kv.ts) over the tables and the      *)
(* trigger of migrations/001_temporal_kv.ts.                               *)
(*                                                                         *)
(* A session runs one transaction at a time: a put of its own, or the puts *)
(* a caller makes with one TransactionHandle.  A step is one statement, or *)
(* the part of it before and after a wait for a row.  Rows a transaction   *)
(* wrote are private and locked until it ends.                             *)
(*                                                                         *)
(* The clock counts milliseconds, the precision of updated_at.  It may     *)
(* stand still between two statements and, MaxBacks times, step back.      *)
(***************************************************************************)
EXTENDS Integers, FiniteSets

CONSTANTS
    Key,           \* (ns, scope, key) triples
    Value,
    Session,
    Isolation,     \* the isolation levels transactions are opened with
    Expected,      \* the expectedVersion arguments, AnyVersion for none
    NoRow,
    MaxClock,      \* bound: the last instant
    MaxBacks       \* bound: times the clock steps back

AnyVersion == -1

ASSUME KvConstants ==
    /\ Isolation \subseteq {"read committed", "repeatable read"}
    /\ Expected \subseteq Nat \cup {AnyVersion}
    /\ MaxClock \in Nat \ {0} /\ MaxBacks \in Nat
    /\ NoRow \notin [value : Value, version : Nat, at : Nat]

VARIABLES
    clock, backs,
    kv_current,    \* committed: [Key -> Row or NoRow]
    kv_history,    \* committed: a set of [key, value, version, from, to]
    pc,
    iso,           \* isolation level of the open transaction
    snap,          \* its snapshot, read only under repeatable read
    newCurrent,    \* rows it wrote: [Key -> Row or NoRow]
    newHistory,    \* rows its trigger inserted
    req,           \* the put being executed
    conflict       \* the VersionConflictError a put was answered with, if any

tx   == <<pc, iso, snap, newCurrent, newHistory, req, conflict>>
vars == <<clock, backs, kv_current, kv_history, tx>>

Row        == [value : Value, version : Nat, at : Nat]
NoReq      == [key |-> NoRow]
NoConflict == [expected |-> AnyVersion, actual |-> 0]
NoRows     == [k \in Key |-> NoRow]

-----------------------------------------------------------------------------
(* What a statement sees *)

\* Tables as a transaction sees them: its own rows over the committed ones, or,
\* under repeatable read, over those of its snapshot.
Base(s)    == IF iso[s] = "repeatable read" THEN snap[s]
              ELSE [current |-> kv_current, history |-> kv_history]
Current(s) == [k \in Key |-> IF newCurrent[s][k] # NoRow THEN newCurrent[s][k]
                             ELSE Base(s).current[k]]
History(s) == Base(s).history \cup newHistory[s]

Version(row) == IF row = NoRow THEN 0 ELSE row.version
\* The entry an answer carries; a history row and a live row give the same.
Entry(value, version, at) == [value |-> value, version |-> version, at |-> at]
LiveEntry(row)  == Entry(row.value, row.version, row.at)
OldEntry(row)   == Entry(row.value, row.version, row.from)

\* UNION ALL ... ORDER BY priority LIMIT 1: a history row, else the live row.  The
\* set of answers LIMIT 1 chooses from; {} is null.
FirstOf(old, live) == IF old # {} THEN old ELSE live

GetAtVersion(current, history, k, v) ==
    FirstOf({OldEntry(h) : h \in {r \in history : r.key = k /\ r.version = v}},
            {LiveEntry(current[k]) : r \in {q \in {current[k]} \ {NoRow} : q.version = v}})

\* Mutant: the history interval is closed on the right, like BETWEEN.
GetAtTimeClosed(current, history, k, t) ==
    FirstOf({OldEntry(h) : h \in {r \in history : r.key = k /\ r.from <= t /\ t <= r.to}},
            {LiveEntry(current[k]) : r \in {q \in {current[k]} \ {NoRow} : q.at <= t}})

\* validity is tstzrange(valid_from, valid_to, '[)').
GetAtTime(current, history, k, t) ==
    FirstOf({OldEntry(h) : h \in {r \in history : r.key = k /\ r.from <= t /\ t < r.to}},
            {LiveEntry(current[k]) : r \in {q \in {current[k]} \ {NoRow} : q.at <= t}})

\* No other transaction has written the row and is still open.
Free(s, k) == \A o \in Session \ {s} : newCurrent[o][k] = NoRow

\* The newest row, which a statement that writes it must be able to see.
Latest(s, k) == IF newCurrent[s][k] # NoRow THEN newCurrent[s][k] ELSE kv_current[k]

-----------------------------------------------------------------------------
Init ==
    /\ clock = 1 /\ backs = 0
    /\ kv_current = NoRows /\ kv_history = {}
    /\ pc = [s \in Session |-> "idle"]
    /\ iso = [s \in Session |-> "read committed"]
    /\ snap = [s \in Session |-> [current |-> NoRows, history |-> {}]]
    /\ newCurrent = [s \in Session |-> NoRows]
    /\ newHistory = [s \in Session |-> {}]
    /\ req = [s \in Session |-> NoReq]
    /\ conflict = [s \in Session |-> NoConflict]

Goto(s, label) == pc' = [pc EXCEPT ![s] = label]

\* BEGIN and the first statement's snapshot.
Begin(s, i) ==
    /\ pc[s] = "idle"
    /\ Goto(s, "open")
    /\ iso' = [iso EXCEPT ![s] = i]
    /\ snap' = IF i = "repeatable read"
               THEN [snap EXCEPT ![s] = [current |-> kv_current, history |-> kv_history]]
               ELSE snap
    /\ UNCHANGED <<clock, backs, kv_current, kv_history, newCurrent, newHistory, req, conflict>>

\* put is called; its INSERT evaluates the column defaults before it waits.
PutBegin(s, k, v, e) ==
    /\ pc[s] = "open"
    /\ Goto(s, "put")
    /\ req' = [req EXCEPT ![s] = [key |-> k, value |-> v, expected |-> e, stamp |-> clock]]
    /\ conflict' = [conflict EXCEPT ![s] = NoConflict]
    /\ UNCHANGED <<clock, backs, kv_current, kv_history, iso, snap, newCurrent, newHistory>>

\* The put is answered with the row it wrote.
Write(s, row, old) ==
    /\ newCurrent' = [newCurrent EXCEPT ![s][req[s].key] = row]
    /\ newHistory' = [newHistory EXCEPT ![s] = @ \cup old]
    /\ req' = [req EXCEPT ![s] = NoReq]
    /\ Goto(s, "open")

\* ... with an error of PostgreSQL's, after which only ROLLBACK is left.
Fault(s) ==
    /\ req' = [req EXCEPT ![s] = NoReq]
    /\ Goto(s, "failed")
    /\ UNCHANGED <<newCurrent, newHistory>>

\* ... or with no row, and a second statement has to find out why.
NoRowsAffected(s) ==
    /\ Goto(s, "reread")
    /\ UNCHANGED <<newCurrent, newHistory, req>>

Insert(s) == Write(s, [value |-> req[s].value, version |-> 1, at |-> req[s].stamp], {})

\* The trigger's UB001, and 23514 of the CHECK on the row it inserts.
Rejected(s, old) ==
    \/ newCurrent[s][req[s].key] # NoRow
    \/ clock <= old.at

\* Mutant: the interval starts when the put was issued.
ClosedFromStamp(s, old) ==
    [key |-> req[s].key, value |-> old.value, version |-> old.version,
     from |-> IF req[s].stamp < clock THEN req[s].stamp ELSE old.at, to |-> clock]
\* The history row the trigger inserts.
Closed(s, old) ==
    [key |-> req[s].key, value |-> old.value, version |-> old.version,
     from |-> old.at, to |-> clock]

\* BEFORE UPDATE trigger and the update itself, on a row that is locked by now.
Update(s, old) ==
    \/ Rejected(s, old) /\ Fault(s)
    \/ /\ ~ Rejected(s, old)
       /\ Write(s, [value |-> req[s].value, version |-> old.version + 1, at |-> clock],
                {Closed(s, old)})

\* 40001: a row the snapshot does not show stands in the way.
Unserializable(s, k) == Latest(s, k) # Current(s)[k]

\* Case 1: INSERT ... ON CONFLICT DO UPDATE.
PutUpsert(s) ==
    LET k == req[s].key IN
    /\ req[s].expected = AnyVersion /\ Free(s, k)
    /\ \/ Unserializable(s, k) /\ Fault(s)
       \/ ~Unserializable(s, k) /\ Latest(s, k) = NoRow /\ Insert(s)
       \/ ~Unserializable(s, k) /\ Latest(s, k) # NoRow /\ Update(s, Latest(s, k))

\* Case 2: INSERT ... ON CONFLICT DO NOTHING.
PutCreate(s) ==
    LET k == req[s].key IN
    /\ req[s].expected = 0 /\ Free(s, k)
    /\ \/ Unserializable(s, k) /\ Fault(s)
       \/ ~Unserializable(s, k) /\ Latest(s, k) = NoRow /\ Insert(s)
       \/ ~Unserializable(s, k) /\ Latest(s, k) # NoRow /\ NoRowsAffected(s)

\* Mutant: the guard is checked by a read, and the UPDATE has none.
PutGuardedByRead(s) ==
    LET k == req[s].key IN
    /\ req[s].expected > 0
    /\ \/ Version(Current(s)[k]) # req[s].expected /\ NoRowsAffected(s)
       \/ /\ Version(Current(s)[k]) = req[s].expected
          /\ Update(s, Current(s)[k])

\* Case 3: UPDATE ... WHERE version = expected.  A row that does not match is not
\* waited for; one that does is, and is looked at again when it is free.
PutGuarded(s) ==
    LET k == req[s].key IN
    /\ req[s].expected > 0
    /\ \/ Version(Current(s)[k]) # req[s].expected /\ NoRowsAffected(s)
       \/ /\ Version(Current(s)[k]) = req[s].expected /\ Free(s, k)
          /\ \/ Unserializable(s, k) /\ Fault(s)
             \/ ~Unserializable(s, k) /\ Update(s, Latest(s, k))

PutExec(s) ==
    /\ pc[s] = "put"
    /\ PutUpsert(s) \/ PutCreate(s) \/ PutGuarded(s)
    /\ UNCHANGED <<clock, backs, kv_current, kv_history, iso, snap, conflict>>

\* The re-read of cases 2 and 3, and VersionConflictError(expected, actual).  Under
\* read committed it sees a later instant than the UPDATE, and may find expected.
Reread(s) ==
    /\ pc[s] = "reread"
    /\ conflict' = [conflict EXCEPT ![s] =
           [expected |-> req[s].expected, actual |-> Version(Current(s)[req[s].key])]]
    /\ req' = [req EXCEPT ![s] = NoReq]
    /\ Goto(s, "open")
    /\ UNCHANGED <<clock, backs, kv_current, kv_history, iso, snap, newCurrent, newHistory>>

EndTransaction(s) ==
    /\ Goto(s, "idle")
    /\ iso' = [iso EXCEPT ![s] = "read committed"]
    /\ snap' = [snap EXCEPT ![s] = [current |-> NoRows, history |-> {}]]
    /\ newCurrent' = [newCurrent EXCEPT ![s] = NoRows]
    /\ newHistory' = [newHistory EXCEPT ![s] = {}]
    /\ req' = [req EXCEPT ![s] = NoReq]
    /\ conflict' = [conflict EXCEPT ![s] = NoConflict]
    /\ UNCHANGED <<clock, backs>>

Commit(s) ==
    /\ pc[s] = "open"
    /\ kv_current' = [k \in Key |-> Latest(s, k)]
    /\ kv_history' = kv_history \cup newHistory[s]
    /\ EndTransaction(s)

\* An error, a throw in the caller's code, a timeout, a deadlock or a lost
\* connection ends the transaction with nothing of it left.
Rollback(s) ==
    /\ pc[s] # "idle"
    /\ EndTransaction(s)
    /\ UNCHANGED <<kv_current, kv_history>>

Tick ==
    /\ clock < MaxClock
    /\ clock' = clock + 1
    /\ UNCHANGED <<backs, kv_current, kv_history, tx>>

\* The server's clock is set back.
ClockBack ==
    /\ backs < MaxBacks /\ clock > 1
    /\ backs' = backs + 1
    /\ clock' = clock - 1
    /\ UNCHANGED <<kv_current, kv_history, tx>>

Next ==
    \/ \E s \in Session :
        \/ \E i \in Isolation : Begin(s, i)
        \/ \E k \in Key, v \in Value, e \in Expected : PutBegin(s, k, v, e)
        \/ PutExec(s) \/ Reread(s) \/ Commit(s) \/ Rollback(s)
    \/ Tick \/ ClockBack

Spec == Init /\ [][Next]_vars

-----------------------------------------------------------------------------
(* Properties *)

\* The tables a reader may be looking at: the committed ones, or a transaction's.
Views == {[current |-> kv_current, history |-> kv_history]}
         \cup {[current |-> Current(s), history |-> History(s)] : s \in Session}

(***************************************************************************)
(* Law T4: looking a version up by its number and by the instant it was    *)
(* written at gives the same entry, and exactly one, in every view and     *)
(* whatever the clock did (getAtImpl).                                     *)
(***************************************************************************)
DualAddressing ==
    \A v \in Views : \A k \in Key : \A n \in 1..Version(v.current[k]) :
        \E e \in GetAtVersion(v.current, v.history, k, n) :
            /\ GetAtVersion(v.current, v.history, k, n) = {e}
            /\ GetAtTime(v.current, v.history, k, e.at) = {e}

\* No put begun at or before instant t is still open.
Settled(t) ==
    /\ t < clock
    /\ \A s \in Session :
        /\ pc[s] = "put" => req[s].stamp > t
        /\ \A k \in Key : newCurrent[s][k] # NoRow => newCurrent[s][k].at > t

\* A step leaves what has settled as it is.
SettledStands ==
    \A t \in {u \in 1..MaxClock : Settled(u)} :
        /\ backs' = backs => Settled(t)'
        /\ \A k \in Key :
             GetAtTime(kv_current', kv_history', k, t) = GetAtTime(kv_current, kv_history, k, t)

(***************************************************************************)
(* The past settles: once no put begun at or before an instant is still    *)
(* open, what getAt answers for it does not change, and it stays settled   *)
(* until the clock is set back.  (Before that the answer may change:       *)
(* updated_at is when a row was written, not when it became visible.)      *)
(***************************************************************************)
PastSettles == [][SettledStands]_vars

-----------------------------------------------------------------------------
(* The promise *)

Log == INSTANCE VersionedLog WITH
    log <- [k \in Key |-> [n \in 1..Version(kv_current[k]) |->
               (CHOOSE e \in GetAtVersion(kv_current, kv_history, k, n) : TRUE).value]]

(***************************************************************************)
(* Seen through getAt by version, the store is a log per key to which a    *)
(* committing transaction appends at most one value: puts are never lost,  *)
(* split or rewritten, whatever races, fails or rolls back.                *)
(***************************************************************************)
ImplementsLog == Log!Spec
=============================================================================
