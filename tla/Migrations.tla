------------------------------ MODULE Migrations ------------------------------
(***************************************************************************)
(* runMigrations (src/postgres/migrate.ts) with the durability probe it    *)
(* starts with (src/postgres/durability-probe.ts): callers in one or more  *)
(* processes bring schemas up to date, each on one reserved connection,    *)
(* under a session-level advisory lock per schema and, for the migration   *)
(* that creates btree_gist, a transaction-level one for the database.      *)
(*                                                                         *)
(* A step is what a call does up to the answer of its next statement.  Any *)
(* statement may fail on a live backend, and the connection may be lost at *)
(* any of them: the server then keeps the session's locks until it         *)
(* notices, and a COMMIT may or may not have taken effect.                 *)
(***************************************************************************)
EXTENDS Naturals, Sequences, FiniteSets, Functions

CONSTANTS
    Runner,      \* callers of runMigrations
    Schema,      \* schemas of one database
    Wanted,      \* [Runner -> SUBSET Schema], the schemas it migrates
    Conn,        \* pooled connections
    PoolOf,      \* [Runner -> SUBSET Conn]; runners of one process share a pool
    Lineage,     \* [Schema -> Seq(STRING)], the bootstrap migration first
    Extension,   \* the migrations that run CREATE EXTENSION
    Servers,     \* the server configurations to consider, see ServerType
    MaxFaults,   \* bound: failed statements and lost connections
    NoConn, Lost \* holder of a free lock; sessions the server still thinks alive

ServerType == [fsync : BOOLEAN, fullPageWrites : BOOLEAN, allowOff : BOOLEAN,
               pooler : BOOLEAN]

ASSUME MigrationConstants ==
    /\ Wanted \in [Runner -> SUBSET Schema]
    /\ PoolOf \in [Runner -> SUBSET Conn]
    /\ Schema # {} /\ Lineage \in [Schema -> Seq(STRING)]
    /\ \A s \in Schema : Len(Lineage[s]) > 0 /\ IsInjective(Lineage[s])
    /\ Servers \subseteq ServerType
    /\ MaxFaults \in Nat
    /\ NoConn \notin Conn /\ Lost \notin Conn /\ NoConn # Lost

VARIABLES
    server,      \* the configuration the probe reads
    recorded,    \* rows of <schema>._migrations, in commit order: [Schema -> Seq]
    created,     \* migrations whose DDL is committed: [Schema -> Seq]
    btreeGist,   \* is the extension committed?
    holder,      \* session holding pg_advisory_lock(1, hashtext(schema))
    depth,       \* how many times it holds it: [Schema -> Nat]
    extHolder,   \* session holding pg_advisory_xact_lock(3, 0)
    sentinel,    \* connections holding the probe's sentinel lock
    tx,          \* uncommitted work of a connection's open transaction
    path,        \* search_path of the session: [Conn -> Schema or "default"]
    lockTimeout, \* [Conn -> {"session", "local"}]
    reserved,    \* connections out of their pool
    spoiled,     \* connections on which a cleanup statement failed
    pc, conn, schema, bound, lockHeld, next, missing, why,  \* the calls
    done,        \* schemas a runner has migrated: [Runner -> SUBSET Schema]
    mutated,     \* has some caller changed its options during a call?  (at most once)
    faults

database == <<recorded, created, btreeGist>>
schemaLock == <<holder, depth>>
locks    == <<schemaLock, extHolder, sentinel>>
sessions == <<tx, path, lockTimeout, spoiled>>
call     == <<schema, bound, lockHeld, next, missing>>
context  == <<server, mutated>>
vars     == <<context, database, locks, sessions, reserved, pc, conn, call, why, done, faults>>

\* ddl, row, ext: has it run the call's migration, inserted its row, created the extension?
NoTx == [open |-> FALSE, ddl |-> FALSE, row |-> FALSE, ext |-> FALSE]
OpenTx == [NoTx EXCEPT !.open = TRUE]
Labels == {"idle", "probe", "settings", "sentinel", "unsentinel", "reserve", "lock", "wait",
           "locked", "path", "regclass", "check", "up", "ddl", "record", "commit",
           "rollback", "reset", "unlock"}
Init ==
    /\ server \in Servers
    /\ recorded = [s \in Schema |-> <<>>] /\ created = [s \in Schema |-> <<>>]
    /\ btreeGist = FALSE
    /\ holder = [s \in Schema |-> NoConn] /\ depth = [s \in Schema |-> 0]
    /\ extHolder = NoConn /\ sentinel = {}
    /\ tx = [c \in Conn |-> NoTx]
    /\ path = [c \in Conn |-> "default"]
    /\ lockTimeout = [c \in Conn |-> "session"]
    /\ reserved = {} /\ spoiled = {}
    /\ pc = [r \in Runner |-> "idle"] /\ conn = [r \in Runner |-> NoConn]
    /\ schema = [r \in Runner |-> CHOOSE s \in Schema : TRUE]
    /\ bound = [r \in Runner |-> "valid"]
    /\ lockHeld = [r \in Runner |-> FALSE] /\ next = [r \in Runner |-> 0]
    /\ missing = [r \in Runner |-> FALSE]
    /\ why = [r \in Runner |-> "ok"] /\ done = [r \in Runner |-> {}]
    /\ mutated = FALSE /\ faults = 0

Goto(r, label) == pc' = [pc EXCEPT ![r] = label]
Throw(r, e, label) == why' = [why EXCEPT ![r] = e] /\ Goto(r, label)
\* The call returns, or rejects with e.
Settle(r, e) ==
    /\ Goto(r, "idle")
    /\ done' = [done EXCEPT ![r] = IF e = "ok" THEN @ \cup {schema[r]} ELSE @]
    /\ schema' = [schema EXCEPT ![r] = CHOOSE s \in Schema : TRUE]
    /\ why' = [why EXCEPT ![r] = "ok"]
    /\ lockHeld' = [lockHeld EXCEPT ![r] = FALSE]
    /\ next' = [next EXCEPT ![r] = 0]
    /\ bound' = [bound EXCEPT ![r] = "valid"]
    /\ missing' = [missing EXCEPT ![r] = FALSE]
Release(r) == reserved' = reserved \ {conn[r]} /\ conn' = [conn EXCEPT ![r] = NoConn]
ReserveConnection(r) == \E c \in PoolOf[r] \ reserved :
    /\ reserved' = reserved \cup {c}
    /\ conn' = [conn EXCEPT ![r] = c]
Migration(r) == Lineage[schema[r]][next[r]]

-----------------------------------------------------------------------------
(* runMigrations: validation and the probe *)

\* A call whose options are valid: others are rejected before anything is reserved.
\* A call that succeeded is not repeated; one that failed may be, any number of times.
Start(r) ==
    /\ pc[r] = "idle"
    /\ \E s \in Wanted[r] \ done[r] : schema' = [schema EXCEPT ![r] = s]
    /\ Goto(r, "probe")
    /\ UNCHANGED <<context, database, locks, sessions, reserved, conn, bound, lockHeld, next,
                   missing, why, done, faults>>

ProbeReserve(r) ==
    /\ pc[r] = "probe"
    /\ ReserveConnection(r) /\ Goto(r, "settings")
    /\ UNCHANGED <<context, database, locks, sessions, call, why, done, faults>>

classifyFsync == ~server.fsync
classifyFullPageWrites == ~server.fullPageWrites /\ ~server.allowOff

\* A violation is thrown before the sentinel lock is tried; release() is in the finally.
ReadSettings(r) ==
    /\ pc[r] = "settings"
    /\ \/ /\ classifyFsync \/ classifyFullPageWrites
          /\ Release(r) /\ Settle(r, "DurabilityContractError")
       \/ /\ ~classifyFsync /\ ~classifyFullPageWrites
          /\ Goto(r, "sentinel")
          /\ UNCHANGED <<reserved, conn, call, why, done>>
    /\ UNCHANGED <<context, database, locks, sessions, faults>>

\* pg_try_advisory_lock under a key of this backend's own.  It is refused when the
\* key's hash is that of a lock another session holds, and assertNoTransactionPooler
\* then lets the call go on.  What a transaction pooler does to a call that it let
\* through is not modelled: the refusal is, on servers without one.
probeAdvisoryLockVisibility(r) ==
    /\ pc[r] = "sentinel"
    /\ \/ /\ sentinel' = sentinel \cup {conn[r]}
          /\ Goto(r, "unsentinel") /\ UNCHANGED <<reserved, conn>>
       \/ /\ ~server.pooler
          /\ Release(r) /\ Goto(r, "reserve") /\ UNCHANGED sentinel
    /\ UNCHANGED <<context, database, schemaLock, extHolder, sessions, call, why, done, faults>>

\* What the rest of the probe does once the sentinel is unlocked or is not.
ProbeEnd(r) ==
    /\ Release(r)
    /\ \/ /\ server.pooler     \* the lock was not visible to the second query
          /\ Settle(r, "TransactionPoolerDetectedError")
       \/ /\ ~server.pooler
          /\ Goto(r, "reserve")
          /\ UNCHANGED <<call, why, done>>

UnlockSentinel(r) ==
    /\ pc[r] = "unsentinel"
    /\ sentinel' = sentinel \ {conn[r]}
    /\ ProbeEnd(r)
    /\ UNCHANGED <<context, database, schemaLock, extHolder, sessions, faults>>

\* The caller owns opts, and the probe is awaited.
MutateOptions(r) ==
    /\ pc[r] \in {"probe", "settings", "sentinel", "unsentinel", "reserve"}
    /\ ~mutated /\ mutated' = TRUE
    /\ bound' = [bound EXCEPT ![r] = "zero"]
    /\ UNCHANGED <<server, database, locks, sessions, reserved, pc, conn, schema, lockHeld, next,
                   missing, why, done, faults>>

-----------------------------------------------------------------------------
(* runMigrationsImpl: the schema's lock *)

\* pg_advisory_lock and pg_advisory_unlock: a session may hold a lock several times.
Lock(s, c) == /\ holder' = [holder EXCEPT ![s] = c]
              /\ depth' = [depth EXCEPT ![s] = IF @ > MaxFaults THEN @ ELSE @ + 1]
UnlockOnce(s) == /\ holder' = [holder EXCEPT ![s] = IF depth[s] = 1 THEN NoConn ELSE @]
                 /\ depth' = [depth EXCEPT ![s] = @ - 1]

\* Mutant of Revalidated: trusts the check made before the probe.
RevalidatedNot(r) == TRUE
Revalidated(r) == bound[r] = "valid"

Reserve(r) ==
    /\ pc[r] = "reserve"
    /\ \/ /\ Revalidated(r)
          /\ ReserveConnection(r) /\ Goto(r, "lock")
          /\ UNCHANGED <<call, why, done>>
       \/ /\ ~Revalidated(r)     \* thrown with lockHeld false: nothing to undo but the reservation
          /\ PoolOf[r] \ reserved # {}
          /\ Settle(r, "ValidationError")
          /\ UNCHANGED <<reserved, conn>>
    /\ UNCHANGED <<context, database, locks, sessions, faults>>

\* Mutant of SetLockTimeout: set_config(..., false), for the session.
SetLockTimeoutSession(r) == lockTimeout' = [lockTimeout EXCEPT ![conn[r]] = "short"]
SetLockTimeout(r) == lockTimeout' = [lockTimeout EXCEPT ![conn[r]] = "local"]

\* BEGIN, set_config('lock_timeout', ..., true), pg_advisory_lock sent.
BeginLock(r) ==
    /\ pc[r] = "lock"
    /\ tx' = [tx EXCEPT ![conn[r]] = OpenTx]
    /\ SetLockTimeout(r) /\ Goto(r, "wait")
    /\ UNCHANGED <<context, database, locks, path, spoiled, reserved, conn, call, why, done, faults>>

LockGranted(r) ==
    /\ pc[r] = "wait" /\ holder[schema[r]] \in {NoConn, conn[r]}
    /\ Lock(schema[r], conn[r])
    /\ lockHeld' = [lockHeld EXCEPT ![r] = TRUE]
    /\ Goto(r, "locked")
    /\ UNCHANGED <<context, database, extHolder, sentinel, sessions, reserved, conn, schema, bound, next,
                   missing, why, done, faults>>

\* 55P03 when the wait outlasts the bound; a lock_timeout of 0 never fires.
LockTimesOut(r) ==
    /\ pc[r] = "wait" /\ holder[schema[r]] \notin {NoConn, conn[r]}
    /\ bound[r] = "valid"
    /\ Throw(r, "MigrationLockTimeoutError", "rollback")
    /\ UNCHANGED <<context, database, locks, sessions, reserved, conn, call, done, faults>>

\* The end of a transaction gives back what it held; the session's lock stays.
EndTx(c) ==
    /\ tx' = [tx EXCEPT ![c] = NoTx]
    /\ lockTimeout' = [lockTimeout EXCEPT ![c] = IF @ = "local" THEN "session" ELSE @]
    /\ extHolder' = IF extHolder = c THEN NoConn ELSE extHolder

LockCommit(r) ==
    /\ pc[r] = "locked"
    /\ EndTx(conn[r]) /\ Goto(r, "path")
    /\ UNCHANGED <<context, database, schemaLock, sentinel, path, spoiled, reserved, conn, call,
                   why, done, faults>>

-----------------------------------------------------------------------------
(* runMigrationsImpl: the migrations *)

WidenPath(r) ==
    /\ pc[r] = "path"
    /\ path' = [path EXCEPT ![conn[r]] = schema[r]]
    /\ Goto(r, "regclass")
    /\ UNCHANGED <<context, database, locks, tx, lockTimeout, spoiled, reserved, conn, call,
                   why, done, faults>>

\* to_regclass(<schema>._migrations): the table comes with the bootstrap migration.
Bootstrapped(r) ==
    /\ pc[r] = "regclass"
    /\ LET exists == Lineage[schema[r]][1] \in Range(created[schema[r]]) IN
       /\ next' = [next EXCEPT ![r] = IF exists THEN 2 ELSE 1]
       /\ Goto(r, IF exists THEN "check" ELSE "up")
    /\ UNCHANGED <<context, database, locks, sessions, reserved, conn, schema, bound, lockHeld, missing,
                   why, done, faults>>

\* select 1 from _migrations where name = m.name, for the migrations after the first.
CheckApplied(r) ==
    /\ pc[r] = "check"
    /\ \/ /\ next[r] > Len(Lineage[schema[r]])
          /\ Goto(r, "reset") /\ UNCHANGED next
       \/ /\ next[r] <= Len(Lineage[schema[r]])
          /\ Migration(r) \in Range(recorded[schema[r]])
          /\ next' = [next EXCEPT ![r] = @ + 1] /\ UNCHANGED pc
       \/ /\ next[r] <= Len(Lineage[schema[r]])
          /\ Migration(r) \notin Range(recorded[schema[r]])
          /\ Goto(r, "up") /\ UNCHANGED next
    /\ UNCHANGED <<context, database, locks, sessions, reserved, conn, schema, bound, lockHeld, missing,
                   why, done, faults>>

Begin(r) == tx' = [tx EXCEPT ![conn[r]] = OpenTx]

\* BEGIN; up() starts.  001_temporal_kv takes the database-wide lock, and then
\* CREATE EXTENSION IF NOT EXISTS looks for the extension.
Up(r) ==
    /\ pc[r] = "up"
    /\ Begin(r) /\ Goto(r, "ddl")
    /\ \/ /\ Migration(r) \notin Extension
          /\ UNCHANGED <<extHolder, missing>>
       \/ /\ Migration(r) \in Extension
          /\ extHolder \in {NoConn, conn[r]}
          /\ extHolder' = conn[r]
          /\ missing' = [missing EXCEPT ![r] = ~btreeGist]
    /\ UNCHANGED <<context, database, schemaLock, sentinel, path, lockTimeout, spoiled, reserved, conn, schema,
                   bound, lockHeld, next, why, done, faults>>

\* The session's lock_timeout or statement_timeout ends a wait for the database-wide lock.
UpTimesOut(r) ==
    /\ pc[r] = "up" /\ Migration(r) \in Extension
    /\ extHolder \notin {NoConn, conn[r]}
    /\ Begin(r) /\ Throw(r, "StatementError", "rollback")
    /\ UNCHANGED <<context, database, locks, path, lockTimeout, spoiled, reserved, conn, call,
                   done, faults>>

\* Another transaction's uncommitted catalog rows are waited for ...
CatalogBusy(r) == \E q \in Runner \ {r} :
    /\ conn[q] # NoConn
    /\ \/ /\ tx[conn[q]].ddl
          /\ schema[q] = schema[r] /\ next[q] = next[r]
       \/ missing[r] /\ tx[conn[q]].ext
\* ... and committed ones are an error: none of the DDL is IF NOT EXISTS but the
\* extension's, whose look at the catalog came before.
CatalogClash(r) == \/ Migration(r) \in Range(created[schema[r]])
                   \/ missing[r] /\ btreeGist

\* Mutant of Ddl: the database-wide lock goes back as soon as its statement is done.
DdlUnlocksEarly(r) ==
    /\ pc[r] = "ddl" /\ ~CatalogBusy(r)
    /\ IF CatalogClash(r) THEN Throw(r, "Duplicate", "rollback") /\ UNCHANGED tx
       ELSE /\ tx' = [tx EXCEPT ![conn[r]].ddl = TRUE,
                                ![conn[r]].ext = missing[r]]
            /\ Goto(r, "record") /\ UNCHANGED why
    /\ extHolder' = IF extHolder = conn[r] THEN NoConn ELSE extHolder
    /\ UNCHANGED <<context, database, schemaLock, sentinel, path, lockTimeout, spoiled, reserved,
                   conn, call, done, faults>>

\* The rest of up().
Ddl(r) ==
    /\ pc[r] = "ddl" /\ ~CatalogBusy(r)
    /\ IF CatalogClash(r) THEN Throw(r, "Duplicate", "rollback") /\ UNCHANGED tx
       ELSE /\ tx' = [tx EXCEPT ![conn[r]].ddl = TRUE,
                                ![conn[r]].ext = missing[r]]
            /\ Goto(r, "record") /\ UNCHANGED why
    /\ UNCHANGED <<context, database, locks, path, lockTimeout, spoiled, reserved, conn, call,
                   done, faults>>

\* Mutant of Record: the row is inserted on another connection, in its own transaction.
RecordApart(r) ==
    /\ pc[r] = "record"
    /\ recorded' = [recorded EXCEPT ![schema[r]] = Append(@, Migration(r))]
    /\ Goto(r, "commit")
    /\ UNCHANGED <<context, created, btreeGist, locks, sessions, reserved, conn, call, why,
                   done, faults>>

\* insert into _migrations, in the same transaction.
Record(r) ==
    /\ pc[r] = "record"
    /\ tx' = [tx EXCEPT ![conn[r]].row = TRUE]
    /\ Goto(r, "commit")
    /\ UNCHANGED <<context, database, locks, path, lockTimeout, spoiled, reserved, conn, call,
                   why, done, faults>>

\* What the transaction of call r makes durable.
Apply(r) ==
    LET t == tx[conn[r]]
        Add(list, isThere) == IF isThere THEN [list EXCEPT ![schema[r]] = Append(@, Migration(r))]
                              ELSE list IN
    /\ created' = Add(created, t.ddl)
    /\ recorded' = Add(recorded, t.row)
    /\ btreeGist' = (btreeGist \/ t.ext)

Commit(r) ==
    /\ pc[r] = "commit"
    /\ Apply(r) /\ EndTx(conn[r])
    /\ next' = [next EXCEPT ![r] = @ + 1]
    /\ missing' = [missing EXCEPT ![r] = FALSE]
    /\ Goto(r, "check")
    /\ UNCHANGED <<context, schemaLock, sentinel, path, spoiled, reserved, conn, schema, bound, lockHeld,
                   why, done, faults>>

-----------------------------------------------------------------------------
(* Undoing: the catch of withReservedTransaction and the two finally blocks *)

\* Where a throw continues: search_path is reset once the inner try was entered.
Rollback(r) ==
    /\ pc[r] = "rollback"
    /\ EndTx(conn[r])
    /\ Goto(r, IF next[r] = 0 THEN "unlock" ELSE "reset")
    /\ UNCHANGED <<context, database, schemaLock, sentinel, path, spoiled, reserved, conn, call,
                   why, done, faults>>

ResetPath(r) ==
    /\ pc[r] = "reset"
    /\ path' = [path EXCEPT ![conn[r]] = "default"]
    /\ Goto(r, "unlock")
    /\ UNCHANGED <<context, database, locks, tx, lockTimeout, spoiled, reserved, conn, call,
                   why, done, faults>>

\* Mutant of Unlock: lockHeld is looked at only if nothing was thrown.
UnlockOnSuccess(r) ==
    /\ pc[r] = "unlock"
    /\ IF lockHeld[r] /\ why[r] = "ok" THEN UnlockOnce(schema[r]) ELSE UNCHANGED schemaLock
    /\ Release(r) /\ Settle(r, why[r])
    /\ UNCHANGED <<context, database, extHolder, sentinel, sessions, faults>>

Unlock(r) ==
    /\ pc[r] = "unlock"
    /\ IF lockHeld[r] THEN UnlockOnce(schema[r]) ELSE UNCHANGED schemaLock
    /\ Release(r) /\ Settle(r, why[r])
    /\ UNCHANGED <<context, database, extHolder, sentinel, sessions, faults>>

-----------------------------------------------------------------------------
(* Faults *)

\* A statement of the probe fails: the reservation is all there is to undo.
ProbeStatementFails(r) ==
    /\ faults < MaxFaults /\ faults' = faults + 1
    /\ pc[r] \in {"settings", "sentinel"}
    /\ Release(r) /\ Settle(r, "StatementError")
    /\ UNCHANGED <<context, database, locks, sessions>>

\* The catch or finally block that a failing statement of runMigrationsImpl leads to.
CatchOf(label) ==
    CASE label \in {"lock", "wait", "locked", "up", "ddl", "record", "commit"} -> "rollback"
      [] label \in {"regclass", "check"} -> "reset"
      [] label = "path" -> "unlock"
      [] OTHER -> "none"

StatementFails(r) ==
    /\ faults < MaxFaults /\ faults' = faults + 1
    /\ CatchOf(pc[r]) # "none"
    /\ Throw(r, "StatementError", CatchOf(pc[r]))
    /\ UNCHANGED <<context, database, locks, sessions, reserved, conn, call, done>>

\* A cleanup statement fails, or pg_advisory_lock fails once it has the lock
\* (a statement_timeout that fires between the two): the code has no answer to either.
CleanupFails(r) ==
    /\ faults < MaxFaults /\ faults' = faults + 1
    /\ spoiled' = spoiled \cup {conn[r]}
    /\ \/ /\ pc[r] = "unsentinel" /\ ProbeEnd(r)     \* swallowed by the .catch
          /\ UNCHANGED schemaLock
       \/ /\ pc[r] = "wait" /\ holder[schema[r]] \in {NoConn, conn[r]}
          /\ Lock(schema[r], conn[r])
          /\ Throw(r, "MigrationLockTimeoutError", "rollback")
          /\ UNCHANGED <<reserved, conn, call, done>>
       \/ /\ pc[r] = "reset" /\ Throw(r, "StatementError", "unlock")
          /\ UNCHANGED <<schemaLock, reserved, conn, call, done>>
       \/ /\ pc[r] = "unlock" /\ lockHeld[r]
          /\ Release(r) /\ Settle(r, "StatementError")
          /\ UNCHANGED schemaLock
    /\ UNCHANGED <<context, database, extHolder, sentinel, tx, path, lockTimeout>>

\* The connection breaks, or its process dies.  Every later statement of the call
\* throws at once, so it runs through to release(); the pool reconnects.
ConnectionLost(r) ==
    LET c == conn[r] IN
    /\ c # NoConn /\ faults < MaxFaults /\ faults' = faults + 1
    /\ holder' = [s \in Schema |-> IF holder[s] = c THEN Lost ELSE holder[s]]
    /\ extHolder' = IF extHolder = c THEN Lost ELSE extHolder
    /\ UNCHANGED depth
    /\ sentinel' = sentinel \ {c} /\ spoiled' = spoiled \ {c}
    /\ tx' = [tx EXCEPT ![c] = NoTx]
    /\ path' = [path EXCEPT ![c] = "default"]
    /\ lockTimeout' = [lockTimeout EXCEPT ![c] = "session"]
    /\ \/ UNCHANGED database
       \/ pc[r] = "commit" /\ Apply(r)     \* the COMMIT arrived, its answer did not
    /\ Release(r) /\ Settle(r, "ConnectionError")
    /\ UNCHANGED context

ServerNotices ==
    /\ Lost \in {extHolder} \cup Range(holder)
    /\ holder' = [s \in Schema |-> IF holder[s] = Lost THEN NoConn ELSE holder[s]]
    /\ depth' = [s \in Schema |-> IF holder[s] = Lost THEN 0 ELSE depth[s]]
    /\ extHolder' = IF extHolder = Lost THEN NoConn ELSE extHolder
    /\ UNCHANGED <<context, database, sentinel, sessions, reserved, pc, conn, call, why, done,
                   faults>>

-----------------------------------------------------------------------------
Reserving(r) == ProbeReserve(r) \/ Reserve(r)
Step(r) ==
    \/ Start(r) \/ ReadSettings(r) \/ probeAdvisoryLockVisibility(r) \/ UnlockSentinel(r)
    \/ BeginLock(r) \/ LockGranted(r) \/ LockTimesOut(r) \/ LockCommit(r)
    \/ WidenPath(r) \/ Bootstrapped(r) \/ CheckApplied(r)
    \/ Up(r) \/ UpTimesOut(r) \/ Ddl(r) \/ Record(r) \/ Commit(r)
    \/ Rollback(r) \/ ResetPath(r) \/ Unlock(r)
Fault(r) == MutateOptions(r) \/ ProbeStatementFails(r) \/ StatementFails(r)
            \/ CleanupFails(r) \/ ConnectionLost(r)

Next == \/ \E r \in Runner : Reserving(r) \/ Step(r) \/ Fault(r)
        \/ ServerNotices

\* Statements are answered, failed calls are repeated, the pool hands out its
\* connections in the order they were asked for, and the server notices dead peers.
Fairness == /\ \A r \in Runner : SF_vars(Reserving(r)) /\ WF_vars(Step(r))
            /\ WF_vars(ServerNotices)
Spec == Init /\ [][Next]_vars /\ Fairness

-----------------------------------------------------------------------------
(* What must hold *)

\* The server passes the probe.
Durable == ~classifyFsync /\ ~classifyFullPageWrites /\ ~server.pooler

\* s is the beginning of t.
Begins(s, t) == Len(s) <= Len(t) /\ \A i \in 1..Len(s) : s[i] = t[i]

\* The migrations of a schema commit in the order of its lineage, each once, and
\* _migrations has a row for exactly those whose DDL is there: whatever fails or is
\* lost between the DDL and its row, the next call neither repeats nor skips one.
\* A server that does not pass the probe is never touched (a pooler does not pass it
\* where the sentinel is granted, see probeAdvisoryLockVisibility).
AppliedInOrder == \A s \in Schema :
    /\ created[s] = recorded[s] /\ Begins(created[s], Lineage[s])
    /\ Durable \/ created[s] = <<>>

\* Concurrent calls never fail over each other's DDL: those of one schema are
\* serialised by its lock, and those of different schemas by the database-wide lock
\* around CREATE EXTENSION, which is held until its transaction has committed.
NoCollision == \A r \in Runner : why[r] # "Duplicate"

\* A connection goes back to the pool without the schema's lock, the widened
\* search_path, the short lock_timeout or an open transaction, whatever was thrown,
\* unless a cleanup statement itself failed on it.
ConnectionsClean == \A c \in Conn \ (reserved \cup spoiled) :
    /\ c \notin Range(holder) \cup {extHolder} \cup sentinel
    /\ path[c] = "default" /\ lockTimeout[c] = "session" /\ ~tx[c].open

\* Every call ends, even if the schema's lock is never given back: the bound on the
\* wait is checked again after the probe, when opts may have changed.
CallsEnd == \A r \in Runner : pc[r] # "idle" ~> pc[r] = "idle"

\* On a server that passes the probe repeated calls migrate every schema in full,
\* however calls collided and timed out, unless a lock was left in the pool.
Converges == Durable /\ [](spoiled = {}) => <>(\A s \in UNION Range(Wanted) : recorded[s] = Lineage[s])
===============================================================================
