------------------------- MODULE TransactionHistory -------------------------
(***************************************************************************)
(* The writers of PgTransactionHistoryStorage                              *)
(* (src/postgres/transaction-history-storage.ts) for one wallet: each      *)
(* gotPending, gotFinalized or gotRejected is a transaction of its own     *)
(* (writeOwnTransaction) that locks, reads, merges, upserts and clears.    *)
(* A step is one statement, or one row of the clearing DELETE.             *)
(*                                                                         *)
(* An entry is abstracted to its identifiers, its lifecycle and the set of *)
(* sections it carries.  The advisory lock is one per hash.                *)
(***************************************************************************)
EXTENDS Naturals, FiniteSets

CONSTANTS
    Session,
    Hash,
    Entries,       \* the entries callers pass, with the lifecycle got* attaches
    NoRow,
    MaxWrites      \* bound: writes begun

Lifecycle == {"pending", "finalized", "rejected"}

ASSUME HistoryConstants ==
    /\ \A e \in Entries : DOMAIN e = {"identifiers", "lifecycle", "sections"}
    /\ \A e \in Entries : e.lifecycle \in Lifecycle
    /\ NoRow \notin Entries
    /\ MaxWrites \in Nat

VARIABLES
    table,         \* transaction_history, committed: [Hash -> row or NoRow]
    pc, hash, entry,
    existing,      \* the row SELECT ... FOR UPDATE returned
    result,        \* the row this transaction upserted
    todo,          \* rows the running DELETE has yet to visit
    deleted,       \* rows it deleted
    writes         \* writes begun so far

tx   == <<pc, hash, entry, existing, result, todo, deleted>>
vars == <<table, tx, writes>>

Init ==
    /\ table = [h \in Hash |-> NoRow]
    /\ pc = [s \in Session |-> "idle"]
    /\ hash = [s \in Session |-> NoRow]
    /\ entry = [s \in Session |-> NoRow]
    /\ existing = [s \in Session |-> NoRow]
    /\ result = [s \in Session |-> NoRow]
    /\ todo = [s \in Session |-> {}]
    /\ deleted = [s \in Session |-> {}]
    /\ writes = 0

Goto(s, label) == pc' = [pc EXCEPT ![s] = label]

\* The injected merge function, as its contract has it: identifiers are united,
\* the incoming lifecycle wins, sections are merged one by one.
Merge(old, new) ==
    [identifiers |-> old.identifiers \cup new.identifiers,
     lifecycle   |-> new.lifecycle,
     sections    |-> old.sections \cup new.sections]

-----------------------------------------------------------------------------
(* Locks, held until the transaction ends *)

Advisory(o, h) == hash[o] = h /\ pc[o] \in {"select", "upsert", "clear", "delete", "commit"}
RowLocked(o, h) ==
    \/ h \in deleted[o]
    \/ hash[o] = h /\ pc[o] \in {"upsert", "clear", "delete", "commit"} /\ existing[o] # NoRow

WaitsFor(s, o) ==
    /\ s # o
    /\ \/ pc[s] = "lock" /\ Advisory(o, hash[s])
       \/ pc[s] = "select" /\ RowLocked(o, hash[s])
       \/ pc[s] = "delete" /\ \E g \in todo[s] : RowLocked(o, g)

Deadlocked(s) ==
    \E D \in SUBSET Session : s \in D /\ \A d \in D : \E o \in D : WaitsFor(d, o)

-----------------------------------------------------------------------------
(* write, writeRows *)

Got(s, h, e) ==
    /\ pc[s] = "idle" /\ writes < MaxWrites
    /\ writes' = writes + 1
    /\ hash' = [hash EXCEPT ![s] = h]
    /\ entry' = [entry EXCEPT ![s] = e]
    /\ Goto(s, "lock")
    /\ UNCHANGED <<table, existing, result, todo, deleted>>

\* Mutant: no pg_advisory_xact_lock, only the row lock of a row that exists.
AdvisoryLockAbsent(s) ==
    /\ pc[s] = "lock"
    /\ Goto(s, "select")
    /\ UNCHANGED <<table, hash, entry, existing, result, todo, deleted, writes>>

AdvisoryLock(s) ==
    /\ pc[s] = "lock"
    /\ ~ \E o \in Session \ {s} : Advisory(o, hash[s])
    /\ Goto(s, "select")
    /\ UNCHANGED <<table, hash, entry, existing, result, todo, deleted, writes>>

SelectForUpdate(s) ==
    /\ pc[s] = "select"
    /\ ~ \E o \in Session \ {s} : RowLocked(o, hash[s])
    /\ existing' = [existing EXCEPT ![s] = table[hash[s]]]
    /\ Goto(s, "upsert")
    /\ UNCHANGED <<table, hash, entry, result, todo, deleted, writes>>

\* A first write is stored as it is, a later one merged.
Upsert(s) ==
    /\ pc[s] = "upsert"
    /\ result' = [result EXCEPT ![s] =
           IF existing[s] = NoRow THEN entry[s] ELSE Merge(existing[s], entry[s])]
    /\ Goto(s, "clear")
    /\ UNCHANGED <<table, hash, entry, existing, todo, deleted, writes>>

\* The DELETE's condition on a row.
Superseded(row, ids) ==
    /\ row # NoRow /\ row.lifecycle = "pending"
    /\ row.identifiers # {} /\ row.identifiers \subseteq ids

\* The snapshot of the clearing DELETE, if it runs at all.
ClearScan(s) ==
    /\ pc[s] = "clear"
    /\ \/ /\ result[s].lifecycle # "pending" /\ result[s].identifiers # {}
          /\ todo' = [todo EXCEPT ![s] =
                 {g \in Hash \ {hash[s]} : Superseded(table[g], result[s].identifiers)}]
          /\ Goto(s, "delete")
       \/ /\ result[s].lifecycle = "pending" \/ result[s].identifiers = {}
          /\ Goto(s, "commit") /\ UNCHANGED todo
    /\ UNCHANGED <<table, hash, entry, existing, result, deleted, writes>>

\* One row of it, checked again once it is free.
ClearRow(s, g) ==
    /\ pc[s] = "delete" /\ g \in todo[s]
    /\ ~ \E o \in Session \ {s} : RowLocked(o, g)
    /\ todo' = [todo EXCEPT ![s] = @ \ {g}]
    /\ deleted' = [deleted EXCEPT ![s] =
           IF Superseded(table[g], result[s].identifiers) THEN @ \cup {g} ELSE @]
    /\ UNCHANGED <<table, pc, hash, entry, existing, result, writes>>

ClearDone(s) ==
    /\ pc[s] = "delete" /\ todo[s] = {}
    /\ Goto(s, "commit")
    /\ UNCHANGED <<table, hash, entry, existing, result, todo, deleted, writes>>

\* COMMIT or ROLLBACK frees every lock.
EndTransaction(s) ==
    /\ Goto(s, "idle")
    /\ hash' = [hash EXCEPT ![s] = NoRow]
    /\ entry' = [entry EXCEPT ![s] = NoRow]
    /\ existing' = [existing EXCEPT ![s] = NoRow]
    /\ result' = [result EXCEPT ![s] = NoRow]
    /\ deleted' = [deleted EXCEPT ![s] = {}]
    /\ UNCHANGED writes

\* A row deleted here is gone from every running DELETE, even if written again.
Commit(s) ==
    /\ pc[s] = "commit"
    /\ table' = [h \in Hash |-> IF h = hash[s] THEN result[s]
                                ELSE IF h \in deleted[s] THEN NoRow ELSE table[h]]
    /\ todo' = [o \in Session |-> todo[o] \ deleted[s]]
    /\ EndTransaction(s)

\* Mutant: the transaction the deadlock detector failed is not rolled back.
AbortLeftOpen(s) == UNCHANGED vars

\* The transaction fails and leaves nothing.
Abort(s) ==
    /\ todo' = [todo EXCEPT ![s] = {}]
    /\ EndTransaction(s)
    /\ UNCHANGED table

\* 40P01.
DeadlockAbort(s) == Deadlocked(s) /\ Abort(s)

\* A lost connection, a timeout, a merge function that throws.
Fail(s) == pc[s] # "idle" /\ Abort(s)

Step(s) ==
    \/ AdvisoryLock(s) \/ SelectForUpdate(s) \/ Upsert(s) \/ ClearScan(s)
    \/ \E g \in Hash : ClearRow(s, g)
    \/ ClearDone(s) \/ Commit(s) \/ DeadlockAbort(s)

Done == writes = MaxWrites /\ (\A s \in Session : pc[s] = "idle") /\ UNCHANGED vars

Next ==
    \/ \E s \in Session : Step(s) \/ Fail(s)
    \/ \E s \in Session, h \in Hash, e \in Entries : Got(s, h, e)
    \/ Done

Spec == Init /\ [][Next]_vars

\* A client runs the statements of a transaction it has begun.
FairSpec == Spec /\ \A s \in Session : WF_vars(Step(s))

-----------------------------------------------------------------------------
(* Properties *)

\* Every write comes to an end, also when two clears wait for each other's rows.
WritesEnd == \A s \in Session : []<>(pc[s] = "idle")

Contract == INSTANCE HistoryContract WITH entries <- table

(***************************************************************************)
(* However writes interleave, wait for each other, deadlock or fail, the   *)
(* table changes as if each write that succeeds were one atomic merge.     *)
(***************************************************************************)
ImplementsHistory == Contract!Spec
=============================================================================
