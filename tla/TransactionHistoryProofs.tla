---------------------- MODULE TransactionHistoryProofs ----------------------
(***************************************************************************)
(* For any number of sessions, hashes and entries, a write of the          *)
(* transaction history is one atomic merge, with its clears.               *)
(*                                                                         *)
(* What a write read stands until it commits: writes of one hash exclude   *)
(* each other by the advisory lock, and a clear of another hash by the row *)
(* lock, or because there is no row to clear.  The rows a write has        *)
(* deleted stand too, so that its clears are right when they take effect.  *)
(***************************************************************************)
EXTENDS TransactionHistory, TLAPS

\* Leaves go to Zenon; those it cannot do, with arithmetic mostly, name SMT.
USE Zenon

Locked == {"select", "upsert", "clear", "delete", "commit"}
HasRead == {"upsert", "clear", "delete", "commit"}
HasMerged == {"clear", "delete", "commit"}

Shape ==
    /\ pc \in [Session -> {"idle", "lock"} \cup Locked]
    /\ DOMAIN hash = Session /\ DOMAIN entry = Session
    /\ DOMAIN existing = Session /\ DOMAIN result = Session
    /\ DOMAIN todo = Session /\ DOMAIN deleted = Session

\* What the write of session s has found and done is still so.
Stands(s) ==
    /\ pc[s] # "idle" => hash[s] \in Hash /\ entry[s] \in Entries
    /\ pc[s] \in HasRead => existing[s] = table[hash[s]]
    /\ pc[s] \in HasMerged =>
          result[s] = IF existing[s] = NoRow THEN entry[s] ELSE Merge(existing[s], entry[s])
    /\ pc[s] = "delete" => result[s].lifecycle # "pending" /\ todo[s] \subseteq Hash \ {hash[s]}
    /\ pc[s] \notin {"delete", "commit"} => deleted[s] = {}
    /\ \A g \in deleted[s] : /\ g \in Hash \ {hash[s]} /\ result[s].lifecycle # "pending"
                             /\ Superseded(table[g], result[s].identifiers)

\* The writes of s and o neither merge into nor clear one row.
Apart(s, o) ==
    /\ pc[s] \in Locked /\ pc[o] \in Locked => hash[s] # hash[o]
    /\ deleted[s] \cap deleted[o] = {}
    /\ pc[o] \in HasRead => hash[o] \notin deleted[s]

HistoryInv ==
    /\ Shape
    /\ \A s \in Session : Stands(s)
    /\ \A s, o \in Session : s # o => Apart(s, o)

\* Before the first write there is nothing to keep.
LEMMA InitHistory == Init => HistoryInv
<1> SUFFICES ASSUME Init PROVE HistoryInv
  OBVIOUS
<1>1. Shape
  BY DEF Init, Shape
<1>2. \A s \in Session : Stands(s)
  BY DEF Init, Stands, HasRead, HasMerged
<1>3. \A s, o \in Session : Apart(s, o)
  BY DEF Init, Apart, Locked, HasRead
<1> QED
  BY <1>1, <1>2, <1>3 DEF HistoryInv

-----------------------------------------------------------------------------
(* Steps that leave the table alone *)

\* Session s moves and no other does.
Alone(s) ==
    /\ table' = table
    /\ \A o \in Session \ {s} :
         /\ pc'[o] = pc[o] /\ hash'[o] = hash[o] /\ entry'[o] = entry[o]
         /\ existing'[o] = existing[o] /\ result'[o] = result[o]
         /\ todo'[o] = todo[o] /\ deleted'[o] = deleted[o]

\* What there is to show of such a step.
LEMMA AloneKeeps ==
    ASSUME HistoryInv, NEW s \in Session, Shape', Alone(s), Stands(s)',
           \A o \in Session \ {s} : Apart(s, o)' /\ Apart(o, s)'
    PROVE  HistoryInv'
<1>1. ASSUME NEW o \in Session \ {s} PROVE Stands(o)'
  <2>1. Stands(o)
    BY DEF HistoryInv
  <2> QED
    BY <2>1 DEF Alone, Stands
<1>2. ASSUME NEW o \in Session \ {s}, NEW q \in Session \ {s}, o # q PROVE Apart(o, q)'
  <2>1. Apart(o, q)
    BY <1>2 DEF HistoryInv
  <2> QED
    BY <2>1 DEF Alone, Apart
<1> QED
  BY <1>1, <1>2 DEF HistoryInv

\* A session that takes no lock stays apart from the others.
LEMMA NoLockApart ==
    ASSUME HistoryInv, NEW s \in Session, Alone(s),
           pc'[s] \in Locked => pc[s] \in Locked /\ hash'[s] = hash[s],
           pc'[s] \in HasRead => pc[s] \in HasRead,
           deleted'[s] \subseteq deleted[s],
           NEW o \in Session \ {s}
    PROVE  Apart(s, o)' /\ Apart(o, s)'
<1>1. Apart(s, o) /\ Apart(o, s)
  BY DEF HistoryInv
<1>2. pc'[s] \in HasRead => hash'[s] = hash[s]
  BY DEF Locked, HasRead
<1>3. pc'[o] = pc[o] /\ hash'[o] = hash[o] /\ deleted'[o] = deleted[o]
  BY DEF Alone
<1> QED
  BY <1>1, <1>2, <1>3 DEF Apart

\* gotPending, gotFinalized or gotRejected is called.
LEMMA GotKeeps ==
    ASSUME HistoryInv, NEW s \in Session, NEW h \in Hash, NEW e \in Entries, Got(s, h, e)
    PROVE  HistoryInv'
<1>1. Shape /\ Stands(s)
  BY DEF HistoryInv
<1>2. Shape' /\ Alone(s) /\ pc[s] = "idle" /\ pc'[s] = "lock" /\ hash'[s] = h /\ entry'[s] = e
      /\ deleted'[s] = deleted[s]
  BY <1>1 DEF Got, Goto, Shape, Alone
<1>3. deleted[s] = {}
  BY <1>1, <1>2 DEF Stands
<1>4. Stands(s)'
  BY <1>2, <1>3 DEF Stands, HasRead, HasMerged
<1> QED
  BY <1>2, <1>4, NoLockApart, AloneKeeps DEF Locked, HasRead

\* pg_advisory_xact_lock: nobody else is past it with this hash.
LEMMA AdvisoryLockKeeps ==
    ASSUME HistoryInv, NEW s \in Session, AdvisoryLock(s)
    PROVE  HistoryInv'
<1>1. Shape /\ Stands(s)
  BY DEF HistoryInv
<1>2. /\ Shape' /\ Alone(s) /\ pc[s] = "lock" /\ pc'[s] = "select"
      /\ UNCHANGED <<table, hash, entry, deleted>>
  BY <1>1 DEF AdvisoryLock, Goto, Shape, Alone, Locked
<1>3. Stands(s)'
  BY <1>1, <1>2 DEF Stands, HasRead, HasMerged
<1>4. ASSUME NEW o \in Session \ {s} PROVE Apart(s, o)' /\ Apart(o, s)'
  <2>1. Apart(s, o) /\ Apart(o, s) /\ pc'[o] = pc[o]
    BY <1>2 DEF HistoryInv, Alone
  <2>2. pc[o] \in Locked => hash[o] # hash[s]
    BY DEF AdvisoryLock, Advisory, Locked
  <2> QED
    BY <1>2, <2>1, <2>2 DEF Apart, HasRead
<1> QED
  BY <1>2, <1>3, <1>4, AloneKeeps

\* SELECT ... FOR UPDATE: nobody else is deleting the row it returns.
LEMMA SelectKeeps ==
    ASSUME HistoryInv, NEW s \in Session, SelectForUpdate(s)
    PROVE  HistoryInv'
<1>1. Shape /\ Stands(s)
  BY DEF HistoryInv
<1>2. /\ Shape' /\ Alone(s) /\ pc[s] = "select" /\ pc'[s] = "upsert"
      /\ existing'[s] = table[hash[s]] /\ UNCHANGED <<table, hash, entry, deleted>>
  BY <1>1 DEF SelectForUpdate, Goto, Shape, Alone, Locked
<1>3. Stands(s)'
  BY <1>1, <1>2 DEF Stands, HasMerged
<1>4. ASSUME NEW o \in Session \ {s} PROVE Apart(s, o)' /\ Apart(o, s)'
  <2>1. Apart(s, o) /\ Apart(o, s) /\ pc'[o] = pc[o]
    BY <1>2 DEF HistoryInv, Alone
  <2>2. hash[s] \notin deleted[o]
    BY DEF SelectForUpdate, RowLocked
  <2> QED
    BY <1>2, <2>1, <2>2 DEF Apart, Locked
<1> QED
  BY <1>2, <1>3, <1>4, AloneKeeps

\* The upsert.
LEMMA UpsertKeeps ==
    ASSUME HistoryInv, NEW s \in Session, Upsert(s)
    PROVE  HistoryInv'
<1>1. Shape /\ Stands(s)
  BY DEF HistoryInv
<1>2. /\ Shape' /\ Alone(s) /\ pc[s] = "upsert" /\ pc'[s] = "clear"
      /\ UNCHANGED <<table, hash, entry, existing, deleted>>
      /\ result'[s] = IF existing[s] = NoRow THEN entry[s] ELSE Merge(existing[s], entry[s])
  BY <1>1 DEF Upsert, Goto, Shape, Alone, Locked
<1>3. Stands(s)'
  BY <1>1, <1>2 DEF Stands, HasRead
<1> QED
  BY <1>2, <1>3, NoLockApart, AloneKeeps DEF Locked, HasRead

\* The clearing DELETE begins, or there is none.
LEMMA ClearScanKeeps ==
    ASSUME HistoryInv, NEW s \in Session, ClearScan(s)
    PROVE  HistoryInv'
<1>1. Shape /\ Stands(s)
  BY DEF HistoryInv
<1>2. /\ Shape' /\ Alone(s) /\ pc[s] = "clear"
      /\ UNCHANGED <<table, hash, entry, existing, result, deleted>>
      /\ \/ /\ pc'[s] = "delete" /\ result[s].lifecycle # "pending"
            /\ todo'[s] \subseteq Hash \ {hash[s]}
         \/ pc'[s] = "commit"
  BY SMT, <1>1 DEF ClearScan, Goto, Shape, Alone, Locked
<1>3. deleted[s] = {}
  BY <1>1, <1>2 DEF Stands
<1>4. Stands(s)'
  BY <1>1, <1>2, <1>3 DEF Stands, HasRead, HasMerged
<1> QED
  BY <1>2, <1>4, NoLockApart, AloneKeeps DEF Locked, HasRead

\* A row that is deleted is free, so that no write has read it.
LEMMA ClearRowKeeps ==
    ASSUME HistoryInv, NEW s \in Session, NEW g \in Hash, ClearRow(s, g)
    PROVE  HistoryInv'
<1>1. Shape /\ Stands(s)
  BY DEF HistoryInv
<1>2. /\ Shape' /\ Alone(s) /\ pc[s] = "delete" /\ g \in todo[s]
      /\ UNCHANGED <<table, pc, hash, entry, existing, result>>
      /\ todo'[s] \subseteq todo[s]
      /\ deleted'[s] = IF Superseded(table[g], result[s].identifiers) THEN deleted[s] \cup {g}
                       ELSE deleted[s]
  BY <1>1 DEF ClearRow, Shape, Alone
<1>3. Stands(s)'
  <2>1. result[s].lifecycle # "pending" /\ g # hash[s] /\ todo'[s] \subseteq Hash \ {hash[s]}
    BY <1>1, <1>2 DEF Stands
  <2>2. \A f \in deleted'[s] : /\ f \in Hash \ {hash[s]}
                               /\ Superseded(table[f], result[s].identifiers)
    BY <1>1, <1>2, <2>1 DEF Stands
  <2> QED
    BY <1>1, <1>2, <2>1, <2>2 DEF Stands, Superseded
<1>4. ASSUME NEW o \in Session \ {s} PROVE Apart(s, o)' /\ Apart(o, s)'
  <2>1. Apart(s, o) /\ Apart(o, s) /\ Stands(o) /\ deleted'[o] = deleted[o]
    BY <1>2 DEF HistoryInv, Alone
  <2>2. g \notin deleted[o] /\ (pc[o] \in HasRead /\ hash[o] = g => existing[o] = NoRow)
    BY DEF ClearRow, RowLocked, HasRead
  <2>3. pc[o] \in HasRead /\ hash[o] = g => ~Superseded(table[g], result[s].identifiers)
    BY <2>1, <2>2 DEF Stands, Superseded
  <2> QED
    BY <1>2, <2>1, <2>2, <2>3 DEF Apart
<1> QED
  BY <1>2, <1>3, <1>4, AloneKeeps

\* The DELETE is over.
LEMMA ClearDoneKeeps ==
    ASSUME HistoryInv, NEW s \in Session, ClearDone(s)
    PROVE  HistoryInv'
<1>1. Shape /\ Stands(s)
  BY DEF HistoryInv
<1>2. /\ Shape' /\ Alone(s) /\ pc[s] = "delete" /\ pc'[s] = "commit"
      /\ UNCHANGED <<table, hash, entry, existing, result, deleted>>
  BY <1>1 DEF ClearDone, Goto, Shape, Alone, Locked
<1>3. Stands(s)'
  BY <1>1, <1>2 DEF Stands, HasRead, HasMerged, Superseded
<1> QED
  BY <1>2, <1>3, NoLockApart, AloneKeeps DEF Locked, HasRead

\* ROLLBACK.
LEMMA AbortKeeps ==
    ASSUME HistoryInv, NEW s \in Session, Abort(s)
    PROVE  HistoryInv'
<1>1. Shape
  BY DEF HistoryInv
<1>2. Shape' /\ Alone(s) /\ pc'[s] = "idle" /\ deleted'[s] = {}
  BY <1>1 DEF Abort, EndTransaction, Goto, Shape, Alone
<1>3. Stands(s)'
  BY <1>2 DEF Stands, HasRead, HasMerged
<1> QED
  BY <1>2, <1>3, NoLockApart, AloneKeeps DEF Locked, HasRead

-----------------------------------------------------------------------------
(* COMMIT *)

\* What a write changes is what no other write has read or deleted.
LEMMA CommitKeeps ==
    ASSUME HistoryInv, NEW s \in Session, Commit(s)
    PROVE  HistoryInv'
<1>1. Shape /\ pc[s] = "commit"
  BY DEF HistoryInv, Commit
<1>2. /\ Shape' /\ pc'[s] = "idle" /\ deleted'[s] = {}
      /\ \A o \in Session \ {s} :
           /\ pc'[o] = pc[o] /\ hash'[o] = hash[o] /\ entry'[o] = entry[o]
           /\ existing'[o] = existing[o] /\ result'[o] = result[o]
           /\ todo'[o] \subseteq todo[o] /\ deleted'[o] = deleted[o]
  BY <1>1 DEF Commit, EndTransaction, Goto, Shape
<1>3. \A h \in Hash : h # hash[s] /\ h \notin deleted[s] => table'[h] = table[h]
  BY DEF Commit
<1>4. ASSUME NEW o \in Session \ {s} PROVE Stands(o)'
  <2>1. Stands(o) /\ Apart(s, o) /\ Apart(o, s)
    BY DEF HistoryInv
  <2>2. pc[o] \in HasRead => table'[hash[o]] = table[hash[o]]
    BY <1>1, <1>3, <2>1 DEF Stands, Apart, Locked, HasRead
  <2>3. \A g \in deleted[o] : g \in Hash /\ table'[g] = table[g]
    BY <1>1, <1>3, <2>1 DEF Stands, Apart, HasRead
  <2>4. \A g \in deleted'[o] : /\ g \in Hash \ {hash'[o]} /\ result'[o].lifecycle # "pending"
                               /\ Superseded(table'[g], result'[o].identifiers)
    BY <1>2, <2>1, <2>3 DEF Stands
  <2>5. pc'[o] \in HasRead => existing'[o] = table'[hash'[o]]
    BY <1>2, <2>1, <2>2 DEF Stands
  <2> QED
    BY SMT, <1>2, <2>1, <2>4, <2>5 DEF Stands, Superseded
<1>5. Stands(s)'
  BY <1>2 DEF Stands, HasRead, HasMerged
<1>6. ASSUME NEW o \in Session, NEW q \in Session, o # q PROVE Apart(o, q)'
  <2>1. Apart(o, q)
    BY <1>6 DEF HistoryInv
  <2> QED
    BY <1>2, <2>1 DEF Apart, Locked, HasRead
<1> QED
  BY <1>2, <1>4, <1>5, <1>6 DEF HistoryInv

\* Every step of every session keeps what the others have found and done.
LEMMA NextHistory == HistoryInv /\ [Next]_vars => HistoryInv'
<1> SUFFICES ASSUME HistoryInv, [Next]_vars
             PROVE  HistoryInv'
  OBVIOUS
<1>1. ASSUME NEW s \in Session, Step(s) PROVE HistoryInv'
  BY <1>1, AdvisoryLockKeeps, SelectKeeps, UpsertKeeps, ClearScanKeeps, ClearRowKeeps,
     ClearDoneKeeps, CommitKeeps, AbortKeeps DEF Step, DeadlockAbort
<1>2. ASSUME NEW s \in Session, Fail(s) PROVE HistoryInv'
  BY <1>2, AbortKeeps DEF Fail
<1>3. CASE UNCHANGED vars
  <2>1. /\ Shape' /\ \A s \in Session : Stands(s)'
    BY SMT, <1>3 DEF HistoryInv, vars, tx, Shape, Stands, Superseded
  <2>2. \A s, o \in Session : s # o => Apart(s, o)'
    BY <1>3 DEF HistoryInv, vars, tx, Apart
  <2> QED
    BY <2>1, <2>2 DEF HistoryInv
<1> QED
  BY <1>1, <1>2, <1>3, GotKeeps DEF Next, Done

-----------------------------------------------------------------------------
(* The refinement *)

\* A commit is one write of the contract, with the clears it has made.
LEMMA CommitIsWrite ==
    ASSUME HistoryInv, NEW s \in Session, Commit(s)
    PROVE  Contract!Got(hash[s], entry[s]) /\ hash[s] \in Hash /\ entry[s] \in Entries
<1>1. Stands(s) /\ pc[s] = "commit"
  BY DEF HistoryInv, Commit
<1>2. hash[s] \in Hash /\ entry[s] \in Entries
  BY <1>1 DEF Stands
<1>3. result[s] = Contract!Result(hash[s], entry[s])
  BY <1>1 DEF Stands, HasRead, HasMerged, Contract!Result
<1>4. deleted[s] \subseteq Contract!Clearable(hash[s], result[s])
  BY <1>1 DEF Stands, Superseded, Contract!Clearable
<1>5. table' = [h \in Hash |-> IF h = hash[s] THEN result[s]
                               ELSE IF h \in deleted[s] THEN NoRow ELSE table[h]]
  BY DEF Commit
<1> QED
  BY <1>2, <1>3, <1>4, <1>5 DEF Contract!Got

\* No other step changes the table.
LEMMA StepRefines == HistoryInv /\ [Next]_vars => [Contract!Next]_table
<1> SUFFICES ASSUME HistoryInv, [Next]_vars
             PROVE  Contract!Next \/ UNCHANGED table
  OBVIOUS
<1>1. ASSUME NEW s \in Session, Commit(s) PROVE Contract!Next
  BY <1>1, CommitIsWrite DEF Contract!Next
<1>2. ASSUME NEW s \in Session, Step(s) PROVE Contract!Next \/ UNCHANGED table
  BY <1>1, <1>2 DEF Step, AdvisoryLock, SelectForUpdate, Upsert, ClearScan, ClearRow, ClearDone,
                    DeadlockAbort, Abort
<1>3. ASSUME NEW s \in Session, Fail(s) PROVE UNCHANGED table
  BY <1>3 DEF Fail, Abort
<1>4. ASSUME NEW s \in Session, NEW h \in Hash, NEW e \in Entries, Got(s, h, e)
      PROVE  UNCHANGED table
  BY <1>4 DEF Got
<1> QED
  BY <1>2, <1>3, <1>4 DEF Next, Done, vars

(***************************************************************************)
(* However writes of one wallet interleave, wait for each other, deadlock  *)
(* or fail, the table changes as if each write that commits merged into    *)
(* its entry and cleared the pending entries it supersedes in one step.    *)
(***************************************************************************)
THEOREM HistoryIsAtomic == Spec => ImplementsHistory
<1>1. Init => Contract!Init
  BY DEF Init, Contract!Init
<1> QED
  BY <1>1, InitHistory, NextHistory, StepRefines, PTL DEF Spec, ImplementsHistory, Contract!Spec
=============================================================================
