----------------------- MODULE CheckpointStoreProofs ------------------------
(***************************************************************************)
(* The checkpoint store for every choice of its constants: its types, that *)
(* prune never takes a chunk from a committed manifest, that the grace     *)
(* window suffices until a save's transaction outlives it, that its reads  *)
(* are of one instant, and that it implements its contract.                *)
(*                                                                         *)
(* The argument for the last two: a save that has claimed a number holds   *)
(* its pair's counter row, so its number is still the next one when it     *)
(* commits, and its manifest, junction rows and chunks become visible      *)
(* together.  A prune selects the oldest manifests of a pair and never the *)
(* last, and neither saves nor other prunes change that before it commits. *)
(* So the manifests in the tables, or in a snapshot of them, are always    *)
(* whole.  ContractInv says so.                                            *)
(*                                                                         *)
(* Counting lists the facts about finite sets that its steps use; they are *)
(* proved at the end, where the theorems on finite sets come into scope.   *)
(***************************************************************************)
EXTENDS CheckpointStore, TLAPS

\* Leaves go to Zenon; those it cannot do, with arithmetic mostly, name SMT.
USE Zenon

\* The rows a save writes are rows of ckpt_manifest_chunks.
LEMMA JunctionRowsType ==
    ASSUME NEW id \in Nat, NEW d \in Payload
    PROVE  JunctionRows(id, d) \in SUBSET JunctionRow
<1>1. d \in Seq(Chunk)
  BY ConstantsAssumption
<1>2. \A i \in DOMAIN d : i \in Nat /\ d[i] \in Chunk
  BY SMT, <1>1
<1> QED
  BY SMT, <1>2 DEF JunctionRows, JunctionRow

\* Every variable of the sessions is a function on them.
LEMMA Domains ==
    ASSUME TypeOK
    PROVE  /\ DOMAIN pc = Session /\ DOMAIN age = Session /\ DOMAIN req = Session
           /\ DOMAIN todo = Session /\ DOMAIN upserted = Session /\ DOMAIN reclaimed = Session
           /\ DOMAIN newManifests = Session /\ DOMAIN newJunction = Session
           /\ DOMAIN victims = Session /\ DOMAIN unlinked = Session
           /\ DOMAIN claimed = Session /\ DOMAIN cursor = Session
           /\ DOMAIN snap = Session /\ DOMAIN out = Session
  BY DEF TypeOK, TransactionsOK

\* Where a session is says which kind it is and what it was asked.
LEMMA Kinds ==
    ASSUME TypeOK, NEW s \in Session
    PROVE  /\ pc[s] \in {"upsert", "claim", "insert", "advance"} => s \in Saver /\ req[s] \in SaveReq
           /\ pc[s] \in {"unlink", "scan", "reclaim", "fkcheck", "fkfault"} =>
                s \in Pruner /\ req[s] \in PruneReq
           /\ pc[s] = "read" => s \in Reader /\ req[s] \in LoadReq \cup HistoryReq
<1>1. RequestOK(s)
  BY DEF TypeOK
<1> QED
  BY <1>1 DEF RequestOK, SavePc, PrunePc, ReadPc

\* A step of s leaves the others with the requests they have.
LEMMA RequestsKept ==
    ASSUME TypeOK, NEW s \in Session, RequestOK(s)',
           \A o \in Session \ {s} : pc'[o] = pc[o] /\ req'[o] = req[o]
    PROVE  \A o \in Session : RequestOK(o)'
  BY DEF TypeOK, RequestOK

\* Initially every table is empty and every session idle.
LEMMA InitTypeOK == Init => TypeOK
<1> SUFFICES ASSUME Init PROVE TypeOK
  OBVIOUS
<1>1. TablesOK
  BY DEF Init, TablesOK
<1>2. TransactionsOK
  BY DEF Init, TransactionsOK
<1>3. \A s \in Session : RequestOK(s)
  BY DEF Init, RequestOK
<1> QED
  BY <1>1, <1>2, <1>3 DEF TypeOK

\* What ending a transaction leaves of it.
LEMMA EndTransactionTypes ==
    ASSUME TypeOK, NEW s \in Session, EndTransaction(s), todo' \in [Session -> SUBSET Chunk]
    PROVE  TransactionsOK' /\ \A o \in Session : RequestOK(o)'
<1>1. TransactionsOK
  BY DEF TypeOK
<1>2. /\ pc' \in [Session -> {"idle"} \cup SavePc \cup PrunePc \cup ReadPc]
      /\ age' \in [Session -> Nat] /\ claimed' \in [Session -> Nat] /\ cursor' \in [Session -> Nat]
  BY <1>1 DEF EndTransaction, TransactionsOK, Goto
<1>3. /\ upserted' \in [Session -> SUBSET Chunk] /\ reclaimed' \in [Session -> SUBSET Chunk]
      /\ newManifests' \in [Session -> SUBSET Manifest]
      /\ newJunction' \in [Session -> SUBSET JunctionRow]
      /\ victims' \in [Session -> SUBSET Nat] /\ unlinked' \in [Session -> SUBSET Nat]
  BY <1>1 DEF EndTransaction, TransactionsOK
<1>4. DOMAIN req' = Session /\ DOMAIN snap' = Session /\ DOMAIN out' = Session
  BY <1>1 DEF EndTransaction, TransactionsOK
<1>5. /\ pc'[s] = "idle" /\ req'[s] = NoReq
      /\ \A o \in Session \ {s} : pc'[o] = pc[o] /\ req'[o] = req[o]
  BY Domains DEF EndTransaction, Goto
<1>6. RequestOK(s)'
  BY <1>5 DEF RequestOK
<1> QED
  BY <1>2, <1>3, <1>4, <1>5, <1>6, RequestsKept DEF TransactionsOK

\* A transaction that is dropped leaves the types as they are.
LEMMA RollbackTypeOK ==
    ASSUME TypeOK, NEW s \in Session, Rollback(s), fails' \in Nat, late' \in SUBSET Saver
    PROVE  TypeOK'
<1>1. TablesOK'
  BY DEF Rollback, EndTransaction, TypeOK, TablesOK, db
<1>2. todo' \in [Session -> SUBSET Chunk]
  BY DEF Rollback, TypeOK, TransactionsOK
<1> QED
  BY <1>1, <1>2, EndTransactionTypes DEF Rollback, TypeOK

\* One that commits adds rows of the right types.
LEMMA CommitTypeOK ==
    ASSUME TypeOK, NEW s \in Session, Commit(s)
    PROVE  TypeOK'
<1> SUFFICES ASSUME TablesOK, TransactionsOK PROVE TypeOK'
  BY DEF TypeOK
<1>2. /\ chunks' \in SUBSET Chunk /\ chunkAge' \in [Chunk -> Nat]
      /\ manifests' \in SUBSET Manifest /\ junction' \in SUBSET JunctionRow
  BY DEF Commit, TablesOK, TransactionsOK, RefreshedAge
<1>3. claimed[s] + 1 \in Nat /\ cursor[s] \in Nat /\ counters \in [Pair -> Nat] /\ watermarks \in [Pair -> Nat]
  BY SMT DEF TablesOK, TransactionsOK
<1>4. counters' \in [Pair -> Nat] /\ watermarks' \in [Pair -> Nat]
  BY <1>3 DEF Commit
<1>5. nextId' \in Nat /\ fails' \in Nat /\ late' \in SUBSET Saver
  BY DEF Commit, EndTransaction, TablesOK
<1>6. todo' \in [Session -> SUBSET Chunk]
  BY DEF Commit, TransactionsOK
<1> QED
  BY <1>2, <1>4, <1>5, <1>6, EndTransactionTypes DEF Commit, TablesOK, TypeOK

\* The steps of a save.
LEMMA SaveStepTypeOK ==
    ASSUME TypeOK, NEW s \in Session, SaveStep(s)
    PROVE  TypeOK'
<1> SUFFICES ASSUME TablesOK, TransactionsOK PROVE TypeOK'
  BY DEF TypeOK
<1>1. pc[s] \in {"upsert", "claim", "insert", "advance"} /\ UNCHANGED <<db, nextId, fails, late, req>>
  BY DEF SaveStep, UpsertChunk, UpsertDone, ClaimSeq, TakeSeq, InsertManifest, AdvanceCursor
<1>2. s \in Saver /\ req[s] \in SaveReq
  BY <1>1, Kinds
<1>3. TablesOK'
  BY <1>1 DEF TablesOK, db
<1>4. ASSUME TransactionsOK', pc'[s] \in {"upsert", "claim", "insert", "advance", "commit"},
             \A o \in Session \ {s} : pc'[o] = pc[o]
      PROVE  TypeOK'
  <2>1. RequestOK(s)'
    BY <1>1, <1>2, <1>4 DEF RequestOK, SavePc
  <2> QED
    BY <1>1, <1>3, <1>4, <2>1, RequestsKept DEF TypeOK
<1>5. ASSUME NEW h \in Chunk, UpsertChunk(s, h) PROVE TypeOK'
  <2>1. TransactionsOK'
    BY <1>5 DEF UpsertChunk, TransactionsOK, reads
  <2> QED
    BY <1>4, <1>5, <2>1 DEF UpsertChunk
<1>6. CASE UpsertDone(s)
  <2>1. TransactionsOK'
    BY <1>6 DEF UpsertDone, TransactionsOK, Goto, writes, reads, SavePc
  <2> QED
    BY <1>4, <1>6, <2>1, Domains DEF UpsertDone, Goto
<1>7. CASE ClaimSeq(s)
  <2>1. req[s].pair \in Pair
    BY <1>2 DEF SaveReq
  <2>2. counters[req[s].pair] \in Nat
    BY <2>1 DEF TablesOK
  <2>3. TransactionsOK'
    BY <1>7, <2>2 DEF ClaimSeq, TakeSeq, TransactionsOK, Goto, reads, SavePc
  <2> QED
    BY <1>4, <1>7, <2>3, Domains DEF ClaimSeq, TakeSeq, Goto
<1>8. CASE InsertManifest(s)
  <2>1. JunctionRows(req[s].id, req[s].payload) \in SUBSET JunctionRow
    BY <1>2, JunctionRowsType DEF SaveReq
  <2>2. [id |-> req[s].id, pair |-> req[s].pair, seq |-> claimed[s],
         hash |-> req[s].payload] \in Manifest
    BY <1>2 DEF SaveReq, Manifest, TransactionsOK
  <2>3. TransactionsOK'
    BY <1>8, <2>1, <2>2 DEF InsertManifest, TransactionsOK, Goto, reads, SavePc
  <2> QED
    BY <1>4, <1>8, <2>3, Domains DEF InsertManifest, Goto
<1>9. CASE AdvanceCursor(s)
  <2>1. TransactionsOK'
    BY <1>9 DEF AdvanceCursor, TransactionsOK, Goto, reads, SavePc
  <2> QED
    BY <1>4, <1>9, <2>1, Domains DEF AdvanceCursor, Goto
<1> QED
  BY <1>5, <1>6, <1>7, <1>8, <1>9 DEF SaveStep

\* The steps of a prune.
LEMMA PruneStepTypeOK ==
    ASSUME TypeOK, NEW s \in Session, PruneStep(s)
    PROVE  TypeOK'
<1> SUFFICES ASSUME TablesOK, TransactionsOK, fails \in Nat, late \in SUBSET Saver PROVE TypeOK'
  BY DEF TypeOK, TablesOK
<1>1. ASSUME pc[s] \in {"unlink", "scan", "reclaim", "fkcheck", "fkfault"},
             UNCHANGED <<db, nextId, fails, late, req>>, TransactionsOK',
             pc'[s] \in {"scan", "reclaim", "fkcheck", "fkfault", "commit"},
             \A o \in Session \ {s} : pc'[o] = pc[o]
      PROVE  TypeOK'
  <2>1. s \in Pruner /\ req[s] \in PruneReq
    BY <1>1, Kinds
  <2>2. TablesOK'
    BY <1>1 DEF TablesOK, db
  <2>3. RequestOK(s)'
    BY <1>1, <2>1 DEF RequestOK, PrunePc
  <2> QED
    BY <1>1, <2>2, <2>3, RequestsKept DEF TypeOK
<1>2. CASE PruneManifests(s)
  <2>1. {m.id : m \in {n \in manifests : n.id \in victims[s]}} \in SUBSET Nat
    BY SMT DEF TablesOK, Manifest
  <2>2. TransactionsOK'
    BY <1>2, <2>1 DEF PruneManifests, TransactionsOK, Goto, reads, PrunePc
  <2> QED
    BY <1>1, <1>2, <2>2, Domains DEF PruneManifests, Goto
<1>3. CASE PruneScan(s)
  <2>1. {h \in chunks : PastGrace(s, h) /\ ~ Referenced(s, h)} \in SUBSET Chunk
    BY DEF TablesOK
  <2>2. TransactionsOK'
    BY <1>3, <2>1 DEF PruneScan, TransactionsOK, Goto, writes, reads, PrunePc
  <2> QED
    BY <1>1, <1>3, <2>2, Domains DEF PruneScan, Goto
<1>4. ASSUME NEW h \in Chunk, ReclaimChunk(s, h) PROVE TypeOK'
  <2>1. TransactionsOK'
    BY <1>4 DEF ReclaimChunk, TransactionsOK, reads
  <2> QED
    BY <1>1, <1>4, <2>1 DEF ReclaimChunk
<1>5. CASE ReclaimDone(s)
  <2>1. TransactionsOK'
    BY <1>5 DEF ReclaimDone, TransactionsOK, Goto, writes, reads, PrunePc
  <2> QED
    BY <1>1, <1>5, <2>1, Domains DEF ReclaimDone, Goto
<1>6. CASE FkCheck(s)
  <2>1. TransactionsOK'
    BY <1>6 DEF FkCheck, TransactionsOK, Goto, writes, reads, PrunePc
  <2> QED
    BY <1>1, <1>6, <2>1, Domains DEF FkCheck, Goto
<1>7. CASE PruneFault(s)
  BY <1>7, RollbackTypeOK DEF PruneFault
<1> QED
  BY <1>2, <1>3, <1>4, <1>5, <1>6, <1>7 DEF PruneStep

\* Every step keeps the types; a step of s is one the request of s allows.
LEMMA NextTypeOK == TypeOK /\ [Next]_vars => TypeOK'
<1> SUFFICES ASSUME TypeOK, [Next]_vars PROVE TypeOK'
  OBVIOUS
<1> SUFFICES ASSUME TablesOK, TransactionsOK, fails \in Nat, late \in SUBSET Saver PROVE TypeOK'
  BY DEF TypeOK, TablesOK
<1>1. ASSUME NEW s \in Saver, NEW p \in Pair, NEW d \in Payload, NEW adv \in Advance,
             SaveBegin(s, p, d, adv)
      PROVE  TypeOK'
  <2>1. {d[i] : i \in DOMAIN d} \in SUBSET Chunk
    BY SMT, ConstantsAssumption
  <2>2. [op |-> "save", id |-> nextId, pair |-> p, payload |-> d, advance |-> adv] \in SaveReq
    BY ConstantsAssumption DEF SaveReq, TablesOK
  <2>3. TablesOK'
    BY SMT, <1>1 DEF SaveBegin, TablesOK, db
  <2>4. TransactionsOK'
    BY <1>1, <2>1 DEF SaveBegin, TransactionsOK, Goto, writes, reads, SavePc
  <2>5. /\ s \in Session /\ RequestOK(s)'
        /\ \A o \in Session \ {s} : pc'[o] = pc[o] /\ req'[o] = req[o]
    BY <1>1, <2>2, Domains DEF SaveBegin, RequestOK, Goto, Session, SavePc
  <2> QED
    BY <2>3, <2>4, <2>5, RequestsKept DEF TypeOK
<1>2. ASSUME NEW s \in Pruner, NEW p \in Pair, NEW k \in RetainCount, PruneBegin(s, p, k)
      PROVE  TypeOK'
  <2>1. {m.id : m \in Superseded(Of(manifests, p), k)} \in SUBSET Nat
    <3>1. \A m \in Superseded(Of(manifests, p), k) : m \in Manifest
      BY DEF Superseded, Of, TablesOK
    <3> QED
      BY <3>1 DEF Manifest
  <2>2. [op |-> "prune", pair |-> p, retain |-> k] \in PruneReq
    BY DEF PruneReq
  <2>3. TablesOK'
    BY <1>2 DEF PruneBegin, TablesOK, db
  <2>4. TransactionsOK'
    BY <1>2, <2>1 DEF PruneBegin, TransactionsOK, Goto, writes, reads, PrunePc
  <2>5. /\ s \in Session /\ RequestOK(s)'
        /\ \A o \in Session \ {s} : pc'[o] = pc[o] /\ req'[o] = req[o]
    BY <1>2, <2>2, Domains DEF PruneBegin, RequestOK, Goto, Session, PrunePc
  <2> QED
    BY <2>3, <2>4, <2>5, RequestsKept DEF TypeOK
<1>3. ASSUME NEW s \in Reader, NEW r \in LoadReq \cup HistoryReq, NEW page, ReadBegin(s, r, page)
      PROVE  TypeOK'
  <2>1. TablesOK'
    BY <1>3 DEF ReadBegin, TablesOK, db
  <2>2. TransactionsOK'
    BY <1>3 DEF ReadBegin, TransactionsOK, Goto, writes, ReadPc
  <2>3. /\ s \in Session /\ RequestOK(s)'
        /\ \A o \in Session \ {s} : pc'[o] = pc[o] /\ req'[o] = req[o]
    BY <1>3, Domains DEF ReadBegin, RequestOK, Goto, Session, ReadPc
  <2> QED
    BY <2>1, <2>2, <2>3, RequestsKept DEF TypeOK
<1>4. ASSUME NEW s \in Session, ReadStep(s)
      PROVE  TypeOK'
  <2>1. /\ pc[s] = "read" /\ Goto(s, "commit") /\ DOMAIN out' = DOMAIN out
        /\ UNCHANGED <<db, nextId, age, req, todo, victims, writes, snap, fails, late>>
    BY <1>4 DEF ReadStep, LoadChunks, HistoryAggregate
  <2>2. TablesOK'
    BY <2>1 DEF TablesOK, db
  <2>3. TransactionsOK'
    BY <2>1 DEF TransactionsOK, Goto, writes, ReadPc
  <2>4. /\ s \in Reader /\ req[s] \in LoadReq \cup HistoryReq /\ UNCHANGED req /\ pc'[s] = "commit"
        /\ \A o \in Session \ {s} : pc'[o] = pc[o]
    BY <2>1, Domains, Kinds DEF Goto
  <2>5. RequestOK(s)'
    BY <2>4 DEF RequestOK, ReadPc
  <2> QED
    BY <2>2, <2>3, <2>4, <2>5, RequestsKept DEF TypeOK
<1>5. ASSUME NEW s \in Session, Step(s)
      PROVE  TypeOK'
  BY <1>4, <1>5, SaveStepTypeOK, PruneStepTypeOK, CommitTypeOK, RollbackTypeOK
     DEF Step, DeadlockAbort
<1>6. ASSUME NEW s \in Session, Fail(s)
      PROVE  TypeOK'
  BY SMT, <1>6, RollbackTypeOK DEF Fail
<1>7. CASE Tick
  <2>1. TablesOK'
    <3>1. chunkAge' \in [Chunk -> Nat] /\ late' \in SUBSET Saver
      BY SMT, <1>7 DEF Tick, TablesOK
    <3> QED
      BY <1>7, <3>1 DEF Tick, TablesOK
  <2>2. TransactionsOK'
    <3>1. age' \in [Session -> Nat]
      BY SMT, <1>7 DEF Tick, TransactionsOK
    <3> QED
      BY <1>7, <3>1 DEF Tick, TransactionsOK, writes, reads
  <2>3. \A s \in Session : RequestOK(s)'
    BY <1>7 DEF Tick, TypeOK, RequestOK
  <2> QED
    BY <2>1, <2>2, <2>3 DEF TypeOK
<1>8. CASE UNCHANGED vars
  <2>1. TablesOK'
    BY <1>8 DEF vars, db, TablesOK
  <2>2. TransactionsOK'
    BY <1>8 DEF vars, writes, reads, TransactionsOK
  <2>3. \A s \in Session : RequestOK(s)'
    BY <1>8 DEF vars, TypeOK, RequestOK
  <2> QED
    BY <2>1, <2>2, <2>3 DEF TypeOK
<1>9. ASSUME NEW s \in Reader, NEW p \in Pair, NEW q \in 0 .. MaxSaves, LoadManifest(s, p, q)
      PROVE  TypeOK'
  BY SMT, <1>3, <1>9 DEF LoadManifest, LoadReq
<1>10. ASSUME NEW s \in Reader, NEW p \in Pair, NEW b \in 0 .. MaxSaves, NEW n \in PageLimit,
              HistoryPage(s, p, b, n)
       PROVE  TypeOK'
  BY SMT, <1>3, <1>10 DEF HistoryPage, HistoryReq
<1> QED
  BY <1>1, <1>2, <1>5, <1>6, <1>7, <1>8, <1>9, <1>10 DEF Next

\* The type invariant holds of every reachable state.
THEOREM TypeCorrect == Spec => []TypeOK
  BY InitTypeOK, NextTypeOK, PTL DEF Spec

-----------------------------------------------------------------------------
(* Garbage collection                                                      *)

\* The chunks of a save's payload are held by it once the upsert is over, and
\* are held or still to be visited before.
PayloadHeldBy(s) ==
    /\ pc[s] = "upsert" =>
        \A i \in DOMAIN req[s].payload : req[s].payload[i] \in upserted[s] \cup todo[s]
    /\ pc[s] \in {"claim", "insert"} =>
        \A i \in DOMAIN req[s].payload : req[s].payload[i] \in upserted[s]

PayloadHeld == \A s \in Session : PayloadHeldBy(s)

\* A junction row is inserted under the lock of the chunk row it refers to.
JunctionHeld == \A s \in Session : \A r \in newJunction[s] : r.hash \in upserted[s]

\* Row locks exclude.
LocksExclude ==
    \A s, o \in Session : s # o => \A h \in Chunk : ~ (ChunkHeld(s, h) /\ ChunkHeld(o, h))

\* Only a prune that has reached its second statement has deleted chunk rows.
OnlyPruneReclaims ==
    \A s \in Session :
        reclaimed[s] # {} =>
            s \in Pruner /\ pc[s] \in {"reclaim", "fkcheck", "fkfault", "commit"}

\* What passed the foreign key check stays valid up to the commit.
FkHolds ==
    \A s \in Session : pc[s] = "commit" => \A h \in reclaimed[s] : ~ Referenced(s, h)

\* The inductive invariant behind NoDanglingChunk.
GcInv ==
    /\ TypeOK
    /\ PayloadHeld /\ JunctionHeld /\ LocksExclude /\ OnlyPruneReclaims /\ FkHolds
    /\ NoDanglingChunk

\* An empty store refers to nothing.
LEMMA InitGcInv == Init => GcInv
<1> SUFFICES ASSUME Init PROVE GcInv
  OBVIOUS
<1>1. TypeOK
  BY InitTypeOK
<1>2. PayloadHeld /\ JunctionHeld /\ LocksExclude
  BY DEF Init, PayloadHeld, PayloadHeldBy, JunctionHeld, LocksExclude, ChunkHeld
<1>3. OnlyPruneReclaims /\ FkHolds /\ NoDanglingChunk
  BY DEF Init, OnlyPruneReclaims, FkHolds, NoDanglingChunk
<1> QED
  BY <1>1, <1>2, <1>3 DEF GcInv

\* A step of s that leaves the chunk and junction rows and the locks as they are.
QuietGc(s) ==
    /\ UNCHANGED <<chunks, junction, upserted, reclaimed, newJunction>>
    /\ \A o \in Session \ {s} : /\ pc'[o] = pc[o] /\ req'[o] = req[o]
                                /\ todo'[o] = todo[o] /\ unlinked'[o] = unlinked[o]

\* Such a step has only the place in s's own program to account for.
LEMMA QuietGcInv ==
    ASSUME GcInv, TypeOK', NEW s \in Session, QuietGc(s), PayloadHeldBy(s)',
           reclaimed[s] # {} => pc'[s] \in {"reclaim", "fkcheck", "fkfault", "commit"},
           pc'[s] = "commit" => \A h \in reclaimed[s] : ~ Referenced(s, h)'
    PROVE  GcInv'
<1> SUFFICES ASSUME TypeOK, PayloadHeld, JunctionHeld, LocksExclude, OnlyPruneReclaims, FkHolds,
                    NoDanglingChunk
             PROVE  GcInv'
  BY DEF GcInv
<1>1. ASSUME NEW o \in Session, o # s
      PROVE  PayloadHeldBy(o)'
  BY <1>1 DEF PayloadHeld, PayloadHeldBy, QuietGc
<1>2. PayloadHeld'
  BY <1>1 DEF PayloadHeld
<1>3. JunctionHeld' /\ NoDanglingChunk'
  BY DEF QuietGc, JunctionHeld, NoDanglingChunk
<1>4. LocksExclude'
  BY DEF QuietGc, LocksExclude, ChunkHeld
<1>5. OnlyPruneReclaims'
  BY DEF QuietGc, OnlyPruneReclaims
<1>6. FkHolds'
  BY DEF QuietGc, FkHolds, Referenced
<1> QED
  BY <1>2, <1>3, <1>4, <1>5, <1>6 DEF GcInv

\* A transaction that is dropped takes nothing from the others.
LEMMA RollbackGcInv ==
    ASSUME GcInv, NEW s \in Session, Rollback(s), TypeOK'
    PROVE  GcInv'
<1> SUFFICES ASSUME TypeOK, PayloadHeld, JunctionHeld, LocksExclude, OnlyPruneReclaims, FkHolds,
                    NoDanglingChunk
             PROVE  GcInv'
  BY DEF GcInv
<1>1. /\ pc'[s] = "idle" /\ upserted'[s] = {} /\ reclaimed'[s] = {} /\ newJunction'[s] = {}
      /\ \A o \in Session \ {s} :
            /\ pc'[o] = pc[o] /\ req'[o] = req[o] /\ todo'[o] = todo[o]
            /\ upserted'[o] = upserted[o] /\ reclaimed'[o] = reclaimed[o]
            /\ newJunction'[o] = newJunction[o] /\ unlinked'[o] = unlinked[o]
      /\ chunks' = chunks /\ junction' = junction
  BY Domains DEF Rollback, EndTransaction, Goto, db
<1>2. PayloadHeld'
  BY <1>1 DEF PayloadHeld, PayloadHeldBy
<1>3. JunctionHeld'
  BY <1>1 DEF JunctionHeld
<1>4. LocksExclude'
  BY <1>1 DEF LocksExclude, ChunkHeld
<1>5. OnlyPruneReclaims' /\ FkHolds'
  BY <1>1 DEF OnlyPruneReclaims, FkHolds, Referenced
<1>6. NoDanglingChunk'
  BY <1>1 DEF NoDanglingChunk
<1> QED
  BY <1>2, <1>3, <1>4, <1>5, <1>6 DEF GcInv

\* Commit: no chunk row it deletes is referred to, and every junction row it
\* adds comes with its chunk row; the others' locks keep them apart from both.
LEMMA CommitGcInv ==
    ASSUME GcInv, NEW s \in Session, Commit(s), TypeOK'
    PROVE  GcInv'
<1> SUFFICES ASSUME TypeOK, PayloadHeld, JunctionHeld, LocksExclude, OnlyPruneReclaims, FkHolds,
                    NoDanglingChunk
             PROVE  GcInv'
  BY DEF GcInv
<1>1. /\ pc[s] = "commit" /\ pc'[s] = "idle"
      /\ upserted'[s] = {} /\ reclaimed'[s] = {} /\ newJunction'[s] = {}
      /\ \A o \in Session \ {s} :
            /\ pc'[o] = pc[o] /\ req'[o] = req[o]
            /\ pc[o] # "reclaim" => todo'[o] = todo[o]
            /\ upserted'[o] = upserted[o] /\ reclaimed'[o] = reclaimed[o]
            /\ newJunction'[o] = newJunction[o] /\ unlinked'[o] = unlinked[o]
  BY Domains DEF Commit, EndTransaction, Goto
<1>2. /\ chunks' = (chunks \ reclaimed[s]) \cup upserted[s]
      /\ junction' = {r \in junction : r.id \notin unlinked[s]} \cup newJunction[s]
  BY DEF Commit
<1>3. PayloadHeld'
  BY <1>1 DEF PayloadHeld, PayloadHeldBy
<1>4. JunctionHeld'
  BY <1>1 DEF JunctionHeld
<1>5. LocksExclude' /\ OnlyPruneReclaims'
  BY <1>1 DEF LocksExclude, ChunkHeld, OnlyPruneReclaims
<1>6. FkHolds'
  <2> SUFFICES ASSUME NEW o \in Session, pc'[o] = "commit", NEW h \in reclaimed'[o],
                      NEW r \in junction', r.hash = h, r.id \notin unlinked'[o]
               PROVE  FALSE
    BY DEF FkHolds, Referenced
  <2>1. o # s /\ h \in reclaimed[o] /\ pc[o] = "commit" /\ r.id \notin unlinked[o]
    BY <1>1
  <2>2. r \notin junction
    BY <2>1 DEF FkHolds, Referenced
  <2>3. h \in upserted[s]
    BY <1>2, <2>2 DEF JunctionHeld
  <2>4. h \in Chunk
    BY <2>1 DEF TypeOK, TransactionsOK
  <2> QED
    BY <2>1, <2>3, <2>4 DEF LocksExclude, ChunkHeld
<1>7. NoDanglingChunk'
  <2> SUFFICES ASSUME NEW r \in junction' PROVE r.hash \in chunks'
    BY DEF NoDanglingChunk
  <2>1. CASE r \in newJunction[s]
    BY <1>2, <2>1 DEF JunctionHeld
  <2>2. CASE r \in junction /\ r.id \notin unlinked[s]
    BY <1>1, <1>2, <2>2 DEF NoDanglingChunk, FkHolds, Referenced
  <2> QED
    BY <1>2, <2>1, <2>2
<1> QED
  BY <1>3, <1>4, <1>5, <1>6, <1>7 DEF GcInv

\* The steps of a save keep the invariant of the chunks.
LEMMA SaveStepGcInv ==
    ASSUME GcInv, NEW s \in Session, SaveStep(s), TypeOK'
    PROVE  GcInv'
<1> SUFFICES ASSUME TypeOK, PayloadHeld, JunctionHeld, LocksExclude, OnlyPruneReclaims, FkHolds,
                    NoDanglingChunk
             PROVE  GcInv'
  BY DEF GcInv
<1>1. s \in Saver /\ reclaimed[s] = {}
  <2>1. pc[s] \in {"upsert", "claim", "insert", "advance"}
    BY DEF SaveStep, UpsertChunk, UpsertDone, ClaimSeq, InsertManifest, AdvanceCursor
  <2> QED
    BY <2>1, Kinds, SessionsAssumption DEF OnlyPruneReclaims
<1>2. ASSUME NEW h \in Chunk, UpsertChunk(s, h) PROVE GcInv'
  <2>1. /\ UNCHANGED <<chunks, junction, pc, req, reclaimed, newJunction, unlinked>>
        /\ upserted'[s] = upserted[s] \cup {h} /\ todo'[s] = todo[s] \ {h}
        /\ \A o \in Session \ {s} : /\ upserted'[o] = upserted[o] /\ todo'[o] = todo[o]
                                    /\ ~ ChunkHeld(o, h)
    BY <1>2, Domains DEF UpsertChunk, db
  <2>2. PayloadHeld'
    BY <2>1 DEF PayloadHeld, PayloadHeldBy
  <2>3. JunctionHeld'
    BY <2>1 DEF JunctionHeld
  <2>4. LocksExclude'
    <3>1. /\ \A g : ChunkHeld(s, g)' => ChunkHeld(s, g) \/ g = h
          /\ \A o \in Session \ {s} : \A g : ChunkHeld(o, g)' = ChunkHeld(o, g)
      BY <2>1 DEF ChunkHeld
    <3> QED
      BY SMT, <2>1, <3>1 DEF LocksExclude
  <2>5. OnlyPruneReclaims' /\ FkHolds' /\ NoDanglingChunk'
    BY <2>1 DEF OnlyPruneReclaims, FkHolds, Referenced, NoDanglingChunk
  <2> QED
    BY <2>2, <2>3, <2>4, <2>5 DEF GcInv
<1>3. CASE UpsertDone(s)
  <2>1. QuietGc(s) /\ pc[s] = "upsert" /\ todo[s] = {} /\ pc'[s] = "claim" /\ UNCHANGED req
    BY <1>3, Domains DEF UpsertDone, QuietGc, Goto, db, writes
  <2>2. PayloadHeldBy(s)'
    BY <2>1 DEF PayloadHeld, PayloadHeldBy, QuietGc
  <2> QED
    BY <1>1, <2>1, <2>2, QuietGcInv
<1>4. CASE ClaimSeq(s)
  <2>1. QuietGc(s) /\ pc[s] = "claim" /\ pc'[s] = "insert" /\ UNCHANGED req
    BY <1>4, Domains DEF ClaimSeq, TakeSeq, QuietGc, Goto, db
  <2>2. PayloadHeldBy(s)'
    BY <2>1 DEF PayloadHeld, PayloadHeldBy, QuietGc
  <2> QED
    BY <1>1, <2>1, <2>2, QuietGcInv
<1>5. CASE InsertManifest(s)
  <2>1. /\ UNCHANGED <<chunks, junction, req, todo, upserted, reclaimed, unlinked>>
        /\ pc[s] = "insert" /\ pc'[s] \in {"advance", "commit"}
        /\ newJunction'[s] = JunctionRows(req[s].id, req[s].payload)
        /\ \A o \in Session \ {s} : newJunction'[o] = newJunction[o] /\ pc'[o] = pc[o]
    BY <1>5, Domains DEF InsertManifest, Goto, db
  <2>2. PayloadHeld'
    BY <2>1 DEF PayloadHeld, PayloadHeldBy
  <2>3. JunctionHeld'
    <3>1. ASSUME NEW r \in JunctionRows(req[s].id, req[s].payload)
          PROVE  r.hash \in upserted[s]
      <4>1. PICK i \in DOMAIN req[s].payload : r.hash = req[s].payload[i]
        BY SMT, <3>1 DEF JunctionRows
      <4> QED
        BY <2>1, <4>1 DEF PayloadHeld, PayloadHeldBy
    <3> QED
      BY <2>1, <3>1 DEF JunctionHeld
  <2>4. LocksExclude' /\ NoDanglingChunk'
    BY <2>1 DEF LocksExclude, ChunkHeld, NoDanglingChunk
  <2>5. OnlyPruneReclaims' /\ FkHolds'
    BY <1>1, <2>1 DEF OnlyPruneReclaims, FkHolds, Referenced
  <2> QED
    BY <2>2, <2>3, <2>4, <2>5 DEF GcInv
<1>6. CASE AdvanceCursor(s)
  <2>1. QuietGc(s) /\ pc'[s] = "commit"
    BY <1>6, Domains DEF AdvanceCursor, QuietGc, Goto, db
  <2>2. PayloadHeldBy(s)'
    BY <2>1 DEF PayloadHeldBy
  <2> QED
    BY <1>1, <2>1, <2>2, QuietGcInv
<1> QED
  BY <1>2, <1>3, <1>4, <1>5, <1>6 DEF SaveStep

\* So do the steps of a prune; the foreign key lets it commit only what no
\* junction row refers to.
LEMMA PruneStepGcInv ==
    ASSUME GcInv, NEW s \in Session, PruneStep(s), TypeOK'
    PROVE  GcInv'
<1> SUFFICES ASSUME TypeOK, PayloadHeld, JunctionHeld, LocksExclude, OnlyPruneReclaims, FkHolds,
                    NoDanglingChunk
             PROVE  GcInv'
  BY DEF GcInv
<1>1. CASE PruneManifests(s)
  <2>1. QuietGc(s) /\ pc[s] = "unlink" /\ pc'[s] = "scan"
    BY <1>1, Domains DEF PruneManifests, QuietGc, Goto, db
  <2>2. reclaimed[s] = {}
    BY <2>1 DEF OnlyPruneReclaims
  <2>3. PayloadHeldBy(s)'
    BY <2>1 DEF PayloadHeldBy
  <2> QED
    BY <2>1, <2>2, <2>3, QuietGcInv
<1>2. CASE PruneScan(s)
  <2>1. QuietGc(s) /\ pc'[s] = "reclaim"
    BY <1>2, Domains DEF PruneScan, QuietGc, Goto, db, writes
  <2>2. PayloadHeldBy(s)'
    BY <2>1 DEF PayloadHeldBy
  <2> QED
    BY <2>1, <2>2, QuietGcInv
<1>3. ASSUME NEW h \in Chunk, ReclaimChunk(s, h) PROVE GcInv'
  <2>1. pc[s] = "reclaim" /\ s \in Pruner
    BY <1>3, Kinds DEF ReclaimChunk
  <2>2. /\ UNCHANGED <<chunks, junction, pc, req, upserted, newJunction, unlinked>>
        /\ reclaimed'[s] \subseteq reclaimed[s] \cup {h}
        /\ \A o \in Session \ {s} : /\ reclaimed'[o] = reclaimed[o] /\ todo'[o] = todo[o]
                                    /\ ~ ChunkHeld(o, h)
    BY <1>3, Domains DEF ReclaimChunk, db
  <2>3. PayloadHeld' /\ JunctionHeld'
    BY <2>1, <2>2 DEF PayloadHeld, PayloadHeldBy, JunctionHeld
  <2>4. LocksExclude'
    BY SMT, <2>2 DEF LocksExclude, ChunkHeld
  <2>5. OnlyPruneReclaims'
    BY <2>1, <2>2 DEF OnlyPruneReclaims
  <2>6. FkHolds' /\ NoDanglingChunk'
    BY <2>1, <2>2 DEF FkHolds, Referenced, NoDanglingChunk
  <2> QED
    BY <2>3, <2>4, <2>5, <2>6 DEF GcInv
<1>4. CASE ReclaimDone(s)
  <2>1. QuietGc(s) /\ pc'[s] = "fkcheck"
    BY <1>4, Domains DEF ReclaimDone, QuietGc, Goto, db, writes
  <2>2. PayloadHeldBy(s)'
    BY <2>1 DEF PayloadHeldBy
  <2> QED
    BY <2>1, <2>2, QuietGcInv
<1>5. CASE FkCheck(s)
  <2>1. /\ QuietGc(s) /\ pc'[s] \in {"fkfault", "commit"} /\ UNCHANGED <<junction, unlinked>>
        /\ pc'[s] = "commit" => \A h \in reclaimed[s] : ~ Referenced(s, h)
    BY <1>5, Domains DEF FkCheck, QuietGc, Goto, db, writes
  <2>2. PayloadHeldBy(s)'
    BY <2>1 DEF PayloadHeldBy
  <2>3. \A h : Referenced(s, h)' <=> Referenced(s, h)
    BY <2>1 DEF Referenced
  <2> QED
    BY <2>1, <2>2, <2>3, QuietGcInv
<1>6. CASE PruneFault(s)
  BY <1>6, RollbackGcInv DEF PruneFault
<1> QED
  BY <1>1, <1>2, <1>3, <1>4, <1>5, <1>6 DEF PruneStep

\* Every step of a save, a prune, a read or a fault keeps the invariant of the chunks.
LEMMA NextGcInv == GcInv /\ [Next]_vars => GcInv'
<1> SUFFICES ASSUME GcInv, [Next]_vars PROVE GcInv'
  OBVIOUS
<1> SUFFICES ASSUME TypeOK, PayloadHeld, JunctionHeld, LocksExclude, OnlyPruneReclaims, FkHolds,
                    NoDanglingChunk
             PROVE  GcInv'
  BY DEF GcInv
<1>t. TypeOK'
  BY NextTypeOK
<1>1. ASSUME NEW s \in Saver, NEW p \in Pair, NEW d \in Payload, NEW adv \in Advance,
             SaveBegin(s, p, d, adv)
      PROVE  GcInv'
  <2>1. /\ s \in Session /\ QuietGc(s) /\ pc[s] = "idle" /\ pc'[s] = "upsert"
        /\ req'[s].payload = d /\ todo'[s] = {d[i] : i \in DOMAIN d}
    BY <1>1, Domains DEF SaveBegin, QuietGc, Goto, db, writes, Session
  <2>2. PayloadHeldBy(s)'
    BY <2>1 DEF PayloadHeldBy
  <2>3. reclaimed[s] = {}
    BY <2>1 DEF OnlyPruneReclaims
  <2> QED
    BY <1>t, <2>1, <2>2, <2>3, QuietGcInv
<1>2. ASSUME NEW s \in Session, pc[s] = "idle", QuietGc(s), pc'[s] \in {"unlink", "read"}
      PROVE  GcInv'
  <2>1. PayloadHeldBy(s)' /\ reclaimed[s] = {}
    BY <1>2 DEF PayloadHeldBy, OnlyPruneReclaims
  <2> QED
    BY <1>t, <1>2, <2>1, QuietGcInv
<1>3. ASSUME NEW s \in Pruner, NEW p \in Pair, NEW k \in RetainCount, PruneBegin(s, p, k)
      PROVE  GcInv'
  <2>1. s \in Session /\ pc[s] = "idle" /\ QuietGc(s) /\ pc'[s] = "unlink"
    BY <1>3, Domains DEF PruneBegin, QuietGc, Goto, db, writes, Session
  <2> QED
    BY <1>2, <2>1
<1>4. ASSUME NEW s \in Reader, NEW r, NEW page, ReadBegin(s, r, page)
      PROVE  GcInv'
  <2>1. s \in Session /\ pc[s] = "idle" /\ QuietGc(s) /\ pc'[s] = "read"
    BY <1>4, Domains DEF ReadBegin, QuietGc, Goto, db, writes, Session
  <2> QED
    BY <1>2, <2>1
<1>5. ASSUME NEW s \in Session, ReadStep(s)
      PROVE  GcInv'
  <2>1. pc[s] = "read" /\ Goto(s, "commit") /\ UNCHANGED <<db, req, todo, writes>>
    BY <1>5 DEF ReadStep, LoadChunks, HistoryAggregate
  <2>2. QuietGc(s) /\ pc[s] = "read" /\ pc'[s] = "commit"
    BY <2>1, Domains DEF QuietGc, Goto, db, writes
  <2>3. PayloadHeldBy(s)' /\ reclaimed[s] = {}
    BY <2>2 DEF PayloadHeldBy, OnlyPruneReclaims
  <2> QED
    BY <1>t, <2>2, <2>3, QuietGcInv
<1>6. ASSUME NEW s \in Session, Step(s)
      PROVE  GcInv'
  BY <1>t, <1>5, <1>6, SaveStepGcInv, PruneStepGcInv, CommitGcInv, RollbackGcInv
     DEF Step, DeadlockAbort
<1>7. ASSUME NEW s \in Session, Fail(s)
      PROVE  GcInv'
  BY <1>t, <1>7, RollbackGcInv DEF Fail
<1>8. ASSUME UNCHANGED <<chunks, junction, pc, req, todo, upserted, reclaimed, newJunction, unlinked>>
      PROVE  GcInv'
  <2>1. PayloadHeld' /\ JunctionHeld'
    BY <1>8 DEF PayloadHeld, PayloadHeldBy, JunctionHeld
  <2>2. LocksExclude' /\ OnlyPruneReclaims'
    BY <1>8 DEF LocksExclude, ChunkHeld, OnlyPruneReclaims
  <2>3. FkHolds' /\ NoDanglingChunk'
    BY <1>8 DEF FkHolds, Referenced, NoDanglingChunk
  <2> QED
    BY <1>t, <2>1, <2>2, <2>3 DEF GcInv
<1>9. CASE Tick
  BY <1>8, <1>9 DEF Tick, writes
<1>10. CASE UNCHANGED vars
  BY <1>8, <1>10 DEF vars, db, writes
<1>11. ASSUME NEW s \in Reader, NEW p \in Pair, NEW q \in 0 .. MaxSaves, LoadManifest(s, p, q)
       PROVE  GcInv'
  BY <1>4, <1>11 DEF LoadManifest
<1>12. ASSUME NEW s \in Reader, NEW p \in Pair, NEW b \in 0 .. MaxSaves, NEW n \in PageLimit,
              HistoryPage(s, p, b, n)
       PROVE  GcInv'
  BY <1>4, <1>12 DEF HistoryPage
<1> QED
  BY <1>1, <1>3, <1>11, <1>12, <1>6, <1>7, <1>9, <1>10 DEF Next

\* Law C2a, for any number of sessions, pairs, chunks and any length of
\* transaction: no committed manifest ever refers to a reclaimed chunk.
THEOREM GcSafe == Spec => []NoDanglingChunk
<1>1. GcInv => NoDanglingChunk
  BY DEF GcInv
<1> QED
  BY InitGcInv, NextGcInv, <1>1, PTL DEF Spec

-----------------------------------------------------------------------------
(* The grace window                                                        *)

\* A save whose transaction is older than the window is on record as late.
AgeBounded == \A s \in Saver : age[s] > Grace => s \in late

\* Only saves insert or refresh chunk rows.
OnlySaveUpserts == \A s \in Session \ Saver : upserted[s] = {}

\* A row the running scan would still delete is one no manifest refers to:
\* whoever referred to it since the scan began has refreshed its created_at.
ScanSafe ==
    late = {} =>
        \A s \in Pruner :
            pc[s] = "reclaim" => \A h \in todo[s] : PastGrace(s, h) => ~ Referenced(s, h)

\* The inductive invariant behind GraceSuffices.
GraceInv == GcInv /\ AgeBounded /\ OnlySaveUpserts /\ ScanSafe /\ GraceSuffices

\* The bounds are numbers.
LEMMA BoundsAreNat == Grace \in Nat /\ MaxTxAge \in Nat /\ MaxAge \in Nat
  BY SMT, ConstantsAssumption DEF MaxAge

\* A transaction that begins is not late.
LEMMA ZeroInWindow == ~(0 > Grace)
  BY SMT, BoundsAreNat

\* An empty store has no chunk to spare.
LEMMA InitGraceInv == Init => GraceInv
<1> SUFFICES ASSUME Init PROVE GraceInv
  OBVIOUS
<1>1. AgeBounded /\ OnlySaveUpserts
  BY ZeroInWindow DEF Init, AgeBounded, OnlySaveUpserts, Session
<1>2. ScanSafe /\ GraceSuffices
  BY DEF Init, ScanSafe, GraceSuffices, Session
<1> QED
  BY InitGcInv, <1>1, <1>2 DEF GraceInv

\* A rolled back save or prune has changed no chunk and no age.
LEMMA RollbackGraceInv ==
    ASSUME GraceInv, NEW s \in Session, Rollback(s), UNCHANGED late, GcInv'
    PROVE  GraceInv'
<1> SUFFICES ASSUME TypeOK, JunctionHeld, LocksExclude, AgeBounded, OnlySaveUpserts, ScanSafe,
                    GraceSuffices
             PROVE  GraceInv'
  BY DEF GraceInv, GcInv
<1>1. /\ pc'[s] = "idle" /\ age'[s] = 0 /\ reclaimed'[s] = {} /\ upserted'[s] = {}
      /\ \A o \in Session \ {s} :
            /\ pc'[o] = pc[o] /\ age'[o] = age[o] /\ todo'[o] = todo[o]
            /\ reclaimed'[o] = reclaimed[o] /\ unlinked'[o] = unlinked[o]
            /\ upserted'[o] = upserted[o]
      /\ chunkAge' = chunkAge /\ junction' = junction
  BY Domains DEF Rollback, EndTransaction, Goto, db
<1>2. AgeBounded' /\ OnlySaveUpserts'
  <2>1. AgeBounded'
    BY <1>1, ZeroInWindow DEF AgeBounded, Session
  <2>2. OnlySaveUpserts'
    BY <1>1 DEF OnlySaveUpserts
  <2> QED
    BY <2>1, <2>2
<1>3. ScanSafe'
  BY <1>1 DEF ScanSafe, PastGrace, Referenced, Session
<1>4. GraceSuffices'
  BY <1>1 DEF GraceSuffices, Referenced, Session
<1> QED
  BY <1>2, <1>3, <1>4 DEF GraceInv

\* A commit refers to a chunk only by making its row too young for every scan.
LEMMA CommitGraceInv ==
    ASSUME GraceInv, NEW s \in Session, Commit(s), GcInv'
    PROVE  GraceInv'
<1> SUFFICES ASSUME TypeOK, JunctionHeld, LocksExclude, AgeBounded, OnlySaveUpserts, ScanSafe,
                    GraceSuffices
             PROVE  GraceInv'
  BY DEF GraceInv, GcInv
<1>1. /\ pc'[s] = "idle" /\ age'[s] = 0 /\ reclaimed'[s] = {} /\ upserted'[s] = {}
      /\ \A o \in Session \ {s} :
            /\ pc'[o] = pc[o] /\ age'[o] = age[o]
            /\ todo'[o] \subseteq todo[o] /\ upserted'[o] = upserted[o]
            /\ reclaimed'[o] = reclaimed[o] /\ unlinked'[o] = unlinked[o]
      /\ late' = late
  BY Domains DEF Commit, EndTransaction, Goto
<1>2. /\ junction' = {r \in junction : r.id \notin unlinked[s]} \cup newJunction[s]
      /\ chunkAge' = [h \in Chunk |->
             IF h \in upserted[s] THEN age[s]
             ELSE IF h \in reclaimed[s] THEN 0 ELSE chunkAge[h]]
  BY DEF Commit, RefreshedAge
<1>3. \A o \in Session \ {s} : \A h : Referenced(o, h)' => Referenced(o, h) \/ h \in upserted[s]
  BY <1>1, <1>2 DEF Referenced, JunctionHeld
<1>4. AgeBounded' /\ OnlySaveUpserts'
  <2>1. AgeBounded'
    BY <1>1, ZeroInWindow DEF AgeBounded, Session
  <2>2. OnlySaveUpserts'
    BY <1>1 DEF OnlySaveUpserts
  <2> QED
    BY <2>1, <2>2
<1>5. ScanSafe'
  <2> SUFFICES ASSUME late' = {}, NEW o \in Pruner, pc'[o] = "reclaim", NEW h \in todo'[o],
                      PastGrace(o, h)', Referenced(o, h)'
               PROVE  FALSE
    BY DEF ScanSafe
  <2>1. o \in Session \ {s} /\ pc[o] = "reclaim" /\ h \in todo[o] /\ h \in Chunk
    BY <1>1 DEF Session, TypeOK, TransactionsOK
  <2>2. age[s] \in Nat /\ age[o] \in Nat /\ age'[o] = age[o] /\ Grace \in Nat
    BY <1>1, <2>1, BoundsAreNat DEF TypeOK, TransactionsOK
  <2>3. upserted[s] # {} => s \in Saver
    BY DEF OnlySaveUpserts
  <2>4. s \in Saver => ~ (age[s] > Grace)
    BY <1>1 DEF AgeBounded
  <2>5. chunkAge'[h] > Grace + age[o]
    BY <2>2 DEF PastGrace
  <2>6. h \notin upserted[s] /\ chunkAge'[h] = chunkAge[h]
    <3>1. h \in upserted[s] => chunkAge'[h] = age[s]
      BY <1>2, <2>1
    <3>2. h \in upserted[s] => chunkAge'[h] = age[s] /\ ~(age[s] > Grace)
      BY <2>3, <2>4, <3>1
    <3>3. ~(age[s] > Grace) => ~(age[s] > Grace + age[o])
      BY SMT, <2>2
    <3>4. h \notin upserted[s]
      BY <2>5, <3>2, <3>3
    <3>5. ~(0 > Grace + age[o])
      BY SMT, <2>2
    <3>6. chunkAge'[h] = IF h \in reclaimed[s] THEN 0 ELSE chunkAge[h]
      BY <1>2, <2>1, <3>4
    <3> QED
      BY <2>5, <3>4, <3>5, <3>6
  <2>7. PastGrace(o, h) /\ Referenced(o, h)
    BY <1>3, <2>1, <2>5, <2>6 DEF PastGrace
  <2> QED
    BY <1>1, <2>1, <2>7 DEF ScanSafe
<1>6. GraceSuffices'
  <2> SUFFICES ASSUME late' = {}, NEW o \in Pruner, NEW h \in reclaimed'[o], Referenced(o, h)'
               PROVE  FALSE
    BY DEF GraceSuffices
  <2>1. o \in Session \ {s} /\ h \in reclaimed[o] /\ h \in Chunk
    BY <1>1 DEF Session, TypeOK, TransactionsOK
  <2>2. h \notin upserted[s]
    BY <2>1 DEF LocksExclude, ChunkHeld
  <2> QED
    BY <1>1, <1>3, <2>1, <2>2 DEF GraceSuffices
<1> QED
  BY <1>4, <1>5, <1>6 DEF GraceInv

\* The clock moves rows and transactions alike, so no row becomes older than
\* the window of a running scan.
LEMMA TickGraceInv ==
    ASSUME GraceInv, Tick, GcInv'
    PROVE  GraceInv'
<1> SUFFICES ASSUME TypeOK, JunctionHeld, LocksExclude, AgeBounded, OnlySaveUpserts, ScanSafe,
                    GraceSuffices
             PROVE  GraceInv'
  BY DEF GraceInv, GcInv
<1> USE BoundsAreNat
<1>1. AgeBounded' /\ OnlySaveUpserts'
  BY DEF Tick, AgeBounded, OnlySaveUpserts, TypeOK, TransactionsOK, writes
<1>2. late' = {} => late = {}
  BY DEF Tick
<1>3. ASSUME NEW s \in Pruner, pc[s] = "reclaim", NEW h \in Chunk, PastGrace(s, h)'
      PROVE  PastGrace(s, h)
  <2>1. age'[s] = age[s] + 1 /\ age[s] \in Nat
    BY <1>3 DEF Tick, Session, TypeOK, TransactionsOK
  <2>2. chunkAge'[h] <= chunkAge[h] + 1 /\ chunkAge[h] \in Nat /\ chunkAge'[h] \in Nat
    <3>1. chunkAge[h] \in Nat
      BY <1>3 DEF TypeOK, TablesOK
    <3>2. chunkAge'[h] = IF h \in chunks /\ chunkAge[h] < MaxAge THEN chunkAge[h] + 1 ELSE chunkAge[h]
      BY <1>3 DEF Tick
    <3> QED
      BY SMT, <3>1, <3>2
  <2>3. chunkAge'[h] > Grace + age'[s]
    BY <1>3 DEF PastGrace
  <2>4. chunkAge[h] > Grace + age[s]
    BY SMT, <2>1, <2>2, <2>3
  <2> QED
    BY <2>4 DEF PastGrace
<1>4. ScanSafe'
  <2>1. UNCHANGED <<junction, pc, todo, unlinked>>
    BY DEF Tick, writes
  <2>2. \A s \in Pruner : todo[s] \subseteq Chunk
    BY DEF TypeOK, TransactionsOK, Session
  <2> QED
    BY <1>2, <1>3, <2>1, <2>2 DEF ScanSafe, Referenced
<1>5. GraceSuffices'
  BY <1>2 DEF GraceSuffices, Referenced, Tick, writes
<1> QED
  BY <1>1, <1>4, <1>5 DEF GraceInv

\* A step of s that changes no row, no lock and no clock, and begins no scan.
QuietGrace(s) ==
    /\ UNCHANGED <<chunkAge, junction, age, upserted, reclaimed, unlinked, late>>
    /\ \A o \in Pruner : pc'[o] = "reclaim" => pc[o] = "reclaim" /\ todo'[o] = todo[o]

\* Such a step keeps the invariant of the window.
LEMMA QuietGraceInv ==
    ASSUME GraceInv, GcInv', NEW s \in Session, QuietGrace(s)
    PROVE  GraceInv'
<1> SUFFICES ASSUME AgeBounded, OnlySaveUpserts, ScanSafe, GraceSuffices PROVE GraceInv'
  BY DEF GraceInv
<1>1. AgeBounded' /\ OnlySaveUpserts'
  BY DEF QuietGrace, AgeBounded, OnlySaveUpserts
<1>2. ScanSafe'
  BY DEF QuietGrace, ScanSafe, PastGrace, Referenced
<1>3. GraceSuffices'
  BY DEF QuietGrace, GraceSuffices, Referenced
<1> QED
  BY <1>1, <1>2, <1>3 DEF GraceInv

\* A prune that has deleted its manifests refers to less, and has yet to scan.
LEMMA PruneManifestsGraceInv ==
    ASSUME GraceInv, GcInv', NEW s \in Session, PruneManifests(s)
    PROVE  GraceInv'
<1> SUFFICES ASSUME TypeOK, OnlyPruneReclaims, AgeBounded, OnlySaveUpserts, ScanSafe, GraceSuffices
             PROVE  GraceInv'
  BY DEF GraceInv, GcInv
<1>1. /\ pc[s] = "unlink" /\ pc'[s] = "scan"
      /\ \A o \in Session \ {s} : unlinked'[o] = unlinked[o] /\ pc'[o] = pc[o]
      /\ UNCHANGED <<chunkAge, junction, age, todo, upserted, reclaimed, late>>
  BY Domains DEF PruneManifests, Goto, db
<1>2. reclaimed[s] = {}
  BY <1>1 DEF OnlyPruneReclaims
<1>3. AgeBounded' /\ OnlySaveUpserts'
  BY <1>1 DEF AgeBounded, OnlySaveUpserts
<1>4. ScanSafe'
  BY <1>1 DEF ScanSafe, PastGrace, Referenced, Session
<1>5. GraceSuffices'
  BY <1>1, <1>2 DEF GraceSuffices, Referenced, Session
<1> QED
  BY <1>3, <1>4, <1>5 DEF GraceInv

\* The scan picks only rows that no manifest refers to.
LEMMA PruneScanGraceInv ==
    ASSUME GraceInv, GcInv', NEW s \in Session, PruneScan(s)
    PROVE  GraceInv'
<1> SUFFICES ASSUME TypeOK, AgeBounded, OnlySaveUpserts, ScanSafe, GraceSuffices PROVE GraceInv'
  BY DEF GraceInv, GcInv
<1>1. /\ todo'[s] = {h \in chunks : PastGrace(s, h) /\ ~ Referenced(s, h)}
      /\ \A o \in Session \ {s} : todo'[o] = todo[o] /\ pc'[o] = pc[o]
      /\ UNCHANGED <<chunkAge, junction, age, upserted, reclaimed, unlinked, late>>
  BY Domains DEF PruneScan, Goto, db, writes
<1>2. AgeBounded' /\ OnlySaveUpserts'
  BY <1>1 DEF AgeBounded, OnlySaveUpserts
<1>3. ScanSafe'
  BY <1>1 DEF ScanSafe, PastGrace, Referenced, Session
<1>4. GraceSuffices'
  BY <1>1 DEF GraceSuffices, Referenced
<1> QED
  BY <1>2, <1>3, <1>4 DEF GraceInv

\* A row is deleted only if it is past the window still, and then nothing
\* refers to it.
LEMMA ReclaimChunkGraceInv ==
    ASSUME GraceInv, GcInv', NEW s \in Session, NEW h \in Chunk, ReclaimChunk(s, h)
    PROVE  GraceInv'
<1> SUFFICES ASSUME TypeOK, AgeBounded, OnlySaveUpserts, ScanSafe, GraceSuffices PROVE GraceInv'
  BY DEF GraceInv, GcInv
<1>1. s \in Pruner /\ pc[s] = "reclaim" /\ h \in todo[s]
  BY Kinds DEF ReclaimChunk
<1>2. /\ reclaimed'[s] = IF PastGrace(s, h) THEN reclaimed[s] \cup {h} ELSE reclaimed[s]
      /\ todo'[s] \subseteq todo[s]
      /\ \A o \in Session \ {s} : reclaimed'[o] = reclaimed[o] /\ todo'[o] = todo[o]
      /\ UNCHANGED <<chunkAge, junction, age, pc, upserted, unlinked, late>>
  BY Domains DEF ReclaimChunk, db
<1>3. late = {} /\ PastGrace(s, h) => ~ Referenced(s, h)
  BY <1>1 DEF ScanSafe
<1>4. AgeBounded' /\ OnlySaveUpserts'
  BY <1>2 DEF AgeBounded, OnlySaveUpserts
<1>5. \A o \in Pruner, g \in Chunk :
        (PastGrace(o, g)' <=> PastGrace(o, g)) /\ (Referenced(o, g)' <=> Referenced(o, g))
  BY <1>2 DEF PastGrace, Referenced
<1>6. \A o \in Pruner : todo[o] \subseteq Chunk /\ reclaimed[o] \subseteq Chunk
  BY DEF TypeOK, TransactionsOK, Session
<1>7. ScanSafe'
  BY <1>2, <1>5, <1>6 DEF ScanSafe, Session
<1>8. GraceSuffices'
  BY <1>2, <1>3, <1>5, <1>6 DEF GraceSuffices, Session
<1> QED
  BY <1>4, <1>7, <1>8 DEF GraceInv

\* A save's lock on a chunk row changes neither its age nor what refers to it.
LEMMA UpsertChunkGraceInv ==
    ASSUME GraceInv, GcInv', NEW s \in Session, NEW h \in Chunk, UpsertChunk(s, h)
    PROVE  GraceInv'
<1> SUFFICES ASSUME TypeOK, AgeBounded, OnlySaveUpserts, ScanSafe, GraceSuffices PROVE GraceInv'
  BY DEF GraceInv, GcInv
<1>1. s \in Saver /\ s \notin Pruner
  BY Kinds, SessionsAssumption DEF UpsertChunk
<1>2. /\ \A o \in Session \ {s} : upserted'[o] = upserted[o] /\ todo'[o] = todo[o]
      /\ UNCHANGED <<chunkAge, junction, age, pc, reclaimed, unlinked, late>>
  BY Domains DEF UpsertChunk, db
<1>3. AgeBounded' /\ OnlySaveUpserts'
  BY <1>1, <1>2 DEF AgeBounded, OnlySaveUpserts
<1>4. ScanSafe'
  BY <1>1, <1>2 DEF ScanSafe, PastGrace, Referenced, Session
<1>5. GraceSuffices'
  BY <1>2 DEF GraceSuffices, Referenced
<1> QED
  BY <1>3, <1>4, <1>5 DEF GraceInv

\* Every step but a commit leaves the junction table alone.
LEMMA NextGraceInv == GraceInv /\ [Next]_vars => GraceInv'
<1> SUFFICES ASSUME GraceInv, [Next]_vars, TypeOK, GcInv' PROVE GraceInv'
  BY NextGcInv DEF GraceInv, GcInv
<1> USE SessionsAssumption
<1>1. ASSUME NEW s \in Saver, NEW p \in Pair, NEW d \in Payload, NEW adv \in Advance,
             SaveBegin(s, p, d, adv)
      PROVE  GraceInv'
  <2>1. s \in Session /\ QuietGrace(s)
    BY <1>1, Domains DEF SaveBegin, QuietGrace, Goto, db, writes, Session
  <2> QED
    BY <2>1, QuietGraceInv
<1>2. ASSUME NEW s \in Pruner, NEW p \in Pair, NEW k \in RetainCount, PruneBegin(s, p, k)
      PROVE  GraceInv'
  <2>1. s \in Session /\ QuietGrace(s)
    BY <1>2, Domains DEF PruneBegin, QuietGrace, Goto, db, writes, Session
  <2> QED
    BY <2>1, QuietGraceInv
<1>3. ASSUME NEW s \in Reader, NEW r, NEW page, ReadBegin(s, r, page)
      PROVE  GraceInv'
  <2>1. s \in Session /\ QuietGrace(s)
    BY <1>3, Domains DEF ReadBegin, QuietGrace, Goto, db, writes, Session
  <2> QED
    BY <2>1, QuietGraceInv
<1>4. ASSUME NEW s \in Session, NEW l \in {"claim", "insert", "advance", "fkcheck", "fkfault", "commit"},
             Goto(s, l), UNCHANGED <<chunkAge, junction, age, todo, upserted, reclaimed, unlinked, late>>
      PROVE  GraceInv'
  <2>1. QuietGrace(s)
    BY <1>4, Domains DEF QuietGrace, Goto, Session
  <2> QED
    BY <2>1, QuietGraceInv
<1>5. ASSUME NEW s \in Session, SaveStep(s)
      PROVE  GraceInv'
  <2>1. ASSUME UpsertDone(s) \/ ClaimSeq(s) PROVE GraceInv'
    BY <1>4, <2>1 DEF UpsertDone, ClaimSeq, TakeSeq, db, writes
  <2>2. ASSUME InsertManifest(s) \/ AdvanceCursor(s) PROVE GraceInv'
    BY <1>4, <2>2 DEF InsertManifest, AdvanceCursor, db
  <2> QED
    BY <1>5, <2>1, <2>2, UpsertChunkGraceInv DEF SaveStep
<1>6. ASSUME NEW s \in Session, PruneStep(s)
      PROVE  GraceInv'
  <2>1. ASSUME ReclaimDone(s) \/ FkCheck(s) PROVE GraceInv'
    BY <1>4, <2>1 DEF ReclaimDone, FkCheck, db, writes
  <2>2. CASE PruneFault(s)
    BY <2>2, RollbackGraceInv DEF PruneFault
  <2> QED
    BY <1>6, <2>1, <2>2, PruneManifestsGraceInv, PruneScanGraceInv, ReclaimChunkGraceInv
       DEF PruneStep
<1>7. ASSUME NEW s \in Session, ReadStep(s)
      PROVE  GraceInv'
  BY <1>4, <1>7 DEF ReadStep, LoadChunks, HistoryAggregate, db, writes
<1>8. ASSUME NEW s \in Session, Step(s)
      PROVE  GraceInv'
  BY <1>5, <1>6, <1>7, <1>8, CommitGraceInv, RollbackGraceInv DEF Step, DeadlockAbort
<1>9. ASSUME NEW s \in Session, Fail(s)
      PROVE  GraceInv'
  BY <1>9, RollbackGraceInv DEF Fail
<1>10. CASE Tick
  BY <1>10, TickGraceInv
<1>11. CASE UNCHANGED vars
  <2>1. AgeBounded' /\ OnlySaveUpserts'
    BY <1>11 DEF GraceInv, AgeBounded, OnlySaveUpserts, vars, writes
  <2>2. ScanSafe' /\ GraceSuffices'
    BY <1>11 DEF GraceInv, ScanSafe, GraceSuffices, PastGrace, Referenced, vars, db, writes
  <2> QED
    BY <2>1, <2>2 DEF GraceInv
<1>12. ASSUME NEW s \in Reader, NEW p \in Pair, NEW q \in 0 .. MaxSaves, LoadManifest(s, p, q)
       PROVE  GraceInv'
  BY <1>3, <1>12 DEF LoadManifest
<1>13. ASSUME NEW s \in Reader, NEW p \in Pair, NEW b \in 0 .. MaxSaves, NEW n \in PageLimit,
              HistoryPage(s, p, b, n)
       PROVE  GraceInv'
  BY <1>3, <1>13 DEF HistoryPage
<1> QED
  BY <1>1, <1>2, <1>8, <1>9, <1>10, <1>11, <1>12, <1>13 DEF Next

\* Until some save's transaction has stayed open longer than the grace window,
\* prune never even deletes a chunk row that a committed manifest refers to, so
\* it never fails on the foreign key; for every window and every bound.
THEOREM GraceWindowSuffices == Spec => []GraceSuffices
<1>1. GraceInv => GraceSuffices
  BY DEF GraceInv
<1> QED
  BY InitGraceInv, NextGraceInv, <1>1, PTL DEF Spec

-----------------------------------------------------------------------------
(* Tables and sessions                                                     *)

\* The junction rows of m are those its save wrote.
Whole(rows, m) == Positions(rows, m.id) = JunctionRows(m.id, m.hash)

\* What the next claim for p returns.
NextSeq(p) == IF counters[p] = 0 THEN 1 ELSE counters[p]

\* The manifests s is about to delete, or has deleted.
Dying(s) == victims[s] \cup unlinked[s]

\* The tables: numbers below the counter, the last one retained, and whole manifests.
Committed ==
    /\ IsFiniteSet(manifests)
    /\ \A m \in manifests : m.id < nextId /\ m.seq < counters[m.pair] /\ Whole(junction, m)
    /\ \A m, n \in manifests : m.id = n.id => m = n
    /\ \A r \in junction : \E m \in manifests : m.id = r.id
    /\ \A p \in Pair : counters[p] # 0 => \E m \in manifests : m.pair = p /\ m.seq + 1 = counters[p]

\* A save has the next number, once it has claimed one, and an id of its own.
Saving(s) ==
    /\ s \notin Saver \/ pc[s] \in {"idle", "upsert", "claim"} => claimed[s] = 0
    /\ s \notin Saver \/ pc[s] \in {"idle", "upsert", "claim", "insert"} =>
         newManifests[s] = {} /\ newJunction[s] = {}
    /\ cursor[s] \in {0, claimed[s]}
    /\ s \in Saver /\ pc[s] \in {"insert", "advance", "commit"} => claimed[s] = NextSeq(req[s].pair)
    /\ s \in Saver /\ pc[s] \in {"advance", "commit"} =>
         /\ newManifests[s] = {[id |-> req[s].id, pair |-> req[s].pair, seq |-> claimed[s],
                                hash |-> req[s].payload]}
         /\ newJunction[s] = JunctionRows(req[s].id, req[s].payload)
    /\ s \in Saver /\ pc[s] # "idle" => req[s].id < nextId /\ \A m \in manifests : m.id # req[s].id

\* They are the oldest checkpoints of its pair, and never the last one.
DyingOK(s) ==
    /\ \A i \in Dying(s) : i < nextId
    /\ \A m \in manifests : m.id \in Dying(s) =>
         /\ m.pair = req[s].pair /\ m.seq + 1 < counters[m.pair]
         /\ \A n \in manifests : n.pair = m.pair /\ n.seq <= m.seq => n.id \in Dying(s)

\* Only a prune deletes manifests, and it selects them first.
Deleting(s) ==
    /\ s \notin Pruner \/ pc[s] = "idle" => Dying(s) = {}
    /\ pc[s] = "unlink" => unlinked[s] = {}
    /\ pc[s] # "unlink" => victims[s] = {}
    /\ DyingOK(s)

\* A read has whole manifests before it, and what it answered is not torn.
Reading(s) ==
    s \in Reader =>
        /\ pc[s] = "read" =>
             /\ \A m \in snap[s].page : m \in Manifest /\ Whole(snap[s].junction, m)
             /\ \A r \in snap[s].junction : r.hash \in snap[s].chunks
        /\ out[s].status \in {"none", "ok", "not_found"}
        /\ \A x \in out[s].summaries : x.chunkCount = Len(x.manifest.hash)

\* Two sessions write no counter, no number and no manifest in common.
Apart(s, o) ==
    /\ s \in Saver /\ pc[s] # "idle" =>
         /\ req[s].id \notin Dying(o)
         /\ o \in Saver /\ pc[o] # "idle" => req[s].id # req[o].id
    /\ claimed[s] # 0 /\ claimed[o] # 0 => req[s].pair # req[o].pair

ContractInv ==
    /\ GcInv /\ Committed
    /\ \A s \in Session : Saving(s) /\ Deleting(s) /\ Reading(s)
    /\ \A s, o \in Session : s # o => Apart(s, o)

\* What the invariant says of the sessions is about these.
OfSession(o) == <<pc[o], req[o], claimed[o], cursor[o], newManifests[o], newJunction[o],
                  victims[o], unlinked[o], snap[o], out[o]>>

\* Sessions that do not step stay apart, and reads see what they saw.
LEMMA OthersStay ==
    ASSUME ContractInv, NEW s \in Session, \A o \in Session \ {s} : UNCHANGED OfSession(o)
    PROVE  /\ \A o \in Session \ {s} : Reading(o)'
           /\ \A o, q \in Session \ {s} : o # q => Apart(o, q)'
<1>1. ASSUME NEW o \in Session \ {s} PROVE Reading(o)'
  <2>1. Reading(o) /\ UNCHANGED <<pc[o], snap[o], out[o]>>
    BY DEF ContractInv, OfSession
  <2> QED
    BY <2>1 DEF Reading, Whole
<1>2. ASSUME NEW o \in Session \ {s}, NEW q \in Session \ {s}, o # q PROVE Apart(o, q)'
  <2>1. Apart(o, q) /\ UNCHANGED OfSession(o) /\ UNCHANGED OfSession(q)
    BY <1>2 DEF ContractInv
  <2> QED
    BY <2>1 DEF Apart, OfSession, Dying
<1> QED
  BY <1>1, <1>2

\* A step of s that commits nothing has only s to answer for.
LEMMA OneSteps ==
    ASSUME ContractInv, GcInv', NEW s \in Session,
           UNCHANGED <<manifests, junction, counters>>, nextId' \in {nextId, nextId + 1},
           \A o \in Session \ {s} : UNCHANGED OfSession(o),
           Saving(s)', Deleting(s)', Reading(s)',
           \A o \in Session \ {s} : Apart(s, o)' /\ Apart(o, s)'
    PROVE  ContractInv'
<1>1. nextId \in Nat /\ manifests \in SUBSET Manifest
  BY DEF ContractInv, GcInv, TypeOK, TablesOK
<1>2. \A i \in Nat : i < nextId => i < nextId'
  BY SMT, <1>1
<1>3. Committed'
  <2>1. Committed /\ \A m \in manifests : m.id \in Nat
    BY <1>1 DEF ContractInv, Manifest
  <2> QED
    BY <1>2, <2>1 DEF Committed, Whole
<1>4. ASSUME NEW o \in Session \ {s} PROVE Saving(o)'
  <2>1. Saving(o) /\ UNCHANGED OfSession(o)
    BY DEF ContractInv
  <2>2. o \in Saver /\ pc[o] # "idle" => req[o].id \in Nat
    <3>1. RequestOK(o)
      BY DEF ContractInv, GcInv, TypeOK
    <3> QED
      BY <3>1, SessionsAssumption DEF RequestOK, SaveReq
  <2>3. UNCHANGED <<pc[o], req[o], claimed[o], cursor[o], newManifests[o], newJunction[o]>>
    BY <2>1 DEF OfSession
  <2>4. o \in Saver /\ pc[o] # "idle" => req[o].id < nextId' /\ \A m \in manifests : m.id # req[o].id
    BY <1>2, <2>1, <2>2 DEF Saving
  <2>5. NextSeq(req[o].pair)' = NextSeq(req[o].pair)
    BY <2>3 DEF NextSeq
  <2> QED
    BY <2>1, <2>3, <2>4, <2>5 DEF Saving
<1>5. ASSUME NEW o \in Session \ {s} PROVE Deleting(o)'
  <2>1. Deleting(o) /\ UNCHANGED OfSession(o)
    BY DEF ContractInv
  <2>2. Dying(o)' = Dying(o) /\ Dying(o) \subseteq Nat
    BY <2>1 DEF OfSession, Dying, ContractInv, GcInv, TypeOK, TransactionsOK
  <2>3. UNCHANGED <<pc[o], req[o], victims[o], unlinked[o]>>
    BY <2>1 DEF OfSession
  <2>4. \A i \in Dying(o) : i < nextId'
    BY <1>2, <2>1, <2>2 DEF Deleting, DyingOK
  <2>5. DyingOK(o)'
    BY SMT, <2>1, <2>2, <2>3, <2>4 DEF Deleting, DyingOK
  <2> QED
    BY <2>1, <2>2, <2>3, <2>5 DEF Deleting
<1>6. /\ \A o \in Session \ {s} : Reading(o)'
      /\ \A o, q \in Session \ {s} : o # q => Apart(o, q)'
  BY OthersStay
<1> QED
  BY <1>3, <1>4, <1>5, <1>6 DEF ContractInv

\* The parts of the invariant that do not concern a session of another kind.
LEMMA OtherKinds ==
    ASSUME ContractInv, NEW s \in Session
    PROVE  /\ s \notin Saver /\ UNCHANGED <<claimed[s], cursor[s], newManifests[s], newJunction[s]>>
                => Saving(s)'
           /\ s \notin Pruner /\ UNCHANGED <<victims[s], unlinked[s]>> => Deleting(s)'
           /\ s \notin Reader => Reading(s)'
<1>1. Saving(s) /\ Deleting(s)
  BY DEF ContractInv
<1> QED
  BY <1>1 DEF Saving, Deleting, DyingOK, Dying, Reading

\* A session that is under way, and has no new claim or victims, stays apart from the others.
LEMMA StaysApart ==
    ASSUME ContractInv, NEW s \in Session, pc[s] # "idle",
           UNCHANGED <<req[s], claimed[s]>>, Dying(s)' \subseteq Dying(s),
           \A o \in Session \ {s} : UNCHANGED OfSession(o)
    PROVE  \A o \in Session \ {s} : Apart(s, o)' /\ Apart(o, s)'
<1> SUFFICES ASSUME NEW o \in Session \ {s} PROVE Apart(s, o)' /\ Apart(o, s)'
  OBVIOUS
<1>1. Apart(s, o) /\ Apart(o, s) /\ UNCHANGED OfSession(o)
  BY DEF ContractInv
<1>2. UNCHANGED <<pc[o], req[o], claimed[o]>> /\ Dying(o)' = Dying(o)
  BY <1>1 DEF OfSession, Dying
<1> QED
  BY <1>1, <1>2 DEF Apart

\* The statements of a save.
LEMMA SaveStepContract ==
    ASSUME ContractInv, GcInv', NEW s \in Session, SaveStep(s)
    PROVE  ContractInv'
<1>1. /\ TypeOK /\ Saving(s) /\ s \in Saver /\ s \notin Pruner /\ s \notin Reader /\ req[s] \in SaveReq
      /\ pc[s] \in {"upsert", "claim", "insert", "advance"}
  <2>1. TypeOK /\ Saving(s)
    BY DEF ContractInv, GcInv
  <2>2. pc[s] \in {"upsert", "claim", "insert", "advance"}
    BY DEF SaveStep, UpsertChunk, UpsertDone, ClaimSeq, TakeSeq, InsertManifest, AdvanceCursor
  <2> QED
    BY <2>1, <2>2, Kinds, SessionsAssumption
<1>2. /\ UNCHANGED <<manifests, junction, counters, nextId, req, victims, unlinked, snap, out>>
      /\ \A o \in Session \ {s} : /\ pc'[o] = pc[o] /\ claimed'[o] = claimed[o] /\ cursor'[o] = cursor[o]
                                  /\ newManifests'[o] = newManifests[o] /\ newJunction'[o] = newJunction[o]
  BY <1>1, Domains DEF SaveStep, UpsertChunk, UpsertDone, ClaimSeq, TakeSeq, InsertManifest, AdvanceCursor,
                       Goto, db, writes, reads
<1>3. \A o \in Session \ {s} : UNCHANGED OfSession(o)
  BY <1>2 DEF OfSession
<1>4. Deleting(s)' /\ Reading(s)'
  BY <1>1, <1>2, OtherKinds
<1>5. ASSUME Saving(s)', \A o \in Session \ {s} : Apart(s, o)' /\ Apart(o, s)' PROVE ContractInv'
  BY <1>2, <1>3, <1>4, <1>5, OneSteps
<1>6. ASSUME claimed'[s] = claimed[s], Saving(s)' PROVE ContractInv'
  <2>1. Dying(s)' = Dying(s) /\ UNCHANGED <<req[s], claimed[s]>> /\ pc[s] # "idle"
    BY <1>1, <1>2, <1>6 DEF Dying
  <2> QED
    BY <1>3, <1>5, <1>6, <2>1, StaysApart
<1>7. /\ req[s].id < nextId' /\ \A m \in manifests' : m.id # req'[s].id
      /\ NextSeq(req[s].pair)' = NextSeq(req[s].pair)
  BY <1>1, <1>2 DEF Saving, NextSeq
<1>8. ASSUME NEW h \in Chunk, UpsertChunk(s, h) PROVE ContractInv'
  <2>1. /\ pc[s] = "upsert" /\ UNCHANGED <<pc[s], claimed[s], cursor[s], newManifests[s], newJunction[s]>>
    BY <1>8 DEF UpsertChunk
  <2>2. Saving(s)'
    BY <1>1, <1>2, <1>7, <2>1 DEF Saving
  <2> QED
    BY <1>6, <2>1, <2>2
<1>9. CASE UpsertDone(s)
  <2>1. /\ pc[s] = "upsert" /\ pc'[s] = "claim"
        /\ UNCHANGED <<claimed[s], cursor[s], newManifests[s], newJunction[s]>>
    BY <1>1, <1>9, Domains DEF UpsertDone, Goto, writes
  <2>2. Saving(s)'
    BY <1>1, <1>2, <1>7, <2>1 DEF Saving
  <2> QED
    BY <1>6, <2>1, <2>2
<1>10. CASE ClaimSeq(s)
  <2>1. /\ pc[s] = "claim" /\ pc'[s] = "insert" /\ claimed'[s] = NextSeq(req[s].pair)
        /\ UNCHANGED <<cursor[s], newManifests[s], newJunction[s]>>
    BY <1>1, <1>10, Domains DEF ClaimSeq, TakeSeq, Goto, NextSeq
  <2>2. cursor[s] = 0 /\ newManifests[s] = {} /\ newJunction[s] = {}
    BY <1>1, <2>1 DEF Saving
  <2>3. Saving(s)'
    BY <1>1, <1>2, <1>7, <2>1, <2>2 DEF Saving
  <2>4. ASSUME NEW o \in Session \ {s} PROVE Apart(s, o)' /\ Apart(o, s)'
    <3>1. Apart(s, o) /\ Apart(o, s)
      BY DEF ContractInv
    <3>2. claimed[o] # 0 => req[o].pair # req[s].pair
      BY <1>10 DEF ClaimSeq, CounterHeld
    <3>3. Dying(o)' = Dying(o) /\ Dying(s)' = Dying(s)
      BY <1>2 DEF Dying
    <3> QED
      BY <1>1, <1>2, <2>1, <3>1, <3>2, <3>3 DEF Apart
  <2> QED
    BY <1>5, <2>3, <2>4
<1>11. CASE InsertManifest(s)
  <2>1. /\ pc[s] = "insert" /\ pc'[s] \in {"advance", "commit"} /\ UNCHANGED <<claimed[s], cursor[s]>>
        /\ newManifests'[s] = {[id |-> req[s].id, pair |-> req[s].pair, seq |-> claimed[s],
                                hash |-> req[s].payload]}
        /\ newJunction'[s] = JunctionRows(req[s].id, req[s].payload)
    BY <1>1, <1>11, Domains DEF InsertManifest, Goto
  <2>2. Saving(s)'
    BY <1>1, <1>2, <1>7, <2>1 DEF Saving
  <2> QED
    BY <1>6, <2>1, <2>2
<1>12. CASE AdvanceCursor(s)
  <2>1. /\ pc[s] = "advance" /\ pc'[s] = "commit" /\ cursor'[s] = claimed[s]
        /\ UNCHANGED <<claimed[s], newManifests[s], newJunction[s]>>
    BY <1>1, <1>12, Domains DEF AdvanceCursor, Goto
  <2>2. Saving(s)'
    BY <1>1, <1>2, <1>7, <2>1 DEF Saving
  <2> QED
    BY <1>6, <2>1, <2>2
<1> QED
  BY <1>8, <1>9, <1>10, <1>11, <1>12 DEF SaveStep

\* A save begins with an id nobody has had.
LEMMA SaveBeginContract ==
    ASSUME ContractInv, GcInv', NEW s \in Saver, NEW p \in Pair, NEW d \in Payload, NEW adv \in Advance,
           SaveBegin(s, p, d, adv)
    PROVE  ContractInv'
<1>1. /\ TypeOK /\ s \in Session /\ s \notin Pruner /\ s \notin Reader /\ pc[s] = "idle"
  BY SessionsAssumption DEF ContractInv, GcInv, Session, SaveBegin
<1>2. /\ UNCHANGED <<manifests, junction, counters, victims, unlinked, claimed, cursor, newManifests,
                     newJunction, snap, out>>
      /\ nextId' = nextId + 1 /\ pc'[s] = "upsert" /\ req'[s].id = nextId
      /\ \A o \in Session \ {s} : pc'[o] = pc[o] /\ req'[o] = req[o]
  BY <1>1, Domains DEF SaveBegin, Goto, db, writes, reads
<1>3. \A o \in Session \ {s} : UNCHANGED OfSession(o)
  BY <1>2 DEF OfSession
<1>4. Deleting(s)' /\ Reading(s)'
  BY <1>1, <1>2, OtherKinds
<1>5. nextId \in Nat /\ \A m \in manifests : m.id \in Nat /\ m.id < nextId
  BY <1>1 DEF ContractInv, Committed, TypeOK, TablesOK, Manifest
<1>8. nextId \in Nat /\ ~(nextId < nextId)
  BY SMT, <1>5
<1>6. Saving(s)'
  <2>1. Saving(s)
    BY <1>1 DEF ContractInv
  <2>3. nextId < nextId + 1 /\ \A m \in manifests : m.id # nextId
    BY SMT, <1>5, <1>8
  <2>2. req'[s].id < nextId' /\ \A m \in manifests' : m.id # req'[s].id
    BY <1>2, <2>3
  <2> QED
    BY <1>1, <1>2, <2>1, <2>2 DEF Saving
<1>7. ASSUME NEW o \in Session \ {s} PROVE Apart(s, o)' /\ Apart(o, s)'
  <2>1. Apart(s, o) /\ Apart(o, s) /\ Saving(s) /\ Saving(o) /\ Deleting(s) /\ Deleting(o) /\ RequestOK(o)
    BY <1>1 DEF ContractInv, TypeOK
  <2>2. claimed[s] = 0 /\ Dying(s) = {}
    BY <1>1, <2>1 DEF Saving, Deleting
  <2>3. Dying(o)' = Dying(o) /\ Dying(s)' = Dying(s)
    BY <1>2 DEF Dying
  <2>4. nextId \notin Dying(o)
    BY <1>8, <2>1 DEF Deleting, DyingOK
  <2>5. o \in Saver /\ pc[o] # "idle" => req[o].id # nextId
    BY <1>8, <2>1 DEF Saving
  <2> QED
    BY <1>2, <2>2, <2>3, <2>4, <2>5 DEF Apart
<1> QED
  BY <1>1, <1>2, <1>3, <1>4, <1>6, <1>7, OneSteps

\* The statements of a prune.
LEMMA PruneStepContract ==
    ASSUME ContractInv, GcInv', NEW s \in Session, PruneStep(s), ~PruneFault(s)
    PROVE  ContractInv'
<1>1. /\ TypeOK /\ Deleting(s) /\ s \in Pruner /\ s \notin Saver /\ s \notin Reader
      /\ pc[s] \in {"unlink", "scan", "reclaim", "fkcheck"}
  <2>1. TypeOK /\ Deleting(s)
    BY DEF ContractInv, GcInv
  <2>2. pc[s] \in {"unlink", "scan", "reclaim", "fkcheck"}
    BY DEF PruneStep, PruneManifests, PruneScan, ReclaimChunk, ReclaimDone, FkCheck
  <2> QED
    BY <2>1, <2>2, Kinds, SessionsAssumption
<1>2. /\ UNCHANGED <<manifests, junction, counters, nextId, req, claimed, cursor, newManifests, newJunction,
                     snap, out>>
      /\ \A o \in Session \ {s} : /\ pc'[o] = pc[o] /\ victims'[o] = victims[o] /\ unlinked'[o] = unlinked[o]
  BY <1>1, Domains DEF PruneStep, PruneManifests, PruneScan, ReclaimChunk, ReclaimDone, FkCheck,
                       Goto, db, writes, reads
<1>3. \A o \in Session \ {s} : UNCHANGED OfSession(o)
  BY <1>2 DEF OfSession
<1>4. Saving(s)' /\ Reading(s)'
  BY <1>1, <1>2, OtherKinds
<1>5. ASSUME Dying(s)' \subseteq Dying(s), Deleting(s)' PROVE ContractInv'
  <2>1. UNCHANGED <<req[s], claimed[s]>> /\ pc[s] # "idle"
    BY <1>1, <1>2
  <2>2. \A o \in Session \ {s} : Apart(s, o)' /\ Apart(o, s)'
    BY <1>3, <1>5, <2>1, StaysApart
  <2> QED
    BY <1>2, <1>3, <1>4, <1>5, <2>2, OneSteps
<1>6. CASE PruneManifests(s)
  <2>1. /\ pc[s] = "unlink" /\ pc'[s] = "scan" /\ victims'[s] = {}
        /\ unlinked'[s] = {m.id : m \in {n \in manifests : n.id \in victims[s]}}
    BY <1>1, <1>6, Domains DEF PruneManifests, Goto
  <2>2. Dying(s) = victims[s] /\ Dying(s)' = unlinked'[s]
    BY <1>1, <2>1 DEF Deleting, Dying
  <2>5. Dying(s)' \subseteq Dying(s)
    BY SMT, <2>1, <2>2
  <2>6. \A m \in manifests : m.id \in Dying(s) => m.id \in Dying(s)'
    BY <2>1, <2>2
  <2>3. DyingOK(s)'
    BY <1>1, <1>2, <2>5, <2>6 DEF Deleting, DyingOK
  <2>4. Deleting(s)'
    BY <1>1, <2>1, <2>3 DEF Deleting
  <2> QED
    BY <1>5, <2>4, <2>5
<1>7. CASE ~PruneManifests(s)
  <2>1. pc[s] # "unlink" /\ pc'[s] \notin {"unlink", "idle"} /\ UNCHANGED <<victims[s], unlinked[s]>>
    BY <1>1, <1>7, Domains DEF PruneStep, PruneScan, ReclaimChunk, ReclaimDone, FkCheck, Goto, writes
  <2>2. Dying(s)' = Dying(s)
    BY <2>1 DEF Dying
  <2>4. DyingOK(s)'
    BY SMT, <1>1, <1>2, <2>2 DEF Deleting, DyingOK
  <2>3. Deleting(s)'
    BY <1>1, <2>1, <2>2, <2>4 DEF Deleting
  <2> QED
    BY <1>5, <2>2, <2>3
<1> QED
  BY <1>6, <1>7

\* A session that saves nothing and deletes nothing is apart from the others.
LEMMA QuietApart ==
    ASSUME ContractInv, NEW s \in Session, s \in Saver => pc'[s] = "idle",
           claimed'[s] = 0, Dying(s)' = {}, \A o \in Session \ {s} : UNCHANGED OfSession(o)
    PROVE  \A o \in Session \ {s} : Apart(s, o)' /\ Apart(o, s)'
<1> SUFFICES ASSUME NEW o \in Session \ {s} PROVE Apart(s, o)' /\ Apart(o, s)'
  OBVIOUS
<1> QED
  BY DEF Apart

\* A transaction that has ended leaves nothing of its own behind.
LEMMA EndedContract ==
    ASSUME ContractInv, NEW s \in Session, EndTransaction(s)
    PROVE  /\ nextId' = nextId
           /\ \A o \in Session \ {s} : UNCHANGED OfSession(o)
           /\ Saving(s)' /\ Deleting(s)' /\ Reading(s)'
           /\ \A o \in Session \ {s} : Apart(s, o)' /\ Apart(o, s)'
<1>1. TypeOK
  BY DEF ContractInv, GcInv
<1>2. /\ nextId' = nextId /\ pc'[s] = "idle" /\ claimed'[s] = 0 /\ cursor'[s] = 0
      /\ newManifests'[s] = {} /\ newJunction'[s] = {} /\ victims'[s] = {} /\ unlinked'[s] = {}
      /\ out'[s] = NoOut
  BY <1>1, Domains DEF EndTransaction, Goto
<1>3. ASSUME NEW o \in Session \ {s} PROVE UNCHANGED OfSession(o)
  <2>1. UNCHANGED <<pc[o], req[o], claimed[o], cursor[o], newManifests[o], newJunction[o]>>
    BY <1>1, Domains DEF EndTransaction, Goto
  <2>2. UNCHANGED <<victims[o], unlinked[o], snap[o], out[o]>>
    BY <1>1, Domains DEF EndTransaction
  <2> QED
    BY <2>1, <2>2 DEF OfSession
<1>4. Dying(s)' = {}
  BY <1>2 DEF Dying
<1>5. Saving(s)'
  BY <1>2 DEF Saving
<1>6. Deleting(s)'
  BY <1>2, <1>4 DEF Deleting, DyingOK
<1>7. Reading(s)'
  BY SMT, <1>2 DEF Reading, NoOut
<1>8. \A o \in Session \ {s} : Apart(s, o)' /\ Apart(o, s)'
  BY <1>2, <1>3, <1>4, QuietApart
<1> QED
  BY <1>2, <1>3, <1>5, <1>6, <1>7, <1>8

\* A rolled back transaction never was.
LEMMA RollbackContract ==
    ASSUME ContractInv, GcInv', NEW s \in Session, Rollback(s)
    PROVE  ContractInv'
<1>1. EndTransaction(s) /\ UNCHANGED <<manifests, junction, counters>>
  BY DEF Rollback, db
<1> QED
  BY <1>1, EndedContract, OneSteps

\* A read begins with manifests that are whole in its snapshot.
LEMMA ReadBeginContract ==
    ASSUME ContractInv, GcInv', NEW s \in Reader, NEW r, NEW page \in SUBSET manifests,
           ReadBegin(s, r, page)
    PROVE  ContractInv'
<1>1. /\ TypeOK /\ NoDanglingChunk /\ Committed /\ s \in Session /\ s \notin Saver /\ s \notin Pruner
      /\ Saving(s) /\ Deleting(s) /\ Reading(s)
  BY SessionsAssumption DEF ContractInv, GcInv, Session
<1>2. /\ UNCHANGED <<manifests, junction, counters, nextId, victims, unlinked, claimed, cursor,
                     newManifests, newJunction, out>>
      /\ pc'[s] = "read" /\ snap'[s] = [page |-> page, junction |-> junction, chunks |-> chunks]
      /\ \A o \in Session \ {s} : pc'[o] = pc[o] /\ req'[o] = req[o] /\ snap'[o] = snap[o]
  BY <1>1, Domains DEF ReadBegin, Goto, db, writes
<1>3. \A o \in Session \ {s} : UNCHANGED OfSession(o)
  BY <1>2 DEF OfSession
<1>4. Saving(s)' /\ Deleting(s)'
  BY <1>1, <1>2, OtherKinds
<1>5. claimed'[s] = 0 /\ Dying(s)' = {}
  BY <1>1, <1>2 DEF Saving, Deleting, Dying
<1>6. \A o \in Session \ {s} : Apart(s, o)' /\ Apart(o, s)'
  BY <1>1, <1>3, <1>5, QuietApart
<1>7. Reading(s)'
  <2>1. \A m \in page : m \in Manifest /\ Whole(junction, m)
    BY <1>1 DEF Committed, TypeOK, TablesOK
  <2>2. \A x \in junction : x.hash \in chunks
    BY <1>1 DEF NoDanglingChunk
  <2>3. /\ \A m \in snap'[s].page : m \in Manifest /\ Whole(snap'[s].junction, m)
        /\ \A x \in snap'[s].junction : x.hash \in snap'[s].chunks
    BY SMT, <1>2, <2>1, <2>2
  <2> QED
    BY <1>1, <1>2, <2>3 DEF Reading, Whole
<1> QED
  BY <1>1, <1>2, <1>3, <1>4, <1>6, <1>7, OneSteps

\* What the commit of a save publishes.
SavedManifest(s) == [id |-> req[s].id, pair |-> req[s].pair, seq |-> claimed[s], hash |-> req[s].payload]

LEMMA CommittedSave ==
    ASSUME ContractInv, NEW s \in Saver, Commit(s)
    PROVE  /\ req[s] \in SaveReq /\ req[s].id < nextId /\ \A m \in manifests : m.id # req[s].id
           /\ claimed[s] = NextSeq(req[s].pair) /\ claimed[s] \in Nat \ {0}
           /\ manifests' = manifests \cup {SavedManifest(s)}
           /\ junction' = junction \cup JunctionRows(req[s].id, req[s].payload)
           /\ counters' = [counters EXCEPT ![req[s].pair] = claimed[s] + 1]
           /\ cursor[s] \in {0, claimed[s]}
<1>1. /\ TypeOK /\ s \in Session /\ s \notin Pruner /\ pc[s] = "commit" /\ Saving(s) /\ Deleting(s)
      /\ RequestOK(s)
  BY SessionsAssumption DEF ContractInv, GcInv, TypeOK, Session, Commit
<1>2. req[s] \in SaveReq /\ counters \in [Pair -> Nat]
  BY <1>1, SessionsAssumption DEF RequestOK, TypeOK, TablesOK
<1>3. unlinked[s] = {}
  BY <1>1 DEF Deleting, Dying
<1>4. /\ claimed[s] = NextSeq(req[s].pair) /\ newManifests[s] = {SavedManifest(s)}
      /\ newJunction[s] = JunctionRows(req[s].id, req[s].payload)
      /\ req[s].id < nextId /\ \A m \in manifests : m.id # req[s].id
      /\ cursor[s] \in {0, claimed[s]}
  BY <1>1 DEF Saving, SavedManifest
<1>5. claimed[s] \in Nat \ {0}
  BY SMT, <1>2, <1>4 DEF NextSeq, SaveReq
<1>6. /\ manifests' = manifests \cup {SavedManifest(s)}
      /\ junction' = junction \cup JunctionRows(req[s].id, req[s].payload)
      /\ counters' = [counters EXCEPT ![req[s].pair] = claimed[s] + 1]
  BY <1>3, <1>4, <1>5 DEF Commit
<1> QED
  BY <1>2, <1>4, <1>5, <1>6

\* The next number is above every number of its pair, and only that pair's counter moves.
LEMMA CounterMoves ==
    ASSUME ContractInv, NEW s \in Saver, Commit(s)
    PROVE  /\ req[s].pair \in Pair /\ counters \in [Pair -> Nat]
           /\ counters'[req[s].pair] = claimed[s] + 1
           /\ \A p \in Pair : /\ counters'[p] \in Nat /\ counters[p] <= counters'[p]
                              /\ p # req[s].pair => counters'[p] = counters[p]
           /\ \A m \in manifests : /\ m \in Manifest
                                   /\ m.pair = req[s].pair => m.seq < claimed[s]
<1>1. /\ counters \in [Pair -> Nat] /\ manifests \in SUBSET Manifest /\ req[s].pair \in Pair /\ Committed
      /\ claimed[s] = NextSeq(req[s].pair) /\ claimed[s] \in Nat
      /\ counters' = [counters EXCEPT ![req[s].pair] = claimed[s] + 1]
  BY CommittedSave DEF ContractInv, GcInv, TypeOK, TablesOK, SaveReq
<1>2. claimed[s] = IF counters[req[s].pair] = 0 THEN 1 ELSE counters[req[s].pair]
  BY <1>1 DEF NextSeq
<1>3. \A p \in Pair : /\ counters'[p] \in Nat /\ counters[p] <= counters'[p]
                      /\ p # req[s].pair => counters'[p] = counters[p]
  BY SMT, <1>1, <1>2
<1>4. ASSUME NEW m \in manifests, m.pair = req[s].pair PROVE m.seq < claimed[s]
  <2>1. m.seq \in Nat /\ m.seq < counters[req[s].pair]
    BY <1>1, <1>4 DEF Manifest, Committed
  <2> QED
    BY SMT, <1>1, <1>2, <2>1
<1> QED
  BY <1>1, <1>3, <1>4

\* Other saves are of other pairs, and other prunes have not selected the new manifest.
LEMMA CommitSaveOthers ==
    ASSUME ContractInv, NEW s \in Saver, Commit(s), nextId' = nextId, NEW o \in Session \ {s},
           UNCHANGED OfSession(o)
    PROVE  Saving(o)' /\ Deleting(o)'
<1>1. /\ s \in Session /\ Saving(o) /\ Deleting(o) /\ Apart(s, o) /\ pc[s] = "commit"
      /\ UNCHANGED <<pc[o], req[o], claimed[o], cursor[o], newManifests[o], newJunction[o],
                     victims[o], unlinked[o]>>
      /\ RequestOK(o)
  BY DEF ContractInv, GcInv, TypeOK, Session, Commit, OfSession
<1>2. /\ manifests' = manifests \cup {SavedManifest(s)} /\ claimed[s] \in Nat \ {0}
      /\ SavedManifest(s).id = req[s].id /\ SavedManifest(s).pair = req[s].pair
      /\ SavedManifest(s).seq = claimed[s]
  BY CommittedSave DEF SavedManifest
<1>3. req[s].id \notin Dying(o) /\ (o \in Saver /\ pc[o] # "idle" => req[s].id # req[o].id)
  BY <1>1 DEF Apart
<1>4. Saving(o)'
  <2>1. ASSUME o \in Saver, pc[o] \in {"insert", "advance", "commit"}
        PROVE  NextSeq(req[o].pair)' = NextSeq(req[o].pair)
    <3>1. req[o].pair \in Pair
      BY <1>1, <2>1, SessionsAssumption DEF RequestOK, SaveReq
    <3>2. claimed[o] # 0
      <4>1. claimed[o] = NextSeq(req[o].pair)
        BY <1>1, <2>1 DEF Saving
      <4> QED
        BY SMT, <4>1 DEF NextSeq
    <3>3. req[o].pair # req[s].pair
      BY <1>1, <1>2, <3>2 DEF Apart
    <3>4. counters'[req[o].pair] = counters[req[o].pair]
      BY <3>1, <3>3, CounterMoves
    <3> QED
      BY <1>1, <3>4 DEF NextSeq
  <2>2. o \in Saver /\ pc[o] # "idle" => \A m \in manifests' : m.id # req[o].id
    BY <1>1, <1>2, <1>3 DEF Saving
  <2> QED
    BY <1>1, <2>1, <2>2 DEF Saving
<1>5. Dying(o)' = Dying(o)
  BY <1>1 DEF Dying
<1>6. DyingOK(o)'
  <2>1. \A i \in Dying(o)' : i < nextId'
    BY <1>1, <1>5 DEF Deleting, DyingOK
  <2>2. ASSUME NEW m \in manifests', m.id \in Dying(o)
        PROVE  /\ m.pair = req[o].pair /\ m.seq + 1 < counters'[m.pair]
               /\ \A n \in manifests' : n.pair = m.pair /\ n.seq <= m.seq => n.id \in Dying(o)
    <3>1. m \in manifests
      BY <1>2, <1>3, <2>2
    <3>2. /\ m.pair = req[o].pair /\ m.seq + 1 < counters[m.pair]
          /\ \A n \in manifests : n.pair = m.pair /\ n.seq <= m.seq => n.id \in Dying(o)
      BY <1>1, <2>2, <3>1 DEF Deleting, DyingOK
    <3>3. m.seq \in Nat /\ m.pair \in Pair /\ (m.pair = req[s].pair => m.seq < claimed[s])
      BY <3>1, CounterMoves DEF Manifest
    <3>4. m.seq + 1 < counters'[m.pair]
      BY SMT, <3>2, <3>3, CounterMoves
    <3>5. ~(SavedManifest(s).pair = m.pair /\ SavedManifest(s).seq <= m.seq)
      BY SMT, <1>2, <3>3
    <3> QED
      BY <1>2, <3>2, <3>4, <3>5
  <2> QED
    BY <1>1, <1>5, <2>1, <2>2 DEF DyingOK
<1> QED
  BY <1>1, <1>4, <1>5, <1>6 DEF Deleting

\* What the commit of a prune removes.
LEMMA CommittedPrune ==
    ASSUME ContractInv, NEW s \in Pruner, Commit(s)
    PROVE  /\ manifests' = {m \in manifests : m.id \notin Dying(s)}
           /\ junction' = {r \in junction : r.id \notin Dying(s)}
           /\ counters' = counters /\ watermarks' = watermarks
           /\ DyingOK(s)
<1>1. s \in Session /\ s \notin Saver /\ pc[s] = "commit" /\ Saving(s) /\ Deleting(s)
  BY SessionsAssumption DEF ContractInv, Session, Commit
<1>2. /\ claimed[s] = 0 /\ cursor[s] = 0 /\ newManifests[s] = {} /\ newJunction[s] = {}
      /\ Dying(s) = unlinked[s] /\ DyingOK(s)
  BY <1>1 DEF Saving, Deleting, Dying
<1> QED
  BY <1>2 DEF Commit

\* Fewer manifests are no concern of the other sessions.
LEMMA CommitPruneOthers ==
    ASSUME ContractInv, NEW s \in Pruner, Commit(s), nextId' = nextId, NEW o \in Session \ {s},
           UNCHANGED OfSession(o)
    PROVE  Saving(o)' /\ Deleting(o)'
<1>1. /\ Saving(o) /\ Deleting(o)
      /\ UNCHANGED <<pc[o], req[o], claimed[o], cursor[o], newManifests[o], newJunction[o],
                     victims[o], unlinked[o]>>
  BY DEF ContractInv, OfSession
<1>2. manifests' \subseteq manifests /\ counters' = counters
  BY CommittedPrune
<1>3. NextSeq(req[o].pair)' = NextSeq(req[o].pair) /\ Dying(o)' = Dying(o)
  BY <1>1, <1>2 DEF NextSeq, Dying
<1>4. Saving(o)'
  BY <1>1, <1>2, <1>3 DEF Saving
<1>5. DyingOK(o)'
  BY SMT, <1>1, <1>2, <1>3 DEF Deleting, DyingOK
<1> QED
  BY <1>1, <1>3, <1>4, <1>5 DEF Deleting

\* A read commits nothing.
LEMMA CommittedRead ==
    ASSUME ContractInv, NEW s \in Reader, Commit(s)
    PROVE  UNCHANGED <<manifests, junction, counters, watermarks>>
<1>1. s \in Session /\ s \notin Saver /\ s \notin Pruner /\ Saving(s) /\ Deleting(s)
  BY SessionsAssumption DEF ContractInv, Session
<1>2. /\ claimed[s] = 0 /\ cursor[s] = 0 /\ newManifests[s] = {} /\ newJunction[s] = {}
      /\ unlinked[s] = {}
  BY <1>1 DEF Saving, Deleting, Dying
<1> QED
  BY <1>2 DEF Commit

-----------------------------------------------------------------------------
(* The contract *)

\* What is needed of finite sets and of numbers.  It is proved after the steps that use
\* it, from the library's theorems, in whose company every proof takes longer.
Counting ==
    /\ IsFiniteSet({}) /\ Cardinality({}) = 0
    /\ \A S, x : IsFiniteSet(S) => IsFiniteSet(S \cup {x})
    /\ \A S : IsFiniteSet(S) => Cardinality(S) \in Nat
    /\ \A S : \A T \in SUBSET S : IsFiniteSet(S) => /\ IsFiniteSet(T)
                                                  /\ Cardinality(T) <= Cardinality(S)
    /\ \A id : \A d \in Payload : Cardinality(JunctionRows(id, d)) = Len(d)
    /\ \A S \in SUBSET Nat : S # {} => \E m \in S : \A n \in S : m <= n

\* A manifest whose rows are whole and whose chunks are present loads.
LEMMA WholeLoads ==
    ASSUME Counting, NEW m \in Manifest, NEW present, \A r \in JunctionRows(m.id, m.hash) : r.hash \in present
    PROVE  LoadStatus(m, JunctionRows(m.id, m.hash), present) = "ok"
<1> DEFINE rows == JunctionRows(m.id, m.hash)
<1>1. m.hash \in Payload /\ m.hash \in Seq(Chunk)
  BY ConstantsAssumption DEF Manifest
<1>2. Len(m.hash) \in Nat /\ DOMAIN m.hash = 1..Len(m.hash) /\ Cardinality(rows) = Len(m.hash)
  BY SMT, <1>1 DEF Counting
<1>5. ASSUME NEW i \in DOMAIN m.hash PROVE \E r \in rows : r.pos = i
  <2>1. [id |-> m.id, pos |-> i, hash |-> m.hash[i]] \in rows
    BY DEF JunctionRows
  <2> QED
    BY <2>1
<1>3. {r.pos : r \in rows} = 1..Cardinality(rows)
  <2>1. \A r \in rows : r.pos \in DOMAIN m.hash /\ r.hash = m.hash[r.pos]
    BY SMT DEF JunctionRows
  <2> QED
    BY <1>2, <1>5, <2>1
<1>4. HashesInOrder(rows) = m.hash
  <2>1. ASSUME NEW i \in 1..Len(m.hash) PROVE (CHOOSE r \in rows : r.pos = i).hash = m.hash[i]
    <3>1. \E r \in rows : r.pos = i
      BY <1>2, <1>5
    <3>2. \A r \in rows : r.pos = i => r.hash = m.hash[i]
      BY SMT DEF JunctionRows
    <3> QED
      BY <3>1, <3>2
  <2>2. m.hash = [i \in 1..Len(m.hash) |-> m.hash[i]]
    BY SMT, <1>1
  <2> HIDE DEF rows
  <2> QED
    BY <1>2, <2>1, <2>2 DEF HashesInOrder
<1> QED
  BY <1>3, <1>4 DEF LoadStatus

\* More checkpoints are newer than an older one.
LEMMA OlderSuperseded ==
    ASSUME Counting, NEW S, IsFiniteSet(S), NEW k \in Nat, NEW m \in Superseded(S, k), NEW n \in S,
           \A x \in S : x.seq \in Nat, n.seq <= m.seq
    PROVE  n \in Superseded(S, k)
<1> DEFINE newer(x) == {y \in S : y.seq > x.seq}
<1>1. newer(m) \in SUBSET newer(n) /\ newer(n) \in SUBSET S
  BY SMT DEF Superseded
<1>2. IsFiniteSet(newer(n)) /\ IsFiniteSet(newer(m))
  BY <1>1 DEF Counting
<1>3. Cardinality(newer(m)) <= Cardinality(newer(n))
  BY <1>1, <1>2 DEF Counting
<1>4. Cardinality(newer(m)) \in Nat /\ Cardinality(newer(n)) \in Nat
  BY <1>2 DEF Counting
<1>5. Cardinality(newer(m)) >= k
  BY DEF Superseded
<1>6. Cardinality(newer(n)) >= k
  BY SMT, <1>3, <1>4, <1>5
<1> QED
  BY <1>6 DEF Superseded

\* A superseded checkpoint has a newer one.
LEMMA SupersededByOne ==
    ASSUME Counting, NEW S, IsFiniteSet(S), NEW k \in Nat \ {0}, NEW m \in Superseded(S, k)
    PROVE  m \in S /\ \E x \in S : x.seq > m.seq
<1> DEFINE newer == {y \in S : y.seq > m.seq}
<1>1. Cardinality(newer) >= k /\ m \in S
  BY DEF Superseded
<1>2. newer # {}
  BY SMT, <1>1 DEF Counting
<1> QED
  BY <1>1, <1>2

-----------------------------------------------------------------------------
(* The invariant                                                           *)

\* Prune selects the oldest checkpoints of its pair.
LEMMA PruneBeginContract ==
    ASSUME Counting, ContractInv, GcInv', NEW s \in Pruner, NEW p \in Pair, NEW k \in RetainCount, PruneBegin(s, p, k)
    PROVE  ContractInv'
<1>1. TypeOK /\ Committed /\ s \in Session /\ s \notin Saver /\ s \notin Reader /\ pc[s] = "idle"
  BY SessionsAssumption DEF ContractInv, GcInv, Session, PruneBegin
<1>2. /\ UNCHANGED <<manifests, junction, counters, nextId, unlinked, claimed, cursor, newManifests,
                     newJunction, snap, out>>
      /\ pc'[s] = "unlink" /\ req'[s].pair = p
      /\ victims'[s] = {m.id : m \in Superseded(Of(manifests, p), k)}
      /\ \A o \in Session \ {s} : pc'[o] = pc[o] /\ req'[o] = req[o] /\ victims'[o] = victims[o]
  BY <1>1, Domains DEF PruneBegin, Goto, db, writes, reads
<1>3. \A o \in Session \ {s} : UNCHANGED OfSession(o)
  BY <1>2 DEF OfSession
<1>4. Saving(s)' /\ Reading(s)'
  BY <1>1, <1>2, OtherKinds
<1>5. unlinked[s] = {} /\ claimed[s] = 0
  BY <1>1 DEF ContractInv, Deleting, Dying, Saving
<1>6. Dying(s)' = {m.id : m \in Superseded(Of(manifests, p), k)}
  BY <1>2, <1>5 DEF Dying
<1>7. /\ \A m \in manifests : /\ m.id \in Nat /\ m.seq \in Nat /\ m.id < nextId
                              /\ m.pair \in Pair /\ m.seq < counters[m.pair]
      /\ counters \in [Pair -> Nat] /\ k \in Nat \ {0}
      /\ Of(manifests, p) \subseteq manifests /\ IsFiniteSet(Of(manifests, p))
  <2>1. \A m \in manifests : m.id \in Nat /\ m.seq \in Nat /\ m.pair \in Pair
    BY <1>1 DEF TypeOK, TablesOK, Manifest
  <2>2. Of(manifests, p) \subseteq manifests
    BY DEF Of
  <2>3. IsFiniteSet(Of(manifests, p))
    BY <1>1, <2>2 DEF Committed, Counting
  <2>4. counters \in [Pair -> Nat] /\ k \in Nat \ {0}
    BY <1>1, ConstantsAssumption DEF TypeOK, TablesOK
  <2> QED
    BY <1>1, <2>1, <2>2, <2>3, <2>4 DEF Committed
<1>8. Superseded(Of(manifests, p), k) \subseteq Of(manifests, p)
  BY DEF Superseded
<1>9. ASSUME NEW m \in manifests, m.id \in Dying(s)'
      PROVE  /\ m.pair = p /\ m.seq + 1 < counters[m.pair]
             /\ \A n \in manifests : n.pair = m.pair /\ n.seq <= m.seq => n.id \in Dying(s)'
  <2>1. m \in Superseded(Of(manifests, p), k) /\ m \in Of(manifests, p)
    <3>1. PICK q \in Superseded(Of(manifests, p), k) : m.id = q.id
      BY SMT, <1>6, <1>9
    <3>2. q \in manifests
      BY <1>7, <1>8
    <3>3. m = q
      BY <1>1, <3>1, <3>2 DEF Committed
    <3> QED
      BY <1>8, <3>3
  <2>2. m.pair = p
    BY <2>1 DEF Of
  <2>3. PICK x \in Of(manifests, p) : x.seq > m.seq
    BY <1>7, <2>1, SupersededByOne
  <2>4. x \in manifests /\ x.pair = p
    BY <2>3 DEF Of
  <2>5. m.seq + 1 < counters[p]
    BY SMT, <1>7, <2>3, <2>4
  <2>6. ASSUME NEW n \in manifests, n.pair = m.pair, n.seq <= m.seq PROVE n.id \in Dying(s)'
    <3>1. n \in Of(manifests, p)
      BY <2>2, <2>6 DEF Of
    <3>2. n \in Superseded(Of(manifests, p), k)
      BY <1>7, <2>1, <2>6, <3>1, OlderSuperseded
    <3> QED
      BY <1>6, <3>2
  <2> QED
    BY <2>2, <2>5, <2>6
<1>10. Deleting(s)'
  <2>1. \A i \in Dying(s)' : i < nextId
    BY <1>6, <1>7, <1>8
  <2>2. DyingOK(s)'
    BY <1>2, <1>9, <2>1 DEF DyingOK
  <2> QED
    BY <1>1, <1>2, <1>5, <2>2 DEF Deleting
<1>11. ASSUME NEW o \in Session \ {s} PROVE Apart(s, o)' /\ Apart(o, s)'
  <2>1. Apart(s, o) /\ Apart(o, s) /\ Saving(o)
    BY <1>1 DEF ContractInv
  <2>2. Dying(o)' = Dying(o)
    BY <1>2 DEF Dying
  <2>3. o \in Saver /\ pc[o] # "idle" => req[o].id \notin Dying(s)'
    BY <1>6, <1>7, <1>8, <2>1 DEF Saving
  <2> QED
    BY <1>1, <1>2, <1>5, <2>1, <2>2, <2>3 DEF Apart
<1> QED
  BY <1>1, <1>2, <1>3, <1>4, <1>10, <1>11, OneSteps

\* What load answers about a manifest whose rows and chunks its snapshot has.
LEMMA LoadAnswers ==
    ASSUME Counting, ContractInv, NEW s \in Reader, LoadChunks(s)
    PROVE  /\ out'[s].status \in {"none", "ok", "not_found"}
           /\ \A x \in out'[s].summaries : x.chunkCount = Len(x.manifest.hash)
<1>1. TypeOK /\ s \in Session /\ pc[s] = "read" /\ Reading(s)
  BY DEF ContractInv, GcInv, Session, LoadChunks
<1>2. CASE snap[s].page = {}
  <2>1. out'[s] = [status |-> "not_found", summaries |-> {}]
    BY <1>1, <1>2, Domains DEF LoadChunks, ReadView
  <2> QED
    BY SMT, <2>1
<1>3. CASE snap[s].page # {}
  <2> DEFINE m == CHOOSE m \in snap[s].page : TRUE
             rows == Positions(snap[s].junction, m.id)
  <2>1. m \in snap[s].page
    BY <1>3
  <2>2. out'[s] = [status |-> LoadStatus(m, rows, snap[s].chunks),
                   summaries |-> {[manifest |-> m, chunkCount |-> Cardinality(rows)]}]
    BY <1>1, <1>3, Domains DEF LoadChunks, ReadView
  <2> HIDE DEF m
  <2>3. m \in Manifest /\ Whole(snap[s].junction, m) /\ \A r \in rows : r.hash \in snap[s].chunks
    BY <1>1, <2>1 DEF Reading, Positions
  <2>4. rows = JunctionRows(m.id, m.hash) /\ m.hash \in Payload
    BY <2>3 DEF Whole, Manifest
  <2> HIDE DEF rows
  <2>5. LoadStatus(m, rows, snap[s].chunks) = "ok"
    BY <2>3, <2>4, WholeLoads
  <2>6. Cardinality(rows) = Len(m.hash)
    BY <2>4 DEF Counting
  <2> QED
    BY SMT, <2>2, <2>5, <2>6
<1> QED
  BY <1>2, <1>3

\* What history counts of the manifests it lists.
LEMMA HistoryAnswers ==
    ASSUME Counting, ContractInv, NEW s \in Reader, HistoryAggregate(s)
    PROVE  /\ out'[s].status \in {"none", "ok", "not_found"}
           /\ \A x \in out'[s].summaries : x.chunkCount = Len(x.manifest.hash)
<1> DEFINE rows(m) == {r \in Positions(snap[s].junction, m.id) : r.hash \in snap[s].chunks}
<1>1. TypeOK /\ s \in Session /\ pc[s] = "read" /\ Reading(s)
  BY DEF ContractInv, GcInv, Session, HistoryAggregate
<1>2. out'[s] = [status |-> "ok",
                 summaries |-> {[manifest |-> m, chunkCount |-> Cardinality(rows(m))] : m \in snap[s].page}]
  BY <1>1, Domains DEF HistoryAggregate, ReadView
<1>3. ASSUME NEW m \in snap[s].page PROVE Cardinality(rows(m)) = Len(m.hash)
  <2>1. m \in Manifest /\ Whole(snap[s].junction, m) /\ \A r \in snap[s].junction : r.hash \in snap[s].chunks
    BY <1>1 DEF Reading
  <2>2. rows(m) = Positions(snap[s].junction, m.id)
    BY <2>1 DEF Positions
  <2>3. rows(m) = JunctionRows(m.id, m.hash) /\ m.hash \in Payload
    BY <2>1, <2>2 DEF Whole, Manifest
  <2> HIDE DEF rows
  <2> QED
    BY <2>3 DEF Counting
<1> HIDE DEF rows
<1>4. ASSUME NEW x \in out'[s].summaries PROVE x.chunkCount = Len(x.manifest.hash)
  <2>1. PICK m \in snap[s].page : x = [manifest |-> m, chunkCount |-> Cardinality(rows(m))]
    BY SMT, <1>2, <1>4
  <2> QED
    BY <1>3, <2>1
<1> QED
  BY SMT, <1>2, <1>4

\* The second statement of a read.
LEMMA ReadStepContract ==
    ASSUME Counting, ContractInv, GcInv', NEW s \in Session, ReadStep(s)
    PROVE  ContractInv'
<1>1. /\ TypeOK /\ pc[s] = "read" /\ s \in Reader /\ s \notin Saver /\ s \notin Pruner
      /\ Saving(s) /\ Deleting(s)
  <2>1. TypeOK /\ pc[s] = "read" /\ Saving(s) /\ Deleting(s)
    BY DEF ContractInv, GcInv, ReadStep, LoadChunks, HistoryAggregate
  <2> QED
    BY <2>1, Kinds, SessionsAssumption
<1>2. /\ UNCHANGED <<manifests, junction, counters, nextId, req, victims, unlinked, claimed, cursor,
                     newManifests, newJunction, snap>>
      /\ pc'[s] = "commit"
      /\ \A o \in Session \ {s} : pc'[o] = pc[o] /\ out'[o] = out[o]
  BY <1>1, Domains DEF ReadStep, LoadChunks, HistoryAggregate, Goto, db, writes
<1>3. \A o \in Session \ {s} : UNCHANGED OfSession(o)
  BY <1>2 DEF OfSession
<1>4. Saving(s)' /\ Deleting(s)'
  BY <1>1, <1>2, OtherKinds
<1>5. claimed'[s] = 0 /\ Dying(s)' = {}
  BY <1>1, <1>2 DEF Saving, Deleting, Dying
<1>6. \A o \in Session \ {s} : Apart(s, o)' /\ Apart(o, s)'
  BY <1>1, <1>3, <1>5, QuietApart
<1>7. Reading(s)'
  <2>1. /\ out'[s].status \in {"none", "ok", "not_found"}
        /\ \A x \in out'[s].summaries : x.chunkCount = Len(x.manifest.hash)
    BY <1>1, LoadAnswers, HistoryAnswers DEF ReadStep
  <2> QED
    BY <1>2, <2>1 DEF Reading
<1> QED
  BY <1>2, <1>3, <1>4, <1>6, <1>7, OneSteps

\* A committed save is a whole manifest with an id and a number of its own.
LEMMA CommitSaveTables ==
    ASSUME Counting, ContractInv, GcInv', NEW s \in Saver, Commit(s), nextId' = nextId
    PROVE  Committed'
<1> DEFINE new == SavedManifest(s)
           rows == JunctionRows(req[s].id, req[s].payload)
<1>1. /\ Committed /\ manifests' = manifests \cup {new} /\ junction' = junction \cup rows
      /\ req[s].id < nextId /\ \A m \in manifests : m.id # req[s].id
      /\ claimed[s] \in Nat
  BY CommittedSave DEF ContractInv
<1>2. /\ new.id = req[s].id /\ new.pair = req[s].pair /\ new.seq = claimed[s]
      /\ new.hash = req[s].payload
  BY DEF SavedManifest
<1>3. \A r \in rows : r.id = req[s].id
  BY SMT DEF JunctionRows
<1>4. Whole(junction', new)
  <2>1. \A r \in junction : r.id # req[s].id
    BY SMT, <1>1 DEF Committed
  <2>2. Positions(junction', req[s].id) = rows
    BY <1>1, <1>3, <2>1 DEF Positions
  <2> QED
    BY <1>2, <2>2 DEF Whole
<1> HIDE DEF new, rows
<1>5. ASSUME NEW m \in manifests PROVE Whole(junction', m)
  <2>1. Positions(junction', m.id) = Positions(junction, m.id)
    BY <1>1, <1>3 DEF Positions
  <2> QED
    BY <1>1, <2>1 DEF Whole, Committed
<1>6. IsFiniteSet(manifests')
  BY <1>1 DEF Committed, Counting
<1>7. ASSUME NEW m \in manifests' PROVE m.id < nextId' /\ m.seq < counters'[m.pair] /\ Whole(junction, m)'
  <2>1. CASE m \in manifests
    <3>1. m.id < nextId /\ m.seq < counters[m.pair] /\ m.pair \in Pair /\ m.seq \in Nat
      BY <1>1, <2>1, CounterMoves DEF Committed, Manifest
    <3>2. m.seq < counters'[m.pair]
      BY SMT, <3>1, CounterMoves
    <3> QED
      BY <1>5, <2>1, <3>1, <3>2 DEF Whole
  <2>2. CASE m = new
    <3>1. m.seq < counters'[m.pair]
      BY SMT, <1>1, <1>2, <2>2, CounterMoves
    <3> QED
      BY <1>1, <1>2, <1>4, <2>2, <3>1 DEF Whole
  <2> QED
    BY <1>1, <2>1, <2>2
<1>8. \A m, n \in manifests' : m.id = n.id => m = n
  BY <1>1, <1>2 DEF Committed
<1>9. \A r \in junction' : \E m \in manifests' : m.id = r.id
  BY <1>1, <1>2, <1>3 DEF Committed
<1>10. ASSUME NEW p \in Pair, counters'[p] # 0
       PROVE  \E m \in manifests' : m.pair = p /\ m.seq + 1 = counters'[p]
  <2>1. CASE p = req[s].pair
    BY SMT, <1>1, <1>2, <2>1, CounterMoves
  <2>2. CASE p # req[s].pair
    BY SMT, <1>1, <1>10, <2>2, CounterMoves DEF Committed
  <2> QED
    BY <2>1, <2>2
<1> QED
  BY <1>6, <1>7, <1>8, <1>9, <1>10 DEF Committed

\* The manifests that are left are whole, and the last one of each pair is among them.
LEMMA CommitPruneTables ==
    ASSUME Counting, ContractInv, NEW s \in Pruner, Commit(s), nextId' = nextId
    PROVE  Committed'
<1>1. /\ Committed /\ counters \in [Pair -> Nat] /\ manifests \in SUBSET Manifest
      /\ manifests' = {m \in manifests : m.id \notin Dying(s)}
      /\ junction' = {r \in junction : r.id \notin Dying(s)} /\ counters' = counters /\ DyingOK(s)
  BY CommittedPrune DEF ContractInv, GcInv, TypeOK, TablesOK
<1>2. IsFiniteSet(manifests')
  <2>1. manifests' \subseteq manifests
    BY <1>1
  <2> QED
    BY <1>1, <2>1 DEF Committed, Counting
<1>3. ASSUME NEW m \in manifests' PROVE Whole(junction', m)
  <2>1. Positions(junction', m.id) = Positions(junction, m.id)
    BY <1>1 DEF Positions
  <2> QED
    BY <1>1, <2>1 DEF Whole, Committed
<1>4. \A m \in manifests' : m.id < nextId' /\ m.seq < counters'[m.pair] /\ Whole(junction, m)'
  BY <1>1, <1>3 DEF Committed, Whole
<1>5. \A m, n \in manifests' : m.id = n.id => m = n
  BY <1>1 DEF Committed
<1>6. \A r \in junction' : \E m \in manifests' : m.id = r.id
  BY <1>1 DEF Committed
<1>7. ASSUME NEW p \in Pair, counters'[p] # 0
      PROVE  \E m \in manifests' : m.pair = p /\ m.seq + 1 = counters'[p]
  <2>1. PICK m \in manifests : m.pair = p /\ m.seq + 1 = counters[p]
    BY <1>1, <1>7 DEF Committed
  <2>2. ~(m.seq + 1 < counters[m.pair])
    BY SMT, <1>1, <2>1
  <2>3. m.id \notin Dying(s)
    BY <1>1, <2>2 DEF DyingOK
  <2> QED
    BY <1>1, <2>1, <2>3
<1> QED
  BY <1>2, <1>4, <1>5, <1>6, <1>7 DEF Committed

\* The end of a transaction, whoever it was.
LEMMA CommitContract ==
    ASSUME Counting, ContractInv, GcInv', NEW s \in Session, Commit(s)
    PROVE  ContractInv'
<1>1. /\ nextId' = nextId /\ \A o \in Session \ {s} : UNCHANGED OfSession(o)
      /\ Saving(s)' /\ Deleting(s)' /\ Reading(s)'
      /\ \A o \in Session \ {s} : Apart(s, o)' /\ Apart(o, s)'
  BY EndedContract DEF Commit
<1>2. ASSUME Committed', \A o \in Session \ {s} : Saving(o)' /\ Deleting(o)' PROVE ContractInv'
  <2>1. \A o \in Session \ {s} : Reading(o)'
    BY <1>1, OthersStay
  <2>2. \A o, q \in Session : o # q => Apart(o, q)'
    BY SMT, <1>1, OthersStay
  <2> QED
    BY <1>1, <1>2, <2>1, <2>2 DEF ContractInv
<1>3. CASE s \in Saver
  BY <1>1, <1>2, <1>3, CommitSaveTables, CommitSaveOthers
<1>4. CASE s \in Pruner
  BY <1>1, <1>2, <1>4, CommitPruneTables, CommitPruneOthers
<1>5. CASE s \in Reader
  BY <1>1, <1>5, CommittedRead, OneSteps
<1> QED
  BY <1>3, <1>4, <1>5 DEF Session

\* An empty store, and nobody at work.
LEMMA InitContract ==
    ASSUME Counting, Init
    PROVE  ContractInv
<1>1. Committed
  <2>1. manifests = {} /\ junction = {} /\ \A p \in Pair : counters[p] = 0
    BY DEF Init
  <2>2. IsFiniteSet(manifests)
    BY <2>1 DEF Counting
  <2> QED
    BY <2>1, <2>2 DEF Committed
<1>2. ASSUME NEW s \in Session
      PROVE  /\ pc[s] = "idle" /\ claimed[s] = 0 /\ cursor[s] = 0 /\ newManifests[s] = {}
             /\ newJunction[s] = {} /\ victims[s] = {} /\ unlinked[s] = {} /\ out[s] = NoOut
  BY DEF Init
<1>3. ASSUME NEW s \in Session PROVE Saving(s) /\ Deleting(s) /\ Reading(s)
  <2>1. Dying(s) = {}
    BY <1>2 DEF Dying
  <2>2. Saving(s)
    BY <1>2 DEF Saving
  <2>3. Deleting(s)
    BY <1>2, <2>1 DEF Deleting, DyingOK
  <2>4. Reading(s)
    BY SMT, <1>2 DEF Reading, NoOut
  <2> QED
    BY <2>2, <2>3, <2>4
<1>4. \A s, o \in Session : s # o => Apart(s, o)
  BY <1>2 DEF Apart
<1> QED
  BY <1>1, <1>3, <1>4, InitGcInv DEF ContractInv

\* Newest returns manifests of the table.
LEMMA PageOfTable == \A S, k : S \subseteq manifests => Newest(S, k) \in SUBSET manifests
  BY DEF Newest

\* Every step keeps the invariant.
LEMMA NextContract ==
    ASSUME Counting, ContractInv, [Next]_vars
    PROVE  ContractInv'
<1>g. GcInv'
  BY NextGcInv DEF ContractInv
<1>1. ASSUME NEW s \in Reader, NEW p \in Pair, NEW q \in 0 .. MaxSaves, LoadManifest(s, p, q)
      PROVE  ContractInv'
  <2>1. {m \in Of(manifests, p) : q = 0 \/ m.seq = q} \subseteq manifests
    BY DEF Of
  <2> QED
    BY <1>g, <1>1, <2>1, PageOfTable, ReadBeginContract DEF LoadManifest
<1>2. ASSUME NEW s \in Reader, NEW p \in Pair, NEW b \in 0 .. MaxSaves, NEW n \in PageLimit,
             HistoryPage(s, p, b, n)
      PROVE  ContractInv'
  <2>1. {m \in Of(manifests, p) : b = 0 \/ m.seq < b} \subseteq manifests
    BY DEF Of
  <2> QED
    BY <1>g, <1>2, <2>1, PageOfTable, ReadBeginContract DEF HistoryPage
<1>3. ASSUME NEW s \in Session, PruneStep(s)
      PROVE  ContractInv'
  BY <1>g, <1>3, PruneStepContract, RollbackContract DEF PruneFault
<1>4. ASSUME NEW s \in Session, Step(s)
      PROVE  ContractInv'
  BY <1>g, <1>3, <1>4, SaveStepContract, ReadStepContract, CommitContract, RollbackContract
     DEF Step, DeadlockAbort
<1>5. ASSUME NEW s \in Session, Fail(s)
      PROVE  ContractInv'
  BY <1>g, <1>5, RollbackContract DEF Fail
<1>6. ASSUME UNCHANGED <<manifests, junction, counters, nextId, pc, req, victims, writes, reads>>
      PROVE  ContractInv'
  <2>1. UNCHANGED <<claimed, cursor, newManifests, newJunction, unlinked, snap, out>>
    BY <1>6 DEF writes, reads
  <2>2. Committed'
    BY <1>6 DEF ContractInv, Committed, Whole
  <2>3. ASSUME NEW s \in Session PROVE Saving(s)' /\ Deleting(s)' /\ Reading(s)'
    <3>1. Saving(s) /\ Deleting(s) /\ Reading(s)
      BY DEF ContractInv
    <3>2. Saving(s)'
      BY <1>6, <2>1, <3>1 DEF Saving, NextSeq
    <3>3. Deleting(s)'
      BY <1>6, <2>1, <3>1 DEF Deleting, DyingOK, Dying
    <3>4. Reading(s)'
      BY <1>6, <2>1, <3>1 DEF Reading, Whole
    <3> QED
      BY <3>2, <3>3, <3>4
  <2>4. \A s, o \in Session : s # o => Apart(s, o)'
    BY <1>6, <2>1 DEF ContractInv, Apart, Dying
  <2> QED
    BY <1>g, <2>2, <2>3, <2>4 DEF ContractInv
<1>7. CASE Tick
  BY <1>6, <1>7 DEF Tick
<1>8. CASE UNCHANGED vars
  BY <1>6, <1>8 DEF vars, db
<1> QED
  BY <1>g, <1>1, <1>2, <1>4, <1>5, <1>7, <1>8, SaveBeginContract, PruneBeginContract DEF Next

-----------------------------------------------------------------------------
(* The contract                                                            *)

\* The log load and history show, and the last number of each pair.
Retained(ms) == [p \in Pair |-> {[seq |-> m.seq, data |-> m.hash] : m \in Of(ms, p)}]
LastSeq(next) == [p \in Pair |-> IF next[p] = 0 THEN 0 ELSE next[p] - 1]

\* Every committed manifest can be loaded.
LEMMA AllLoadable ==
    ASSUME Counting, ContractInv
    PROVE  [p \in Pair |-> {[seq |-> m.seq, data |-> Loadable(m)] : m \in Of(manifests, p)}]
             = Retained(manifests)
<1>1. ASSUME NEW m \in manifests PROVE Loadable(m) = m.hash
  <2>1. m \in Manifest /\ Whole(junction, m) /\ NoDanglingChunk
    BY DEF ContractInv, Committed, GcInv, TypeOK, TablesOK
  <2>2. Positions(junction, m.id) = JunctionRows(m.id, m.hash)
    BY <2>1 DEF Whole
  <2>3. \A r \in JunctionRows(m.id, m.hash) : r.hash \in chunks
    BY <2>1, <2>2 DEF Positions, NoDanglingChunk
  <2>4. LoadStatus(m, JunctionRows(m.id, m.hash), chunks) = "ok"
    BY <2>1, <2>3, WholeLoads
  <2> QED
    BY <2>2, <2>4 DEF Loadable
<1>2. ASSUME NEW p \in Pair
      PROVE  {[seq |-> m.seq, data |-> Loadable(m)] : m \in Of(manifests, p)}
               = {[seq |-> m.seq, data |-> m.hash] : m \in Of(manifests, p)}
  BY <1>1 DEF Of
<1> QED
  BY <1>2 DEF Retained

\* The commit of a save appends to the log of its pair.
LEMMA SaveAppends ==
    ASSUME ContractInv, NEW s \in Saver, Commit(s), NEW p, p = req[s].pair
    PROVE  /\ p \in Pair /\ req[s].payload \in Payload
           /\ LastSeq(counters)[p] + 1 = claimed[s]
           /\ LastSeq(counters') = [LastSeq(counters) EXCEPT ![p] = @ + 1]
           /\ Retained(manifests') = [Retained(manifests) EXCEPT ![p] =
                  @ \cup {[seq |-> claimed[s], data |-> req[s].payload]}]
           /\ watermarks' = IF cursor[s] # 0 THEN [watermarks EXCEPT ![p] = claimed[s]] ELSE watermarks
<1>1. /\ p \in Pair /\ req[s].payload \in Payload /\ claimed[s] \in Nat \ {0} /\ claimed[s] = NextSeq(p)
      /\ manifests' = manifests \cup {SavedManifest(s)} /\ counters \in [Pair -> Nat]
      /\ counters' = [counters EXCEPT ![p] = claimed[s] + 1] /\ cursor[s] \in {0, claimed[s]}
  BY CommittedSave, CounterMoves DEF SaveReq
<1>2. claimed[s] = IF counters[p] = 0 THEN 1 ELSE counters[p]
  BY <1>1 DEF NextSeq
<1>3. LastSeq(counters)[p] + 1 = claimed[s]
  BY SMT, <1>1, <1>2 DEF LastSeq
<1>4. LastSeq(counters') = [LastSeq(counters) EXCEPT ![p] = @ + 1]
  <2>1. counters'[p] = claimed[s] + 1 /\ \A q \in Pair : q # p => counters'[q] = counters[q]
    BY <1>1
  <2>2. LastSeq(counters')[p] = LastSeq(counters)[p] + 1
    BY SMT, <1>1, <1>3, <2>1 DEF LastSeq
  <2>3. \A q \in Pair : q # p => LastSeq(counters')[q] = LastSeq(counters)[q]
    BY <2>1 DEF LastSeq
  <2>4. DOMAIN LastSeq(counters) = Pair /\ LastSeq(counters') = [q \in Pair |-> LastSeq(counters')[q]]
    BY DEF LastSeq
  <2> QED
    BY <1>1, <2>2, <2>3, <2>4
<1>5. Retained(manifests') = [Retained(manifests) EXCEPT ![p] =
          @ \cup {[seq |-> claimed[s], data |-> req[s].payload]}]
  <2>1. /\ SavedManifest(s).pair = p /\ SavedManifest(s).seq = claimed[s]
        /\ SavedManifest(s).hash = req[s].payload
    BY DEF SavedManifest
  <2>2. /\ Of(manifests', p) = Of(manifests, p) \cup {SavedManifest(s)}
        /\ \A q \in Pair : q # p => Of(manifests', q) = Of(manifests, q)
    BY <1>1, <2>1 DEF Of
  <2>3. \A q \in Pair : q # p => Retained(manifests')[q] = Retained(manifests)[q]
    BY <2>2 DEF Retained
  <2>4. Retained(manifests')[p]
          = Retained(manifests)[p] \cup {[seq |-> claimed[s], data |-> req[s].payload]}
    BY <1>1, <2>1, <2>2 DEF Retained
  <2>5. /\ DOMAIN Retained(manifests) = Pair
        /\ Retained(manifests') = [q \in Pair |-> Retained(manifests')[q]]
    BY DEF Retained
  <2> QED
    BY <1>1, <2>3, <2>4, <2>5
<1>6. watermarks' = IF cursor[s] # 0 THEN [watermarks EXCEPT ![p] = claimed[s]] ELSE watermarks
  BY <1>1 DEF Commit
<1> QED
  BY <1>1, <1>3, <1>4, <1>5, <1>6

\* The commit of a prune that deleted something cuts the log of its pair below
\* the oldest checkpoint left.
LEMMA PruneCuts ==
    ASSUME Counting, ContractInv, NEW s \in Pruner, Commit(s), manifests' # manifests
    PROVE  \E p \in Pair : \E c \in Retained(manifests)[p] :
               Retained(manifests') = [Retained(manifests) EXCEPT ![p] = {x \in @ : x.seq >= c.seq}]
<1>1. /\ manifests' = {m \in manifests : m.id \notin Dying(s)} /\ DyingOK(s) /\ Committed
      /\ \A m \in manifests : m.seq \in Nat /\ m.pair \in Pair
      /\ counters \in [Pair -> Nat]
  BY CommittedPrune DEF ContractInv, GcInv, TypeOK, TablesOK, Manifest
<1>2. PICK d \in manifests : d.id \in Dying(s)
  BY <1>1
<1> DEFINE p == req[s].pair
           left == {m.seq : m \in Of(manifests', p)}
<1>3. /\ p \in Pair /\ d.pair = p /\ d.seq + 1 < counters[p]
      /\ \A m \in manifests : m.id \in Dying(s) => m.pair = p
  BY <1>1, <1>2 DEF DyingOK
<1>4. left \in SUBSET Nat
  BY <1>1 DEF Of
<1>5. left # {}
  <2>1. counters[p] # 0
    BY SMT, <1>1, <1>2, <1>3
  <2>2. PICK t \in manifests : t.pair = p /\ t.seq + 1 = counters[p]
    BY <1>1, <1>3, <2>1 DEF Committed
  <2>3. ~(t.seq + 1 < counters[t.pair])
    BY SMT, <1>1, <1>3, <2>2
  <2>4. t \in Of(manifests', p)
    BY <1>1, <2>2, <2>3 DEF DyingOK, Of
  <2> QED
    BY <2>4
<1>6. PICK low \in left : \A n \in left : low <= n
  BY <1>4, <1>5 DEF Counting
<1>7. PICK c \in Of(manifests', p) : c.seq = low
  BY <1>6
<1>8. c \in manifests /\ c.id \notin Dying(s) /\ c.pair = p /\ c \in Of(manifests, p) /\ c.seq \in Nat
  BY <1>1, <1>7 DEF Of
<1>9. ASSUME NEW m \in Of(manifests, p) PROVE m \in Of(manifests', p) <=> m.seq >= c.seq
  <2>1. m \in manifests /\ m.pair = p /\ m.seq \in Nat
    BY <1>1 DEF Of
  <2>2. m \in Of(manifests', p) => m.seq >= c.seq
    <3>1. m \in Of(manifests', p) => c.seq <= m.seq
      BY <1>6, <1>7
    <3> QED
      BY SMT, <1>8, <2>1, <3>1
  <2>3. m.seq >= c.seq => c.seq <= m.seq
    BY SMT, <1>8, <2>1
  <2>4. m.id \in Dying(s) => ~(c.seq <= m.seq)
    BY <1>1, <1>8, <2>1 DEF DyingOK
  <2>5. m.id \notin Dying(s) => m \in Of(manifests', p)
    BY <1>1, <2>1 DEF Of
  <2> QED
    BY <2>2, <2>3, <2>4, <2>5
<1>10. Of(manifests', p) \subseteq Of(manifests, p)
       /\ \A q \in Pair : q # p => Of(manifests', q) = Of(manifests, q)
  BY <1>1, <1>3 DEF Of
<1> DEFINE e == [seq |-> c.seq, data |-> c.hash]
<1>11. e \in Retained(manifests)[p]
  BY <1>3, <1>8 DEF Retained
<1>12. Retained(manifests')[p] = {x \in Retained(manifests)[p] : x.seq >= e.seq}
  <2>1. e.seq = c.seq
    OBVIOUS
  <2>2. /\ Retained(manifests')[p] = {[seq |-> m.seq, data |-> m.hash] : m \in Of(manifests', p)}
        /\ Retained(manifests)[p] = {[seq |-> m.seq, data |-> m.hash] : m \in Of(manifests, p)}
    BY <1>3 DEF Retained
  <2>3. ASSUME NEW x \in Retained(manifests')[p] PROVE x \in Retained(manifests)[p] /\ x.seq >= c.seq
    <3>1. PICK m \in Of(manifests', p) : x = [seq |-> m.seq, data |-> m.hash]
      BY <2>2
    <3>2. m \in Of(manifests, p) /\ x.seq = m.seq
      BY <1>10, <3>1
    <3> QED
      BY <1>9, <2>2, <3>1, <3>2
  <2>4. ASSUME NEW x \in Retained(manifests)[p], x.seq >= c.seq PROVE x \in Retained(manifests')[p]
    <3>1. PICK m \in Of(manifests, p) : x = [seq |-> m.seq, data |-> m.hash]
      BY <2>2
    <3>2. x.seq = m.seq
      BY <3>1
    <3> QED
      BY <1>9, <2>2, <2>4, <3>1, <3>2
  <2> HIDE DEF e
  <2> QED
    BY <2>1, <2>3, <2>4
<1>13. \A q \in Pair : q # p => Retained(manifests')[q] = Retained(manifests)[q]
  BY <1>10 DEF Retained
<1>14. /\ DOMAIN Retained(manifests) = Pair
       /\ Retained(manifests') = [q \in Pair |-> Retained(manifests')[q]]
  BY DEF Retained
<1> HIDE DEF p, e
<1>15. Retained(manifests') = [Retained(manifests) EXCEPT ![p] = {x \in @ : x.seq >= e.seq}]
  BY <1>3, <1>12, <1>13, <1>14
<1> QED
  BY <1>3, <1>11, <1>15

-----------------------------------------------------------------------------
(* The theorems about the contract *)

INSTANCE FiniteSetTheorems
INSTANCE WellFoundedInduction
INSTANCE NaturalsInduction

\* A set of natural numbers has a smallest element.
LEMMA Smallest ==
    ASSUME NEW S \in SUBSET Nat, S # {}
    PROVE  \E m \in S : \A n \in S : m <= n
<1>1. IsWellFoundedOn(OpToRel(<, Nat), Nat)
  BY NatLessThanWellFounded
<1>2. PICK m \in S : \A n \in S : ~(<<n, m>> \in OpToRel(<, Nat))
  BY <1>1, WFMin
<1>3. \A n \in S : ~(n < m)
  BY <1>2 DEF OpToRel
<1> QED
  BY SMT, <1>3

\* A manifest of n chunks has n junction rows.
LEMMA CountRows ==
    ASSUME NEW id, NEW d \in Payload
    PROVE  Cardinality(JunctionRows(id, d)) = Len(d)
<1> DEFINE f == [i \in 1..Len(d) |-> [id |-> id, pos |-> i, hash |-> d[i]]]
<1>1. Len(d) \in Nat /\ DOMAIN d = 1..Len(d)
  BY SMT, ConstantsAssumption
<1>2. f \in [1..Len(d) -> JunctionRows(id, d)]
  BY <1>1 DEF JunctionRows
<1>3. \A i, j \in 1..Len(d) : f[i] = f[j] => i = j
  <2>1. \A i \in 1..Len(d) : f[i].pos = i
    OBVIOUS
  <2> QED
    BY <2>1
<1>4. \A r \in JunctionRows(id, d) : \E i \in 1..Len(d) : f[i] = r
  BY <1>1 DEF JunctionRows
<1>5. f \in Bijection(1..Len(d), JunctionRows(id, d))
  BY <1>2, <1>3, <1>4 DEF Bijection, Injection, Surjection, IsInjective
<1>6. ExistsBijection(1..Len(d), JunctionRows(id, d))
  BY <1>5 DEF ExistsBijection
<1> QED
  BY <1>1, <1>6, FS_CountingElements

\* What the contract needs of finite sets and of numbers.
LEMMA CountingHolds == Counting
<1>1. \A S : \A T \in SUBSET S : IsFiniteSet(S) => /\ IsFiniteSet(T)
                                                /\ Cardinality(T) <= Cardinality(S)
  BY FS_Subset
<1>2. IsFiniteSet({}) /\ Cardinality({}) = 0
  BY FS_EmptySet
<1>3. \A S, x : IsFiniteSet(S) => IsFiniteSet(S \cup {x})
  BY FS_AddElement
<1>4. \A S : IsFiniteSet(S) => Cardinality(S) \in Nat
  BY FS_CardinalityType
<1> QED
  BY <1>1, <1>2, <1>3, <1>4, Smallest, CountRows DEF Counting

\* The invariant behind the contract.
LEMMA ContractInvariant ==
    /\ Init => ContractInv
    /\ ContractInv /\ [Next]_vars => ContractInv'
BY CountingHolds, InitContract, NextContract

(***************************************************************************)
(* A read that races saves and prunes, however many, answers what one      *)
(* instant held: load never finds a manifest corrupt or a chunk missing,   *)
(* and history counts every chunk of the manifests it lists.               *)
(***************************************************************************)
THEOREM ReadsAreOfOneInstant == Spec => []ReadsNotTorn
<1>1. ContractInv => ReadsNotTorn
  BY DEF ContractInv, Reading, ReadsNotTorn, Session
<1> QED
  BY ContractInvariant, <1>1, PTL DEF Spec

(***************************************************************************)
(* Seen through load, the store with its chunk pool, its counters, its     *)
(* races and its failures is the log per pair of CheckpointContract: the   *)
(* commit of a save appends its data whole under the next number, with the *)
(* cursor or not at all, the commit of a prune cuts the log below a        *)
(* checkpoint that stays, and no other step shows.                         *)
(***************************************************************************)
THEOREM StoreKeepsItsContract == Spec => ImplementsContract
<1> DEFINE retained == [p \in Pair |-> {[seq |-> m.seq, data |-> Loadable(m)] : m \in Of(manifests, p)}]
           lastSeq == [p \in Pair |-> IF counters[p] = 0 THEN 0 ELSE counters[p] - 1]
<1>1. ContractInv => retained = Retained(manifests)
  BY CountingHolds, AllLoadable
<1>2. (ContractInv => retained = Retained(manifests))'
  <2> HIDE DEF retained
  <2> QED
    BY <1>1, PTL
<1>3. lastSeq = LastSeq(counters) /\ lastSeq' = LastSeq(counters')
  BY DEF LastSeq
<1>4. Init => Contract!Init
  <2> SUFFICES ASSUME Init PROVE Contract!Init
    OBVIOUS
  <2>1. retained = [p \in Pair |-> {}]
    BY DEF Init, Of
  <2>2. lastSeq = [p \in Pair |-> 0] /\ watermarks = [p \in Pair |-> 0]
    BY DEF Init
  <2> QED
    BY <2>1, <2>2 DEF Contract!Init
<1> HIDE DEF retained, lastSeq
<1>5. ContractInv /\ ContractInv' /\ [Next]_vars => [Contract!Next]_<<retained, lastSeq, watermarks>>
  <2> SUFFICES ASSUME ContractInv, ContractInv', [Next]_vars
               PROVE  [Contract!Next]_<<retained, lastSeq, watermarks>>
    OBVIOUS
  <2>1. retained = Retained(manifests) /\ retained' = Retained(manifests')
    BY <1>1, <1>2 DEF Retained, Of
  <2>2. CASE UNCHANGED <<manifests, counters, watermarks>>
    BY <1>3, <2>1, <2>2
  <2>3. ASSUME NEW s \in Saver, Commit(s) PROVE Contract!Next
    <3> DEFINE p == req[s].pair
               d == req[s].payload
    <3>1. /\ p \in Pair /\ d \in Payload /\ lastSeq[p] + 1 = claimed[s]
          /\ lastSeq' = [lastSeq EXCEPT ![p] = @ + 1]
          /\ retained' = [retained EXCEPT ![p] = @ \cup {[seq |-> claimed[s], data |-> d]}]
          /\ watermarks' = IF cursor[s] # 0 THEN [watermarks EXCEPT ![p] = claimed[s]] ELSE watermarks
      BY <1>3, <2>1, <2>3, SaveAppends
    <3> HIDE DEF p, d
    <3>2. /\ retained' = [retained EXCEPT ![p] = @ \cup {[seq |-> lastSeq[p] + 1, data |-> d]}]
          /\ watermarks' = IF cursor[s] # 0 THEN [watermarks EXCEPT ![p] = lastSeq[p] + 1] ELSE watermarks
      BY <3>1
    <3>3. CASE cursor[s] # 0
      <4>1. Contract!Save(p, d, TRUE)
        BY <3>1, <3>2, <3>3 DEF Contract!Save, retained, lastSeq
      <4> QED
        BY <3>1, <4>1 DEF Contract!Next
    <3>4. CASE cursor[s] = 0
      <4>1. Contract!Save(p, d, FALSE)
        BY <3>1, <3>2, <3>4 DEF Contract!Save, retained, lastSeq
      <4> QED
        BY <3>1, <4>1 DEF Contract!Next
    <3> QED
      BY <3>3, <3>4
  <2>4. ASSUME NEW s \in Pruner, Commit(s), manifests' # manifests PROVE Contract!Next
    <3>1. PICK p \in Pair : \E c \in retained[p] :
              retained' = [retained EXCEPT ![p] = {x \in @ : x.seq >= c.seq}]
      BY <2>1, <2>4, CountingHolds, PruneCuts
    <3>2. UNCHANGED <<lastSeq, watermarks>>
      BY <1>3, <2>4, CommittedPrune
    <3>3. Contract!Prune(p)
      BY <3>1, <3>2 DEF Contract!Prune, retained, lastSeq
    <3> QED
      BY <3>3 DEF Contract!Next
  <2>5. ASSUME NEW s \in Session, Commit(s) PROVE [Contract!Next]_<<retained, lastSeq, watermarks>>
    <3>1. CASE s \in Saver
      BY <2>3, <2>5, <3>1
    <3>2. CASE s \in Pruner /\ manifests' # manifests
      BY <2>4, <2>5, <3>2
    <3>3. CASE s \in Pruner /\ manifests' = manifests
      BY <2>2, <2>5, <3>3, CommittedPrune
    <3>4. CASE s \in Reader
      BY <2>2, <2>5, <3>4, CommittedRead
    <3> QED
      BY <3>1, <3>2, <3>3, <3>4 DEF Session
  <2>6. UNCHANGED <<manifests, counters, watermarks>> \/ \E s \in Session : Commit(s)
    <3>1. ASSUME NEW s \in Session, Step(s) PROVE UNCHANGED db \/ Commit(s)
      BY <3>1 DEF Step, SaveStep, UpsertChunk, UpsertDone, ClaimSeq, TakeSeq, InsertManifest,
                  AdvanceCursor, PruneStep, PruneManifests, PruneScan, ReclaimChunk, ReclaimDone,
                  FkCheck, PruneFault, ReadStep, LoadChunks, HistoryAggregate, DeadlockAbort, Rollback
    <3>2. CASE Next
      BY <3>1, <3>2 DEF Next, SaveBegin, PruneBegin, LoadManifest, HistoryPage, ReadBegin, Fail, Rollback,
                        Tick, db
    <3>3. CASE UNCHANGED vars
      BY <3>3 DEF vars, db
    <3> QED
      BY <3>2, <3>3
  <2> QED
    BY <2>2, <2>5, <2>6
<1> QED
  BY <1>4, <1>5, ContractInvariant, PTL
  DEF Spec, ImplementsContract, Contract!Spec, Contract!vars, retained, lastSeq
=============================================================================
