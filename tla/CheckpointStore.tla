-------------------------- MODULE CheckpointStore --------------------------
(***************************************************************************)
(* PgCheckpointStore (src/postgres/checkpoint-store.ts) and saveAndAdvance *)
(* (src/postgres/save-and-advance.ts) at the grain of SQL statements.      *)
(*                                                                         *)
(* A session runs one transaction at a time on a connection of its own.    *)
(* What it writes is private until Commit, vanishes at Rollback, and is    *)
(* locked in between.  The statements of save and prune read the rows      *)
(* committed when the statement starts and re-check a row they had to wait *)
(* for (READ COMMITTED); load and history read the snapshot of their first *)
(* statement (REPEATABLE READ).                                            *)
(*                                                                         *)
(* A content hash stands for its chunk and the sequence of chunk hashes    *)
(* for the manifest hash: SHA-256 is taken to be injective.                *)
(*                                                                         *)
(* created_at is kept as an age, which Tick increases for committed rows   *)
(* and running transactions alike.  now() is the start of the transaction, *)
(* so a row written by a transaction of age a commits with age a.          *)
(***************************************************************************)
EXTENDS Naturals, Sequences, FiniteSets

CONSTANTS
    Pair,         \* (walletId, networkId) pairs
    Chunk,        \* content hashes
    Payload,      \* the data a save may be given, as sequences of chunk hashes
    Advance,      \* whether saves run under saveAndAdvance: a set of Booleans
    Saver, Pruner, Reader,    \* sessions, by the operations they issue
    RetainCount,  \* the retainCount arguments prune is given
    PageLimit,    \* the limit arguments history is given
    Grace,        \* prune's grace window, in ticks
    MaxTxAge,     \* bound: no transaction stays open for more ticks
    MaxSaves,     \* bound: saves ever begun
    MaxFails      \* bound: transactions lost to crashes, timeouts and aborts

ASSUME ConstantsAssumption ==
    /\ Payload \subseteq Seq(Chunk)
    /\ Advance \subseteq BOOLEAN
    /\ RetainCount \subseteq Nat \ {0}
    /\ PageLimit \subseteq Nat \ {0}
    /\ Grace \in Nat /\ MaxTxAge \in Nat
    /\ MaxSaves \in Nat /\ MaxFails \in Nat

ASSUME SessionsAssumption ==
    /\ Saver \cap Pruner = {} /\ Saver \cap Reader = {} /\ Pruner \cap Reader = {}

VARIABLES
    \* committed rows
    chunks,       \* ckpt_chunks: the hashes present
    chunkAge,     \* ckpt_chunks.created_at, 0 for absent rows
    manifests,    \* ckpt_manifests
    junction,     \* ckpt_manifest_chunks
    counters,     \* ckpt_sequence_counters.next_seq, 0 for no row
    watermarks,   \* the sequence the pair's sync cursor was co-committed with
    nextId,       \* the next manifest id; one is reserved for each save begun
    \* transactions
    pc, age, req,
    todo,         \* chunk rows the current statement has yet to visit
    upserted,     \* chunk rows inserted or refreshed
    reclaimed,    \* chunk rows deleted
    newManifests, newJunction,
    victims,      \* manifest rows the running DELETE selected
    unlinked,     \* manifest rows deleted, their junction rows with them
    claimed,      \* sequence number taken, 0 for none
    cursor,       \* cursor value written, 0 for none
    snap, out,    \* a reader's snapshot, and what it returned
    fails,
    late          \* ghost: savers that had a transaction outlive the grace window

db == <<chunks, chunkAge, manifests, junction, counters, watermarks>>
writes == <<upserted, reclaimed, newManifests, newJunction, unlinked,
            claimed, cursor>>
reads == <<snap, out>>
vars == <<db, nextId, pc, age, req, todo, victims, writes, reads, fails, late>>

Session == Saver \cup Pruner \cup Reader

\* A row older than this is past the grace window of every transaction.
MaxAge == Grace + MaxTxAge + 1

Manifest == [id : Nat, pair : Pair, seq : Nat, hash : Payload]
JunctionRow == [id : Nat, pos : Nat, hash : Chunk]

SaveReq ==
    [op : {"save"}, id : Nat, pair : Pair, payload : Payload, advance : BOOLEAN]
PruneReq == [op : {"prune"}, pair : Pair, retain : RetainCount]
LoadReq == [op : {"load"}, pair : Pair, seq : Nat]   \* seq = 0: the newest
HistoryReq ==                                        \* before = 0: no cursor
    [op : {"history"}, pair : Pair, before : Nat, limit : PageLimit]
NoReq == [op |-> "none"]

NoSnap == [page |-> {}, junction |-> {}, chunks |-> {}]
NoOut == [status |-> "none", summaries |-> {}]

-----------------------------------------------------------------------------
(* Queries                                                                 *)

Of(ms, p) == {m \in ms : m.pair = p}

\* seq < (SELECT seq ... ORDER BY seq DESC OFFSET k - 1 LIMIT 1)
Superseded(ms, k) == {m \in ms : Cardinality({n \in ms : n.seq > m.seq}) >= k}

\* ORDER BY seq DESC LIMIT k
Newest(ms, k) == ms \ Superseded(ms, k)

Positions(j, id) == {r \in j : r.id = id}

JunctionRows(id, payload) ==
    {[id |-> id, pos |-> i, hash |-> payload[i]] : i \in DOMAIN payload}

\* created_at < now() - interval '15 minutes'
PastGrace(s, h) == chunkAge[h] > Grace + age[s]

\* A junction row s can see names h: it is committed and s did not delete it.
Referenced(s, h) == \E r \in junction : r.hash = h /\ r.id \notin unlinked[s]

\* Mutant: ON CONFLICT DO NOTHING.
RefreshedAgeDoNothing(s, h) == IF h \in chunks THEN chunkAge[h] ELSE age[s]

\* What the chunk upsert leaves in created_at: now(), also for a row it finds.
RefreshedAge(s, h) == age[s]

\* Mutant: READ COMMITTED.
ReadViewOfStatement(s) ==
    [page |-> snap[s].page, junction |-> junction, chunks |-> chunks]

\* What the second statement of a read sees: REPEATABLE READ, the snapshot.
ReadView(s) == snap[s]

-----------------------------------------------------------------------------
(* Row locks: a transaction holds the rows it wrote until it ends.         *)

ChunkHeld(o, h) == h \in upserted[o] \/ h \in reclaimed[o]
CounterHeld(o, p) == claimed[o] # 0 /\ req[o].pair = p

\* The save's next row: VALUES lists the payload's chunks by first occurrence.
FirstAt(payload, h) ==
    CHOOSE i \in DOMAIN payload :
        payload[i] = h /\ \A j \in DOMAIN payload : payload[j] = h => i <= j
NextUpsert(s, h) ==
    /\ h \in todo[s]
    /\ \A g \in todo[s] : FirstAt(req[s].payload, h) <= FirstAt(req[s].payload, g)

\* s waits for a row that o holds.
WaitsFor(s, o) ==
    /\ s # o
    /\ \/ pc[s] = "upsert" /\ \E h \in todo[s] : NextUpsert(s, h) /\ ChunkHeld(o, h)
       \/ pc[s] = "claim" /\ CounterHeld(o, req[s].pair)
       \/ pc[s] = "unlink" /\ victims[s] \cap unlinked[o] # {}
       \/ pc[s] = "reclaim" /\ \E h \in todo[s] : ChunkHeld(o, h)
       \/ /\ pc[s] = "fkcheck"
          /\ \E r \in junction : r.hash \in reclaimed[s] /\ r.id \in unlinked[o]

\* s waits for itself through a chain of others, the set D.
Deadlocked(s) ==
    \E D \in SUBSET Session :
        /\ s \in D
        /\ \A d \in D : \E o \in D : WaitsFor(d, o)

-----------------------------------------------------------------------------
Init ==
    /\ chunks = {} /\ chunkAge = [h \in Chunk |-> 0]
    /\ manifests = {} /\ junction = {}
    /\ counters = [p \in Pair |-> 0] /\ watermarks = [p \in Pair |-> 0]
    /\ nextId = 1
    /\ pc = [s \in Session |-> "idle"]
    /\ age = [s \in Session |-> 0]
    /\ req = [s \in Session |-> NoReq]
    /\ todo = [s \in Session |-> {}]
    /\ upserted = [s \in Session |-> {}]
    /\ reclaimed = [s \in Session |-> {}]
    /\ newManifests = [s \in Session |-> {}]
    /\ newJunction = [s \in Session |-> {}]
    /\ victims = [s \in Session |-> {}]
    /\ unlinked = [s \in Session |-> {}]
    /\ claimed = [s \in Session |-> 0]
    /\ cursor = [s \in Session |-> 0]
    /\ snap = [s \in Session |-> NoSnap]
    /\ out = [s \in Session |-> NoOut]
    /\ fails = 0 /\ late = {}

Goto(s, l) == pc' = [pc EXCEPT ![s] = l]

\* Ending a transaction, either way, leaves its session as Init has it.
EndTransaction(s) ==
    /\ Goto(s, "idle")
    /\ age' = [age EXCEPT ![s] = 0]
    /\ req' = [req EXCEPT ![s] = NoReq]
    /\ upserted' = [upserted EXCEPT ![s] = {}]
    /\ reclaimed' = [reclaimed EXCEPT ![s] = {}]
    /\ newManifests' = [newManifests EXCEPT ![s] = {}]
    /\ newJunction' = [newJunction EXCEPT ![s] = {}]
    /\ victims' = [victims EXCEPT ![s] = {}]
    /\ unlinked' = [unlinked EXCEPT ![s] = {}]
    /\ claimed' = [claimed EXCEPT ![s] = 0]
    /\ cursor' = [cursor EXCEPT ![s] = 0]
    /\ snap' = [snap EXCEPT ![s] = NoSnap]
    /\ out' = [out EXCEPT ![s] = NoOut]
    /\ UNCHANGED nextId

-----------------------------------------------------------------------------
(* save, alone or under saveAndAdvance (advance = TRUE)                    *)

SaveBegin(s, p, d, advance) ==
    /\ pc[s] = "idle"
    /\ nextId <= MaxSaves
    /\ nextId' = nextId + 1
    /\ req' = [req EXCEPT ![s] = [op |-> "save", id |-> nextId, pair |-> p,
                                  payload |-> d, advance |-> advance]]
    /\ todo' = [todo EXCEPT ![s] = {d[i] : i \in DOMAIN d}]
    /\ Goto(s, "upsert")
    /\ UNCHANGED <<db, age, victims, writes, reads, fails, late>>

\* INSERT INTO ckpt_chunks ... ON CONFLICT (hash) DO UPDATE, one row of it.
UpsertChunk(s, h) ==
    /\ pc[s] = "upsert"
    /\ NextUpsert(s, h)
    /\ ~ \E o \in Session \ {s} : ChunkHeld(o, h)
    /\ upserted' = [upserted EXCEPT ![s] = @ \cup {h}]
    /\ todo' = [todo EXCEPT ![s] = @ \ {h}]
    /\ UNCHANGED <<db, nextId, pc, age, req, victims, reclaimed, newManifests,
                   newJunction, unlinked, claimed, cursor, reads, fails, late>>

UpsertDone(s) ==
    /\ pc[s] = "upsert"
    /\ todo[s] = {}
    /\ Goto(s, "claim")
    /\ UNCHANGED <<db, nextId, age, req, todo, victims, writes, reads, fails, late>>

TakeSeq(s) ==
    /\ LET n == counters[req[s].pair]
       IN  claimed' = [claimed EXCEPT ![s] = IF n = 0 THEN 1 ELSE n]
    /\ Goto(s, "insert")
    /\ UNCHANGED <<db, nextId, age, req, todo, victims, upserted, reclaimed,
                   newManifests, newJunction, unlinked, cursor, reads, fails, late>>

\* Mutant: next_seq is read without taking the row's lock.
ClaimSeqUnlocked(s) == pc[s] = "claim" /\ TakeSeq(s)

\* INSERT INTO ckpt_sequence_counters ... ON CONFLICT DO UPDATE RETURNING
\* next_seq - 1; the first claim inserts the row and gets 1.
ClaimSeq(s) ==
    /\ pc[s] = "claim"
    /\ ~ \E o \in Session \ {s} : CounterHeld(o, req[s].pair)
    /\ TakeSeq(s)

\* The manifest row and its junction rows; both inserts are of fresh keys.
InsertManifest(s) ==
    /\ pc[s] = "insert"
    /\ newManifests' = [newManifests EXCEPT ![s] =
           {[id |-> req[s].id, pair |-> req[s].pair, seq |-> claimed[s],
             hash |-> req[s].payload]}]
    /\ newJunction' = [newJunction EXCEPT ![s] =
           JunctionRows(req[s].id, req[s].payload)]
    /\ Goto(s, IF req[s].advance THEN "advance" ELSE "commit")
    /\ UNCHANGED <<db, nextId, age, req, todo, victims, upserted, reclaimed,
                   unlinked, claimed, cursor, reads, fails, late>>

\* watermarks.set on the same transaction.
AdvanceCursor(s) ==
    /\ pc[s] = "advance"
    /\ cursor' = [cursor EXCEPT ![s] = claimed[s]]
    /\ Goto(s, "commit")
    /\ UNCHANGED <<db, nextId, age, req, todo, victims, upserted, reclaimed,
                   newManifests, newJunction, unlinked, claimed, reads, fails, late>>

-----------------------------------------------------------------------------
(* prune                                                                   *)

\* BEGIN, and the snapshot of DELETE FROM ckpt_manifests.
PruneBegin(s, p, k) ==
    /\ pc[s] = "idle"
    /\ req' = [req EXCEPT ![s] = [op |-> "prune", pair |-> p, retain |-> k]]
    /\ victims' = [victims EXCEPT ![s] =
           {m.id : m \in Superseded(Of(manifests, p), k)}]
    /\ Goto(s, "unlink")
    /\ UNCHANGED <<db, nextId, age, todo, writes, reads, fails, late>>

\* The rows another prune deleted meanwhile are skipped; the rest go, and
\* their junction rows by ON DELETE CASCADE.
PruneManifests(s) ==
    /\ pc[s] = "unlink"
    /\ \A o \in Session \ {s} : victims[s] \cap unlinked[o] = {}
    /\ unlinked' = [unlinked EXCEPT ![s] =
           {m.id : m \in {n \in manifests : n.id \in victims[s]}}]
    /\ victims' = [victims EXCEPT ![s] = {}]
    /\ Goto(s, "scan")
    /\ UNCHANGED <<db, nextId, age, req, todo, upserted, reclaimed,
                   newManifests, newJunction, claimed, cursor, reads, fails, late>>

\* Mutant: only the chunks of the manifests just deleted are considered.
PruneScanOwnVictims(s) ==
    /\ pc[s] = "scan"
    /\ todo' = [todo EXCEPT ![s] =
           {h \in chunks :
               /\ PastGrace(s, h) /\ ~ Referenced(s, h)
               /\ \E r \in junction : r.hash = h /\ r.id \in unlinked[s]}]
    /\ Goto(s, "reclaim")
    /\ UNCHANGED <<db, nextId, age, req, victims, writes, reads, fails, late>>

\* The snapshot of DELETE FROM ckpt_chunks.
PruneScan(s) ==
    /\ pc[s] = "scan"
    /\ todo' = [todo EXCEPT ![s] =
           {h \in chunks : PastGrace(s, h) /\ ~ Referenced(s, h)}]
    /\ Goto(s, "reclaim")
    /\ UNCHANGED <<db, nextId, age, req, victims, writes, reads, fails, late>>

\* One row of it, in whatever order the scan finds them.  created_at is
\* re-checked on the row as it now is; NOT EXISTS keeps the snapshot's answer.
ReclaimChunk(s, h) ==
    /\ pc[s] = "reclaim"
    /\ h \in todo[s]
    /\ ~ \E o \in Session \ {s} : ChunkHeld(o, h)
    /\ todo' = [todo EXCEPT ![s] = @ \ {h}]
    /\ reclaimed' = [reclaimed EXCEPT ![s] =
           IF PastGrace(s, h) THEN @ \cup {h} ELSE @]
    /\ UNCHANGED <<db, nextId, pc, age, req, victims, upserted, newManifests,
                   newJunction, unlinked, claimed, cursor, reads, fails, late>>

ReclaimDone(s) ==
    /\ pc[s] = "reclaim"
    /\ todo[s] = {}
    /\ Goto(s, "fkcheck")
    /\ UNCHANGED <<db, nextId, age, req, todo, victims, writes, reads, fails, late>>

\* Mutant: no foreign key.
FkCheckAbsent(s) ==
    /\ pc[s] = "fkcheck"
    /\ Goto(s, "commit")
    /\ UNCHANGED <<db, nextId, age, req, todo, victims, writes, reads, fails, late>>

\* ckpt_manifest_chunks.chunk_hash REFERENCES ckpt_chunks: checked when the
\* DELETE ends, against what is committed by then.
FkCheck(s) ==
    /\ pc[s] = "fkcheck"
    /\ ~ \E r \in junction, o \in Session \ {s} :
            r.hash \in reclaimed[s] /\ r.id \in unlinked[o]
    /\ Goto(s, IF \E h \in reclaimed[s] : Referenced(s, h) THEN "fkfault" ELSE "commit")
    /\ UNCHANGED <<db, nextId, age, req, todo, victims, writes, reads, fails, late>>

-----------------------------------------------------------------------------
(* load and history: two statements over one snapshot                      *)

ReadBegin(s, r, page) ==
    /\ pc[s] = "idle"
    /\ req' = [req EXCEPT ![s] = r]
    /\ snap' = [snap EXCEPT ![s] =
           [page |-> page, junction |-> junction, chunks |-> chunks]]
    /\ Goto(s, "read")
    /\ UNCHANGED <<db, nextId, age, todo, victims, writes, out, fails, late>>

\* SELECT ... AND (sequence IS NULL OR seq = sequence) ORDER BY seq DESC LIMIT 1
LoadManifest(s, p, q) ==
    ReadBegin(s, [op |-> "load", pair |-> p, seq |-> q],
              Newest({m \in Of(manifests, p) : q = 0 \/ m.seq = q}, 1))

\* SELECT ... AND (before IS NULL OR seq < before) ORDER BY seq DESC LIMIT limit
HistoryPage(s, p, b, n) ==
    ReadBegin(s, [op |-> "history", pair |-> p, before |-> b, limit |-> n],
              Newest({m \in Of(manifests, p) : b = 0 \/ m.seq < b}, n))

HashesInOrder(rows) ==
    [i \in 1 .. Cardinality(rows) |-> (CHOOSE r \in rows : r.pos = i).hash]

\* What load makes of a manifest and its LEFT JOINed rows: positions must be
\* dense, every chunk present, and the hashes in order give the manifest hash.
\* (Chunk bytes are their hash here, so the per-chunk hash check cannot fail.)
LoadStatus(m, rows, present) ==
    CASE {r.pos : r \in rows} # 1 .. Cardinality(rows) -> "manifest_corrupt"
      [] \E r \in rows : r.hash \notin present -> "chunk_missing"
      [] HashesInOrder(rows) # m.hash -> "manifest_corrupt"
      [] OTHER -> "ok"

LoadChunks(s) ==
    /\ pc[s] = "read" /\ req[s].op = "load"
    /\ LET v == ReadView(s)
       IN  out' = [out EXCEPT ![s] =
               IF v.page = {} THEN [status |-> "not_found", summaries |-> {}]
               ELSE LET m == CHOOSE m \in v.page : TRUE
                        rows == Positions(v.junction, m.id)
                    IN  [status |-> LoadStatus(m, rows, v.chunks),
                         summaries |-> {[manifest |-> m,
                                         chunkCount |-> Cardinality(rows)]}]]
    /\ Goto(s, "commit")
    /\ UNCHANGED <<db, nextId, age, req, todo, victims, writes, snap, fails, late>>

\* JOIN ckpt_chunks ... GROUP BY manifest_id; no group means (0, 0).
HistoryAggregate(s) ==
    /\ pc[s] = "read" /\ req[s].op = "history"
    /\ LET v == ReadView(s)
           Count(m) == Cardinality({r \in Positions(v.junction, m.id) : r.hash \in v.chunks})
       IN  out' = [out EXCEPT ![s] =
               [status |-> "ok",
                summaries |-> {[manifest |-> m, chunkCount |-> Count(m)] : m \in v.page}]]
    /\ Goto(s, "commit")
    /\ UNCHANGED <<db, nextId, age, req, todo, victims, writes, snap, fails, late>>

-----------------------------------------------------------------------------
(* The end of a transaction (withTransaction), and time                    *)

\* COMMIT publishes the transaction's rows.  A chunk row it deleted is gone
\* from the running scan of every other prune, even if it is inserted again.
Commit(s) ==
    /\ pc[s] = "commit"
    /\ chunks' = (chunks \ reclaimed[s]) \cup upserted[s]
    /\ chunkAge' = [h \in Chunk |->
           IF h \in upserted[s] THEN RefreshedAge(s, h)
           ELSE IF h \in reclaimed[s] THEN 0 ELSE chunkAge[h]]
    /\ manifests' = {m \in manifests : m.id \notin unlinked[s]} \cup newManifests[s]
    /\ junction' = {r \in junction : r.id \notin unlinked[s]} \cup newJunction[s]
    /\ counters' = IF claimed[s] = 0 THEN counters
                   ELSE [counters EXCEPT ![req[s].pair] = claimed[s] + 1]
    /\ watermarks' = IF cursor[s] = 0 THEN watermarks
                     ELSE [watermarks EXCEPT ![req[s].pair] = cursor[s]]
    /\ todo' = [o \in Session |->
           IF pc[o] = "reclaim" THEN todo[o] \ reclaimed[s] ELSE todo[o]]
    /\ EndTransaction(s)
    /\ UNCHANGED <<fails, late>>

\* Mutant: the connection goes back to the pool with its transaction open.
RollbackLeftOpen(s) ==
    /\ Goto(s, "idle")
    /\ UNCHANGED <<db, nextId, age, req, todo, victims, writes, reads>>

\* ROLLBACK: nothing of the transaction remains.
Rollback(s) ==
    /\ todo' = [todo EXCEPT ![s] = {}]
    /\ EndTransaction(s)
    /\ UNCHANGED db

\* 23503 from the FK check makes withTransaction roll back and prune reject.
PruneFault(s) ==
    /\ pc[s] = "fkfault"
    /\ Rollback(s)
    /\ UNCHANGED <<fails, late>>

\* PostgreSQL ends a deadlock by failing one of its transactions with 40P01.
DeadlockAbort(s) ==
    /\ pc[s] # "idle"
    /\ Deadlocked(s)
    /\ Rollback(s)
    /\ UNCHANGED <<fails, late>>

\* The process dies, the connection drops, a timeout or the caller's work
\* inside the transaction throws: any statement may be the last one.
Fail(s) ==
    /\ pc[s] # "idle"
    /\ fails < MaxFails
    /\ fails' = fails + 1 /\ UNCHANGED late
    /\ Rollback(s)

\* Reads do not look at the clock, so their age is not kept.
Tick ==
    /\ \A s \in Saver \cup Pruner : pc[s] # "idle" => age[s] < MaxTxAge
    /\ age' = [s \in Session |->
           IF s \in Saver \cup Pruner /\ pc[s] # "idle" THEN age[s] + 1 ELSE age[s]]
    /\ chunkAge' = [h \in Chunk |->
           IF h \in chunks /\ chunkAge[h] < MaxAge THEN chunkAge[h] + 1 ELSE chunkAge[h]]
    /\ late' = late \cup {s \in Saver : age'[s] > Grace}
    /\ UNCHANGED <<chunks, manifests, junction, counters, watermarks, nextId, pc,
                   req, todo, victims, writes, reads, fails>>

-----------------------------------------------------------------------------
SaveStep(s) ==
    \/ \E h \in Chunk : UpsertChunk(s, h)
    \/ UpsertDone(s)
    \/ ClaimSeq(s)
    \/ InsertManifest(s)
    \/ AdvanceCursor(s)

PruneStep(s) ==
    \/ PruneManifests(s)
    \/ PruneScan(s)
    \/ \E h \in Chunk : ReclaimChunk(s, h)
    \/ ReclaimDone(s)
    \/ FkCheck(s)
    \/ PruneFault(s)

ReadStep(s) ==
    \/ LoadChunks(s)
    \/ HistoryAggregate(s)

\* The statements of the transaction s is in, up to its end.
Step(s) == SaveStep(s) \/ PruneStep(s) \/ ReadStep(s) \/ Commit(s) \/ DeadlockAbort(s)

Next ==
    \/ \E s \in Saver, p \in Pair, d \in Payload, adv \in Advance :
           SaveBegin(s, p, d, adv)
    \/ \E s \in Pruner, p \in Pair, k \in RetainCount : PruneBegin(s, p, k)
    \/ \E s \in Reader, p \in Pair, q \in 0 .. MaxSaves : LoadManifest(s, p, q)
    \/ \E s \in Reader, p \in Pair, b \in 0 .. MaxSaves, n \in PageLimit :
           HistoryPage(s, p, b, n)
    \/ \E s \in Session : Step(s)
    \/ \E s \in Session : Fail(s)
    \/ Tick

Spec == Init /\ [][Next]_vars

\* Clients run the statements of a transaction they have begun, prune is
\* called again and again, and the clock does not stop.
Fairness ==
    /\ \A s \in Session : WF_vars(Step(s))
    /\ \A s \in Pruner : WF_vars(\E p \in Pair, k \in RetainCount : PruneBegin(s, p, k))
    /\ WF_vars(Tick)

FairSpec == Spec /\ Fairness

-----------------------------------------------------------------------------
(* Properties                                                              *)

SavePc == {"upsert", "claim", "insert", "advance", "commit"}
PrunePc == {"unlink", "scan", "reclaim", "fkcheck", "fkfault", "commit"}
ReadPc == {"read", "commit"}

TablesOK ==
    /\ chunks \in SUBSET Chunk /\ chunkAge \in [Chunk -> Nat]
    /\ manifests \in SUBSET Manifest /\ junction \in SUBSET JunctionRow
    /\ counters \in [Pair -> Nat] /\ watermarks \in [Pair -> Nat]
    /\ nextId \in Nat /\ fails \in Nat /\ late \in SUBSET Saver

TransactionsOK ==
    /\ pc \in [Session -> {"idle"} \cup SavePc \cup PrunePc \cup ReadPc]
    /\ age \in [Session -> Nat]
    /\ todo \in [Session -> SUBSET Chunk]
    /\ upserted \in [Session -> SUBSET Chunk] /\ reclaimed \in [Session -> SUBSET Chunk]
    /\ newManifests \in [Session -> SUBSET Manifest]
    /\ newJunction \in [Session -> SUBSET JunctionRow]
    /\ victims \in [Session -> SUBSET Nat] /\ unlinked \in [Session -> SUBSET Nat]
    /\ claimed \in [Session -> Nat] /\ cursor \in [Session -> Nat]
    /\ DOMAIN req = Session /\ DOMAIN snap = Session /\ DOMAIN out = Session

\* Each kind of session serves the requests it may be given.
RequestOK(s) ==
    \/ pc[s] = "idle" /\ req[s] = NoReq
    \/ s \in Saver /\ pc[s] \in SavePc /\ req[s] \in SaveReq
    \/ s \in Pruner /\ pc[s] \in PrunePc /\ req[s] \in PruneReq
    \/ s \in Reader /\ pc[s] \in ReadPc /\ req[s] \in LoadReq \cup HistoryReq

\* The type invariant.
TypeOK == TablesOK /\ TransactionsOK /\ \A s \in Session : RequestOK(s)

\* Garbage collection never takes a chunk a committed manifest needs, however
\* long a save stays open while prune runs (law C2a of the storage algebra).
NoDanglingChunk == \A r \in junction : r.hash \in chunks

\* The grace window suffices: as long as no save's transaction has outlived it,
\* prune never deletes a chunk row that a manifest committed meanwhile refers
\* to, so its foreign key never has to stop it.  What counts is the age of the
\* transaction, not the time since the save touched the chunk: created_at is
\* set to now(), which is when the transaction began.
GraceSuffices ==
    late = {} => \A s \in Pruner : \A h \in reclaimed[s] : ~ Referenced(s, h)

\* A load or history that races a prune returns what one instant held: load
\* never reports corruption, history counts every chunk of what it lists.
ReadsNotTorn ==
    \A s \in Reader :
        /\ out[s].status \in {"none", "ok", "not_found"}
        /\ \A x \in out[s].summaries : x.chunkCount = Len(x.manifest.hash)

\* No transaction waits for ever: every wait ends, by deadlock detection if
\* not otherwise.
TransactionsEnd == \A s \in Session : []<>(pc[s] = "idle")

\* A chunk no manifest refers to does not stay for ever (law C2b).
GarbageCollected ==
    \A h \in Chunk : []<>(h \notin chunks \/ \E r \in junction : r.hash = h)

-----------------------------------------------------------------------------
(* The contract                                                            *)

\* What load would return for a committed manifest, were it called now.
Loadable(m) ==
    IF LoadStatus(m, Positions(junction, m.id), chunks) = "ok"
    THEN m.hash ELSE <<"corrupt">>

Contract == INSTANCE CheckpointContract WITH
    retained <- [p \in Pair |->
        {[seq |-> m.seq, data |-> Loadable(m)] : m \in Of(manifests, p)}],
    lastSeq <- [p \in Pair |-> IF counters[p] = 0 THEN 0 ELSE counters[p] - 1],
    cursorSeq <- watermarks

\* Seen through load, the store with its chunk pool, its counters, its races
\* and its failures is a log per pair: a save appends its data whole under the
\* next number, a prune drops the oldest, and nothing else ever shows.
ImplementsContract == Contract!Spec
=============================================================================
