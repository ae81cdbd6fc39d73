-------------------------- MODULE ChainArchiveSync --------------------------
(***************************************************************************)
(* ChainArchiveSyncService (chain-archive-sync/sync-service.ts) over the   *)
(* chain archive store, whose putBlockBundle and setWatermark are one step *)
(* each here (ChainArchive has their statements).  A step is what a        *)
(* syncOnce does between two awaits.  Calls may overlap, on one service or *)
(* on several; a service may die and be started again.                     *)
(*                                                                         *)
(* Only finalized heights are ingested, so a block is its height.  Of what *)
(* the indexer reports about a block the D-parameter is kept, because the  *)
(* service compares it with the one it remembers.                          *)
(***************************************************************************)
EXTENDS Integers, FiniteSets, FiniteSetsExt

CONSTANTS
    Service,
    Call,          \* syncOnce calls that may be under way at once
    ServiceOf,     \* [Call -> Service]
    DValue,
    Unknown,       \* lastDParameterJson = undefined
    MaxBlocks,     \* the maxBlocks argument
    MaxHeight,     \* bound: the last block
    MaxFails       \* bound: throws and crashes in a behaviour

Height == 0..MaxHeight

ASSUME SyncConstants ==
    /\ ServiceOf \in [Call -> Service]
    /\ Unknown \notin DValue
    /\ MaxBlocks \in Nat \ {0} /\ MaxHeight \in Nat /\ MaxFails \in Nat

VARIABLES
    dParameter,    \* the D-parameter of each block: [Height -> DValue]
    finalized,     \* the node's finalized head
    indexed,       \* the indexer's last block, -1 for none
    blocks,        \* heights archived, with their transactions
    observations,  \* heights whose D-parameter is archived
    watermark,     \* sync_cursor, -1 for no row
    lastD,         \* lastDParameterJson: [Service -> DValue or Unknown]
    pc, tip, height, endHeight,
    newD,          \* the candidate for lastD, Unknown for "unchanged"
    fails,
    alone          \* so far one service synced, a call at a time

chain == <<dParameter, finalized, indexed>>
store == <<blocks, observations, watermark>>
call  == <<pc, tip, height, endHeight, newD>>
vars  == <<chain, store, lastD, call, fails, alone>>

Init ==
    /\ dParameter \in [Height -> DValue]
    /\ finalized = 0 /\ indexed = -1
    /\ blocks = {} /\ observations = {} /\ watermark = -1
    /\ lastD = [v \in Service |-> Unknown]
    /\ pc = [c \in Call |-> "idle"]
    /\ tip = [c \in Call |-> 0]
    /\ height = [c \in Call |-> 0]
    /\ endHeight = [c \in Call |-> 0]
    /\ newD = [c \in Call |-> Unknown]
    /\ fails = 0 /\ alone = TRUE

Goto(c, label) == pc' = [pc EXCEPT ![c] = label]

\* The call is over: it returned, or threw to its caller, who calls again.
Over(c) ==
    /\ Goto(c, "idle")
    /\ tip' = [tip EXCEPT ![c] = 0]
    /\ height' = [height EXCEPT ![c] = 0]
    /\ endHeight' = [endHeight EXCEPT ![c] = 0]
    /\ newD' = [newD EXCEPT ![c] = Unknown]

-----------------------------------------------------------------------------
(* The chain, as the node and the indexer report it *)

Finalize ==
    /\ finalized < MaxHeight
    /\ finalized' = finalized + 1
    /\ UNCHANGED <<dParameter, indexed, store, lastD, call, fails, alone>>

Index ==
    /\ indexed < finalized
    /\ indexed' = indexed + 1
    /\ UNCHANGED <<dParameter, finalized, store, lastD, call, fails, alone>>

-----------------------------------------------------------------------------
(* syncOnce *)

\* The finalized head is read.
SyncBegin(c) ==
    /\ pc[c] = "idle"
    /\ tip' = [tip EXCEPT ![c] = finalized]
    /\ Goto(c, "cursor")
    /\ alone' = (/\ alone
                 /\ \A o \in Call \ {c} : pc[o] = "idle"
                 /\ \A v \in Service \ {ServiceOf[c]} : lastD[v] = Unknown)
    /\ UNCHANGED <<chain, store, lastD, height, endHeight, newD, fails>>

BatchEnd(start, head) == Min({head, start + MaxBlocks - 1})

\* getSyncedHeight, and the range of this batch.
ReadCursor(c) ==
    /\ pc[c] = "cursor"
    /\ LET start == watermark + 1 IN
       \/ start > tip[c] /\ Over(c)
       \/ /\ start <= tip[c]
          /\ height' = [height EXCEPT ![c] = start]
          /\ endHeight' = [endHeight EXCEPT ![c] = BatchEnd(start, tip[c])]
          /\ Goto(c, "fetch")
          /\ UNCHANGED <<tip, newD>>
    /\ UNCHANGED <<chain, store, lastD, fails, alone>>

\* buildBridgeObservationRecords: what is new since the last block remembered.
Candidate(c) ==
    LET d == dParameter[height[c]] IN IF d = lastD[ServiceOf[c]] THEN Unknown ELSE d

\* Mutant: the field is set before the write is durable.
FetchRemembers(c) ==
    /\ pc[c] = "fetch" /\ indexed >= height[c]
    /\ newD' = [newD EXCEPT ![c] = Candidate(c)]
    /\ lastD' = [lastD EXCEPT ![ServiceOf[c]] = dParameter[height[c]]]
    /\ Goto(c, "bundle")
    /\ UNCHANGED <<chain, store, tip, height, endHeight, fails, alone>>

\* The first half of ingestOneBlock: the indexer's block, or a throw if it has
\* none yet; then every record is built before anything is written.
Fetch(c) ==
    /\ pc[c] = "fetch"
    /\ \/ indexed < height[c] /\ Over(c)
       \/ /\ indexed >= height[c]
          /\ newD' = [newD EXCEPT ![c] = Candidate(c)]
          /\ Goto(c, "bundle")
          /\ UNCHANGED <<tip, height, endHeight>>
    /\ UNCHANGED <<chain, store, lastD, fails, alone>>

\* Mutant: no ON CONFLICT; a height that is there already is an error.
PutBlockBundleOnce(c) ==
    /\ pc[c] = "bundle"
    /\ \/ height[c] \in blocks /\ Over(c) /\ UNCHANGED <<blocks, observations>>
       \/ /\ height[c] \notin blocks
          /\ blocks' = blocks \cup {height[c]}
          /\ observations' = observations
                 \cup (IF newD[c] = Unknown THEN {} ELSE {height[c]})
          /\ Goto(c, "stored")
          /\ UNCHANGED <<tip, height, endHeight, newD>>
    /\ UNCHANGED <<chain, watermark, lastD, fails, alone>>

\* putBlockBundle commits: the block, its transactions and its observations, as
\* far as they are not there yet.
PutBlockBundle(c) ==
    /\ pc[c] = "bundle"
    /\ blocks' = blocks \cup {height[c]}
    /\ observations' = observations \cup (IF newD[c] = Unknown THEN {} ELSE {height[c]})
    /\ Goto(c, "stored")
    /\ UNCHANGED <<chain, watermark, lastD, tip, height, endHeight, newD, fails, alone>>

\* The service has the answer, and remembers what it has written.
Remember(c) ==
    /\ pc[c] = "stored"
    /\ lastD' = IF newD[c] = Unknown THEN lastD
                ELSE [lastD EXCEPT ![ServiceOf[c]] = newD[c]]
    /\ Goto(c, "advance")
    /\ UNCHANGED <<chain, store, tip, height, endHeight, newD, fails, alone>>

\* ON CONFLICT (key) DO UPDATE ... WHERE EXCLUDED.height > w.height.
Advanced(h) == IF h > watermark THEN h ELSE watermark

\* Mutant: the watermark is set to the end of the batch.
SetWatermarkToEnd(c) ==
    /\ pc[c] = "advance"
    /\ watermark' = Advanced(endHeight[c])
    /\ \/ height[c] = endHeight[c] /\ Over(c)
       \/ /\ height[c] < endHeight[c]
          /\ height' = [height EXCEPT ![c] = @ + 1]
          /\ Goto(c, "fetch")
          /\ UNCHANGED <<tip, endHeight, newD>>
    /\ UNCHANGED <<chain, blocks, observations, lastD, fails, alone>>

\* setWatermark, and the loop goes on.
SetWatermark(c) ==
    /\ pc[c] = "advance"
    /\ watermark' = Advanced(height[c])
    /\ \/ height[c] = endHeight[c] /\ Over(c)
       \/ /\ height[c] < endHeight[c]
          /\ height' = [height EXCEPT ![c] = @ + 1]
          /\ Goto(c, "fetch")
          /\ UNCHANGED <<tip, endHeight, newD>>
    /\ UNCHANGED <<chain, blocks, observations, lastD, fails, alone>>

Continue(c) ==
    \/ ReadCursor(c) \/ Fetch(c) \/ PutBlockBundle(c) \/ Remember(c) \/ SetWatermark(c)

\* An RPC, a cross-check of node and indexer, or a statement fails and syncOnce
\* throws.  At "stored" the bundle was committed and only the answer was lost.
Throw(c) ==
    /\ pc[c] # "idle" /\ fails < MaxFails
    /\ fails' = fails + 1
    /\ Over(c)
    /\ UNCHANGED <<chain, store, lastD, alone>>

\* The process dies with the calls it runs; a new one remembers nothing.
Restart(v) ==
    /\ fails < MaxFails
    /\ fails' = fails + 1
    /\ lastD' = [lastD EXCEPT ![v] = Unknown]
    /\ LET Dead(c) == ServiceOf[c] = v IN
       /\ pc' = [c \in Call |-> IF Dead(c) THEN "idle" ELSE pc[c]]
       /\ tip' = [c \in Call |-> IF Dead(c) THEN 0 ELSE tip[c]]
       /\ height' = [c \in Call |-> IF Dead(c) THEN 0 ELSE height[c]]
       /\ endHeight' = [c \in Call |-> IF Dead(c) THEN 0 ELSE endHeight[c]]
       /\ newD' = [c \in Call |-> IF Dead(c) THEN Unknown ELSE newD[c]]
    /\ UNCHANGED <<chain, store, alone>>

Next ==
    \/ Finalize \/ Index
    \/ \E c \in Call : SyncBegin(c) \/ Continue(c) \/ Throw(c)
    \/ \E v \in Service : Restart(v)

Spec == Init /\ [][Next]_vars

\* sync-cli.ts calls syncOnce in a loop, after an error too; the indexer
\* follows the node.  The chain itself need not grow.
Fairness ==
    /\ WF_vars(Index)
    /\ \A c \in Call : WF_vars(SyncBegin(c)) /\ WF_vars(Continue(c))

FairSpec == Spec /\ Fairness

-----------------------------------------------------------------------------
(* Properties *)

(***************************************************************************)
(* Every height up to the cursor is archived, whichever calls overlapped,  *)
(* threw or died: a resumed sync never starts beyond a hole (syncOnce).    *)
(***************************************************************************)
NoGap == \A h \in Height : h <= watermark => h \in blocks

\* Every block up to the cursor whose D-parameter is not the one of the block
\* before has an observation.
Changes(h) == h > 0 /\ dParameter[h] # dParameter[h - 1]
AllChangesRecorded == \A h \in Height : h <= watermark /\ Changes(h) => h \in observations

(***************************************************************************)
(* If one service does all the syncing, a call at a time, no change of the *)
(* D-parameter goes unrecorded, although calls throw after the bundle was  *)
(* committed or before, and the service restarts (ingestOneBlock sets      *)
(* lastDParameterJson only after the write).                               *)
(***************************************************************************)
ChangesRecorded == alone => AllChangesRecorded

(***************************************************************************)
(* Whatever failed, a finalized height is archived and passed in the end:  *)
(* no height wedges the service.                                           *)
(***************************************************************************)
CatchesUp == \A h \in Height : (finalized >= h) ~> (watermark >= h)
=============================================================================
