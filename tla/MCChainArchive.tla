--------------------------- MODULE MCChainArchive ---------------------------
(***************************************************************************)
(* The writes of the archive, and the rollover of its partitions, which    *)
(* needs them at a coarser grain: a behaviour is of one or of the other.   *)
(*                                                                         *)
(* Writes: three blocks at one height.  ba is ingested by the sync service *)
(* as finalized and has one transaction; bb and bc are competing forks.    *)
(* Rollover: one pre-created partition for height 0; heights 1 and 2       *)
(* overflow into DEFAULT.                                                  *)
(***************************************************************************)
EXTENDS ChainArchive, Rollover, TLC

CONSTANTS ba, bb, bc, ha, hb, hc, ta, vkey

AllAtOne == [x \in Block |-> 1]

HeaderOf == ba :> <<ha>> @@ bb :> <<hb>> @@ bc :> <<hc>>

TransactionsOf == ba :> <<ta>> @@ bb :> <<>> @@ bc :> <<>>

Seen == [canonical |-> FALSE, finalized |-> FALSE]
Best == [canonical |-> TRUE, finalized |-> FALSE]
Final == [canonical |-> TRUE, finalized |-> TRUE]
Illegal == [canonical |-> FALSE, finalized |-> TRUE]

Races ==
    {[op |-> "putBlockBundle", block |-> ba, flags |-> Final],
     [op |-> "putBlock", block |-> ba, flags |-> Seen],
     [op |-> "putBlock", block |-> bb, flags |-> Best],
     [op |-> "putBlock", block |-> bc, flags |-> Seen],
     [op |-> "putBlock", block |-> bc, flags |-> Illegal],
     [op |-> "putChildren", block |-> ba]}
        \cup [op : {"putBlobWithRole"}, role : {ta, vkey}]
        \cup [op : {"removeRole"}, role : {ha, ta, vkey}]
        \cup [op : {"setCanonical"}, block : Block, finalized : {NoRow}]
        \cup [op : {"setCanonical"}, block : {ba}, finalized : BOOLEAN]
        \cup [op : {"putVerifierKeyObservation"}, height : {1, 2}]

Symmetry == Permutations(Session) \cup Permutations(Runner)

Bucket(suffix, lo, hi) == [suffix |-> suffix, lo |-> lo, hi |-> hi]
\* Two neighbours, one over both, a suffix used twice, and an empty range.
MCBuckets == {Bucket("p1", 1, 2), Bucket("p2", 2, 3), Bucket("p2", 1, 3), Bucket("p3", 1, 1)}

VARIABLE part

MCInit == part \in {"writes", "rollover"} /\ Init /\ RolloverInit

Writes == part = "writes" /\ Next /\ UNCHANGED <<part, rolloverVars>>
Rolls == part = "rollover" /\ RolloverNext /\ UNCHANGED <<part, vars>>
Rests == part = "rollover" /\ Finished /\ UNCHANGED <<part, vars, rolloverVars>>

MCSpec == MCInit /\ [][Writes \/ Rolls \/ Rests]_<<part, vars, rolloverVars>>

=============================================================================
