------------------------- MODULE CheckpointContract -------------------------
(***************************************************************************)
(* What CheckpointStore (src/interfaces/checkpoint-store.ts) and           *)
(* saveAndAdvance promise their callers, with every call atomic: a log of  *)
(* checkpoints per pair and the cursor that is committed with them.        *)
(***************************************************************************)
EXTENDS Naturals

CONSTANTS Pair, Payload

VARIABLES
    retained,   \* the checkpoints load and history find: [seq, data] records
    lastSeq,    \* the last sequence number given, 0 for none
    cursorSeq   \* the checkpoint the durable cursor was committed with

vars == <<retained, lastSeq, cursorSeq>>

Init ==
    /\ retained = [p \in Pair |-> {}]
    /\ lastSeq = [p \in Pair |-> 0]
    /\ cursorSeq = [p \in Pair |-> 0]

\* save, or with advance saveAndAdvance: all of it or nothing.
Save(p, d, advance) ==
    /\ lastSeq' = [lastSeq EXCEPT ![p] = @ + 1]
    /\ retained' = [retained EXCEPT ![p] =
           @ \cup {[seq |-> lastSeq[p] + 1, data |-> d]}]
    /\ cursorSeq' = IF advance THEN [cursorSeq EXCEPT ![p] = lastSeq[p] + 1]
                    ELSE cursorSeq

\* prune keeps the checkpoints from some retained one on, so at least one.
Prune(p) ==
    /\ \E c \in retained[p] :
           retained' = [retained EXCEPT ![p] = {x \in @ : x.seq >= c.seq}]
    /\ UNCHANGED <<lastSeq, cursorSeq>>

Next ==
    \E p \in Pair :
        \/ \E d \in Payload, advance \in BOOLEAN : Save(p, d, advance)
        \/ Prune(p)

Spec == Init /\ [][Next]_vars
=============================================================================
