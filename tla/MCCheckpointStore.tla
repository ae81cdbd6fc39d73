------------------------- MODULE MCCheckpointStore -------------------------
(* Instances of CheckpointStore for TLC.                                   *)
EXTENDS CheckpointStore, TLC

CONSTANTS a, b, s1, s2, p1, p2

\* Two chunks in both orders: the payloads whose saves can deadlock.
MCPayloadOrders == {<<>>, <<a, b>>, <<b, a>>}
\* A chunk repeated within a payload, and shared by checkpoints.
MCPayloadRepeat == {<<>>, <<a, a>>}
=============================================================================
