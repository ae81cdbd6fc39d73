---------------------------- MODULE VersionedLog ----------------------------
(***************************************************************************)
(* What the temporal key-value store promises: every key is a log of the   *)
(* values accepted for it.  Version v is the v-th value, a transaction     *)
(* appends at most one value to each of the keys it writes, all at once,   *)
(* and what is in a log stays there.                                       *)
(***************************************************************************)
EXTENDS Naturals, Sequences

CONSTANTS Key, Value

VARIABLE log       \* [Key -> Seq(Value)]

Init == log = [k \in Key |-> <<>>]

Accept(written, val) ==
    log' = [k \in Key |-> IF k \in written THEN Append(log[k], val[k]) ELSE log[k]]

Next == \E written \in SUBSET Key : \E val \in [written -> Value] : Accept(written, val)

Spec == Init /\ [][Next]_log
=============================================================================
