---------------------------- MODULE MCTemporalKV ----------------------------
(* Small instances of TemporalKV for TLC.                                  *)
EXTENDS TemporalKV, TLC

CONSTANTS s1, s2, k1, k2, v1, v2

Both     == {"read committed", "repeatable read"}
\* Upserts, creations and guarded puts.
AllPuts  == {AnyVersion, 0, 1}

Symmetry == Permutations(Session) \cup Permutations(Value) \cup Permutations(Key)
=============================================================================
