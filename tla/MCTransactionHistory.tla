------------------------ MODULE MCTransactionHistory ------------------------
(* Small instances of TransactionHistory for TLC.                          *)
EXTENDS TransactionHistory

CONSTANTS s1, s2, h1, h2, a, b, x, y

E(ids, life, secs) == [identifiers |-> ids, lifecycle |-> life, sections |-> secs]

\* Entries that supersede each other, or have no identifiers, with two sections.
MCEntries == {E({a}, "pending", {x}), E({a}, "finalized", {y}), E({a, b}, "rejected", {x}),
              E({}, "pending", {x}), E({}, "finalized", {y})}
=============================================================================
