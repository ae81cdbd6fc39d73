-------------------------- MODULE HistoryContract --------------------------
(***************************************************************************)
(* What the transaction history promises: a write is one atomic merge into *)
(* the entry of its hash, and a write that leaves its entry finalized or   *)
(* rejected may at the same time clear pending entries of other hashes     *)
(* whose identifiers its own include.  Nothing else changes an entry.      *)
(***************************************************************************)
EXTENDS FiniteSets

CONSTANTS Hash, Entries, NoRow, Merge(_, _)

VARIABLE entries      \* [Hash -> row or NoRow]

Init == entries = [h \in Hash |-> NoRow]

Result(h, row) == IF entries[h] = NoRow THEN row ELSE Merge(entries[h], row)

Clearable(h, result) ==
    {g \in Hash \ {h} :
        /\ result.lifecycle # "pending"
        /\ entries[g] # NoRow
        /\ entries[g].lifecycle = "pending"
        /\ entries[g].identifiers # {}
        /\ entries[g].identifiers \subseteq result.identifiers}

Got(h, row) ==
    \E cleared \in SUBSET Clearable(h, Result(h, row)) :
        entries' = [g \in Hash |-> IF g = h THEN Result(h, row)
                                   ELSE IF g \in cleared THEN NoRow ELSE entries[g]]

Next == \E h \in Hash, row \in Entries : Got(h, row)

Spec == Init /\ [][Next]_entries
=============================================================================
