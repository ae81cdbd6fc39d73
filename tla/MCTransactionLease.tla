------------------------- MODULE MCTransactionLease -------------------------
(* Small instances of TransactionLease for TLC. *)
EXTENDS TransactionLease, TLC

CONSTANTS c1, c2, n1, n2, k1, k2, h1, h2

HashOne  == (k1 :> h1)

Symmetry == Permutations(Caller) \cup Permutations(Conn)

Args(ops, limits, signals, callbacks) ==
    [op : ops, key : Key, limit : limits, signal : signals, callback : callbacks]

\* Every operation: an acquire that waits with a limit, one that can be
\* aborted, and withLease with and without onReleaseFault.
AllCalls   == Args({"acquire"}, {"short"}, {FALSE}, {FALSE})
              \cup Args({"acquire", "try", "tx"}, {"none"}, {TRUE}, {FALSE})
              \cup Args({"with"}, {"none"}, {FALSE}, BOOLEAN)
\* Leases only, for the way into a late cancel request.
LeaseCalls == Args({"acquire", "try"}, {"none", "short"}, {TRUE}, {FALSE})
=============================================================================
