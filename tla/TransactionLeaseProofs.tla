----------------------- MODULE TransactionLeaseProofs -----------------------
(***************************************************************************)
(* Leases exclude each other, connections do not leak and withLease        *)
(* reports a lock it lost, for any number of callers, keys, connections    *)
(* and faults; and without late cancel requests the pool stays clean.      *)
(* All of it for behaviours in which no signal fires between a reservation *)
(* and its callbacks: with SameTickAbort a call goes on with a connection  *)
(* it has released, and none of this holds.                                *)
(*                                                                         *)
(* The argument: a connection out of the pool is in one pair of hands, a   *)
(* call's or a lease's, so only its owner can unlock what its session      *)
(* holds and only its owner's statement can be running on it.  While it is *)
(* out the driver does not reconnect it: a dead session stays dead, and    *)
(* whoever lost a lock that way finds out when the unlock fails.           *)
(***************************************************************************)
EXTENDS TransactionLease, TLAPS

\* Leaves go to Zenon; those it cannot do, with arithmetic mostly, name SMT.
USE Zenon

CallRecord == [op : {"acquire", "try", "with", "tx", "release"}, slot : Slot \cup {NoSlot},
               limit : Limit, signal : BOOLEAN, callback : BOOLEAN, token : Nat]
LeaseRecord == [token : Nat, conn : Conn, slot : Slot, limit : Limit]
OutcomeRecord == [thrown : SUBSET Errors, notified : BOOLEAN]

ServerType ==
    /\ reserved \subseteq Conn /\ alive \subseteq Conn /\ cancels \subseteq Conn
    /\ lockOf \in [Slot -> Conn \cup {NoConn}]
    /\ depth \in [Slot -> Nat]
    /\ session \in [Conn -> Limit]
    /\ waiting \in [Conn -> Slot \cup {NoSlot}]
    /\ reply \in [Conn -> Reply]
CallsType ==
    /\ pc \in [Caller -> Labels]
    /\ call \in [Caller -> CallRecord]
    /\ conn \in [Caller -> Conn \cup {NoConn}]
    /\ why \in [Caller -> Errors \cup {"ok"}]
    /\ fn \in [Caller -> {"none", "ok", "threw"}]
    /\ out \in [Caller -> OutcomeRecord]
    /\ lapsed \subseteq Caller
LayerType ==
    /\ heldLeases \subseteq LeaseRecord
    /\ nextToken \in Nat \ {0}
    /\ activeTransactions \subseteq [caller : Caller, conn : Conn]

\* A connection out of the pool has one owner.
Owned ==
    /\ \A c, d \in Caller : conn[c] = conn[d] /\ conn[c] # NoConn => c = d
    /\ \A l, m \in heldLeases : l.conn = m.conn => l = m
    /\ \A c \in Caller, l \in heldLeases : conn[c] # l.conn
    /\ \A c \in Caller : conn[c] # NoConn => conn[c] \in reserved
    /\ \A l \in heldLeases : l.conn \in reserved
    /\ \A n \in reserved : (\E c \in Caller : conn[c] = n) \/ (\E l \in heldLeases : l.conn = n)

\* A handle on record is of a transaction whose body runs.
Handles == \A h \in activeTransactions : pc[h.caller] = "txfn" /\ conn[h.caller] = h.conn

\* A token names one lease.
OneToken == \A l, m \in heldLeases : l.token = m.token => l = m

\* A session holds a lock a number of times, and only while its backend lives.
SlotOK(s) == /\ lockOf[s] = NoConn <=> depth[s] = 0
             /\ lockOf[s] # NoConn => lockOf[s] \in alive

\* A lease on a live session is backed by the lock.
LeaseOK(l) == /\ l.token # 0 /\ l.token < nextToken
              /\ l.conn \in alive => lockOf[l.slot] = l.conn

\* The lock statement a backend executes is its owner's, and so is the answer.
ConnOK(n) ==
    /\ waiting[n] # NoSlot =>
        /\ n \in alive
        /\ \E c \in Caller : /\ conn[c] = n /\ pc[c] \in {"wait", "unlock"}
                             /\ call[c].slot = waiting[n]
    /\ reply[n] # "none" =>
        waiting[n] = NoSlot /\ \E c \in Caller : conn[c] = n /\ pc[c] = "wait"

\* Where a call has a connection.  At "release" withLease has none if fn had
\* released the lease.
Placed(c) ==
    /\ pc[c] \in {"set", "lock", "wait", "try", "granted", "unlock", "reset",
                  "txopen", "txfn", "txclose"} => conn[c] \in Conn
    /\ pc[c] \in {"idle", "reserve", "fn"} => conn[c] = NoConn
    /\ pc[c] # "idle" => call[c].slot \in Slot

\* The lock behind a grant, read or not.
Granting(c) ==
    pc[c] = "granted" \/ (pc[c] = "wait" /\ reply[conn[c]] = "granted") =>
        (conn[c] \in alive => lockOf[call[c].slot] = conn[c])

\* The leases with call c's token that are on record are its own, on a dead session.
OwnLease(c) == \A l \in heldLeases : l.token = call[c].token =>
                    l.slot = call[c].slot /\ l.limit = call[c].limit
LeaseDead(c) == \A l \in heldLeases : l.token = call[c].token => l.conn \notin alive

\* withLease: whoever lost the lock during fn has a lease no more, or one on a dead
\* session, and an error to report once it has tried to unlock.
Lapsing(c) ==
    /\ call[c].token < nextToken
    /\ pc[c] = "fn" => fn[c] = "none" /\ call[c].token # 0 /\ OwnLease(c)
    /\ fn[c] # "none" => call[c].token # 0 /\ pc[c] \in {"unlock", "reset", "release"}
    /\ c \in lapsed =>
        \/ pc[c] = "fn" /\ LeaseDead(c)
        \/ pc[c] = "unlock" /\ fn[c] # "none" /\ conn[c] \notin alive
        \/ /\ pc[c] \in {"reset", "release"} /\ fn[c] # "none"
           /\ why[c] \in {"connection-lost", "LeaseNotHeldError"}

\* The inductive invariant, whether or not cancel requests are late.
LeaseTypeOK == ServerType /\ CallsType /\ LayerType
LeaseInv ==
    /\ LeaseTypeOK /\ Owned /\ Handles /\ OneToken
    /\ \A s \in Slot : SlotOK(s)
    /\ \A l \in heldLeases : LeaseOK(l)
    /\ \A n \in Conn : ConnOK(n)
    /\ \A c \in Caller : Placed(c) /\ Granting(c) /\ Lapsing(c)

-----------------------------------------------------------------------------
(* What a step leaves alone *)

\* A step of call c does not touch the other calls, ...
QuietCalls(c) ==
    \A d \in Caller : d # c =>
        /\ pc'[d] = pc[d] /\ call'[d] = call[d] /\ conn'[d] = conn[d]
        /\ why'[d] = why[d] /\ fn'[d] = fn[d]
\* ... nor, on any connection but n, the statement, the answer or the locks,
\* and it revives none that is out of the pool.
QuietSessions(n) ==
    /\ \A m \in Conn : m # n => /\ waiting'[m] = waiting[m] /\ reply'[m] = reply[m]
                                /\ m \in alive => m \in alive'
    /\ \A m \in reserved : m \in alive' => m \in alive
    /\ \A s \in Slot : lockOf[s] # NoConn /\ lockOf[s] # n => lockOf'[s] = lockOf[s]
\* A lease on record keeps its token, and a new one has a new token.
QuietLeases ==
    /\ \A l \in heldLeases' : l \in heldLeases \/ l.token = nextToken
    /\ nextToken' \in Nat /\ nextToken <= nextToken'
\* Only a call whose lease is gone or dead loses the lock.
QuietLapses ==
    \A d \in lapsed' : d \in lapsed \/ (d \in Caller /\ pc[d] = "fn" /\ LeaseDead(d))
Quiet(n) == QuietSessions(n) /\ QuietLeases /\ QuietLapses

-----------------------------------------------------------------------------
(* Records, tokens and owners *)

\* The record of a call that is over, and its outcome.
LEMMA EmptyRecords ==
    NoCall \in CallRecord /\ NoCall.token = 0 /\ NoOutcome \in OutcomeRecord
BY SMT DEF NoCall, CallRecord, Limit, NoOutcome, OutcomeRecord

\* A call that moves to another label, with another error to report or not.
LEMMA Goes ==
    ASSUME CallsType, NEW c \in Caller, NEW label \in Labels, Goto(c, label),
           NEW e \in Errors \cup {"ok"}, why' = why \/ why' = [why EXCEPT ![c] = e],
           UNCHANGED <<call, conn, fn, out>>, lapsed' \subseteq Caller
    PROVE  CallsType' /\ QuietCalls(c) /\ pc'[c] = label
<1>1. pc' \in [Caller -> Labels] /\ pc'[c] = label /\ \A d \in Caller : d # c => pc'[d] = pc[d]
  BY DEF CallsType, Goto
<1>2. why' \in [Caller -> Errors \cup {"ok"}] /\ \A d \in Caller : d # c => why'[d] = why[d]
  BY DEF CallsType
<1> QED  BY <1>1, <1>2 DEF CallsType, QuietCalls

\* No lease has token 0.
LEMMA NoZeroToken == ASSUME LayerType PROVE 0 < nextToken
BY SMT DEF LayerType

\* A step that grants no lease.
LEMMA TokensKept ==
    ASSUME LayerType, nextToken' = nextToken, heldLeases' \subseteq heldLeases
    PROVE  QuietLeases
<1>1. nextToken' \in Nat /\ nextToken <= nextToken'
  BY SMT DEF LayerType
<1> QED  BY <1>1 DEF QuietLeases

\* A token is handed out once.
LEMMA NewToken ==
    ASSUME LayerType, \A l \in heldLeases : LeaseOK(l), nextToken' = nextToken + 1
    PROVE  /\ nextToken' \in Nat \ {0} /\ nextToken <= nextToken' /\ nextToken < nextToken'
           /\ 0 < nextToken' /\ nextToken # 0
           /\ \A l \in heldLeases : l.token # nextToken
<1>1. nextToken \in Nat \ {0} /\ \A l \in heldLeases : l.token \in Nat /\ l.token < nextToken
  BY DEF LayerType, LeaseRecord, LeaseOK
<1> QED  BY SMT, <1>1

\* withLease notes the token of its lease in the call.
LEMMA TokenNoted ==
    ASSUME NEW r \in CallRecord, NEW t \in Nat
    PROVE  /\ [r EXCEPT !.token = t] \in CallRecord /\ [r EXCEPT !.token = t].token = t
           /\ [r EXCEPT !.token = t].slot = r.slot /\ [r EXCEPT !.token = t].limit = r.limit
BY SMT DEF CallRecord

\* How often a session holds a lock.
LEMMA Counts ==
    /\ 0 + 1 = 1
    /\ \A d \in Nat : d + 1 \in Nat /\ d + 1 # 0
    /\ \A d \in Nat : d # 0 => d - 1 \in Nat /\ (d - 1 = 0 <=> d = 1)
BY SMT

\* What a withLease call is told of fn's error and of the fault.
LEMMA Told ==
    ASSUME NEW f, NEW e, NEW b
    PROVE  LET o == WithLeaseOutcome(f, e, b)
           IN  f \subseteq o.thrown /\ (e # {} => o.notified \/ e \subseteq o.thrown)
BY DEF WithLeaseOutcome

\* The owner of a connection knows the statement and the answer on it as its own.
LEMMA OwnStatement ==
    ASSUME Owned, NEW n \in Conn, ConnOK(n), NEW c \in Caller, conn[c] = n
    PROVE  /\ waiting[n] # NoSlot => pc[c] \in {"wait", "unlock"} /\ call[c].slot = waiting[n]
           /\ reply[n] # "none" => waiting[n] = NoSlot /\ pc[c] = "wait"
           /\ \A l \in heldLeases : l.conn # n
<1>1. n # NoConn
  BY LeaseConstants
<1>2. (\A d \in Caller : conn[d] = n => d = c) /\ (\A l \in heldLeases : l.conn # n)
  BY <1>1 DEF Owned
<1> QED  BY <1>2 DEF ConnOK

\* A connection passes from the pool to a call ...
LEMMA OwnedReserved ==
    ASSUME Owned, reserved \subseteq Conn, NEW c \in Caller, conn[c] = NoConn,
           NEW n \in Conn, n \notin reserved, conn'[c] = n,
           \A d \in Caller : d # c => conn'[d] = conn[d],
           reserved' = reserved \cup {n}, heldLeases' = heldLeases
    PROVE  Owned'
<1> USE LeaseConstants
<1>1. (\A d \in Caller : conn[d] # n) /\ (\A l \in heldLeases : l.conn # n)
  BY DEF Owned
<1>2. \A d, e \in Caller : conn'[d] = conn'[e] /\ conn'[d] # NoConn => d = e
  BY SMT, <1>1 DEF Owned
<1>3. /\ \A d \in Caller, l \in heldLeases : conn'[d] # l.conn
      /\ \A d \in Caller : conn'[d] # NoConn => conn'[d] \in reserved'
  BY SMT, <1>1 DEF Owned
<1>4. ASSUME NEW m \in reserved'
      PROVE  (\E d \in Caller : conn'[d] = m) \/ (\E l \in heldLeases : l.conn = m)
  <2>1. CASE m = n
    BY <2>1
  <2>2. CASE m \in reserved
    <3>1. \A d \in Caller : conn[d] = m => conn'[d] = m
      BY <2>2
    <3> QED  BY <2>2, <3>1 DEF Owned
  <2> QED  BY <2>1, <2>2
<1> QED  BY <1>2, <1>3, <1>4 DEF Owned

\* ... from a call to a lease ...
LEMMA OwnedTaken ==
    ASSUME Owned, NEW c \in Caller, conn[c] \in Conn, conn'[c] = NoConn,
           \A d \in Caller : d # c => conn'[d] = conn[d],
           NEW k, k.conn = conn[c], heldLeases' = heldLeases \cup {k},
           \A l \in heldLeases : l.conn \in Conn, reserved' = reserved
    PROVE  Owned'
<1> USE LeaseConstants
<1>1. /\ \A d \in Caller : d # c => conn'[d] = conn[d] /\ (conn[d] # NoConn => conn[d] # conn[c])
      /\ \A l \in heldLeases : l.conn # conn[c]
  BY DEF Owned
<1>2. \A d, e \in Caller : conn'[d] = conn'[e] /\ conn'[d] # NoConn => d = e
  BY SMT, <1>1 DEF Owned
<1>3. \A l, m \in heldLeases' : l.conn = m.conn => l = m
  BY SMT, <1>1 DEF Owned
<1>4. ASSUME NEW d \in Caller, NEW l \in heldLeases' PROVE conn'[d] # l.conn
  <2>1. CASE d = c
    BY <2>1
  <2>2. CASE d # c /\ l = k
    BY <1>1, <2>2
  <2>3. CASE d # c /\ l \in heldLeases
    BY SMT, <1>1, <2>3 DEF Owned
  <2> QED  BY <2>1, <2>2, <2>3
<1>5. /\ \A d \in Caller : conn'[d] # NoConn => conn'[d] \in reserved
      /\ \A l \in heldLeases' : l.conn \in reserved
  BY <1>1 DEF Owned
<1>6. ASSUME NEW n \in reserved
      PROVE  (\E d \in Caller : conn'[d] = n) \/ (\E l \in heldLeases' : l.conn = n)
  <2>1. CASE n = conn[c]
    BY <2>1
  <2>2. CASE n # conn[c]
    <3>1. (\E d \in Caller : d # c /\ conn[d] = n) \/ (\E l \in heldLeases : l.conn = n)
      BY <2>2 DEF Owned
    <3> QED  BY <1>1, <3>1
  <2> QED  BY <2>1, <2>2
<1> QED  BY SMT, <1>2, <1>3, <1>4, <1>5, <1>6 DEF Owned

\* ... back from a lease to the call that releases it ...
LEMMA OwnedGiven ==
    ASSUME Owned, reserved \subseteq Conn, NEW c \in Caller, conn[c] = NoConn,
           NEW k \in heldLeases, heldLeases' = heldLeases \ {k}, conn'[c] = k.conn,
           \A d \in Caller : d # c => conn'[d] = conn[d], reserved' = reserved
    PROVE  Owned'
<1> USE LeaseConstants
<1>1. /\ \A d \in Caller : d # c => conn'[d] = conn[d] /\ conn[d] # k.conn
      /\ \A l \in heldLeases' : l \in heldLeases /\ l.conn # k.conn
  BY DEF Owned
<1>2. \A d, e \in Caller : conn'[d] = conn'[e] /\ conn'[d] # NoConn => d = e
  BY SMT, <1>1 DEF Owned
<1>3. \A d \in Caller, l \in heldLeases' : conn'[d] # l.conn
  BY SMT, <1>1 DEF Owned
<1>4. /\ \A d \in Caller : conn'[d] # NoConn => conn'[d] \in reserved
      /\ \A l \in heldLeases' : l.conn \in reserved
  BY SMT, <1>1 DEF Owned
<1>5. ASSUME NEW n \in reserved
      PROVE  (\E d \in Caller : conn'[d] = n) \/ (\E l \in heldLeases' : l.conn = n)
  <2>1. CASE n = k.conn
    BY <2>1
  <2>2. CASE n # k.conn
    <3>1. n # NoConn
      OBVIOUS
    <3>2. (\E d \in Caller : d # c /\ conn[d] = n) \/ (\E l \in heldLeases : l # k /\ l.conn = n)
      BY <2>2, <3>1 DEF Owned
    <3> QED  BY <1>1, <3>2
  <2> QED  BY <2>1, <2>2
<1>6. \A l, m \in heldLeases' : l.conn = m.conn => l = m
  BY DEF Owned
<1> QED  BY SMT, <1>2, <1>3, <1>4, <1>5, <1>6 DEF Owned

\* ... and from a call to the pool.
LEMMA OwnedReturned ==
    ASSUME Owned, NEW c \in Caller, conn'[c] = NoConn,
           \A d \in Caller : d # c => conn'[d] = conn[d],
           reserved' = reserved \ {conn[c]}, heldLeases' = heldLeases,
           \A l \in heldLeases : l.conn \in Conn
    PROVE  Owned'
<1> USE LeaseConstants
<1>1. /\ \A d \in Caller : d # c => conn'[d] = conn[d] /\ (conn[d] # NoConn => conn[d] # conn[c])
      /\ \A l \in heldLeases : l.conn # conn[c] /\ l.conn # NoConn
  BY DEF Owned
<1>2. \A d, e \in Caller : conn'[d] = conn'[e] /\ conn'[d] # NoConn => d = e
  BY SMT, <1>1 DEF Owned
<1>3. \A d \in Caller, l \in heldLeases : conn'[d] # l.conn
  BY SMT, <1>1 DEF Owned
<1>4. /\ \A d \in Caller : conn'[d] # NoConn => conn'[d] \in reserved'
      /\ \A l \in heldLeases : l.conn \in reserved'
  BY SMT, <1>1 DEF Owned
<1>5. \A n \in reserved' : (\E d \in Caller : conn'[d] = n) \/ (\E l \in heldLeases : l.conn = n)
  BY SMT, <1>1 DEF Owned
<1>6. \A l, m \in heldLeases : l.conn = m.conn => l = m
  BY DEF Owned
<1> QED  BY SMT, <1>2, <1>3, <1>4, <1>5, <1>6 DEF Owned

\* A connection in one pair of hands is in one: the sets of its holders.
LEMMA OneHand ==
    ASSUME Owned, NEW n \in Conn
    PROVE  /\ \A c, d \in Caller : conn[c] = n /\ conn[d] = n => c = d
           /\ \A l, m \in heldLeases : l.conn = n /\ m.conn = n => l = m
           /\ \A c \in Caller, l \in heldLeases : ~(conn[c] = n /\ l.conn = n)
           /\ n \in reserved <=> (\E c \in Caller : conn[c] = n) \/ (\E l \in heldLeases : l.conn = n)
<1>1. n # NoConn
  BY LeaseConstants
<1> QED  BY SMT, <1>1 DEF Owned

-----------------------------------------------------------------------------
(* What a step keeps *)

\* A call that keeps its variables, on a connection the step does not touch.
LEMMA CallKept ==
    ASSUME LeaseInv, NEW n, Quiet(n), NEW d \in Caller, conn[d] # n \/ conn[d] = NoConn,
           pc'[d] = pc[d], call'[d] = call[d], conn'[d] = conn[d],
           why'[d] = why[d], fn'[d] = fn[d]
    PROVE  Placed(d)' /\ Granting(d)' /\ Lapsing(d)'
<1> USE LeaseConstants
<1>1. /\ Placed(d) /\ Granting(d) /\ Lapsing(d)
      /\ Owned /\ ServerType /\ CallsType /\ LayerType
      /\ \A s \in Slot : SlotOK(s)
  BY DEF LeaseInv, LeaseTypeOK
<1>2. Placed(d)'
  BY <1>1 DEF Placed
<1>3. conn[d] \in Conn => /\ waiting'[conn[d]] = waiting[conn[d]]
                          /\ reply'[conn[d]] = reply[conn[d]]
                          /\ conn[d] \in alive' <=> conn[d] \in alive
  BY <1>1 DEF Quiet, QuietSessions, Owned
<1>4. Granting(d)'
  BY <1>1, <1>3 DEF Granting, Placed, Quiet, QuietSessions
<1>5. OwnLease(d) => OwnLease(d)'
  BY SMT, <1>1 DEF OwnLease, Lapsing, Quiet, QuietLeases, CallsType, CallRecord, LayerType
<1>6. LeaseDead(d) => LeaseDead(d)'
  <2> SUFFICES ASSUME LeaseDead(d), NEW l \in heldLeases', l.token = call[d].token
               PROVE  l.conn \notin alive'
    BY DEF LeaseDead
  <2>1. l \in heldLeases
    BY SMT, <1>1 DEF Lapsing, Quiet, QuietLeases, CallsType, CallRecord, LayerType
  <2> QED  BY <1>1, <2>1 DEF Quiet, QuietSessions, LeaseDead, Owned
<1>7. Lapsing(d)'
  <2>1. call[d].token < nextToken'
    BY SMT, <1>1 DEF Lapsing, Quiet, QuietLeases, CallsType, CallRecord, LayerType
  <2>2. d \in lapsed' => d \in lapsed \/ (pc[d] = "fn" /\ LeaseDead(d))
    BY DEF Quiet, QuietLapses
  <2> QED  BY <1>1, <1>3, <1>5, <1>6, <2>1, <2>2 DEF Lapsing, Placed
<1> QED  BY <1>2, <1>4, <1>7

\* A lease stays backed by its lock when the step does not touch its connection.
LEMMA LeaseKept ==
    ASSUME LeaseInv, NEW n, Quiet(n), NEW l \in heldLeases, l.conn # n
    PROVE  LeaseOK(l)'
<1> USE LeaseConstants
<1>1. LeaseOK(l) /\ Owned /\ LayerType /\ ServerType
  BY DEF LeaseInv, LeaseTypeOK
<1>2. l.conn \in alive' => l.conn \in alive
  BY <1>1 DEF Quiet, QuietSessions, Owned
<1>3. l.conn \in alive' => lockOf'[l.slot] = l.conn
  BY SMT, <1>1, <1>2 DEF LeaseOK, Quiet, QuietSessions, LayerType, LeaseRecord
<1>4. l.token < nextToken'
  BY SMT, <1>1 DEF LeaseOK, Quiet, QuietLeases, LayerType, LeaseRecord
<1> QED  BY <1>1, <1>3, <1>4 DEF LeaseOK

\* The statement and the answer on a connection the step does not touch.
LEMMA ConnKept ==
    ASSUME LeaseInv, NEW n, Quiet(n), NEW m \in Conn, m # n,
           \A d \in Caller : conn[d] = m => conn'[d] = m /\ pc'[d] = pc[d] /\ call'[d] = call[d]
    PROVE  ConnOK(m)'
<1>1. ConnOK(m)
  BY DEF LeaseInv
<1>2. waiting'[m] = waiting[m] /\ reply'[m] = reply[m] /\ (m \in alive => m \in alive')
  BY DEF Quiet, QuietSessions
<1> QED  BY <1>1, <1>2 DEF ConnOK

\* What there is to show of a step of call c.
LEMMA CallSteps ==
    ASSUME LeaseInv, NEW c \in Caller, QuietCalls(c), Quiet(conn[c]),
           LeaseTypeOK', Owned', Handles', OneToken',
           \A s \in Slot : SlotOK(s)',
           \A l \in heldLeases' \ heldLeases : LeaseOK(l)',
           \A n \in Conn : n = conn[c] => ConnOK(n)',
           Placed(c)', Granting(c)', Lapsing(c)'
    PROVE  LeaseInv'
<1>1. \A d \in Caller : Placed(d)' /\ Granting(d)' /\ Lapsing(d)'
  <2> SUFFICES ASSUME NEW d \in Caller, d # c PROVE Placed(d)' /\ Granting(d)' /\ Lapsing(d)'
    OBVIOUS
  <2>1. conn[d] # conn[c] \/ conn[d] = NoConn
    BY DEF LeaseInv, Owned
  <2> QED  BY <2>1, CallKept DEF QuietCalls
<1>2. \A l \in heldLeases' : LeaseOK(l)'
  <2> SUFFICES ASSUME NEW l \in heldLeases PROVE LeaseOK(l)'
    OBVIOUS
  <2>1. l.conn # conn[c]
    BY DEF LeaseInv, Owned
  <2> QED  BY <2>1, LeaseKept
<1>3. \A m \in Conn : ConnOK(m)'
  <2> SUFFICES ASSUME NEW m \in Conn, m # conn[c] PROVE ConnOK(m)'
    OBVIOUS
  <2>1. \A d \in Caller : conn[d] = m => conn'[d] = m /\ pc'[d] = pc[d] /\ call'[d] = call[d]
    BY DEF QuietCalls
  <2> QED  BY <2>1, ConnKept
<1> QED  BY <1>1, <1>2, <1>3 DEF LeaseInv

\* What there is to show of an event on connection n.
LEMMA ServerSteps ==
    ASSUME LeaseInv, NEW n \in Conn, Quiet(n),
           UNCHANGED <<pc, call, conn, why, fn, layer, reserved>>,
           LeaseTypeOK',
           \A s \in Slot : SlotOK(s)',
           \A l \in heldLeases : l.conn = n => LeaseOK(l)',
           ConnOK(n)',
           \A c \in Caller : conn[c] = n => Granting(c)' /\ Lapsing(c)'
    PROVE  LeaseInv'
<1> USE LeaseConstants
<1>1. Owned' /\ Handles' /\ OneToken'
  BY DEF LeaseInv, Owned, Handles, OneToken, layer
<1>2. \A d \in Caller : Placed(d)'
  BY DEF LeaseInv, Placed
<1>3. \A d \in Caller : Granting(d)' /\ Lapsing(d)'
  BY CallKept
<1>4. \A l \in heldLeases' : LeaseOK(l)'
  BY LeaseKept DEF layer
<1>5. \A m \in Conn : ConnOK(m)'
  BY ConnKept
<1> QED  BY <1>1, <1>2, <1>3, <1>4, <1>5 DEF LeaseInv

\* A step of call c that changes its own variables only, or what is SET on its session.
LEMMA CallMoves ==
    ASSUME LeaseInv, NEW c \in Caller, QuietCalls(c), CallsType', pc[c] # "txfn",
           session' \in [Conn -> Limit], cancels' \subseteq Conn,
           UNCHANGED <<alive, lockOf, depth, waiting, reply, reserved, layer, conn, lapsed>>,
           pc[c] = "unlock" /\ conn[c] \in Conn => waiting[conn[c]] = NoSlot,
           pc[c] # "wait",
           Placed(c)', Granting(c)', Lapsing(c)'
    PROVE  LeaseInv'
<1> USE LeaseConstants DEF layer
<1>1. LeaseTypeOK'
  BY DEF LeaseInv, LeaseTypeOK, ServerType, LayerType
<1>2. Owned' /\ OneToken'
  BY DEF LeaseInv, Owned, OneToken
<1>3. Handles'
  BY DEF LeaseInv, LeaseTypeOK, LayerType, Handles, QuietCalls
<1>4. \A s \in Slot : SlotOK(s)'
  BY DEF LeaseInv, SlotOK
<1>5. \A n \in Conn : n = conn[c] => ConnOK(n)'
  <2> SUFFICES ASSUME NEW n \in Conn, n = conn[c] PROVE ConnOK(n)'
    OBVIOUS
  <2>1. ConnOK(n) /\ \A d \in Caller : conn[d] = n => d = c
    BY DEF LeaseInv, Owned
  <2>2. waiting[n] = NoSlot /\ reply[n] = "none"
    BY <2>1 DEF ConnOK
  <2> QED  BY <2>1, <2>2 DEF ConnOK
<1>6. Quiet(conn[c])
  BY TokensKept DEF LeaseInv, LeaseTypeOK, Quiet, QuietSessions, QuietLapses
<1> QED  BY <1>1, <1>2, <1>3, <1>4, <1>5, <1>6, CallSteps

\* The entry of a call, with or without an aborted signal.
LEMMA CallBeginStep ==
    ASSUME LeaseInv, NEW c \in Caller, NEW a \in Calls, CallBegin(c, a)
    PROVE  LeaseInv'
<1> USE LeaseConstants DEF CallBegin, server, pool, layer
<1>1. CallsType /\ LayerType /\ Placed(c) /\ Lapsing(c)
  BY DEF LeaseInv, LeaseTypeOK
<1>2. /\ call'[c] = [op |-> a.op, slot |-> Hash[a.key], limit |-> a.limit, signal |-> a.signal,
                     callback |-> a.callback, token |-> 0]
      /\ call'[c] \in CallRecord /\ call'[c].slot \in Slot /\ call'[c].token = 0
  BY <1>1 DEF CallsType, CallRecord, CallType
<1>3. CallsType' /\ pc'[c] = "reserve" /\ QuietCalls(c)
  BY <1>1, <1>2 DEF CallsType, Goto, Labels, NoOutcome, OutcomeRecord, QuietCalls
<1>4. Placed(c)' /\ Granting(c)'
  BY <1>1, <1>2, <1>3 DEF Placed, Granting
<1>5. Lapsing(c)'
  BY <1>1, <1>2, <1>3, NoZeroToken DEF Lapsing
<1> QED
  BY <1>1, <1>3, <1>4, <1>5, CallMoves DEF LeaseInv, LeaseTypeOK, ServerType

\* A call whose signal was aborted before changes its outcome only.
LEMMA CallRejectedStep ==
    ASSUME LeaseInv, NEW c \in Caller, NEW a \in Calls, CallRejected(c, a)
    PROVE  LeaseInv'
<1> USE LeaseConstants DEF CallRejected, server, pool, layer
<1>1. CallsType /\ Placed(c) /\ Granting(c) /\ Lapsing(c)
  BY DEF LeaseInv, LeaseTypeOK
<1>2. CallsType' /\ QuietCalls(c)
  BY <1>1 DEF CallsType, Rejects, Errors, OutcomeRecord, QuietCalls
<1>3. Placed(c)' /\ Granting(c)' /\ Lapsing(c)'
  BY <1>1 DEF Placed, Granting, Lapsing, OwnLease, LeaseDead
<1> QED
  BY <1>1, <1>2, <1>3, CallMoves DEF LeaseInv, LeaseTypeOK, ServerType

\* sql.reserve() resolves: the connection was in no one's hands, and no statement of
\* an earlier owner runs on it.
LEMMA ReserveStep ==
    ASSUME SameTickAbort = FALSE, LeaseInv, NEW c \in Caller, NEW n \in Conn, Reserve(c, n)
    PROVE  LeaseInv'
<1>0. reserved' = reserved \cup {n}
  BY DEF Reserve, FiresBetween
<1> USE LeaseConstants DEF Reserve, layer
<1>1. CallsType /\ LayerType /\ ServerType /\ Owned /\ Placed(c) /\ Lapsing(c) /\ ConnOK(n)
  BY DEF LeaseInv, LeaseTypeOK
<1>2. conn[c] = NoConn /\ pc[c] = "reserve" /\ call[c].slot \in Slot
  BY <1>1 DEF Placed
<1>3. pc'[c] \in {"txopen", "set", "try", "lock"}
  BY <1>1 DEF AfterReserve, Goto, CallsType
<1>4. conn'[c] = n /\ CallsType' /\ QuietCalls(c)
  BY <1>1, <1>3 DEF CallsType, Goto, Labels, QuietCalls
<1>5. (\A d \in Caller : conn[d] # n) /\ (\A l \in heldLeases : l.conn # n)
  BY <1>1 DEF Owned
<1>6. Owned'
  BY <1>0, <1>1, <1>2, <1>4, OwnedReserved DEF ServerType, QuietCalls
<1>7. LeaseTypeOK'
  BY <1>0, <1>1, <1>4 DEF LeaseTypeOK, ServerType, LayerType
<1>8. Handles' /\ OneToken'
  <2>1. Handles /\ OneToken
    BY DEF LeaseInv
  <2>2. Handles'
    BY <1>1, <1>2, <1>4, <2>1 DEF Handles, QuietCalls, LayerType
  <2> QED  BY <2>1, <2>2 DEF OneToken
<1>9. \A s \in Slot : SlotOK(s)'
  BY DEF LeaseInv, SlotOK
<1>10. Quiet(conn[c])
  BY <1>1, TokensKept DEF Quiet, QuietSessions, QuietLapses
<1>11. Placed(c)' /\ Granting(c)'
  BY <1>1, <1>2, <1>3, <1>4 DEF Placed, Granting
<1>12. Lapsing(c)'
  BY <1>1, <1>2, <1>3 DEF Lapsing
<1> QED
  BY <1>2, <1>4, <1>6, <1>7, <1>8, <1>9, <1>10, <1>11, <1>12, CallSteps

\* A call that waits in the driver's queue rejects or gives up.
LEMMA SettleStep ==
    ASSUME LeaseInv, NEW c \in Caller, NEW o \in OutcomeRecord,
           pc[c] = "reserve", Settle(c, o), UNCHANGED <<server, reserved, layer>>
    PROVE  LeaseInv'
<1> USE LeaseConstants DEF Settle, server, layer
<1>1. CallsType /\ LayerType /\ ServerType /\ Owned /\ Placed(c) /\ Lapsing(c)
  BY DEF LeaseInv, LeaseTypeOK
<1>2. NoCall \in CallRecord /\ NoCall.token = 0
  BY EmptyRecords
<1>3. pc'[c] = "idle" /\ conn'[c] = NoConn /\ fn'[c] = "none" /\ call'[c] = NoCall
  BY <1>1 DEF CallsType, Goto
<1>4. CallsType' /\ QuietCalls(c)
  BY <1>1, <1>2 DEF CallsType, Goto, Labels, QuietCalls
<1>5. conn' = conn
  BY <1>1 DEF CallsType, Placed
<1>6. lapsed' = lapsed
  BY <1>1 DEF Lapsing
<1>7. Placed(c)' /\ Granting(c)'
  BY <1>3 DEF Placed, Granting
<1>8. Lapsing(c)'
  BY <1>1, <1>2, <1>3, <1>6, NoZeroToken DEF Lapsing
<1> QED
  BY <1>1, <1>4, <1>5, <1>6, <1>7, <1>8, CallMoves DEF ServerType

\* A connection reconnected while it is in the pool is no one's.
LEMMA OrphanStep ==
    ASSUME LeaseInv, NEW n \in Conn, OrphanReserved(n)
    PROVE  LeaseInv'
<1> USE LeaseConstants DEF OrphanReserved, layer, calls
<1>1. LayerType /\ ServerType /\ Owned /\ ConnOK(n)
  BY DEF LeaseInv, LeaseTypeOK
<1>2. (\A c \in Caller : conn[c] # n) /\ (\A l \in heldLeases : l.conn # n)
  BY <1>1 DEF Owned
<1>3. LeaseTypeOK'
  BY DEF LeaseInv, LeaseTypeOK, ServerType, CallsType, LayerType
<1>4. \A s \in Slot : SlotOK(s)'
  BY DEF LeaseInv, SlotOK
<1>5. ConnOK(n)'
  BY <1>1, <1>2 DEF ConnOK
<1>6. Quiet(n)
  BY <1>1, TokensKept DEF Quiet, QuietSessions, QuietLapses
<1> QED
  BY <1>2, <1>3, <1>4, <1>5, <1>6, ServerSteps

\* SET statement_timeout on the call's own session.
LEMMA SetTimeoutStep ==
    ASSUME LeaseInv, NEW c \in Caller, SetTimeout(c)
    PROVE  LeaseInv'
<1> USE LeaseConstants DEF SetTimeout, pool
<1>1. CallsType /\ ServerType /\ Placed(c) /\ Lapsing(c)
  BY DEF LeaseInv, LeaseTypeOK
<1>2. pc'[c] \in {"unlock", "lock"} /\ CallsType' /\ QuietCalls(c)
  BY <1>1 DEF Throw, Goto, CallsType, Labels, Errors, QuietCalls
<1>3. session' \in [Conn -> Limit]
  BY <1>1 DEF ServerType, CallsType, CallRecord
<1>4. Placed(c)' /\ Granting(c)'
  BY <1>1, <1>2 DEF Placed, Granting
<1>5. Lapsing(c)'
  BY <1>1, <1>2 DEF Lapsing, layer
<1> QED
  BY <1>1, <1>2, <1>3, <1>4, <1>5, CallMoves DEF ServerType

\* The lock statement is sent on a live session, whose last answer has been read.
LEMMA SendLockStep ==
    ASSUME LeaseInv, NEW c \in Caller, SendLock(c)
    PROVE  LeaseInv'
<1> USE LeaseConstants DEF SendLock, pool
<1>1. CallsType /\ ServerType /\ LayerType /\ Owned /\ Placed(c) /\ Lapsing(c) /\ pc[c] = "lock"
  BY DEF LeaseInv, LeaseTypeOK
<1>2. conn[c] \in Conn /\ call[c].slot \in Slot /\ ConnOK(conn[c])
  BY <1>1 DEF LeaseInv, Placed
<1>3. CallsType' /\ QuietCalls(c)
  BY <1>1 DEF Throw, Goto, CallsType, Labels, Errors, QuietCalls
<1>4. CASE UNCHANGED waiting /\ pc'[c] = "unlock"
  <2>1. Placed(c)' /\ Granting(c)'
    BY <1>1, <1>4 DEF Placed, Granting
  <2>2. Lapsing(c)'
    BY <1>1, <1>4 DEF Lapsing, layer
  <2> QED
    BY <1>1, <1>3, <1>4, <2>1, <2>2, CallMoves DEF ServerType
<1>5. CASE /\ conn[c] \in alive /\ waiting' = [waiting EXCEPT ![conn[c]] = call[c].slot]
           /\ pc'[c] = "wait"
  <2>1. LeaseTypeOK'
    BY <1>1, <1>2, <1>3, <1>5 DEF LeaseTypeOK, ServerType, LayerType, layer
  <2>2. Owned' /\ OneToken'
    BY DEF LeaseInv, Owned, OneToken, layer
  <2>2a. Handles'
    BY <1>1, <1>3 DEF LeaseInv, Handles, LayerType, QuietCalls, layer
  <2>3. \A s \in Slot : SlotOK(s)'
    BY DEF LeaseInv, SlotOK
  <2>4. \A m \in Conn : waiting'[m] = IF m = conn[c] THEN call[c].slot ELSE waiting[m]
    BY <1>1, <1>5 DEF ServerType
  <2>5. Quiet(conn[c])
    BY <1>1, <2>4, TokensKept DEF Quiet, QuietSessions, QuietLapses, layer
  <2>6. reply[conn[c]] = "none"
    BY <1>1, <1>2, OwnStatement
  <2>7. \A n \in Conn : n = conn[c] => ConnOK(n)'
    BY <1>1, <1>2, <1>5, <2>4, <2>6 DEF ConnOK
  <2>8. Placed(c)' /\ Granting(c)'
    BY <1>1, <1>2, <1>5, <2>4, <2>6 DEF Placed, Granting
  <2>9. Lapsing(c)'
    BY <1>1, <1>5 DEF Lapsing, layer
  <2> QED
    BY <1>3, <2>1, <2>2, <2>2a, <2>3, <2>5, <2>7, <2>8, <2>9, CallSteps DEF layer
<1> QED
  BY <1>1, <1>4, <1>5 DEF CallsType, Throw, Goto, Dead

\* What it is for session n to be given lock s: only calls whose lease is gone or
\* dead lose it, and no other session's lock changes.
LEMMA LockGiven ==
    ASSUME LeaseInv, NEW n \in Conn, n \in alive, NEW s \in Slot, Available(s, n), LockBy(s, n)
    PROVE  /\ lockOf' \in [Slot -> Conn \cup {NoConn}] /\ depth' \in [Slot -> Nat]
           /\ lockOf'[s] = n
           /\ \A t \in Slot : lockOf[t] # NoConn => lockOf'[t] = lockOf[t]
           /\ \A t \in Slot : /\ lockOf'[t] = NoConn <=> depth'[t] = 0
                              /\ lockOf'[t] # NoConn => lockOf'[t] \in alive
           /\ lapsed' \subseteq Caller /\ QuietLapses
<1> USE LeaseConstants
<1>1. ServerType /\ CallsType
  BY DEF LeaseInv, LeaseTypeOK
<1>2. \A t \in Slot : lockOf'[t] = IF t = s THEN n ELSE lockOf[t]
  BY <1>1 DEF ServerType, LockBy
<1>3. \A t \in Slot : depth'[t] = IF t = s THEN depth[s] + 1 ELSE depth[t]
  BY <1>1 DEF ServerType, LockBy
<1>4. lockOf' \in [Slot -> Conn \cup {NoConn}] /\ depth' \in [Slot -> Nat]
  BY <1>1, Counts DEF ServerType, LockBy
<1>5. \A t \in Slot : lockOf[t] # NoConn => lockOf'[t] = lockOf[t]
  BY <1>2 DEF Available
<1>6. \A t \in Slot : /\ lockOf'[t] = NoConn <=> depth'[t] = 0
                      /\ lockOf'[t] # NoConn => lockOf'[t] \in alive
  BY <1>1, <1>2, <1>3, Counts DEF LeaseInv, SlotOK, ServerType
<1>7. ASSUME NEW d \in Losing(s, n) PROVE d \in Caller /\ pc[d] = "fn" /\ LeaseDead(d)
  <2>1. /\ d \in Caller /\ pc[d] = "fn" /\ call[d].slot = s /\ lockOf[s] = NoConn
    BY <1>7 DEF Losing, Available
  <2>2. OwnLease(d)
    BY <2>1 DEF LeaseInv, Lapsing
  <2>3. ASSUME NEW l \in heldLeases, l.token = call[d].token PROVE l.conn \notin alive
    <3>1. l.slot = s /\ l.conn \in Conn /\ LeaseOK(l)
      BY <2>1, <2>2, <2>3 DEF OwnLease, LeaseInv, LeaseTypeOK, LayerType, LeaseRecord
    <3> QED  BY <2>1, <3>1 DEF LeaseOK
  <2> QED  BY <2>1, <2>3 DEF LeaseDead
<1>8. lapsed' \subseteq Caller /\ QuietLapses
  BY <1>1, <1>7 DEF LockBy, QuietLapses, CallsType
<1> QED  BY <1>2, <1>4, <1>5, <1>6, <1>8

\* pg_try_advisory_lock.
LEMMA TryLockStep ==
    ASSUME LeaseInv, NEW c \in Caller, TryLock(c)
    PROVE  LeaseInv'
<1> USE LeaseConstants DEF TryLock, pool
<1>1. CallsType /\ ServerType /\ LayerType /\ Owned /\ Placed(c) /\ Lapsing(c) /\ pc[c] = "try"
  BY DEF LeaseInv, LeaseTypeOK
<1>2. conn[c] \in Conn /\ call[c].slot \in Slot /\ ConnOK(conn[c])
  BY <1>1 DEF LeaseInv, Placed
<1>3. QuietCalls(c)
  BY <1>1 DEF Throw, Goto, CallsType, QuietCalls
<1>4. CASE UNCHANGED <<lockOf, depth, lapsed>> /\ pc'[c] \in {"unlock", "release"}
  <2>1. CallsType'
    <3>1. {"unlock", "release"} \subseteq Labels /\ "connection-lost" \in Errors
          /\ lapsed' \subseteq Caller
      BY <1>1, <1>4 DEF Labels, Errors, CallsType
    <3>2. \E label \in {"unlock", "release"} :
            Goto(c, label) /\ (why' = why \/ why' = [why EXCEPT ![c] = "connection-lost"])
      BY <1>1, <1>4 DEF Throw, Goto, CallsType
    <3> QED  BY <1>1, <3>1, <3>2, Goes
  <2>2. Placed(c)' /\ Granting(c)'
    BY <1>1, <1>2, <1>4 DEF Placed, Granting
  <2>3. Lapsing(c)'
    BY <1>1, <1>4 DEF Lapsing, layer
  <2> QED
    BY <1>1, <1>3, <1>4, <2>1, <2>2, <2>3, CallMoves DEF ServerType
<1>5. CASE /\ conn[c] \in alive /\ Available(call[c].slot, conn[c])
           /\ LockBy(call[c].slot, conn[c]) /\ pc'[c] = "granted" /\ UNCHANGED why
  <2>1. /\ lockOf' \in [Slot -> Conn \cup {NoConn}] /\ depth' \in [Slot -> Nat]
        /\ lockOf'[call[c].slot] = conn[c]
        /\ \A t \in Slot : lockOf[t] # NoConn => lockOf'[t] = lockOf[t]
        /\ \A t \in Slot : /\ lockOf'[t] = NoConn <=> depth'[t] = 0
                           /\ lockOf'[t] # NoConn => lockOf'[t] \in alive
        /\ lapsed' \subseteq Caller /\ QuietLapses
    BY <1>2, <1>5, LockGiven
  <2>2. CallsType'
    <3>1. pc' \in [Caller -> Labels]
      BY <1>1, <1>5 DEF TryLock, Throw, Goto, CallsType, Labels
    <3> QED  BY <1>1, <1>5, <2>1, <3>1 DEF CallsType
  <2>3. LeaseTypeOK'
    BY <1>1, <2>1, <2>2 DEF LeaseTypeOK, ServerType, LayerType, layer
  <2>4. Owned' /\ OneToken'
    BY DEF LeaseInv, Owned, OneToken, layer
  <2>4a. Handles'
    BY <1>1, <1>3 DEF LeaseInv, Handles, LayerType, QuietCalls, layer
  <2>5. \A s \in Slot : SlotOK(s)'
    BY <2>1 DEF SlotOK
  <2>6. Quiet(conn[c])
    BY <1>1, <2>1, TokensKept DEF Quiet, QuietSessions, layer
  <2>7. waiting[conn[c]] = NoSlot /\ reply[conn[c]] = "none"
    BY <1>1, <1>2, OwnStatement
  <2>8. \A n \in Conn : n = conn[c] => ConnOK(n)'
    BY <2>7 DEF ConnOK
  <2>9. Placed(c)' /\ Granting(c)'
    BY <1>1, <1>2, <1>5, <2>1 DEF Placed, Granting
  <2>10. c \notin lapsed'
    BY <1>1, <2>1 DEF QuietLapses, Lapsing
  <2>11. Lapsing(c)'
    BY <1>1, <1>5, <2>10 DEF Lapsing, layer
  <2> QED
    BY <1>3, <2>3, <2>4, <2>4a, <2>5, <2>6, <2>8, <2>9, <2>11, CallSteps DEF layer
<1> QED
  BY <1>1, <1>4, <1>5 DEF CallsType, Throw, Goto, Dead

\* How a lock statement ends.
LEMMA Answered ==
    ASSUME LeaseInv, NEW n \in Conn, NEW r \in Reply, Answer(n, r)
    PROVE  /\ waiting' \in [Conn -> Slot \cup {NoSlot}] /\ reply' \in [Conn -> Reply]
           /\ waiting'[n] = NoSlot
           /\ reply'[n] \in {r, "none"}
           /\ reply'[n] # "none" => \E c \in Caller : conn[c] = n /\ pc[c] = "wait"
           /\ \A m \in Conn : m # n => waiting'[m] = waiting[m] /\ reply'[m] = reply[m]
<1>1. ServerType /\ "none" \in Reply
  BY DEF LeaseInv, LeaseTypeOK, Reply
<1> QED  BY <1>1 DEF Answer, ServerType

\* Grant: the statement on n was waiting for the lock its owner asked for.
LEMMA GrantStep ==
    ASSUME LeaseInv, NEW n \in Conn, Grant(n)
    PROVE  LeaseInv'
<1> USE LeaseConstants DEF pool, layer
<1>1. CallsType /\ ServerType /\ LayerType /\ Owned /\ ConnOK(n)
  BY DEF LeaseInv, LeaseTypeOK
<1>2. "granted" \in Reply /\ waiting[n] # NoSlot /\ waiting[n] \in Slot /\ n \in alive
  BY <1>1 DEF Grant, Answer, ConnOK, ServerType, Reply
<1>3. /\ waiting' \in [Conn -> Slot \cup {NoSlot}] /\ reply' \in [Conn -> Reply]
      /\ waiting'[n] = NoSlot
      /\ reply'[n] # "none" => \E c \in Caller : conn[c] = n /\ pc[c] = "wait"
      /\ \A m \in Conn : m # n => waiting'[m] = waiting[m] /\ reply'[m] = reply[m]
  BY <1>2, Answered DEF Grant
<1>4. /\ lockOf' \in [Slot -> Conn \cup {NoConn}] /\ depth' \in [Slot -> Nat]
      /\ lockOf'[waiting[n]] = n
      /\ \A t \in Slot : lockOf[t] # NoConn => lockOf'[t] = lockOf[t]
      /\ \A t \in Slot : /\ lockOf'[t] = NoConn <=> depth'[t] = 0
                         /\ lockOf'[t] # NoConn => lockOf'[t] \in alive
      /\ lapsed' \subseteq Caller /\ QuietLapses
  BY <1>2, LockGiven DEF Grant
<1>5. UNCHANGED <<alive, cancels, session, layer, reserved, pc, call, conn, why, fn, out>>
  BY DEF Grant
<1>6. LeaseTypeOK'
  BY <1>1, <1>3, <1>4, <1>5 DEF LeaseTypeOK, ServerType, LayerType, CallsType
<1>7. \A s \in Slot : SlotOK(s)'
  BY <1>4, <1>5 DEF SlotOK
<1>8. Quiet(n)
  BY <1>1, <1>3, <1>4, <1>5, TokensKept DEF Quiet, QuietSessions
<1>9. ConnOK(n)'
  BY <1>3, <1>5 DEF ConnOK
<1>10. \A l \in heldLeases : l.conn # n
  BY <1>1, <1>2, OwnStatement DEF ConnOK
<1>11. ASSUME NEW c \in Caller, conn[c] = n PROVE Granting(c)' /\ Lapsing(c)'
  <2>1. Placed(c) /\ Granting(c) /\ Lapsing(c)
    BY DEF LeaseInv
  <2>2. pc[c] \in {"wait", "unlock"} /\ waiting[n] = call[c].slot
    BY <1>1, <1>2, <1>11, OwnStatement
  <2>4. Granting(c)'
    BY <1>3, <1>4, <1>5, <1>11, <2>2 DEF Granting
  <2>5. c \in lapsed' => c \in lapsed
    BY <1>4, <2>2 DEF QuietLapses
  <2> QED  BY <1>5, <2>1, <2>2, <2>4, <2>5 DEF Lapsing
<1> QED
  BY <1>5, <1>6, <1>7, <1>8, <1>9, <1>10, <1>11, ServerSteps

\* A lock statement ends without the lock, or was not there.
LEMMA StatementEnds ==
    ASSUME LeaseInv, NEW n \in Conn, NEW r \in Reply, r # "granted",
           Answer(n, r) \/ UNCHANGED <<waiting, reply>>, cancels' \subseteq Conn,
           UNCHANGED <<alive, lockOf, depth, session, reserved, layer, calls>>
    PROVE  LeaseInv'
<1> USE LeaseConstants DEF layer, calls
<1>1. CallsType /\ ServerType /\ LayerType /\ ConnOK(n)
  BY DEF LeaseInv, LeaseTypeOK
<1>2. CASE UNCHANGED <<waiting, reply>>
  <2>1. LeaseTypeOK'
    BY <1>1, <1>2 DEF LeaseTypeOK, ServerType, LayerType, CallsType
  <2>2. ConnOK(n)'
    BY <1>1, <1>2 DEF ConnOK
  <2>3. (\A s \in Slot : SlotOK(s)') /\ (\A l \in heldLeases : LeaseOK(l)')
    BY DEF LeaseInv, SlotOK, LeaseOK
  <2>4. Quiet(n)
    BY <1>1, <1>2, TokensKept DEF Quiet, QuietSessions, QuietLapses
  <2>5. ASSUME NEW c \in Caller PROVE Granting(c)' /\ Lapsing(c)'
    <3>1. Granting(c)'
      BY <1>2 DEF LeaseInv, Granting, OwnLease, LeaseDead
    <3>2. Lapsing(c)'
      BY <1>2 DEF LeaseInv, Lapsing, OwnLease, LeaseDead
    <3> QED  BY <3>1, <3>2
  <2> QED  BY <2>1, <2>2, <2>3, <2>4, <2>5, ServerSteps
<1>3. CASE Answer(n, r)
  <2>1. /\ waiting' \in [Conn -> Slot \cup {NoSlot}] /\ reply' \in [Conn -> Reply]
        /\ waiting'[n] = NoSlot /\ reply'[n] # "granted"
        /\ reply'[n] # "none" => \E c \in Caller : conn[c] = n /\ pc[c] = "wait"
        /\ \A m \in Conn : m # n => waiting'[m] = waiting[m] /\ reply'[m] = reply[m]
    <3>1. reply'[n] \in {r, "none"}
      BY <1>3, Answered
    <3> QED  BY <1>3, <3>1, Answered
  <2>2. LeaseTypeOK'
    BY <1>1, <2>1 DEF LeaseTypeOK, ServerType, LayerType, CallsType
  <2>3. ConnOK(n)'
    BY <2>1 DEF ConnOK
  <2>4. (\A s \in Slot : SlotOK(s)') /\ (\A l \in heldLeases : LeaseOK(l)')
    BY DEF LeaseInv, SlotOK, LeaseOK
  <2>5. Quiet(n)
    BY <1>1, <2>1, TokensKept DEF Quiet, QuietSessions, QuietLapses
  <2>6. ASSUME NEW c \in Caller, conn[c] = n PROVE Granting(c)' /\ Lapsing(c)'
    BY <2>1, <2>6 DEF LeaseInv, Granting, Lapsing, OwnLease, LeaseDead
  <2> QED  BY <2>2, <2>3, <2>4, <2>5, <2>6, ServerSteps
<1> QED  BY <1>2, <1>3

\* The server's timeout, or a cancel request, ends it.
LEMMA ServerTimeoutStep ==
    ASSUME LeaseInv, NEW n \in Conn, ServerTimeout(n)
    PROVE  LeaseInv'
<1>1. \E r \in {"57014", "55P03"} : Answer(n, r)
  BY DEF ServerTimeout
<1>2. cancels' \subseteq Conn /\ {"57014", "55P03"} \subseteq Reply
  BY DEF LeaseInv, LeaseTypeOK, ServerType, ServerTimeout, Reply
<1> QED
  BY <1>1, <1>2, StatementEnds DEF ServerTimeout, pool

\* A cancel request ends the statement it meets, if any.
LEMMA CancelArrivesStep ==
    ASSUME LeaseInv, NEW n \in Conn, CancelArrives(n)
    PROVE  LeaseInv'
<1>1. cancels' \subseteq Conn /\ "57014" \in Reply
  BY DEF LeaseInv, LeaseTypeOK, ServerType, CancelArrives, Reply
<1> QED
  BY <1>1, StatementEnds DEF CancelArrives, pool

\* A backend dies: its locks are free, and its statement has ended.
LEMMA BackendDiesStep ==
    ASSUME LeaseInv, NEW n \in Conn, BackendDies(n)
    PROVE  LeaseInv'
<1> USE LeaseConstants DEF layer, pool, calls
<1>1. CallsType /\ ServerType /\ LayerType /\ ConnOK(n)
  BY DEF LeaseInv, LeaseTypeOK
<1>2. /\ waiting' \in [Conn -> Slot \cup {NoSlot}] /\ reply' \in [Conn -> Reply]
      /\ waiting'[n] = NoSlot
      /\ reply'[n] # "none" => \E c \in Caller : conn[c] = n /\ pc[c] = "wait"
      /\ \A m \in Conn : m # n => waiting'[m] = waiting[m] /\ reply'[m] = reply[m]
  <2>1. "lost" \in Reply
    BY DEF Reply
  <2>2. CASE Answer(n, "lost")
    BY <2>1, <2>2, Answered
  <2>3. CASE waiting[n] = NoSlot /\ UNCHANGED <<waiting, reply>>
    BY <1>1, <2>3 DEF ServerType, ConnOK
  <2> QED  BY <2>2, <2>3 DEF BackendDies
<1>3. /\ alive' = alive \ {n} /\ cancels' \subseteq Conn
      /\ \A s \in Slot : lockOf'[s] = IF lockOf[s] = n THEN NoConn ELSE lockOf[s]
      /\ \A s \in Slot : depth'[s] = IF lockOf[s] = n THEN 0 ELSE depth[s]
  BY <1>1 DEF BackendDies, ServerType
<1>4. UNCHANGED <<layer, reserved, pc, call, conn, why, fn, out, lapsed>>
  BY DEF BackendDies
<1>5. ServerType'
  <2>1. lockOf' \in [Slot -> Conn \cup {NoConn}]
    BY <1>1 DEF BackendDies, ServerType
  <2>2. depth' \in [Slot -> Nat]
    BY <1>1, Counts DEF BackendDies, ServerType
  <2>3. session' \in [Conn -> Limit]
    BY <1>1 DEF BackendDies, ServerType, Limit
  <2> QED  BY <1>1, <1>2, <1>3, <1>4, <2>1, <2>2, <2>3 DEF ServerType
<1>6. LeaseTypeOK'
  BY <1>1, <1>4, <1>5 DEF LeaseTypeOK, LayerType, CallsType
<1>7. \A s \in Slot : SlotOK(s)'
  BY <1>3 DEF LeaseInv, SlotOK
<1>8. Quiet(n)
  BY <1>1, <1>2, <1>3, <1>4, TokensKept DEF Quiet, QuietSessions, QuietLapses
<1>9. ConnOK(n)'
  BY <1>2, <1>4 DEF ConnOK
<1>10. \A l \in heldLeases : l.conn = n => LeaseOK(l)'
  BY <1>3, <1>4 DEF LeaseInv, LeaseOK
<1>11. ASSUME NEW c \in Caller, conn[c] = n PROVE Granting(c)' /\ Lapsing(c)'
  BY <1>2, <1>3, <1>4, <1>11 DEF LeaseInv, Granting, Lapsing, OwnLease, LeaseDead
<1> QED
  BY <1>4, <1>6, <1>7, <1>8, <1>9, <1>10, <1>11, ServerSteps

\* The answer is taken off the wire, or no one listens any more: the call leaves "wait".
LEMMA ReplyTaken ==
    ASSUME LeaseInv, NEW c \in Caller, pc[c] = "wait", QuietCalls(c), CallsType',
           reply' = [reply EXCEPT ![conn[c]] = "none"], cancels' \subseteq Conn,
           UNCHANGED <<alive, lockOf, depth, session, waiting, reserved, layer>>,
           UNCHANGED <<call, conn, fn, lapsed>>,
           \/ pc'[c] = "unlock"
           \/ pc'[c] = "granted" /\ reply[conn[c]] = "granted"
    PROVE  LeaseInv'
<1> USE LeaseConstants DEF layer
<1>1. CallsType /\ ServerType /\ LayerType /\ Owned /\ Placed(c) /\ Granting(c) /\ Lapsing(c)
  BY DEF LeaseInv, LeaseTypeOK
<1>2. conn[c] \in Conn /\ ConnOK(conn[c]) /\ call[c].slot \in Slot
  BY <1>1 DEF LeaseInv, Placed
<1>3. /\ reply' \in [Conn -> Reply] /\ reply'[conn[c]] = "none"
      /\ \A m \in Conn : m # conn[c] => reply'[m] = reply[m]
  BY <1>1, <1>2 DEF ServerType, Reply
<1>4. LeaseTypeOK'
  BY <1>1, <1>3 DEF LeaseTypeOK, ServerType, LayerType
<1>5. Owned' /\ OneToken'
  <2>1. Owned'
    BY <1>1 DEF Owned
  <2>2. OneToken'
    BY DEF LeaseInv, OneToken
  <2> QED  BY <2>1, <2>2
<1>6. Handles'
  BY <1>1 DEF LeaseInv, Handles, LayerType, QuietCalls
<1>7. \A s \in Slot : SlotOK(s)'
  BY DEF LeaseInv, SlotOK
<1>8. Quiet(conn[c])
  BY <1>1, <1>3, TokensKept DEF Quiet, QuietSessions, QuietLapses
<1>9. \A n \in Conn : n = conn[c] => ConnOK(n)'
  <2>1. waiting[conn[c]] # NoSlot => call[c].slot = waiting[conn[c]] /\ reply[conn[c]] = "none"
    BY <1>1, <1>2, OwnStatement
  <2> QED  BY <1>2, <1>3, <2>1 DEF ConnOK
<1>10. Placed(c)' /\ Granting(c)'
  BY <1>1, <1>2 DEF Placed, Granting
<1>11. Lapsing(c)'
  BY <1>1 DEF Lapsing
<1> QED
  BY <1>4, <1>5, <1>6, <1>7, <1>8, <1>9, <1>10, <1>11, CallSteps

\* The call reads the answer to its lock statement.
LEMMA ReadReplyStep ==
    ASSUME LeaseInv, NEW c \in Caller, ReadReply(c)
    PROVE  LeaseInv'
<1> USE DEF ReadReply, pool, layer
<1>1. CallsType /\ cancels \subseteq Conn
  BY DEF LeaseInv, LeaseTypeOK, ServerType
<1>2. LockError(c, reply[conn[c]]) \in Errors \cup {"ok"}
  BY DEF LockError, Errors
<1>3. CallsType' /\ QuietCalls(c)
  <2>1. {"unlock", "granted"} \subseteq Labels /\ lapsed' \subseteq Caller
    BY <1>1 DEF Labels, CallsType
  <2> QED  BY <1>1, <1>2, <2>1, Goes DEF Throw
<1>4. \/ pc'[c] = "unlock"
      \/ pc'[c] = "granted" /\ reply[conn[c]] = "granted"
  BY <1>1 DEF Throw, Goto, CallsType
<1> QED
  BY <1>1, <1>3, <1>4, ReplyTaken

\* The signal fires: while the call waits, or where only a later check sees it.
LEMMA AbortStep ==
    ASSUME LeaseInv, NEW c \in Caller, Abort(c)
    PROVE  LeaseInv'
<1> USE DEF pool, layer, server
<1>1. CallsType /\ ServerType /\ Placed(c) /\ Granting(c) /\ Lapsing(c)
  BY DEF LeaseInv, LeaseTypeOK
<1>2. CASE GiveUp(c, Rejects("AbortError"))
  <2>1. Rejects("AbortError") \in OutcomeRecord
    BY DEF Rejects, OutcomeRecord, Errors
  <2> QED  BY <1>2, <2>1, SettleStep DEF GiveUp
<1>3. CASE /\ pc[c] = "wait"
           /\ cancels' = IF Dead(c) THEN cancels ELSE cancels \cup {conn[c]}
           /\ reply' = [reply EXCEPT ![conn[c]] = "none"]
           /\ Throw(c, "AbortError")
           /\ UNCHANGED <<alive, lockOf, depth, session, waiting, pool, layer,
                          call, conn, fn, out, lapsed, deaths>>
  <2>1. CallsType' /\ QuietCalls(c) /\ pc'[c] = "unlock"
    BY <1>1, <1>3 DEF Throw, Goto, CallsType, Labels, Errors, QuietCalls
  <2>2. cancels' \subseteq Conn
    BY <1>1, <1>3 DEF ServerType, Placed
  <2> QED  BY <1>3, <2>1, <2>2, ReplyTaken
<1>4. CASE /\ pc[c] \in {"set", "lock", "try", "granted"}
           /\ UNCHANGED <<server, pool, layer, pc, call, conn, why, fn, out, lapsed, deaths>>
  <2>1. CallsType' /\ QuietCalls(c)
    BY <1>1, <1>4 DEF CallsType, QuietCalls
  <2>2. Placed(c)' /\ Granting(c)' /\ Lapsing(c)'
    BY <1>1, <1>4 DEF Placed, Granting, Lapsing, OwnLease, LeaseDead
  <2> QED  BY <1>1, <1>4, <2>1, <2>2, CallMoves DEF ServerType
<1> QED  BY <1>2, <1>3, <1>4 DEF Abort

\* A lease goes on record: its connection passes from the call to the lease.
LEMMA LeaseTaken ==
    ASSUME LeaseInv, NEW c \in Caller, pc[c] = "granted",
           heldLeases' = heldLeases \cup {[token |-> nextToken, conn |-> conn[c],
                                           slot |-> call[c].slot, limit |-> call[c].limit]},
           nextToken' = nextToken + 1,
           conn' = [conn EXCEPT ![c] = NoConn], pc'[c] \in {"idle", "fn"},
           UNCHANGED <<server, reserved, activeTransactions>>,
           QuietCalls(c), CallsType', lapsed' \subseteq lapsed, Placed(c)', Lapsing(c)'
    PROVE  LeaseInv'
<1> DEFINE l0 == [token |-> nextToken, conn |-> conn[c],
                  slot |-> call[c].slot, limit |-> call[c].limit]
<1> USE LeaseConstants DEF server
<1>1. CallsType /\ ServerType /\ LayerType /\ Owned /\ Placed(c) /\ Granting(c) /\ Lapsing(c)
  BY DEF LeaseInv, LeaseTypeOK
<1>2. conn[c] \in Conn /\ ConnOK(conn[c]) /\ call[c].slot \in Slot /\ conn'[c] = NoConn
  BY <1>1 DEF LeaseInv, Placed, CallsType
<1>3. /\ l0 \in LeaseRecord /\ l0.token = nextToken /\ l0.conn = conn[c]
      /\ l0.slot = call[c].slot /\ l0.limit = call[c].limit
  BY <1>1, <1>2 DEF LayerType, LeaseRecord, CallsType, CallRecord
<1>4. heldLeases' = heldLeases \cup {l0}
  OBVIOUS
<1> HIDE DEF l0
<1>5. \A l \in heldLeases : l.token \in Nat /\ l.token < nextToken /\ l.conn \in Conn
  BY <1>1 DEF LeaseInv, LeaseOK, LayerType, LeaseRecord
<1>6. nextToken' \in Nat \ {0} /\ nextToken <= nextToken' /\ nextToken < nextToken'
  BY <1>1, NewToken DEF LeaseInv
<1>7. LeaseTypeOK'
  BY <1>1, <1>3, <1>4, <1>6 DEF LeaseTypeOK, ServerType, LayerType
<1>8. OneToken'
  <2>1. \A l \in heldLeases : l.token # nextToken
    BY <1>1, NewToken DEF LeaseInv
  <2> QED  BY <1>3, <1>4, <2>1 DEF LeaseInv, OneToken
<1>9. Owned'
  <2>1. \A d \in Caller : d # c => conn'[d] = conn[d]
    BY DEF QuietCalls
  <2> QED  BY <1>1, <1>2, <1>3, <1>4, <1>5, <2>1, OwnedTaken
<1>10. Handles'
  BY <1>1 DEF LeaseInv, Handles, LayerType, QuietCalls
<1>11. \A s \in Slot : SlotOK(s)'
  BY DEF LeaseInv, SlotOK
<1>12. Quiet(conn[c])
  BY <1>3, <1>4, <1>6 DEF Quiet, QuietSessions, QuietLeases, QuietLapses
<1>13. \A l \in heldLeases' \ heldLeases : LeaseOK(l)'
  BY <1>1, <1>3, <1>4, <1>6 DEF LeaseOK, Granting, LayerType
<1>14. \A n \in Conn : n = conn[c] => ConnOK(n)'
  BY <1>1, <1>2 DEF ConnOK, Owned
<1>15. Granting(c)'
  BY DEF Granting
<1> QED
  BY <1>7, <1>8, <1>9, <1>10, <1>11, <1>12, <1>13, <1>14, <1>15, CallSteps

\* The lease is registered, unless the signal fired meanwhile.
LEMMA GrantedStep ==
    ASSUME LeaseInv, NEW c \in Caller, Granted(c)
    PROVE  LeaseInv'
<1> USE LeaseConstants DEF pool
<1>1. CallsType /\ ServerType /\ LayerType /\ Placed(c) /\ Lapsing(c) /\ pc[c] = "granted"
  BY DEF LeaseInv, LeaseTypeOK, Granted
<1>2. UNCHANGED <<server, reserved, activeTransactions>>
  BY DEF Granted
<1>3. CASE Throw(c, "AbortError")
           /\ UNCHANGED <<heldLeases, nextToken, call, conn, fn, aborted, out, lapsed>>
  <2>1. CallsType' /\ QuietCalls(c) /\ pc'[c] = "unlock"
    BY <1>1, <1>3 DEF Throw, Goto, CallsType, Labels, Errors, QuietCalls
  <2>2. Placed(c)' /\ Granting(c)' /\ Lapsing(c)'
    BY <1>1, <1>3, <2>1 DEF Placed, Granting, Lapsing
  <2> QED  BY <1>1, <1>2, <1>3, <2>1, <2>2, CallMoves DEF ServerType, server, layer
<1>4. ASSUME heldLeases' = heldLeases \cup {[token |-> nextToken, conn |-> conn[c],
                                             slot |-> call[c].slot, limit |-> call[c].limit]},
             nextToken' = nextToken + 1,
             Settle(c, NoOutcome)
      PROVE  LeaseInv'
  <2>1. NoCall \in CallRecord /\ NoCall.token = 0 /\ NoOutcome \in OutcomeRecord
    BY EmptyRecords
  <2>2. /\ CallsType' /\ QuietCalls(c) /\ pc'[c] = "idle" /\ call'[c] = NoCall
        /\ conn' = [conn EXCEPT ![c] = NoConn] /\ conn'[c] = NoConn /\ fn'[c] = "none"
        /\ lapsed' = lapsed \ {c}
    BY <1>1, <1>4, <2>1 DEF Settle, Goto, CallsType, Labels, QuietCalls
  <2>2a. 0 < nextToken'
    BY <1>1, <1>4, NewToken DEF LeaseInv
  <2>3. Placed(c)'
    BY <2>2 DEF Placed
  <2>4. Lapsing(c)'
    BY <2>1, <2>2, <2>2a DEF Lapsing
  <2> QED  BY <1>1, <1>2, <1>4, <2>2, <2>3, <2>4, LeaseTaken
<1>5. ASSUME heldLeases' = heldLeases \cup {[token |-> nextToken, conn |-> conn[c],
                                             slot |-> call[c].slot, limit |-> call[c].limit]},
             nextToken' = nextToken + 1,
             Goto(c, "fn"), call' = [call EXCEPT ![c].token = nextToken],
             conn' = [conn EXCEPT ![c] = NoConn],
             UNCHANGED <<why, fn, aborted, out, lapsed>>
      PROVE  LeaseInv'
  <2>1. /\ call'[c] \in CallRecord /\ call'[c].token = nextToken
        /\ call'[c].slot = call[c].slot /\ call'[c].limit = call[c].limit
    <3>1. call'[c] = [call[c] EXCEPT !.token = nextToken] /\ call[c] \in CallRecord
      BY <1>1, <1>5 DEF CallsType
    <3>2. nextToken \in Nat
      BY <1>1 DEF LayerType
    <3>3. LET r == [call[c] EXCEPT !.token = nextToken]
          IN  /\ r \in CallRecord /\ r.token = nextToken
              /\ r.slot = call[c].slot /\ r.limit = call[c].limit
      BY <3>1, <3>2, TokenNoted
    <3> QED  BY <3>1, <3>3
  <2>2. CallsType' /\ QuietCalls(c) /\ pc'[c] = "fn" /\ conn'[c] = NoConn
    <3>1. call' \in [Caller -> CallRecord]
      BY <1>1, <1>5, <2>1 DEF CallsType
    <3> QED  BY <1>1, <1>5, <3>1 DEF Goto, CallsType, Labels, QuietCalls
  <2>3. Placed(c)'
    BY <1>1, <2>1, <2>2 DEF Placed
  <2>4. OwnLease(c)'
    <3>1. \A l \in heldLeases : l.token # nextToken
      BY <1>1, <1>5, NewToken DEF LeaseInv
    <3> QED  BY SMT, <1>5, <2>1, <3>1 DEF OwnLease
  <2>5. call'[c].token < nextToken' /\ call'[c].token # 0
    BY <1>1, <1>5, <2>1, NewToken DEF LeaseInv
  <2>6. Lapsing(c)'
    BY <1>1, <1>5, <2>2, <2>4, <2>5 DEF Lapsing
  <2> QED  BY <1>1, <1>2, <1>5, <2>2, <2>3, <2>6, LeaseTaken
<1> QED  BY <1>3, <1>4, <1>5 DEF Granted

\* A lease goes off the record: its connection passes to the call that releases it.
LEMMA LeaseGiven ==
    ASSUME LeaseInv, NEW c \in Caller, pc[c] \in {"idle", "fn"},
           NEW k \in heldLeases, heldLeases' = heldLeases \ {k},
           conn' = [conn EXCEPT ![c] = k.conn], pc'[c] = "unlock",
           UNCHANGED <<server, reserved, nextToken, activeTransactions, lapsed>>,
           QuietCalls(c), CallsType', call'[c].slot \in Slot, Lapsing(c)'
    PROVE  LeaseInv'
<1> USE LeaseConstants DEF server
<1>1. CallsType /\ ServerType /\ LayerType /\ Owned /\ Placed(c)
  BY DEF LeaseInv, LeaseTypeOK
<1>2. conn[c] = NoConn /\ conn'[c] = k.conn /\ k.conn \in Conn
  BY <1>1 DEF Placed, CallsType, LayerType, LeaseRecord
<1>3. LeaseTypeOK'
  BY <1>1 DEF LeaseTypeOK, ServerType, LayerType
<1>4. OneToken'
  BY DEF LeaseInv, OneToken
<1>5. Owned'
  BY <1>1, <1>2, OwnedGiven DEF ServerType, QuietCalls
<1>6. Handles'
  BY <1>1 DEF LeaseInv, Handles, LayerType, QuietCalls
<1>7. \A s \in Slot : SlotOK(s)'
  BY DEF LeaseInv, SlotOK
<1>8. Quiet(conn[c])
  BY <1>1, TokensKept DEF Quiet, QuietSessions, QuietLapses
<1>9. Placed(c)' /\ Granting(c)'
  BY <1>2 DEF Placed, Granting
<1> QED
  BY <1>2, <1>3, <1>4, <1>5, <1>6, <1>7, <1>8, <1>9, CallSteps

\* releaseLease, of a lease on record or not.
LEMMA ReleaseLeaseStep ==
    ASSUME LeaseInv, NEW c \in Caller, NEW t \in 1 .. MaxLeases, ReleaseLease(c, t)
    PROVE  LeaseInv'
<1> USE LeaseConstants DEF server, pool, layer
<1>1. CallsType /\ ServerType /\ LayerType /\ Placed(c) /\ Granting(c) /\ Lapsing(c)
      /\ pc[c] = "idle" /\ t < nextToken
  BY DEF LeaseInv, LeaseTypeOK, ReleaseLease
<1>1a. t \in Nat /\ t # 0
  BY SMT
<1>2. UNCHANGED <<server, reserved, nextToken, activeTransactions, why, fn, lapsed>>
  BY DEF ReleaseLease
<1>3. ASSUME NEW k \in Leases(t), TakeLease(c, k),
             call' = [call EXCEPT ![c] =
                        [NoCall EXCEPT !.slot = k.slot, !.limit = k.limit, !.token = t]],
             out' = [out EXCEPT ![c] = NoOutcome]
      PROVE  LeaseInv'
  <2>1. k \in heldLeases /\ k \in LeaseRecord
    BY <1>1 DEF Leases, LayerType
  <2>2. [NoCall EXCEPT !.slot = k.slot, !.limit = k.limit, !.token = t] \in CallRecord
    BY <1>1a, <2>1 DEF NoCall, CallRecord, LeaseRecord
  <2>3. call'[c].slot = k.slot /\ call'[c].token = t /\ k.slot \in Slot
    BY <1>1, <1>3, <2>1 DEF NoCall, LeaseRecord, CallsType
  <2>4. CallsType' /\ QuietCalls(c) /\ pc'[c] = "unlock"
    <3>1. call' \in [Caller -> CallRecord]
      BY <1>1, <1>3, <2>2 DEF CallsType
    <3>2. conn' \in [Caller -> Conn \cup {NoConn}]
      BY <1>1, <1>3, <2>1 DEF CallsType, TakeLease, LeaseRecord
    <3> QED
      BY <1>1, <1>2, <1>3, <3>1, <3>2
      DEF TakeLease, Goto, CallsType, Labels, NoOutcome, OutcomeRecord, QuietCalls
  <2>5. Lapsing(c)'
    BY <1>1, <1>1a, <1>2, <2>3, <2>4 DEF Lapsing
  <2> QED  BY <1>1, <1>2, <1>3, <2>1, <2>3, <2>4, <2>5, LeaseGiven DEF TakeLease
<1>4. CASE /\ out' = [out EXCEPT ![c] = Rejects("LeaseNotHeldError")]
           /\ UNCHANGED <<pc, call, conn, heldLeases>>
  <2>1. CallsType' /\ QuietCalls(c)
    BY <1>1, <1>2, <1>4 DEF CallsType, Rejects, OutcomeRecord, Errors, QuietCalls
  <2>2. Placed(c)' /\ Granting(c)' /\ Lapsing(c)'
    BY <1>1, <1>2, <1>4 DEF Placed, Granting, Lapsing
  <2> QED  BY <1>1, <1>2, <1>4, <2>1, <2>2, CallMoves DEF ServerType
<1> QED  BY <1>3, <1>4 DEF ReleaseLease

\* withLease releases its lease, or finds that fn has released it.
LEMMA FnEndsStep ==
    ASSUME LeaseInv, NEW c \in Caller, NEW r \in {"ok", "threw"}, FnEnds(c, r)
    PROVE  LeaseInv'
<1> USE LeaseConstants DEF server, pool, layer
<1>1. CallsType /\ ServerType /\ LayerType /\ Placed(c) /\ Lapsing(c) /\ pc[c] = "fn"
  BY DEF LeaseInv, LeaseTypeOK, FnEnds
<1>2. /\ UNCHANGED <<server, reserved, nextToken, activeTransactions, call, out, lapsed>>
      /\ fn' = [fn EXCEPT ![c] = r] /\ fn'[c] = r /\ r # "none"
  BY <1>1 DEF FnEnds, CallsType
<1>3. ASSUME NEW k \in Leases(call[c].token), TakeLease(c, k), UNCHANGED why
      PROVE  LeaseInv'
  <2>1. k \in heldLeases /\ k \in LeaseRecord /\ k.token = call[c].token
    BY <1>1 DEF Leases, LayerType
  <2>2. CallsType' /\ QuietCalls(c) /\ pc'[c] = "unlock" /\ conn'[c] = k.conn
    <3>1. conn' \in [Caller -> Conn \cup {NoConn}] /\ conn'[c] = k.conn
      BY <1>1, <1>3, <2>1 DEF CallsType, TakeLease, LeaseRecord
    <3> QED
      BY <1>1, <1>2, <1>3, <3>1 DEF TakeLease, Goto, CallsType, Labels, QuietCalls
  <2>3. Lapsing(c)'
    BY <1>1, <1>2, <2>1, <2>2 DEF Lapsing, LeaseDead
  <2>4. call'[c].slot \in Slot
    BY <1>1, <1>2 DEF Placed
  <2> QED  BY <1>1, <1>2, <1>3, <2>1, <2>2, <2>3, <2>4, LeaseGiven DEF TakeLease
<1>4. CASE /\ why' = [why EXCEPT ![c] = "LeaseNotHeldError"]
           /\ Goto(c, "release") /\ UNCHANGED <<heldLeases, conn>>
  <2>1. /\ CallsType' /\ QuietCalls(c) /\ pc'[c] = "release"
        /\ why'[c] = "LeaseNotHeldError"
    BY <1>1, <1>2, <1>4 DEF Goto, CallsType, Labels, Errors, QuietCalls
  <2>2. Placed(c)' /\ Granting(c)' /\ Lapsing(c)'
    BY <1>1, <1>2, <1>4, <2>1 DEF Placed, Granting, Lapsing
  <2> QED  BY <1>1, <1>2, <1>4, <2>1, <2>2, CallMoves DEF ServerType
<1> QED  BY <1>3, <1>4 DEF FnEnds

\* pg_advisory_unlock: it fails, and a releaseLease has an error to report, or it
\* takes one lock off the call's own session.
LEMMA UnlockStep ==
    ASSUME LeaseInv, NEW c \in Caller, Unlock(c)
    PROVE  LeaseInv'
<1> USE LeaseConstants DEF pool
<1>1. CallsType /\ ServerType /\ LayerType /\ Placed(c) /\ Lapsing(c) /\ ConnOK(conn[c])
      /\ pc[c] = "unlock" /\ waiting[conn[c]] = NoSlot /\ conn[c] \in Conn /\ call[c].slot \in Slot
  <2>1. Placed(c) /\ pc[c] = "unlock"
    BY DEF LeaseInv, Unlock
  <2> QED  BY <2>1 DEF LeaseInv, LeaseTypeOK, Unlock, Placed
<1>2. /\ UNCHANGED <<alive, session, waiting, reply, reserved, layer>>
      /\ UNCHANGED <<call, conn, fn, aborted, out, lapsed>>
      /\ Goto(c, "reset") /\ cancels' \subseteq Conn
  BY <1>1 DEF Unlock, ServerType
<1>3. pc'[c] = "reset"
  BY <1>1, <1>2 DEF Goto, CallsType
<1>4. CASE UnlockFault(c) /\ UNCHANGED <<lockOf, depth>>
  <2>1. CallsType' /\ QuietCalls(c)
    BY <1>1, <1>2, <1>4 DEF UnlockFault, Goto, CallsType, Labels, Errors, QuietCalls
  <2>2. call[c].token # 0 => why'[c] = "connection-lost"
    BY <1>1, <1>4 DEF UnlockFault, CallsType
  <2>3. Placed(c)' /\ Granting(c)'
    BY <1>1, <1>2, <1>3 DEF Placed, Granting
  <2>4. Lapsing(c)'
    BY <1>1, <1>2, <1>3, <2>2 DEF Lapsing, layer
  <2> QED  BY <1>1, <1>2, <1>3, <1>4, <2>1, <2>3, <2>4, CallMoves DEF ServerType
<1>5. CASE conn[c] \in alive /\ UnlockBy(call[c].slot, conn[c]) /\ UNCHANGED why
  <2>1. CallsType' /\ QuietCalls(c)
    BY <1>1, <1>2, <1>5 DEF Goto, CallsType, Labels, QuietCalls
  <2>2. \A s \in Slot : lockOf'[s] = IF s = call[c].slot /\ lockOf[s] = conn[c] /\ depth[s] = 1
                                     THEN NoConn ELSE lockOf[s]
    BY <1>1, <1>5 DEF UnlockBy, ServerType
  <2>3. \A s \in Slot : depth'[s] = IF s = call[c].slot /\ lockOf[s] = conn[c]
                                    THEN depth[s] - 1 ELSE depth[s]
    BY <1>1, <1>5 DEF UnlockBy, ServerType
  <2>4. \A s \in Slot : depth[s] \in Nat /\ SlotOK(s)
    BY <1>1 DEF LeaseInv, ServerType
  <2>5. \A s \in Slot : SlotOK(s)' /\ depth'[s] \in Nat
    <3> SUFFICES ASSUME NEW s \in Slot PROVE SlotOK(s)' /\ depth'[s] \in Nat
      OBVIOUS
    <3>1. depth[s] \in Nat /\ SlotOK(s)
      BY <2>4
    <3>2. CASE s = call[c].slot /\ lockOf[s] = conn[c]
      <4>1. depth[s] # 0 /\ conn[c] # NoConn
        BY <1>1, <3>1, <3>2 DEF SlotOK
      <4>2. depth'[s] = depth[s] - 1 /\ lockOf'[s] = IF depth[s] = 1 THEN NoConn ELSE lockOf[s]
        BY <2>2, <2>3, <3>2
      <4>3. depth[s] - 1 \in Nat /\ (depth[s] - 1 = 0 <=> depth[s] = 1)
        BY <3>1, <4>1, Counts
      <4> QED  BY <1>2, <3>1, <3>2, <4>1, <4>2, <4>3 DEF SlotOK
    <3>3. CASE ~(s = call[c].slot /\ lockOf[s] = conn[c])
      <4>1. depth'[s] = depth[s] /\ lockOf'[s] = lockOf[s]
        BY <2>2, <2>3, <3>3
      <4> QED  BY <1>2, <3>1, <4>1 DEF SlotOK
    <3> QED  BY <3>2, <3>3
  <2>6. ServerType'
    <3>1. lockOf' \in [Slot -> Conn \cup {NoConn}]
      BY <1>1, <1>5 DEF UnlockBy, ServerType
    <3>2. depth' \in [Slot -> Nat]
      BY <1>1, <1>5, <2>5 DEF UnlockBy, ServerType
    <3> QED  BY <1>1, <1>2, <3>1, <3>2 DEF ServerType
  <2>7. LeaseTypeOK'
    BY <1>1, <1>2, <2>1, <2>6 DEF LeaseTypeOK, LayerType, layer
  <2>8. Owned' /\ OneToken'
    BY <1>2 DEF LeaseInv, Owned, OneToken, layer
  <2>9. Handles'
    BY <1>1, <1>2, <2>1 DEF LeaseInv, Handles, LayerType, QuietCalls, layer
  <2>10. Quiet(conn[c])
    BY <1>1, <1>2, <2>2, TokensKept DEF Quiet, QuietSessions, QuietLapses, layer
  <2>11. reply[conn[c]] = "none"
    BY <1>1, OwnStatement DEF LeaseInv
  <2>12. \A n \in Conn : n = conn[c] => ConnOK(n)'
    BY <1>1, <1>2, <2>11 DEF ConnOK
  <2>13. Placed(c)' /\ Granting(c)'
    BY <1>1, <1>2, <1>3 DEF Placed, Granting
  <2>14. Lapsing(c)'
    BY <1>1, <1>2, <1>3, <1>5 DEF Lapsing, layer
  <2> QED
    BY <1>2, <2>1, <2>5, <2>7, <2>8, <2>9, <2>10, <2>12, <2>13, <2>14, CallSteps DEF layer
<1> QED
  BY <1>4, <1>5 DEF Unlock, Dead

\* resetStatementTimeout touches what is SET on the session only.
LEMMA ResetStep ==
    ASSUME LeaseInv, NEW c \in Caller, resetStatementTimeout(c)
    PROVE  LeaseInv'
<1> USE DEF pool
<1>1. CallsType /\ ServerType /\ Placed(c) /\ Lapsing(c) /\ pc[c] = "reset" /\ conn[c] \in Conn
  <2>1. Placed(c) /\ pc[c] = "reset"
    BY DEF LeaseInv, resetStatementTimeout
  <2> QED  BY <2>1 DEF LeaseInv, LeaseTypeOK, Placed
<1>2. UNCHANGED <<alive, lockOf, depth, waiting, reply, reserved, layer,
                  call, conn, why, fn, aborted, out, lapsed, deaths>>
  BY DEF resetStatementTimeout
<1>3. CallsType' /\ QuietCalls(c) /\ pc'[c] = "release"
  BY <1>1, <1>2 DEF resetStatementTimeout, Goto, CallsType, Labels, QuietCalls
<1>4. session' \in [Conn -> Limit] /\ cancels' \subseteq Conn
  <2>1. PICK hit \in CancelHits(c) :
            /\ cancels' = IF hit THEN cancels \ {conn[c]} ELSE cancels
            /\ session' = [session EXCEPT ![conn[c]] = IF hadTimeout(c) /\ ~hit THEN "none" ELSE @]
    BY DEF resetStatementTimeout
  <2>2. session' \in [Conn -> Limit]
    BY <1>1, <2>1 DEF ServerType, Limit
  <2> QED  BY <1>1, <2>1, <2>2 DEF ServerType
<1>5. Placed(c)' /\ Granting(c)' /\ Lapsing(c)'
  BY <1>1, <1>2, <1>3 DEF Placed, Granting, Lapsing, layer
<1> QED
  BY <1>1, <1>2, <1>3, <1>4, <1>5, CallMoves

\* The connection of a call that settles returns to the pool; no statement runs on it.
LEMMA ReturnedStep ==
    ASSUME LeaseInv, NEW c \in Caller, pc[c] \in {"release", "txclose"},
           NEW o \in OutcomeRecord, Settle(c, o), reserved' = reserved \ {conn[c]},
           UNCHANGED <<server, layer>>
    PROVE  LeaseInv'
<1> USE LeaseConstants DEF server, layer
<1>1. CallsType /\ LayerType /\ ServerType /\ Owned /\ Placed(c) /\ Lapsing(c)
  BY DEF LeaseInv, LeaseTypeOK
<1>2. NoCall \in CallRecord /\ NoCall.token = 0
  BY EmptyRecords
<1>3. pc'[c] = "idle" /\ conn'[c] = NoConn /\ fn'[c] = "none" /\ call'[c] = NoCall
  BY <1>1 DEF Settle, CallsType, Goto
<1>4. CallsType' /\ QuietCalls(c)
  BY <1>1, <1>2 DEF Settle, CallsType, Goto, Labels, QuietCalls
<1>5. LeaseTypeOK'
  BY <1>1, <1>4 DEF LeaseTypeOK, ServerType, LayerType
<1>6. Owned'
  <2>1. \A l \in heldLeases : l.conn \in Conn
    BY <1>1 DEF LayerType, LeaseRecord
  <2> QED  BY <1>1, <1>3, <1>4, <2>1, OwnedReturned DEF QuietCalls
<1>7. OneToken'
  BY DEF LeaseInv, OneToken
<1>8. Handles'
  BY <1>1, <1>4 DEF LeaseInv, Handles, LayerType, QuietCalls
<1>9. \A s \in Slot : SlotOK(s)'
  BY DEF LeaseInv, SlotOK
<1>10. Quiet(conn[c])
  BY <1>1, TokensKept DEF Quiet, QuietSessions, QuietLapses, Settle
<1>11. ASSUME NEW n \in Conn, n = conn[c] PROVE ConnOK(n)'
  <2>1. ConnOK(n) /\ \A d \in Caller : conn[d] = n => d = c
    BY <1>1, <1>11 DEF LeaseInv, Owned
  <2>2. waiting[n] = NoSlot /\ reply[n] = "none"
    BY <2>1 DEF ConnOK
  <2> QED  BY <2>2 DEF ConnOK
<1>12. Placed(c)' /\ Granting(c)'
  BY <1>3 DEF Placed, Granting
<1>13. c \notin lapsed'
  BY DEF Settle
<1>14. Lapsing(c)'
  BY <1>1, <1>2, <1>3, <1>13, NoZeroToken DEF Lapsing
<1> QED
  BY <1>4, <1>5, <1>6, <1>7, <1>8, <1>9, <1>10, <1>11, <1>12, <1>14, CallSteps

\* What a call settles with.
LEMMA OutcomeType ==
    ASSUME CallsType, NEW c \in Caller, NEW e \in Errors \cup {"ok"}
    PROVE  Outcome(c, e) \in OutcomeRecord /\ Rejects(e) \in OutcomeRecord
<1>1. Rejects(e) \in OutcomeRecord
  BY DEF Rejects, OutcomeRecord
<1>2. ASSUME NEW f \in SUBSET Errors, NEW b \in BOOLEAN
      PROVE  WithLeaseOutcome(f, {e} \ {"ok"}, b) \in OutcomeRecord
  BY <1>2 DEF WithLeaseOutcome, OutcomeRecord
<1>3. call[c].callback \in BOOLEAN /\ {"fnError"} \subseteq Errors
  BY DEF CallsType, CallRecord, Errors
<1> QED  BY <1>1, <1>2, <1>3 DEF Outcome

\* reserved.release(), with what withLease tells its caller.
LEMMA ReleaseStep ==
    ASSUME LeaseInv, NEW c \in Caller, Release(c)
    PROVE  LeaseInv'
<1>1. CallsType
  BY DEF LeaseInv, LeaseTypeOK
<1>2. Outcome(c, why[c]) \in OutcomeRecord
  BY <1>1, OutcomeType DEF CallsType
<1> QED  BY <1>2, ReturnedStep DEF Release

\* COMMIT or ROLLBACK, and the connection returns.
LEMMA TxCloseStep ==
    ASSUME LeaseInv, NEW c \in Caller, TxClose(c)
    PROVE  LeaseInv'
<1>1. CallsType /\ "connection-lost" \in Errors
  BY DEF LeaseInv, LeaseTypeOK, Errors
<1>2. Rejects(IF Dead(c) THEN "connection-lost" ELSE why[c]) \in OutcomeRecord
  BY <1>1, OutcomeType DEF CallsType
<1> QED  BY <1>2, ReturnedStep DEF TxClose

\* A transaction registers or unregisters its handle; its connection stays its own.
LEMMA TxStep ==
    ASSUME LeaseInv, NEW c \in Caller, TxOpen(c) \/ \E e \in {"ok", "fnError"} : TxFnEnds(c, e)
    PROVE  LeaseInv'
<1> USE LeaseConstants
<1>1. CallsType /\ ServerType /\ LayerType /\ Owned /\ Placed(c) /\ Lapsing(c) /\ Handles
  BY DEF LeaseInv, LeaseTypeOK
<1>2. pc[c] \in {"txopen", "txfn"} /\ conn[c] \in Conn
  BY <1>1 DEF TxOpen, TxFnEnds, Placed
<1>3. /\ UNCHANGED <<server, reserved, heldLeases, nextToken>>
      /\ UNCHANGED <<call, conn, fn, out, lapsed>>
  BY DEF TxOpen, TxFnEnds, pool
<1>4. CallsType' /\ QuietCalls(c) /\ pc'[c] \in {"txfn", "txclose"}
  <2>1. \E label \in {"txfn", "txclose"}, e \in {"connection-lost", "ok", "fnError"} :
            Goto(c, label) /\ (why' = why \/ why' = [why EXCEPT ![c] = e])
    BY DEF TxOpen, TxFnEnds
  <2>2. {"txfn", "txclose"} \subseteq Labels /\ {"connection-lost", "fnError"} \subseteq Errors
        /\ lapsed' \subseteq Caller
    BY <1>1, <1>3 DEF Labels, Errors, CallsType
  <2> QED  BY <1>1, <1>3, <2>1, <2>2, Goes
<1>5. activeTransactions' \subseteq [caller : Caller, conn : Conn] /\ Handles'
  <2>1. ASSUME NEW h \in activeTransactions'
        PROVE  /\ h \in [caller : Caller, conn : Conn]
               /\ pc'[h.caller] = "txfn" /\ conn[h.caller] = h.conn
    <3>1. CASE h \in activeTransactions /\ h.caller # c
      BY <1>1, <1>4, <3>1 DEF LayerType, Handles, QuietCalls
    <3>2. CASE h = [caller |-> c, conn |-> conn[c]] /\ pc' = [pc EXCEPT ![c] = "txfn"]
      BY <1>1, <1>2, <3>2 DEF CallsType
    <3>3. CASE h \in activeTransactions /\ h.caller = c
      BY <1>1, <2>1, <3>3 DEF Handles, TxOpen, TxFnEnds
    <3> QED  BY <2>1, <3>1, <3>2, <3>3 DEF TxOpen, TxFnEnds, Goto
  <2> QED  BY <1>3, <2>1 DEF Handles
<1>6. LeaseTypeOK'
  BY <1>1, <1>3, <1>4, <1>5 DEF LeaseTypeOK, ServerType, LayerType, server
<1>7. Owned' /\ OneToken'
  BY <1>3 DEF LeaseInv, Owned, OneToken
<1>8. \A s \in Slot : SlotOK(s)'
  BY <1>3 DEF LeaseInv, SlotOK, server
<1>9. Quiet(conn[c])
  BY <1>1, <1>3, TokensKept DEF Quiet, QuietSessions, QuietLapses, server
<1>10. ASSUME NEW n \in Conn, n = conn[c] PROVE ConnOK(n)'
  <2>1. ConnOK(n) /\ \A d \in Caller : conn[d] = n => d = c
    BY <1>1, <1>10 DEF LeaseInv, Owned
  <2>2. waiting[n] = NoSlot /\ reply[n] = "none"
    BY <1>2, <2>1 DEF ConnOK
  <2> QED  BY <1>3, <2>2 DEF ConnOK, server
<1>11. Placed(c)' /\ Granting(c)' /\ Lapsing(c)'
  BY <1>1, <1>2, <1>3, <1>4 DEF Placed, Granting, Lapsing
<1> QED
  BY <1>3, <1>4, <1>5, <1>6, <1>7, <1>8, <1>9, <1>10, <1>11, CallSteps

-----------------------------------------------------------------------------

\* At the start the pool is full and nothing is locked.
LEMMA InitLease == Init => LeaseInv
<1> SUFFICES ASSUME Init PROVE LeaseInv
  OBVIOUS
<1> USE LeaseConstants
<1>1. NoCall \in CallRecord /\ NoCall.token = 0 /\ NoOutcome \in OutcomeRecord
  BY EmptyRecords
<1>2. ServerType
  BY SMT DEF Init, ServerType, Limit, Reply
<1>3. CallsType
  BY <1>1 DEF Init, CallsType, Labels
<1>4. LayerType /\ OneToken /\ Handles /\ \A l \in heldLeases : LeaseOK(l)
  BY SMT DEF Init, LayerType, OneToken, Handles
<1>5. Owned
  BY DEF Init, Owned
<1>6. (\A s \in Slot : SlotOK(s)) /\ (\A n \in Conn : ConnOK(n))
  BY DEF Init, SlotOK, ConnOK
<1>7. \A c \in Caller : Placed(c) /\ Granting(c) /\ Lapsing(c)
  BY SMT, <1>1 DEF Init, Placed, Granting, Lapsing
<1> QED  BY <1>2, <1>3, <1>4, <1>5, <1>6, <1>7 DEF LeaseInv, LeaseTypeOK

\* Every step keeps the invariant.
LEMMA NextLease ==
    ASSUME SameTickAbort = FALSE, LeaseInv, [Next]_vars
    PROVE  LeaseInv'
<1>1. CASE UNCHANGED vars
  <2> USE <1>1 DEF vars, server, pool, layer, calls
  <2>1. LeaseTypeOK'
    BY DEF LeaseInv, LeaseTypeOK, ServerType, CallsType, LayerType
  <2>2. Owned' /\ Handles' /\ OneToken'
    BY DEF LeaseInv, Owned, Handles, OneToken
  <2>3. (\A s \in Slot : SlotOK(s)') /\ (\A l \in heldLeases' : LeaseOK(l)')
    BY DEF LeaseInv, SlotOK, LeaseOK
  <2>4. \A n \in Conn : ConnOK(n)'
    <3> SUFFICES ASSUME NEW n \in Conn PROVE ConnOK(n)'
      OBVIOUS
    <3>1. ConnOK(n)
      BY DEF LeaseInv
    <3> QED  BY <3>1 DEF ConnOK
  <2>5. \A c \in Caller : Placed(c)' /\ Granting(c)'
    BY DEF LeaseInv, Placed, Granting
  <2>6. \A c \in Caller : Lapsing(c)'
    BY DEF LeaseInv, Lapsing, OwnLease, LeaseDead
  <2> QED  BY <2>1, <2>2, <2>3, <2>4, <2>5, <2>6 DEF LeaseInv
<1>2. ASSUME NEW c \in Caller, Continue(c) PROVE LeaseInv'
  BY <1>2, SetTimeoutStep, SendLockStep, TryLockStep, ReadReplyStep, GrantedStep,
     UnlockStep, ResetStep, ReleaseStep, TxStep, TxCloseStep DEF Continue
<1>3. ASSUME NEW c \in Caller, ReserveFails(c) \/ ReserveTimeout(c) PROVE LeaseInv'
  <2>1. /\ \A e \in Errors : Rejects(e) \in OutcomeRecord
        /\ {"connection-lost", "reserve-failed", "LeaseTimeoutError"} \subseteq Errors
        /\ NoOutcome \in OutcomeRecord
    BY DEF Rejects, OutcomeRecord, Errors, NoOutcome
  <2>2. CASE ReserveFails(c)
    BY <2>1, <2>2, SettleStep DEF ReserveFails, pool
  <2>3. CASE ReserveTimeout(c)
    BY <2>1, <2>3, SettleStep DEF ReserveTimeout, GiveUp
  <2> QED  BY <1>3, <2>2, <2>3
<1>4. ASSUME NEW n \in Conn, \/ OrphanReserved(n) \/ Grant(n) \/ ServerTimeout(n)
                             \/ CancelArrives(n) \/ BackendDies(n)
      PROVE  LeaseInv'
  BY <1>4, OrphanStep, GrantStep, ServerTimeoutStep, CancelArrivesStep, BackendDiesStep
<1> QED
  BY <1>1, <1>2, <1>3, <1>4, AbortStep, CallBeginStep, CallRejectedStep, ReserveStep,
     ReleaseLeaseStep, FnEndsStep, TxStep DEF Next

\* The invariant holds in every state a layer can reach when no signal fires
\* between a reservation and its callbacks.
LEMMA LeaseInvariant ==
    ASSUME SameTickAbort = FALSE
    PROVE  Spec => []LeaseInv
<1>1. LeaseInv /\ [Next]_vars => LeaseInv'
  BY NextLease
<1> QED  BY <1>1, InitLease, PTL DEF Spec

\* Mutual exclusion: for any number of callers, keys and connections, a lease on
\* record whose backend lives is backed by the advisory lock, and is the only one of
\* its key; also when cancel requests are late, but not when a signal may fire
\* between a reservation and its callbacks.
THEOREM LeasesExclude ==
    ASSUME SameTickAbort = FALSE
    PROVE  Spec => []LeaseHoldsLock
<1>1. LeaseInv => LeaseHoldsLock
  <2> SUFFICES ASSUME LeaseInv, NEW l \in heldLeases, l.conn \in alive
               PROVE  /\ lockOf[l.slot] = l.conn
                      /\ \A m \in heldLeases : m.slot = l.slot /\ m.conn \in alive => m = l
    BY DEF LeaseHoldsLock
  <2>1. \A m \in heldLeases : m.conn \in alive => lockOf[m.slot] = m.conn
    BY DEF LeaseInv, LeaseOK
  <2>2. \A m \in heldLeases : m.conn = l.conn => m = l
    BY DEF LeaseInv, Owned
  <2> QED  BY <2>1, <2>2
<1> QED  BY <1>1, LeaseInvariant, PTL

\* A call is over only where it settles.
LEMMA OnlySettles ==
    ASSUME LeaseInv, [Next]_vars, NEW c \in Caller, pc[c] # "idle", pc'[c] = "idle"
    PROVE  pc[c] \in {"reserve", "granted", "txclose"} \/ Release(c)
<1>1. CallsType
  BY DEF LeaseInv, LeaseTypeOK
<1>2. ASSUME NEW d \in Caller, NEW label, Goto(d, label) PROVE d = c /\ label = "idle"
  BY <1>1, <1>2 DEF Goto, CallsType
<1>2a. \A d \in Caller :
        /\ ~Goto(d, "reserve") /\ ~Goto(d, "lock") /\ ~Goto(d, "wait") /\ ~Goto(d, "granted")
        /\ ~Goto(d, "fn") /\ ~Goto(d, "unlock") /\ ~Goto(d, "reset") /\ ~Goto(d, "release")
        /\ ~Goto(d, "txfn") /\ ~Goto(d, "txclose")
  BY <1>1 DEF Goto, CallsType
<1>3. pc' # pc
  OBVIOUS
<1>4. ASSUME NEW d \in Caller, Continue(d)
      PROVE  pc[c] \in {"reserve", "granted", "txclose"} \/ Release(c)
  <2>1. ~SetTimeout(d) /\ ~SendLock(d) /\ ~TryLock(d) /\ ~ReadReply(d)
    BY <1>2a DEF SetTimeout, SendLock, TryLock, ReadReply, Throw
  <2>2. ~Unlock(d) /\ ~resetStatementTimeout(d) /\ ~TxOpen(d)
    BY <1>2a DEF Unlock, resetStatementTimeout, TxOpen
  <2>3. Granted(d) => d = c
    BY <1>2 DEF Granted, Throw, Settle
  <2>4. Release(d) \/ TxClose(d) => d = c
    BY <1>2 DEF Release, TxClose, Settle
  <2> QED  BY <1>4, <2>1, <2>2, <2>3, <2>4 DEF Continue, Granted, TxClose
<1>5. ASSUME NEW d \in Caller, \/ ReserveFails(d) \/ ReserveTimeout(d) \/ Abort(d)
                               \/ \E n \in Conn : Reserve(d, n)
      PROVE  pc[c] = "reserve"
  <2>1. ASSUME NEW o, Settle(d, o), pc[d] = "reserve" PROVE pc[c] = "reserve"
    BY <1>2, <2>1 DEF Settle
  <2>2. CASE Abort(d)
    BY <1>2a, <1>3, <2>1, <2>2 DEF Abort, GiveUp, Throw
  <2>3. CASE ReserveFails(d) \/ ReserveTimeout(d)
    BY <2>1, <2>3 DEF ReserveFails, ReserveTimeout, GiveUp
  <2>4. CASE \E n \in Conn : Reserve(d, n)
    BY <1>2, <2>4 DEF Reserve
  <2> QED  BY <1>5, <2>2, <2>3, <2>4
<1>6. ASSUME NEW d \in Caller
      PROVE  /\ \A a \in Calls : ~CallBegin(d, a) /\ ~CallRejected(d, a)
             /\ \A t \in 1 .. MaxLeases : ~ReleaseLease(d, t)
             /\ \A r \in {"ok", "threw"} : ~FnEnds(d, r)
             /\ \A e \in {"ok", "fnError"} : ~TxFnEnds(d, e)
  BY <1>2a, <1>3 DEF CallBegin, CallRejected, ReleaseLease, TakeLease, FnEnds, TxFnEnds
<1>7. ASSUME NEW n \in Conn
      PROVE  /\ ~OrphanReserved(n) /\ ~Grant(n) /\ ~ServerTimeout(n)
             /\ ~CancelArrives(n) /\ ~BackendDies(n)
  BY <1>3 DEF OrphanReserved, Grant, ServerTimeout, CancelArrives, BackendDies, calls
<1> QED
  BY <1>3, <1>4, <1>5, <1>6, <1>7 DEF Next, vars, calls

\* withLease never returns quietly when another session was given the lock while fn
\* ran, and fn's own error is never replaced, for any number of callers and faults,
\* when no signal fires between a reservation and its callbacks.
THEOREM LapsesSurface ==
    ASSUME SameTickAbort = FALSE
    PROVE  Spec => LapseSurfaces
<1>1. ASSUME LeaseInv, [Next]_vars, NEW c \in Caller, pc[c] # "idle", pc'[c] = "idle"
      PROVE  /\ c \in lapsed => out'[c].notified \/ out'[c].thrown \ {"fnError"} # {}
             /\ fn[c] = "threw" => "fnError" \in out'[c].thrown
  <2>1. CallsType /\ Lapsing(c)
    BY <1>1 DEF LeaseInv, LeaseTypeOK
  <2>2. CASE pc[c] \in {"reserve", "granted", "txclose"}
    BY <2>1, <2>2 DEF Lapsing
  <2>3. CASE Release(c)
    <3>1. out'[c] = Outcome(c, why[c]) /\ pc[c] = "release"
      BY <2>1, <2>3 DEF Release, Settle, CallsType
    <3>2. CASE fn[c] = "none"
      BY <2>1, <3>1, <3>2 DEF Lapsing
    <3>3. CASE fn[c] # "none"
      <4> DEFINE f == IF fn[c] = "threw" THEN {"fnError"} ELSE {}
                 e == {why[c]} \ {"ok"}
      <4>1. out'[c] = WithLeaseOutcome(f, e, call[c].callback)
        BY <3>1, <3>3 DEF Outcome
      <4>2. fn[c] = "threw" => "fnError" \in f
        OBVIOUS
      <4>3. c \in lapsed => why[c] \in e \ {"fnError"}
        BY <2>1, <3>1 DEF Lapsing
      <4> HIDE DEF f, e
      <4>4. f \subseteq out'[c].thrown /\ (e # {} => out'[c].notified \/ e \subseteq out'[c].thrown)
        BY <4>1, Told
      <4> QED  BY <4>2, <4>3, <4>4
    <3> QED  BY <3>2, <3>3
  <2> QED  BY <1>1, <2>2, <2>3, OnlySettles
<1>2. LeaseInv /\ [Next]_vars => SettlesTruthfully
  BY <1>1 DEF SettlesTruthfully
<1> QED  BY <1>2, LeaseInvariant, PTL DEF Spec, LapseSurfaces

-----------------------------------------------------------------------------
(* The pool, when no cancel request is late *)

\* A lock, a timeout and a cancel request on connection n have an owner who is on
\* the way to undo them, and a session holds a lock once.
LocksOwned(n) ==
    \A s \in Slot : lockOf[s] = n =>
        /\ depth[s] = 1 /\ waiting[n] = NoSlot
        /\ \/ \E l \in heldLeases : l.conn = n /\ l.slot = s
           \/ \E c \in Caller : /\ conn[c] = n /\ call[c].slot = s
                                /\ pc[c] \in {"wait", "granted", "unlock"}
TimeoutOwned(n) ==
    session[n] # "none" =>
        \/ \E l \in heldLeases : l.conn = n /\ l.limit # "none"
        \/ \E c \in Caller : /\ conn[c] = n /\ call[c].limit # "none"
                             /\ pc[c] \in {"lock", "wait", "granted", "unlock", "reset"}
CancelOwned(n) == n \in cancels => \E c \in Caller : conn[c] = n /\ pc[c] = "unlock"
Undone(n) == LocksOwned(n) /\ TimeoutOwned(n) /\ CancelOwned(n)
CleanInv == \A n \in Conn : Undone(n)

\* What the owner of a connection knows of it: a call, or a lease.
CallCarries(c) ==
    /\ \A s \in Slot : lockOf[s] = conn[c] =>
        /\ depth[s] = 1 /\ waiting[conn[c]] = NoSlot
        /\ call[c].slot = s /\ pc[c] \in {"wait", "granted", "unlock"}
    /\ session[conn[c]] # "none" =>
        call[c].limit # "none" /\ pc[c] \in {"lock", "wait", "granted", "unlock", "reset"}
    /\ conn[c] \in cancels => pc[c] = "unlock"
LeaseCarries(l) ==
    /\ \A s \in Slot : lockOf[s] = l.conn => depth[s] = 1 /\ waiting[l.conn] = NoSlot /\ l.slot = s
    /\ session[l.conn] # "none" => l.limit # "none"
    /\ l.conn \notin cancels
Bare(n) == (\A s \in Slot : lockOf[s] # n) /\ session[n] = "none" /\ n \notin cancels

\* A call knows what is on its connection, which no one else owns.
LEMMA CallOwns ==
    ASSUME LeaseInv, CleanInv, NEW c \in Caller, conn[c] \in Conn
    PROVE  CallCarries(c)
<1>1. /\ \A d \in Caller : conn[d] = conn[c] => d = c
      /\ \A l \in heldLeases : l.conn # conn[c]
  BY LeaseConstants DEF LeaseInv, Owned
<1>2. LocksOwned(conn[c]) /\ TimeoutOwned(conn[c]) /\ CancelOwned(conn[c])
  BY DEF CleanInv, Undone
<1> QED  BY <1>1, <1>2 DEF CallCarries, LocksOwned, TimeoutOwned, CancelOwned

\* So does a lease.
LEMMA LeaseOwns ==
    ASSUME LeaseInv, CleanInv, NEW l \in heldLeases
    PROVE  LeaseCarries(l)
<1>1. /\ \A d \in Caller : conn[d] # l.conn
      /\ \A m \in heldLeases : m.conn = l.conn => m = l
      /\ l.conn \in Conn
  BY DEF LeaseInv, LeaseTypeOK, LayerType, LeaseRecord, Owned
<1>2. LocksOwned(l.conn) /\ TimeoutOwned(l.conn) /\ CancelOwned(l.conn)
  BY <1>1 DEF CleanInv, Undone
<1> QED  BY <1>1, <1>2 DEF LeaseCarries, LocksOwned, TimeoutOwned, CancelOwned

\* Nothing is on a connection in the pool.
LEMMA PoolBare ==
    ASSUME LeaseInv, CleanInv, NEW n \in Conn, n \notin reserved
    PROVE  Bare(n)
<1>1. (\A d \in Caller : conn[d] # n) /\ (\A l \in heldLeases : l.conn # n)
  BY LeaseConstants DEF LeaseInv, Owned
<1>2. LocksOwned(n) /\ TimeoutOwned(n) /\ CancelOwned(n)
  BY DEF CleanInv, Undone
<1> QED  BY <1>1, <1>2 DEF Bare, LocksOwned, TimeoutOwned, CancelOwned

\* A step that leaves connection m, what it carries and its owner alone.
Kept(m) ==
    /\ \A d \in Caller : conn[d] = m => pc'[d] = pc[d] /\ conn'[d] = conn[d] /\ call'[d] = call[d]
    /\ \A l \in heldLeases : l.conn = m => l \in heldLeases'
    /\ waiting'[m] = waiting[m] /\ session'[m] = session[m] /\ (m \in cancels' => m \in cancels)
    /\ \A s \in Slot : lockOf'[s] = m => lockOf[s] = m /\ depth'[s] = depth[s]

\* What is on m keeps its owner.
LEMMA UndoneKept ==
    ASSUME CleanInv, NEW m \in Conn, Kept(m)
    PROVE  Undone(m)'
<1>1. LocksOwned(m) /\ TimeoutOwned(m) /\ CancelOwned(m)
  BY DEF CleanInv, Undone
<1>2. LocksOwned(m)'
  <2> SUFFICES ASSUME NEW s \in Slot, lockOf'[s] = m
               PROVE  /\ depth'[s] = 1 /\ waiting'[m] = NoSlot
                      /\ \/ \E l \in heldLeases' : l.conn = m /\ l.slot = s
                         \/ \E c \in Caller : /\ conn'[c] = m /\ call'[c].slot = s
                                              /\ pc'[c] \in {"wait", "granted", "unlock"}
    BY DEF LocksOwned
  <2>1. lockOf[s] = m /\ depth'[s] = depth[s] /\ waiting'[m] = waiting[m]
    BY DEF Kept
  <2>2. /\ depth[s] = 1 /\ waiting[m] = NoSlot
        /\ \/ \E l \in heldLeases : l.conn = m /\ l.slot = s
           \/ \E c \in Caller : /\ conn[c] = m /\ call[c].slot = s
                                /\ pc[c] \in {"wait", "granted", "unlock"}
    BY <1>1, <2>1 DEF LocksOwned
  <2> QED  BY <2>1, <2>2 DEF Kept
<1>3. TimeoutOwned(m)'
  BY <1>1 DEF TimeoutOwned, Kept
<1>4. CancelOwned(m)'
  BY <1>1 DEF CancelOwned, Kept
<1> QED  BY <1>2, <1>3, <1>4 DEF Undone

\* A step of call c on its connection n, which stays its own.
LEMMA CarriesOn ==
    ASSUME CleanInv, NEW c \in Caller, NEW n \in Conn, conn'[c] = n, CallCarries(c)',
           \A m \in Conn : m # n => Kept(m)
    PROVE  CleanInv'
<1>1. Undone(n)'
  BY DEF CallCarries, Undone, LocksOwned, TimeoutOwned, CancelOwned
<1> QED  BY <1>1, UndoneKept DEF CleanInv

\* A step after which connection n is a lease's.
LEMMA LeaseCarriesOn ==
    ASSUME CleanInv, NEW n \in Conn, NEW l \in heldLeases', l.conn = n, LeaseCarries(l)',
           \A m \in Conn : m # n => Kept(m)
    PROVE  CleanInv'
<1>1. Undone(n)'
  BY DEF LeaseCarries, Undone, LocksOwned, TimeoutOwned, CancelOwned
<1> QED  BY <1>1, UndoneKept DEF CleanInv

\* A step that leaves nothing on connection n.
LEMMA LeftBare ==
    ASSUME CleanInv, NEW n, Bare(n)', \A m \in Conn : m # n => Kept(m)
    PROVE  CleanInv'
<1>1. Undone(n)'
  BY DEF Bare, Undone, LocksOwned, TimeoutOwned, CancelOwned
<1> QED  BY <1>1, UndoneKept DEF CleanInv

\* A step that touches no connection.
LEMMA NoneTouched ==
    ASSUME CleanInv, \A m \in Conn : Kept(m)
    PROVE  CleanInv'
BY UndoneKept DEF CleanInv

\* Calls that have no connection: CallBegin, CallRejected, ReserveFails, GiveUp.
LEMMA WithoutClean ==
    ASSUME LeaseInv, CleanInv, NEW c \in Caller, conn[c] = NoConn,
           QuietCalls(c), UNCHANGED <<server, heldLeases>>
    PROVE  CleanInv'
<1>1. \A m \in Conn : Kept(m)
  BY LeaseConstants DEF Kept, QuietCalls, server
<1> QED  BY <1>1, NoneTouched

\* A connection comes out of the pool with nothing on it.
LEMMA ReserveClean ==
    ASSUME SameTickAbort = FALSE, LeaseInv, CleanInv, NEW c \in Caller, NEW n \in Conn, Reserve(c, n)
    PROVE  CleanInv'
<1> USE LeaseConstants DEF Reserve, layer
<1>1. CallsType /\ Placed(c)
  BY DEF LeaseInv, LeaseTypeOK
<1>2. Bare(n)
  BY PoolBare
<1>3. Bare(n)'
  BY <1>2 DEF Bare
<1>4. \A m \in Conn : m # n => Kept(m)
  BY <1>1 DEF Kept, CallsType, Goto, Placed
<1> QED  BY <1>3, <1>4, LeftBare

\* A reservation given up on finds and leaves a bare connection.
LEMMA OrphanClean ==
    ASSUME LeaseInv, CleanInv, NEW n \in Conn, OrphanReserved(n)
    PROVE  CleanInv'
<1>1. \A m \in Conn : Kept(m)
  BY DEF OrphanReserved, Kept, calls, layer
<1> QED  BY <1>1, NoneTouched

\* A call that moves on with what its connection carries.
LEMMA MovesClean ==
    ASSUME LeaseInv, CleanInv, NEW c \in Caller, conn[c] \in Conn, QuietCalls(c),
           UNCHANGED <<lockOf, depth, waiting, heldLeases, call, conn>>,
           \A m \in Conn : m # conn[c] => session'[m] = session[m],
           session'[conn[c]] # "none" =>
               call[c].limit # "none" /\ pc'[c] \in {"lock", "wait", "granted", "unlock", "reset"},
           cancels' \subseteq cancels \cup {conn[c]},
           conn[c] \in cancels' => pc'[c] = "unlock",
           \A s \in Slot : lockOf[s] = conn[c] => pc'[c] \in {"wait", "granted", "unlock"}
    PROVE  CleanInv'
<1>1. CallCarries(c)
  BY CallOwns
<1>2. CallCarries(c)'
  BY <1>1 DEF CallCarries
<1>3. \A m \in Conn : m # conn[c] => Kept(m)
  BY DEF Kept, QuietCalls
<1> QED  BY <1>2, <1>3, CarriesOn

\* The timeout SET is the call's to reset.
LEMMA SetTimeoutClean ==
    ASSUME LeaseInv, CleanInv, NEW c \in Caller, SetTimeout(c)
    PROVE  CleanInv'
<1> USE LeaseConstants DEF SetTimeout, pool, layer
<1>1. CallsType /\ ServerType /\ Placed(c) /\ pc[c] = "set"
  BY DEF LeaseInv, LeaseTypeOK
<1>2. conn[c] \in Conn /\ CallCarries(c)
  BY <1>1, CallOwns DEF Placed
<1>3. (\A s \in Slot : lockOf[s] # conn[c]) /\ session[conn[c]] = "none" /\ conn[c] \notin cancels
  BY <1>1, <1>2 DEF CallCarries
<1>4. QuietCalls(c) /\ (pc'[c] = "lock" \/ (pc'[c] = "unlock" /\ session' = session))
  BY <1>1 DEF Throw, Goto, CallsType, QuietCalls
<1>5. /\ \A m \in Conn : m # conn[c] => session'[m] = session[m]
      /\ session'[conn[c]] # "none" => call[c].limit # "none" /\ pc'[c] = "lock"
  BY <1>1, <1>2, <1>3, <1>4 DEF ServerType, CallsType, Throw, Goto
<1> QED  BY <1>2, <1>3, <1>4, <1>5, MovesClean

\* A session that waits for a lock has none.
LEMMA SendLockClean ==
    ASSUME LeaseInv, CleanInv, NEW c \in Caller, SendLock(c)
    PROVE  CleanInv'
<1> USE LeaseConstants DEF SendLock, pool, layer
<1>1. CallsType /\ ServerType /\ Placed(c) /\ pc[c] = "lock"
  BY DEF LeaseInv, LeaseTypeOK
<1>2. conn[c] \in Conn /\ CallCarries(c)
  BY <1>1, CallOwns DEF Placed
<1>3. (\A s \in Slot : lockOf[s] # conn[c]) /\ conn[c] \notin cancels
  BY <1>1, <1>2 DEF CallCarries
<1>4. QuietCalls(c) /\ pc'[c] \in {"wait", "unlock"}
  BY <1>1 DEF Throw, Goto, CallsType, QuietCalls
<1>5. \A m \in Conn : m # conn[c] => waiting'[m] = waiting[m]
  BY <1>1 DEF ServerType
<1>6. CallCarries(c)'
  BY <1>2, <1>3, <1>4 DEF CallCarries
<1>7. \A m \in Conn : m # conn[c] => Kept(m)
  BY <1>4, <1>5 DEF Kept, QuietCalls
<1> QED  BY <1>2, <1>6, <1>7, CarriesOn

\* Lock s is given to session n, which had none.
LEMMA LockedOnce ==
    ASSUME LeaseInv, NEW n \in Conn, NEW s \in Slot, lockOf[s] # n, Available(s, n), LockBy(s, n)
    PROVE  /\ lockOf'[s] = n /\ depth'[s] = 1
           /\ \A t \in Slot : t # s => lockOf'[t] = lockOf[t] /\ depth'[t] = depth[t]
<1>1. ServerType /\ SlotOK(s) /\ lockOf[s] = NoConn
  BY DEF LeaseInv, LeaseTypeOK, Available
<1>2. depth[s] = 0
  BY <1>1 DEF SlotOK
<1> QED  BY <1>1, <1>2, Counts DEF LockBy, ServerType

\* The lock taken is the call's one lock.
LEMMA TryLockClean ==
    ASSUME LeaseInv, CleanInv, NEW c \in Caller, TryLock(c)
    PROVE  CleanInv'
<1> USE LeaseConstants DEF TryLock, pool, layer
<1>1. CallsType /\ ServerType /\ Placed(c) /\ Owned /\ pc[c] = "try"
  BY DEF LeaseInv, LeaseTypeOK
<1>2. conn[c] \in Conn /\ call[c].slot \in Slot /\ CallCarries(c) /\ ConnOK(conn[c])
  BY <1>1, CallOwns DEF Placed, LeaseInv
<1>3. (\A s \in Slot : lockOf[s] # conn[c]) /\ session[conn[c]] = "none" /\ conn[c] \notin cancels
  BY <1>1, <1>2 DEF CallCarries
<1>4. QuietCalls(c)
  BY <1>1 DEF Throw, Goto, CallsType, QuietCalls
<1>5. CASE UNCHANGED <<lockOf, depth>>
  BY <1>2, <1>3, <1>4, <1>5, MovesClean
<1>6. CASE /\ Available(call[c].slot, conn[c]) /\ LockBy(call[c].slot, conn[c])
           /\ pc'[c] = "granted"
  <2>1. /\ lockOf'[call[c].slot] = conn[c] /\ depth'[call[c].slot] = 1
        /\ \A t \in Slot : t # call[c].slot => lockOf'[t] = lockOf[t] /\ depth'[t] = depth[t]
    BY <1>2, <1>3, <1>6, LockedOnce
  <2>2. waiting[conn[c]] = NoSlot
    BY <1>1, <1>2, OwnStatement
  <2>3. CallCarries(c)'
    BY <1>3, <1>6, <2>1, <2>2 DEF CallCarries
  <2>4. \A m \in Conn : m # conn[c] => Kept(m)
    BY <1>2, <1>4, <2>1 DEF Kept, QuietCalls
  <2> QED  BY <1>2, <2>3, <2>4, CarriesOn
<1> QED  BY <1>1, <1>5, <1>6 DEF CallsType, Goto

\* The statement that is granted the lock is its owner's, even if the owner gave up.
LEMMA GrantClean ==
    ASSUME LeaseInv, CleanInv, NEW n \in Conn, Grant(n)
    PROVE  CleanInv'
<1> USE LeaseConstants DEF pool, layer
<1>1. ServerType /\ ConnOK(n) /\ waiting[n] # NoSlot /\ waiting[n] \in Slot
  BY DEF LeaseInv, LeaseTypeOK, ServerType, Grant, Answer
<1>2. PICK c \in Caller : conn[c] = n /\ pc[c] \in {"wait", "unlock"} /\ call[c].slot = waiting[n]
  BY <1>1 DEF ConnOK
<1>3. CallCarries(c) /\ \A s \in Slot : lockOf[s] # n
  BY <1>1, <1>2, CallOwns DEF CallCarries
<1>4. /\ lockOf'[waiting[n]] = n /\ depth'[waiting[n]] = 1
      /\ \A t \in Slot : t # waiting[n] => lockOf'[t] = lockOf[t] /\ depth'[t] = depth[t]
  BY <1>1, <1>3, LockedOnce DEF Grant
<1>5. /\ waiting'[n] = NoSlot /\ \A m \in Conn : m # n => waiting'[m] = waiting[m]
      /\ UNCHANGED <<session, cancels, heldLeases, pc, call, conn>>
  BY <1>1 DEF Grant, Answer, ServerType
<1>6. CallCarries(c)'
  <2>1. \A s \in Slot : lockOf'[s] = n => s = waiting[n]
    BY <1>3, <1>4
  <2>2. conn'[c] = n /\ call'[c] = call[c] /\ pc'[c] = pc[c] /\ session'[n] = session[n]
    BY <1>2, <1>5
  <2> QED  BY <1>2, <1>3, <1>4, <1>5, <2>1, <2>2 DEF CallCarries
<1>7. \A m \in Conn : m # n => Kept(m)
  BY <1>1, <1>4, <1>5 DEF Kept
<1> QED  BY <1>2, <1>5, <1>6, <1>7, CarriesOn

\* A lock statement that ends without the lock takes nothing away.
LEMMA EndsClean ==
    ASSUME LeaseInv, CleanInv, NEW n \in Conn, ServerTimeout(n) \/ CancelArrives(n)
    PROVE  CleanInv'
<1> USE DEF pool, layer, calls
<1>1. ServerType /\ Undone(n)
  BY DEF LeaseInv, LeaseTypeOK, CleanInv
<1>2. /\ waiting'[n] \in {waiting[n], NoSlot} /\ \A m \in Conn : m # n => waiting'[m] = waiting[m]
      /\ cancels' \subseteq cancels
      /\ UNCHANGED <<lockOf, depth, session, heldLeases, pc, call, conn>>
  BY <1>1 DEF ServerTimeout, CancelArrives, Answer, ServerType
<1>3. Undone(n)'
  BY <1>1, <1>2 DEF Undone, LocksOwned, TimeoutOwned, CancelOwned
<1>4. \A m \in Conn : m # n => Kept(m)
  BY <1>2 DEF Kept
<1> QED  BY <1>3, <1>4, UndoneKept DEF CleanInv

\* Nothing is left on the session of a dead backend.
LEMMA DiesClean ==
    ASSUME LeaseInv, CleanInv, NEW n \in Conn, BackendDies(n)
    PROVE  CleanInv'
<1> USE LeaseConstants DEF pool, layer, calls
<1>1. ServerType
  BY DEF LeaseInv, LeaseTypeOK
<1>2. Bare(n)'
  BY <1>1 DEF BackendDies, Bare, ServerType
<1>3. \A m \in Conn : m # n => waiting'[m] = waiting[m]
  BY <1>1 DEF BackendDies, Answer, ServerType
<1>4. /\ \A s \in Slot : lockOf'[s] # NoConn => lockOf'[s] = lockOf[s] /\ depth'[s] = depth[s]
      /\ \A m \in Conn : m # n => session'[m] = session[m]
      /\ cancels' \subseteq cancels
      /\ UNCHANGED <<heldLeases, pc, call, conn>>
  BY <1>1 DEF BackendDies, ServerType
<1>5. \A m \in Conn : m # n => Kept(m)
  BY <1>3, <1>4 DEF Kept
<1> QED  BY <1>2, <1>5, LeftBare

\* The answer is read, the signal fires, a transaction goes on.
LEMMA ReadReplyClean ==
    ASSUME LeaseInv, CleanInv, NEW c \in Caller, ReadReply(c)
    PROVE  CleanInv'
<1> USE LeaseConstants DEF ReadReply, pool, layer
<1>1. CallsType /\ Placed(c) /\ pc[c] = "wait"
  BY DEF LeaseInv, LeaseTypeOK
<1>2. conn[c] \in Conn /\ CallCarries(c)
  BY <1>1, CallOwns DEF Placed
<1>3. QuietCalls(c) /\ pc'[c] \in {"granted", "unlock"}
  BY <1>1 DEF Throw, Goto, CallsType, QuietCalls
<1>4. conn[c] \notin cancels /\ (session[conn[c]] # "none" => call[c].limit # "none")
  BY <1>1, <1>2 DEF CallCarries
<1> QED  BY <1>2, <1>3, <1>4, MovesClean

\* The cancel request a fired signal sends is owned by the call, which unlocks next.
LEMMA AbortClean ==
    ASSUME LeaseInv, CleanInv, NEW c \in Caller, Abort(c)
    PROVE  CleanInv'
<1> USE LeaseConstants DEF pool, layer
<1>1. CallsType /\ Placed(c)
  BY DEF LeaseInv, LeaseTypeOK
<1>2. CASE pc[c] = "reserve"
  <2>1. QuietCalls(c) /\ UNCHANGED <<server, heldLeases>> /\ conn[c] = NoConn
    BY <1>1, <1>2 DEF Abort, GiveUp, Settle, Goto, QuietCalls, CallsType, Placed
  <2> QED  BY <2>1, WithoutClean
<1>3. CASE pc[c] = "wait"
  <2>1. conn[c] \in Conn /\ CallCarries(c)
    BY <1>1, <1>3, CallOwns DEF Placed
  <2>2. /\ QuietCalls(c) /\ pc'[c] = "unlock" /\ cancels' \subseteq cancels \cup {conn[c]}
        /\ UNCHANGED <<lockOf, depth, session, waiting, heldLeases, call, conn>>
    BY <1>1, <1>3 DEF Abort, GiveUp, Throw, Goto, CallsType, QuietCalls
  <2>3. session[conn[c]] # "none" => call[c].limit # "none"
    BY <2>1 DEF CallCarries
  <2> QED  BY <2>1, <2>2, <2>3, MovesClean
<1>4. CASE pc[c] \notin {"reserve", "wait"}
  <2>1. UNCHANGED <<server, heldLeases, pc, call, conn>>
    BY <1>4 DEF Abort, GiveUp
  <2>2. \A m \in Conn : Kept(m)
    BY <2>1 DEF Kept, server
  <2> QED  BY <2>2, NoneTouched
<1> QED  BY <1>2, <1>3, <1>4

\* A transaction has no session-level lock and SETs no timeout.
LEMMA TxClean ==
    ASSUME LeaseInv, CleanInv, NEW c \in Caller,
           TxOpen(c) \/ \E e \in {"ok", "fnError"} : TxFnEnds(c, e)
    PROVE  CleanInv'
<1> USE LeaseConstants
<1>1. CallsType /\ Placed(c) /\ pc[c] \in {"txopen", "txfn"}
  BY DEF LeaseInv, LeaseTypeOK, TxOpen, TxFnEnds
<1>2. conn[c] \in Conn /\ CallCarries(c)
  BY <1>1, CallOwns DEF Placed
<1>3. (\A s \in Slot : lockOf[s] # conn[c]) /\ session[conn[c]] = "none" /\ conn[c] \notin cancels
  BY <1>1, <1>2 DEF CallCarries
<1>4. QuietCalls(c) /\ UNCHANGED <<server, heldLeases, call, conn>>
  BY <1>1 DEF TxOpen, TxFnEnds, Goto, CallsType, QuietCalls
<1> QED  BY <1>2, <1>3, <1>4, MovesClean DEF server

\* A lease takes over what its connection carries, and a release takes it back.
LEMMA GrantedClean ==
    ASSUME LeaseInv, CleanInv, NEW c \in Caller, Granted(c)
    PROVE  CleanInv'
<1> USE LeaseConstants DEF pool
<1>1. CallsType /\ Placed(c) /\ pc[c] = "granted"
  BY DEF LeaseInv, LeaseTypeOK, Granted
<1>2. conn[c] \in Conn /\ CallCarries(c)
  BY <1>1, CallOwns DEF Placed
<1>3. conn[c] \notin cancels /\ (session[conn[c]] # "none" => call[c].limit # "none")
  BY <1>1, <1>2 DEF CallCarries
<1>4. UNCHANGED server /\ QuietCalls(c)
  BY <1>1 DEF Granted, Throw, Settle, Goto, CallsType, QuietCalls
<1>5. CASE UNCHANGED <<heldLeases, call, conn>> /\ pc'[c] = "unlock"
  BY <1>2, <1>3, <1>4, <1>5, MovesClean DEF server
<1>6. CASE heldLeases' = heldLeases \cup {[token |-> nextToken, conn |-> conn[c],
                                           slot |-> call[c].slot, limit |-> call[c].limit]}
  <2>1. PICK l : l = [token |-> nextToken, conn |-> conn[c],
                      slot |-> call[c].slot, limit |-> call[c].limit]
    OBVIOUS
  <2>2. /\ l \in heldLeases' /\ l.conn = conn[c] /\ l.slot = call[c].slot
        /\ l.limit = call[c].limit
    BY <1>6, <2>1
  <2>3. LeaseCarries(l)'
    BY <1>2, <1>3, <1>4, <2>2 DEF LeaseCarries, CallCarries, server
  <2>4. \A m \in Conn : m # conn[c] => Kept(m)
    BY <1>4, <1>6 DEF Kept, QuietCalls, server
  <2> QED  BY <1>2, <2>2, <2>3, <2>4, LeaseCarriesOn
<1> QED  BY <1>1, <1>5, <1>6 DEF Granted, Throw, Goto, CallsType

\* The call that takes a lease off the record carries on with its connection.
LEMMA TakeClean ==
    ASSUME LeaseInv, CleanInv, NEW c \in Caller, conn[c] = NoConn, NEW k \in heldLeases,
           heldLeases' = heldLeases \ {k}, QuietCalls(c), UNCHANGED server,
           pc'[c] = "unlock", conn'[c] = k.conn,
           call'[c].slot = k.slot, call'[c].limit = k.limit
    PROVE  CleanInv'
<1> USE LeaseConstants DEF server
<1>1. LeaseCarries(k) /\ k.conn \in Conn
  BY LeaseOwns DEF LeaseInv, LeaseTypeOK, LayerType, LeaseRecord
<1>2. CallCarries(c)'
  BY <1>1 DEF LeaseCarries, CallCarries
<1>3. \A m \in Conn : m # k.conn => Kept(m)
  BY DEF Kept, QuietCalls
<1> QED  BY <1>1, <1>2, <1>3, CarriesOn

\* releaseLease, of a lease on record or not.
LEMMA ReleaseLeaseClean ==
    ASSUME LeaseInv, CleanInv, NEW c \in Caller, NEW t \in 1 .. MaxLeases, ReleaseLease(c, t)
    PROVE  CleanInv'
<1>1. CallsType /\ Placed(c) /\ pc[c] = "idle" /\ conn[c] = NoConn /\ UNCHANGED server
  BY DEF LeaseInv, LeaseTypeOK, ReleaseLease, Placed
<1>2. ASSUME NEW k \in Leases(t), TakeLease(c, k),
             call' = [call EXCEPT ![c] =
                        [NoCall EXCEPT !.slot = k.slot, !.limit = k.limit, !.token = t]]
      PROVE  CleanInv'
  <2>1. QuietCalls(c) /\ pc'[c] = "unlock" /\ conn'[c] = k.conn
    BY <1>1, <1>2 DEF ReleaseLease, TakeLease, Goto, CallsType, QuietCalls
  <2>2. call'[c].slot = k.slot /\ call'[c].limit = k.limit
    BY <1>1, <1>2 DEF CallsType, NoCall
  <2> QED  BY <1>1, <1>2, <2>1, <2>2, TakeClean DEF TakeLease, Leases
<1>3. CASE UNCHANGED <<pc, call, conn, heldLeases>>
  <2>1. \A m \in Conn : Kept(m)
    BY <1>1, <1>3 DEF Kept, server
  <2> QED  BY <2>1, NoneTouched
<1> QED  BY <1>2, <1>3 DEF ReleaseLease

\* withLease releases the lease of its own call, or finds it gone.
LEMMA FnEndsClean ==
    ASSUME LeaseInv, CleanInv, NEW c \in Caller, NEW r \in {"ok", "threw"}, FnEnds(c, r)
    PROVE  CleanInv'
<1>1. /\ CallsType /\ Lapsing(c) /\ pc[c] = "fn" /\ conn[c] = NoConn
      /\ UNCHANGED <<server, call>> /\ QuietCalls(c)
  <2>1. CallsType /\ Lapsing(c) /\ Placed(c)
    BY DEF LeaseInv, LeaseTypeOK
  <2> QED  BY <2>1 DEF FnEnds, TakeLease, Goto, CallsType, QuietCalls, Placed
<1>2. ASSUME NEW k \in Leases(call[c].token), TakeLease(c, k) PROVE CleanInv'
  <2>1. k \in heldLeases /\ k.slot = call[c].slot /\ k.limit = call[c].limit
    BY <1>1 DEF Leases, Lapsing, OwnLease
  <2>2. pc'[c] = "unlock" /\ conn'[c] = k.conn /\ heldLeases' = heldLeases \ {k}
    BY <1>1, <1>2 DEF TakeLease, Goto, CallsType
  <2> QED  BY <1>1, <2>1, <2>2, TakeClean
<1>3. CASE UNCHANGED heldLeases
  BY <1>1, <1>3, WithoutClean
<1> QED  BY <1>2, <1>3 DEF FnEnds

\* The unlock reaches the server, so the session's one lock is gone.
LEMMA UnlockClean ==
    ASSUME LateCancel = FALSE, LeaseInv, CleanInv, NEW c \in Caller, Unlock(c)
    PROVE  CleanInv'
<1> USE LeaseConstants DEF pool, layer
<1>1. CallsType /\ ServerType /\ Placed(c) /\ pc[c] = "unlock" /\ conn[c] \notin cancels
  BY DEF LeaseInv, LeaseTypeOK, Unlock
<1>2. conn[c] \in Conn /\ call[c].slot \in Slot /\ CallCarries(c)
  BY <1>1, CallOwns DEF Placed
<1>3. /\ UNCHANGED <<session, waiting, heldLeases, call, conn, cancels>>
      /\ QuietCalls(c) /\ pc'[c] = "reset"
  BY <1>1 DEF Unlock, UnlockFault, CancelHits, Goto, CallsType, QuietCalls
<1>4. CASE conn[c] \notin alive /\ UNCHANGED <<lockOf, depth>>
  <2>1. \A s \in Slot : lockOf[s] # conn[c]
    BY <1>2, <1>4 DEF LeaseInv, SlotOK
  <2> QED  BY <1>1, <1>2, <1>3, <1>4, <2>1, MovesClean DEF CallCarries
<1>5. CASE UnlockBy(call[c].slot, conn[c])
  <2>1. \A s \in Slot : lockOf[s] = conn[c] => s = call[c].slot /\ depth[s] = 1
    BY <1>2 DEF CallCarries
  <2>2. \A s \in Slot : lockOf'[s] # conn[c]
    BY <1>1, <1>2, <1>5, <2>1 DEF UnlockBy, ServerType
  <2>3. \A s \in Slot : lockOf[s] # conn[c] => lockOf'[s] = lockOf[s] /\ depth'[s] = depth[s]
    BY <1>1, <1>2, <1>5 DEF UnlockBy, ServerType
  <2>4. \A s \in Slot : lockOf[s] = conn[c] => lockOf'[s] = NoConn
    BY <1>1, <1>2, <1>5, <2>1 DEF UnlockBy, ServerType
  <2>5. CallCarries(c)'
    BY <1>1, <1>2, <1>3, <2>2 DEF CallCarries
  <2>6. \A m \in Conn : m # conn[c] => Kept(m)
    BY <1>3, <2>3, <2>4 DEF Kept, QuietCalls
  <2> QED  BY <1>2, <1>3, <2>5, <2>6, CarriesOn
<1> QED  BY <1>1, <1>4, <1>5 DEF Unlock, CancelHits, Dead

\* So does the reset.
LEMMA ResetClean ==
    ASSUME LeaseInv, CleanInv, NEW c \in Caller, resetStatementTimeout(c)
    PROVE  CleanInv'
<1> USE LeaseConstants DEF pool, layer
<1>1. CallsType /\ ServerType /\ Placed(c) /\ pc[c] = "reset"
  BY DEF LeaseInv, LeaseTypeOK, resetStatementTimeout
<1>2. conn[c] \in Conn /\ CallCarries(c)
  BY <1>1, CallOwns DEF Placed
<1>3. conn[c] \notin cancels /\ (\A s \in Slot : lockOf[s] # conn[c])
  BY <1>1, <1>2 DEF CallCarries
<1>4. /\ cancels' = cancels
      /\ session' = [session EXCEPT ![conn[c]] = IF hadTimeout(c) THEN "none" ELSE @]
      /\ UNCHANGED <<lockOf, depth, waiting, heldLeases, call, conn>>
  BY <1>3 DEF resetStatementTimeout, CancelHits
<1>5. QuietCalls(c) /\ pc'[c] = "release"
  BY <1>1 DEF resetStatementTimeout, Goto, CallsType, QuietCalls
<1>6. session'[conn[c]] = "none" /\ \A m \in Conn : m # conn[c] => session'[m] = session[m]
  BY <1>1, <1>2, <1>4 DEF ServerType, hadTimeout, CallCarries
<1> QED  BY <1>2, <1>3, <1>4, <1>5, <1>6, MovesClean

\* The connection returns to the pool with nothing on it.
LEMMA ReturnedClean ==
    ASSUME LeaseInv, CleanInv, NEW c \in Caller, Release(c) \/ TxClose(c)
    PROVE  CleanInv'
<1> USE LeaseConstants DEF pool, layer
<1>1. CallsType /\ pc[c] \in {"release", "txclose"}
  BY DEF LeaseInv, LeaseTypeOK, Release, TxClose
<1>2. QuietCalls(c) /\ UNCHANGED <<server, heldLeases>>
  BY <1>1 DEF Release, TxClose, Settle, Goto, CallsType, QuietCalls
<1>3. CASE conn[c] = NoConn
  BY <1>2, <1>3, WithoutClean
<1>4. CASE conn[c] \in Conn
  <2>1. PICK n : n = conn[c]
    OBVIOUS
  <2>2. CallCarries(c)
    BY <1>4, CallOwns
  <2>3. Bare(n)'
    BY <1>1, <1>2, <2>1, <2>2 DEF Bare, CallCarries, server
  <2>4. \A m \in Conn : m # n => Kept(m)
    BY <1>2, <2>1 DEF Kept, QuietCalls, server
  <2> QED  BY <2>3, <2>4, LeftBare
<1> QED  BY <1>1, <1>3, <1>4 DEF CallsType

\* Without late cancel requests every step keeps what is on a connection owned.
LEMMA NextClean ==
    ASSUME LateCancel = FALSE, SameTickAbort = FALSE, LeaseInv, CleanInv, [Next]_vars
    PROVE  CleanInv'
<1> USE LeaseConstants
<1>1. CASE UNCHANGED vars
  <2>1. \A m \in Conn : Kept(m)
    BY <1>1 DEF Kept, vars, server, pool, layer, calls
  <2> QED  BY <2>1, NoneTouched
<1>2. ASSUME NEW c \in Caller, Continue(c) PROVE CleanInv'
  BY <1>2, SetTimeoutClean, SendLockClean, TryLockClean, ReadReplyClean, GrantedClean,
     UnlockClean, ResetClean, ReturnedClean, TxClean DEF Continue
<1>3. ASSUME NEW c \in Caller, NEW a \in Calls, CallBegin(c, a) \/ CallRejected(c, a)
      PROVE  CleanInv'
  <2>1. CallsType /\ Placed(c)
    BY DEF LeaseInv, LeaseTypeOK
  <2>2. conn[c] = NoConn /\ QuietCalls(c) /\ UNCHANGED <<server, heldLeases>>
    BY <1>3, <2>1 DEF CallBegin, CallRejected, Goto, Placed, CallsType, QuietCalls, layer
  <2> QED  BY <2>2, WithoutClean
<1>4. ASSUME NEW c \in Caller, ReserveFails(c) \/ ReserveTimeout(c) PROVE CleanInv'
  <2>1. CallsType /\ Placed(c)
    BY DEF LeaseInv, LeaseTypeOK
  <2>2. conn[c] = NoConn /\ QuietCalls(c) /\ UNCHANGED <<server, heldLeases>>
    BY <1>4, <2>1 DEF ReserveFails, ReserveTimeout, GiveUp, Settle, Goto, Placed, CallsType,
       QuietCalls, layer
  <2> QED  BY <2>2, WithoutClean
<1>5. ASSUME NEW n \in Conn, \/ OrphanReserved(n) \/ Grant(n) \/ ServerTimeout(n)
                             \/ CancelArrives(n) \/ BackendDies(n)
      PROVE  CleanInv'
  BY <1>5, OrphanClean, GrantClean, EndsClean, DiesClean
<1> QED
  BY <1>1, <1>2, <1>3, <1>4, <1>5, AbortClean, ReserveClean, ReleaseLeaseClean,
     FnEndsClean, TxClean DEF Next

\* When no cancel request is late and no signal fires between a reservation and its
\* callbacks, a connection in the pool has no lock and no timeout of an earlier user,
\* however the calls ended.
THEOREM PoolStaysClean ==
    ASSUME LateCancel = FALSE, SameTickAbort = FALSE
    PROVE  Spec => []PoolClean
<1>1. Init => CleanInv
  <2> SUFFICES ASSUME Init, NEW n \in Conn PROVE Undone(n)
    BY DEF CleanInv
  <2>1. n # NoConn /\ session[n] = "none" /\ n \notin cancels /\ \A s \in Slot : lockOf[s] = NoConn
    BY LeaseConstants DEF Init
  <2> QED  BY <2>1 DEF Undone, LocksOwned, TimeoutOwned, CancelOwned
<1>2. LeaseInv /\ CleanInv /\ [Next]_vars => CleanInv'
  BY NextClean
<1>3. LeaseInv /\ CleanInv => PoolClean
  <2> SUFFICES ASSUME LeaseInv, CleanInv PROVE PoolClean
    OBVIOUS
  <2>1. \A s \in Slot : lockOf[s] # NoConn => lockOf[s] \in reserved
    BY PoolBare DEF LeaseInv, LeaseTypeOK, ServerType, Bare
  <2>2. \A n \in Conn : session[n] # "none" => n \in reserved
    BY PoolBare DEF Bare
  <2> QED  BY <2>1, <2>2 DEF PoolClean, NoLockInPool
<1> QED  BY <1>1, <1>2, <1>3, LeaseInvariant, PTL DEF Spec

-----------------------------------------------------------------------------
(* Counting hands *)

INSTANCE FiniteSetTheorems

\* A set with one element at most counts 1 or 0.
LEMMA CountOne ==
    ASSUME NEW S, \A x, y \in S : x = y
    PROVE  Cardinality(S) = IF S = {} THEN 0 ELSE 1
<1>1. CASE S = {}
  BY <1>1, FS_EmptySet
<1>2. CASE S # {}
  <2>1. PICK x \in S : TRUE
    BY <1>2
  <2>2. S = {x}
    BY <2>1
  <2>3. Cardinality({x}) = 1
    BY FS_Singleton
  <2> QED  BY <1>2, <2>2, <2>3
<1> QED  BY <1>1, <1>2

\* No connection leaks and none has two owners, for any number of callers: it is out
\* of the pool exactly when one call or one lease has it; and a handle that resolves
\* is of a transaction that is still open.  Again without a signal that fires between
\* a reservation and its callbacks.
THEOREM NoneLeaks ==
    ASSUME SameTickAbort = FALSE
    PROVE  Spec => []ConnectionsAccounted
<1>1. LeaseInv => ConnectionsAccounted
  <2> SUFFICES ASSUME LeaseInv PROVE ConnectionsAccounted
    OBVIOUS
  <2>1. ASSUME NEW n \in Conn
        PROVE  Cardinality({c \in Caller : conn[c] = n})
                   + Cardinality({l \in heldLeases : l.conn = n})
                 = (IF n \in reserved THEN 1 ELSE 0)
    <3> DEFINE C == {c \in Caller : conn[c] = n}
               L == {l \in heldLeases : l.conn = n}
    <3>1. (\A c, d \in C : c = d) /\ (\A l, m \in L : l = m)
      BY OneHand DEF LeaseInv
    <3>2. C = {} \/ L = {}
      <4> SUFFICES ASSUME NEW c \in Caller, conn[c] = n, NEW l \in heldLeases, l.conn = n
                   PROVE  FALSE
        OBVIOUS
      <4> QED  BY OneHand DEF LeaseInv
    <3>3. n \in reserved <=> C # {} \/ L # {}
      BY OneHand DEF LeaseInv
    <3>4. /\ Cardinality(C) = IF C = {} THEN 0 ELSE 1
          /\ Cardinality(L) = IF L = {} THEN 0 ELSE 1
      BY <3>1, CountOne
    <3> HIDE DEF C, L
    <3>5. Cardinality(C) + Cardinality(L) = (IF n \in reserved THEN 1 ELSE 0)
      BY SMT, <3>2, <3>3, <3>4
    <3> QED  BY <3>5 DEF C, L
  <2> QED  BY <2>1 DEF LeaseInv, Handles, ConnectionsAccounted
<1> QED  BY <1>1, LeaseInvariant, PTL
=============================================================================
