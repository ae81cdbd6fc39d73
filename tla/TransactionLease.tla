--------------------------- MODULE TransactionLease ---------------------------
(***************************************************************************)
(* PgTransactionLeaseLayer (src/postgres/transaction-lease.ts): writer     *)
(* leases as session-level advisory locks on reserved pool connections,    *)
(* and transactions that lend their connection out through a registry of   *)
(* handles.                                                                *)
(*                                                                         *)
(* A step is what happens between two awaits of a call, or one event on    *)
(* the server or the wire: a lock granted, a timeout, a cancel request     *)
(* arriving, a backend dying.  The abort signal of a call may fire between *)
(* any two of them.  Two races the code loses can be switched off, so that *)
(* what holds without them can be stated: LateCancel and SameTickAbort.    *)
(***************************************************************************)
EXTENDS Integers, FiniteSets

CONSTANTS
    Caller,        \* concurrent calls on the layer
    Key,           \* lease keys
    Slot,          \* advisory-lock ids, the values of hashtext(key)
    Hash,          \* [Key -> Slot]; two keys may collide
    Conn,          \* the connections of the pool (maxConnections of them)
    Calls,         \* the argument records callers use, see CallType
    LateCancel,    \* may a cancel request arrive after its statement ended?
    SameTickAbort, \* may a signal fire between a reservation and its callbacks?
    MaxLeases,     \* bound: leases granted in a behaviour
    MaxDeaths,     \* bound: backends that die in a behaviour
    MaxOrphans,    \* bound: abandoned reservations queued at once
    MaxDepth,      \* bound: times a session holds one lock
    NoConn, NoSlot \* "none" values

(***************************************************************************)
(* limit abstracts opts.timeoutMs by what it is compared with: "short" is  *)
(* below the lock_timeout of every connection (client.ts), "long" above it.*)
(***************************************************************************)
Limit == {"none", "short", "long"}
CallType == [op : {"acquire", "try", "with", "tx"}, key : Key, limit : Limit,
             signal : BOOLEAN, callback : BOOLEAN]

ASSUME LeaseConstants ==
    /\ Hash \in [Key -> Slot]
    /\ Calls \subseteq CallType
    /\ LateCancel \in BOOLEAN /\ SameTickAbort \in BOOLEAN
    /\ MaxLeases \in Nat /\ MaxDeaths \in Nat
    /\ MaxOrphans \in Nat /\ MaxDepth \in Nat
    /\ NoConn \notin Conn /\ NoSlot \notin Slot

VARIABLES
    reserved,      \* connections out of the pool (the driver's view)
    abandoned,     \* reservations given up on, still queued in the driver
    alive,         \* connections whose backend lives
    lockOf,        \* the session holding each advisory lock: [Slot -> Conn or NoConn]
    depth,         \* how many times it locked it: [Slot -> Nat]
    session,       \* statement_timeout SET on the session: [Conn -> Limit]
    waiting,       \* the lock statement a backend executes: [Conn -> Slot or NoSlot]
    reply,         \* its answer, not read yet: [Conn -> Reply]
    cancels,       \* connections a cancel request is under way to
    heldLeases,    \* the layer's map: records [token, conn, slot, limit]
    nextToken,     \* 1 + the number of leases granted
    activeTransactions, \* registered handles: records [caller, conn]
    pc, call, conn, why, fn, aborted, out,   \* the calls
    lapsed,        \* withLease calls whose lock went to someone else during fn
    deaths

server == <<alive, lockOf, depth, session, waiting, reply, cancels>>
pool   == <<reserved, abandoned>>
layer  == <<heldLeases, nextToken, activeTransactions>>
calls  == <<pc, call, conn, why, fn, aborted, out, lapsed>>
vars   == <<server, pool, layer, calls, deaths>>

Reply  == {"none", "granted", "57014", "55P03", "lost"}
Errors == {"LeaseTimeoutError", "AbortError", "connection-lost", "reserve-failed",
           "LeaseNotHeldError", "fnError"}
Labels == {"idle", "reserve", "set", "lock", "wait", "try", "granted", "fn",
           "unlock", "reset", "release", "txopen", "txfn", "txclose"}

NoOutcome == [thrown |-> {}, notified |-> FALSE]
NoCall == [op |-> "release", slot |-> NoSlot, limit |-> "none",
           signal |-> FALSE, callback |-> FALSE, token |-> 0]
Init ==
    /\ reserved = {} /\ abandoned = 0
    /\ alive = Conn /\ cancels = {}
    /\ lockOf = [s \in Slot |-> NoConn]
    /\ depth = [s \in Slot |-> 0]
    /\ session = [n \in Conn |-> "none"]
    /\ waiting = [n \in Conn |-> NoSlot]
    /\ reply = [n \in Conn |-> "none"]
    /\ heldLeases = {} /\ nextToken = 1 /\ activeTransactions = {}
    /\ pc = [c \in Caller |-> "idle"]
    /\ call = [c \in Caller |-> NoCall]
    /\ conn = [c \in Caller |-> NoConn]
    /\ why = [c \in Caller |-> "ok"]
    /\ fn = [c \in Caller |-> "none"]
    /\ aborted = {} /\ lapsed = {} /\ deaths = 0
    /\ out = [c \in Caller |-> NoOutcome]

hadTimeout(c)  == call[c].limit # "none"
Dead(c)        == conn[c] \notin alive
Goto(c, label) == pc' = [pc EXCEPT ![c] = label]
\* Mutant of Throw: no defensive unlock in the catch block.
ThrowWithoutUnlock(c, e) == why' = [why EXCEPT ![c] = e] /\ Goto(c, "reset")
\* A step of the acquire path throws e into the catch block.
Throw(c, e)    == why' = [why EXCEPT ![c] = e] /\ Goto(c, "unlock")
\* The call settles; its connection, if it had one, is out of its hands.
Settle(c, outcome) ==
    /\ Goto(c, "idle")
    /\ out' = [out EXCEPT ![c] = outcome]
    /\ conn' = [conn EXCEPT ![c] = NoConn]
    /\ call' = [call EXCEPT ![c] = NoCall]
    /\ why' = [why EXCEPT ![c] = "ok"]
    /\ fn' = [fn EXCEPT ![c] = "none"]
    /\ aborted' = aborted \ {c}
    /\ lapsed' = lapsed \ {c}
Rejects(e) == [thrown |-> {e} \ {"ok"}, notified |-> FALSE]

-----------------------------------------------------------------------------
(* Starting a call and reserving a connection *)

Reserving == {c \in Caller : pc[c] = "reserve"}
Acquiring == {c \in Caller : pc[c] # "idle" /\ call[c].op \in {"acquire", "try", "with"}
                             /\ call[c].token = 0}
Bounded == /\ nextToken + Cardinality(Acquiring) <= MaxLeases
           /\ abandoned + Cardinality(Reserving) < MaxOrphans

\* Entry of acquireLease, tryAcquireLease, withLease and withTransaction.
CallBegin(c, a) ==
    /\ pc[c] = "idle" /\ Bounded
    /\ call' = [call EXCEPT ![c] = [op |-> a.op, slot |-> Hash[a.key], limit |-> a.limit,
                                    signal |-> a.signal, callback |-> a.callback, token |-> 0]]
    /\ out' = [out EXCEPT ![c] = NoOutcome]
    /\ Goto(c, "reserve")
    /\ UNCHANGED <<server, pool, layer, conn, why, fn, aborted, lapsed, deaths>>

\* The signal was aborted before the call: nothing is reserved.
CallRejected(c, a) ==
    /\ pc[c] = "idle" /\ a.signal
    /\ out' = [out EXCEPT ![c] = Rejects("AbortError")]
    /\ UNCHANGED <<server, pool, layer, pc, call, conn, why, fn, aborted, lapsed, deaths>>

AfterReserve(c) ==
    IF call[c].op = "tx" THEN "txopen"
    ELSE IF hadTimeout(c) THEN "set"
    ELSE IF call[c].op = "try" THEN "try" ELSE "lock"

\* Does the signal fire after the reservation has resolved and before its
\* callbacks run?  A timer cannot: it waits for the callbacks.
FiresBetween(c) ==
    IF SameTickAbort /\ call[c].op # "tx" /\ call[c].signal THEN BOOLEAN ELSE {FALSE}

\* sql.reserve() resolves with a pooled connection, reconnected if it had died,
\* and the call goes on with it.  If the signal fires in between, the first
\* callback sees gaveUp and releases the connection, and the second has won the
\* race all the same: the call goes on with a connection that is in the pool.
Reserve(c, n) ==
    /\ pc[c] = "reserve" /\ n \notin reserved
    /\ \E fires \in FiresBetween(c) :
         /\ reserved' = IF fires THEN reserved ELSE reserved \cup {n}
         /\ aborted' = IF fires THEN aborted \cup {c} ELSE aborted
    /\ alive' = alive \cup {n}
    /\ conn' = [conn EXCEPT ![c] = n]
    /\ Goto(c, AfterReserve(c))
    /\ UNCHANGED <<lockOf, depth, session, waiting, reply, cancels, abandoned, layer,
                   call, why, fn, out, lapsed, deaths>>

\* ... or it rejects, when the server cannot be reached.
ReserveFails(c) ==
    /\ pc[c] = "reserve" /\ ~ Conn \subseteq alive \cup reserved
    /\ Settle(c, Rejects(IF call[c].op = "tx" THEN "connection-lost" ELSE "reserve-failed"))
    /\ UNCHANGED <<server, pool, layer, deaths>>

\* reserveBounded loses patience; the driver's reservation stays queued.
GiveUp(c, outcome) ==
    /\ pc[c] = "reserve" /\ call[c].op # "tx"
    /\ abandoned' = abandoned + 1
    /\ Settle(c, outcome)
    /\ UNCHANGED <<server, reserved, layer, deaths>>

\* Mutant: timeoutMs bounds the lock wait only, unless the call is a tryAcquireLease.
ReserveTimeoutTryOnly(c) == call[c].op = "try" /\ hadTimeout(c) /\ GiveUp(c, NoOutcome)

ReserveTimeout(c) ==
    /\ hadTimeout(c)
    /\ GiveUp(c, IF call[c].op = "try" THEN NoOutcome ELSE Rejects("LeaseTimeoutError"))

\* Mutant: nobody releases the connection of a reservation given up on.
OrphanKept(n) ==
    /\ abandoned > 0 /\ n \notin reserved
    /\ abandoned' = abandoned - 1
    /\ alive' = alive \cup {n}
    /\ reserved' = reserved \cup {n}
    /\ UNCHANGED <<lockOf, depth, session, waiting, reply, cancels, layer, calls, deaths>>

\* The queued reservation resolves after all and is released at once.
OrphanReserved(n) ==
    /\ abandoned > 0 /\ n \notin reserved
    /\ abandoned' = abandoned - 1
    /\ alive' = alive \cup {n}
    /\ UNCHANGED <<reserved, lockOf, depth, session, waiting, reply, cancels, layer, calls, deaths>>

-----------------------------------------------------------------------------
(* Waiting for the lock *)

SetTimeout(c) ==
    /\ pc[c] = "set"
    /\ \/ Dead(c) /\ Throw(c, "connection-lost") /\ UNCHANGED session
       \/ /\ ~Dead(c)
          /\ session' = [session EXCEPT ![conn[c]] = call[c].limit]
          /\ Goto(c, "lock") /\ UNCHANGED why
    /\ UNCHANGED <<alive, lockOf, depth, waiting, reply, cancels, pool, layer,
                   call, conn, fn, aborted, out, lapsed, deaths>>

\* raceAgainstAbort: a signal that fired in the meantime withdraws the query.
SendLock(c) ==
    /\ pc[c] = "lock"
    /\ \/ c \in aborted /\ Throw(c, "AbortError") /\ UNCHANGED waiting
       \/ c \notin aborted /\ Dead(c) /\ Throw(c, "connection-lost") /\ UNCHANGED waiting
       \/ /\ c \notin aborted /\ ~Dead(c)
          /\ waiting' = [waiting EXCEPT ![conn[c]] = call[c].slot]
          /\ Goto(c, "wait") /\ UNCHANGED why
    /\ UNCHANGED <<alive, lockOf, depth, session, reply, cancels, pool, layer,
                   call, conn, fn, aborted, out, lapsed, deaths>>

\* The withLease bodies running under slot s when a session n is given its lock.
Losing(s, n) == {c \in Caller : pc[c] = "fn" /\ call[c].slot = s /\ lockOf[s] # n}
\* Advisory locks are re-entrant within a session.
Available(s, n) == lockOf[s] \in {NoConn, n}
LockBy(s, n) ==
    /\ depth[s] < MaxDepth
    /\ lockOf' = [lockOf EXCEPT ![s] = n]
    /\ depth' = [depth EXCEPT ![s] = @ + 1]
    /\ lapsed' = lapsed \cup Losing(s, n)
UnlockBy(s, n) ==
    /\ lockOf' = [lockOf EXCEPT ![s] = IF @ = n /\ depth[s] = 1 THEN NoConn ELSE @]
    /\ depth' = [depth EXCEPT ![s] = IF lockOf[s] = n THEN @ - 1 ELSE @]

\* pg_try_advisory_lock; when it answers false the connection goes straight back.
TryLock(c) ==
    /\ pc[c] = "try"
    /\ \/ Dead(c) /\ Throw(c, "connection-lost") /\ UNCHANGED <<lockOf, depth, lapsed>>
       \/ /\ ~Dead(c) /\ Available(call[c].slot, conn[c])
          /\ LockBy(call[c].slot, conn[c])
          /\ Goto(c, "granted") /\ UNCHANGED why
       \/ /\ ~Dead(c) /\ ~Available(call[c].slot, conn[c])
          /\ Goto(c, "release") /\ UNCHANGED <<why, lockOf, depth, lapsed>>
    /\ UNCHANGED <<alive, session, waiting, reply, cancels, pool, layer,
                   call, conn, fn, aborted, out, deaths>>

\* The lock statement on n ends with answer r, which only a caller still waiting reads.
Answer(n, r) ==
    /\ waiting[n] # NoSlot
    /\ waiting' = [waiting EXCEPT ![n] = NoSlot]
    /\ reply' = [reply EXCEPT ![n] =
                    IF \E c \in Caller : conn[c] = n /\ pc[c] = "wait" THEN r ELSE "none"]

Grant(n) ==
    /\ Answer(n, "granted") /\ Available(waiting[n], n)
    /\ LockBy(waiting[n], n)
    /\ UNCHANGED <<alive, session, cancels, pool, layer,
                   pc, call, conn, why, fn, aborted, out, deaths>>

\* The session's own statement_timeout, or the lock_timeout every connection has,
\* whichever is shorter, ends the wait.
ServerTimeout(n) ==
    /\ Answer(n, IF session[n] = "short" THEN "57014" ELSE "55P03")
    /\ UNCHANGED <<alive, lockOf, depth, session, cancels, pool, layer, calls, deaths>>

\* A cancel request ends the statement its connection is executing, if any.
CancelArrives(n) ==
    /\ n \in cancels
    /\ cancels' = cancels \ {n}
    /\ Answer(n, "57014") \/ (waiting[n] = NoSlot /\ UNCHANGED <<waiting, reply>>)
    /\ UNCHANGED <<alive, lockOf, depth, session, pool, layer, calls, deaths>>

\* A backend dies and the server drops its locks.  An answer already sent still arrives.
BackendDies(n) ==
    /\ n \in alive /\ deaths < MaxDeaths
    /\ deaths' = deaths + 1
    /\ alive' = alive \ {n}
    /\ cancels' = cancels \ {n}
    /\ lockOf' = [s \in Slot |-> IF lockOf[s] = n THEN NoConn ELSE lockOf[s]]
    /\ depth' = [s \in Slot |-> IF lockOf[s] = n THEN 0 ELSE depth[s]]
    /\ session' = [session EXCEPT ![n] = "none"]
    /\ Answer(n, "lost") \/ (waiting[n] = NoSlot /\ UNCHANGED <<waiting, reply>>)
    /\ UNCHANGED <<pool, layer, calls>>

\* The error a failed lock statement becomes: acquireLease and withLease report a
\* timeout of their own as LeaseTimeoutError, tryAcquireLease as null.
LockError(c, r) ==
    IF r = "57014" /\ hadTimeout(c)
    THEN IF call[c].op = "try" THEN "ok" ELSE "LeaseTimeoutError"
    ELSE "connection-lost"

ReadReply(c) ==
    /\ pc[c] = "wait" /\ reply[conn[c]] # "none"
    /\ reply' = [reply EXCEPT ![conn[c]] = "none"]
    /\ \/ reply[conn[c]] = "granted" /\ Goto(c, "granted") /\ UNCHANGED why
       \/ reply[conn[c]] # "granted" /\ Throw(c, LockError(c, reply[conn[c]]))
    /\ UNCHANGED <<alive, lockOf, depth, session, waiting, cancels, pool, layer,
                   call, conn, fn, aborted, out, lapsed, deaths>>

\* The signal fires.  Listeners are installed while reserving and while waiting;
\* elsewhere only a later check sees it.
Abort(c) ==
    /\ call[c].signal /\ c \notin aborted
    /\ \/ GiveUp(c, Rejects("AbortError"))
       \/ /\ pc[c] = "wait"
          /\ cancels' = IF Dead(c) THEN cancels ELSE cancels \cup {conn[c]}
          /\ reply' = [reply EXCEPT ![conn[c]] = "none"]
          /\ Throw(c, "AbortError")
          /\ aborted' = aborted \cup {c}
          /\ UNCHANGED <<alive, lockOf, depth, session, waiting, pool, layer,
                         call, conn, fn, out, lapsed, deaths>>
       \/ /\ pc[c] \in {"set", "lock", "try", "granted"}
          /\ aborted' = aborted \cup {c}
          /\ UNCHANGED <<server, pool, layer, pc, call, conn, why, fn, out, lapsed, deaths>>

\* The lock is ours: re-check the signal, then register the lease under a new token.
Granted(c) ==
    /\ pc[c] = "granted"
    /\ \/ /\ c \in aborted
          /\ Throw(c, "AbortError")
          /\ UNCHANGED <<heldLeases, nextToken, call, conn, fn, aborted, out, lapsed>>
       \/ /\ c \notin aborted
          /\ heldLeases' = heldLeases \cup
                {[token |-> nextToken, conn |-> conn[c], slot |-> call[c].slot, limit |-> call[c].limit]}
          /\ nextToken' = nextToken + 1
          /\ \/ call[c].op # "with" /\ Settle(c, NoOutcome)
             \/ /\ call[c].op = "with"
                /\ Goto(c, "fn")
                /\ call' = [call EXCEPT ![c].token = nextToken]
                /\ conn' = [conn EXCEPT ![c] = NoConn]
                /\ UNCHANGED <<why, fn, aborted, out, lapsed>>
    /\ UNCHANGED <<server, pool, activeTransactions, deaths>>

-----------------------------------------------------------------------------
(* Releasing *)

\* withLease: what the caller sees of fn's own error and of the release fault.
WithLeaseOutcome(fnErr, fault, callback) ==
    [thrown   |-> fnErr \cup (IF callback THEN {} ELSE fault),
     notified |-> callback /\ fault # {}]

Outcome(c, e) ==
    IF fn[c] = "none" THEN Rejects(e)
    ELSE WithLeaseOutcome(IF fn[c] = "threw" THEN {"fnError"} ELSE {}, {e} \ {"ok"}, call[c].callback)

\* Mutant: the lease is still in the map while the unlock is awaited.
TakeLeaseLate(c, l) ==
    /\ UNCHANGED heldLeases
    /\ conn' = [conn EXCEPT ![c] = l.conn]
    /\ Goto(c, "unlock")

\* releaseLease takes the lease out of the map before its first await, and starts unlocking.
TakeLease(c, l) ==
    /\ heldLeases' = heldLeases \ {l}
    /\ conn' = [conn EXCEPT ![c] = l.conn]
    /\ Goto(c, "unlock")

Leases(t) == {l \in heldLeases : l.token = t}

\* releaseLease(lease), for a lease some call returned, released already or not.
ReleaseLease(c, t) ==
    /\ pc[c] = "idle" /\ t < nextToken
    /\ \/ \E l \in Leases(t) :
            /\ TakeLease(c, l)
            /\ call' = [call EXCEPT ![c] = [NoCall EXCEPT !.slot = l.slot, !.limit = l.limit, !.token = t]]
            /\ out' = [out EXCEPT ![c] = NoOutcome]
       \/ /\ Leases(t) = {}
          /\ out' = [out EXCEPT ![c] = Rejects("LeaseNotHeldError")]
          /\ UNCHANGED <<pc, call, conn, heldLeases>>
    /\ UNCHANGED <<server, pool, nextToken, activeTransactions, why, fn, aborted, lapsed, deaths>>

\* fn returns or throws; withLease then releases, even if the lease is gone by now.
FnEnds(c, r) ==
    /\ pc[c] = "fn"
    /\ fn' = [fn EXCEPT ![c] = r]
    /\ \/ (\E l \in Leases(call[c].token) : TakeLease(c, l)) /\ UNCHANGED why
       \/ /\ Leases(call[c].token) = {}
          /\ why' = [why EXCEPT ![c] = "LeaseNotHeldError"]
          /\ Goto(c, "release") /\ UNCHANGED <<heldLeases, conn>>
    /\ UNCHANGED <<server, pool, nextToken, activeTransactions, call, aborted, out, lapsed, deaths>>

\* Mutant: releaseLease swallows the failure too.
UnlockFaultSwallowed(c) == UNCHANGED why
\* A failed unlock is swallowed in the acquire path and reported by releaseLease.
UnlockFault(c) == why' = [why EXCEPT ![c] = IF call[c].token = 0 THEN @ ELSE "connection-lost"]

\* Does a cancel request that is still on its way hit the statement sent now?
CancelHits(c) == IF conn[c] \in cancels THEN BOOLEAN ELSE {FALSE}

\* pg_advisory_unlock, executed after the connection's previous statement.
Unlock(c) ==
    /\ pc[c] = "unlock" /\ waiting[conn[c]] = NoSlot
    /\ LateCancel \/ conn[c] \notin cancels
    /\ \E hit \in CancelHits(c) :
        /\ cancels' = IF hit THEN cancels \ {conn[c]} ELSE cancels
        /\ IF hit \/ Dead(c) THEN UnlockFault(c) /\ UNCHANGED <<lockOf, depth>>
           ELSE UnlockBy(call[c].slot, conn[c]) /\ UNCHANGED why
    /\ Goto(c, "reset")
    /\ UNCHANGED <<alive, session, waiting, reply, pool, layer,
                   call, conn, fn, aborted, out, lapsed, deaths>>

resetStatementTimeout(c) ==
    /\ pc[c] = "reset"
    /\ \E hit \in CancelHits(c) :
        /\ hit => hadTimeout(c)
        /\ cancels' = IF hit THEN cancels \ {conn[c]} ELSE cancels
        /\ session' = [session EXCEPT ![conn[c]] = IF hadTimeout(c) /\ ~hit THEN "none" ELSE @]
    /\ Goto(c, "release")
    /\ UNCHANGED <<alive, lockOf, depth, waiting, reply, pool, layer,
                   call, conn, why, fn, aborted, out, lapsed, deaths>>

\* reserved.release(), and the call settles.
Release(c) ==
    /\ pc[c] = "release"
    /\ reserved' = reserved \ {conn[c]}
    /\ Settle(c, Outcome(c, why[c]))
    /\ UNCHANGED <<server, abandoned, layer, deaths>>

-----------------------------------------------------------------------------
(* Transactions *)

\* sql.begin has a connection: the handle is registered and fn starts.
TxOpen(c) ==
    /\ pc[c] = "txopen"
    /\ \/ /\ Dead(c)
          /\ why' = [why EXCEPT ![c] = "connection-lost"]
          /\ Goto(c, "txclose") /\ UNCHANGED activeTransactions
       \/ /\ ~Dead(c)
          /\ activeTransactions' = activeTransactions \cup {[caller |-> c, conn |-> conn[c]]}
          /\ Goto(c, "txfn") /\ UNCHANGED why
    /\ UNCHANGED <<server, pool, heldLeases, nextToken, call, conn, fn, aborted, out, lapsed, deaths>>

\* The finally block unregisters the handle before begin ends the transaction.
TxFnEnds(c, e) ==
    /\ pc[c] = "txfn"
    /\ why' = [why EXCEPT ![c] = e]
    /\ activeTransactions' = {h \in activeTransactions : h.caller # c}
    /\ Goto(c, "txclose")
    /\ UNCHANGED <<server, pool, heldLeases, nextToken, call, conn, fn, aborted, out, lapsed, deaths>>

\* COMMIT or ROLLBACK, and the connection returns to the pool.
TxClose(c) ==
    /\ pc[c] = "txclose"
    /\ reserved' = reserved \ {conn[c]}
    /\ Settle(c, Rejects(IF Dead(c) THEN "connection-lost" ELSE why[c]))
    /\ UNCHANGED <<server, abandoned, layer, deaths>>

-----------------------------------------------------------------------------
\* What a call does by itself, once it has a connection.
Continue(c) ==
    \/ SetTimeout(c) \/ SendLock(c) \/ TryLock(c) \/ ReadReply(c) \/ Granted(c)
    \/ Unlock(c) \/ resetStatementTimeout(c) \/ Release(c)
    \/ TxOpen(c) \/ TxClose(c)

Next ==
    \/ \E c \in Caller :
        \/ Continue(c) \/ ReserveFails(c) \/ ReserveTimeout(c) \/ Abort(c)
        \/ \E a \in Calls : CallBegin(c, a) \/ CallRejected(c, a)
        \/ \E n \in Conn : Reserve(c, n)
        \/ \E t \in 1..MaxLeases : ReleaseLease(c, t)
        \/ \E r \in {"ok", "threw"} : FnEnds(c, r)
        \/ \E e \in {"ok", "fnError"} : TxFnEnds(c, e)
    \/ \E n \in Conn : OrphanReserved(n) \/ Grant(n) \/ ServerTimeout(n)
                        \/ CancelArrives(n) \/ BackendDies(n)

Spec == Init /\ [][Next]_vars

(***************************************************************************)
(* The event loop runs what is ready, the driver's timer fires, and the    *)
(* server ends a statement at its timeout and serves a cancel request.     *)
(* Nothing is assumed of the callers: a lease may be kept, and the body of *)
(* a withLease or of a transaction may run, for ever.                      *)
(***************************************************************************)
Fairness ==
    /\ \A c \in Caller : WF_vars(Continue(c)) /\ WF_vars(ReserveTimeout(c))
    /\ \A n \in Conn : WF_vars(ServerTimeout(n)) /\ WF_vars(CancelArrives(n))

FairSpec == Spec /\ Fairness

-----------------------------------------------------------------------------
(* Properties *)

(***************************************************************************)
(* Mutual exclusion (law L1): a lease the layer has on record, on a        *)
(* connection whose backend lives, is backed by the server's lock, so no   *)
(* two of them are leases of the same key (acquireLease, tryAcquireLease). *)
(* This, and the properties up to LapseSurfaces, are of behaviours without *)
(* SameTickAbort: a call that goes on with a connection of the pool takes  *)
(* back the lock of the lease that is on it.                               *)
(***************************************************************************)
LeaseHoldsLock ==
    \A l \in heldLeases : l.conn \in alive =>
        /\ lockOf[l.slot] = l.conn
        /\ \A m \in heldLeases : m.slot = l.slot /\ m.conn \in alive => m = l

(***************************************************************************)
(* However a call ends (lock refused, timeout, abort racing the grant,     *)
(* release), it returns its connection to the pool without a lock: the     *)
(* next user of the connection holds no one else's lease.                  *)
(***************************************************************************)
NoLockInPool == \A s \in Slot : lockOf[s] # NoConn => lockOf[s] \in reserved

(***************************************************************************)
(* ... and, when no cancel request is late, with the statement_timeout it  *)
(* was created with, too (resetStatementTimeout).                          *)
(***************************************************************************)
PoolClean == NoLockInPool /\ \A n \in Conn : session[n] # "none" => n \in reserved

(***************************************************************************)
(* A connection out of the pool is in exactly one pair of hands: a call,   *)
(* or a lease on record.  None leaks (reserveBounded giving up, every      *)
(* error path), and none is used by two (a release racing another release, *)
(* withLease releasing what fn already released).  A handle that resolves  *)
(* lends one on which its transaction is still open (resolveTransaction).  *)
(***************************************************************************)
ConnectionsAccounted ==
    /\ \A n \in Conn :
         Cardinality({c \in Caller : conn[c] = n}) + Cardinality({l \in heldLeases : l.conn = n})
            = (IF n \in reserved THEN 1 ELSE 0)
    /\ \A h \in activeTransactions : pc[h.caller] = "txfn" /\ conn[h.caller] = h.conn

\* What a call that comes to its end tells its caller.
SettlesTruthfully ==
    \A c \in Caller : pc[c] # "idle" /\ pc'[c] = "idle" =>
        /\ c \in lapsed => out'[c].notified \/ out'[c].thrown \ {"fnError"} # {}
        /\ fn[c] = "threw" => "fnError" \in out'[c].thrown

(***************************************************************************)
(* withLease never returns fn's value quietly when another session was     *)
(* given the lock while fn ran: the caller gets an error or onReleaseFault *)
(* is called.  And fn's own error is never replaced by the release fault.  *)
(***************************************************************************)
LapseSurfaces == [][SettlesTruthfully]_vars

\* The caller has not bounded the time the call may wait: for a connection, or,
\* with no timeoutMs and no abort, for the lock.
MayWait(c) ==
    \/ pc[c] = "reserve" /\ (~hadTimeout(c) \/ call[c].op = "tx")
    \/ pc[c] \in {"lock", "wait"} /\ ~hadTimeout(c) /\ c \notin aborted

(***************************************************************************)
(* Every other call comes to an end (or to the caller's own code),         *)
(* whatever lease holders do: one with a timeout even if the pool is       *)
(* exhausted, one that is aborted although its lock is never granted.      *)
(***************************************************************************)
CallsEnd ==
    \A c \in Caller : ~MayWait(c) ~> pc[c] \in {"idle", "fn", "txfn"}

(***************************************************************************)
(* acquireLease and withLease without timeoutMs block "indefinitely until  *)
(* the lock is available" (src/interfaces/transaction-lease.ts): such a    *)
(* call has given up while another session holds the lock only if it was   *)
(* aborted or its backend is gone.                                         *)
(***************************************************************************)
WaitsIndefinitely ==
    \A c \in Caller :
        /\ pc[c] = "unlock" /\ call[c].token = 0
        /\ call[c].op \in {"acquire", "with"} /\ ~hadTimeout(c)
        /\ ~Available(call[c].slot, conn[c])
        => why[c] = "AbortError" \/ Dead(c)
=============================================================================
