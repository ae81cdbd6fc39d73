--------------------------- MODULE MigrationsProofs ---------------------------
(***************************************************************************)
(* For any number of callers, schemas and connections, any lineages and    *)
(* any faults: migrations commit in order, each with its row, no call      *)
(* fails over the DDL of another, and connections come back clean.         *)
(*                                                                         *)
(* The argument is mutual exclusion twice over.  A call between "locked"   *)
(* and "commit" is the session that holds its schema's lock, and a call    *)
(* that saw the extension missing is the session that holds the database's *)
(* lock; connections in use are distinct, so what either call has read of  *)
(* the catalog still holds when it writes.  First come the steps that      *)
(* neither read nor write the catalog, then those that do, and last what   *)
(* is set on the session of a call, which is what the call will undo.      *)
(***************************************************************************)
EXTENDS Migrations, TLAPS

\* Leaves go to Zenon; those it cannot do, with arithmetic mostly, name SMT.
USE Zenon

TxType == [open : BOOLEAN, ddl : BOOLEAN, row : BOOLEAN, ext : BOOLEAN]
Outcome == {"ok", "MigrationLockTimeoutError", "StatementError", "Duplicate"}
Session == Conn \cup {NoConn, Lost}

TypedStore ==
    /\ created \in [Schema -> Seq(STRING)] /\ recorded \in [Schema -> Seq(STRING)]
    /\ btreeGist \in BOOLEAN
    /\ holder \in [Schema -> Session] /\ extHolder \in Session
    /\ tx \in [Conn -> TxType]

TypedCalls ==
    /\ reserved \subseteq Conn
    /\ pc \in [Runner -> Labels] /\ conn \in [Runner -> Conn \cup {NoConn}]
    /\ schema \in [Runner -> Schema] /\ next \in [Runner -> Nat]
    /\ lockHeld \in [Runner -> BOOLEAN] /\ missing \in [Runner -> BOOLEAN]
    /\ why \in [Runner -> Outcome]

\* Calls have connections of their own.
Owned ==
    /\ \A r \in Runner : conn[r] # NoConn => conn[r] \in reserved
    /\ \A r, q \in Runner : r # q /\ conn[r] = conn[q] => conn[r] = NoConn

Before == {"idle", "probe", "settings", "sentinel", "unsentinel", "reserve", "lock", "wait"}
Writing == {"up", "ddl", "record", "commit"}
Undoing == {"rollback", "reset", "unlock"}
Inside == {"locked", "path", "regclass", "check"} \cup Writing

\* What call r may rely on.
Secure(r) ==
    /\ pc[r] \notin {"idle", "probe", "reserve"} => conn[r] \in Conn
    /\ pc[r] \in Before => ~lockHeld[r]
    /\ pc[r] \in Inside => lockHeld[r]
    /\ lockHeld[r] => holder[schema[r]] = conn[r]
    /\ pc[r] \in {"sentinel", "unsentinel"} => ~classifyFsync /\ ~classifyFullPageWrites
    /\ pc[r] \in {"reserve", "lock", "wait"} \cup Inside => Durable
    /\ why[r] # "Duplicate"

\* How far call r has come with its schema.
Progress(r) ==
    /\ pc[r] \notin {"ddl", "record", "commit"} \cup Undoing => ~missing[r]
    /\ pc[r] = "check" => next[r] >= 1 /\ next[r] <= Len(created[schema[r]]) + 1
    /\ pc[r] \in Writing => /\ next[r] \in 1..Len(Lineage[schema[r]])
                            /\ Len(created[schema[r]]) = next[r] - 1
    /\ pc[r] = "ddl" => ~tx[conn[r]].ddl /\ ~tx[conn[r]].row /\ ~tx[conn[r]].ext
    /\ pc[r] = "record" => tx[conn[r]].ddl /\ ~tx[conn[r]].row /\ tx[conn[r]].ext = missing[r]
    /\ pc[r] = "commit" => tx[conn[r]].ddl /\ tx[conn[r]].row /\ tx[conn[r]].ext = missing[r]
    /\ pc[r] \in {"ddl", "record", "commit"} /\ missing[r] =>
          extHolder = conn[r] /\ ~btreeGist

MigInv == /\ TypedStore /\ TypedCalls /\ Owned /\ AppliedInOrder
          /\ \A r \in Runner : Secure(r) /\ Progress(r)

-----------------------------------------------------------------------------
(* The other calls *)

\* Call r changes nothing that another call relies on: not its variables, ...
QuietCalls(r) ==
    \A o \in Runner \ {r} :
       /\ pc'[o] = pc[o] /\ conn'[o] = conn[o] /\ schema'[o] = schema[o]
       /\ lockHeld'[o] = lockHeld[o] /\ next'[o] = next[o]
       /\ missing'[o] = missing[o] /\ why'[o] = why[o]
\* ... not the transaction or the locks of its session, ...
QuietSessions(r) ==
    /\ \A c \in Conn : c # conn[r] => tx'[c] = tx[c]
    /\ \A s \in Schema : holder[s] \in Conn /\ holder[s] # conn[r] => holder'[s] = holder[s]
    /\ extHolder \in Conn /\ extHolder # conn[r] => extHolder' = extHolder
\* ... and nothing in the catalog but under the lock that is for it.
QuietCatalog(r) ==
    /\ server' = server
    /\ \A s \in Schema : \/ created'[s] = created[s]
                         \/ conn[r] \in Conn /\ lockHeld[r] /\ s = schema[r]
    /\ \/ btreeGist' = btreeGist
       \/ conn[r] \in Conn /\ extHolder = conn[r]

CallQuiet(r) == TypedCalls' /\ Owned' /\ QuietCalls(r)
StoreQuiet(r) == TypedStore' /\ AppliedInOrder' /\ QuietSessions(r) /\ QuietCatalog(r)

\* What another call relies on survives a step that keeps to its own session and schema.
LEMMA OthersHold ==
    ASSUME MigInv, NEW r \in Runner, QuietCalls(r), QuietSessions(r), QuietCatalog(r),
           NEW o \in Runner, o # r
    PROVE  Secure(o)' /\ Progress(o)'
<1> USE MigrationConstants
<1>1. TypedStore /\ TypedCalls /\ Owned /\ Secure(o) /\ Progress(o) /\ Secure(r)
  BY DEF MigInv
<1>2. /\ server' = server /\ pc'[o] = pc[o] /\ conn'[o] = conn[o] /\ schema'[o] = schema[o]
      /\ lockHeld'[o] = lockHeld[o] /\ next'[o] = next[o]
      /\ missing'[o] = missing[o] /\ why'[o] = why[o]
  BY DEF QuietCalls, QuietCatalog
<1>3. conn[o] \in Conn => conn[o] # conn[r]
  BY <1>1 DEF Owned, TypedCalls
<1>4. lockHeld[o] => conn[o] \in Conn
  BY <1>1 DEF TypedCalls, Secure, Before, Labels
<1>5. lockHeld[o] => holder'[schema[o]] = conn[o] /\ created'[schema[o]] = created[schema[o]]
  BY <1>1, <1>3, <1>4 DEF QuietSessions, QuietCatalog, Secure, TypedStore, TypedCalls
<1>6. conn[o] \in Conn => tx'[conn[o]] = tx[conn[o]]
  BY <1>3 DEF QuietSessions, QuietCatalog
<1>7. conn[o] \in Conn /\ extHolder = conn[o] => extHolder' = extHolder /\ btreeGist' = btreeGist
  BY <1>3 DEF QuietSessions, QuietCatalog
<1>8. Secure(o)'
  BY <1>1, <1>2, <1>5 DEF Secure, Durable, classifyFsync, classifyFullPageWrites
<1>9. pc[o] \in Inside => lockHeld[o] /\ conn[o] \in Conn
  BY <1>1, <1>4 DEF Secure
<1>10. Progress(o)'
  <2>1. CASE pc[o] \notin Inside
    BY <1>1, <1>2, <2>1 DEF Progress, Inside, Writing
  <2>2. CASE pc[o] \in Inside
    <3>1. /\ created'[schema[o]] = created[schema[o]] /\ tx'[conn[o]] = tx[conn[o]]
          /\ schema'[o] = schema[o] /\ conn'[o] = conn[o]
          /\ extHolder = conn[o] => extHolder' = extHolder /\ btreeGist' = btreeGist
      BY <1>2, <1>5, <1>6, <1>7, <1>9, <2>2
    <3> QED
      BY SMT, <1>1, <1>2, <3>1 DEF Progress
  <2> QED
    BY <2>1, <2>2
<1> QED
  BY <1>8, <1>10

\* What there is to show of a step of call r.
LEMMA StepHolds ==
    ASSUME MigInv, NEW r \in Runner, StoreQuiet(r), CallQuiet(r), Secure(r)', Progress(r)'
    PROVE  MigInv'
<1>1. \A o \in Runner : o # r => Secure(o)' /\ Progress(o)'
  BY OthersHold DEF StoreQuiet, CallQuiet
<1> QED
  BY <1>1 DEF MigInv, StoreQuiet, CallQuiet

\* Nothing that the invariant is about changes.
LEMMA UnchangedHolds ==
    ASSUME MigInv,
           UNCHANGED <<server, created, recorded, btreeGist, holder, extHolder, tx>>,
           UNCHANGED <<reserved, pc, conn, schema, next, lockHeld, missing, why>>
    PROVE  MigInv'
<1>1. TypedStore' /\ TypedCalls'
  BY DEF MigInv, TypedStore, TypedCalls
<1>2. Owned' /\ AppliedInOrder'
  BY DEF MigInv, Owned, AppliedInOrder, Durable, classifyFsync, classifyFullPageWrites
<1>3. ASSUME NEW r \in Runner PROVE Secure(r)' /\ Progress(r)'
  <2>1. Secure(r) /\ Progress(r)
    BY DEF MigInv
  <2> QED
    BY SMT, <2>1 DEF Secure, Progress, Durable, classifyFsync, classifyFullPageWrites
<1> QED
  BY <1>1, <1>2, <1>3 DEF MigInv

\* A step that leaves the store alone, or changes only what r's session has in it.
LEMMA StoreKept ==
    ASSUME MigInv, NEW r \in Runner,
           UNCHANGED <<server, created, recorded, btreeGist, holder, extHolder, tx>>
    PROVE  StoreQuiet(r)
BY DEF MigInv, TypedStore, StoreQuiet, QuietSessions, QuietCatalog, AppliedInOrder, Durable,
       classifyFsync, classifyFullPageWrites

\* A step that takes or gives back locks of r's own session only.
LEMMA SessionMoved ==
    ASSUME MigInv, NEW r \in Runner, UNCHANGED <<server, created, recorded, btreeGist>>,
           holder' \in [Schema -> Session], extHolder' \in Session, tx' \in [Conn -> TxType],
           QuietSessions(r)
    PROVE  StoreQuiet(r)
BY DEF MigInv, TypedStore, StoreQuiet, QuietCatalog, AppliedInOrder, Durable,
       classifyFsync, classifyFullPageWrites

\* A step of r that begins or ends its transaction.
LEMMA TxMoved ==
    ASSUME MigInv, NEW r \in Runner, conn[r] \in Conn, NEW t \in TxType,
           UNCHANGED <<server, created, recorded, btreeGist, holder>>,
           tx' = [tx EXCEPT ![conn[r]] = t],
           \/ extHolder' = extHolder
           \/ extHolder' \in {NoConn, conn[r]} /\ extHolder \in {NoConn, conn[r]}
    PROVE  StoreQuiet(r) /\ tx'[conn[r]] = t
<1>1. /\ holder' \in [Schema -> Session] /\ extHolder' \in Session /\ tx' \in [Conn -> TxType]
      /\ tx'[conn[r]] = t
  BY DEF MigInv, TypedStore, Session
<1>2. QuietSessions(r)
  BY MigrationConstants DEF MigInv, TypedStore, QuietSessions
<1> QED
  BY <1>1, <1>2, SessionMoved

\* BEGIN.
LEMMA OpenTxType == OpenTx \in TxType /\ ~OpenTx.ddl /\ ~OpenTx.row /\ ~OpenTx.ext
BY Zenon DEF OpenTx, NoTx, TxType

\* COMMIT and ROLLBACK: the transaction's lock goes back, the session's stays.
LEMMA TxEnds ==
    ASSUME MigInv, NEW r \in Runner, conn[r] \in Conn, EndTx(conn[r]),
           UNCHANGED <<server, created, recorded, btreeGist, holder>>
    PROVE  StoreQuiet(r)
<1>1. NoTx \in TxType
  BY DEF NoTx, TxType
<1>2. \/ extHolder' = extHolder
      \/ extHolder' \in {NoConn, conn[r]} /\ extHolder \in {NoConn, conn[r]}
  BY DEF EndTx
<1> QED
  BY <1>1, <1>2, TxMoved, Zenon DEF EndTx

\* A call that only moves on, or throws.
LEMMA CallMoved ==
    ASSUME MigInv, NEW r \in Runner, NEW l \in Labels, pc' = [pc EXCEPT ![r] = l],
           UNCHANGED <<reserved, conn, schema, next, lockHeld, missing, why>>
    PROVE  CallQuiet(r) /\ pc'[r] = l
BY DEF MigInv, TypedCalls, Owned, CallQuiet, QuietCalls

\* reserve() hands out a connection that nobody has.
LEMMA ReserveOwns ==
    ASSUME TypedCalls, Owned, NEW r \in Runner, ReserveConnection(r)
    PROVE  /\ Owned' /\ reserved' \subseteq Conn /\ conn' \in [Runner -> Conn \cup {NoConn}]
           /\ conn'[r] \in Conn /\ conn' = [conn EXCEPT ![r] = conn'[r]]
<1>1. PICK c \in PoolOf[r] \ reserved :
         reserved' = reserved \cup {c} /\ conn' = [conn EXCEPT ![r] = c]
  BY Zenon DEF ReserveConnection
<1>2. c \in Conn /\ c # NoConn
  BY MigrationConstants
<1>3. \A o \in Runner : conn[o] # c
  BY <1>1, <1>2 DEF Owned
<1> QED
  BY <1>1, <1>2, <1>3 DEF TypedCalls, Owned

\* release() takes nobody else's connection back.
LEMMA ReleaseOwns ==
    ASSUME TypedCalls, Owned, NEW r \in Runner, Release(r)
    PROVE  /\ Owned' /\ reserved' \subseteq Conn /\ conn' \in [Runner -> Conn \cup {NoConn}]
           /\ conn' = [conn EXCEPT ![r] = conn'[r]]
BY MigrationConstants DEF Release, TypedCalls, Owned

\* A call that takes its connection and moves on.
LEMMA CallReserved ==
    ASSUME MigInv, NEW r \in Runner, NEW l \in Labels, Goto(r, l), ReserveConnection(r),
           UNCHANGED <<schema, next, lockHeld, missing, why>>
    PROVE  CallQuiet(r) /\ pc'[r] = l /\ conn'[r] \in Conn
<1>1. TypedCalls /\ Owned
  BY DEF MigInv
<1>2. /\ Owned' /\ reserved' \subseteq Conn /\ conn' \in [Runner -> Conn \cup {NoConn}]
      /\ conn'[r] \in Conn /\ \A o \in Runner \ {r} : conn'[o] = conn[o]
  <2>1. conn' = [conn EXCEPT ![r] = conn'[r]]
    BY <1>1, ReserveOwns
  <2> QED
    BY <1>1, <2>1, ReserveOwns DEF TypedCalls
<1> QED
  BY <1>1, <1>2 DEF TypedCalls, CallQuiet, QuietCalls, Goto

\* A call that gives its connection back and moves on.
LEMMA CallReleased ==
    ASSUME MigInv, NEW r \in Runner, NEW l \in Labels, Goto(r, l), Release(r),
           UNCHANGED <<schema, next, lockHeld, missing, why>>
    PROVE  CallQuiet(r) /\ pc'[r] = l
<1>1. TypedCalls /\ Owned
  BY DEF MigInv
<1>2. /\ Owned' /\ reserved' \subseteq Conn /\ conn' \in [Runner -> Conn \cup {NoConn}]
      /\ \A o \in Runner \ {r} : conn'[o] = conn[o]
  <2>1. conn' = [conn EXCEPT ![r] = conn'[r]]
    BY <1>1, ReleaseOwns
  <2> QED
    BY <1>1, <2>1, ReleaseOwns DEF TypedCalls
<1> QED
  BY <1>1, <1>2 DEF TypedCalls, CallQuiet, QuietCalls, Goto

\* A call that has settled relies on nothing.
LEMMA CallSettled ==
    ASSUME MigInv, NEW r \in Runner, NEW e, Settle(r, e),
           Release(r) \/ UNCHANGED <<reserved, conn>>
    PROVE  CallQuiet(r) /\ Secure(r)' /\ Progress(r)'
<1>1. TypedCalls /\ Owned
  BY DEF MigInv
<1>2. (CHOOSE s \in Schema : TRUE) \in Schema
  BY MigrationConstants
<1>3. /\ pc' = [pc EXCEPT ![r] = "idle"] /\ why' = [why EXCEPT ![r] = "ok"]
      /\ lockHeld' = [lockHeld EXCEPT ![r] = FALSE] /\ missing' = [missing EXCEPT ![r] = FALSE]
      /\ next' = [next EXCEPT ![r] = 0]
      /\ schema' = [schema EXCEPT ![r] = CHOOSE s \in Schema : TRUE]
  BY DEF Settle, Goto
<1>4. /\ Owned' /\ reserved' \subseteq Conn /\ conn' \in [Runner -> Conn \cup {NoConn}]
      /\ \A o \in Runner \ {r} : conn'[o] = conn[o]
  <2>1. CASE Release(r)
    <3>1. conn' = [conn EXCEPT ![r] = conn'[r]]
      BY <1>1, <2>1, ReleaseOwns
    <3> QED
      BY <1>1, <2>1, <3>1, ReleaseOwns DEF TypedCalls
  <2>2. CASE UNCHANGED <<reserved, conn>>
    BY <1>1, <2>2 DEF TypedCalls, Owned
  <2> QED
    BY <2>1, <2>2
<1>5. TypedCalls'
  BY <1>1, <1>2, <1>3, <1>4, Zenon DEF TypedCalls, Labels, Outcome
<1>6. QuietCalls(r)
  BY <1>1, <1>3, <1>4 DEF TypedCalls, QuietCalls
<1>7. pc'[r] = "idle" /\ ~lockHeld'[r] /\ ~missing'[r] /\ why'[r] = "ok"
  BY <1>1, <1>3 DEF TypedCalls
<1>8. Secure(r)' /\ Progress(r)'
  BY <1>7 DEF Secure, Progress, Inside, Writing
<1> QED
  BY <1>4, <1>5, <1>6, <1>8 DEF CallQuiet

-----------------------------------------------------------------------------
(* Steps that neither read nor write the catalog *)

Probed == {"sentinel", "unsentinel"}
Cleared == {"reserve", "lock", "wait"} \cup Inside
Connectionless == {"idle", "probe", "reserve"}

\* A call that moves from k to l relies at l on no more than it did at k.
Follows(k, l) ==
    /\ l \in Labels /\ l \notin {"check"} \cup Writing
    /\ l \in Connectionless \/ k \notin Connectionless
    /\ l \in Before => k \in Before
    /\ l \in Inside => k \in Inside
    /\ l \in Cleared => k \in Cleared
    /\ l \in Probed => k \in Probed
    /\ l \in Undoing \/ k \notin {"ddl", "record", "commit"} \cup Undoing

\* Throwing leads to a catch or finally block of a call that has its connection.
LEMMA UndoFollows ==
    ASSUME NEW k \in Labels \ Connectionless, NEW l \in Undoing
    PROVE  Follows(k, l)
BY DEF Follows, Labels, Connectionless, Undoing, Before, Inside, Writing, Cleared, Probed

\* A call that moves on, or throws, and keeps what it has.
LEMMA CallMoves ==
    ASSUME MigInv, NEW r \in Runner, StoreQuiet(r), NEW l, Follows(pc[r], l), Goto(r, l),
           NEW e \in Outcome \ {"Duplicate"}, why' = why \/ why' = [why EXCEPT ![r] = e],
           lockHeld[r] => holder'[schema[r]] = holder[schema[r]],
           UNCHANGED <<reserved, conn, schema, next, lockHeld, missing>>
    PROVE  MigInv'
<1>1. Secure(r) /\ Progress(r) /\ TypedCalls /\ Owned /\ l \in Labels
  BY DEF MigInv, Follows
<1>2. /\ pc' \in [Runner -> Labels] /\ pc'[r] = l
      /\ why' \in [Runner -> Outcome] /\ why'[r] # "Duplicate"
      /\ \A o \in Runner \ {r} : pc'[o] = pc[o] /\ why'[o] = why[o]
  BY <1>1 DEF TypedCalls, Secure, Goto
<1>3. CallQuiet(r)
  BY <1>1, <1>2 DEF TypedCalls, Owned, CallQuiet, QuietCalls
<1>4. server' = server
  BY DEF StoreQuiet, QuietCatalog
<1>5. Secure(r)'
  BY <1>1, <1>2, <1>4 DEF Secure, Follows, Connectionless, Cleared, Probed, Durable,
                          classifyFsync, classifyFullPageWrites
<1>6. Progress(r)'
  BY <1>1, <1>2 DEF Progress, Follows, Writing
<1> QED
  BY <1>3, <1>5, <1>6, StepHolds

\* What is thrown by anything but colliding DDL.
LEMMA Thrown == {"ok", "MigrationLockTimeoutError", "StatementError"} \subseteq Outcome \ {"Duplicate"}
BY DEF Outcome

\* runMigrations is called.
LEMMA StartHolds ==
    ASSUME MigInv, NEW r \in Runner, Start(r)
    PROVE  MigInv'
<1>1. Secure(r) /\ Progress(r) /\ TypedCalls /\ Owned
  BY DEF MigInv
<1>2. StoreQuiet(r)
  BY StoreKept DEF Start, context, database, locks, schemaLock, sessions
<1>3. /\ pc[r] = "idle" /\ pc' = [pc EXCEPT ![r] = "probe"]
      /\ UNCHANGED <<reserved, conn, next, lockHeld, missing, why>>
  BY DEF Start, Goto
<1>4. PICK s \in Schema : schema' = [schema EXCEPT ![r] = s]
  BY MigrationConstants, Zenon DEF Start
<1>5. CallQuiet(r) /\ pc'[r] = "probe"
  BY <1>1, <1>3, <1>4 DEF TypedCalls, Labels, Owned, CallQuiet, QuietCalls
<1>6. ~lockHeld[r] /\ ~missing[r] /\ why[r] # "Duplicate"
  BY <1>1, <1>3 DEF Secure, Before, Progress, Undoing
<1>7. Secure(r)' /\ Progress(r)'
  BY <1>3, <1>5, <1>6 DEF Secure, Progress, Inside, Writing
<1> QED
  BY <1>2, <1>5, <1>7, StepHolds

\* A connection is reserved, for the probe or for the migrations.
LEMMA ReservingHolds ==
    ASSUME MigInv, NEW r \in Runner, StoreQuiet(r), ReserveConnection(r),
           NEW l \in {"settings", "lock"}, Goto(r, l), l = "lock" => Durable,
           pc[r] \in Before, UNCHANGED <<schema, next, lockHeld, missing, why>>
    PROVE  MigInv'
<1>1. Secure(r) /\ Progress(r) /\ l \in Labels
  BY DEF MigInv, Labels
<1>2. CallQuiet(r) /\ pc'[r] = l /\ conn'[r] \in Conn
  BY <1>1, CallReserved
<1>3. ~lockHeld[r] /\ ~missing[r] /\ why[r] # "Duplicate"
  BY <1>1 DEF Secure, Before, Progress, Undoing
<1>4. server' = server
  BY DEF StoreQuiet, QuietCatalog
<1>5. Secure(r)' /\ Progress(r)'
  BY <1>2, <1>3, <1>4 DEF Secure, Progress, Inside, Writing, Durable, classifyFsync,
                          classifyFullPageWrites
<1> QED
  BY <1>2, <1>5, StepHolds

\* The probe reserves its connection.
LEMMA ProbeReserveHolds ==
    ASSUME MigInv, NEW r \in Runner, ProbeReserve(r)
    PROVE  MigInv'
<1>1. StoreQuiet(r)
  BY StoreKept DEF ProbeReserve, context, database, locks, schemaLock, sessions
<1>2. /\ pc[r] \in Before /\ ReserveConnection(r) /\ Goto(r, "settings")
      /\ UNCHANGED <<schema, next, lockHeld, missing, why>>
  BY DEF ProbeReserve, Before, call
<1> QED
  BY <1>1, <1>2, ReservingHolds

\* The options are validated again and the connection is reserved.
LEMMA ReserveHolds ==
    ASSUME MigInv, NEW r \in Runner, Reserve(r)
    PROVE  MigInv'
<1>1. StoreQuiet(r)
  BY StoreKept DEF Reserve, context, database, locks, schemaLock, sessions
<1>2. pc[r] = "reserve" /\ pc[r] \in Before /\ Durable
  BY DEF MigInv, Secure, Reserve, Before
<1>3. CASE Settle(r, "ValidationError") /\ UNCHANGED <<reserved, conn>>
  BY <1>1, <1>3, CallSettled, StepHolds
<1>4. CASE ReserveConnection(r) /\ Goto(r, "lock") /\ UNCHANGED <<call, why>>
  BY <1>1, <1>2, <1>4, ReservingHolds DEF call
<1> QED
  BY <1>3, <1>4 DEF Reserve

\* The probe reads fsync and full_page_writes, and throws on a violation.
LEMMA ReadSettingsHolds ==
    ASSUME MigInv, NEW r \in Runner, ReadSettings(r)
    PROVE  MigInv'
<1>1. Secure(r) /\ Progress(r) /\ pc[r] = "settings"
  BY DEF MigInv, ReadSettings
<1>2. StoreQuiet(r) /\ server' = server
  BY StoreKept DEF ReadSettings, context, database, locks, schemaLock, sessions
<1>3. CASE Release(r) /\ Settle(r, "DurabilityContractError")
  BY <1>2, <1>3, CallSettled, StepHolds
<1>4. CASE /\ ~classifyFsync /\ ~classifyFullPageWrites /\ Goto(r, "sentinel")
           /\ UNCHANGED <<reserved, conn, call, why>>
  <2>1. CallQuiet(r) /\ pc'[r] = "sentinel"
    BY <1>4, CallMoved, Zenon DEF call, Goto, Labels
  <2>2. conn[r] \in Conn /\ ~lockHeld[r] /\ ~missing[r] /\ why[r] # "Duplicate"
    BY <1>1 DEF Secure, Before, Progress, Undoing
  <2>3. Secure(r)' /\ Progress(r)'
    BY <1>2, <1>4, <2>1, <2>2 DEF call, Secure, Progress, Inside, Writing, classifyFsync,
                                  classifyFullPageWrites
  <2> QED
    BY <1>2, <2>1, <2>3, StepHolds
<1> QED
  BY <1>3, <1>4 DEF ReadSettings

\* The probe is over and has found nothing.
LEMMA ProbePassed ==
    ASSUME MigInv, NEW r \in Runner, pc[r] \in {"sentinel", "unsentinel"}, ~server.pooler,
           Release(r), Goto(r, "reserve"), UNCHANGED <<call, why>>, StoreQuiet(r)
    PROVE  MigInv'
<1>1. "reserve" \in Labels
  BY DEF Labels
<1>2. CallQuiet(r) /\ pc'[r] = "reserve"
  BY <1>1, CallReleased DEF call
<1>3. Durable /\ ~lockHeld[r] /\ ~missing[r] /\ why[r] # "Duplicate"
  BY DEF MigInv, Secure, Before, Progress, Undoing, Durable
<1>4. server' = server
  BY DEF StoreQuiet, QuietCatalog
<1>5. Secure(r)' /\ Progress(r)'
  BY <1>2, <1>3, <1>4 DEF call, Secure, Progress, Inside, Writing, Durable,
                          classifyFsync, classifyFullPageWrites
<1> QED
  BY <1>2, <1>5, StepHolds

\* The probe takes its sentinel lock, which is not one of a schema, or is refused it.
LEMMA SentinelHolds ==
    ASSUME MigInv, NEW r \in Runner, probeAdvisoryLockVisibility(r)
    PROVE  MigInv'
<1>1. StoreQuiet(r)
  BY StoreKept DEF probeAdvisoryLockVisibility, context, database, schemaLock, sessions
<1>2. /\ pc[r] = "sentinel"
      /\ UNCHANGED <<holder, schema, next, lockHeld, missing, why>> /\ UNCHANGED <<call, why>>
  BY DEF probeAdvisoryLockVisibility, schemaLock, call
<1>3. CASE Goto(r, "unsentinel") /\ UNCHANGED <<reserved, conn>>
  <2>1. Follows(pc[r], "unsentinel")
    BY <1>2 DEF Follows, Labels, Connectionless, Before, Inside, Writing, Cleared, Probed, Undoing
  <2> QED
    BY <1>1, <1>2, <1>3, <2>1, Thrown, CallMoves
<1>4. CASE ~server.pooler /\ Release(r) /\ Goto(r, "reserve")
  BY <1>1, <1>2, <1>4, ProbePassed
<1> QED
  BY <1>3, <1>4 DEF probeAdvisoryLockVisibility

\* The end of the probe, whether the sentinel was unlocked or not.
LEMMA ProbeEndHolds ==
    ASSUME MigInv, NEW r \in Runner, pc[r] = "unsentinel", ProbeEnd(r), StoreQuiet(r)
    PROVE  MigInv'
<1>1. CASE Release(r) /\ Settle(r, "TransactionPoolerDetectedError")
  BY <1>1, CallSettled, StepHolds
<1>2. CASE ~server.pooler /\ Release(r) /\ Goto(r, "reserve") /\ UNCHANGED <<call, why>>
  BY <1>2, ProbePassed
<1> QED
  BY <1>1, <1>2 DEF ProbeEnd

\* The probe unlocks its sentinel and ends.
LEMMA UnlockSentinelHolds ==
    ASSUME MigInv, NEW r \in Runner, UnlockSentinel(r)
    PROVE  MigInv'
<1>1. StoreQuiet(r)
  BY StoreKept DEF UnlockSentinel, context, database, schemaLock, sessions
<1> QED
  BY <1>1, ProbeEndHolds DEF UnlockSentinel

\* BEGIN, and pg_advisory_lock is sent.
LEMMA BeginLockHolds ==
    ASSUME MigInv, NEW r \in Runner, BeginLock(r)
    PROVE  MigInv'
<1>1. /\ pc[r] = "lock" /\ Goto(r, "wait") /\ tx' = [tx EXCEPT ![conn[r]] = OpenTx]
      /\ UNCHANGED <<server, created, recorded, btreeGist, holder, extHolder>>
      /\ UNCHANGED <<reserved, conn, schema, next, lockHeld, missing, why>>
  BY DEF BeginLock, context, database, locks, schemaLock, call
<1>2. conn[r] \in Conn
  BY <1>1 DEF MigInv, Secure
<1>3. StoreQuiet(r)
  BY <1>1, <1>2, OpenTxType, TxMoved
<1>4. Follows(pc[r], "wait")
  BY <1>1 DEF Follows, Labels, Connectionless, Before, Inside, Writing, Cleared, Probed, Undoing
<1> QED
  BY <1>1, <1>3, <1>4, Thrown, CallMoves

\* The lock was free, or this session's already.
LEMMA LockTaken ==
    ASSUME MigInv, NEW r \in Runner, pc[r] = "wait", holder[schema[r]] \in {NoConn, conn[r]},
           Lock(schema[r], conn[r]),
           UNCHANGED <<server, created, recorded, btreeGist, extHolder, tx>>
    PROVE  StoreQuiet(r) /\ holder'[schema[r]] = conn[r] /\ conn[r] \in Conn
<1>1. conn[r] \in Conn /\ schema[r] \in Schema
  BY DEF MigInv, TypedCalls, Secure
<1>2. holder' \in [Schema -> Session] /\ holder'[schema[r]] = conn[r]
  BY <1>1 DEF MigInv, TypedStore, Session, Lock
<1>3. QuietSessions(r)
  BY <1>1, MigrationConstants DEF MigInv, TypedStore, Lock, QuietSessions
<1>4. extHolder' \in Session /\ tx' \in [Conn -> TxType]
  BY DEF MigInv, TypedStore
<1> QED
  BY <1>1, <1>2, <1>3, <1>4, SessionMoved

\* pg_advisory_lock is granted: nobody else is between it and COMMIT.
LEMMA LockGrantedHolds ==
    ASSUME MigInv, NEW r \in Runner, LockGranted(r)
    PROVE  MigInv'
<1>1. Secure(r) /\ Progress(r) /\ TypedCalls /\ Owned
  BY DEF MigInv
<1>2. StoreQuiet(r) /\ holder'[schema[r]] = conn[r] /\ conn[r] \in Conn
  BY LockTaken DEF LockGranted, context, database, sessions
<1>3. /\ pc[r] = "wait" /\ pc' = [pc EXCEPT ![r] = "locked"]
      /\ lockHeld' = [lockHeld EXCEPT ![r] = TRUE]
      /\ UNCHANGED <<server, reserved, conn, schema, next, missing, why>>
  BY DEF LockGranted, Goto, context
<1>4. CallQuiet(r) /\ pc'[r] = "locked" /\ lockHeld'[r]
  BY <1>1, <1>3 DEF Labels, TypedCalls, Owned, CallQuiet, QuietCalls
<1>5. Durable /\ ~missing[r] /\ why[r] # "Duplicate"
  BY <1>1, <1>3 DEF Secure, Progress, Undoing
<1>6. Secure(r)' /\ Progress(r)'
  BY <1>2, <1>3, <1>4, <1>5 DEF Secure, Progress, Before, Writing, Durable, classifyFsync,
                                classifyFullPageWrites
<1> QED
  BY <1>2, <1>4, <1>6, StepHolds

\* The wait for the schema's lock times out.
LEMMA LockTimesOutHolds ==
    ASSUME MigInv, NEW r \in Runner, LockTimesOut(r)
    PROVE  MigInv'
<1>1. StoreQuiet(r)
  BY StoreKept DEF LockTimesOut, context, database, locks, schemaLock, sessions
<1>2. /\ Goto(r, "rollback") /\ why' = [why EXCEPT ![r] = "MigrationLockTimeoutError"]
      /\ UNCHANGED <<holder, reserved, conn, schema, next, lockHeld, missing>>
      /\ pc[r] = "wait"
  BY DEF LockTimesOut, Throw, locks, schemaLock, call
<1>3. Follows(pc[r], "rollback")
  BY <1>2, UndoFollows DEF Labels, Connectionless, Undoing
<1> QED
  BY <1>1, <1>2, <1>3, Thrown, CallMoves

\* The transaction around the wait commits and the session keeps the lock.
LEMMA LockCommitHolds ==
    ASSUME MigInv, NEW r \in Runner, LockCommit(r)
    PROVE  MigInv'
<1>1. /\ pc[r] = "locked" /\ Goto(r, "path") /\ EndTx(conn[r])
      /\ UNCHANGED <<server, created, recorded, btreeGist, holder>>
      /\ UNCHANGED <<reserved, conn, schema, next, lockHeld, missing, why>>
  BY DEF LockCommit, context, database, schemaLock, call
<1>2. conn[r] \in Conn
  BY <1>1 DEF MigInv, Secure
<1>3. StoreQuiet(r)
  BY <1>1, <1>2, TxEnds
<1>4. Follows(pc[r], "path")
  BY <1>1 DEF Follows, Labels, Connectionless, Before, Inside, Writing, Cleared, Probed, Undoing
<1> QED
  BY <1>1, <1>3, <1>4, Thrown, CallMoves

\* search_path is set.
LEMMA WidenPathHolds ==
    ASSUME MigInv, NEW r \in Runner, WidenPath(r)
    PROVE  MigInv'
<1>1. StoreQuiet(r)
  BY StoreKept DEF WidenPath, context, database, locks, schemaLock
<1>2. /\ pc[r] = "path" /\ Goto(r, "regclass")
      /\ UNCHANGED <<holder, reserved, conn, schema, next, lockHeld, missing, why>>
  BY DEF WidenPath, locks, schemaLock, call
<1>3. Follows(pc[r], "regclass")
  BY <1>2 DEF Follows, Labels, Connectionless, Before, Inside, Writing, Cleared, Probed, Undoing
<1> QED
  BY <1>1, <1>2, <1>3, Thrown, CallMoves

\* The wait for the database-wide lock times out.
LEMMA UpTimesOutHolds ==
    ASSUME MigInv, NEW r \in Runner, UpTimesOut(r)
    PROVE  MigInv'
<1>1. /\ pc[r] = "up" /\ tx' = [tx EXCEPT ![conn[r]] = OpenTx]
      /\ Goto(r, "rollback") /\ why' = [why EXCEPT ![r] = "StatementError"]
      /\ UNCHANGED <<server, created, recorded, btreeGist, holder, extHolder>>
      /\ UNCHANGED <<reserved, conn, schema, next, lockHeld, missing>>
  BY DEF UpTimesOut, Begin, Throw, context, database, locks, schemaLock, call
<1>2. conn[r] \in Conn
  BY <1>1 DEF MigInv, Secure
<1>3. StoreQuiet(r)
  BY <1>1, <1>2, OpenTxType, TxMoved
<1>4. Follows(pc[r], "rollback")
  BY <1>1, UndoFollows DEF Labels, Connectionless, Undoing
<1> QED
  BY <1>1, <1>3, <1>4, Thrown, CallMoves

\* ROLLBACK: what the migration did is gone, and the database-wide lock with it.
LEMMA RollbackHolds ==
    ASSUME MigInv, NEW r \in Runner, Rollback(r)
    PROVE  MigInv'
<1>1. /\ pc[r] = "rollback" /\ Goto(r, IF next[r] = 0 THEN "unlock" ELSE "reset")
      /\ EndTx(conn[r])
      /\ UNCHANGED <<server, created, recorded, btreeGist, holder>>
      /\ UNCHANGED <<reserved, conn, schema, next, lockHeld, missing, why>>
  BY DEF Rollback, context, database, schemaLock, call
<1>2. conn[r] \in Conn
  BY <1>1 DEF MigInv, Secure
<1>3. StoreQuiet(r)
  BY <1>1, <1>2, TxEnds
<1>4. Follows(pc[r], IF next[r] = 0 THEN "unlock" ELSE "reset")
  BY <1>1, UndoFollows DEF Labels, Connectionless, Undoing
<1> QED
  BY <1>1, <1>3, <1>4, Thrown, CallMoves

\* search_path is reset in the inner finally block.
LEMMA ResetPathHolds ==
    ASSUME MigInv, NEW r \in Runner, ResetPath(r)
    PROVE  MigInv'
<1>1. StoreQuiet(r)
  BY StoreKept DEF ResetPath, context, database, locks, schemaLock
<1>2. /\ pc[r] = "reset" /\ Goto(r, "unlock")
      /\ UNCHANGED <<holder, reserved, conn, schema, next, lockHeld, missing, why>>
  BY DEF ResetPath, locks, schemaLock, call
<1>3. Follows(pc[r], "unlock")
  BY <1>2, UndoFollows DEF Labels, Connectionless, Undoing
<1> QED
  BY <1>1, <1>2, <1>3, Thrown, CallMoves

\* The schema's lock and the connection go back in the outer finally block.
LEMMA UnlockHolds ==
    ASSUME MigInv, NEW r \in Runner, Unlock(r)
    PROVE  MigInv'
<1>1. schema[r] \in Schema /\ (lockHeld[r] => holder[schema[r]] = conn[r])
  BY DEF MigInv, TypedCalls, Secure
<1>2. holder' = holder \/ (lockHeld[r] /\ UnlockOnce(schema[r]))
  BY DEF Unlock, schemaLock
<1>3. holder' \in [Schema -> Session] /\ extHolder' \in Session /\ tx' \in [Conn -> TxType]
  BY <1>1, <1>2, Zenon DEF MigInv, TypedStore, Session, Unlock, UnlockOnce, sessions
<1>4. QuietSessions(r)
  BY <1>1, <1>2 DEF MigInv, TypedStore, QuietSessions, Unlock, UnlockOnce, sessions
<1>5. StoreQuiet(r)
  BY <1>3, <1>4, SessionMoved DEF Unlock, context, database
<1> QED
  BY <1>5, CallSettled, StepHolds DEF Unlock

\* The caller changes opts while the probe is awaited.
LEMMA MutateOptionsHolds ==
    ASSUME MigInv, NEW r \in Runner, MutateOptions(r)
    PROVE  MigInv'
<1>1. /\ UNCHANGED <<server, created, recorded, btreeGist, holder, extHolder, tx>>
      /\ UNCHANGED <<reserved, pc, conn, schema, next, lockHeld, missing, why>>
  BY DEF MutateOptions, database, locks, schemaLock, sessions
<1> QED
  BY <1>1, UnchangedHolds

\* A statement of the probe fails.
LEMMA ProbeStatementFailsHolds ==
    ASSUME MigInv, NEW r \in Runner, ProbeStatementFails(r)
    PROVE  MigInv'
<1>1. StoreQuiet(r)
  BY StoreKept DEF ProbeStatementFails, context, database, locks, schemaLock, sessions
<1> QED
  BY <1>1, CallSettled, StepHolds DEF ProbeStatementFails

\* A statement of runMigrationsImpl fails and its catch or finally block runs.
LEMMA StatementFailsHolds ==
    ASSUME MigInv, NEW r \in Runner, StatementFails(r)
    PROVE  MigInv'
<1>1. StoreQuiet(r)
  BY StoreKept DEF StatementFails, context, database, locks, schemaLock, sessions
<1>2. /\ Goto(r, CatchOf(pc[r])) /\ why' = [why EXCEPT ![r] = "StatementError"]
      /\ UNCHANGED <<holder, reserved, conn, schema, next, lockHeld, missing>>
      /\ CatchOf(pc[r]) # "none"
  BY DEF StatementFails, Throw, locks, schemaLock, call
<1>3. pc[r] \in Labels \ Connectionless /\ CatchOf(pc[r]) \in Undoing
  BY <1>2 DEF MigInv, TypedCalls, CatchOf, Connectionless, Undoing
<1>4. Follows(pc[r], CatchOf(pc[r]))
  BY <1>3, UndoFollows
<1> QED
  BY <1>1, <1>2, <1>4, Thrown, CallMoves

\* A cleanup statement fails, or the lock's own answer does: the lock stays behind.
LEMMA CleanupFailsHolds ==
    ASSUME MigInv, NEW r \in Runner, CleanupFails(r)
    PROVE  MigInv'
<1>1. UNCHANGED <<server, created, recorded, btreeGist, extHolder, tx>>
  BY DEF CleanupFails, context, database
<1>2. UNCHANGED schemaLock => StoreQuiet(r) /\ holder' = holder
  BY <1>1, StoreKept DEF schemaLock
<1>3. CASE pc[r] = "unsentinel" /\ ProbeEnd(r) /\ UNCHANGED schemaLock
  BY <1>2, <1>3, ProbeEndHolds
<1>4. CASE /\ pc[r] = "wait" /\ holder[schema[r]] \in {NoConn, conn[r]}
           /\ Lock(schema[r], conn[r]) /\ Throw(r, "MigrationLockTimeoutError", "rollback")
           /\ UNCHANGED <<reserved, conn, call>>
  <2>1. StoreQuiet(r)
    BY <1>1, <1>4, LockTaken
  <2>2. ~lockHeld[r]
    BY <1>4 DEF MigInv, Secure, Before
  <2>3. Follows(pc[r], "rollback")
    BY <1>4, UndoFollows DEF Labels, Connectionless, Undoing
  <2> QED
    BY <1>4, <2>1, <2>2, <2>3, Thrown, CallMoves DEF Throw, call
<1>5. CASE /\ pc[r] = "reset" /\ Throw(r, "StatementError", "unlock")
           /\ UNCHANGED <<schemaLock, reserved, conn, call>>
  <2>1. Follows(pc[r], "unlock")
    BY <1>5, UndoFollows DEF Labels, Connectionless, Undoing
  <2> QED
    BY <1>2, <1>5, <2>1, Thrown, CallMoves DEF Throw, call
<1>6. CASE Release(r) /\ Settle(r, "StatementError") /\ UNCHANGED schemaLock
  BY <1>2, <1>6, CallSettled, StepHolds
<1> QED
  BY <1>3, <1>4, <1>5, <1>6 DEF CleanupFails

(* Prefixes of a lineage *)

\* Applying the migration after the last one applied keeps to the lineage.
LEMMA PrefixExtends ==
    ASSUME NEW s \in Seq(STRING), NEW t \in Seq(STRING), Begins(s, t), Len(s) < Len(t)
    PROVE  Append(s, t[Len(s) + 1]) \in Seq(STRING) /\ Begins(Append(s, t[Len(s) + 1]), t)
<1> DEFINE u == Append(s, t[Len(s) + 1])
<1>1. t[Len(s) + 1] \in STRING
  BY SMT
<1>2. u \in Seq(STRING) /\ Len(u) = Len(s) + 1
  BY SMT, <1>1
<1>3. \A i \in 1..Len(s) : s[i] = t[i]
  BY DEF Begins
<1>4. \A i \in 1..Len(u) : u[i] = t[i]
  BY SMT, <1>1, <1>2, <1>3
<1>5. Len(u) <= Len(t)
  BY SMT, <1>2
<1>6. Begins(u, t)
  BY <1>2, <1>4, <1>5 DEF Begins
<1> QED
  BY <1>2, <1>6

\* A migration has been applied exactly when its place is within what was applied.
LEMMA PrefixMembers ==
    ASSUME NEW s \in Seq(STRING), NEW t \in Seq(STRING), Begins(s, t), IsInjective(t),
           NEW i \in 1..Len(t)
    PROVE  t[i] \in Range(s) <=> i <= Len(s)
<1>1. Len(s) <= Len(t) /\ \A j \in 1..Len(s) : s[j] = t[j]
  BY DEF Begins
<1>2. DOMAIN s = 1..Len(s) /\ DOMAIN t = 1..Len(t)
  BY SMT
<1>3. ASSUME i <= Len(s) PROVE t[i] \in Range(s)
  BY SMT, <1>1, <1>2, <1>3 DEF Range
<1>4. ASSUME t[i] \in Range(s) PROVE i <= Len(s)
  <2>1. PICK j \in 1..Len(s) : t[i] = s[j]
    BY <1>2, <1>4 DEF Range
  <2>2. j \in DOMAIN t /\ i \in DOMAIN t /\ t[i] = t[j]
    BY SMT, <1>1, <1>2, <2>1
  <2>3. i = j
    BY <2>2 DEF IsInjective
  <2> QED
    BY SMT, <2>1, <2>3
<1> QED
  BY <1>3, <1>4

-----------------------------------------------------------------------------
(* Steps that read or write the catalog *)

\* to_regclass: the table is there exactly when the bootstrap migration is.
LEMMA BootstrappedHolds ==
    ASSUME MigInv, NEW r \in Runner, Bootstrapped(r)
    PROVE  MigInv'
<1> DEFINE s == schema[r]
           exists == Lineage[s][1] \in Range(created[s])
<1>1. Secure(r) /\ Progress(r) /\ TypedCalls
  BY DEF MigInv
<1>2. /\ pc[r] = "regclass" /\ next' = [next EXCEPT ![r] = IF exists THEN 2 ELSE 1]
      /\ pc' = [pc EXCEPT ![r] = IF exists THEN "check" ELSE "up"]
      /\ UNCHANGED <<server, created, recorded, btreeGist, holder, extHolder, tx>>
      /\ UNCHANGED <<reserved, conn, schema, lockHeld, missing, why>>
  BY DEF Bootstrapped, Goto, context, database, locks, schemaLock, sessions
<1>3. StoreQuiet(r)
  BY <1>2, StoreKept
<1>4. CallQuiet(r)
  BY <1>2 DEF MigInv, TypedCalls, Owned, Labels, CallQuiet, QuietCalls
<1>5. /\ s \in Schema /\ created[s] \in Seq(STRING) /\ Lineage[s] \in Seq(STRING)
      /\ Begins(created[s], Lineage[s]) /\ IsInjective(Lineage[s]) /\ Len(Lineage[s]) > 0
  BY MigrationConstants DEF MigInv, TypedStore, TypedCalls, AppliedInOrder
<1>6. /\ Len(created[s]) \in Nat /\ 1 \in 1..Len(Lineage[s])
  BY ONLY <1>5
<1>7. exists <=> 1 <= Len(created[s])
  BY <1>5, <1>6, PrefixMembers
<1>8. \/ pc'[r] = "check" /\ next'[r] = 2 /\ 1 <= Len(created[s])
      \/ pc'[r] = "up" /\ next'[r] = 1 /\ Len(created[s]) = 0
  <2>1. 1 <= Len(created[s]) \/ Len(created[s]) = 0
    BY ONLY <1>6
  <2> QED
    BY <1>1, <1>2, <1>7, <2>1 DEF TypedCalls
<1>9. Secure(r)'
  BY <1>1, <1>2, <1>8 DEF Secure, Before, Inside, Writing, Durable, classifyFsync,
                          classifyFullPageWrites
<1>10. Progress(r)'
  BY SMT, <1>1, <1>2, <1>6, <1>8 DEF Progress, Writing, Undoing
<1> QED
  BY <1>3, <1>4, <1>9, <1>10, StepHolds

\* Which migrations of its schema call r finds applied.
LEMMA AppliedBelow ==
    ASSUME MigInv, NEW r \in Runner, next[r] \in 1..Len(Lineage[schema[r]])
    PROVE  /\ Migration(r) \in Range(created[schema[r]]) <=> next[r] <= Len(created[schema[r]])
           /\ recorded[schema[r]] = created[schema[r]]
<1> DEFINE s == schema[r]
<1>1. /\ s \in Schema /\ created[s] \in Seq(STRING) /\ Lineage[s] \in Seq(STRING)
      /\ Begins(created[s], Lineage[s]) /\ IsInjective(Lineage[s]) /\ recorded[s] = created[s]
  BY MigrationConstants DEF MigInv, TypedStore, TypedCalls, AppliedInOrder
<1> QED
  BY <1>1, PrefixMembers DEF Migration

\* The look at _migrations: a migration that has no row is the next one to apply.
LEMMA CheckAppliedHolds ==
    ASSUME MigInv, NEW r \in Runner, CheckApplied(r)
    PROVE  MigInv'
<1> DEFINE s == schema[r]
<1>1. Secure(r) /\ Progress(r) /\ TypedCalls
  BY DEF MigInv
<1>2. /\ UNCHANGED <<server, created, recorded, btreeGist, holder, extHolder, tx>>
      /\ UNCHANGED <<reserved, conn, schema, lockHeld, missing, why>>
  BY DEF CheckApplied, context, database, locks, schemaLock, sessions
<1>3. s \in Schema /\ created[s] \in Seq(STRING) /\ Lineage[s] \in Seq(STRING)
  BY MigrationConstants DEF MigInv, TypedStore, TypedCalls
<1>4. /\ pc[r] = "check" /\ next[r] \in Nat /\ next[r] >= 1 /\ next[r] <= Len(created[s]) + 1
      /\ Len(created[s]) \in Nat /\ Len(Lineage[s]) \in Nat
  BY SMT, <1>1, <1>3 DEF CheckApplied, TypedCalls, Progress
<1>5. \/ pc' = [pc EXCEPT ![r] = "reset"] /\ next' = next
      \/ /\ pc' = pc /\ next' = [next EXCEPT ![r] = next[r] + 1]
         /\ next[r] <= Len(created[s])
      \/ /\ pc' = [pc EXCEPT ![r] = "up"] /\ next' = next
         /\ next[r] \in 1..Len(Lineage[s]) /\ Len(created[s]) = next[r] - 1
  <2>1. \/ pc' = [pc EXCEPT ![r] = "reset"] /\ next' = next
        \/ /\ next[r] <= Len(Lineage[s]) /\ Migration(r) \in Range(recorded[s])
           /\ pc' = pc /\ next' = [next EXCEPT ![r] = next[r] + 1]
        \/ /\ next[r] <= Len(Lineage[s]) /\ Migration(r) \notin Range(recorded[s])
           /\ pc' = [pc EXCEPT ![r] = "up"] /\ next' = next
    BY DEF CheckApplied, Goto
  <2>2. next[r] <= Len(Lineage[s]) => next[r] \in 1..Len(Lineage[s])
    BY ONLY <1>4
  <2>3. next[r] <= Len(created[s]) \/ Len(created[s]) = next[r] - 1
    BY ONLY <1>4
  <2>4. next[r] \in 1..Len(Lineage[s]) =>
           (Migration(r) \in Range(recorded[s]) <=> next[r] <= Len(created[s]))
    BY AppliedBelow
  <2> QED
    BY ONLY <2>1, <2>2, <2>3, <2>4
<1>6. CallQuiet(r)
  <2>1. pc' \in [Runner -> Labels] /\ next' \in [Runner -> Nat]
    <3>1. next[r] + 1 \in Nat /\ "reset" \in Labels /\ "up" \in Labels
      BY SMT, <1>4 DEF Labels
    <3> QED
      BY <1>1, <1>5, <3>1 DEF TypedCalls
  <2>2. \A o \in Runner \ {r} : pc'[o] = pc[o] /\ next'[o] = next[o]
    BY <1>1, <1>5 DEF TypedCalls
  <2> QED
    BY <1>2, <2>1, <2>2 DEF MigInv, TypedCalls, Owned, CallQuiet, QuietCalls
<1>7. \/ pc'[r] = "reset" /\ next'[r] = next[r]
      \/ pc'[r] = "check" /\ next'[r] = next[r] + 1 /\ next[r] <= Len(created[s])
      \/ /\ pc'[r] = "up" /\ next'[r] = next[r]
         /\ next[r] \in 1..Len(Lineage[s]) /\ Len(created[s]) = next[r] - 1
  BY <1>1, <1>4, <1>5 DEF TypedCalls
<1>8. Secure(r)'
  BY <1>1, <1>2, <1>4, <1>7 DEF Secure, Before, Inside, Writing, Durable, classifyFsync,
                                classifyFullPageWrites
<1>9. Progress(r)'
  BY SMT, <1>1, <1>2, <1>4, <1>7 DEF Progress, Writing, Undoing
<1> QED
  BY <1>2, <1>6, <1>8, <1>9, StoreKept, StepHolds

\* BEGIN, and the database-wide lock: the extension is looked for under it.
LEMMA UpHolds ==
    ASSUME MigInv, NEW r \in Runner, Up(r)
    PROVE  MigInv'
<1>1. Secure(r) /\ Progress(r) /\ TypedCalls
  BY DEF MigInv
<1>2. /\ pc[r] = "up" /\ tx' = [tx EXCEPT ![conn[r]] = OpenTx]
      /\ pc' = [pc EXCEPT ![r] = "ddl"]
      /\ UNCHANGED <<server, created, recorded, btreeGist, holder>>
      /\ UNCHANGED <<reserved, conn, schema, lockHeld, next, why>>
  BY DEF Up, Begin, Goto, context, database, schemaLock
<1>3. \/ extHolder' = extHolder /\ missing' = missing
      \/ /\ extHolder \in {NoConn, conn[r]} /\ extHolder' = conn[r]
         /\ missing' = [missing EXCEPT ![r] = ~btreeGist]
  BY DEF Up
<1>4. conn[r] \in Conn /\ OpenTx \in TxType
  BY <1>1, <1>2, OpenTxType DEF Secure
<1>5. StoreQuiet(r) /\ tx'[conn[r]] = OpenTx
  <2>1. \/ extHolder' = extHolder
        \/ extHolder' \in {NoConn, conn[r]} /\ extHolder \in {NoConn, conn[r]}
    BY <1>3
  <2> QED
    BY <1>2, <1>4, <2>1, TxMoved, Zenon
<1>6. CallQuiet(r)
  <2>1. missing' \in [Runner -> BOOLEAN] /\ \A o \in Runner \ {r} : missing'[o] = missing[o]
    BY <1>1, <1>3, Zenon DEF TypedCalls
  <2>2. pc' \in [Runner -> Labels] /\ \A o \in Runner \ {r} : pc'[o] = pc[o]
    BY <1>1, <1>2 DEF TypedCalls, Labels
  <2> QED
    BY <1>2, <2>1, <2>2 DEF MigInv, TypedCalls, Owned, CallQuiet, QuietCalls
<1>7. pc'[r] = "ddl"
  BY <1>1, <1>2 DEF TypedCalls
<1>8. missing'[r] => extHolder' = conn[r] /\ ~btreeGist
  <2>1. ~missing[r]
    BY <1>1, <1>2 DEF Progress, Undoing
  <2> QED
    BY <1>1, <1>3, <2>1 DEF TypedCalls
<1>9. Secure(r)'
  BY <1>1, <1>2, <1>4, <1>7 DEF Secure, Before, Inside, Writing, Durable, classifyFsync,
                                classifyFullPageWrites
<1>10. ~OpenTx.ddl /\ ~OpenTx.row /\ ~OpenTx.ext
  BY OpenTxType
<1>11. Progress(r)'
  BY <1>1, <1>2, <1>5, <1>7, <1>8, <1>10 DEF Progress, Writing, Undoing
<1> QED
  BY <1>5, <1>6, <1>9, <1>11, StepHolds

\* Nothing that call r creates is there: nobody else could have created it.
LEMMA DdlHolds ==
    ASSUME MigInv, NEW r \in Runner, Ddl(r)
    PROVE  MigInv'
<1> DEFINE t == [tx[conn[r]] EXCEPT !.ddl = TRUE, !.ext = missing[r]]
<1>1. Secure(r) /\ Progress(r) /\ TypedCalls /\ TypedStore
  BY DEF MigInv
<1>2. pc[r] = "ddl"
  BY DEF Ddl
<1>3. /\ conn[r] \in Conn /\ lockHeld[r] /\ schema[r] \in Schema /\ next[r] \in Nat
      /\ next[r] \in 1..Len(Lineage[schema[r]]) /\ Len(created[schema[r]]) = next[r] - 1
      /\ missing[r] => extHolder = conn[r] /\ ~btreeGist
      /\ ~tx[conn[r]].row /\ tx[conn[r]] \in TxType /\ missing[r] \in BOOLEAN
  BY <1>1, <1>2 DEF TypedCalls, TypedStore, Secure, Progress, Inside, Writing
<1>4. ~CatalogClash(r)
  <2>1. ~(next[r] <= Len(created[schema[r]]))
    <3>1. next[r] \in Nat /\ Len(created[schema[r]]) = next[r] - 1
      BY <1>3
    <3> QED
      BY ONLY <3>1
  <2>2. Migration(r) \notin Range(created[schema[r]])
    BY <1>3, <2>1, AppliedBelow
  <2> QED
    BY <1>3, <2>2, Zenon DEF CatalogClash
<1>5. /\ tx' = [tx EXCEPT ![conn[r]].ddl = TRUE, ![conn[r]].ext = missing[r]]
      /\ pc' = [pc EXCEPT ![r] = "record"]
      /\ UNCHANGED <<server, created, recorded, btreeGist, holder, extHolder>>
      /\ UNCHANGED <<reserved, conn, schema, next, lockHeld, missing, why>>
  BY <1>4 DEF Ddl, Goto, context, database, locks, schemaLock, call
<1>6. t \in TxType /\ t.ddl /\ ~t.row /\ t.ext = missing[r]
  BY <1>3, Zenon DEF TxType
<1>7. tx' = [tx EXCEPT ![conn[r]] = t]
  BY <1>1, <1>3, <1>5, Zenon DEF TypedStore, TxType
<1>8. StoreQuiet(r) /\ tx'[conn[r]] = t
  BY ONLY MigInv, r \in Runner, <1>3, <1>5, <1>6, <1>7, TxMoved, Zenon
<1>9. CallQuiet(r) /\ pc'[r] = "record"
  BY <1>5, CallMoved, Zenon DEF Labels
<1>10. Secure(r)'
  BY <1>1, <1>2, <1>3, <1>5, <1>9 DEF Secure, Before, Inside, Writing, Durable, classifyFsync,
                                      classifyFullPageWrites
<1>11. Progress(r)'
  BY <1>3, <1>5, <1>6, <1>8, <1>9, Zenon DEF Progress, Writing, Undoing
<1> QED
  BY <1>8, <1>9, <1>10, <1>11, StepHolds

\* The insert into _migrations, after the DDL and in its transaction.
LEMMA RecordHolds ==
    ASSUME MigInv, NEW r \in Runner, Record(r)
    PROVE  MigInv'
<1> DEFINE t == [tx[conn[r]] EXCEPT !.row = TRUE]
<1>1. Secure(r) /\ Progress(r) /\ TypedCalls /\ TypedStore
  BY DEF MigInv
<1>2. /\ pc[r] = "record" /\ tx' = [tx EXCEPT ![conn[r]].row = TRUE]
      /\ pc' = [pc EXCEPT ![r] = "commit"]
      /\ UNCHANGED <<server, created, recorded, btreeGist, holder, extHolder>>
      /\ UNCHANGED <<reserved, conn, schema, next, lockHeld, missing, why>>
  BY DEF Record, Goto, context, database, locks, schemaLock, call
<1>3. conn[r] \in Conn /\ tx[conn[r]] \in TxType /\ missing[r] \in BOOLEAN
      /\ tx[conn[r]].ddl /\ tx[conn[r]].ext = missing[r]
  BY <1>1, <1>2 DEF TypedCalls, TypedStore, Secure, Progress
<1>4. t \in TxType /\ t.ddl /\ t.row /\ t.ext = missing[r]
  BY <1>3, Zenon DEF TxType
<1>5. tx' = [tx EXCEPT ![conn[r]] = t]
  BY <1>1, <1>2, <1>3 DEF TypedStore, TxType
<1>6. StoreQuiet(r) /\ tx'[conn[r]] = t
  BY ONLY MigInv, r \in Runner, <1>2, <1>3, <1>4, <1>5, TxMoved, Zenon
<1>7. CallQuiet(r) /\ pc'[r] = "commit"
  BY <1>2, CallMoved, Zenon DEF Labels
<1>8. Secure(r)'
  BY <1>1, <1>2, <1>3, <1>7 DEF Secure, Before, Inside, Writing, Durable, classifyFsync,
                                classifyFullPageWrites
<1>9. Progress(r)'
  BY <1>1, <1>2, <1>4, <1>6, <1>7, Zenon DEF Progress, Writing, Undoing
<1> QED
  BY <1>6, <1>7, <1>8, <1>9, StepHolds

\* A transaction that commits adds its migration and its row, the next of the lineage.
LEMMA ApplyExtends ==
    ASSUME MigInv, NEW r \in Runner, pc[r] = "commit", Apply(r), server' = server
    PROVE  /\ AppliedInOrder' /\ QuietCatalog(r)
           /\ created' \in [Schema -> Seq(STRING)] /\ recorded' \in [Schema -> Seq(STRING)]
           /\ btreeGist' \in BOOLEAN
           /\ Len(created'[schema[r]]) = next[r]
<1> DEFINE s == schema[r]
           longer == Append(created[s], Migration(r))
<1>1. Secure(r) /\ Progress(r) /\ TypedCalls /\ TypedStore /\ AppliedInOrder
  BY DEF MigInv
<1>2. /\ conn[r] \in Conn /\ lockHeld[r] /\ Durable /\ s \in Schema /\ next[r] \in Nat
      /\ next[r] \in 1..Len(Lineage[s]) /\ Len(created[s]) = next[r] - 1
      /\ tx[conn[r]].ddl /\ tx[conn[r]].row /\ tx[conn[r]].ext = missing[r]
      /\ missing[r] \in BOOLEAN /\ missing[r] => extHolder = conn[r]
  BY <1>1 DEF TypedCalls, Secure, Progress, Inside, Writing
<1>3. /\ created[s] \in Seq(STRING) /\ recorded[s] = created[s] /\ Lineage[s] \in Seq(STRING)
      /\ Begins(created[s], Lineage[s])
  BY <1>1, <1>2, MigrationConstants DEF TypedStore, AppliedInOrder
<1>4. /\ created' = [created EXCEPT ![s] = longer]
      /\ recorded' = [recorded EXCEPT ![s] = longer]
      /\ btreeGist' = (btreeGist \/ tx[conn[r]].ext)
  BY <1>2, <1>3 DEF Apply
<1>5. next[r] = Len(created[s]) + 1 /\ Len(created[s]) < Len(Lineage[s])
  <2>1. Len(created[s]) \in Nat /\ Len(Lineage[s]) \in Nat
    BY ONLY <1>3
  <2>2. next[r] \in 1..Len(Lineage[s]) /\ Len(created[s]) = next[r] - 1
    BY <1>2
  <2> QED
    BY ONLY <2>1, <2>2
<1>6. longer \in Seq(STRING) /\ Begins(longer, Lineage[s])
  BY <1>3, <1>5, PrefixExtends DEF Migration
<1>7. Len(longer) = next[r]
  <2>1. Migration(r) \in STRING
    BY ONLY <1>2, <1>3 DEF Migration
  <2> QED
    BY ONLY <1>3, <1>5, <2>1
<1>8. created' \in [Schema -> Seq(STRING)] /\ recorded' \in [Schema -> Seq(STRING)]
      /\ created'[s] = longer /\ recorded'[s] = longer
  BY <1>1, <1>2, <1>4, <1>6 DEF TypedStore
<1>9. AppliedInOrder'
  <2>1. Durable'
    BY <1>2 DEF Durable, classifyFsync, classifyFullPageWrites
  <2>2. ASSUME NEW q \in Schema, q # s
        PROVE  created'[q] = created[q] /\ recorded'[q] = recorded[q]
    BY <1>1, <1>4, <2>2 DEF TypedStore
  <2> QED
    BY <1>1, <1>6, <1>8, <2>1, <2>2, Zenon DEF AppliedInOrder
<1>10. btreeGist' \in BOOLEAN /\ (btreeGist' = btreeGist \/ extHolder = conn[r])
  BY <1>1, <1>2, <1>4, Zenon DEF TypedStore
<1>11. QuietCatalog(r)
  BY <1>1, <1>2, <1>4, <1>10 DEF TypedStore, QuietCatalog
<1> QED
  BY <1>7, <1>8, <1>9, <1>10, <1>11

\* COMMIT: the migration and its row appear together.
LEMMA CommitHolds ==
    ASSUME MigInv, NEW r \in Runner, Commit(r)
    PROVE  MigInv'
<1>1. Secure(r) /\ Progress(r) /\ TypedCalls /\ TypedStore
  BY DEF MigInv
<1>2. /\ pc[r] = "commit" /\ Apply(r) /\ EndTx(conn[r])
      /\ next' = [next EXCEPT ![r] = next[r] + 1] /\ missing' = [missing EXCEPT ![r] = FALSE]
      /\ pc' = [pc EXCEPT ![r] = "check"]
      /\ UNCHANGED <<server, holder, reserved, conn, schema, lockHeld, why>>
  BY DEF Commit, Goto, context, schemaLock
<1>3. /\ AppliedInOrder' /\ QuietCatalog(r) /\ Len(created'[schema[r]]) = next[r]
      /\ created' \in [Schema -> Seq(STRING)] /\ recorded' \in [Schema -> Seq(STRING)]
      /\ btreeGist' \in BOOLEAN
  BY <1>2, ApplyExtends
<1>4. conn[r] \in Conn /\ next[r] \in Nat /\ next[r] >= 1
  <2>1. conn[r] \in Conn /\ next[r] \in 1..Len(Lineage[schema[r]])
    BY <1>1, <1>2 DEF Secure, Progress, Writing
  <2>2. next[r] \in Nat
    BY <1>1 DEF TypedCalls
  <2> QED
    BY SMT, <2>1, <2>2
<1>5. extHolder' \in Session /\ tx' \in [Conn -> TxType] /\ holder' \in [Schema -> Session]
  <2>1. NoTx \in TxType
    BY DEF NoTx, TxType
  <2> QED
    BY <1>1, <1>2, <2>1, Zenon DEF TypedStore, EndTx, Session
<1>6. QuietSessions(r)
  BY <1>1, <1>2 DEF TypedStore, EndTx, QuietSessions
<1>7. StoreQuiet(r)
  BY <1>3, <1>5, <1>6 DEF TypedStore, StoreQuiet
<1>8. CallQuiet(r)
  <2>1. pc' \in [Runner -> Labels] /\ \A o \in Runner \ {r} : pc'[o] = pc[o]
    BY <1>1, <1>2 DEF TypedCalls, Labels
  <2>2. next' \in [Runner -> Nat] /\ \A o \in Runner \ {r} : next'[o] = next[o]
    BY SMT, <1>1, <1>2, <1>4 DEF TypedCalls
  <2>3. missing' \in [Runner -> BOOLEAN] /\ \A o \in Runner \ {r} : missing'[o] = missing[o]
    BY <1>1, <1>2 DEF TypedCalls
  <2> QED
    BY <1>2, <2>1, <2>2, <2>3 DEF MigInv, TypedCalls, Owned, CallQuiet, QuietCalls
<1>9. pc'[r] = "check" /\ next'[r] = next[r] + 1 /\ ~missing'[r]
  BY <1>1, <1>2 DEF TypedCalls
<1>10. Secure(r)'
  BY <1>1, <1>2, <1>9 DEF Secure, Before, Inside, Writing, Durable, classifyFsync,
                          classifyFullPageWrites
<1>11. Progress(r)'
  <2>1. next'[r] >= 1 /\ next'[r] <= Len(created'[schema'[r]]) + 1
    BY SMT, <1>2, <1>3, <1>4, <1>9
  <2> QED
    BY <1>9, <2>1 DEF Progress, Writing, Undoing
<1> QED
  BY <1>7, <1>8, <1>10, <1>11, StepHolds

\* Whether or not a COMMIT arrived, the session is gone and its locks are nobody's.
LEMMA ConnectionLostHolds ==
    ASSUME MigInv, NEW r \in Runner, ConnectionLost(r)
    PROVE  MigInv'
<1>1. TypedCalls /\ TypedStore
  BY DEF MigInv
<1>2. /\ conn[r] \in Conn /\ Release(r) /\ Settle(r, "ConnectionError") /\ server' = server
      /\ holder' = [s \in Schema |-> IF holder[s] = conn[r] THEN Lost ELSE holder[s]]
      /\ extHolder' = IF extHolder = conn[r] THEN Lost ELSE extHolder
      /\ tx' = [tx EXCEPT ![conn[r]] = NoTx]
  BY <1>1 DEF ConnectionLost, TypedCalls, context
<1>3. /\ AppliedInOrder' /\ QuietCatalog(r)
      /\ created' \in [Schema -> Seq(STRING)] /\ recorded' \in [Schema -> Seq(STRING)]
      /\ btreeGist' \in BOOLEAN
  <2>1. CASE UNCHANGED database
    BY <1>2, <2>1 DEF MigInv, TypedStore, QuietCatalog, database, AppliedInOrder, Durable,
                      classifyFsync, classifyFullPageWrites
  <2>2. CASE pc[r] = "commit" /\ Apply(r)
    BY <1>2, <2>2, ApplyExtends
  <2> QED
    BY <2>1, <2>2 DEF ConnectionLost
<1>4. extHolder' \in Session /\ tx' \in [Conn -> TxType] /\ holder' \in [Schema -> Session]
  <2>1. NoTx \in TxType
    BY DEF NoTx, TxType
  <2> QED
    BY <1>1, <1>2, <2>1 DEF TypedStore, Session
<1>5. QuietSessions(r)
  BY <1>1, <1>2 DEF TypedStore, QuietSessions
<1>6. StoreQuiet(r)
  BY <1>3, <1>4, <1>5 DEF TypedStore, StoreQuiet
<1> QED
  BY <1>2, <1>6, CallSettled, StepHolds

\* Only locks of sessions that no call has are given back.
LEMMA ServerNoticesHolds ==
    ASSUME MigInv, ServerNotices
    PROVE  MigInv'
<1>1. /\ UNCHANGED <<server, created, recorded, btreeGist, tx, reserved, pc, conn, schema, next>>
      /\ UNCHANGED <<lockHeld, missing, why>>
      /\ holder' = [s \in Schema |-> IF holder[s] = Lost THEN NoConn ELSE holder[s]]
      /\ extHolder' = IF extHolder = Lost THEN NoConn ELSE extHolder
  BY DEF ServerNotices, context, database, sessions, call
<1>2. TypedStore' /\ TypedCalls' /\ Owned' /\ AppliedInOrder'
  BY <1>1 DEF MigInv, TypedStore, TypedCalls, Owned, Session, AppliedInOrder, Durable,
              classifyFsync, classifyFullPageWrites
<1>3. ASSUME NEW o \in Runner PROVE Secure(o)' /\ Progress(o)'
  <2>1. Secure(o) /\ Progress(o) /\ conn[o] # Lost /\ schema[o] \in Schema
    BY MigrationConstants DEF MigInv, TypedCalls
  <2>2. lockHeld[o] => holder'[schema[o]] = conn[o]
    BY <1>1, <2>1 DEF Secure
  <2>3. extHolder = conn[o] => extHolder' = conn[o]
    BY <1>1, <2>1
  <2>4. Secure(o)'
    BY <1>1, <2>1, <2>2 DEF Secure, Durable, classifyFsync, classifyFullPageWrites
  <2>5. Progress(o)'
    BY <1>1, <2>1, <2>3 DEF Progress
  <2> QED
    BY <2>4, <2>5
<1> QED
  BY <1>2, <1>3 DEF MigInv

-----------------------------------------------------------------------------
(* What is left on a connection *)

InTx == {"wait", "locked", "ddl", "record", "commit", "rollback"}
Widened == {"regclass", "check", "reset"} \cup Writing

TypedSessions ==
    /\ depth \in [Schema -> Nat]
    /\ path \in [Conn -> Schema \cup {"default"}]
    /\ lockTimeout \in [Conn -> {"session", "local"}]

\* A free lock is held no times, a lock of a session at least once.
Counted == \A s \in Schema : /\ holder[s] = NoConn => depth[s] = 0
                             /\ holder[s] \in Conn => depth[s] >= 1

\* What is set on the session of call r is what r will undo from where it is.
Mine(r) ==
    /\ \A s \in Schema : holder[s] = conn[r] => lockHeld[r] /\ s = schema[r] /\ depth[s] = 1
    /\ conn[r] \in sentinel => pc[r] = "unsentinel"
    /\ path[conn[r]] # "default" => \/ pc[r] \in Widened
                                    \/ pc[r] = "rollback" /\ next[r] # 0
    /\ lockTimeout[conn[r]] # "session" => pc[r] \in {"wait", "locked", "rollback"}
    /\ extHolder = conn[r] \/ tx[conn[r]].open => pc[r] \in InTx

TidyInv == /\ TypedSessions /\ Counted /\ ConnectionsClean
           /\ \A r \in Runner : conn[r] \in Conn \ spoiled => Mine(r)

\* Nothing of a call is on connection c.
Clean(c) ==
    /\ \A s \in Schema : holder[s] # c
    /\ extHolder # c /\ c \notin sentinel
    /\ path[c] = "default" /\ lockTimeout[c] = "session" /\ ~tx[c].open

\* ConnectionsClean, connection by connection.
LEMMA CleanEach ==
    ASSUME TypedStore
    PROVE  ConnectionsClean <=> \A c \in Conn \ (reserved \cup spoiled) : Clean(c)
<1>1. \A c : c \in Range(holder) <=> \E s \in Schema : holder[s] = c
  BY DEF TypedStore, Range
<1>2. ASSUME NEW c
      PROVE  Clean(c) <=> /\ c \notin Range(holder) \cup {extHolder} \cup sentinel
                          /\ path[c] = "default" /\ lockTimeout[c] = "session" /\ ~tx[c].open
  BY <1>1 DEF Clean
<1> QED
  BY <1>2 DEF ConnectionsClean

\* The same after a step.
LEMMA CleanNext ==
    ASSUME TypedStore', \A c \in Conn \ (reserved' \cup spoiled') : Clean(c)'
    PROVE  ConnectionsClean'
<1>1. \A c : c \in Range(holder)' <=> \E s \in Schema : holder'[s] = c
  BY DEF TypedStore, Range
<1>2. ASSUME NEW c \in Conn \ (reserved' \cup spoiled')
      PROVE  /\ c \notin Range(holder)' \cup {extHolder'} \cup sentinel'
             /\ path'[c] = "default" /\ lockTimeout'[c] = "session" /\ ~tx'[c].open
  <2>1. Clean(c)'
    OBVIOUS
  <2> QED
    BY <1>1, <2>1 DEF Clean
<1> QED
  BY <1>2 DEF ConnectionsClean

\* Call r leaves the sessions of other connections as they are.
Apart(r) == \A c \in Conn : c # conn[r] =>
    /\ c \in spoiled => c \in spoiled'
    /\ c \in reserved => c \in reserved'
    /\ c \in sentinel' => c \in sentinel
    /\ path'[c] = path[c] /\ lockTimeout'[c] = lockTimeout[c] /\ tx'[c] = tx[c]
    /\ \A s \in Schema : holder'[s] = c => holder[s] = c /\ depth'[s] = depth[s]
    /\ extHolder' = c => extHolder = c

\* What there is to show of a step of call r: its own session is in order, and so is
\* one that it gives back.
LEMMA StepTidy ==
    ASSUME MigInv, TypedStore', TidyInv, NEW r \in Runner, QuietCalls(r), Apart(r),
           TypedSessions', Counted',
           conn'[r] \in Conn \ spoiled' => Mine(r)',
           conn[r] \in Conn \ (reserved' \cup spoiled') => \A c \in Conn : c = conn[r] => Clean(c)'
    PROVE  TidyInv'
<1>1. TypedStore /\ TypedCalls /\ Owned
  BY DEF MigInv
<1>2. ConnectionsClean'
  <2>1. \A c \in Conn \ (reserved \cup spoiled) : Clean(c)
    BY <1>1, CleanEach DEF TidyInv
  <2>2. ASSUME NEW c \in Conn \ (reserved' \cup spoiled') PROVE Clean(c)'
    <3>1. CASE c = conn[r]
      BY <3>1
    <3>2. CASE c # conn[r]
      <4>1. Clean(c)
        BY <2>1, <3>2 DEF Apart
      <4> QED
        BY <3>2, <4>1 DEF Apart, Clean
    <3> QED
      BY <3>1, <3>2
  <2> QED
    BY <2>2, CleanNext
<1>3. ASSUME NEW o \in Runner, conn'[o] \in Conn \ spoiled' PROVE Mine(o)'
  <2>1. CASE o = r
    BY <1>3, <2>1
  <2>2. CASE o # r
    <3>1. /\ pc'[o] = pc[o] /\ conn'[o] = conn[o] /\ schema'[o] = schema[o]
          /\ lockHeld'[o] = lockHeld[o] /\ next'[o] = next[o]
      BY <2>2 DEF QuietCalls
    <3>2. PICK c \in Conn : c = conn[o] /\ c \notin spoiled'
      BY <1>3, <3>1
    <3>3. c # conn[r]
      BY <1>1, <2>2, <3>2, MigrationConstants DEF Owned
    <3>4. Mine(o)
      BY <3>2, <3>3 DEF TidyInv, Apart
    <3>5. /\ c \in sentinel' => c \in sentinel
          /\ path'[c] = path[c] /\ lockTimeout'[c] = lockTimeout[c] /\ tx'[c] = tx[c]
          /\ \A s \in Schema : holder'[s] = c => holder[s] = c /\ depth'[s] = depth[s]
          /\ extHolder' = c => extHolder = c
      BY <3>3 DEF Apart
    <3>6. /\ \A s \in Schema : holder'[s] = c => lockHeld[o] /\ s = schema[o] /\ depth'[s] = 1
          /\ c \in sentinel' => pc[o] = "unsentinel"
          /\ extHolder' = c \/ tx'[c].open => pc[o] \in InTx
      BY <3>2, <3>4, <3>5 DEF Mine
    <3>7. /\ path'[c] # "default" => \/ pc[o] \in Widened
                                     \/ pc[o] = "rollback" /\ next[o] # 0
          /\ lockTimeout'[c] # "session" => pc[o] \in {"wait", "locked", "rollback"}
      BY <3>2, <3>4, <3>5 DEF Mine
    <3> QED
      BY <3>1, <3>2, <3>6, <3>7 DEF Mine
  <2> QED
    BY <2>1, <2>2
<1> QED
  BY <1>2, <1>3 DEF TidyInv

\* A step that leaves all sessions alone.
LEMMA StillTidy ==
    ASSUME MigInv, TypedStore', TidyInv, NEW r \in Runner, QuietCalls(r),
           UNCHANGED <<holder, depth, extHolder, sentinel, tx, path, lockTimeout, spoiled>>,
           reserved \subseteq reserved',
           conn'[r] \in Conn \ spoiled' => Mine(r)'
    PROVE  TidyInv'
<1>1. Apart(r)
  BY DEF Apart
<1>2. TypedSessions' /\ Counted'
  BY DEF TidyInv, TypedSessions, Counted
<1>3. ASSUME conn[r] \in Conn \ (reserved' \cup spoiled'), NEW c \in Conn, c = conn[r]
      PROVE  Clean(c)'
  <2>1. Clean(c)
    BY <1>3, CleanEach DEF MigInv, TidyInv
  <2> QED
    BY <2>1 DEF Clean
<1> QED
  BY <1>1, <1>2, <1>3, StepTidy

\* A call that gives back a connection on which it left nothing.
LEMMA ReleaseTidy ==
    ASSUME MigInv, TypedStore', TidyInv, NEW r \in Runner, QuietCalls(r), Apart(r),
           TypedSessions', Counted', Release(r),
           conn[r] \in Conn \ spoiled' => \A c \in Conn : c = conn[r] => Clean(c)'
    PROVE  TidyInv'
<1>1. conn'[r] = NoConn
  BY DEF Release, MigInv, TypedCalls
<1>2. conn'[r] \notin Conn
  BY <1>1, MigrationConstants
<1> QED
  BY <1>2, StepTidy

\* ... or that failed on it, or lost it.
LEMMA RestTidy ==
    ASSUME MigInv, TypedStore', TidyInv, NEW r \in Runner, QuietCalls(r), Apart(r),
           TypedSessions', Counted', conn'[r] \in Conn => conn'[r] \in spoiled',
           conn[r] \in Conn => conn[r] \in spoiled'
    PROVE  TidyInv'
BY StepTidy

\* A call moves on, or throws.
LEMMA MovedQuiet ==
    ASSUME TypedCalls, NEW r \in Runner, NEW l, NEW e, Goto(r, l),
           why' = why \/ why' = [why EXCEPT ![r] = e],
           UNCHANGED <<conn, schema, next, lockHeld, missing>>
    PROVE  QuietCalls(r) /\ pc'[r] = l
BY DEF TypedCalls, QuietCalls, Goto

\* Where a call has set nothing, its connection is clean.
LEMMA MineClean ==
    ASSUME NEW r \in Runner, Mine(r), ~lockHeld[r],
           pc[r] \notin Widened \cup InTx \cup {"unsentinel"}
    PROVE  Clean(conn[r])
BY DEF Mine, Clean, Widened, InTx

\* runMigrations is called.
LEMMA StartTidy ==
    ASSUME MigInv, TypedStore', TidyInv, NEW r \in Runner, Start(r)
    PROVE  TidyInv'
<1>1. TypedCalls /\ Secure(r)
  BY DEF MigInv
<1>2. /\ pc[r] = "idle" /\ pc' = [pc EXCEPT ![r] = "probe"]
      /\ UNCHANGED <<holder, depth, extHolder, sentinel, tx, path, lockTimeout, spoiled, reserved>>
      /\ UNCHANGED <<conn, lockHeld, next, missing, why>>
  BY DEF Start, Goto, locks, schemaLock, sessions
<1>3. QuietCalls(r)
  BY <1>1, <1>2 DEF Start, TypedCalls, QuietCalls
<1>4. ~lockHeld[r]
  BY <1>1, <1>2 DEF Secure, Before
<1>5. ASSUME conn'[r] \in Conn \ spoiled' PROVE Mine(r)'
  <2>1. Clean(conn[r])
    <3>1. Mine(r)
      BY <1>2, <1>5 DEF TidyInv
    <3> QED
      BY <1>2, <1>4, <3>1, MineClean DEF Widened, Writing, InTx
  <2> QED
    BY <1>2, <2>1 DEF Clean, Mine
<1> QED
  BY <1>2, <1>3, <1>5, StillTidy

\* What is reserved is clean, or a cleanup failed on it before.
LEMMA ReservedTidy ==
    ASSUME MigInv, TypedStore', TidyInv, NEW r \in Runner, NEW l \in Labels, Goto(r, l),
           ReserveConnection(r), UNCHANGED <<schema, next, lockHeld, missing, why>>,
           UNCHANGED <<holder, depth, extHolder, sentinel, tx, path, lockTimeout, spoiled>>
    PROVE  TidyInv'
<1>1. QuietCalls(r) /\ TypedCalls /\ TypedStore
  BY CallReserved DEF MigInv, CallQuiet
<1>2. PICK c \in PoolOf[r] \ reserved :
         reserved' = reserved \cup {c} /\ conn' = [conn EXCEPT ![r] = c]
  BY DEF ReserveConnection
<1>3. c \in Conn /\ conn'[r] = c
  BY <1>1, <1>2, MigrationConstants DEF TypedCalls
<1>4. ASSUME conn'[r] \in Conn \ spoiled' PROVE Mine(r)'
  <2>1. Clean(c)
    BY <1>1, <1>2, <1>3, <1>4, CleanEach DEF TidyInv
  <2> QED
    BY <1>3, <2>1 DEF Clean, Mine
<1> QED
  BY <1>1, <1>2, <1>4, StillTidy

\* The probe reserves its connection.
LEMMA ProbeReserveTidy ==
    ASSUME MigInv, TypedStore', TidyInv, NEW r \in Runner, ProbeReserve(r)
    PROVE  TidyInv'
<1>1. "settings" \in Labels
  BY DEF Labels
<1> QED
  BY <1>1, ReservedTidy DEF ProbeReserve, locks, schemaLock, sessions, call

\* The migrations reserve theirs, or opts turn out to have changed.
LEMMA ReserveTidy ==
    ASSUME MigInv, TypedStore', TidyInv, NEW r \in Runner, Reserve(r)
    PROVE  TidyInv'
<1>1. UNCHANGED <<holder, depth, extHolder, sentinel, tx, path, lockTimeout, spoiled>>
  BY DEF Reserve, locks, schemaLock, sessions
<1>2. CASE ReserveConnection(r) /\ Goto(r, "lock") /\ UNCHANGED <<call, why>>
  <2>1. "lock" \in Labels
    BY DEF Labels
  <2> QED
    BY <1>1, <1>2, <2>1, ReservedTidy DEF call
<1>3. CASE Settle(r, "ValidationError") /\ UNCHANGED <<reserved, conn>>
  <2>1. QuietCalls(r)
    BY <1>3, CallSettled DEF CallQuiet
  <2>2. pc[r] = "reserve" /\ ~lockHeld[r]
    BY DEF Reserve, MigInv, Secure, Before
  <2>3. ASSUME conn'[r] \in Conn \ spoiled' PROVE Mine(r)'
    <3>1. Mine(r)
      BY <1>1, <1>3, <2>3 DEF TidyInv
    <3>2. Clean(conn[r])
      BY <2>2, <3>1, MineClean DEF Widened, Writing, InTx
    <3> QED
      BY <1>1, <1>3, <3>2 DEF Clean, Mine
  <2> QED
    BY <1>1, <1>3, <2>1, <2>3, StillTidy
<1> QED
  BY <1>2, <1>3 DEF Reserve

\* A call gives its connection back from where it has set nothing.
LEMMA PlainReleaseTidy ==
    ASSUME MigInv, TypedStore', TidyInv, NEW r \in Runner, QuietCalls(r), Release(r),
           pc[r] \notin Widened \cup InTx \cup {"unsentinel"}, ~lockHeld[r],
           UNCHANGED <<holder, depth, extHolder, sentinel, tx, path, lockTimeout, spoiled>>
    PROVE  TidyInv'
<1>1. Apart(r)
  BY DEF Apart, Release
<1>2. TypedSessions' /\ Counted'
  BY DEF TidyInv, TypedSessions, Counted
<1>3. ASSUME conn[r] \in Conn \ spoiled', NEW c \in Conn, c = conn[r] PROVE Clean(c)'
  <2>1. Mine(r)
    BY <1>3 DEF TidyInv
  <2>2. Clean(c)
    BY <1>3, <2>1, MineClean
  <2> QED
    BY <2>2 DEF Clean
<1> QED
  BY <1>1, <1>2, <1>3, ReleaseTidy

\* The settings are read, and the probe throws or goes on.
LEMMA ReadSettingsTidy ==
    ASSUME MigInv, TypedStore', TidyInv, NEW r \in Runner, ReadSettings(r)
    PROVE  TidyInv'
<1>1. /\ pc[r] = "settings" /\ ~lockHeld[r] /\ TypedCalls
      /\ UNCHANGED <<holder, depth, extHolder, sentinel, tx, path, lockTimeout, spoiled>>
  BY DEF ReadSettings, locks, schemaLock, sessions, MigInv, Secure, Before
<1>2. pc[r] \notin Widened \cup InTx \cup {"unsentinel"}
  BY <1>1 DEF Widened, Writing, InTx
<1>3. CASE Release(r) /\ Settle(r, "DurabilityContractError")
  <2>1. QuietCalls(r)
    BY <1>3, CallSettled DEF CallQuiet
  <2> QED
    BY <1>1, <1>2, <1>3, <2>1, PlainReleaseTidy
<1>4. CASE Goto(r, "sentinel") /\ UNCHANGED <<reserved, conn, call, why>>
  <2>1. QuietCalls(r)
    BY <1>1, <1>4, MovedQuiet DEF call
  <2>2. ASSUME conn'[r] \in Conn \ spoiled' PROVE Mine(r)'
    <3>1. Clean(conn[r])
      BY <1>1, <1>2, <1>4, <2>2, MineClean DEF TidyInv
    <3> QED
      BY <1>1, <1>4, <3>1 DEF Clean, Mine
  <2> QED
    BY <1>1, <1>4, <2>1, <2>2, StillTidy
<1> QED
  BY <1>3, <1>4 DEF ReadSettings

\* A statement of the probe fails.
LEMMA ProbeStatementFailsTidy ==
    ASSUME MigInv, TypedStore', TidyInv, NEW r \in Runner, ProbeStatementFails(r)
    PROVE  TidyInv'
<1>1. /\ pc[r] \in {"settings", "sentinel"} /\ Release(r) /\ Settle(r, "StatementError")
      /\ UNCHANGED <<holder, depth, extHolder, sentinel, tx, path, lockTimeout, spoiled>>
  BY DEF ProbeStatementFails, locks, schemaLock, sessions
<1>2. ~lockHeld[r]
  BY <1>1 DEF MigInv, Secure, Before
<1>3. pc[r] \notin Widened \cup InTx \cup {"unsentinel"}
  BY <1>1 DEF Widened, Writing, InTx
<1>4. QuietCalls(r)
  BY <1>1, CallSettled DEF CallQuiet
<1> QED
  BY <1>1, <1>2, <1>3, <1>4, PlainReleaseTidy

\* The probe takes its sentinel lock.
LEMMA SentinelTaken ==
    ASSUME MigInv, TypedStore', TidyInv, NEW r \in Runner, pc[r] = "sentinel",
           Goto(r, "unsentinel"), sentinel' = sentinel \cup {conn[r]},
           UNCHANGED <<holder, depth, extHolder, tx, path, lockTimeout, spoiled>>,
           UNCHANGED <<reserved, conn, schema, lockHeld, next, missing, why>>
    PROVE  TidyInv'
<1>1. conn[r] \in Conn /\ ~lockHeld[r] /\ TypedCalls /\ TypedStore
  BY DEF MigInv, Secure, Before
<1>2. QuietCalls(r) /\ pc'[r] = "unsentinel"
  BY <1>1, MovedQuiet
<1>3. Apart(r)
  BY DEF Apart
<1>4. TypedSessions' /\ Counted'
  BY DEF TidyInv, TypedSessions, Counted
<1>5. ASSUME conn'[r] \in Conn \ spoiled' PROVE Mine(r)'
  <2>1. Mine(r)
    BY <1>5 DEF TidyInv
  <2> QED
    BY <1>2, <2>1 DEF Mine, Widened, Writing, InTx
<1>6. conn[r] \in reserved'
  BY <1>1, MigrationConstants DEF MigInv, Owned
<1> QED
  BY <1>2, <1>3, <1>4, <1>5, <1>6, StepTidy

\* It takes the lock, or is refused it and gives its connection back.
LEMMA SentinelTidy ==
    ASSUME MigInv, TypedStore', TidyInv, NEW r \in Runner, probeAdvisoryLockVisibility(r)
    PROVE  TidyInv'
<1>1. /\ pc[r] = "sentinel"
      /\ UNCHANGED <<holder, depth, extHolder, tx, path, lockTimeout, spoiled>>
      /\ UNCHANGED <<schema, lockHeld, next, missing, why>>
  BY DEF probeAdvisoryLockVisibility, schemaLock, sessions, call
<1>2. CASE /\ sentinel' = sentinel \cup {conn[r]} /\ Goto(r, "unsentinel")
           /\ UNCHANGED <<reserved, conn>>
  BY <1>1, <1>2, SentinelTaken
<1>3. CASE Release(r) /\ Goto(r, "reserve") /\ UNCHANGED sentinel
  <2>1. ~lockHeld[r] /\ "reserve" \in Labels
    BY <1>1 DEF MigInv, Secure, Before, Labels
  <2>2. pc[r] \notin Widened \cup InTx \cup {"unsentinel"}
    BY <1>1 DEF Widened, Writing, InTx
  <2>3. QuietCalls(r)
    BY <1>1, <1>3, <2>1, CallReleased DEF CallQuiet
  <2> QED
    BY <1>1, <1>3, <2>1, <2>2, <2>3, PlainReleaseTidy
<1> QED
  BY <1>2, <1>3 DEF probeAdvisoryLockVisibility

\* The end of the probe gives back its connection.
LEMMA ProbeEndQuiet ==
    ASSUME MigInv, NEW r \in Runner, ProbeEnd(r)
    PROVE  QuietCalls(r) /\ Release(r)
<1>1. "reserve" \in Labels
  BY DEF Labels
<1>2. CASE Settle(r, "TransactionPoolerDetectedError")
  BY <1>2, CallSettled DEF ProbeEnd, CallQuiet
<1>3. CASE Goto(r, "reserve") /\ UNCHANGED <<call, why>>
  BY <1>1, <1>3, CallReleased DEF ProbeEnd, CallQuiet, call
<1> QED
  BY <1>2, <1>3 DEF ProbeEnd

\* The sentinel is unlocked.
LEMMA UnlockSentinelTidy ==
    ASSUME MigInv, TypedStore', TidyInv, NEW r \in Runner, UnlockSentinel(r)
    PROVE  TidyInv'
<1>1. /\ pc[r] = "unsentinel" /\ ProbeEnd(r) /\ sentinel' = sentinel \ {conn[r]}
      /\ UNCHANGED <<holder, depth, extHolder, tx, path, lockTimeout, spoiled>>
  BY DEF UnlockSentinel, schemaLock, sessions
<1>2. QuietCalls(r) /\ Release(r)
  BY <1>1, ProbeEndQuiet
<1>3. ~lockHeld[r]
  BY <1>1 DEF MigInv, Secure, Before
<1>4. Apart(r)
  BY <1>1, <1>2 DEF Apart, Release
<1>5. TypedSessions' /\ Counted'
  BY <1>1 DEF TidyInv, TypedSessions, Counted
<1>6. ASSUME conn[r] \in Conn \ spoiled', NEW c \in Conn, c = conn[r] PROVE Clean(c)'
  <2>1. Mine(r)
    BY <1>1, <1>6 DEF TidyInv
  <2> QED
    BY <1>1, <1>3, <1>6, <2>1 DEF Mine, Clean, Widened, Writing, InTx
<1> QED
  BY <1>2, <1>4, <1>5, <1>6, ReleaseTidy

\* A step of r within its own session: what there is to show when it keeps its connection.
LEMMA OwnTidy ==
    ASSUME MigInv, TypedStore', TidyInv, NEW r \in Runner, QuietCalls(r), Apart(r),
           TypedSessions', Counted', conn[r] \in Conn, UNCHANGED <<reserved, conn, spoiled>>,
           conn[r] \notin spoiled /\ Mine(r) => Mine(r)'
    PROVE  TidyInv'
<1>1. conn[r] \in reserved'
  BY MigrationConstants DEF MigInv, Owned
<1>2. conn'[r] \in Conn \ spoiled' => Mine(r)'
  BY DEF TidyInv
<1> QED
  BY <1>1, <1>2, StepTidy

\* BEGIN and set_config for the wait.
LEMMA BeginLockTidy ==
    ASSUME MigInv, TypedStore', TidyInv, NEW r \in Runner, BeginLock(r)
    PROVE  TidyInv'
<1>1. /\ pc[r] = "lock" /\ Goto(r, "wait") /\ tx' = [tx EXCEPT ![conn[r]] = OpenTx]
      /\ lockTimeout' = [lockTimeout EXCEPT ![conn[r]] = "local"]
      /\ UNCHANGED <<holder, depth, extHolder, sentinel, path, spoiled>>
      /\ UNCHANGED <<reserved, conn, schema, lockHeld, next, missing, why>>
  BY DEF BeginLock, SetLockTimeout, locks, schemaLock, call
<1>2. conn[r] \in Conn /\ ~lockHeld[r] /\ TypedCalls /\ TypedStore
  BY <1>1 DEF MigInv, Secure, Before
<1>3. QuietCalls(r) /\ pc'[r] = "wait"
  BY <1>1, <1>2, MovedQuiet
<1>4. Apart(r)
  BY <1>1, <1>2 DEF Apart, TypedStore, TidyInv, TypedSessions
<1>5. TypedSessions' /\ Counted'
  BY <1>1 DEF TidyInv, TypedSessions, Counted
<1>6. Mine(r) => Mine(r)'
  BY <1>1, <1>3 DEF Mine, Widened, Writing, InTx
<1> QED
  BY <1>1, <1>2, <1>3, <1>4, <1>5, <1>6, OwnTidy

\* How a lock is counted when it is taken once more.
LEMMA CountUp ==
    ASSUME NEW d \in Nat
    PROVE  LET n == IF d > MaxFaults THEN d ELSE d + 1
           IN  n \in Nat /\ n >= 1 /\ (d = 0 => n = 1)
BY SMT, MigrationConstants

\* How it is counted when it is given back.
LEMMA CountDown ==
    ASSUME NEW d \in Nat, d >= 1
    PROVE  d - 1 \in Nat /\ (d = 1 => d - 1 = 0) /\ (d # 1 => d - 1 >= 1)
BY SMT

\* The schema's lock is taken, by a session that did not have it or had it left over.
LEMMA LockCounted ==
    ASSUME MigInv, TidyInv, NEW r \in Runner, conn[r] \in Conn,
           holder[schema[r]] \in {NoConn, conn[r]}, Lock(schema[r], conn[r])
    PROVE  /\ depth' \in [Schema -> Nat] /\ Counted'
           /\ holder[schema[r]] = NoConn => depth'[schema[r]] = 1
           /\ \A s \in Schema : s # schema[r] => holder'[s] = holder[s] /\ depth'[s] = depth[s]
<1>1. /\ schema[r] \in Schema /\ depth \in [Schema -> Nat] /\ Counted
      /\ holder \in [Schema -> Session]
  BY DEF MigInv, TypedCalls, TypedStore, TidyInv, TypedSessions
<1>2. PICK n : n = IF depth[schema[r]] > MaxFaults THEN depth[schema[r]] ELSE depth[schema[r]] + 1
  OBVIOUS
<1>3. n \in Nat /\ n >= 1 /\ (depth[schema[r]] = 0 => n = 1)
  BY <1>1, <1>2, CountUp
<1>4. /\ holder' = [holder EXCEPT ![schema[r]] = conn[r]]
      /\ depth' = [depth EXCEPT ![schema[r]] = n]
  BY <1>2 DEF Lock
<1>5. /\ depth' \in [Schema -> Nat] /\ depth'[schema[r]] = n /\ holder'[schema[r]] = conn[r]
      /\ \A s \in Schema : s # schema[r] => holder'[s] = holder[s] /\ depth'[s] = depth[s]
  BY <1>1, <1>3, <1>4
<1>6. Counted'
  BY <1>1, <1>3, <1>5, MigrationConstants DEF Counted
<1> QED
  BY <1>1, <1>3, <1>5, <1>6 DEF Counted

\* Taking it leaves the others apart.
LEMMA LockApart ==
    ASSUME MigInv, TidyInv, NEW r \in Runner, conn[r] \in Conn,
           holder[schema[r]] \in {NoConn, conn[r]}, Lock(schema[r], conn[r]),
           UNCHANGED <<extHolder, sentinel, tx, path, lockTimeout, reserved>>,
           spoiled \subseteq spoiled'
    PROVE  Apart(r) /\ TypedSessions' /\ Counted'
<1>1. /\ depth' \in [Schema -> Nat] /\ Counted'
      /\ \A s \in Schema : s # schema[r] => holder'[s] = holder[s] /\ depth'[s] = depth[s]
  BY LockCounted
<1>2. holder'[schema[r]] = conn[r]
  BY DEF Lock, MigInv, TypedStore, TypedCalls
<1>3. Apart(r)
  BY <1>1, <1>2 DEF Apart
<1> QED
  BY <1>1, <1>3 DEF TidyInv, TypedSessions

\* pg_advisory_lock is granted, for the first time to a session nothing was left on.
LEMMA LockGrantedTidy ==
    ASSUME MigInv, TypedStore', TidyInv, NEW r \in Runner, LockGranted(r)
    PROVE  TidyInv'
<1>1. /\ pc[r] = "wait" /\ pc' = [pc EXCEPT ![r] = "locked"]
      /\ lockHeld' = [lockHeld EXCEPT ![r] = TRUE]
      /\ holder[schema[r]] \in {NoConn, conn[r]} /\ Lock(schema[r], conn[r])
      /\ UNCHANGED <<extHolder, sentinel, tx, path, lockTimeout, spoiled>>
      /\ UNCHANGED <<reserved, conn, schema, next, missing, why>>
  BY DEF LockGranted, Goto, sessions
<1>2. conn[r] \in Conn /\ ~lockHeld[r] /\ TypedCalls /\ TypedStore /\ schema[r] \in Schema
  BY <1>1 DEF MigInv, Secure, Before, TypedCalls
<1>3. QuietCalls(r) /\ pc'[r] = "locked" /\ lockHeld'[r]
  BY <1>1, <1>2 DEF TypedCalls, QuietCalls
<1>4. Apart(r) /\ TypedSessions' /\ Counted'
  BY <1>1, <1>2, LockApart
<1>5. ASSUME Mine(r) PROVE Mine(r)'
  <2>1. \A s \in Schema : holder[s] # conn[r]
    BY <1>2, <1>5 DEF Mine
  <2>2. /\ depth'[schema[r]] = 1
        /\ \A s \in Schema : s # schema[r] => holder'[s] # conn[r]
    BY <1>1, <1>2, <2>1, LockCounted
  <2>3. \A s \in Schema : holder'[s] = conn[r] => s = schema[r] /\ depth'[s] = 1
    BY <2>2
  <2> QED
    BY <1>1, <1>3, <1>5, <2>3 DEF Mine, Widened, Writing, InTx
<1> QED
  BY <1>1, <1>2, <1>3, <1>4, <1>5, OwnTidy

\* A call moves on, or throws, to where it will still undo what it has set.
LEMMA MoveTidy ==
    ASSUME MigInv, TypedStore', TidyInv, NEW r \in Runner, QuietCalls(r), conn[r] \in Conn,
           UNCHANGED <<holder, depth, extHolder, sentinel, tx, path, lockTimeout, spoiled>>,
           UNCHANGED <<reserved, conn, schema, lockHeld>>,
           Mine(r) => /\ conn[r] \in sentinel => pc'[r] = "unsentinel"
                      /\ path[conn[r]] # "default" =>
                            pc'[r] \in Widened \/ (pc'[r] = "rollback" /\ next'[r] # 0)
                      /\ lockTimeout[conn[r]] # "session" =>
                            pc'[r] \in {"wait", "locked", "rollback"}
                      /\ extHolder = conn[r] \/ tx[conn[r]].open => pc'[r] \in InTx
    PROVE  TidyInv'
<1>1. Mine(r) => Mine(r)'
  BY DEF Mine
<1>2. conn'[r] \in Conn \ spoiled' => Mine(r)'
  BY <1>1 DEF TidyInv
<1> QED
  BY <1>2, StillTidy

\* The wait times out.
LEMMA LockTimesOutTidy ==
    ASSUME MigInv, TypedStore', TidyInv, NEW r \in Runner, LockTimesOut(r)
    PROVE  TidyInv'
<1>1. /\ pc[r] = "wait" /\ Goto(r, "rollback")
      /\ why' = [why EXCEPT ![r] = "MigrationLockTimeoutError"]
      /\ UNCHANGED <<holder, depth, extHolder, sentinel, tx, path, lockTimeout, spoiled>>
      /\ UNCHANGED <<reserved, conn, schema, lockHeld, next, missing>>
  BY DEF LockTimesOut, Throw, locks, schemaLock, sessions, call
<1>2. conn[r] \in Conn /\ TypedCalls
  BY <1>1 DEF MigInv, Secure
<1>3. QuietCalls(r) /\ pc'[r] = "rollback"
  BY <1>1, <1>2, MovedQuiet
<1>4. Mine(r) => path[conn[r]] = "default" /\ conn[r] \notin sentinel
  BY <1>1 DEF Mine, Widened, Writing
<1> QED
  BY <1>1, <1>2, <1>3, <1>4, MoveTidy DEF InTx

\* The end of r's transaction leaves the others apart and nothing of it behind.
LEMMA EndTxApart ==
    ASSUME MigInv, TidyInv, NEW r \in Runner, conn[r] \in Conn, EndTx(conn[r]),
           UNCHANGED <<holder, depth, sentinel, path, spoiled, reserved>>
    PROVE  /\ Apart(r) /\ TypedSessions' /\ Counted'
           /\ lockTimeout'[conn[r]] = "session" /\ extHolder' # conn[r] /\ ~tx'[conn[r]].open
<1>1. /\ lockTimeout \in [Conn -> {"session", "local"}] /\ tx \in [Conn -> TxType]
      /\ TypedSessions /\ Counted
  BY DEF MigInv, TypedStore, TidyInv, TypedSessions
<1>2. PICK l \in {"session", "local"} : l = lockTimeout[conn[r]]
  BY <1>1
<1>3. /\ tx' = [tx EXCEPT ![conn[r]] = NoTx]
      /\ lockTimeout' = [lockTimeout EXCEPT ![conn[r]] = "session"]
      /\ extHolder' = IF extHolder = conn[r] THEN NoConn ELSE extHolder
  BY <1>1, <1>2 DEF EndTx
<1>4. lockTimeout'[conn[r]] = "session" /\ extHolder' # conn[r] /\ ~tx'[conn[r]].open
  BY <1>1, <1>3, MigrationConstants DEF NoTx
<1>5. Apart(r)
  BY <1>1, <1>3, MigrationConstants DEF Apart
<1>6. TypedSessions' /\ Counted'
  BY <1>1, <1>3 DEF TypedSessions, Counted
<1> QED
  BY <1>4, <1>5, <1>6

\* The transaction around the wait commits.
LEMMA LockCommitTidy ==
    ASSUME MigInv, TypedStore', TidyInv, NEW r \in Runner, LockCommit(r)
    PROVE  TidyInv'
<1>1. /\ pc[r] = "locked" /\ Goto(r, "path") /\ EndTx(conn[r])
      /\ UNCHANGED <<holder, depth, sentinel, path, spoiled>>
      /\ UNCHANGED <<reserved, conn, schema, lockHeld, next, missing, why>>
  BY DEF LockCommit, schemaLock, call
<1>2. conn[r] \in Conn /\ TypedCalls
  BY <1>1 DEF MigInv, Secure
<1>3. QuietCalls(r) /\ pc'[r] = "path"
  BY <1>1, <1>2, MovedQuiet
<1>4. /\ Apart(r) /\ TypedSessions' /\ Counted'
      /\ lockTimeout'[conn[r]] = "session" /\ extHolder' # conn[r] /\ ~tx'[conn[r]].open
  BY <1>1, <1>2, EndTxApart
<1>5. Mine(r) => Mine(r)'
  BY <1>1, <1>3, <1>4 DEF Mine, Widened, Writing
<1> QED
  BY <1>1, <1>2, <1>3, <1>4, <1>5, OwnTidy

\* search_path is set or reset.
LEMMA PathApart ==
    ASSUME TidyInv, NEW r \in Runner, conn[r] \in Conn, NEW p \in Schema \cup {"default"},
           path' = [path EXCEPT ![conn[r]] = p],
           UNCHANGED <<holder, depth, extHolder, sentinel, tx, lockTimeout, spoiled, reserved>>
    PROVE  Apart(r) /\ TypedSessions' /\ Counted' /\ path'[conn[r]] = p
<1>1. TypedSessions /\ Counted
  BY DEF TidyInv
<1>2. Apart(r)
  BY <1>1 DEF TypedSessions, Apart
<1> QED
  BY <1>1, <1>2 DEF TypedSessions, Counted

\* It is set to the schema.
LEMMA WidenPathTidy ==
    ASSUME MigInv, TypedStore', TidyInv, NEW r \in Runner, WidenPath(r)
    PROVE  TidyInv'
<1>1. /\ pc[r] = "path" /\ Goto(r, "regclass") /\ path' = [path EXCEPT ![conn[r]] = schema[r]]
      /\ UNCHANGED <<holder, depth, extHolder, sentinel, tx, lockTimeout, spoiled>>
      /\ UNCHANGED <<reserved, conn, schema, lockHeld, next, missing, why>>
  BY DEF WidenPath, locks, schemaLock, call
<1>2. conn[r] \in Conn /\ TypedCalls /\ schema[r] \in Schema
  BY <1>1 DEF MigInv, Secure, TypedCalls
<1>3. QuietCalls(r) /\ pc'[r] = "regclass"
  BY <1>1, <1>2, MovedQuiet
<1>4. Apart(r) /\ TypedSessions' /\ Counted'
  BY <1>1, <1>2, PathApart
<1>5. Mine(r) => Mine(r)'
  BY <1>1, <1>3 DEF Mine, Widened, InTx
<1> QED
  BY <1>1, <1>2, <1>3, <1>4, <1>5, OwnTidy

\* It is reset.
LEMMA ResetPathTidy ==
    ASSUME MigInv, TypedStore', TidyInv, NEW r \in Runner, ResetPath(r)
    PROVE  TidyInv'
<1>1. /\ pc[r] = "reset" /\ Goto(r, "unlock") /\ path' = [path EXCEPT ![conn[r]] = "default"]
      /\ UNCHANGED <<holder, depth, extHolder, sentinel, tx, lockTimeout, spoiled>>
      /\ UNCHANGED <<reserved, conn, schema, lockHeld, next, missing, why>>
  BY DEF ResetPath, locks, schemaLock, call
<1>2. conn[r] \in Conn /\ TypedCalls
  BY <1>1 DEF MigInv, Secure
<1>3. QuietCalls(r) /\ pc'[r] = "unlock"
  BY <1>1, <1>2, MovedQuiet
<1>4. Apart(r) /\ TypedSessions' /\ Counted' /\ path'[conn[r]] = "default"
  BY <1>1, <1>2, PathApart
<1>5. Mine(r) => Mine(r)'
  BY <1>1, <1>3, <1>4 DEF Mine, InTx
<1> QED
  BY <1>1, <1>2, <1>3, <1>4, <1>5, OwnTidy

\* Where the lock's transaction is over and no migration's is open.
LEMMA BetweenTx ==
    ASSUME NEW r \in Runner, Mine(r), pc[r] \in {"regclass", "check", "up"}
    PROVE  /\ conn[r] \notin sentinel /\ lockTimeout[conn[r]] = "session"
           /\ extHolder # conn[r] /\ ~tx[conn[r]].open
BY DEF Mine, InTx

\* Where a migration's transaction is open.
LEMMA DuringTx ==
    ASSUME NEW r \in Runner, Mine(r), pc[r] \in {"ddl", "record", "commit"}
    PROVE  conn[r] \notin sentinel /\ lockTimeout[conn[r]] = "session"
BY DEF Mine

\* The bootstrap migration is looked for.
LEMMA BootstrappedTidy ==
    ASSUME MigInv, TypedStore', TidyInv, NEW r \in Runner, Bootstrapped(r)
    PROVE  TidyInv'
<1> DEFINE exists == Lineage[schema[r]][1] \in Range(created[schema[r]])
<1>1. /\ pc[r] = "regclass" /\ next' = [next EXCEPT ![r] = IF exists THEN 2 ELSE 1]
      /\ pc' = [pc EXCEPT ![r] = IF exists THEN "check" ELSE "up"]
      /\ UNCHANGED <<holder, depth, extHolder, sentinel, tx, path, lockTimeout, spoiled>>
      /\ UNCHANGED <<reserved, conn, schema, lockHeld, missing, why>>
  BY DEF Bootstrapped, Goto, locks, schemaLock, sessions
<1>2. conn[r] \in Conn /\ TypedCalls
  BY <1>1 DEF MigInv, Secure
<1>3. QuietCalls(r) /\ pc'[r] \in {"check", "up"}
  BY <1>1, <1>2 DEF TypedCalls, QuietCalls
<1>4. pc'[r] \in Widened
  BY <1>3 DEF Widened, Writing
<1>5. Mine(r) => /\ conn[r] \notin sentinel /\ lockTimeout[conn[r]] = "session"
                 /\ extHolder # conn[r] /\ ~tx[conn[r]].open
  BY <1>1, BetweenTx
<1> QED
  BY <1>1, <1>2, <1>3, <1>4, <1>5, MoveTidy

\* A migration's row is looked for.
LEMMA CheckAppliedTidy ==
    ASSUME MigInv, TypedStore', TidyInv, NEW r \in Runner, CheckApplied(r)
    PROVE  TidyInv'
<1>1. /\ pc[r] = "check"
      /\ pc' = pc \/ pc' = [pc EXCEPT ![r] = "reset"] \/ pc' = [pc EXCEPT ![r] = "up"]
      /\ next' = next \/ next' = [next EXCEPT ![r] = next[r] + 1]
      /\ UNCHANGED <<holder, depth, extHolder, sentinel, tx, path, lockTimeout, spoiled>>
      /\ UNCHANGED <<reserved, conn, schema, lockHeld, missing, why>>
  BY DEF CheckApplied, Goto, locks, schemaLock, sessions
<1>2. conn[r] \in Conn /\ TypedCalls
  BY <1>1 DEF MigInv, Secure
<1>3. QuietCalls(r) /\ pc'[r] \in {"check", "up", "reset"}
  BY <1>1, <1>2 DEF TypedCalls, QuietCalls
<1>4. pc'[r] \in Widened
  BY <1>3 DEF Widened, Writing
<1>5. Mine(r) => /\ conn[r] \notin sentinel /\ lockTimeout[conn[r]] = "session"
                 /\ extHolder # conn[r] /\ ~tx[conn[r]].open
  BY <1>1, BetweenTx
<1> QED
  BY <1>1, <1>2, <1>3, <1>4, <1>5, MoveTidy

\* A step of r that changes its transaction and leaves the others apart.
LEMMA TxApart ==
    ASSUME MigInv, TidyInv, NEW r \in Runner, conn[r] \in Conn, NEW t,
           tx' = [tx EXCEPT ![conn[r]] = t], extHolder' = extHolder \/ extHolder' = conn[r],
           UNCHANGED <<holder, depth, sentinel, path, lockTimeout, spoiled, reserved>>
    PROVE  Apart(r) /\ TypedSessions' /\ Counted'
<1>1. TypedSessions /\ Counted /\ tx \in [Conn -> TxType]
  BY DEF MigInv, TypedStore, TidyInv
<1>2. Apart(r)
  BY <1>1 DEF Apart
<1> QED
  BY <1>1, <1>2 DEF TypedSessions, Counted

\* BEGIN of a migration, and the database-wide lock.
LEMMA UpTidy ==
    ASSUME MigInv, TypedStore', TidyInv, NEW r \in Runner, Up(r)
    PROVE  TidyInv'
<1>1. /\ pc[r] = "up" /\ pc' = [pc EXCEPT ![r] = "ddl"] /\ tx' = [tx EXCEPT ![conn[r]] = OpenTx]
      /\ UNCHANGED <<holder, depth, sentinel, path, lockTimeout, spoiled>>
      /\ UNCHANGED <<reserved, conn, schema, lockHeld, next, why>>
  BY DEF Up, Begin, Goto, schemaLock
<1>2. /\ extHolder' = extHolder \/ extHolder' = conn[r]
      /\ missing' = missing \/ missing' = [missing EXCEPT ![r] = ~btreeGist]
  BY DEF Up
<1>3. conn[r] \in Conn /\ TypedCalls
  BY <1>1 DEF MigInv, Secure
<1>4. QuietCalls(r) /\ pc'[r] = "ddl"
  BY <1>1, <1>2, <1>3 DEF TypedCalls, QuietCalls
<1>5. Apart(r) /\ TypedSessions' /\ Counted'
  BY <1>1, <1>2, <1>3, TxApart
<1>6. Mine(r) => Mine(r)'
  BY <1>1, <1>4 DEF Mine, Widened, Writing, InTx
<1> QED
  BY <1>1, <1>3, <1>4, <1>5, <1>6, OwnTidy

\* A migration that has begun is past the first look at the catalog.
LEMMA WritingNext ==
    ASSUME MigInv, NEW r \in Runner, pc[r] \in Writing
    PROVE  next[r] # 0
<1>1. next[r] \in 1..Len(Lineage[schema[r]])
  BY DEF MigInv, Progress
<1>2. schema[r] \in Schema /\ Lineage[schema[r]] \in Seq(STRING)
  BY MigrationConstants DEF MigInv, TypedCalls
<1>3. Len(Lineage[schema[r]]) \in Nat
  BY ONLY SMT, <1>2
<1> QED
  BY ONLY SMT, <1>1, <1>3

\* The wait for the database-wide lock times out.
LEMMA UpTimesOutTidy ==
    ASSUME MigInv, TypedStore', TidyInv, NEW r \in Runner, UpTimesOut(r)
    PROVE  TidyInv'
<1>1. /\ pc[r] = "up" /\ Goto(r, "rollback") /\ why' = [why EXCEPT ![r] = "StatementError"]
      /\ tx' = [tx EXCEPT ![conn[r]] = OpenTx]
      /\ UNCHANGED <<holder, depth, extHolder, sentinel, path, lockTimeout, spoiled>>
      /\ UNCHANGED <<reserved, conn, schema, lockHeld, next, missing>>
  BY DEF UpTimesOut, Begin, Throw, locks, schemaLock, call
<1>2. conn[r] \in Conn /\ TypedCalls /\ next[r] # 0
  BY <1>1, WritingNext DEF MigInv, Secure, Writing
<1>3. QuietCalls(r) /\ pc'[r] = "rollback"
  BY <1>1, <1>2, MovedQuiet
<1>4. Apart(r) /\ TypedSessions' /\ Counted'
  BY <1>1, <1>2, TxApart
<1>5. Mine(r) => Mine(r)'
  BY <1>1, <1>2, <1>3 DEF Mine, InTx
<1> QED
  BY <1>1, <1>2, <1>3, <1>4, <1>5, OwnTidy

\* The DDL of a migration.
LEMMA DdlTidy ==
    ASSUME MigInv, TypedStore', TidyInv, NEW r \in Runner, Ddl(r)
    PROVE  TidyInv'
<1>1. /\ pc[r] = "ddl"
      /\ UNCHANGED <<holder, depth, extHolder, sentinel, path, lockTimeout, spoiled>>
      /\ UNCHANGED <<reserved, conn, schema, lockHeld, next, missing>>
      /\ \/ Goto(r, "rollback") /\ why' = [why EXCEPT ![r] = "Duplicate"] /\ tx' = tx
         \/ /\ Goto(r, "record") /\ why' = why
            /\ tx' = [tx EXCEPT ![conn[r]].ddl = TRUE, ![conn[r]].ext = missing[r]]
  BY DEF Ddl, Throw, locks, schemaLock, call
<1>2. conn[r] \in Conn /\ TypedCalls /\ tx \in [Conn -> TxType] /\ next[r] # 0
  BY <1>1, WritingNext DEF MigInv, Secure, TypedStore, Writing
<1>3. QuietCalls(r) /\ pc'[r] \in {"rollback", "record"}
  BY <1>1, <1>2, MovedQuiet
<1>4. PICK t : tx' = [tx EXCEPT ![conn[r]] = t]
  <2> DEFINE u == [tx[conn[r]] EXCEPT !.ddl = TRUE, !.ext = missing[r]]
  <2>1. tx = [tx EXCEPT ![conn[r]] = tx[conn[r]]]
    BY <1>2
  <2>2. [tx EXCEPT ![conn[r]].ddl = TRUE, ![conn[r]].ext = missing[r]] = [tx EXCEPT ![conn[r]] = u]
    BY <1>2 DEF TxType
  <2>3. tx' = [tx EXCEPT ![conn[r]] = tx[conn[r]]] \/ tx' = [tx EXCEPT ![conn[r]] = u]
    BY <1>1, <2>1, <2>2
  <2> HIDE DEF u
  <2> QED
    BY <2>3
<1>5. Apart(r) /\ TypedSessions' /\ Counted'
  BY <1>1, <1>2, <1>4, TxApart
<1>6. Mine(r) => Mine(r)'
  BY <1>1, <1>2, <1>3 DEF Mine, Widened, Writing, InTx
<1> QED
  BY <1>1, <1>2, <1>3, <1>5, <1>6, OwnTidy

\* Its row of _migrations.
LEMMA RecordTidy ==
    ASSUME MigInv, TypedStore', TidyInv, NEW r \in Runner, Record(r)
    PROVE  TidyInv'
<1>1. /\ pc[r] = "record" /\ Goto(r, "commit") /\ tx' = [tx EXCEPT ![conn[r]].row = TRUE]
      /\ UNCHANGED <<holder, depth, extHolder, sentinel, path, lockTimeout, spoiled>>
      /\ UNCHANGED <<reserved, conn, schema, lockHeld, next, missing, why>>
  BY DEF Record, locks, schemaLock, call
<1>2. conn[r] \in Conn /\ TypedCalls
  BY <1>1 DEF MigInv, Secure
<1>3. QuietCalls(r) /\ pc'[r] = "commit"
  BY <1>1, <1>2, MovedQuiet
<1>4. Apart(r) /\ TypedSessions' /\ Counted'
  BY <1>1, <1>2, TxApart
<1>5. Mine(r) => Mine(r)'
  BY <1>1, <1>3 DEF Mine, Widened, Writing, InTx
<1> QED
  BY <1>1, <1>2, <1>3, <1>4, <1>5, OwnTidy

\* COMMIT of a migration.
LEMMA CommitTidy ==
    ASSUME MigInv, TypedStore', TidyInv, NEW r \in Runner, Commit(r)
    PROVE  TidyInv'
<1>1. /\ pc[r] = "commit" /\ pc' = [pc EXCEPT ![r] = "check"] /\ EndTx(conn[r])
      /\ next' = [next EXCEPT ![r] = next[r] + 1] /\ missing' = [missing EXCEPT ![r] = FALSE]
      /\ UNCHANGED <<holder, depth, sentinel, path, spoiled>>
      /\ UNCHANGED <<reserved, conn, schema, lockHeld, why>>
  BY DEF Commit, Goto, schemaLock
<1>2. conn[r] \in Conn /\ TypedCalls
  BY <1>1 DEF MigInv, Secure
<1>3. QuietCalls(r) /\ pc'[r] = "check"
  BY <1>1, <1>2 DEF TypedCalls, QuietCalls
<1>4. /\ Apart(r) /\ TypedSessions' /\ Counted'
      /\ lockTimeout'[conn[r]] = "session" /\ extHolder' # conn[r] /\ ~tx'[conn[r]].open
  BY <1>1, <1>2, EndTxApart
<1>5. Mine(r) => Mine(r)'
  BY <1>1, <1>3, <1>4 DEF Mine, Widened
<1> QED
  BY <1>1, <1>2, <1>3, <1>4, <1>5, OwnTidy

\* ROLLBACK: search_path is reset afterwards if it was set.
LEMMA RollbackTidy ==
    ASSUME MigInv, TypedStore', TidyInv, NEW r \in Runner, Rollback(r)
    PROVE  TidyInv'
<1>1. /\ pc[r] = "rollback" /\ Goto(r, IF next[r] = 0 THEN "unlock" ELSE "reset")
      /\ EndTx(conn[r]) /\ UNCHANGED <<holder, depth, sentinel, path, spoiled>>
      /\ UNCHANGED <<reserved, conn, schema, lockHeld, next, missing, why>>
  BY DEF Rollback, schemaLock, call
<1>2. conn[r] \in Conn /\ TypedCalls
  BY <1>1 DEF MigInv, Secure
<1>3. QuietCalls(r) /\ pc'[r] = IF next[r] = 0 THEN "unlock" ELSE "reset"
  BY <1>1, <1>2, MovedQuiet
<1>4. /\ Apart(r) /\ TypedSessions' /\ Counted'
      /\ lockTimeout'[conn[r]] = "session" /\ extHolder' # conn[r] /\ ~tx'[conn[r]].open
  BY <1>1, <1>2, EndTxApart
<1>5. Mine(r) => Mine(r)'
  BY <1>1, <1>3, <1>4 DEF Mine, Widened, Writing
<1> QED
  BY <1>1, <1>2, <1>3, <1>4, <1>5, OwnTidy

\* The outer finally block: a lock that the session holds once is free, and the connection
\* goes back.
LEMMA UnlockTidy ==
    ASSUME MigInv, TypedStore', TidyInv, NEW r \in Runner, Unlock(r)
    PROVE  TidyInv'
<1> DEFINE s0 == schema[r]
<1>1. /\ pc[r] = "unlock" /\ Release(r) /\ Settle(r, why[r])
      /\ \/ lockHeld[r] /\ UnlockOnce(s0)
         \/ ~lockHeld[r] /\ UNCHANGED <<holder, depth>>
      /\ UNCHANGED <<extHolder, sentinel, tx, path, lockTimeout, spoiled>>
  BY DEF Unlock, schemaLock, sessions
<1>2. /\ QuietCalls(r) /\ conn[r] \in Conn /\ s0 \in Schema /\ holder \in [Schema -> Session]
      /\ TypedSessions /\ Counted /\ (lockHeld[r] => holder[s0] = conn[r])
  BY <1>1, CallSettled DEF CallQuiet, MigInv, Secure, TypedCalls, TypedStore, TidyInv
<1>3. CASE ~lockHeld[r] /\ UNCHANGED <<holder, depth>>
  <2>1. pc[r] \notin Widened \cup InTx \cup {"unsentinel"}
    BY <1>1 DEF Widened, Writing, InTx
  <2> QED
    BY <1>1, <1>2, <1>3, <2>1, PlainReleaseTidy
<1>4. CASE lockHeld[r] /\ UnlockOnce(s0)
  <2>1. depth[s0] \in Nat /\ depth[s0] >= 1
    BY <1>2, <1>4 DEF TypedSessions, Counted
  <2>2. PICK d : d = depth[s0] - 1
    OBVIOUS
  <2>3. d \in Nat /\ (depth[s0] = 1 => d = 0) /\ (depth[s0] # 1 => d >= 1)
    BY <2>1, <2>2, CountDown
  <2>4. /\ holder' = [holder EXCEPT ![s0] = IF depth[s0] = 1 THEN NoConn ELSE holder[s0]]
        /\ depth' = [depth EXCEPT ![s0] = d]
    BY <1>4, <2>2 DEF UnlockOnce
  <2>5. /\ depth' \in [Schema -> Nat] /\ depth'[s0] = d
        /\ holder'[s0] = IF depth[s0] = 1 THEN NoConn ELSE conn[r]
        /\ \A s \in Schema : s # s0 => holder'[s] = holder[s] /\ depth'[s] = depth[s]
    BY <1>2, <1>4, <2>3, <2>4 DEF TypedSessions
  <2>6. TypedSessions' /\ Counted'
    <3>1. TypedSessions'
      BY <1>1, <1>2, <2>5 DEF TypedSessions
    <3>2. ASSUME NEW s \in Schema
          PROVE  /\ holder'[s] = NoConn => depth'[s] = 0
                 /\ holder'[s] \in Conn => depth'[s] >= 1
      <4>1. CASE s = s0
        BY <1>2, <2>3, <2>5, <4>1, MigrationConstants
      <4>2. CASE s # s0
        BY <1>2, <2>5, <4>2 DEF Counted
      <4> QED
        BY <4>1, <4>2
    <3> QED
      BY <3>1, <3>2 DEF Counted
  <2>7. Apart(r)
    BY <1>1, <2>5, MigrationConstants DEF Apart, Release
  <2>8. ASSUME conn[r] \in Conn \ spoiled', NEW c \in Conn, c = conn[r] PROVE Clean(c)'
    <3>1. Mine(r)
      BY <1>1, <2>8 DEF TidyInv
    <3>2. depth[s0] = 1 /\ \A s \in Schema : s # s0 => holder[s] # c
      BY <1>2, <1>4, <2>8, <3>1 DEF Mine
    <3>3. \A s \in Schema : holder'[s] # c
      BY <2>5, <3>2, MigrationConstants
    <3> QED
      BY <1>1, <2>8, <3>1, <3>3 DEF Mine, Clean, Widened, Writing, InTx
  <2> QED
    BY <1>1, <1>2, <2>6, <2>7, <2>8, ReleaseTidy
<1> QED
  BY <1>1, <1>3, <1>4

\* The caller changes opts.
LEMMA MutateOptionsTidy ==
    ASSUME MigInv, TypedStore', TidyInv, NEW r \in Runner, MutateOptions(r)
    PROVE  TidyInv'
<1>1. /\ UNCHANGED <<holder, depth, extHolder, sentinel, tx, path, lockTimeout, spoiled>>
      /\ UNCHANGED <<reserved, pc, conn, schema, lockHeld, next, missing, why>>
  BY DEF MutateOptions, locks, schemaLock, sessions
<1>2. QuietCalls(r)
  BY <1>1 DEF QuietCalls
<1>3. conn'[r] \in Conn \ spoiled' => Mine(r)'
  BY <1>1 DEF TidyInv, Mine
<1> QED
  BY <1>1, <1>2, <1>3, StillTidy

\* The catch or finally block of a failed statement undoes what had been set by then.
LEMMA StatementFailsTidy ==
    ASSUME MigInv, TypedStore', TidyInv, NEW r \in Runner, StatementFails(r)
    PROVE  TidyInv'
<1>1. /\ CatchOf(pc[r]) # "none" /\ Goto(r, CatchOf(pc[r]))
      /\ why' = [why EXCEPT ![r] = "StatementError"]
      /\ UNCHANGED <<holder, depth, extHolder, sentinel, tx, path, lockTimeout, spoiled>>
      /\ UNCHANGED <<reserved, conn, schema, lockHeld, next, missing>>
  BY DEF StatementFails, Throw, locks, schemaLock, sessions, call
<1>2. TypedCalls
  BY DEF MigInv
<1>3. QuietCalls(r) /\ pc'[r] = CatchOf(pc[r])
  BY <1>1, <1>2, MovedQuiet
<1>4. \/ pc[r] \in {"lock", "wait", "locked"} /\ pc'[r] = "rollback"
      \/ pc[r] \in Writing /\ pc'[r] = "rollback"
      \/ pc[r] \in {"regclass", "check"} /\ pc'[r] = "reset"
      \/ pc[r] = "path" /\ pc'[r] = "unlock"
  BY <1>1, <1>3 DEF CatchOf, Writing
<1>5. conn[r] \in Conn
  BY <1>4 DEF MigInv, Secure, Writing
<1>6. ASSUME Mine(r)
      PROVE  /\ conn[r] \in sentinel => pc'[r] = "unsentinel"
             /\ path[conn[r]] # "default" =>
                   pc'[r] \in Widened \/ (pc'[r] = "rollback" /\ next'[r] # 0)
             /\ lockTimeout[conn[r]] # "session" => pc'[r] \in {"wait", "locked", "rollback"}
             /\ extHolder = conn[r] \/ tx[conn[r]].open => pc'[r] \in InTx
  <2>1. CASE pc[r] \in {"lock", "wait", "locked"} /\ pc'[r] = "rollback"
    BY <1>6, <2>1 DEF Mine, Widened, Writing, InTx
  <2>2. CASE pc[r] \in Writing /\ pc'[r] = "rollback"
    <3>1. next'[r] # 0
      BY <1>1, <2>2, WritingNext
    <3> QED
      BY <1>6, <2>2, <3>1 DEF Mine, Writing, InTx
  <2>3. CASE pc[r] \in {"regclass", "check"} /\ pc'[r] = "reset"
    BY <1>6, <2>3 DEF Mine, Widened, InTx
  <2>4. CASE pc[r] = "path" /\ pc'[r] = "unlock"
    BY <1>6, <2>4 DEF Mine, Widened, Writing, InTx
  <2> QED
    BY <1>4, <2>1, <2>2, <2>3, <2>4
<1> QED
  BY <1>1, <1>3, <1>5, <1>6, MoveTidy

\* A cleanup that fails marks its connection and disturbs no other.
LEMMA CleanupFailsTidy ==
    ASSUME MigInv, TypedStore', TidyInv, NEW r \in Runner, CleanupFails(r)
    PROVE  TidyInv'
<1>1. /\ spoiled' = spoiled \cup {conn[r]}
      /\ UNCHANGED <<extHolder, sentinel, tx, path, lockTimeout>>
  BY DEF CleanupFails
<1>2. TypedCalls /\ TypedSessions /\ Counted
  BY DEF MigInv, TidyInv
<1>3. CASE Release(r) /\ QuietCalls(r) /\ UNCHANGED schemaLock
  <2>1. Apart(r) /\ TypedSessions' /\ Counted'
    BY <1>1, <1>2, <1>3 DEF Apart, Release, TypedSessions, Counted, schemaLock
  <2>2. conn[r] \in spoiled'
    BY <1>1
  <2> QED
    BY <1>3, <2>1, <2>2, ReleaseTidy
<1>4. CASE /\ pc[r] = "wait" /\ holder[schema[r]] \in {NoConn, conn[r]}
           /\ Lock(schema[r], conn[r]) /\ Throw(r, "MigrationLockTimeoutError", "rollback")
           /\ UNCHANGED <<reserved, conn, call>>
  <2>1. QuietCalls(r) /\ conn[r] \in Conn
    BY <1>2, <1>4, MovedQuiet DEF Throw, call, MigInv, Secure
  <2>2. Apart(r) /\ TypedSessions' /\ Counted'
    BY <1>1, <1>4, <2>1, LockApart
  <2> QED
    BY <1>1, <1>4, <2>1, <2>2, RestTidy
<1>5. CASE /\ pc[r] = "reset" /\ Throw(r, "StatementError", "unlock")
           /\ UNCHANGED <<schemaLock, reserved, conn, call>>
  <2>1. QuietCalls(r)
    BY <1>2, <1>5, MovedQuiet DEF Throw, call
  <2>2. Apart(r) /\ TypedSessions' /\ Counted'
    BY <1>1, <1>2, <1>5 DEF Apart, TypedSessions, Counted, schemaLock
  <2> QED
    BY <1>1, <1>5, <2>1, <2>2, RestTidy
<1>6. CASE pc[r] = "unsentinel" /\ ProbeEnd(r) /\ UNCHANGED schemaLock
  BY <1>3, <1>6, ProbeEndQuiet
<1>7. CASE Release(r) /\ Settle(r, "StatementError") /\ UNCHANGED schemaLock
  BY <1>3, <1>7, CallSettled DEF CallQuiet
<1> QED
  BY <1>4, <1>5, <1>6, <1>7 DEF CleanupFails

\* A lost connection comes back to the pool as a new session.
LEMMA ConnectionLostTidy ==
    ASSUME MigInv, TypedStore', TidyInv, NEW r \in Runner, ConnectionLost(r)
    PROVE  TidyInv'
<1>1. TypedCalls /\ TypedStore /\ TypedSessions /\ Counted
  BY DEF MigInv, TidyInv
<1>2. /\ conn[r] \in Conn /\ Release(r) /\ Settle(r, "ConnectionError")
      /\ holder' = [s \in Schema |-> IF holder[s] = conn[r] THEN Lost ELSE holder[s]]
      /\ extHolder' = IF extHolder = conn[r] THEN Lost ELSE extHolder
      /\ sentinel' = sentinel \ {conn[r]} /\ spoiled' = spoiled \ {conn[r]} /\ depth' = depth
      /\ tx' = [tx EXCEPT ![conn[r]] = NoTx] /\ path' = [path EXCEPT ![conn[r]] = "default"]
      /\ lockTimeout' = [lockTimeout EXCEPT ![conn[r]] = "session"]
  BY <1>1 DEF ConnectionLost, TypedCalls
<1>3. QuietCalls(r)
  BY <1>2, CallSettled DEF CallQuiet
<1>4. TypedSessions'
  BY <1>1, <1>2 DEF TypedSessions
<1>5. Counted'
  BY <1>1, <1>2, MigrationConstants DEF Counted
<1>6. Apart(r)
  BY <1>1, <1>2, MigrationConstants DEF Apart, TypedStore, TypedSessions, Release
<1>7. ASSUME NEW c \in Conn, c = conn[r] PROVE Clean(c)'
  <2>1. (\A s \in Schema : holder'[s] # c) /\ extHolder' # c /\ c \notin sentinel'
    BY <1>2, <1>7, MigrationConstants
  <2>2. path'[c] = "default" /\ lockTimeout'[c] = "session" /\ ~tx'[c].open
    BY <1>1, <1>2, <1>7 DEF TypedStore, TypedSessions, NoTx
  <2> QED
    BY <2>1, <2>2 DEF Clean
<1> QED
  BY <1>2, <1>3, <1>4, <1>5, <1>6, <1>7, ReleaseTidy

\* The server frees what sessions that are gone had.
LEMMA ServerNoticesTidy ==
    ASSUME MigInv, TypedStore', TidyInv, ServerNotices
    PROVE  TidyInv'
<1>1. /\ UNCHANGED <<sentinel, tx, path, lockTimeout, spoiled, reserved>>
      /\ UNCHANGED <<pc, conn, schema, lockHeld, next>>
      /\ holder' = [s \in Schema |-> IF holder[s] = Lost THEN NoConn ELSE holder[s]]
      /\ depth' = [s \in Schema |-> IF holder[s] = Lost THEN 0 ELSE depth[s]]
      /\ extHolder' = IF extHolder = Lost THEN NoConn ELSE extHolder
  BY DEF ServerNotices, sessions, call
<1>2. TypedSessions /\ Counted /\ TypedStore
  BY DEF MigInv, TidyInv
<1>3. 0 \in Nat
  BY SMT
<1>4. TypedSessions'
  BY <1>1, <1>2, <1>3 DEF TypedSessions
<1>5. \A c \in Conn : /\ \A s \in Schema : holder'[s] = c => holder[s] = c /\ depth'[s] = depth[s]
                      /\ extHolder' = c => extHolder = c
  BY <1>1, MigrationConstants
<1>6. Counted'
  <2>1. ASSUME NEW s \in Schema
        PROVE  (holder'[s] = NoConn => depth'[s] = 0) /\ (holder'[s] \in Conn => depth'[s] >= 1)
    BY <1>1, <1>2, MigrationConstants DEF Counted
  <2> QED
    BY <2>1 DEF Counted
<1>7. ConnectionsClean'
  <2>1. ASSUME NEW c \in Conn \ (reserved' \cup spoiled') PROVE Clean(c)'
    <3>1. Clean(c)
      BY <1>1, <1>2, CleanEach DEF TidyInv
    <3> QED
      BY <1>1, <1>5, <3>1 DEF Clean
  <2> QED
    BY <2>1, CleanNext
<1>8. ASSUME NEW o \in Runner, conn'[o] \in Conn \ spoiled' PROVE Mine(o)'
  <2>1. Mine(o)
    BY <1>1, <1>8 DEF TidyInv
  <2>2. PICK c \in Conn : c = conn[o]
    BY <1>1, <1>8
  <2>3. /\ \A s \in Schema : holder'[s] = c => holder[s] = c /\ depth'[s] = depth[s]
        /\ extHolder' = c => extHolder = c
    BY <1>5
  <2> QED
    BY <1>1, <2>1, <2>2, <2>3 DEF Mine
<1> QED
  BY <1>4, <1>6, <1>7, <1>8 DEF TidyInv

-----------------------------------------------------------------------------
(* The theorems *)

\* No schema has a migration before the first call.
LEMMA MigInit == Init => MigInv
<1> SUFFICES ASSUME Init PROVE MigInv
  OBVIOUS
<1>1. (CHOOSE s \in Schema : TRUE) \in Schema
  BY MigrationConstants
<1>2. TypedStore
  <2>1. NoTx \in TxType
    BY DEF NoTx, TxType
  <2>2. created \in [Schema -> Seq(STRING)] /\ recorded \in [Schema -> Seq(STRING)]
    BY SMT DEF Init
  <2> QED
    BY <2>1, <2>2, Zenon DEF Init, TypedStore, Session
<1>3. TypedCalls /\ Owned
  BY <1>1 DEF Init, TypedCalls, Owned, Labels, Outcome
<1>4. AppliedInOrder
  <2>1. ASSUME NEW t \in Seq(STRING) PROVE Begins(<<>>, t)
    BY SMT DEF Begins
  <2> QED
    BY <2>1, MigrationConstants DEF Init, AppliedInOrder
<1>5. \A r \in Runner : Secure(r) /\ Progress(r)
  BY DEF Init, Secure, Progress, Inside, Writing
<1> QED
  BY <1>2, <1>3, <1>4, <1>5 DEF MigInv

\* Every step of every call, and every fault, keeps the invariant.
LEMMA MigNext == MigInv /\ [Next]_vars => MigInv'
<1> SUFFICES ASSUME MigInv, [Next]_vars
             PROVE  MigInv'
  OBVIOUS
<1>1. ASSUME NEW r \in Runner, Reserving(r) PROVE MigInv'
  BY <1>1, ProbeReserveHolds, ReserveHolds DEF Reserving
<1>2. ASSUME NEW r \in Runner, Step(r) PROVE MigInv'
  BY <1>2, StartHolds, ReadSettingsHolds, SentinelHolds, UnlockSentinelHolds, BeginLockHolds,
     LockGrantedHolds, LockTimesOutHolds, LockCommitHolds, WidenPathHolds, BootstrappedHolds,
     CheckAppliedHolds, UpHolds, UpTimesOutHolds, DdlHolds, RecordHolds, CommitHolds,
     RollbackHolds, ResetPathHolds, UnlockHolds DEF Step
<1>3. ASSUME NEW r \in Runner, Fault(r) PROVE MigInv'
  BY <1>3, MutateOptionsHolds, ProbeStatementFailsHolds, StatementFailsHolds,
     CleanupFailsHolds, ConnectionLostHolds DEF Fault
<1>4. CASE UNCHANGED vars
  BY <1>4, UnchangedHolds DEF vars, context, database, locks, schemaLock, sessions, call
<1> QED
  BY <1>1, <1>2, <1>3, <1>4, ServerNoticesHolds DEF Next

(***************************************************************************)
(* Whatever calls of runMigrations collide, fail or lose their connection, *)
(* COMMIT's answer included, the migrations of a schema are committed in   *)
(* order, once, each together with its row of _migrations, and only on a   *)
(* server that passed the probe.                                           *)
(***************************************************************************)
THEOREM MigrationsInOrder == Spec => []AppliedInOrder
<1>1. MigInv => AppliedInOrder
  BY DEF MigInv
<1> QED
  BY <1>1, MigInit, MigNext, PTL DEF Spec

(***************************************************************************)
(* No call of runMigrations fails because another one's DDL is there: what *)
(* it found missing under its schema's lock, or under the database-wide    *)
(* lock around CREATE EXTENSION, is still missing when it creates it.      *)
(***************************************************************************)
THEOREM MigrationsDoNotCollide == Spec => []NoCollision
<1>1. MigInv => NoCollision
  BY DEF MigInv, Secure, NoCollision
<1> QED
  BY <1>1, MigInit, MigNext, PTL DEF Spec

\* No connection has been used before the first call.
LEMMA TidyInit == Init => TidyInv
<1> SUFFICES ASSUME Init PROVE TidyInv
  OBVIOUS
<1>1. MigInv
  BY MigInit
<1>2. 0 \in Nat
  BY SMT
<1>3. TypedSessions
  BY <1>2 DEF Init, TypedSessions
<1>4. Counted
  BY MigrationConstants DEF Init, Counted
<1>5. ConnectionsClean
  <2>1. ASSUME NEW c \in Conn PROVE Clean(c)
    BY MigrationConstants DEF Init, Clean, NoTx
  <2> QED
    BY <1>1, <2>1, CleanEach DEF MigInv
<1>6. ASSUME NEW r \in Runner PROVE conn[r] \notin Conn
  BY MigrationConstants DEF Init
<1> QED
  BY <1>3, <1>4, <1>5, <1>6 DEF TidyInv

\* Every step of every call, and every fault, keeps what is said of connections.
LEMMA TidyNext == MigInv /\ TidyInv /\ [Next]_vars => TidyInv'
<1> SUFFICES ASSUME MigInv, TidyInv, [Next]_vars
             PROVE  TidyInv'
  OBVIOUS
<1>1. TypedStore'
  <2>1. MigInv'
    BY MigNext
  <2> QED
    BY <2>1 DEF MigInv
<1>2. ASSUME NEW r \in Runner, Reserving(r) PROVE TidyInv'
  BY <1>1, <1>2, ProbeReserveTidy, ReserveTidy DEF Reserving
<1>3. ASSUME NEW r \in Runner, Step(r) PROVE TidyInv'
  BY <1>1, <1>3, StartTidy, ReadSettingsTidy, SentinelTidy, UnlockSentinelTidy, BeginLockTidy,
     LockGrantedTidy, LockTimesOutTidy, LockCommitTidy, WidenPathTidy, BootstrappedTidy,
     CheckAppliedTidy, UpTidy, UpTimesOutTidy, DdlTidy, RecordTidy, CommitTidy,
     RollbackTidy, ResetPathTidy, UnlockTidy DEF Step
<1>4. ASSUME NEW r \in Runner, Fault(r) PROVE TidyInv'
  BY <1>1, <1>4, MutateOptionsTidy, ProbeStatementFailsTidy, StatementFailsTidy,
     CleanupFailsTidy, ConnectionLostTidy DEF Fault
<1>5. CASE UNCHANGED vars
  <2>1. /\ UNCHANGED <<holder, depth, extHolder, sentinel, tx, path, lockTimeout, spoiled>>
        /\ UNCHANGED <<reserved, pc, conn, schema, lockHeld, next>>
    BY <1>5 DEF vars, locks, schemaLock, sessions, call
  <2>2. TypedSessions' /\ Counted' /\ ConnectionsClean'
    BY <2>1 DEF TidyInv, TypedSessions, Counted, ConnectionsClean
  <2>3. ASSUME NEW r \in Runner, conn'[r] \in Conn \ spoiled' PROVE Mine(r)'
    BY <2>1, <2>3 DEF TidyInv, Mine
  <2> QED
    BY <2>2, <2>3 DEF TidyInv
<1> QED
  BY <1>1, <1>2, <1>3, <1>4, <1>5, ServerNoticesTidy DEF Next

(***************************************************************************)
(* However a call of runMigrations ends, the connection it gives back has  *)
(* no lock, no widened search_path, no short lock_timeout and no open      *)
(* transaction, unless a cleanup statement failed on it.                   *)
(***************************************************************************)
THEOREM ConnectionsComeBackClean == Spec => []ConnectionsClean
<1>1. TidyInv => ConnectionsClean
  BY DEF TidyInv
<1> QED
  BY <1>1, MigInit, MigNext, TidyInit, TidyNext, PTL DEF Spec
===============================================================================
