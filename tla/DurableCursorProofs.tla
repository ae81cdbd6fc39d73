------------------------ MODULE DurableCursorProofs -------------------------
(***************************************************************************)
(* The durable cursor skips no event and never falls behind what was       *)
(* acknowledged, for any number of connections, events and faults.         *)
(*                                                                         *)
(* The argument: whoever wrote the watermark in a transaction holds the    *)
(* checkpoint's head row, so there is one such transaction at a time, and  *)
(* its data reach as far as its cursor if the process's did.  A process's  *)
(* do unless its resume was torn.  A resume is never torn when the batches *)
(* are fixed: the cursor of a transaction is the committed one or the      *)
(* next, and a process that resumed is at most one event behind the        *)
(* database, so what it writes next is again the committed cursor or the   *)
(* next.  What was acknowledged bounds, from below, every cursor that is   *)
(* committed, written or read, whatever the schedule.                      *)
(***************************************************************************)
EXTENDS DurableCursor, TLAPS

\* Leaves go to Zenon; those it cannot do, with arithmetic mostly, name SMT.
USE Zenon

Holds(c) == "head" \in tx[c].wrote
Written(c) == "watermark" \in tx[c].wrote

Transactions ==
    /\ \A c, d \in Conn : Holds(c) /\ Holds(d) => c = d
    /\ \A c \in Conn : /\ tx[c].st = "committing" => Written(c)
                       /\ Written(c) => Holds(c)

\* Where the process is in a call, and what its transaction has written by then.
InTransaction ==
    /\ InCall => ~tx[conn].orphan /\ saved < pos
    /\ pc = "save" => tx[conn].st = "open" /\ tx[conn].wrote = {}
    /\ pc = "set" => /\ tx[conn].st = "open" /\ tx[conn].wrote = {"head"}
                     /\ tx[conn].data = mem
    /\ pc = "commit" => /\ tx[conn].st = "open" /\ Written(conn)
                        /\ tx[conn].cursor = pos
    /\ pc = "answer" =>
        \/ tx[conn].st = "committing" /\ tx[conn].cursor = pos
        \/ tx[conn].st = "done" /\ db.cursor = pos /\ \A c \in Conn : ~Holds(c)

Running == pc \in {"sync", "save", "set", "commit", "answer"}

\* What was acknowledged is committed, and nobody is about to write less.
Acknowledged ==
    /\ acked <= db.cursor
    /\ \A c \in Conn : Written(c) => acked <= tx[c].cursor
    /\ pc = "load" => acked <= seen
    /\ Running => acked <= saved /\ saved <= pos

\* Data reach as far as their cursor.
Covered ==
    /\ 1 .. db.cursor \subseteq db.data
    /\ \A c \in Conn : Written(c) => 1 .. tx[c].cursor \subseteq tx[c].data
    /\ Running => 1 .. pos \subseteq mem

\* With fixed batches nobody is more than one event away from the database.
Near(p) ==
    /\ p <= db.cursor /\ db.cursor <= p + 1
    /\ \A c \in Conn : Written(c) => tx[c].cursor <= p + 1
Nearby ==
    /\ ~torn
    /\ \A c \in Conn :
        Written(c) => db.cursor <= tx[c].cursor /\ tx[c].cursor <= db.cursor + 1
    /\ pc = "load" => Near(seen)
    /\ Running => Near(saved) /\ pos \in {saved, saved + 1}

\* The inductive invariant behind NoEventSkipped and AcknowledgedStays.
CursorInv ==
    /\ TypeOK /\ Transactions /\ InTransaction /\ Acknowledged
    /\ torn \/ Covered
    /\ schedule = "fixed" => Nearby

-----------------------------------------------------------------------------

\* A connection without a transaction has a value of the type.
LEMMA IdleType == Idle \in Transaction
  BY SMT, CursorAssumption DEF Idle, Transaction

\* At the start nothing is written and the cursor is 0.
LEMMA InitCursorInv == Init => CursorInv
<1> SUFFICES ASSUME Init PROVE CursorInv
  OBVIOUS
<1>1. TypeOK
  <2>1. tx \in [Conn -> Transaction]
    BY IdleType DEF Init
  <2>2. db \in [data : SUBSET Event, cursor : 0 .. MaxEvents]
    BY SMT, CursorAssumption DEF Init
  <2>3. conn \in Conn \cup {NoConn} /\ (conn \in Conn <=> InCall)
    BY CursorAssumption DEF Init, InCall
  <2>4. /\ mem \in SUBSET Event
        /\ seen \in 0 .. MaxEvents /\ pos \in 0 .. MaxEvents
        /\ saved \in 0 .. MaxEvents /\ acked \in 0 .. MaxEvents /\ faults \in 0 .. MaxFaults
    BY SMT, CursorAssumption DEF Init
  <2> QED  BY <2>1, <2>2, <2>3, <2>4, Zenon DEF Init, TypeOK
<1>2. Transactions /\ InTransaction
  BY DEF Init, Idle, Transactions, InTransaction, Holds, Written, InCall
<1>3. Acknowledged /\ Covered /\ Nearby
  BY SMT DEF Init, Idle, Acknowledged, Covered, Nearby, Near, Running, Written
<1> QED  BY <1>1, <1>2, <1>3 DEF CursorInv

\* A process starts.
LEMMA StartStep ==
    ASSUME CursorInv, Start PROVE CursorInv'
<1>1. TypeOK'
  BY CursorAssumption, IdleType DEF CursorInv, TypeOK, InTransaction, InCall, Start
<1>2. Transactions'
  BY SMT, CursorAssumption DEF CursorInv, TypeOK, Transaction, Transactions,
     InTransaction, Holds, Written, InCall, Start
<1>3. InTransaction'
  BY SMT, CursorAssumption DEF CursorInv, TypeOK, Transaction, Transactions,
     InTransaction, Holds, Written, InCall, Start
<1>4. Acknowledged'
  BY SMT, CursorAssumption DEF CursorInv, TypeOK, Transaction, Transactions,
     InTransaction, Holds, Written, InCall, Acknowledged, Running, Start
<1>5. (torn \/ Covered)'
  BY SMT, CursorAssumption DEF CursorInv, TypeOK, Transaction, Transactions,
     InTransaction, Holds, Written, InCall, Acknowledged, Covered, Running, Start
<1>6. schedule' = "fixed" => Nearby'
  BY SMT, CursorAssumption DEF CursorInv, TypeOK, Transaction, Transactions,
     InTransaction, Holds, Written, InCall, Acknowledged, Nearby, Near, Running, Start
<1> QED  BY <1>1, <1>2, <1>3, <1>4, <1>5, <1>6 DEF CursorInv

\* watermarks.get: the cursor read is the committed one.
LEMMA GetStep ==
    ASSUME CursorInv, get PROVE CursorInv'
<1>1. TypeOK'
  BY CursorAssumption, IdleType DEF CursorInv, TypeOK, InTransaction, InCall, get
<1>2. Transactions'
  BY SMT, CursorAssumption DEF CursorInv, TypeOK, Transaction, Transactions,
     InTransaction, Holds, Written, InCall, get
<1>3. InTransaction'
  BY SMT, CursorAssumption DEF CursorInv, TypeOK, Transaction, Transactions,
     InTransaction, Holds, Written, InCall, get
<1>4. Acknowledged'
  BY SMT, CursorAssumption DEF CursorInv, TypeOK, Transaction, Transactions,
     InTransaction, Holds, Written, InCall, Acknowledged, Running, get
<1>5. (torn \/ Covered)'
  BY SMT, CursorAssumption DEF CursorInv, TypeOK, Transaction, Transactions,
     InTransaction, Holds, Written, InCall, Acknowledged, Covered, Running, get
<1>6. schedule' = "fixed" => Nearby'
  BY SMT, CursorAssumption DEF CursorInv, TypeOK, Transaction, Transactions,
     InTransaction, Holds, Written, InCall, Acknowledged, Nearby, Near, Running, get
<1> QED  BY <1>1, <1>2, <1>3, <1>4, <1>5, <1>6 DEF CursorInv

\* The checkpoint loaded reaches as far as the cursor read before it, or the
\* resume is torn.
LEMMA LoadStep ==
    ASSUME CursorInv, Load PROVE CursorInv'
<1>1. TypeOK'
  BY CursorAssumption, IdleType DEF CursorInv, TypeOK, InTransaction, InCall, Load
<1>2. Transactions'
  BY SMT, CursorAssumption DEF CursorInv, TypeOK, Transaction, Transactions,
     InTransaction, Holds, Written, InCall, Load
<1>3. InTransaction'
  BY SMT, CursorAssumption DEF CursorInv, TypeOK, Transaction, Transactions,
     InTransaction, Holds, Written, InCall, Load
<1>4. Acknowledged'
  BY SMT, CursorAssumption DEF CursorInv, TypeOK, Transaction, Transactions,
     InTransaction, Holds, Written, InCall, Acknowledged, Running, Load
<1>5. (torn \/ Covered)'
  <2>1. CASE torn \/ db.cursor < seen
    BY <2>1 DEF Load
  <2>2. CASE ~torn /\ ~(db.cursor < seen)
    <3>1. Covered /\ db.cursor \in Nat /\ seen \in Nat
      BY SMT, <2>2, CursorAssumption DEF CursorInv, TypeOK
    <3>2. 1 .. seen \subseteq db.data
      BY SMT, <2>2, <3>1 DEF Covered
    <3> QED  BY <3>1, <3>2 DEF Load, Covered, Running, Written
  <2> QED  BY <2>1, <2>2
<1>6. schedule' = "fixed" => Nearby'
  BY SMT, CursorAssumption DEF CursorInv, TypeOK, Transaction, Transactions,
     InTransaction, Holds, Written, InCall, Acknowledged, Nearby, Near, Running, Load
<1> QED  BY <1>1, <1>2, <1>3, <1>4, <1>5, <1>6 DEF CursorInv

\* The next event is applied.
LEMMA ApplyStep ==
    ASSUME CursorInv, Apply PROVE CursorInv'
<1>1. TypeOK'
  <2>1. pos + 1 \in Event /\ pos + 1 \in 0 .. MaxEvents
    BY SMT, CursorAssumption DEF CursorInv, TypeOK, Apply, Event
  <2>2. mem' \in SUBSET Event
    BY <2>1 DEF CursorInv, TypeOK, Apply
  <2> QED  BY <2>1, <2>2 DEF CursorInv, TypeOK, InCall, Apply
<1>2. Transactions'
  BY SMT, CursorAssumption DEF CursorInv, TypeOK, Transaction, Transactions,
     InTransaction, Holds, Written, InCall, Apply, Event
<1>3. InTransaction'
  BY SMT, CursorAssumption DEF CursorInv, TypeOK, Transaction, Transactions,
     InTransaction, Holds, Written, InCall, Apply, Event
<1>4. Acknowledged'
  BY SMT, CursorAssumption DEF CursorInv, TypeOK, Transaction, Transactions,
     InTransaction, Holds, Written, InCall, Acknowledged, Running, Apply, Event
<1>5. (torn \/ Covered)'
  BY SMT, CursorAssumption DEF CursorInv, TypeOK, Transaction, Transactions,
     InTransaction, Holds, Written, InCall, Acknowledged, Covered, Running, Apply, Event
<1>6. schedule' = "fixed" => Nearby'
  BY SMT, CursorAssumption DEF CursorInv, TypeOK, Transaction, Transactions,
     InTransaction, Holds, Written, InCall, Acknowledged, Nearby, Near, Running, Apply,
     Event
<1> QED  BY <1>1, <1>2, <1>3, <1>4, <1>5, <1>6 DEF CursorInv

\* An aborted signal changes nothing by itself.
LEMMA AbortStep ==
    ASSUME CursorInv, Abort PROVE CursorInv'
<1>1. TypeOK'
  BY SMT, CursorAssumption, IdleType DEF CursorInv, TypeOK, InTransaction, InCall, Abort
<1>2. Transactions'
  BY SMT, CursorAssumption DEF CursorInv, TypeOK, Transaction, Transactions,
     InTransaction, Holds, Written, InCall, Abort
<1>3. InTransaction'
  BY SMT, CursorAssumption DEF CursorInv, TypeOK, Transaction, Transactions,
     InTransaction, Holds, Written, InCall, Abort
<1>4. Acknowledged'
  BY SMT, CursorAssumption DEF CursorInv, TypeOK, Transaction, Transactions,
     InTransaction, Holds, Written, InCall, Acknowledged, Running, Abort
<1>5. (torn \/ Covered)'
  BY SMT, CursorAssumption DEF CursorInv, TypeOK, Transaction, Transactions,
     InTransaction, Holds, Written, InCall, Acknowledged, Covered, Running, Abort
<1>6. schedule' = "fixed" => Nearby'
  BY SMT, CursorAssumption DEF CursorInv, TypeOK, Transaction, Transactions,
     InTransaction, Holds, Written, InCall, Acknowledged, Nearby, Near, Running, Abort
<1> QED  BY <1>1, <1>2, <1>3, <1>4, <1>5, <1>6 DEF CursorInv

\* A transaction begins on a connection that has written nothing.
LEMMA BeginStep ==
    ASSUME CursorInv, Begin PROVE CursorInv'
<1>1. TypeOK'
  BY SMT, CursorAssumption, IdleType DEF CursorInv, TypeOK, InTransaction, InCall, Begin, Transaction
<1>2. Transactions'
  BY SMT, CursorAssumption DEF CursorInv, TypeOK, Transaction, Transactions,
     InTransaction, Holds, Written, InCall, Begin, Idle
<1>3. InTransaction'
  BY SMT, CursorAssumption DEF CursorInv, TypeOK, Transaction, Transactions,
     InTransaction, Holds, Written, InCall, Begin, Idle
<1>4. Acknowledged'
  BY SMT, CursorAssumption DEF CursorInv, TypeOK, Transaction, Transactions,
     InTransaction, Holds, Written, InCall, Acknowledged, Running, Begin, Idle
<1>5. (torn \/ Covered)'
  BY SMT, CursorAssumption DEF CursorInv, TypeOK, Transaction, Transactions,
     InTransaction, Holds, Written, InCall, Acknowledged, Covered, Running, Begin, Idle
<1>6. schedule' = "fixed" => Nearby'
  BY SMT, CursorAssumption DEF CursorInv, TypeOK, Transaction, Transactions,
     InTransaction, Holds, Written, InCall, Acknowledged, Nearby, Near, Running, Begin,
     Idle
<1> QED  BY <1>1, <1>2, <1>3, <1>4, <1>5, <1>6 DEF CursorInv

\* COMMIT is sent.
LEMMA CommitStep ==
    ASSUME CursorInv, Commit PROVE CursorInv'
<1>1. TypeOK'
  BY SMT, CursorAssumption, IdleType DEF CursorInv, TypeOK, InTransaction, InCall, Commit, Transaction
<1>2. Transactions'
  BY SMT, CursorAssumption DEF CursorInv, TypeOK, Transaction, Transactions,
     InTransaction, Holds, Written, InCall, Commit
<1>3. InTransaction'
  BY SMT, CursorAssumption DEF CursorInv, TypeOK, Transaction, Transactions,
     InTransaction, Holds, Written, InCall, Commit
<1>4. Acknowledged'
  BY SMT, CursorAssumption DEF CursorInv, TypeOK, Transaction, Transactions,
     InTransaction, Holds, Written, InCall, Acknowledged, Running, Commit
<1>5. (torn \/ Covered)'
  BY SMT, CursorAssumption DEF CursorInv, TypeOK, Transaction, Transactions,
     InTransaction, Holds, Written, InCall, Acknowledged, Covered, Running, Commit
<1>6. schedule' = "fixed" => Nearby'
  BY SMT, CursorAssumption DEF CursorInv, TypeOK, Transaction, Transactions,
     InTransaction, Holds, Written, InCall, Acknowledged, Nearby, Near, Running, Commit
<1> QED  BY <1>1, <1>2, <1>3, <1>4, <1>5, <1>6 DEF CursorInv

\* saveAndAdvance returns: what it acknowledges is committed.
LEMMA ReturnStep ==
    ASSUME CursorInv, Return PROVE CursorInv'
<1>1. TypeOK'
  BY CursorAssumption, IdleType, Zenon DEF CursorInv, TypeOK, InTransaction, InCall, Return
<1>2. Transactions'
  BY SMT, CursorAssumption DEF CursorInv, TypeOK, Transaction, Transactions,
     InTransaction, Holds, Written, InCall, Return, Idle
<1>3. InTransaction'
  BY SMT, CursorAssumption DEF CursorInv, TypeOK, Transaction, Transactions,
     InTransaction, Holds, Written, InCall, Return, Idle
<1>4. Acknowledged'
  BY SMT, CursorAssumption DEF CursorInv, TypeOK, Transaction, Transactions,
     InTransaction, Holds, Written, InCall, Acknowledged, Running, Return, Idle
<1>5. (torn \/ Covered)'
  BY SMT, CursorAssumption DEF CursorInv, TypeOK, Transaction, Transactions,
     InTransaction, Holds, Written, InCall, Acknowledged, Covered, Running, Return, Idle
<1>6. schedule' = "fixed" => Nearby'
  BY SMT, CursorAssumption DEF CursorInv, TypeOK, Transaction, Transactions,
     InTransaction, Holds, Written, InCall, Acknowledged, Nearby, Near, Running, Return,
     Idle
<1> QED  BY <1>1, <1>2, <1>3, <1>4, <1>5, <1>6 DEF CursorInv

\* The process leaves a call by an error: its transaction is rolled back, or left
\* to the server with what it wrote.
LEMMA LeaveStep ==
    ASSUME CursorInv, InCall, NEW t,
           t = Idle \/ t = [tx[conn] EXCEPT !.orphan = TRUE],
           tx' = [tx EXCEPT ![conn] = t],
           pc' \in {"sync", "down"}, conn' = NoConn, aborted' = FALSE,
           faults' \in 0 .. MaxFaults,
           UNCHANGED <<schedule, torn, seen, mem, pos, saved, db, acked>>
    PROVE  CursorInv'
<1>1. TypeOK'
  <2>1. conn \in Conn /\ tx[conn] \in Transaction
    BY DEF CursorInv, TypeOK
  <2>2. t \in Transaction
    BY <2>1, IdleType, Zenon DEF Transaction
  <2>3. tx' \in [Conn -> Transaction]
    BY <2>2 DEF CursorInv, TypeOK
  <2>4. conn' = NoConn /\ conn' \notin Conn /\ ~InCall'
    BY CursorAssumption DEF InCall
  <2> QED  BY <2>3, <2>4, Zenon DEF CursorInv, TypeOK
<1>2. Transactions'
  BY SMT, CursorAssumption DEF CursorInv, TypeOK, Transaction, Transactions,
     InTransaction, Holds, Written, InCall, Idle
<1>3. InTransaction'
  BY SMT, CursorAssumption DEF CursorInv, TypeOK, Transaction, Transactions,
     InTransaction, Holds, Written, InCall, Idle
<1>4. Acknowledged'
  BY SMT, CursorAssumption DEF CursorInv, TypeOK, Transaction, Transactions,
     InTransaction, Holds, Written, InCall, Acknowledged, Running, Idle
<1>5. (torn \/ Covered)'
  BY SMT, CursorAssumption DEF CursorInv, TypeOK, Transaction, Transactions,
     InTransaction, Holds, Written, InCall, Acknowledged, Covered, Running, Idle
<1>6. schedule' = "fixed" => Nearby'
  BY SMT, CursorAssumption DEF CursorInv, TypeOK, Transaction, Transactions,
     InTransaction, Holds, Written, InCall, Acknowledged, Nearby, Near, Running, Idle
<1> QED  BY <1>1, <1>2, <1>3, <1>4, <1>5, <1>6 DEF CursorInv

\* Throw rolls back, whatever the error was.
LEMMA ThrowStep ==
    ASSUME CursorInv, InCall, NEW err, Throw(err), faults' \in 0 .. MaxFaults
    PROVE  CursorInv'
<1>1. /\ tx' = [tx EXCEPT ![conn] = Idle] /\ pc' \in {"sync", "down"}
      /\ conn' = NoConn /\ aborted' = FALSE
      /\ UNCHANGED <<schedule, torn, seen, mem, pos, saved, db, acked>>
  BY DEF Throw
<1> QED  BY <1>1, LeaveStep, Zenon

\* save takes the head row, which no other transaction holds.
LEMMA SaveWrites ==
    ASSUME CursorInv, pc = "save", Unlocked("head"),
           tx' = [tx EXCEPT ![conn].data = mem, ![conn].wrote = @ \cup {"head"}],
           pc' = "set",
           UNCHANGED <<schedule, torn, seen, mem, pos, saved, conn, aborted, db, acked, faults>>
    PROVE  CursorInv'
<1>1. TypeOK'
  <2> DEFINE t == [tx[conn] EXCEPT !.data = mem, !.wrote = @ \cup {"head"}]
  <2>1. conn \in Conn /\ tx[conn] \in Transaction /\ mem \in SUBSET Event
    BY DEF CursorInv, TypeOK, InCall
  <2>2. t \in Transaction
    BY <2>1, Zenon DEF Transaction
  <2>3. tx' \in [Conn -> Transaction]
    BY <2>1, <2>2 DEF CursorInv, TypeOK, Transaction
  <2> QED  BY <2>1, <2>3 DEF CursorInv, TypeOK, InCall
<1>2. Transactions'
  BY SMT, CursorAssumption DEF CursorInv, TypeOK, Transaction, Transactions,
     InTransaction, Holds, Written, InCall, Unlocked
<1>3. InTransaction'
  BY SMT, CursorAssumption DEF CursorInv, TypeOK, Transaction, Transactions,
     InTransaction, Holds, Written, InCall, Unlocked
<1>4. Acknowledged'
  BY SMT, CursorAssumption DEF CursorInv, TypeOK, Transaction, Transactions,
     InTransaction, Holds, Written, InCall, Acknowledged, Running, Unlocked
<1>5. (torn \/ Covered)'
  BY SMT, CursorAssumption DEF CursorInv, TypeOK, Transaction, Transactions,
     InTransaction, Holds, Written, InCall, Acknowledged, Covered, Running, Unlocked
<1>6. schedule' = "fixed" => Nearby'
  BY SMT, CursorAssumption DEF CursorInv, TypeOK, Transaction, Transactions,
     InTransaction, Holds, Written, InCall, Acknowledged, Nearby, Near, Running,
     Unlocked
<1> QED  BY <1>1, <1>2, <1>3, <1>4, <1>5, <1>6 DEF CursorInv

\* set writes the position the saved state has reached.
LEMMA SetWrites ==
    ASSUME CursorInv, pc = "set",
           tx' = [tx EXCEPT ![conn].cursor = pos, ![conn].wrote = @ \cup {"watermark"}],
           pc' = "commit",
           UNCHANGED <<schedule, torn, seen, mem, pos, saved, conn, aborted, db, acked, faults>>
    PROVE  CursorInv'
<1>1. TypeOK'
  <2> DEFINE t == [tx[conn] EXCEPT !.cursor = pos, !.wrote = @ \cup {"watermark"}]
  <2>1. conn \in Conn /\ tx[conn] \in Transaction /\ pos \in 0 .. MaxEvents
    BY DEF CursorInv, TypeOK, InCall
  <2>2. t \in Transaction
    BY <2>1, Zenon DEF Transaction
  <2>3. tx' \in [Conn -> Transaction]
    BY <2>1, <2>2 DEF CursorInv, TypeOK, Transaction
  <2> QED  BY <2>1, <2>3 DEF CursorInv, TypeOK, InCall
<1>2. Transactions'
  BY SMT, CursorAssumption DEF CursorInv, TypeOK, Transaction, Transactions,
     InTransaction, Holds, Written, InCall
<1>3. InTransaction'
  BY SMT, CursorAssumption DEF CursorInv, TypeOK, Transaction, Transactions,
     InTransaction, Holds, Written, InCall
<1>4. Acknowledged'
  BY SMT, CursorAssumption DEF CursorInv, TypeOK, Transaction, Transactions,
     InTransaction, Holds, Written, InCall, Acknowledged, Running
<1>5. (torn \/ Covered)'
  BY SMT, CursorAssumption DEF CursorInv, TypeOK, Transaction, Transactions,
     InTransaction, Holds, Written, InCall, Acknowledged, Covered, Running
<1>6. schedule' = "fixed" => Nearby'
  BY SMT, CursorAssumption DEF CursorInv, TypeOK, Transaction, Transactions,
     InTransaction, Holds, Written, InCall, Acknowledged, Nearby, Near, Running
<1> QED  BY <1>1, <1>2, <1>3, <1>4, <1>5, <1>6 DEF CursorInv

\* Both statements are either sent or stopped by an aborted signal.
LEMMA SaveStep ==
    ASSUME CursorInv, Save PROVE CursorInv'
<1>1. InCall /\ faults \in 0 .. MaxFaults
  BY DEF Save, InCall, CursorInv, TypeOK
<1>2. CASE aborted
  BY <1>1, <1>2, ThrowStep DEF Save, withAbort
<1>3. CASE ~aborted
  BY <1>3, SaveWrites DEF Save, withAbort
<1> QED  BY <1>2, <1>3

\* set: the watermark is written in the caller's transaction, after the locks allow it.
LEMMA SetStep ==
    ASSUME CursorInv, set PROVE CursorInv'
<1>1. InCall /\ faults \in 0 .. MaxFaults
  BY DEF set, InCall, CursorInv, TypeOK
<1>2. CASE aborted
  BY <1>1, <1>2, ThrowStep DEF set, withAbort
<1>3. CASE ~aborted
  BY <1>3, SetWrites DEF set, withAbort
<1> QED  BY <1>2, <1>3

\* A statement fails and its transaction is rolled back.
LEMMA StatementFailsStep ==
    ASSUME CursorInv, StatementFails PROVE CursorInv'
<1>1. InCall /\ faults' \in 0 .. MaxFaults
  BY SMT, CursorAssumption DEF StatementFails, InCall, CursorInv, TypeOK
<1> QED  BY <1>1, ThrowStep DEF StatementFails

\* A lost connection leaves the transaction to the server; so does a process
\* that dies in a call, and one that dies elsewhere leaves nothing.
LEMMA ConnectionLostStep ==
    ASSUME CursorInv, ConnectionLost PROVE CursorInv'
<1>1. faults' \in 0 .. MaxFaults
  <2>1. faults < MaxFaults /\ faults' = faults + 1
    BY Zenon DEF ConnectionLost
  <2> QED  BY SMT, <2>1, CursorAssumption DEF CursorInv, TypeOK
<1>2. pc' \in {"sync", "down"}
  BY DEF ConnectionLost
<1> QED  BY <1>1, <1>2, LeaveStep DEF ConnectionLost

\* The process dies: what it sent may still run at the server, with nobody to await it.
LEMMA KillStep ==
    ASSUME CursorInv, Kill PROVE CursorInv'
<1>1. faults' \in 0 .. MaxFaults
  BY SMT, CursorAssumption DEF Kill, CursorInv, TypeOK
<1>2. CASE InCall
  BY <1>1, <1>2, LeaveStep, Zenon DEF Kill
<1>3. CASE ~InCall
  <2>1. TypeOK'
    BY <1>1, <1>3, CursorAssumption, Zenon DEF Kill, CursorInv, TypeOK, InCall
  <2>2. Transactions' /\ InTransaction' /\ Acknowledged'
    BY <1>3 DEF Kill, CursorInv, Transactions, InTransaction, Acknowledged, Running,
       Holds, Written, InCall
  <2>3. (torn \/ Covered)'
    BY <1>3 DEF Kill, CursorInv, Covered, Running, Written, InCall
  <2>4. schedule' = "fixed" => Nearby'
    BY <1>3 DEF Kill, CursorInv, Nearby, Near, Running, Written, InCall
  <2> QED  BY <2>1, <2>2, <2>3, <2>4 DEF CursorInv
<1> QED  BY <1>2, <1>3

\* A COMMIT, also one of a process long dead, leaves the cursor at or beyond what
\* was acknowledged; with fixed batches it never moves the cursor back.
LEMMA ServerCommitsStep ==
    ASSUME CursorInv, NEW c \in Conn, ServerCommits(c) PROVE CursorInv'
<1>1. TypeOK'
  <2>1. tx[c] \in Transaction /\ acked \in 0 .. MaxEvents
    BY DEF CursorInv, TypeOK
  <2> QED
    BY <2>1, CursorAssumption, IdleType, Zenon DEF CursorInv, TypeOK, InCall, ServerCommits, process, Transaction
<1> DEFINE t == IF tx[c].orphan THEN Idle ELSE [Idle EXCEPT !.st = "done"]
<1>2. /\ Written(c) /\ Holds(c) /\ \A d \in Conn \ {c} : ~Holds(d) /\ ~Written(d)
      /\ UNCHANGED <<schedule, pc, seen, mem, pos, saved, conn, aborted, torn, acked, faults>>
  <2>1. tx[c].st = "committing" /\ UNCHANGED <<process, acked, faults>>
    BY DEF ServerCommits
  <2>2. Written(c) /\ Holds(c)
    BY SMT, <2>1 DEF CursorInv, Transactions
  <2>3. \A d \in Conn \ {c} : ~Holds(d) /\ ~Written(d)
    BY <2>2 DEF CursorInv, Transactions
  <2> QED  BY <2>1, <2>2, <2>3 DEF process
<1>3. /\ tx' = [tx EXCEPT ![c] = t] /\ t.wrote = {}
      /\ tx[c].orphan => t.st = "idle"
      /\ ~tx[c].orphan => t.st = "done" /\ ~t.orphan
  BY SMT DEF ServerCommits, Idle
<1>4. \A d \in Conn : ~Holds(d)' /\ ~Written(d)'
  BY <1>2, <1>3 DEF CursorInv, TypeOK, Holds, Written
<1>5. db'.data = tx[c].data /\ db'.cursor = tx[c].cursor /\ tx[c].st = "committing"
  BY SMT DEF ServerCommits
<1> HIDE DEF t
<1>6. Transactions'
  BY SMT, <1>3, <1>4, <1>2 DEF CursorInv, TypeOK, Transactions
<1>7. InTransaction'
  BY SMT, <1>3, <1>4, <1>2, <1>5, CursorAssumption DEF CursorInv, TypeOK, Transactions,
     InTransaction, Holds, Written, InCall
<1>8. Acknowledged'
  BY SMT, <1>4, <1>2, <1>5 DEF CursorInv, Acknowledged, Running
<1>9. (torn \/ Covered)'
  BY SMT, <1>4, <1>2, <1>5 DEF CursorInv, Covered, Running
<1>10. schedule' = "fixed" => Nearby'
  BY SMT, <1>4, <1>2, <1>5, CursorAssumption DEF CursorInv, TypeOK, Transaction,
     InTransaction, InCall, Acknowledged, Nearby, Near, Running
<1> QED  BY <1>1, <1>6, <1>7, <1>8, <1>9, <1>10 DEF CursorInv

\* What the server rolls back was not committed.
LEMMA ServerNoticesStep ==
    ASSUME CursorInv, NEW c \in Conn, ServerNotices(c) PROVE CursorInv'
<1>1. TypeOK'
  BY CursorAssumption, IdleType DEF CursorInv, TypeOK, InTransaction, InCall, ServerNotices, process
<1>2. Transactions'
  BY SMT, CursorAssumption DEF CursorInv, TypeOK, Transaction, Transactions,
     InTransaction, Holds, Written, InCall, ServerNotices, process, Idle
<1>3. InTransaction'
  BY SMT, CursorAssumption DEF CursorInv, TypeOK, Transaction, Transactions,
     InTransaction, Holds, Written, InCall, ServerNotices, process, Idle
<1>4. Acknowledged'
  BY SMT, CursorAssumption DEF CursorInv, TypeOK, Transaction, Transactions,
     InTransaction, Holds, Written, InCall, Acknowledged, Running, ServerNotices,
     process, Idle
<1>5. (torn \/ Covered)'
  BY SMT, CursorAssumption DEF CursorInv, TypeOK, Transaction, Transactions,
     InTransaction, Holds, Written, InCall, Acknowledged, Covered, Running,
     ServerNotices, process, Idle
<1>6. schedule' = "fixed" => Nearby'
  BY SMT, CursorAssumption DEF CursorInv, TypeOK, Transaction, Transactions,
     InTransaction, Holds, Written, InCall, Acknowledged, Nearby, Near, Running,
     ServerNotices, process, Idle
<1> QED  BY <1>1, <1>2, <1>3, <1>4, <1>5, <1>6 DEF CursorInv

\* No step of the process, the server or a fault breaks the invariant.
LEMMA NextCursorInv == CursorInv /\ [Next]_vars => CursorInv'
<1> SUFFICES ASSUME CursorInv, [Next]_vars PROVE CursorInv'
  OBVIOUS
<1>1. CASE ProcessStep
  BY <1>1, StartStep, GetStep, LoadStep, ApplyStep, BeginStep, SaveStep, SetStep,
     CommitStep, ReturnStep DEF ProcessStep
<1>2. CASE \E c \in Conn : Server(c)
  BY <1>2, ServerCommitsStep, ServerNoticesStep DEF Server
<1>3. CASE StatementFails \/ ConnectionLost \/ Kill \/ Abort
  BY <1>3, StatementFailsStep, ConnectionLostStep, KillStep, AbortStep
<1>4. CASE UNCHANGED vars
  <2>1. TypeOK' /\ Transactions' /\ InTransaction'
    BY <1>4 DEF vars, process, CursorInv, TypeOK, Transactions, InTransaction, Holds, Written, InCall
  <2>2. Acknowledged' /\ (torn \/ Covered)'
    BY <1>4 DEF vars, process, CursorInv, Acknowledged, Covered, Running, Written
  <2>3. schedule' = "fixed" => Nearby'
    BY <1>4 DEF vars, process, CursorInv, Nearby, Near, Running, Written
  <2> QED  BY <2>1, <2>2, <2>3 DEF CursorInv
<1> QED  BY <1>1, <1>2, <1>3, <1>4 DEF Next

\* The durable cursor is never beyond an event the durable state lacks, nor a
\* process beyond one its own state lacks, unless some resume was torn (read a
\* cursor and then a checkpoint that a late COMMIT had put behind it); and no
\* resume is torn when the batches are fixed.  For any number of connections,
\* events and faults, whatever fails, dies, is aborted or commits late.
THEOREM NoSkip == Spec => []NoEventSkipped
<1>1. CursorInv => NoEventSkipped
  <2> SUFFICES ASSUME CursorInv PROVE NoEventSkipped
    OBVIOUS
  <2>1. torn => schedule = "free"
    BY CursorAssumption DEF CursorInv, TypeOK, Nearby
  <2>2. pc \notin {"down", "get", "load"} => Running
    BY DEF CursorInv, TypeOK, Running
  <2> QED  BY <2>1, <2>2 DEF CursorInv, Covered, NoEventSkipped
<1> QED  BY <1>1, InitCursorInv, NextCursorInv, PTL DEF Spec

\* Under every schedule, no late COMMIT, retry or restart puts the durable
\* cursor behind a position for which saveAndAdvance has returned.
THEOREM AcknowledgedDurable == Spec => []AcknowledgedStays
<1>1. CursorInv => AcknowledgedStays
  BY DEF CursorInv, AcknowledgedStays, Acknowledged
<1> QED  BY <1>1, InitCursorInv, NextCursorInv, PTL DEF Spec
=============================================================================
