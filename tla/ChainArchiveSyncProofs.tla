----------------------- MODULE ChainArchiveSyncProofs -----------------------
(***************************************************************************)
(* For every set of services and overlapping calls, every batch size and   *)
(* every chain: the cursor never passes a height that is not archived, and *)
(* one service that syncs a call at a time records every change of the     *)
(* D-parameter.                                                            *)
(***************************************************************************)
EXTENDS ChainArchiveSync, TLAPS

\* Leaves go to Zenon; those it cannot do, with arithmetic mostly, name SMT.
USE Zenon

Label == {"idle", "cursor", "fetch", "bundle", "stored", "advance"}

TypeOK ==
    /\ dParameter \in [Height -> DValue]
    /\ finalized \in Height
    /\ indexed \in Int /\ indexed <= finalized
    /\ watermark \in Int /\ watermark >= -1
    /\ lastD \in [Service -> DValue \cup {Unknown}]
    /\ pc \in [Call -> Label]
    /\ height \in [Call -> Nat]
    /\ newD \in [Call -> DValue \cup {Unknown}]
    /\ alone \in BOOLEAN

\* A call works on a height all of whose predecessors are archived, and has
\* archived the height itself when it comes to set the watermark.
Behind(c) ==
    /\ pc[c] \in {"fetch", "bundle", "stored", "advance"} =>
          \A h \in Height : h < height[c] => h \in blocks
    /\ pc[c] \in {"bundle", "stored", "advance"} => height[c] \in Height
    /\ pc[c] \in {"stored", "advance"} => height[c] \in blocks

GapInv == TypeOK /\ NoGap /\ \A c \in Call : Behind(c)

\* What a service may remember: the D-parameter at the cursor, or the one of the
\* next height, if that one's change is recorded (a call threw or died between
\* the bundle and the watermark).
Remembered(v) ==
    lastD[v] # Unknown =>
       \/ watermark \in Height /\ lastD[v] = dParameter[watermark]
       \/ /\ watermark + 1 \in Height
          /\ lastD[v] = dParameter[watermark + 1]
          /\ Changes(watermark + 1) => watermark + 1 \in observations

\* What the only call under way knows.
Only(c) ==
    /\ \A o \in Call \ {c} : pc[o] = "idle"
    /\ \A v \in Service \ {ServiceOf[c]} : lastD[v] = Unknown
    /\ pc[c] # "cursor" => height[c] = watermark + 1
    /\ pc[c] \in {"bundle", "stored"} => newD[c] = Candidate(c)
    /\ pc[c] = "stored" /\ newD[c] # Unknown => height[c] \in observations
    /\ pc[c] = "advance" =>
          /\ lastD[ServiceOf[c]] = dParameter[height[c]]
          /\ Changes(height[c]) => height[c] \in observations

ChangeInv ==
    alone => /\ AllChangesRecorded
             /\ \A v \in Service : Remembered(v)
             /\ \A c \in Call : pc[c] # "idle" => Only(c)

-----------------------------------------------------------------------------
(* The initial states *)

\* Nothing is archived and no call runs when the services start.
LEMMA GapInit == Init => GapInv
BY SMT, SyncConstants DEF Init, GapInv, TypeOK, NoGap, Behind, Height, Label

\* No D-parameter is archived or remembered when the services start.
LEMMA ChangeInit == Init => ChangeInv
BY SMT, SyncConstants DEF Init, ChangeInv, AllChangesRecorded, Remembered, Height

-----------------------------------------------------------------------------
(* The cursor *)

\* A call that is over left the archive and the other calls alone.
LEMMA GapOver ==
    ASSUME GapInv, NEW c \in Call, Over(c), UNCHANGED <<chain, store, lastD, alone>>
    PROVE  GapInv'
BY SyncConstants
   DEF GapInv, TypeOK, NoGap, Behind, Over, Goto, chain, store, Label, Height

\* A call that throws leaves the cursor where it was.
LEMMA GapThrow ==
    ASSUME GapInv, NEW c \in Call, Throw(c)
    PROVE  GapInv'
BY GapOver DEF Throw

\* A restart ends the service's calls and leaves the archive alone.
LEMMA GapRestart ==
    ASSUME GapInv, NEW v \in Service, Restart(v)
    PROVE  GapInv'
BY SyncConstants
   DEF GapInv, TypeOK, NoGap, Behind, Restart, chain, store, Label, Height

\* A call that goes on, from the cursor to the bundle to the watermark, keeps it.
LEMMA GapContinue ==
    ASSUME GapInv, NEW c \in Call, Continue(c)
    PROVE  GapInv'
<1> USE SyncConstants
        DEF GapInv, TypeOK, NoGap, Behind, Over, Goto, chain, store, Label, Height
<1>1. CASE ReadCursor(c)
  <2>1. CASE Over(c)
    BY ONLY GapInv, <1>1, <2>1, GapOver DEF ReadCursor
  <2>2. CASE /\ height' = [height EXCEPT ![c] = watermark + 1]
             /\ Goto(c, "fetch") /\ UNCHANGED <<tip, newD>>
    BY SMT, <1>1, <2>2 DEF ReadCursor
  <2> QED
    BY ONLY <1>1, <2>1, <2>2 DEF ReadCursor
<1>2. CASE Fetch(c)
  <2>1. CASE Over(c)
    BY ONLY GapInv, <1>2, <2>1, GapOver DEF Fetch
  <2>2. CASE indexed >= height[c] /\ newD' = [newD EXCEPT ![c] = Candidate(c)]
             /\ Goto(c, "bundle") /\ UNCHANGED <<tip, height, endHeight>>
    <3>1. height[c] \in Height /\ Candidate(c) \in DValue \cup {Unknown}
      BY SMT, <2>2 DEF Candidate
    <3> QED
      BY <1>2, <2>2, <3>1 DEF Fetch
  <2> QED
    BY ONLY <1>2, <2>1, <2>2 DEF Fetch
<1>3. CASE PutBlockBundle(c)
  BY <1>3 DEF PutBlockBundle
<1>4. CASE Remember(c)
  BY <1>4 DEF Remember
<1>5. CASE SetWatermark(c)
  <2>1. /\ watermark' \in {watermark, height[c]} /\ blocks' = blocks
        /\ pc[c] = "advance" /\ height[c] \in blocks /\ height[c] \in Height
    BY <1>5 DEF SetWatermark, Advanced
  <2>2. watermark' \in Int /\ watermark' >= -1
    BY SMT, <2>1
  <2>3. NoGap'
    BY SMT, <2>1, <2>2
  <2>4. pc' \in [Call -> Label] /\ height' \in [Call -> Nat]
        /\ newD' \in [Call -> DValue \cup {Unknown}]
    <3>1. CASE Over(c)
      BY <3>1
    <3>2. CASE height' = [height EXCEPT ![c] = @ + 1] /\ Goto(c, "fetch") /\ newD' = newD
      BY SMT, <3>2
    <3> QED
      BY ONLY <1>5, <3>1, <3>2 DEF SetWatermark
  <2>5. TypeOK'
    BY <1>5, <2>2, <2>4 DEF SetWatermark
  <2>6. ASSUME NEW o \in Call PROVE Behind(o)'
    <3>1. CASE o # c
      BY <1>5, <2>1, <3>1 DEF SetWatermark
    <3>2. CASE o = c
      <4>1. \/ pc'[c] = "idle"
            \/ pc'[c] = "fetch" /\ height'[c] = height[c] + 1
        BY <1>5 DEF SetWatermark
      <4>2. \A h \in Height : h < height[c] + 1 => h \in blocks
        BY SMT, <2>1
      <4> QED
        BY <2>1, <3>2, <4>1, <4>2
    <3> QED
      BY <3>1, <3>2
  <2> QED
    BY <2>3, <2>5, <2>6
<1> QED
  BY <1>1, <1>2, <1>3, <1>4, <1>5 DEF Continue

\* Every step of every service keeps the cursor's invariant.
LEMMA GapNext == GapInv /\ [Next]_vars => GapInv'
<1> SUFFICES ASSUME GapInv, [Next]_vars
             PROVE  GapInv'
  OBVIOUS
<1> USE SyncConstants
<1>1. CASE Finalize
  BY SMT, <1>1 DEF GapInv, TypeOK, NoGap, Behind, Finalize, store, call, Label, Height
<1>2. CASE Index
  BY SMT, <1>2 DEF GapInv, TypeOK, NoGap, Behind, Index, store, call, Label, Height
<1>3. ASSUME NEW c \in Call, SyncBegin(c)
      PROVE  GapInv'
  BY <1>3 DEF GapInv, TypeOK, NoGap, Behind, SyncBegin, Goto, chain, store, Label, Height
<1>4. CASE UNCHANGED vars
  BY <1>4 DEF GapInv, TypeOK, NoGap, Behind, vars, chain, store, call, Label, Height
<1> QED
  BY <1>1, <1>2, <1>3, <1>4, GapContinue, GapThrow, GapRestart DEF Next

(***************************************************************************)
(* syncOnce's cursor never passes a height that is not archived, however   *)
(* many calls overlap on however many services, throw or die.              *)
(***************************************************************************)
THEOREM CursorHasNoGap == Spec => []NoGap
<1>1. GapInv => NoGap
  BY DEF GapInv
<1> QED
  BY <1>1, GapInit, GapNext, PTL DEF Spec

-----------------------------------------------------------------------------
(* The changes of the D-parameter *)

\* A call that throws has not remembered a value it did not write.
LEMMA ChangeThrow ==
    ASSUME GapInv, ChangeInv, NEW c \in Call, Throw(c)
    PROVE  ChangeInv'
<1>1. UNCHANGED <<alone, dParameter, observations, watermark, lastD>>
  BY DEF Throw, chain, store
<1>2. ASSUME alone PROVE \A o \in Call : pc'[o] = "idle"
  BY <1>2 DEF GapInv, TypeOK, ChangeInv, Only, Throw, Over, Goto
<1> QED
  BY <1>1, <1>2 DEF ChangeInv, AllChangesRecorded, Changes, Remembered

\* A restarted service has forgotten its last value, and compares with none.
LEMMA ChangeRestart ==
    ASSUME GapInv, ChangeInv, NEW v \in Service, Restart(v)
    PROVE  ChangeInv'
<1> USE SyncConstants
<1>1. UNCHANGED <<alone, dParameter, observations, watermark>>
  BY DEF Restart, chain, store
<1>2. lastD' = [lastD EXCEPT ![v] = Unknown]
  BY DEF Restart
<1>3. ASSUME alone PROVE AllChangesRecorded'
  BY <1>1, <1>3 DEF ChangeInv, AllChangesRecorded, Changes
<1>4. ASSUME alone, NEW w \in Service PROVE Remembered(w)'
  BY <1>1, <1>2, <1>4 DEF GapInv, TypeOK, ChangeInv, Remembered, Changes
<1>5. ASSUME alone, NEW c \in Call, pc'[c] # "idle" PROVE Only(c)'
  <2>1. ServiceOf[c] # v /\ pc'[c] = pc[c] /\ height'[c] = height[c] /\ newD'[c] = newD[c]
    BY <1>5 DEF Restart
  <2>2. Only(c)
    BY <1>5, <2>1 DEF ChangeInv
  <2>3. \A o \in Call \ {c} : pc'[o] = "idle"
    BY <2>2 DEF Only, Restart
  <2>4. lastD'[ServiceOf[c]] = lastD[ServiceOf[c]]
    BY <1>2, <2>1 DEF GapInv, TypeOK
  <2>5. \A w \in Service \ {ServiceOf[c]} : lastD'[w] = Unknown
    BY <1>2, <2>2 DEF Only, GapInv, TypeOK
  <2> QED
    BY <1>1, <2>1, <2>2, <2>3, <2>4, <2>5 DEF Only, Candidate, Changes
<1> QED
  BY <1>1, <1>3, <1>4, <1>5 DEF ChangeInv

\* A call starts from the cursor with the value the service remembers.
LEMMA ChangeBegin ==
    ASSUME GapInv, ChangeInv, NEW c \in Call, SyncBegin(c)
    PROVE  ChangeInv'
<1>1. UNCHANGED <<dParameter, observations, watermark, lastD, height, newD>>
  BY DEF SyncBegin, chain, store
<1>2. pc' = [pc EXCEPT ![c] = "cursor"]
  BY DEF SyncBegin, Goto
<1>3. alone' => /\ alone
                /\ \A o \in Call \ {c} : pc[o] = "idle"
                /\ \A v \in Service \ {ServiceOf[c]} : lastD[v] = Unknown
  BY Zenon DEF SyncBegin
<1>4. ASSUME alone', NEW o \in Call, pc'[o] # "idle" PROVE Only(o)'
  <2>1. o = c
    BY <1>2, <1>3, <1>4 DEF GapInv, TypeOK
  <2> QED
    BY <1>1, <1>2, <1>3, <1>4, <2>1 DEF Only, GapInv, TypeOK
<1> QED
  BY <1>1, <1>3, <1>4 DEF ChangeInv, AllChangesRecorded, Changes, Remembered

\* A call alone in the archive steps: what it needs of every case.
LEMMA ChangeContinue ==
    ASSUME GapInv, ChangeInv, NEW c \in Call, Continue(c)
    PROVE  ChangeInv'
<1> USE SyncConstants
<1> SUFFICES ASSUME alone
             PROVE  /\ AllChangesRecorded'
                    /\ \A v \in Service : Remembered(v)'
                    /\ \A o \in Call : pc'[o] # "idle" => Only(o)'
  <2>1. alone' = alone
    BY DEF Continue, ReadCursor, Fetch, PutBlockBundle, Remember, SetWatermark
  <2> QED
    BY <2>1 DEF ChangeInv
<1>1. /\ pc \in [Call -> Label] /\ height \in [Call -> Nat]
      /\ newD \in [Call -> DValue \cup {Unknown}]
      /\ lastD \in [Service -> DValue \cup {Unknown}]
      /\ dParameter \in [Height -> DValue]
      /\ finalized \in Height /\ indexed \in Int /\ indexed <= finalized
      /\ watermark \in Int /\ watermark >= -1
      /\ ServiceOf[c] \in Service
      /\ AllChangesRecorded /\ \A v \in Service : Remembered(v)
  BY DEF GapInv, TypeOK, ChangeInv
<1>2. pc[c] # "idle" /\ Only(c)
  BY Zenon DEF Continue, ReadCursor, Fetch, PutBlockBundle, Remember, SetWatermark, ChangeInv
<1>3. dParameter' = dParameter
  BY Zenon DEF Continue, ReadCursor, Fetch, PutBlockBundle, Remember, SetWatermark, chain
<1>4. \A o \in Call : pc'[o] # "idle" => o = c
  BY <1>1, <1>2, Zenon
  DEF Only, Continue, ReadCursor, Fetch, PutBlockBundle, Remember, SetWatermark, Over, Goto
<1>5. \A o \in Call \ {c} : pc'[o] = "idle"
  BY <1>4
<1>6. ASSUME UNCHANGED <<observations, watermark, lastD>>
      PROVE  AllChangesRecorded' /\ \A v \in Service : Remembered(v)'
  BY <1>1, <1>3, <1>6 DEF AllChangesRecorded, Remembered, Changes
<1>7. CASE ReadCursor(c)
  <2>1. UNCHANGED <<observations, watermark, lastD>>
    BY <1>7 DEF ReadCursor, store
  <2>2. \/ pc'[c] = "idle"
        \/ pc'[c] = "fetch" /\ height'[c] = watermark + 1
    BY <1>1, <1>7 DEF ReadCursor, Over, Goto
  <2>3. pc'[c] # "idle" => Only(c)'
    BY <1>2, <1>5, <2>1, <2>2 DEF Only
  <2> QED
    BY <1>4, <1>6, <2>1, <2>3
<1>8. CASE Fetch(c)
  <2>1. UNCHANGED <<observations, watermark, lastD>>
    BY <1>8 DEF Fetch, store
  <2>2. \/ pc'[c] = "idle"
        \/ /\ pc'[c] = "bundle" /\ height'[c] = height[c] /\ height[c] \in Height
           /\ newD'[c] = Candidate(c)
    <3>1. indexed >= height[c] => height[c] \in Height
      BY SMT, <1>1 DEF Height
    <3> QED
      BY <1>1, <1>8, <3>1 DEF Fetch, Over, Goto
  <2>3. pc'[c] # "idle" => Only(c)'
    BY <1>2, <1>3, <1>5, <1>8, <2>1, <2>2 DEF Only, Candidate, Fetch
  <2> QED
    BY <1>4, <1>6, <2>1, <2>3
<1>9. CASE PutBlockBundle(c)
  <2>1. UNCHANGED <<watermark, lastD, height, newD>> /\ pc[c] = "bundle" /\ pc'[c] = "stored"
    BY <1>1, <1>9 DEF PutBlockBundle, Goto
  <2>2. observations \subseteq observations'
        /\ (newD[c] # Unknown => height[c] \in observations')
    BY <1>9 DEF PutBlockBundle
  <2>3. AllChangesRecorded' /\ \A v \in Service : Remembered(v)'
    BY <1>1, <1>3, <2>1, <2>2 DEF AllChangesRecorded, Remembered, Changes
  <2>4. Only(c)'
    BY <1>2, <1>3, <1>5, <2>1, <2>2 DEF Only, Candidate
  <2> QED
    BY <1>4, <2>3, <2>4
<1>10. CASE Remember(c)
  <2> DEFINE s == ServiceOf[c]
  <2>1. /\ UNCHANGED <<observations, watermark, height, newD>>
        /\ pc[c] = "stored" /\ pc'[c] = "advance"
        /\ lastD' = IF newD[c] = Unknown THEN lastD ELSE [lastD EXCEPT ![s] = newD[c]]
    BY <1>1, <1>10 DEF Remember, Goto, store
  <2>2. /\ height[c] \in Height /\ height[c] = watermark + 1 /\ newD[c] = Candidate(c)
        /\ newD[c] # Unknown => height[c] \in observations
    BY <1>2, <2>1 DEF Only, GapInv, Behind
  <2>3. dParameter[height[c]] # Unknown
    BY <1>1, <2>2
  <2>4. lastD'[s] = dParameter[height[c]]
    BY <1>1, <2>1, <2>2, <2>3 DEF Candidate
  <2>5. Changes(height[c]) => height[c] \in observations
    <3>1. CASE newD[c] # Unknown
      BY <2>2, <3>1
    <3>2. CASE newD[c] = Unknown
      <4>1. lastD[s] = dParameter[height[c]] /\ Remembered(s)
        BY <1>1, <2>2, <2>3, <3>2 DEF Candidate
      <4>2. height[c] - 1 = watermark
        BY SMT, <1>1, <2>2
      <4> QED
        BY <2>2, <2>3, <4>1, <4>2 DEF Remembered, Changes
    <3> QED
      BY <3>1, <3>2
  <2>6. AllChangesRecorded'
    BY <1>1, <1>3, <2>1 DEF AllChangesRecorded, Changes
  <2>7. \A v \in Service \ {s} : lastD'[v] = Unknown
    BY <1>1, <1>2, <2>1 DEF Only
  <2>8. \A v \in Service : Remembered(v)'
    BY <1>3, <2>1, <2>2, <2>4, <2>5, <2>7 DEF Remembered, Changes
  <2>9. Only(c)'
    BY <1>2, <1>3, <1>5, <2>1, <2>2, <2>4, <2>5, <2>7 DEF Only, Changes
  <2> QED
    BY <1>4, <2>6, <2>8, <2>9
<1>11. CASE SetWatermark(c)
  <2> DEFINE s == ServiceOf[c]
  <2>1. /\ UNCHANGED <<observations, lastD>>
        /\ pc[c] = "advance" /\ watermark' = Advanced(height[c])
        /\ \/ pc'[c] = "idle"
           \/ pc'[c] = "fetch" /\ height'[c] = height[c] + 1
    BY <1>1, <1>11 DEF SetWatermark, Over, Goto
  <2>2. /\ height[c] \in Height /\ height[c] = watermark + 1
        /\ lastD[s] = dParameter[height[c]]
        /\ Changes(height[c]) => height[c] \in observations
        /\ \A v \in Service \ {s} : lastD[v] = Unknown
    BY <1>2, <2>1 DEF Only, GapInv, Behind
  <2>3. watermark' = height[c]
    BY SMT, <1>1, <2>1, <2>2 DEF Advanced
  <2>4. AllChangesRecorded'
    <3> SUFFICES ASSUME NEW h \in Height, h <= height[c], Changes(h)
                 PROVE  h \in observations
      BY <1>3, <2>1, <2>3 DEF AllChangesRecorded, Changes
    <3>1. CASE h = height[c]
      BY <2>2, <3>1
    <3>2. CASE h # height[c]
      <4>1. h <= watermark
        BY SMT, <1>1, <2>2, <3>2 DEF Height
      <4> QED
        BY <1>1, <4>1 DEF AllChangesRecorded
    <3> QED
      BY <3>1, <3>2
  <2>5. \A v \in Service : Remembered(v)'
    BY <1>3, <2>1, <2>2, <2>3 DEF Remembered
  <2>6. pc'[c] # "idle" => Only(c)'
    BY <1>5, <2>1, <2>2, <2>3 DEF Only
  <2> QED
    BY <1>4, <2>4, <2>5, <2>6
<1> QED
  BY <1>7, <1>8, <1>9, <1>10, <1>11 DEF Continue

\* Every step keeps the invariant about recorded changes.
LEMMA ChangeNext == GapInv /\ ChangeInv /\ [Next]_vars => ChangeInv'
<1> SUFFICES ASSUME GapInv, ChangeInv, [Next]_vars
             PROVE  ChangeInv'
  OBVIOUS
<1>1. CASE Finalize \/ Index \/ UNCHANGED vars
  <2>1. UNCHANGED <<dParameter, observations, watermark, lastD, pc, height, newD, alone>>
    BY <1>1 DEF Finalize, Index, vars, chain, store, call
  <2> QED
    BY <2>1 DEF ChangeInv, AllChangesRecorded, Remembered, Only, Candidate, Changes
<1> QED
  BY <1>1, ChangeBegin, ChangeContinue, ChangeThrow, ChangeRestart DEF Next

(***************************************************************************)
(* One service that syncs a call at a time records every change of the     *)
(* D-parameter up to the cursor, wherever its calls throw and however often *)
(* it restarts: lastDParameterJson is set only after the write it stands   *)
(* for.                                                                    *)
(***************************************************************************)
THEOREM OneServiceRecordsChanges == Spec => []ChangesRecorded
<1>1. ChangeInv => ChangesRecorded
  BY DEF ChangeInv, ChangesRecorded
<1> QED
  BY <1>1, GapInit, GapNext, ChangeInit, ChangeNext, PTL DEF Spec
=============================================================================
