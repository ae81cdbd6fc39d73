-------------------------- MODULE TemporalKVProofs --------------------------
(***************************************************************************)
(* The temporal key-value store for any keys, values, sessions and clock:  *)
(* dual addressing, a past that settles, and a log per key.                *)
(*                                                                         *)
(* The intervals of a key's versions follow each other without overlap, in *)
(* the committed tables and in every snapshot.  What a transaction wrote   *)
(* is one version more than what is committed, on rows nobody else writes, *)
(* with the history row that closes the committed one: so its own view and *)
(* the tables after its COMMIT are one extension of such tables, for which *)
(* everything is proved once.                                              *)
(***************************************************************************)
EXTENDS TemporalKV, Sequences, TLAPS

\* Leaves go to Zenon; those it cannot do, with arithmetic mostly, name SMT.
USE Zenon

HistoryRow == [key : Key, value : Value, version : Nat, from : Nat, to : Nat]

\* Every version below the live one has its history row, and the intervals follow
\* each other in the order of the versions.
Sound(current, history) ==
    /\ current \in [Key -> Row \cup {NoRow}]
    /\ \A k \in Key : current[k] # NoRow => current[k].version > 0
    /\ \A h \in history :
         /\ h \in HistoryRow /\ h.version > 0 /\ h.from < h.to
         /\ current[h.key] # NoRow
         /\ h.version < current[h.key].version /\ h.to <= current[h.key].at
    /\ \A g, h \in history :
         g.key = h.key => \/ g = h
                          \/ g.version < h.version /\ g.to <= h.from
                          \/ h.version < g.version /\ h.to <= g.from
    /\ \A k \in Key : \A n \in 1..(Version(current[k]) - 1) :
         \E h \in history : h.key = k /\ h.version = n

\* The row that closes the live row of k when fresh[k] takes its place.
ClosedRow(fresh, current, k) ==
    [key |-> k, value |-> current[k].value, version |-> current[k].version,
     from |-> current[k].at, to |-> fresh[k].at]

Replaced(fresh, current) == {k \in Key : fresh[k] # NoRow /\ current[k] # NoRow}
ClosedRows(fresh, current) == {ClosedRow(fresh, current, k) : k \in Replaced(fresh, current)}
Over(fresh, current) == [k \in Key |-> IF fresh[k] # NoRow THEN fresh[k] ELSE current[k]]

\* The rows of fresh are the versions after the live ones of current.
Succeeds(fresh, current) ==
    /\ fresh \in [Key -> Row \cup {NoRow}]
    /\ \A k \in Key : fresh[k] # NoRow =>
         /\ fresh[k].version = Version(current[k]) + 1
         /\ current[k] # NoRow => current[k].at < fresh[k].at

-----------------------------------------------------------------------------
(* Looking versions up *)

\* The fields of an entry.
LEMMA EntryFields ==
    /\ \A r : LiveEntry(r).value = r.value /\ LiveEntry(r).at = r.at
    /\ \A r : OldEntry(r).value = r.value /\ OldEntry(r).at = r.from
BY DEF LiveEntry, OldEntry, Entry

Numbered(history, k, v) == {r \in history : r.key = k /\ r.version = v}
Covering(history, k, t) == {r \in history : r.key = k /\ r.from <= t /\ t < r.to}

\* Rows that are found in the history come first ...
LEMMA OldLookup ==
    ASSUME NEW current, NEW history, NEW k, NEW r
    PROVE  /\ \A v : Numbered(history, k, v) = {r} =>
                GetAtVersion(current, history, k, v) = {OldEntry(r)}
           /\ \A t : Covering(history, k, t) = {r} =>
                GetAtTime(current, history, k, t) = {OldEntry(r)}
<1>1. \A old, live : old = {r} => FirstOf({OldEntry(h) : h \in old}, live) = {OldEntry(r)}
  BY Zenon DEF FirstOf
<1>2. ASSUME NEW v, Numbered(history, k, v) = {r}
      PROVE  GetAtVersion(current, history, k, v) = {OldEntry(r)}
  BY <1>1, <1>2, Zenon DEF GetAtVersion, Numbered
<1>3. ASSUME NEW t, Covering(history, k, t) = {r}
      PROVE  GetAtTime(current, history, k, t) = {OldEntry(r)}
  BY <1>1, <1>3, Zenon DEF GetAtTime, Covering
<1> QED
  BY <1>2, <1>3

\* ... and the live row answers otherwise, if it matches.
LEMMA LiveLookup ==
    ASSUME NEW current, NEW history, NEW k
    PROVE  /\ \A v : Numbered(history, k, v) = {} =>
                GetAtVersion(current, history, k, v) =
                   IF current[k] # NoRow /\ current[k].version = v THEN {LiveEntry(current[k])} ELSE {}
           /\ \A t : Covering(history, k, t) = {} =>
                GetAtTime(current, history, k, t) =
                   IF current[k] # NoRow /\ current[k].at <= t THEN {LiveEntry(current[k])} ELSE {}
<1>1. \A old, live : old = {} => FirstOf({OldEntry(h) : h \in old}, live) = live
  BY DEF FirstOf
<1>2. ASSUME NEW v, Numbered(history, k, v) = {}
      PROVE  GetAtVersion(current, history, k, v) =
                IF current[k] # NoRow /\ current[k].version = v THEN {LiveEntry(current[k])} ELSE {}
  <2>1. GetAtVersion(current, history, k, v) =
           {LiveEntry(current[k]) : r \in {q \in {current[k]} \ {NoRow} : q.version = v}}
    BY <1>1, <1>2, Zenon DEF GetAtVersion, Numbered
  <2> QED
    BY <2>1
<1>3. ASSUME NEW t, Covering(history, k, t) = {}
      PROVE  GetAtTime(current, history, k, t) =
                IF current[k] # NoRow /\ current[k].at <= t THEN {LiveEntry(current[k])} ELSE {}
  <2>1. GetAtTime(current, history, k, t) =
           {LiveEntry(current[k]) : r \in {q \in {current[k]} \ {NoRow} : q.at <= t}}
    BY <1>1, <1>3, Zenon DEF GetAtTime, Covering
  <2> QED
    BY <2>1
<1> QED
  BY <1>2, <1>3

\* A history row answers for its version and for every instant of its interval.
LEMMA OldFound ==
    ASSUME NEW current, NEW history, Sound(current, history), NEW r \in history
    PROVE  /\ GetAtVersion(current, history, r.key, r.version) = {OldEntry(r)}
           /\ \A t \in Int : r.from <= t /\ t < r.to =>
                GetAtTime(current, history, r.key, t) = {OldEntry(r)}
<1>1. \A h \in history : h.version \in Nat /\ h.from \in Nat /\ h.to \in Nat /\ h.from < h.to
  BY DEF Sound, HistoryRow
<1>2. \A h \in history : h.key = r.key =>
         h = r \/ (h.version < r.version /\ h.to <= r.from) \/ (r.version < h.version /\ r.to <= h.from)
  BY DEF Sound
<1>3. Numbered(history, r.key, r.version) = {r}
  BY SMT, <1>1, <1>2 DEF Numbered
<1>4. ASSUME NEW t \in Int, r.from <= t, t < r.to
      PROVE  Covering(history, r.key, t) = {r}
  BY SMT, <1>1, <1>2, <1>4 DEF Covering
<1> QED
  BY SMT, <1>3, <1>4, OldLookup

\* The live row answers for its version and from the instant it was written at.
LEMMA LiveFound ==
    ASSUME NEW current, NEW history, Sound(current, history), NEW k \in Key, current[k] # NoRow
    PROVE  /\ GetAtVersion(current, history, k, current[k].version) = {LiveEntry(current[k])}
           /\ \A t \in Int : current[k].at <= t =>
                GetAtTime(current, history, k, t) = {LiveEntry(current[k])}
<1>1. current[k] \in Row
  BY SMT DEF Sound
<1>2. \A h \in history : h.key = k =>
         /\ h.version \in Nat /\ h.version < current[k].version
         /\ h.to \in Nat /\ h.to <= current[k].at
  BY DEF Sound, HistoryRow
<1>3. Numbered(history, k, current[k].version) = {}
  BY SMT, <1>1, <1>2 DEF Row, Numbered
<1>4. ASSUME NEW t \in Int, current[k].at <= t
      PROVE  Covering(history, k, t) = {}
  BY SMT, <1>1, <1>2, <1>4 DEF Row, Covering
<1> QED
  BY <1>3, <1>4, LiveLookup

\* Nothing answers for an instant before the first version.
LEMMA NothingFound ==
    ASSUME NEW current, NEW history, NEW k, NEW t,
           Covering(history, k, t) = {},
           ~(current[k] # NoRow /\ current[k].at <= t)
    PROVE  GetAtTime(current, history, k, t) = {}
BY LiveLookup

\* Every version of a key is found by its number and by its instant.
LEMMA SoundAddressing ==
    ASSUME NEW current, NEW history, Sound(current, history), NEW k \in Key,
           NEW n \in 1..Version(current[k])
    PROVE  \E e \in GetAtVersion(current, history, k, n) :
              /\ GetAtVersion(current, history, k, n) = {e}
              /\ GetAtTime(current, history, k, e.at) = {e}
<1>1. current[k] # NoRow /\ current[k].version \in Nat /\ current[k].at \in Nat
      /\ Version(current[k]) = current[k].version
  BY SMT DEF Sound, Version, Row
<1>2. CASE n = current[k].version
  <2>1. GetAtVersion(current, history, k, n) = {LiveEntry(current[k])}
    BY <1>1, <1>2, LiveFound
  <2>2. GetAtTime(current, history, k, current[k].at) = {LiveEntry(current[k])}
    BY SMT, <1>1, LiveFound
  <2>3. LiveEntry(current[k]).at = current[k].at
    BY EntryFields
  <2> QED
    BY <2>1, <2>2, <2>3
<1>3. CASE n # current[k].version
  <2>1. n \in 1..(Version(current[k]) - 1)
    BY SMT, <1>1, <1>3
  <2>2. PICK h \in history : h.key = k /\ h.version = n
    BY <2>1 DEF Sound
  <2>3. h.from \in Int /\ h.from <= h.from /\ h.from < h.to
    BY SMT DEF Sound, HistoryRow
  <2>4. GetAtVersion(current, history, k, n) = {OldEntry(h)}
    BY <2>2, OldFound
  <2>5. GetAtTime(current, history, k, h.from) = {OldEntry(h)}
    BY SMT, <2>2, <2>3, OldFound
  <2>6. OldEntry(h).at = h.from
    BY EntryFields
  <2> QED
    BY <2>4, <2>5, <2>6
<1> QED
  BY <1>2, <1>3

-----------------------------------------------------------------------------
(* The next versions *)

\* A row that closes the live row of its key.
LEMMA ClosedRowFields ==
    ASSUME NEW current, NEW history, Sound(current, history), NEW fresh, Succeeds(fresh, current),
           NEW k \in Replaced(fresh, current)
    PROVE  /\ ClosedRow(fresh, current, k) \in ClosedRows(fresh, current)
           /\ ClosedRow(fresh, current, k) \in HistoryRow
           /\ ClosedRow(fresh, current, k).key = k
           /\ ClosedRow(fresh, current, k).version = current[k].version
           /\ ClosedRow(fresh, current, k).from = current[k].at
           /\ ClosedRow(fresh, current, k).to = fresh[k].at
           /\ current[k].at < fresh[k].at
           /\ fresh[k].version = current[k].version + 1
           /\ OldEntry(ClosedRow(fresh, current, k)) = LiveEntry(current[k])
           /\ current[k] \in Row /\ fresh[k] \in Row /\ current[k].version > 0
<1>1. current[k] \in Row /\ fresh[k] \in Row /\ current[k] # NoRow /\ fresh[k] # NoRow /\ k \in Key
  BY SMT DEF Sound, Succeeds, Replaced
<1>2. /\ current[k].at < fresh[k].at /\ fresh[k].version = current[k].version + 1
      /\ current[k].version > 0
  BY <1>1 DEF Sound, Succeeds, Version
<1>3. ClosedRow(fresh, current, k) \in HistoryRow
  BY <1>1 DEF Row, HistoryRow, ClosedRow
<1>4. OldEntry(ClosedRow(fresh, current, k)) = LiveEntry(current[k])
  BY DEF OldEntry, LiveEntry, Entry, ClosedRow
<1>5. ClosedRow(fresh, current, k) \in ClosedRows(fresh, current)
  BY DEF ClosedRows
<1> QED
  BY <1>1, <1>2, <1>3, <1>4, <1>5 DEF ClosedRow

\* Putting the next versions in place, with the rows that close the old ones, keeps
\* the tables sound.
LEMMA SoundExtends ==
    ASSUME NEW current, NEW history, Sound(current, history), NEW fresh, Succeeds(fresh, current)
    PROVE  Sound(Over(fresh, current), history \cup ClosedRows(fresh, current))
<1> DEFINE after == Over(fresh, current)
           rows == history \cup ClosedRows(fresh, current)
<1>1. \A k \in Key : after[k] = IF fresh[k] # NoRow THEN fresh[k] ELSE current[k]
  BY DEF Over
<1>2. \A k \in Key : current[k] # NoRow =>
         /\ current[k] \in Row /\ after[k] # NoRow /\ after[k] \in Row
         /\ current[k].version <= after[k].version /\ current[k].at <= after[k].at
  <2> SUFFICES ASSUME NEW k \in Key, current[k] # NoRow
               PROVE  /\ current[k] \in Row /\ after[k] # NoRow /\ after[k] \in Row
                      /\ current[k].version <= after[k].version /\ current[k].at <= after[k].at
    OBVIOUS
  <2>1. current[k] \in Row /\ (fresh[k] # NoRow => fresh[k] \in Row)
    BY SMT DEF Sound, Succeeds
  <2>2. fresh[k] # NoRow => /\ fresh[k].version = current[k].version + 1
                            /\ current[k].at < fresh[k].at
    BY DEF Succeeds, Version
  <2> QED
    BY SMT, <1>1, <2>1, <2>2 DEF Row
<1>3. after \in [Key -> Row \cup {NoRow}]
  BY DEF Over, Sound, Succeeds
<1>4. \A k \in Key : after[k] # NoRow => after[k].version > 0
  <2> SUFFICES ASSUME NEW k \in Key, after[k] # NoRow PROVE after[k].version > 0
    OBVIOUS
  <2>1. fresh[k] # NoRow => fresh[k].version = Version(current[k]) + 1 /\ Version(current[k]) \in Nat
    BY SMT DEF Sound, Succeeds, Version, Row
  <2> QED
    BY SMT, <1>1, <2>1 DEF Sound
<1>5. ASSUME NEW h \in history
      PROVE  /\ h \in HistoryRow /\ h.version > 0 /\ h.from < h.to
             /\ after[h.key] # NoRow /\ h.version < after[h.key].version /\ h.to <= after[h.key].at
  <2>1. /\ h \in HistoryRow /\ h.version > 0 /\ h.from < h.to /\ current[h.key] # NoRow
        /\ h.version < current[h.key].version /\ h.to <= current[h.key].at
    BY DEF Sound
  <2>2. h.key \in Key /\ h.version \in Nat /\ h.to \in Nat
    BY <2>1 DEF HistoryRow
  <2> QED
    BY SMT, <1>2, <2>1, <2>2 DEF Row
<1>6. ASSUME NEW h \in ClosedRows(fresh, current)
      PROVE  /\ h.key \in Replaced(fresh, current) /\ h = ClosedRow(fresh, current, h.key)
             /\ h \in HistoryRow /\ h.version > 0 /\ h.from < h.to
             /\ after[h.key] # NoRow /\ h.version < after[h.key].version /\ h.to <= after[h.key].at
  <2>1. PICK k \in Replaced(fresh, current) : h = ClosedRow(fresh, current, k)
    BY <1>6 DEF ClosedRows
  <2>2. k \in Key /\ after[k] = fresh[k] /\ fresh[k] # NoRow
    BY <1>1 DEF Replaced
  <2>3. /\ h \in HistoryRow /\ h.key = k /\ h.version = current[k].version
        /\ h.from = current[k].at /\ h.to = fresh[k].at /\ current[k].at < fresh[k].at
        /\ fresh[k].version = current[k].version + 1 /\ current[k].version > 0
        /\ current[k] \in Row /\ fresh[k] \in Row
    BY SMT, <2>1, ClosedRowFields
  <2> QED
    BY SMT, <2>1, <2>2, <2>3 DEF Row
<1>7. ASSUME NEW g \in history, NEW h \in ClosedRows(fresh, current), g.key = h.key
      PROVE  g.version < h.version /\ g.to <= h.from
  <2>1. h.version = current[g.key].version /\ h.from = current[g.key].at
    BY SMT, <1>6, <1>7, ClosedRowFields
  <2> QED
    BY <2>1 DEF Sound
<1>8. ASSUME NEW g \in rows, NEW h \in rows, g.key = h.key
      PROVE  g = h \/ (g.version < h.version /\ g.to <= h.from)
                   \/ (h.version < g.version /\ h.to <= g.from)
  <2>1. CASE g \in history /\ h \in history
    BY <1>8, <2>1 DEF Sound
  <2>2. CASE g \in ClosedRows(fresh, current) /\ h \in ClosedRows(fresh, current)
    <3>1. g = ClosedRow(fresh, current, g.key) /\ h = ClosedRow(fresh, current, h.key)
      BY <1>6, <2>2
    <3> QED
      BY <1>8, <3>1
  <2> QED
    BY <1>7, <1>8, <2>1, <2>2
<1>9. ASSUME NEW k \in Key, NEW n \in 1..(Version(after[k]) - 1)
      PROVE  \E h \in rows : h.key = k /\ h.version = n
  <2>1. CASE n \in 1..(Version(current[k]) - 1)
    BY SMT, <2>1 DEF Sound
  <2>2. CASE n \notin 1..(Version(current[k]) - 1)
    <3>1. fresh[k] # NoRow
      BY <1>1, <1>9, <2>2
    <3>2. after[k] = fresh[k] /\ fresh[k].version = Version(current[k]) + 1
      BY <1>1, <3>1 DEF Succeeds
    <3>3. Version(current[k]) \in Nat /\ Version(after[k]) = Version(current[k]) + 1
      BY SMT, <3>1, <3>2 DEF Sound, Version, Row
    <3>4. n = Version(current[k]) /\ Version(current[k]) # 0
      BY SMT, <1>9, <2>2, <3>3
    <3>5. current[k] # NoRow /\ n = current[k].version
      BY <3>4 DEF Version
    <3>6. k \in Replaced(fresh, current)
      BY <3>1, <3>5 DEF Replaced
    <3>7. /\ ClosedRow(fresh, current, k) \in rows
          /\ ClosedRow(fresh, current, k).key = k /\ ClosedRow(fresh, current, k).version = n
      BY SMT, <3>5, <3>6, ClosedRowFields
    <3> QED
      BY <3>7
  <2> QED
    BY <2>1, <2>2
<1> QED
  BY <1>3, <1>4, <1>5, <1>6, <1>8, <1>9 DEF Sound

\* A key that is not written keeps its rows.
LEMMA OtherKeys ==
    ASSUME NEW current, NEW history, NEW fresh, NEW k \in Key, fresh[k] = NoRow
    PROVE  /\ Over(fresh, current)[k] = current[k]
           /\ \A h \in ClosedRows(fresh, current) : h.key # k
BY SMT DEF Over, ClosedRows, ClosedRow, Replaced

\* What getAt answers for an instant before the next versions stays the same.
LEMMA PastKept ==
    ASSUME NEW current, NEW history, Sound(current, history), NEW fresh, Succeeds(fresh, current),
           NEW k \in Key, NEW t \in Int, fresh[k] # NoRow => t < fresh[k].at
    PROVE  GetAtTime(Over(fresh, current), history \cup ClosedRows(fresh, current), k, t)
             = GetAtTime(current, history, k, t)
<1> DEFINE after == Over(fresh, current)
           rows == history \cup ClosedRows(fresh, current)
<1>1. Sound(after, rows)
  BY SoundExtends
<1>2. after[k] = IF fresh[k] # NoRow THEN fresh[k] ELSE current[k]
  BY DEF Over
<1>3. CASE Covering(history, k, t) # {}
  <2>1. PICK h \in history : h.key = k /\ h.from <= t /\ t < h.to
    BY <1>3 DEF Covering
  <2>2. GetAtTime(current, history, k, t) = {OldEntry(h)}
    BY SMT, <2>1, OldFound
  <2>3. GetAtTime(after, rows, k, t) = {OldEntry(h)}
    BY SMT, <1>1, <2>1, OldFound
  <2> QED
    BY <2>2, <2>3
<1>4. CASE Covering(history, k, t) = {} /\ current[k] # NoRow /\ current[k].at <= t
  <2>1. GetAtTime(current, history, k, t) = {LiveEntry(current[k])}
    BY <1>4, LiveFound
  <2>2. CASE fresh[k] = NoRow
    BY SMT, <1>1, <1>2, <1>4, <2>1, <2>2, LiveFound
  <2>3. CASE fresh[k] # NoRow
    <3> DEFINE h == ClosedRow(fresh, current, k)
    <3>1. k \in Replaced(fresh, current)
      BY <1>4, <2>3 DEF Replaced
    <3>2. h \in rows /\ h.key = k /\ h.from <= t /\ t < h.to /\ OldEntry(h) = LiveEntry(current[k])
      BY SMT, <1>4, <2>3, <3>1, ClosedRowFields
    <3> HIDE DEF h, after, rows
    <3>3. GetAtTime(after, rows, k, t) = {OldEntry(h)}
      BY SMT, <1>1, <3>2, OldFound
    <3> QED
      BY <2>1, <3>2, <3>3 DEF after, rows
  <2> QED
    BY <2>2, <2>3
<1>5. CASE Covering(history, k, t) = {} /\ ~(current[k] # NoRow /\ current[k].at <= t)
  <2>1. GetAtTime(current, history, k, t) = {}
    BY <1>5, NothingFound
  <2>2. ASSUME NEW h \in ClosedRows(fresh, current), h.key = k PROVE ~(h.from <= t)
    <3>1. PICK q \in Replaced(fresh, current) : h = ClosedRow(fresh, current, q)
      BY <2>2 DEF ClosedRows
    <3>2. q = k /\ h.from = current[k].at /\ current[k] # NoRow
      BY SMT, <2>2, <3>1, ClosedRowFields DEF Replaced
    <3> QED
      BY <1>5, <3>2
  <2>3. Covering(rows, k, t) = {}
    BY <1>5, <2>2 DEF Covering
  <2>4. ~(after[k] # NoRow /\ after[k].at <= t)
    <3>1. fresh[k] # NoRow => fresh[k].at \in Nat
      BY DEF Succeeds, Row
    <3> QED
      BY SMT, <1>2, <1>5, <3>1
  <2> QED
    BY <2>1, <2>3, <2>4, NothingFound
<1> QED
  BY <1>3, <1>4, <1>5

\* The versions there were are found as before, and the next one is the value put.
LEMMA VersionsKept ==
    ASSUME NEW current, NEW history, Sound(current, history), NEW fresh, Succeeds(fresh, current),
           NEW k \in Key, NEW n \in 1..Version(current[k])
    PROVE  GetAtVersion(Over(fresh, current), history \cup ClosedRows(fresh, current), k, n)
             = GetAtVersion(current, history, k, n)
<1> DEFINE after == Over(fresh, current)
           rows == history \cup ClosedRows(fresh, current)
<1>1. Sound(after, rows)
  BY SoundExtends
<1>2. current[k] # NoRow /\ current[k].version \in Nat /\ Version(current[k]) = current[k].version
  BY SMT DEF Sound, Version, Row
<1>3. CASE n # current[k].version
  <2>1. n \in 1..(Version(current[k]) - 1)
    BY SMT, <1>2, <1>3
  <2>2. PICK h \in history : h.key = k /\ h.version = n
    BY <2>1 DEF Sound
  <2>3. GetAtVersion(current, history, k, n) = {OldEntry(h)}
    BY <2>2, OldFound
  <2>4. GetAtVersion(after, rows, k, n) = {OldEntry(h)}
    BY <1>1, <2>2, OldFound
  <2> QED
    BY <2>3, <2>4
<1>4. CASE n = current[k].version
  <2>1. GetAtVersion(current, history, k, n) = {LiveEntry(current[k])}
    BY <1>2, <1>4, LiveFound
  <2>2. CASE fresh[k] = NoRow
    <3>1. after[k] = current[k]
      BY <2>2, OtherKeys
    <3> QED
      BY SMT, <1>1, <1>2, <1>4, <2>1, <3>1, LiveFound
  <2>3. CASE fresh[k] # NoRow
    <3> DEFINE h == ClosedRow(fresh, current, k)
    <3>1. k \in Replaced(fresh, current)
      BY <1>2, <2>3 DEF Replaced
    <3>2. h \in rows /\ h.key = k /\ h.version = n /\ OldEntry(h) = LiveEntry(current[k])
      BY SMT, <1>4, <3>1, ClosedRowFields
    <3> HIDE DEF h, after, rows
    <3>3. GetAtVersion(after, rows, k, n) = {OldEntry(h)}
      BY <1>1, <3>2, OldFound
    <3> QED
      BY <2>1, <3>2, <3>3 DEF after, rows
  <2> QED
    BY <2>2, <2>3
<1> QED
  BY <1>3, <1>4

-----------------------------------------------------------------------------
(* The invariant *)

Put == [key : Key, value : Value, expected : Expected, stamp : Nat]

Shape ==
    /\ clock \in Nat
    /\ DOMAIN pc = Session /\ DOMAIN iso = Session /\ DOMAIN snap = Session
    /\ DOMAIN newCurrent = Session /\ DOMAIN newHistory = Session /\ DOMAIN req = Session
    /\ \A s \in Session : pc[s] = "put" => req[s] \in Put

\* What a transaction sees is sound, and what it wrote comes next, on rows that are its own.
Extends(s) ==
    /\ Sound(Base(s).current, Base(s).history)
    /\ Succeeds(newCurrent[s], kv_current)
    /\ newHistory[s] = ClosedRows(newCurrent[s], kv_current)
    /\ \A k \in Key : newCurrent[s][k] # NoRow => Base(s).current[k] = kv_current[k] /\ Free(s, k)

KvInv ==
    /\ Shape
    /\ Sound(kv_current, kv_history)
    /\ \A s \in Session : Extends(s)

\* Empty tables, and transactions that wrote nothing.
LEMMA EmptySound == Sound(NoRows, {}) /\ Succeeds(NoRows, NoRows) /\ NoRows \in [Key -> Row \cup {NoRow}]
BY SMT DEF Sound, Succeeds, NoRows, Version

\* A transaction that wrote nothing closes nothing.
LEMMA NothingWritten ==
    ASSUME NEW current
    PROVE  Succeeds(NoRows, current) /\ ClosedRows(NoRows, current) = {}
BY DEF Succeeds, NoRows, ClosedRows, Replaced

\* The first state.
LEMMA InitKv == Init => KvInv
<1> SUFFICES ASSUME Init PROVE KvInv
  OBVIOUS
<1>1. Shape
  BY DEF Init, Shape
<1>2. Sound(kv_current, kv_history)
  BY EmptySound DEF Init
<1>3. ASSUME NEW s \in Session PROVE Extends(s)
  <2>1. newCurrent[s] = NoRows /\ newHistory[s] = {} /\ Base(s) = [current |-> kv_current, history |-> kv_history]
    BY DEF Init, Base
  <2>2. Sound(Base(s).current, Base(s).history)
    BY SMT, <1>2, <2>1
  <2> QED
    BY <2>1, <2>2, NothingWritten DEF Extends, NoRows
<1> QED
  BY <1>1, <1>2, <1>3 DEF KvInv

\* What a transaction sees are sound tables too.
LEMMA ViewSound ==
    ASSUME KvInv, NEW s \in Session
    PROVE  Sound(Current(s), History(s))
<1> DEFINE base == Base(s).current
<1>1. Extends(s)
  BY DEF KvInv
<1>2. Succeeds(newCurrent[s], base)
  BY <1>1 DEF Extends, Succeeds
<1>3. ClosedRows(newCurrent[s], base) = newHistory[s]
  <2>1. Replaced(newCurrent[s], base) = Replaced(newCurrent[s], kv_current)
    BY <1>1 DEF Extends, Replaced
  <2>2. \A k \in Replaced(newCurrent[s], kv_current) :
           ClosedRow(newCurrent[s], base, k) = ClosedRow(newCurrent[s], kv_current, k)
    BY <1>1 DEF Extends, Replaced, ClosedRow
  <2>3. ClosedRows(newCurrent[s], base) = ClosedRows(newCurrent[s], kv_current)
    BY <2>1, <2>2 DEF ClosedRows
  <2> QED
    BY <1>1, <2>3 DEF Extends
<1>4. Current(s) = Over(newCurrent[s], base)
  BY DEF Current, Over
<1>5. Sound(Over(newCurrent[s], base), Base(s).history \cup ClosedRows(newCurrent[s], base))
  BY <1>1, <1>2, SoundExtends DEF Extends
<1> QED
  BY <1>3, <1>4, <1>5 DEF History

-----------------------------------------------------------------------------
(* The steps *)

\* A put writes the row after the committed one, which it has to itself and can see.
Puts(s, k, row) ==
    /\ newCurrent[s][k] = NoRow /\ Free(s, k) /\ Base(s).current[k] = kv_current[k]
    /\ row.version = Version(kv_current[k]) + 1
    /\ kv_current[k] # NoRow => kv_current[k].at < row.at
    /\ row.at \in {req[s].stamp, clock}
    /\ newCurrent' = [newCurrent EXCEPT ![s][k] = row]
    /\ newHistory' = [newHistory EXCEPT ![s] = @ \cup
         IF kv_current[k] = NoRow THEN {}
         ELSE {[key |-> k, value |-> kv_current[k].value, version |-> kv_current[k].version,
                from |-> kv_current[k].at, to |-> row.at]}]

\* The statements of put, by their outcome.
LEMMA PutEffect ==
    ASSUME KvInv, NEW s \in Session, PutExec(s)
    PROVE  UNCHANGED <<newCurrent, newHistory>> \/ \E k \in Key, row \in Row : Puts(s, k, row)
<1> DEFINE k == req[s].key
           row(n, at) == [value |-> req[s].value, version |-> n, at |-> at]
<1>1. /\ pc[s] = "put" /\ k \in Key /\ req[s].value \in Value /\ req[s].stamp \in Nat
      /\ clock \in Nat /\ Sound(kv_current, kv_history)
  BY DEF KvInv, Shape, PutExec, Put
<1>2. CASE UNCHANGED <<newCurrent, newHistory>>
  BY <1>2
<1>3. ASSUME ~Unserializable(s, k), newCurrent[s][k] = NoRow
      PROVE  Base(s).current[k] = kv_current[k] /\ Latest(s, k) = kv_current[k]
  BY <1>1, <1>3 DEF Unserializable, Latest, Current
<1>4. CASE Free(s, k) /\ ~Unserializable(s, k) /\ Latest(s, k) = NoRow /\ Insert(s)
  <2>1. newCurrent[s][k] = NoRow /\ kv_current[k] = NoRow
    BY <1>4 DEF Latest
  <2>2. /\ newCurrent' = [newCurrent EXCEPT ![s][k] = row(1, req[s].stamp)]
        /\ newHistory' = [newHistory EXCEPT ![s] = @ \cup {}]
    BY <1>4 DEF Insert, Write
  <2>3. row(1, req[s].stamp) \in Row
    BY <1>1 DEF Row
  <2>4. Version(kv_current[k]) = 0
    BY <2>1 DEF Version
  <2>5. Puts(s, k, row(1, req[s].stamp))
    BY SMT, <1>1, <1>3, <1>4, <2>1, <2>2, <2>4 DEF Puts
  <2> QED
    BY <1>1, <2>3, <2>5
<1>5. CASE /\ Free(s, k) /\ ~Unserializable(s, k) /\ Latest(s, k) # NoRow
           /\ ~Rejected(s, Latest(s, k))
           /\ Write(s, [value |-> req[s].value, version |-> Latest(s, k).version + 1, at |-> clock],
                    {Closed(s, Latest(s, k))})
  <2>1. newCurrent[s][k] = NoRow
    BY <1>5 DEF Rejected
  <2>2. Latest(s, k) = kv_current[k] /\ Base(s).current[k] = kv_current[k] /\ kv_current[k] # NoRow
    BY <1>3, <1>5, <2>1
  <2>3. kv_current[k] \in Row
    BY <1>1, <2>2 DEF Sound
  <2>4. kv_current[k].at < clock
    BY SMT, <1>1, <1>5, <2>2, <2>3 DEF Rejected, Row
  <2>5. row(kv_current[k].version + 1, clock) \in Row
    BY SMT, <1>1, <2>3 DEF Row
  <2>6. /\ newCurrent' = [newCurrent EXCEPT ![s][k] = row(kv_current[k].version + 1, clock)]
        /\ newHistory' = [newHistory EXCEPT ![s] = @ \cup {Closed(s, kv_current[k])}]
    BY <1>5, <2>2 DEF Write
  <2>7. Version(kv_current[k]) = kv_current[k].version
    BY <2>2 DEF Version
  <2>8. Puts(s, k, row(kv_current[k].version + 1, clock))
    <3> DEFINE new == row(kv_current[k].version + 1, clock)
    <3>1. new.version = Version(kv_current[k]) + 1 /\ new.at = clock
      BY <2>7
    <3>2. Closed(s, kv_current[k]) = [key |-> k, value |-> kv_current[k].value,
             version |-> kv_current[k].version, from |-> kv_current[k].at, to |-> new.at]
      BY DEF Closed
    <3> HIDE DEF new
    <3> QED
      BY <1>5, <2>1, <2>2, <2>4, <2>6, <3>1, <3>2 DEF Puts, new
  <2> QED
    BY <1>1, <2>5, <2>8
<1>6. ASSUME Free(s, k), ~Unserializable(s, k), Latest(s, k) # NoRow, Update(s, Latest(s, k))
      PROVE  \/ UNCHANGED <<newCurrent, newHistory>>
             \/ /\ ~Rejected(s, Latest(s, k))
                /\ Write(s, [value |-> req[s].value, version |-> Latest(s, k).version + 1, at |-> clock],
                         {Closed(s, Latest(s, k))})
  BY <1>6 DEF Update, Fault
<1>7. ASSUME PutGuarded(s), ~UNCHANGED <<newCurrent, newHistory>>
      PROVE  Free(s, k) /\ ~Unserializable(s, k) /\ Latest(s, k) # NoRow /\ Update(s, Latest(s, k))
  <2>1. /\ req[s].expected > 0 /\ Version(Current(s)[k]) = req[s].expected
        /\ Free(s, k) /\ ~Unserializable(s, k) /\ Update(s, Latest(s, k))
    BY <1>7 DEF PutGuarded, NoRowsAffected, Fault
  <2>2. Latest(s, k) = Current(s)[k]
    BY <2>1 DEF Unserializable
  <2>3. Current(s)[k] # NoRow
    BY SMT, <2>1 DEF Version
  <2> QED
    BY <2>1, <2>2, <2>3
<1>8. CASE PutUpsert(s)
  BY <1>2, <1>4, <1>5, <1>6, <1>8 DEF PutUpsert, Fault
<1>9. CASE PutCreate(s)
  BY <1>2, <1>4, <1>9 DEF PutCreate, Fault, NoRowsAffected
<1>10. CASE PutGuarded(s)
  BY <1>2, <1>5, <1>6, <1>7, <1>10
<1> QED
  BY <1>8, <1>9, <1>10 DEF PutExec

\* A step that changes no table and nothing a transaction wrote or sees.
LEMMA QuietKv ==
    ASSUME KvInv, Shape', UNCHANGED <<kv_current, kv_history, newCurrent, newHistory>>,
           \A s \in Session : Base(s)' \in {Base(s), [current |-> kv_current, history |-> kv_history]}
    PROVE  KvInv'
<1>1. Sound(kv_current, kv_history)'
  BY SMT DEF KvInv, Sound, HistoryRow, Row, Version
<1>2. ASSUME NEW s \in Session PROVE Extends(s)'
  <2>1. Extends(s) /\ Sound(kv_current, kv_history)
    BY DEF KvInv
  <2>2. Sound(Base(s)'.current, Base(s)'.history)
    BY SMT, <2>1 DEF Extends
  <2>3. \A k \in Key : newCurrent[s][k] # NoRow =>
           Base(s)'.current[k] = kv_current[k] /\ Free(s, k)
    BY SMT, <2>1 DEF Extends
  <2> QED
    BY <2>1, <2>2, <2>3 DEF Extends, Free
<1> QED
  BY <1>1, <1>2 DEF KvInv

\* The row a put writes, and the row its trigger inserts, come next.
LEMMA PutExtends ==
    ASSUME KvInv, NEW s \in Session, NEW k \in Key, NEW row \in Row, Puts(s, k, row), Shape',
           UNCHANGED <<kv_current, kv_history, iso, snap>>
    PROVE  KvInv'
<1>1. Shape /\ Sound(kv_current, kv_history) /\ Extends(s)
  BY DEF KvInv
<1>2. Succeeds(newCurrent[s], kv_current) /\ row # NoRow
  BY <1>1, KvConstants DEF Extends, Row
<1>3. newCurrent'[s] = [newCurrent[s] EXCEPT ![k] = row]
  BY <1>1 DEF Puts, Shape
<1>4. \A o \in Session \ {s} : newCurrent'[o] = newCurrent[o] /\ newHistory'[o] = newHistory[o]
  BY <1>1 DEF Puts, Shape
<1>5. \A o \in Session : Base(o)' = Base(o)
  BY DEF Base
<1>6. Succeeds(newCurrent'[s], kv_current)
  BY SMT, <1>2, <1>3 DEF Puts, Succeeds
<1>7. newHistory'[s] = ClosedRows(newCurrent'[s], kv_current)
  <2>1. \A q \in Key : newCurrent'[s][q] = IF q = k THEN row ELSE newCurrent[s][q]
    BY <1>2, <1>3 DEF Succeeds
  <2>2. newHistory[s] = ClosedRows(newCurrent[s], kv_current) /\ newCurrent[s][k] = NoRow
    BY <1>1 DEF Extends, Puts
  <2>3. \A q \in Replaced(newCurrent[s], kv_current) :
           ClosedRow(newCurrent'[s], kv_current, q) = ClosedRow(newCurrent[s], kv_current, q)
    BY <2>1, <2>2 DEF Replaced, ClosedRow
  <2>4. CASE kv_current[k] = NoRow
    <3>1. newHistory'[s] = newHistory[s]
      BY <1>1, <2>4 DEF Puts, Shape
    <3>2. Replaced(newCurrent'[s], kv_current) = Replaced(newCurrent[s], kv_current)
      BY <2>1, <2>2, <2>4 DEF Replaced
    <3> QED
      BY <2>2, <2>3, <3>1, <3>2 DEF ClosedRows
  <2>5. CASE kv_current[k] # NoRow
    <3>1. newHistory'[s] = newHistory[s] \cup {ClosedRow(newCurrent'[s], kv_current, k)}
      BY <1>1, <2>1, <2>5 DEF Puts, Shape, ClosedRow
    <3>2. Replaced(newCurrent'[s], kv_current) = Replaced(newCurrent[s], kv_current) \cup {k}
      BY <1>2, <2>1, <2>2, <2>5 DEF Replaced
    <3>3. {ClosedRow(newCurrent'[s], kv_current, q) : q \in Replaced(newCurrent[s], kv_current)}
             = newHistory[s]
      BY <2>2, <2>3 DEF ClosedRows
    <3> QED
      BY <3>1, <3>2, <3>3 DEF ClosedRows
  <2> QED
    BY <2>4, <2>5
<1>8. \A q \in Key : newCurrent'[s][q] # NoRow => Base(s).current[q] = kv_current[q] /\ Free(s, q)'
  <2> SUFFICES ASSUME NEW q \in Key, newCurrent'[s][q] # NoRow
               PROVE  Base(s).current[q] = kv_current[q] /\ Free(s, q)'
    OBVIOUS
  <2>1. newCurrent[s][q] # NoRow \/ q = k
    BY <1>2, <1>3 DEF Succeeds
  <2>2. Base(s).current[q] = kv_current[q] /\ Free(s, q)
    BY <1>1, <2>1 DEF Extends, Puts
  <2> QED
    BY <1>4, <2>2 DEF Free
<1>9. Extends(s)'
  BY <1>1, <1>5, <1>6, <1>7, <1>8 DEF Extends
<1>10. ASSUME NEW o \in Session \ {s} PROVE Extends(o)'
  <2>1. Extends(o)
    BY DEF KvInv
  <2>2. \A q \in Key : newCurrent[o][q] # NoRow => Free(o, q)'
    <3> SUFFICES ASSUME NEW q \in Key, newCurrent[o][q] # NoRow PROVE Free(o, q)'
      OBVIOUS
    <3>1. Free(o, q) /\ q # k
      BY <2>1 DEF Extends, Puts, Free
    <3>2. newCurrent'[s][q] = newCurrent[s][q]
      BY <1>2, <1>3, <3>1 DEF Succeeds
    <3> QED
      BY <1>4, <3>1, <3>2 DEF Free
  <2> QED
    BY <1>4, <1>5, <2>1, <2>2 DEF Extends
<1>11. Sound(kv_current, kv_history)'
  BY <1>1
<1> QED
  BY <1>9, <1>10, <1>11 DEF KvInv

\* A row one transaction has to itself stays so when another ends.
LEMMA StillFree ==
    ASSUME NEW s \in Session, NEW o \in Session \ {s}, NEW k \in Key, Free(o, k),
           newCurrent'[s] = NoRows, \A x \in Session \ {s} : newCurrent'[x] = newCurrent[x]
    PROVE  Free(o, k)'
<1> SUFFICES ASSUME NEW x \in Session \ {o} PROVE newCurrent'[x][k] = NoRow
  BY DEF Free
<1>1. CASE x = s
  BY <1>1 DEF NoRows
<1>2. CASE x # s
  BY <1>2 DEF Free
<1> QED
  BY <1>1, <1>2

\* COMMIT: no other transaction has written the rows that change.
LEMMA CommitKv ==
    ASSUME KvInv, NEW s \in Session, Commit(s)
    PROVE  KvInv'
<1>1. Shape /\ Sound(kv_current, kv_history) /\ Extends(s)
  BY DEF KvInv
<1>2. /\ kv_current' = Over(newCurrent[s], kv_current)
      /\ kv_history' = kv_history \cup ClosedRows(newCurrent[s], kv_current)
  BY <1>1 DEF Commit, Latest, Over, Extends
<1>3. Sound(kv_current', kv_history')
  BY <1>1, <1>2, SoundExtends DEF Extends
<1>4. /\ Shape' /\ newCurrent'[s] = NoRows /\ newHistory'[s] = {} /\ iso'[s] = "read committed"
      /\ \A o \in Session \ {s} : /\ newCurrent'[o] = newCurrent[o] /\ newHistory'[o] = newHistory[o]
                                   /\ iso'[o] = iso[o] /\ snap'[o] = snap[o]
  BY <1>1 DEF Commit, EndTransaction, Goto, Shape
<1>5. Extends(s)'
  <2>1. Base(s)' = [current |-> kv_current', history |-> kv_history']
    BY <1>4 DEF Base
  <2>2. Sound(Base(s)'.current, Base(s)'.history)
    BY SMT, <1>3, <2>1
  <2> QED
    BY <1>4, <2>2, NothingWritten DEF Extends, NoRows
<1>6. ASSUME NEW o \in Session \ {s} PROVE Extends(o)'
  <2>1. Extends(o)
    BY DEF KvInv
  <2>0. \A k \in Key : newCurrent[o][k] # NoRow => Free(o, k) /\ Base(o).current[k] = kv_current[k]
    BY <2>1 DEF Extends
  <2>2. \A k \in Key : newCurrent[o][k] # NoRow => kv_current'[k] = kv_current[k]
    BY <1>2, <2>0 DEF Free, Over
  <2>7. \A k \in Key : newCurrent'[o][k] # NoRow => Free(o, k)'
    BY <1>4, <2>0, StillFree
  <2>3. Succeeds(newCurrent'[o], kv_current')
    BY <1>4, <2>1, <2>2 DEF Extends, Succeeds
  <2>4. ClosedRows(newCurrent[o], kv_current') = ClosedRows(newCurrent[o], kv_current)
    <3>1. Replaced(newCurrent[o], kv_current') = Replaced(newCurrent[o], kv_current)
      BY <2>2 DEF Replaced
    <3>2. \A k \in Replaced(newCurrent[o], kv_current) :
             ClosedRow(newCurrent[o], kv_current', k) = ClosedRow(newCurrent[o], kv_current, k)
      BY <2>2 DEF Replaced, ClosedRow
    <3> QED
      BY <3>1, <3>2 DEF ClosedRows
  <2>5. CASE iso[o] = "repeatable read"
    <3>1. Base(o)' = Base(o)
      BY <1>4, <2>5 DEF Base
    <3>2. \A k \in Key : newCurrent'[o][k] # NoRow => Base(o)'.current[k] = kv_current'[k] /\ Free(o, k)'
      BY <1>4, <2>0, <2>2, <2>7, <3>1
    <3> QED
      BY <1>4, <2>1, <2>3, <2>4, <3>1, <3>2 DEF Extends
  <2>6. CASE iso[o] # "repeatable read"
    <3>1. Base(o)' = [current |-> kv_current', history |-> kv_history']
      BY <1>4, <2>6 DEF Base
    <3>3. Sound(Base(o)'.current, Base(o)'.history) /\ Base(o)'.current = kv_current'
      BY SMT, <1>3, <3>1
    <3> QED
      BY <1>4, <2>1, <2>3, <2>4, <2>7, <3>3 DEF Extends
  <2> QED
    BY <2>5, <2>6
<1> QED
  BY <1>3, <1>4, <1>5, <1>6 DEF KvInv

\* ROLLBACK.
LEMMA RollbackKv ==
    ASSUME KvInv, NEW s \in Session, Rollback(s)
    PROVE  KvInv'
<1>1. Shape /\ Sound(kv_current, kv_history)
  BY DEF KvInv
<1>2. /\ Shape' /\ newCurrent'[s] = NoRows /\ newHistory'[s] = {} /\ iso'[s] = "read committed"
      /\ UNCHANGED <<kv_current, kv_history>>
      /\ \A o \in Session \ {s} : /\ newCurrent'[o] = newCurrent[o] /\ newHistory'[o] = newHistory[o]
                                   /\ iso'[o] = iso[o] /\ snap'[o] = snap[o]
  BY <1>1 DEF Rollback, EndTransaction, Goto, Shape
<1>3. Extends(s)'
  <2>1. Base(s)' = [current |-> kv_current, history |-> kv_history]
    BY <1>2 DEF Base
  <2>2. Sound(Base(s)'.current, Base(s)'.history)
    BY SMT, <1>1, <2>1
  <2> QED
    BY <1>2, <2>2, NothingWritten DEF Extends, NoRows
<1>4. ASSUME NEW o \in Session \ {s} PROVE Extends(o)'
  <2>1. Extends(o) /\ Base(o)' = Base(o)
    BY <1>2 DEF KvInv, Base
  <2>2. \A k \in Key : newCurrent[o][k] # NoRow => Free(o, k)
    BY <2>1 DEF Extends
  <2>3. \A k \in Key : newCurrent[o][k] # NoRow => Free(o, k)'
    BY <1>2, <2>2, StillFree
  <2> QED
    BY <1>2, <2>1, <2>3 DEF Extends
<1> QED
  BY <1>1, <1>2, <1>3, <1>4 DEF KvInv

\* Every step keeps the invariant.
LEMMA NextKv == KvInv /\ [Next]_vars => KvInv'
<1> SUFFICES ASSUME KvInv, [Next]_vars
             PROVE  KvInv'
  OBVIOUS
<1>a. Shape
  BY DEF KvInv
<1>1. ASSUME NEW s \in Session, NEW i \in Isolation, Begin(s, i) PROVE KvInv'
  <2>1. Shape' /\ UNCHANGED <<kv_current, kv_history, newCurrent, newHistory>>
    BY <1>a, <1>1 DEF Begin, Goto, Shape
  <2>2. \A o \in Session : Base(o)' \in {Base(o), [current |-> kv_current, history |-> kv_history]}
    BY <1>a, <1>1 DEF Begin, Shape, Base
  <2> QED
    BY <2>1, <2>2, QuietKv
<1>2. ASSUME NEW s \in Session, NEW k \in Key, NEW v \in Value, NEW e \in Expected,
             PutBegin(s, k, v, e)
      PROVE  KvInv'
  <2>1. UNCHANGED <<kv_current, kv_history, newCurrent, newHistory, iso, snap, clock>>
    BY <1>2 DEF PutBegin
  <2>2. Shape'
    BY <1>a, <1>2 DEF PutBegin, Goto, Shape, Put
  <2>3. \A o \in Session : Base(o)' = Base(o)
    BY <2>1 DEF Base
  <2> QED
    BY <2>1, <2>2, <2>3, QuietKv
<1>3. ASSUME NEW s \in Session, PutExec(s) PROVE KvInv'
  <2>1. UNCHANGED <<kv_current, kv_history, iso, snap, clock>>
    BY <1>3 DEF PutExec
  <2>2. \E l \in {"open", "failed", "reread"} : Goto(s, l)
    BY <1>3 DEF PutExec, PutUpsert, PutCreate, PutGuarded, Insert, Update, Write, Fault, NoRowsAffected
  <2>3. DOMAIN req' = Session /\ \A o \in Session \ {s} : req'[o] = req[o]
    BY <1>a, <1>3 DEF PutExec, PutUpsert, PutCreate, PutGuarded, Insert, Update, Write, Fault,
                      NoRowsAffected, Shape
  <2>4. DOMAIN newCurrent' = Session /\ DOMAIN newHistory' = Session
    BY <1>a, <1>3, PutEffect DEF Puts, Shape
  <2>5. Shape'
    BY <1>a, <2>1, <2>2, <2>3, <2>4 DEF Shape, Goto
  <2>6. \A o \in Session : Base(o)' = Base(o)
    BY <2>1 DEF Base
  <2>7. CASE UNCHANGED <<newCurrent, newHistory>>
    BY <2>1, <2>5, <2>6, <2>7, QuietKv
  <2> QED
    BY <1>3, <2>1, <2>5, <2>7, PutEffect, PutExtends
<1>4. ASSUME NEW s \in Session, Reread(s) PROVE KvInv'
  <2>1. UNCHANGED <<kv_current, kv_history, newCurrent, newHistory, iso, snap, clock>>
    BY <1>4 DEF Reread
  <2>2. Shape'
    BY <1>a, <1>4 DEF Reread, Goto, Shape
  <2>3. \A o \in Session : Base(o)' = Base(o)
    BY <2>1 DEF Base
  <2> QED
    BY <2>1, <2>2, <2>3, QuietKv
<1>5. CASE Tick \/ ClockBack \/ UNCHANGED vars
  <2>1. /\ UNCHANGED <<kv_current, kv_history, newCurrent, newHistory, iso, snap, pc, req>>
        /\ clock' \in {clock, clock + 1} \/ (clock > 1 /\ clock' = clock - 1)
    BY <1>5 DEF Tick, ClockBack, vars, tx
  <2>4. clock' \in Nat
    BY SMT, <1>a, <2>1 DEF Shape
  <2>2. Shape'
    BY <1>a, <2>1, <2>4 DEF Shape
  <2>3. \A o \in Session : Base(o)' = Base(o)
    BY <2>1 DEF Base
  <2> QED
    BY <2>1, <2>2, <2>3, QuietKv
<1> QED
  BY <1>1, <1>2, <1>3, <1>4, <1>5, CommitKv, RollbackKv DEF Next

-----------------------------------------------------------------------------
(* The theorems *)

(***************************************************************************)
(* Law T4 for any keys, sessions and isolation levels, and whatever the    *)
(* clock does: in the committed tables and in the view of every open       *)
(* transaction, a version is found by its number and by the instant it was *)
(* written at, each time that version alone.                               *)
(***************************************************************************)
THEOREM VersionsAreDuallyAddressed == Spec => []DualAddressing
<1>1. ASSUME KvInv PROVE DualAddressing
  <2>1. Sound(kv_current, kv_history) /\ \A s \in Session : Sound(Current(s), History(s))
    BY <1>1, ViewSound DEF KvInv
  <2>2. \A v \in Views : Sound(v.current, v.history)
    BY SMT, <2>1 DEF Views
  <2> QED
    BY <2>2, SoundAddressing DEF DualAddressing
<1> QED
  BY <1>1, InitKv, NextKv, PTL DEF Spec

\* An instant that has settled stays so until the clock is set back.
LEMMA StaysSettled ==
    ASSUME KvInv, [Next]_vars, NEW t \in Int, Settled(t), backs' = backs
    PROVE  Settled(t)'
<1>1. Shape
  BY DEF KvInv
<1>2. ASSUME NEW s \in Session, NEW k \in Key, NEW v \in Value, NEW e \in Expected,
             PutBegin(s, k, v, e)
      PROVE  Settled(t)'
  BY <1>1, <1>2 DEF PutBegin, Goto, Shape, Settled
<1>3. ASSUME NEW s \in Session, PutExec(s) PROVE Settled(t)'
  <2>1. /\ clock' = clock /\ pc[s] = "put"
        /\ \E l \in {"open", "failed", "reread"} : Goto(s, l)
    BY <1>3 DEF PutExec, PutUpsert, PutCreate, PutGuarded, Insert, Update, Write, Fault, NoRowsAffected
  <2>2. \A o \in Session \ {s} : req'[o] = req[o]
    BY <1>1, <1>3 DEF PutExec, PutUpsert, PutCreate, PutGuarded, Insert, Update, Write, Fault,
                      NoRowsAffected, Shape
  <2>3. \A o \in Session : pc'[o] = "put" => req'[o].stamp > t
    BY <1>1, <2>1, <2>2 DEF Shape, Goto, Settled
  <2>4. \A o \in Session : \A k \in Key : newCurrent'[o][k] # NoRow => newCurrent'[o][k].at > t
    <3>1. CASE UNCHANGED newCurrent
      BY <3>1 DEF Settled
    <3>2. ASSUME NEW k \in Key, NEW row \in Row, Puts(s, k, row)
          PROVE  \A o \in Session : \A q \in Key : newCurrent'[o][q] # NoRow => newCurrent'[o][q].at > t
      <4>1. row.at > t
        BY <2>1, <3>2 DEF Puts, Settled
      <4>2. newCurrent' = [newCurrent EXCEPT ![s][k] = row]
        BY <3>2 DEF Puts
      <4>3. newCurrent[s] \in [Key -> Row \cup {NoRow}]
        BY DEF KvInv, Extends, Succeeds
      <4>4. /\ newCurrent'[s] = [newCurrent[s] EXCEPT ![k] = row]
            /\ \A o \in Session \ {s} : newCurrent'[o] = newCurrent[o]
        BY <1>1, <4>2 DEF Shape
      <4> QED
        BY SMT, <4>1, <4>3, <4>4 DEF Settled
    <3> QED
      BY <1>3, <3>1, <3>2, PutEffect
  <2> QED
    BY <2>1, <2>3, <2>4 DEF Settled
<1>4. ASSUME NEW s \in Session, Commit(s) \/ Rollback(s) PROVE Settled(t)'
  <2>1. EndTransaction(s)
    BY <1>4 DEF Commit, Rollback
  <2> QED
    BY <1>1, <2>1 DEF EndTransaction, Goto, Shape, Settled, NoRows
<1>5. ASSUME NEW s \in Session, Reread(s) PROVE Settled(t)'
  BY <1>1, <1>5 DEF Reread, Goto, Shape, Settled
<1>6. ASSUME NEW s \in Session, NEW i \in Isolation, Begin(s, i) PROVE Settled(t)'
  BY <1>1, <1>6 DEF Begin, Goto, Shape, Settled
<1>7. CASE Tick \/ UNCHANGED vars
  <2>1. UNCHANGED <<pc, req, newCurrent>> /\ clock' \in {clock, clock + 1} /\ clock \in Nat
    BY <1>1, <1>7 DEF Tick, vars, tx, Shape
  <2> QED
    BY SMT, <2>1 DEF Settled
<1>8. CASE ClockBack
  BY SMT, <1>8 DEF ClockBack
<1> QED
  BY <1>2, <1>3, <1>4, <1>5, <1>6, <1>7, <1>8 DEF Next

(***************************************************************************)
(* The past settles for any keys, sessions and isolation levels: no step,  *)
(* and no setting back of the clock, changes what getAt answers for an     *)
(* instant no open put began at or before, and only a clock that is set    *)
(* back unsettles it.                                                      *)
(***************************************************************************)
THEOREM ThePastSettles == Spec => PastSettles
<1> DEFINE Kept(t) == \A k \in Key :
      GetAtTime(kv_current', kv_history', k, t) = GetAtTime(kv_current, kv_history, k, t)
<1>1. ASSUME KvInv, [Next]_vars, NEW t \in Int, Settled(t) PROVE Kept(t)
  <2>1. CASE UNCHANGED <<kv_current, kv_history>>
    BY <2>1
  <2>2. ASSUME NEW s \in Session, Commit(s) PROVE Kept(t)
    <3>1. Sound(kv_current, kv_history) /\ Extends(s)
      BY <1>1 DEF KvInv
    <3>2. /\ kv_current' = Over(newCurrent[s], kv_current)
          /\ kv_history' = kv_history \cup ClosedRows(newCurrent[s], kv_current)
      BY <2>2, <3>1 DEF Commit, Latest, Over, Extends
    <3>3. \A k \in Key : newCurrent[s][k] # NoRow => t < newCurrent[s][k].at
      <4>1. \A k \in Key : newCurrent[s][k] # NoRow => newCurrent[s][k].at \in Nat
        BY <3>1 DEF Extends, Succeeds, Row
      <4>2. \A k \in Key : newCurrent[s][k] # NoRow => newCurrent[s][k].at > t
        BY <1>1 DEF Settled
      <4> QED
        BY <4>1, <4>2
    <3>4. Succeeds(newCurrent[s], kv_current)
      BY <3>1 DEF Extends
    <3> SUFFICES ASSUME NEW k \in Key
                 PROVE  GetAtTime(kv_current', kv_history', k, t) = GetAtTime(kv_current, kv_history, k, t)
      OBVIOUS
    <3>5. newCurrent[s][k] # NoRow => t < newCurrent[s][k].at
      BY <3>3
    <3>6. GetAtTime(Over(newCurrent[s], kv_current),
                    kv_history \cup ClosedRows(newCurrent[s], kv_current), k, t)
            = GetAtTime(kv_current, kv_history, k, t)
      BY <3>1, <3>4, <3>5, PastKept
    <3> QED
      BY <3>2, <3>6
  <2>3. UNCHANGED <<kv_current, kv_history>> \/ \E s \in Session : Commit(s)
    BY <1>1 DEF Next, vars, Begin, PutBegin, PutExec, Reread, Rollback, Tick, ClockBack
  <2> QED
    BY <2>1, <2>2, <2>3
<1>2. KvInv /\ [Next]_vars => SettledStands
  <2> SUFFICES ASSUME KvInv, [Next]_vars, NEW t \in 1..MaxClock, Settled(t)
               PROVE  (backs' = backs => Settled(t)') /\ Kept(t)
    BY DEF SettledStands
  <2>1. t \in Int
    BY SMT
  <2>2. backs' = backs => Settled(t)'
    BY <2>1, StaysSettled
  <2> QED
    BY <1>1, <2>1, <2>2
<1> QED
  BY <1>2, InitKv, NextKv, PTL DEF Spec, PastSettles

-----------------------------------------------------------------------------
(* The log *)

\* What getAt answers, version by version.
ValueAt(current, history, k, n) == (CHOOSE e \in GetAtVersion(current, history, k, n) : TRUE).value
LogOf(current, history) == [k \in Key |-> [n \in 1..Version(current[k]) |-> ValueAt(current, history, k, n)]]

\* With the next versions in place, the log of a key has the value written to it, if any.
Appends(fresh, current, history, k) ==
    LogOf(Over(fresh, current), history \cup ClosedRows(fresh, current))[k]
      = IF fresh[k] # NoRow THEN Append(LogOf(current, history)[k], fresh[k].value)
        ELSE LogOf(current, history)[k]

\* The next versions are appended, and everything before them stays.
LEMMA LogExtends ==
    ASSUME NEW current, NEW history, Sound(current, history), NEW fresh, Succeeds(fresh, current),
           NEW k \in Key
    PROVE  Appends(fresh, current, history, k)
<1> DEFINE after == Over(fresh, current)
           rows == history \cup ClosedRows(fresh, current)
           N == Version(current[k])
<1>1. Sound(after, rows)
  BY SoundExtends
<1>2. \A n \in 1..N : ValueAt(after, rows, k, n) = ValueAt(current, history, k, n)
  <2> SUFFICES ASSUME NEW n \in 1..N PROVE ValueAt(after, rows, k, n) = ValueAt(current, history, k, n)
    OBVIOUS
  <2>1. GetAtVersion(after, rows, k, n) = GetAtVersion(current, history, k, n)
    BY VersionsKept
  <2> QED
    BY <2>1 DEF ValueAt
<1>3. after[k] = IF fresh[k] # NoRow THEN fresh[k] ELSE current[k]
  BY DEF Over
<1>4. N \in Nat
  BY SMT DEF Sound, Version, Row
<1> HIDE DEF after, rows, N
<1>5. /\ LogOf(after, rows)[k] = [n \in 1..Version(after[k]) |-> ValueAt(after, rows, k, n)]
      /\ LogOf(current, history)[k] = [n \in 1..N |-> ValueAt(current, history, k, n)]
  BY DEF LogOf, N
<1>6. CASE fresh[k] = NoRow
  <2>1. Version(after[k]) = N
    BY <1>3, <1>6 DEF N
  <2> QED
    BY <1>2, <1>5, <1>6, <2>1 DEF after, rows, Appends
<1>7. CASE fresh[k] # NoRow
  <2>1. after[k] = fresh[k] /\ after[k] # NoRow /\ Version(after[k]) = N + 1 /\ after[k].version = N + 1
    BY <1>3, <1>7 DEF Succeeds, Version, N
  <2>2. GetAtVersion(after, rows, k, N + 1) = {LiveEntry(fresh[k])}
    <3>1. GetAtVersion(after, rows, k, after[k].version) = {LiveEntry(after[k])}
      BY <1>1, <2>1, LiveFound
    <3> QED
      BY <2>1, <3>1
  <2>3. ValueAt(after, rows, k, N + 1) = fresh[k].value
    BY <2>2, EntryFields DEF ValueAt
  <2>4. [n \in 1..(N + 1) |-> ValueAt(after, rows, k, n)]
          = Append([n \in 1..N |-> ValueAt(current, history, k, n)], ValueAt(after, rows, k, N + 1))
    BY SMT, <1>2, <1>4
  <2> QED
    BY <1>5, <1>7, <2>1, <2>3, <2>4 DEF after, rows, Appends
<1> QED
  BY <1>6, <1>7

(***************************************************************************)
(* The store implements VersionedLog for any keys, values, sessions and    *)
(* isolation levels: a COMMIT appends one value to the log of every key    *)
(* the transaction wrote, all at once, and no other step, racing put,      *)
(* failure or rollback shows in a log.                                     *)
(***************************************************************************)
THEOREM PutsAreLogged == Spec => ImplementsLog
<1> DEFINE log == [k \in Key |-> [n \in 1..Version(kv_current[k]) |->
              (CHOOSE e \in GetAtVersion(kv_current, kv_history, k, n) : TRUE).value]]
<1>1. log = LogOf(kv_current, kv_history)
  BY DEF LogOf, ValueAt
<1>2. log' = LogOf(kv_current', kv_history')
  BY DEF LogOf, ValueAt, Version, GetAtVersion, FirstOf, OldEntry, LiveEntry, Entry
<1>3. Init => Log!Init
  <2> SUFFICES ASSUME Init PROVE log = [k \in Key |-> <<>>]
    BY DEF Log!Init
  <2>1. \A k \in Key : Version(kv_current[k]) = 0
    BY DEF Init, NoRows, Version
  <2> QED
    BY SMT, <2>1
<1>4. ASSUME KvInv, NEW s \in Session, Commit(s) PROVE Log!Next
  <2>1. Sound(kv_current, kv_history) /\ Extends(s) /\ Succeeds(newCurrent[s], kv_current)
    BY <1>4 DEF KvInv, Extends
  <2>2. /\ kv_current' = Over(newCurrent[s], kv_current)
        /\ kv_history' = kv_history \cup ClosedRows(newCurrent[s], kv_current)
    BY <1>4, <2>1 DEF Commit, Latest, Over, Extends
  <2> DEFINE written == {k \in Key : newCurrent[s][k] # NoRow}
             val == [k \in written |-> newCurrent[s][k].value]
  <2>3. val \in [written -> Value]
    BY <2>1 DEF Succeeds, Row
  <2>4. ASSUME NEW k \in Key
        PROVE  LogOf(kv_current', kv_history')[k]
                 = IF k \in written THEN Append(LogOf(kv_current, kv_history)[k], val[k])
                   ELSE LogOf(kv_current, kv_history)[k]
    <3>1. Appends(newCurrent[s], kv_current, kv_history, k)
      BY <2>1, LogExtends
    <3>2. k \in written <=> newCurrent[s][k] # NoRow
      OBVIOUS
    <3>3. k \in written => val[k] = newCurrent[s][k].value
      OBVIOUS
    <3> HIDE DEF written, val
    <3> QED
      BY <2>2, <3>1, <3>2, <3>3 DEF Appends
  <2> HIDE DEF written, val
  <2>5. LogOf(kv_current', kv_history')
          = [k \in Key |-> IF k \in written THEN Append(LogOf(kv_current, kv_history)[k], val[k])
                           ELSE LogOf(kv_current, kv_history)[k]]
    <3>1. LogOf(kv_current', kv_history') = [k \in Key |-> LogOf(kv_current', kv_history')[k]]
      BY DEF LogOf
    <3> QED
      BY <2>4, <3>1
  <2>6. log' = [k \in Key |-> IF k \in written THEN Append(log[k], val[k]) ELSE log[k]]
    BY <1>1, <1>2, <2>5
  <2>7. Log!Accept(written, val)
    BY <2>6 DEF Log!Accept
  <2>8. written \in SUBSET Key
    BY DEF written
  <2> QED
    BY <2>3, <2>7, <2>8 DEF Log!Next
<1>5. KvInv /\ [Next]_vars => [Log!Next]_log
  <2> SUFFICES ASSUME KvInv, [Next]_vars PROVE [Log!Next]_log
    OBVIOUS
  <2>1. UNCHANGED <<kv_current, kv_history>> \/ \E s \in Session : Commit(s)
    BY DEF Next, vars, Begin, PutBegin, PutExec, Reread, Rollback, Tick, ClockBack
  <2>2. CASE UNCHANGED <<kv_current, kv_history>>
    BY <1>1, <1>2, <2>2
  <2> QED
    BY <1>4, <2>1, <2>2
<1> QED
  BY <1>3, <1>5, InitKv, NextKv, PTL DEF Spec, ImplementsLog, Log!Spec
=============================================================================
