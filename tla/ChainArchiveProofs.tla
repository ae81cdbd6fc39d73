-------------------------- MODULE ChainArchiveProofs --------------------------
(***************************************************************************)
(* For any number of sessions, blocks, heights and roles and any calls:    *)
(* a canonical block gives way only to another one, a bundle commits       *)
(* whole, references have their role rows, and the earliest sighting of a  *)
(* verifier key stays.                                                     *)
(*                                                                         *)
(* Each is an invariant of the committed tables together with what every   *)
(* open transaction has written.  Slots: what a session sees has one       *)
(* canonical block at a height, and no two sessions write the same slot,   *)
(* which the unique index enforces; a session that takes a slot away is in *)
(* setCanonical and gives it to its own block before it commits.  Roles:   *)
(* a session holds a lock on every role its new rows name, and a role      *)
(* someone deletes is neither in use nor locked.  Bundles: a statement of  *)
(* the method under way is still to come or its row is there.              *)
(*                                                                         *)
(* The module first says what a step of a session comes to (Did) and that  *)
(* it leaves the others alone (Untouched), and then argues from those.     *)
(***************************************************************************)
EXTENDS ChainArchive, TLAPS

\* Leaves go to Zenon; those it cannot do, with arithmetic mostly, name SMT.
USE Zenon

\* The statements a session may have left.
Statement ==
    [do : {"role", "remove"}, role : Role]
        \cup [do : {"block"}, block : Block, flags : Flags]
        \cup [do : {"child"}, block : Block, role : Role]
        \cup [do : {"vk"}, height : Nat]
        \cup [do : {"select"}, block : Block]
        \cup [do : {"orphan"}]
        \cup [do : {"mark"}, block : Block, finalized : BOOLEAN \cup {NoRow}]

\* The block rows, NoRow where there is none.
BlockTable == [Block -> Flags \cup {NoRow}]

\* The types of the tables and of what the sessions have written.
TypeOK ==
    /\ roles \subseteq Role /\ blocks \in BlockTable
    /\ children \subseteq Block \X Role /\ vk \in Nat \cup {NoRow}
    /\ req \in [Session -> Request \cup {Idle}]
    /\ prog \in [Session -> Seq(Statement)]
    /\ locked \in [Session -> SUBSET Role]
    /\ newRoles \in [Session -> SUBSET Role]
    /\ goneRoles \in [Session -> SUBSET Role]
    /\ newBlocks \in [Session -> BlockTable]
    /\ newChildren \in [Session -> SUBSET (Block \X Role)]
    /\ newVk \in [Session -> Nat \cup {NoRow}]
    /\ victims \in [Session -> SUBSET Block]

\* A session that has written nothing.
Fresh(s) ==
    /\ locked[s] = {} /\ newRoles[s] = {} /\ goneRoles[s] = {}
    /\ newBlocks[s] = [b \in Block |-> NoRow]
    /\ newChildren[s] = {} /\ newVk[s] = NoRow /\ victims[s] = {}

\* A setCanonical is at one of its three statements or past them.
Reorg(q) ==
    {Program(q), Tail(Program(q)), Tail(Tail(Program(q))), <<>>}

\* The statements left are those of the method under way.
Scripted(s) ==
    /\ req[s] = Idle => prog[s] = <<>> /\ Fresh(s)
    /\ req[s] # Idle => Range(prog[s]) \subseteq Range(Program(req[s]))
    /\ req[s].op = "setCanonical" => prog[s] \in Reorg(req[s])

\* A statement that is not left has had its effect.
Effected(s, st) ==
    /\ st.do = "block" => Row(s, st.block) # NoRow
    /\ st.do = "child" => <<st.block, st.role>> \in Children(s)

\* Every statement of the method under way is left or has had its effect.
Progressed(s) ==
    req[s] # Idle =>
        \A st \in Range(Program(req[s])) : st \in Range(prog[s]) \/ Effected(s, st)

\* The sighting of s is the only one that waits to be committed.
VkHeld(s) ==
    newVk[s] # NoRow =>
        /\ newVk[s] <= req[s].height
        /\ vk # NoRow => newVk[s] <= vk
        /\ \A o \in Others(s) : newVk[o] = NoRow

\* The role rows s refers to are there and s has locked them; only removeRole
\* deletes one, which nothing committed and nobody's lock refers to.
RolesHeld(s) ==
    /\ \A b \in Block : newBlocks[s][b] # NoRow /\ blocks[b] = NoRow =>
          Range(BlockRoles[b]) \subseteq locked[s]
    /\ \A c \in newChildren[s] : c[2] \in locked[s] /\ Row(s, c[1]) # NoRow
    /\ newVk[s] # NoRow => VkRole \in locked[s]
    /\ locked[s] \subseteq roles \cup newRoles[s]
    /\ req[s].op = "removeRole" => locked[s] = {}
    /\ req[s].op # "removeRole" => goneRoles[s] = {}
    /\ \A r \in goneRoles[s] : r \in roles /\ ~InUse(r)
    /\ \A o \in Others(s) : goneRoles[o] \cap (locked[s] \cup goneRoles[s]) = {}

\* The block row that s has written takes or gives up the canonical slot.
Touches(s, b) ==
    newBlocks[s][b] # NoRow /\ (Canonical(newBlocks[s][b]) \/ Canonical(blocks[b]))

SameHeight(b, c) == Height[b] = Height[c]

\* Two sessions write neither the same row nor the canonical slot of the same
\* height.
Apart(s, o) ==
    /\ \A b \in Block : newBlocks[s][b] = NoRow \/ newBlocks[o][b] = NoRow
    /\ \A b, c \in Block : SameHeight(b, c) => ~(Touches(s, b) /\ Touches(o, c))

\* What s sees has one canonical block at a height.
OneSeen(s) ==
    \A b, c \in Block : SameHeight(b, c) /\ Canonical(Row(s, b)) /\ Canonical(Row(s, c)) => b = c

\* The committed table has one canonical block at a height.
OneCommitted ==
    \A b, c \in Block : SameHeight(b, c) /\ Canonical(blocks[b]) /\ Canonical(blocks[c]) => b = c

\* The blocks that s has selected to orphan.
Selected(s) ==
    \A c \in victims[s] :
        req[s].op = "setCanonical" /\ blocks[c] # NoRow /\ SameHeight(c, req[s].block)

\* Whoever takes the slot from b gives it to the block it is called for, before
\* it commits.
Replaced(s, b) ==
    /\ req[s].op = "setCanonical" /\ SameHeight(b, req[s].block)
    /\ prog[s] # <<>> \/ Canonical(newBlocks[s][req[s].block])

\* What s has done to canonical blocks: one that is finalized stays so, another
\* is replaced.
Reorged(s) ==
    \A b \in Block : newBlocks[s][b] # NoRow /\ Canonical(blocks[b]) =>
        /\ blocks[b].finalized => Canonical(newBlocks[s][b]) /\ newBlocks[s][b].finalized
        /\ Canonical(newBlocks[s][b]) \/ Replaced(s, b)

\* The canonical slots, in the tables and in every open transaction.
SlotsInv ==
    /\ OneCommitted
    /\ \A s \in Session : OneSeen(s) /\ Selected(s) /\ Reorged(s)
    /\ \A s \in Session : \A o \in Others(s) : Apart(s, o)

\* Types, and the statements every session has left.
ScriptInv == TypeOK /\ \A s \in Session : Scripted(s)

\* The role rows, in the tables and in every open transaction.
RolesInv ==
    /\ RolesBacked
    /\ \A s \in Session : RolesHeld(s)

-----------------------------------------------------------------------------
(* Sequences of statements.                                                *)

\* A list that is not empty is its head and the rest.
LEMMA HeadAndTail ==
    ASSUME NEW T, NEW p \in Seq(T), p # <<>>
    PROVE  /\ Head(p) \in T /\ Tail(p) \in Seq(T)
           /\ Range(p) = {Head(p)} \cup Range(Tail(p))
<1>1. Head(p) \in T /\ Tail(p) \in Seq(T)
  BY SMT
<1>2. Len(p) \in Nat /\ Len(p) # 0 /\ DOMAIN p = 1..Len(p) /\ Head(p) = p[1]
  BY SMT
<1>3. Len(Tail(p)) = Len(p) - 1 /\ DOMAIN Tail(p) = 1..Len(Tail(p))
  BY SMT, <1>2
<1>4. \A i \in DOMAIN Tail(p) : Tail(p)[i] = p[i + 1] /\ i + 1 \in DOMAIN p
  BY SMT, <1>2, <1>3
<1>5. \A i \in DOMAIN p : i = 1 \/ (i - 1 \in DOMAIN Tail(p) /\ Tail(p)[i - 1] = p[i])
  BY SMT, <1>2, <1>3
<1>6. 1 \in DOMAIN p
  BY SMT, <1>2
<1>7. ASSUME NEW x \in Range(p) PROVE x = Head(p) \/ x \in Range(Tail(p))
  <2>1. PICK i \in DOMAIN p : x = p[i]
    BY DEF Range
  <2>2. CASE i = 1
    BY <1>2, <2>1, <2>2
  <2>3. CASE i - 1 \in DOMAIN Tail(p) /\ Tail(p)[i - 1] = p[i]
    BY <2>1, <2>3 DEF Range
  <2> QED
    BY <1>5, <2>2, <2>3
<1>8. Head(p) \in Range(p)
  BY <1>2, <1>6 DEF Range
<1>9. \A x \in Range(Tail(p)) : x \in Range(p)
  BY <1>4 DEF Range
<1> QED
  BY <1>1, <1>7, <1>8, <1>9

\* What a concatenation of lists contains.
LEMMA Concatenated ==
    ASSUME NEW T, NEW p \in Seq(T), NEW q \in Seq(T)
    PROVE  p \o q \in Seq(T) /\ Range(p \o q) = Range(p) \cup Range(q)
<1>1. p \o q \in Seq(T) /\ Len(p) \in Nat /\ Len(q) \in Nat /\ Len(p \o q) = Len(p) + Len(q)
  BY SMT
<1>2. DOMAIN p = 1..Len(p) /\ DOMAIN q = 1..Len(q) /\ DOMAIN (p \o q) = 1..(Len(p) + Len(q))
  BY SMT, <1>1
<1>3. \A i \in DOMAIN p : i \in DOMAIN (p \o q) /\ (p \o q)[i] = p[i]
  BY SMT, <1>1, <1>2
<1>4. \A i \in DOMAIN q : Len(p) + i \in DOMAIN (p \o q) /\ (p \o q)[Len(p) + i] = q[i]
  BY SMT, <1>1, <1>2
<1>5. \A i \in DOMAIN (p \o q) : i \in DOMAIN p \/ (i - Len(p) \in DOMAIN q /\ (p \o q)[i] = q[i - Len(p)])
  BY SMT, <1>1, <1>2
<1>6. \A x \in Range(p) : x \in Range(p \o q)
  BY <1>3 DEF Range
<1>7. \A x \in Range(q) : x \in Range(p \o q)
  BY <1>4 DEF Range
<1>8. ASSUME NEW x \in Range(p \o q) PROVE x \in Range(p) \/ x \in Range(q)
  <2>1. PICK i \in DOMAIN (p \o q) : x = (p \o q)[i]
    BY DEF Range
  <2>2. CASE i \in DOMAIN p
    BY <1>3, <2>1, <2>2 DEF Range
  <2>3. CASE i - Len(p) \in DOMAIN q /\ (p \o q)[i] = q[i - Len(p)]
    BY <2>1, <2>3 DEF Range
  <2> QED
    BY <1>5, <2>2, <2>3
<1> QED
  BY <1>1, <1>6, <1>7, <1>8

\* Nothing is in the empty list, and one thing in a list of one.
LEMMA ShortLists ==
    /\ Range(<<>>) = {}
    /\ \A T : <<>> \in Seq(T)
    /\ \A T, x : x \in T => <<x>> \in Seq(T)
    /\ \A x : Range(<<x>>) = {x}
    /\ \A T, x, y : x \in T /\ y \in T => <<x, y>> \in Seq(T)
    /\ \A x, y : Range(<<x, y>>) = {x, y}
<1>1. \A x : DOMAIN <<x>> = {1} /\ <<x>>[1] = x
  BY SMT
<1>2. \A x, y : DOMAIN <<x, y>> = {1, 2} /\ <<x, y>>[1] = x /\ <<x, y>>[2] = y
  BY SMT
<1>3. DOMAIN <<>> = {}
  BY SMT
<1>4. \A T : <<>> \in Seq(T)
  BY SMT
<1>5. \A T, x : x \in T => <<x>> \in Seq(T)
  BY SMT
<1>6. \A T, x, y : x \in T /\ y \in T => <<x, y>> \in Seq(T)
  BY SMT
<1>7. Range(<<>>) = {}
  BY <1>3 DEF Range
<1>8. \A x : Range(<<x>>) = {x}
  BY <1>1 DEF Range
<1>9. ASSUME NEW x, NEW y PROVE Range(<<x, y>>) = {x, y}
  <2>1. ASSUME NEW z \in Range(<<x, y>>) PROVE z = x \/ z = y
    <3>1. PICK i \in DOMAIN <<x, y>> : z = <<x, y>>[i]
      BY DEF Range
    <3> QED
      BY <1>2, <3>1
  <2>2. x \in Range(<<x, y>>) /\ y \in Range(<<x, y>>)
    BY <1>2 DEF Range
  <2> QED
    BY <2>1, <2>2
<1> QED
  BY <1>4, <1>5, <1>6, <1>7, <1>8, <1>9

\* The statements of setCanonical, one after the other.
LEMMA ThreeSteps ==
    ASSUME NEW T, NEW x \in T, NEW y \in T, NEW z \in T
    PROVE  /\ <<x, y, z>> \in Seq(T) /\ Range(<<x, y, z>>) = {x, y, z}
           /\ Head(<<x, y, z>>) = x /\ Tail(<<x, y, z>>) = <<y, z>>
           /\ Head(<<y, z>>) = y /\ Tail(<<y, z>>) = <<z>>
           /\ Head(<<z>>) = z /\ Tail(<<z>>) = <<>>
           /\ <<x, y, z>> # <<>> /\ <<y, z>> # <<>> /\ <<z>> # <<>>
<1>1. /\ <<x, y, z>> \in Seq(T)
      /\ Head(<<x, y, z>>) = x /\ Tail(<<x, y, z>>) = <<y, z>>
      /\ Head(<<y, z>>) = y /\ Tail(<<y, z>>) = <<z>>
      /\ Head(<<z>>) = z /\ Tail(<<z>>) = <<>>
      /\ <<x, y, z>> # <<>> /\ <<y, z>> # <<>> /\ <<z>> # <<>>
  BY SMT
<1>2. DOMAIN <<x, y, z>> = {1, 2, 3} /\ <<x, y, z>>[1] = x /\ <<x, y, z>>[2] = y /\ <<x, y, z>>[3] = z
  BY SMT
<1> QED
  BY <1>1, <1>2 DEF Range

\* The statements of the child rows of a block: for each row its role and the row.
LEMMA ChildStatements ==
    ASSUME NEW b \in Block
    PROVE  /\ InsertChildRows(b) \in Seq(Statement)
           /\ \A st \in Range(InsertChildRows(b)) : \E r \in Role :
                 \/ st = InsertRole(r)
                 \/ st = [do |-> "child", block |-> b, role |-> r]
           /\ \A r \in Range(ChildRoles[b]) :
                 [do |-> "child", block |-> b, role |-> r] \in Range(InsertChildRows(b))
<1> DEFINE n == Len(ChildRoles[b])
           half(i) == (i + 1) \div 2
           st(i) == IF i % 2 = 1 THEN InsertRole(ChildRoles[b][half(i)])
                    ELSE [do |-> "child", block |-> b, role |-> ChildRoles[b][half(i)]]
<1>1. ChildRoles[b] \in Seq(Role)
  BY ArchiveConstants
<1>2. n \in Nat /\ DOMAIN ChildRoles[b] = 1..n /\ \A j \in 1..n : ChildRoles[b][j] \in Role
  BY SMT, <1>1
<1>3. \A i \in 1..2 * n : half(i) \in 1..n
  BY SMT, <1>2
<1>4. \A j \in 1..n : 2 * j \in 1..2 * n /\ half(2 * j) = j /\ (2 * j) % 2 # 1
  BY SMT, <1>2
<1>5. InsertChildRows(b) = [i \in 1..2 * n |-> st(i)]
  BY DEF InsertChildRows
<1>6. \A r \in Role : InsertRole(r) \in Statement /\ [do |-> "child", block |-> b, role |-> r] \in Statement
  BY DEF InsertRole, Statement
<1>7. \A i \in 1..2 * n : ChildRoles[b][half(i)] \in Role
  BY <1>2, <1>3
<1> HIDE DEF half
<1>8. \A i \in 1..2 * n : st(i) \in Statement
  BY <1>6, <1>7
<1>9. 2 * n \in Nat
  BY SMT, <1>2
<1>10. InsertChildRows(b) \in Seq(Statement)
  <2> HIDE DEF st, n
  <2> QED
    BY SMT, <1>5, <1>8, <1>9
<1>11. \A i \in 1..2 * n : \E r \in Role :
           st(i) = InsertRole(r) \/ st(i) = [do |-> "child", block |-> b, role |-> r]
  BY <1>7
<1>12. ASSUME NEW j \in 1..n
       PROVE  /\ 2 * j \in 1..2 * n
              /\ st(2 * j) = [do |-> "child", block |-> b, role |-> ChildRoles[b][j]]
  BY <1>4, <1>12
<1>13. \A x \in Range(InsertChildRows(b)) : \E i \in 1..2 * n : x = st(i)
  <2> HIDE DEF st, n
  <2> QED
    BY <1>5 DEF Range
<1>14. \A i \in 1..2 * n : st(i) \in Range(InsertChildRows(b))
  <2> HIDE DEF st, n
  <2> QED
    BY <1>5 DEF Range
<1>15. \A r \in Range(ChildRoles[b]) :
          [do |-> "child", block |-> b, role |-> r] \in Range(InsertChildRows(b))
  <2> SUFFICES ASSUME NEW r \in Range(ChildRoles[b])
               PROVE  [do |-> "child", block |-> b, role |-> r] \in Range(InsertChildRows(b))
    OBVIOUS
  <2>1. PICK j \in 1..n : r = ChildRoles[b][j]
    BY <1>2 DEF Range
  <2> QED
    BY <2>1, <1>12, <1>14
<1>16. \A x \in Range(InsertChildRows(b)) : \E r \in Role :
           x = InsertRole(r) \/ x = [do |-> "child", block |-> b, role |-> r]
  <2> SUFFICES ASSUME NEW x \in Range(InsertChildRows(b))
               PROVE  \E r \in Role : x = InsertRole(r) \/ x = [do |-> "child", block |-> b, role |-> r]
    OBVIOUS
  <2>1. PICK i \in 1..2 * n : x = st(i)
    BY <1>13
  <2>2. PICK r \in Role : st(i) = InsertRole(r) \/ st(i) = [do |-> "child", block |-> b, role |-> r]
    BY <1>11
  <2> HIDE DEF st, n
  <2> QED
    BY <2>1, <2>2
<1> QED
  BY <1>10, <1>15, <1>16

\* The statements of a block row: its roles and then the row.
LEMMA BlockStatements ==
    ASSUME NEW b \in Block, NEW flags \in Flags
    PROVE  /\ InsertBlockRow(b, flags) \in Seq(Statement)
           /\ \A st \in Range(InsertBlockRow(b, flags)) :
                 \/ \E r \in Role : st = InsertRole(r)
                 \/ st = [do |-> "block", block |-> b, flags |-> flags]
           /\ [do |-> "block", block |-> b, flags |-> flags] \in Range(InsertBlockRow(b, flags))
<1> DEFINE rs == [i \in DOMAIN BlockRoles[b] |-> InsertRole(BlockRoles[b][i])]
           row == [do |-> "block", block |-> b, flags |-> flags]
<1>1. BlockRoles[b] \in Seq(Role)
  BY ArchiveConstants
<1>2. Len(BlockRoles[b]) \in Nat /\ DOMAIN BlockRoles[b] = 1..Len(BlockRoles[b])
  BY SMT, <1>1
<1>3. \A i \in DOMAIN BlockRoles[b] : BlockRoles[b][i] \in Role
  BY SMT, <1>1
<1>4. \A r \in Role : InsertRole(r) \in Statement
  BY DEF InsertRole, Statement
<1>5. rs \in Seq(Statement)
  BY SMT, <1>2, <1>3, <1>4
<1>6. row \in Statement
  BY DEF Statement
<1>7. <<row>> \in Seq(Statement) /\ Range(<<row>>) = {row}
  BY <1>6, ShortLists
<1>8. \A st \in Range(rs) : \E r \in Role : st = InsertRole(r)
  BY <1>3 DEF Range
<1>9. InsertBlockRow(b, flags) = rs \o <<row>>
  BY DEF InsertBlockRow
<1> HIDE DEF rs, row
<1>10. rs \o <<row>> \in Seq(Statement) /\ Range(rs \o <<row>>) = Range(rs) \cup Range(<<row>>)
  <2>1. PICK last : last = <<row>>
    OBVIOUS
  <2>2. last \in Seq(Statement)
    BY <1>7, <2>1
  <2>3. rs \o last \in Seq(Statement) /\ Range(rs \o last) = Range(rs) \cup Range(last)
    BY SMT, <1>5, <2>2, Concatenated
  <2> QED
    BY <2>1, <2>3
<1>11. InsertBlockRow(b, flags) \in Seq(Statement) /\ Range(InsertBlockRow(b, flags)) = Range(rs) \cup {row}
  BY <1>7, <1>9, <1>10
<1> QED
  BY <1>8, <1>11 DEF row

\* What a statement is tells which method it can be of, and that its arguments
\* are the method's.
Fits(q, st) ==
    /\ st.do = "role" => q.op \notin {"removeRole", "setCanonical"} /\ st.role \in Role
    /\ st.do = "block" =>
          q.op \in {"putBlock", "putBlockBundle"} /\ st.block \in Block /\ st.flags \in Flags
    /\ st.do = "child" =>
          q.op \in {"putChildren", "putBlockBundle"} /\ st.block \in Block /\ st.role \in Role
    /\ st.do = "vk" =>
          q.op = "putVerifierKeyObservation" /\ st.height = q.height /\ st.height \in Nat
    /\ st.do = "remove" => q.op = "removeRole" /\ st.role \in Role
    /\ st.do \in {"select", "orphan", "mark"} => q.op = "setCanonical"

\* Each kind of statement fits the methods that have it.
LEMMA Fitting ==
    ASSUME NEW q
    PROVE  /\ \A r \in Role : q.op \notin {"removeRole", "setCanonical"} => Fits(q, InsertRole(r))
           /\ \A b \in Block, f \in Flags : q.op \in {"putBlock", "putBlockBundle"} =>
                 Fits(q, [do |-> "block", block |-> b, flags |-> f])
           /\ \A b \in Block, r \in Role : q.op \in {"putChildren", "putBlockBundle"} =>
                 Fits(q, [do |-> "child", block |-> b, role |-> r])
           /\ q.op = "putVerifierKeyObservation" /\ q.height \in Nat =>
                 Fits(q, [do |-> "vk", height |-> q.height])
           /\ \A r \in Role : q.op = "removeRole" => Fits(q, [do |-> "remove", role |-> r])
<1>1. \A r \in Role : q.op \notin {"removeRole", "setCanonical"} => Fits(q, InsertRole(r))
  BY DEF Fits, InsertRole
<1>2. \A b \in Block, f \in Flags : q.op \in {"putBlock", "putBlockBundle"} =>
          Fits(q, [do |-> "block", block |-> b, flags |-> f])
  BY DEF Fits
<1>3. \A b \in Block, r \in Role : q.op \in {"putChildren", "putBlockBundle"} =>
          Fits(q, [do |-> "child", block |-> b, role |-> r])
  BY DEF Fits
<1>4. q.op = "putVerifierKeyObservation" /\ q.height \in Nat =>
          Fits(q, [do |-> "vk", height |-> q.height])
  BY DEF Fits
<1>5. \A r \in Role : q.op = "removeRole" => Fits(q, [do |-> "remove", role |-> r])
  BY DEF Fits
<1> QED
  BY <1>1, <1>2, <1>3, <1>4, <1>5

\* The arguments of a call.
LEMMA CallTypes ==
    ASSUME NEW q \in Request
    PROVE  /\ q.op \in {"putBlobWithRole", "removeRole", "putBlock", "putBlockBundle",
                        "putChildren", "putVerifierKeyObservation", "setCanonical"}
           /\ q.op \in {"putBlobWithRole", "removeRole"} => q.role \in Role
           /\ q.op \in {"putBlock", "putBlockBundle"} => q.block \in Block /\ q.flags \in Flags
           /\ q.op = "putChildren" => q.block \in Block
           /\ q.op = "putVerifierKeyObservation" => q.height \in Nat
           /\ q.op = "setCanonical" => q.block \in Block /\ q.finalized \in BOOLEAN \cup {NoRow}
<1>1. q \in Call
  BY ArchiveConstants
<1> QED
  BY SMT, <1>1 DEF Call

\* The statements of setCanonical.
LEMMA ReorgProgram ==
    ASSUME NEW q \in Request, q.op = "setCanonical"
    PROVE  /\ Program(q) \in Seq(Statement)
           /\ \A st \in Range(Program(q)) : Fits(q, st)
           /\ Head(Program(q)) = [do |-> "select", block |-> q.block]
           /\ Head(Tail(Program(q))) = [do |-> "orphan"]
           /\ Head(Tail(Tail(Program(q)))) = [do |-> "mark", block |-> q.block, finalized |-> q.finalized]
           /\ Tail(Tail(Tail(Program(q)))) = <<>>
           /\ Program(q) # <<>> /\ Tail(Program(q)) # <<>> /\ Tail(Tail(Program(q))) # <<>>
<1> DEFINE x == [do |-> "select", block |-> q.block]
           y == [do |-> "orphan"]
           z == [do |-> "mark", block |-> q.block, finalized |-> q.finalized]
<1>1. q.block \in Block /\ q.finalized \in BOOLEAN \cup {NoRow}
  BY CallTypes
<1>2. x \in Statement /\ y \in Statement /\ z \in Statement
  BY <1>1 DEF Statement
<1>3. Program(q) = <<x, y, z>>
  BY DEF Program
<1>4. Fits(q, x) /\ Fits(q, y) /\ Fits(q, z)
  BY DEF Fits
<1> HIDE DEF x, y, z
<1>5. /\ <<x, y, z>> \in Seq(Statement) /\ Range(<<x, y, z>>) = {x, y, z}
      /\ Head(<<x, y, z>>) = x /\ Tail(<<x, y, z>>) = <<y, z>>
      /\ Head(<<y, z>>) = y /\ Tail(<<y, z>>) = <<z>>
      /\ Head(<<z>>) = z /\ Tail(<<z>>) = <<>>
      /\ <<x, y, z>> # <<>> /\ <<y, z>> # <<>> /\ <<z>> # <<>>
  BY SMT, <1>2, ThreeSteps
<1>6. \A st \in Range(Program(q)) : Fits(q, st)
  BY <1>3, <1>4, <1>5
<1>7. /\ Program(q) \in Seq(Statement) /\ Head(Program(q)) = x /\ Head(Tail(Program(q))) = y
      /\ Head(Tail(Tail(Program(q)))) = z /\ Tail(Tail(Tail(Program(q)))) = <<>>
      /\ Program(q) # <<>> /\ Tail(Program(q)) # <<>> /\ Tail(Tail(Program(q))) # <<>>
  BY <1>3, <1>5
<1> QED
  BY <1>6, <1>7 DEF x, y, z

\* The statements of a block row fit the methods that write one.
LEMMA BlockFits ==
    ASSUME NEW q, NEW b \in Block, NEW f \in Flags, q.op \in {"putBlock", "putBlockBundle"}
    PROVE  \A st \in Range(InsertBlockRow(b, f)) : Fits(q, st)
<1>1. q.op \notin {"removeRole", "setCanonical"}
  OBVIOUS
<1>2. \A r \in Role : Fits(q, InsertRole(r))
  BY <1>1, Fitting
<1>3. Fits(q, [do |-> "block", block |-> b, flags |-> f])
  BY Fitting
<1>4. \A st \in Range(InsertBlockRow(b, f)) :
          (\E r \in Role : st = InsertRole(r)) \/ st = [do |-> "block", block |-> b, flags |-> f]
  BY BlockStatements
<1> QED
  BY <1>2, <1>3, <1>4

\* The statements of child rows fit the methods that write them.
LEMMA ChildrenFit ==
    ASSUME NEW q, NEW b \in Block, q.op \in {"putChildren", "putBlockBundle"}
    PROVE  \A st \in Range(InsertChildRows(b)) : Fits(q, st)
<1>1. q.op \notin {"removeRole", "setCanonical"}
  OBVIOUS
<1>2. \A r \in Role : Fits(q, InsertRole(r))
  BY <1>1, Fitting
<1>3. \A r \in Role : Fits(q, [do |-> "child", block |-> b, role |-> r])
  BY Fitting
<1>4. \A st \in Range(InsertChildRows(b)) :
          \E r \in Role : st = InsertRole(r) \/ st = [do |-> "child", block |-> b, role |-> r]
  BY ChildStatements
<1> QED
  BY <1>2, <1>3, <1>4

\* Every method is a list of statements that fit it.
LEMMA ProgramFits ==
    ASSUME NEW q \in Request
    PROVE  Program(q) \in Seq(Statement) /\ \A st \in Range(Program(q)) : Fits(q, st)
<1>1. CASE q.op = "putBlobWithRole"
  <2>1. q.role \in Role /\ Program(q) = <<InsertRole(q.role)>>
    BY <1>1, CallTypes DEF Program
  <2>2. InsertRole(q.role) \in Statement
    BY <2>1 DEF InsertRole, Statement
  <2>3. Fits(q, InsertRole(q.role))
    BY <1>1, <2>1, Fitting
  <2> QED
    BY SMT, <2>1, <2>2, <2>3, ShortLists
<1>2. CASE q.op = "putBlock"
  <2>1. q.block \in Block /\ q.flags \in Flags /\ Program(q) = InsertBlockRow(q.block, q.flags)
    BY <1>2, CallTypes DEF Program
  <2>2. InsertBlockRow(q.block, q.flags) \in Seq(Statement)
    BY <2>1, BlockStatements
  <2>3. \A st \in Range(InsertBlockRow(q.block, q.flags)) : Fits(q, st)
    BY <1>2, <2>1, BlockFits
  <2> QED
    BY <2>1, <2>2, <2>3
<1>3. CASE q.op = "putChildren"
  <2>1. q.block \in Block /\ Program(q) = InsertChildRows(q.block)
    BY <1>3, CallTypes DEF Program
  <2>2. InsertChildRows(q.block) \in Seq(Statement)
    BY <2>1, ChildStatements
  <2>3. \A st \in Range(InsertChildRows(q.block)) : Fits(q, st)
    BY <1>3, <2>1, ChildrenFit
  <2> QED
    BY <2>1, <2>2, <2>3
<1>4. CASE q.op = "putBlockBundle"
  <2>1. q.block \in Block /\ q.flags \in Flags
        /\ Program(q) = InsertBlockRow(q.block, q.flags) \o InsertChildRows(q.block)
    BY <1>4, CallTypes DEF Program
  <2>2. \A st \in Range(InsertBlockRow(q.block, q.flags)) : Fits(q, st)
    BY <1>4, <2>1, BlockFits
  <2>3. \A st \in Range(InsertChildRows(q.block)) : Fits(q, st)
    BY <1>4, <2>1, ChildrenFit
  <2>4. InsertBlockRow(q.block, q.flags) \in Seq(Statement) /\ InsertChildRows(q.block) \in Seq(Statement)
    BY <2>1, BlockStatements, ChildStatements
  <2> QED
    BY SMT, <2>1, <2>2, <2>3, <2>4, Concatenated
<1>5. CASE q.op = "putVerifierKeyObservation"
  <2>1. q.height \in Nat /\ Program(q) = <<InsertRole(VkRole), [do |-> "vk", height |-> q.height]>>
    BY <1>5, CallTypes DEF Program
  <2>2. VkRole \in Role
    BY ArchiveConstants
  <2>3. InsertRole(VkRole) \in Statement /\ [do |-> "vk", height |-> q.height] \in Statement
    BY <2>1, <2>2 DEF InsertRole, Statement
  <2>4. q.op \notin {"removeRole", "setCanonical"}
    BY <1>5
  <2>5. Fits(q, InsertRole(VkRole)) /\ Fits(q, [do |-> "vk", height |-> q.height])
    BY <1>5, <2>1, <2>2, <2>4, Fitting
  <2> QED
    BY SMT, <2>1, <2>3, <2>5, ShortLists
<1>6. CASE q.op = "setCanonical"
  BY <1>6, ReorgProgram
<1>7. CASE q.op = "removeRole"
  <2>1. q.role \in Role /\ Program(q) = <<[do |-> "remove", role |-> q.role]>>
    BY <1>7, CallTypes DEF Program
  <2>2. [do |-> "remove", role |-> q.role] \in Statement
    BY <2>1 DEF Statement
  <2>3. Fits(q, [do |-> "remove", role |-> q.role])
    BY <1>7, <2>1, Fitting
  <2> QED
    BY SMT, <2>1, <2>2, <2>3, ShortLists
<1> QED
  BY <1>1, <1>2, <1>3, <1>4, <1>5, <1>6, <1>7, CallTypes

\* A bundle has the statement of its block row and those of its child rows.
LEMMA BundleProgram ==
    ASSUME NEW q \in Request, q.op = "putBlockBundle"
    PROVE  /\ q.block \in Block
           /\ [do |-> "block", block |-> q.block, flags |-> q.flags] \in Range(Program(q))
           /\ \A r \in Range(ChildRoles[q.block]) :
                 [do |-> "child", block |-> q.block, role |-> r] \in Range(Program(q))
<1>1. q.block \in Block /\ q.flags \in Flags
      /\ Program(q) = InsertBlockRow(q.block, q.flags) \o InsertChildRows(q.block)
  BY CallTypes DEF Program
<1>2. InsertBlockRow(q.block, q.flags) \in Seq(Statement) /\ InsertChildRows(q.block) \in Seq(Statement)
  BY <1>1, BlockStatements, ChildStatements
<1>3. Range(Program(q)) = Range(InsertBlockRow(q.block, q.flags)) \cup Range(InsertChildRows(q.block))
  <2>1. PICK rows, kids : rows = InsertBlockRow(q.block, q.flags) /\ kids = InsertChildRows(q.block)
    OBVIOUS
  <2>2. Range(rows \o kids) = Range(rows) \cup Range(kids)
    BY SMT, <1>2, <2>1, Concatenated
  <2> QED
    BY <1>1, <2>1, <2>2
<1> QED
  BY <1>1, <1>3, BlockStatements, ChildStatements

-----------------------------------------------------------------------------
(* Types, and which statements are left.                                   *)

\* Every variable of the sessions is a function on them.
LEMMA Domains ==
    ASSUME TypeOK
    PROVE  /\ DOMAIN req = Session /\ DOMAIN prog = Session /\ DOMAIN locked = Session
           /\ DOMAIN newRoles = Session /\ DOMAIN goneRoles = Session
           /\ DOMAIN newBlocks = Session /\ DOMAIN newChildren = Session
           /\ DOMAIN newVk = Session /\ DOMAIN victims = Session
           /\ DOMAIN blocks = Block /\ \A s \in Session : DOMAIN newBlocks[s] = Block
  BY DEF TypeOK, BlockTable

\* A call is not Idle.
LEMMA CallsRun == \A q \in Request : q # Idle
<1>1. Idle.op = "idle"
  BY DEF Idle
<1> QED
  BY <1>1, CallTypes

\* A session that runs a statement runs one of its method.
LEMMA Running ==
    ASSUME ScriptInv, NEW s \in Session, NEW kind, Runs(s, kind)
    PROVE  /\ prog[s] # <<>> /\ Head(prog[s]).do = kind /\ req[s] \in Request
           /\ Head(prog[s]) \in Range(Program(req[s])) /\ Fits(req[s], Head(prog[s]))
           /\ Tail(prog[s]) \in Seq(Statement)
           /\ Range(prog[s]) = {Head(prog[s])} \cup Range(Tail(prog[s]))
<1>1. prog[s] # <<>> /\ Head(prog[s]).do = kind /\ prog[s] \in Seq(Statement)
  BY DEF Runs, ScriptInv, TypeOK
<1>2. Scripted(s) /\ req[s] \in Request \cup {Idle}
  BY DEF ScriptInv, TypeOK
<1>3. req[s] # Idle
  BY <1>1, <1>2 DEF Scripted
<1>4. req[s] \in Request /\ Range(prog[s]) \subseteq Range(Program(req[s]))
  BY <1>2, <1>3 DEF Scripted
<1>5. /\ Tail(prog[s]) \in Seq(Statement)
      /\ Range(prog[s]) = {Head(prog[s])} \cup Range(Tail(prog[s]))
  BY <1>1, HeadAndTail
<1>6. Head(prog[s]) \in Range(Program(req[s]))
  BY <1>4, <1>5
<1>7. Fits(req[s], Head(prog[s]))
  BY <1>4, <1>6, ProgramFits
<1> QED
  BY <1>1, <1>4, <1>5, <1>6, <1>7

\* Where a setCanonical is, and what it does there.
LEMMA Reorging ==
    ASSUME ScriptInv, NEW s \in Session, NEW kind \in {"select", "orphan", "mark"}, Runs(s, kind)
    PROVE  /\ req[s].op = "setCanonical" /\ req[s].block \in Block
           /\ kind = "select" => Head(prog[s]).block = req[s].block /\ Tail(prog[s]) # <<>>
           /\ kind = "orphan" => Tail(prog[s]) # <<>>
           /\ kind = "mark" => /\ Head(prog[s]).block = req[s].block
                               /\ Head(prog[s]).finalized \in BOOLEAN \cup {NoRow}
                               /\ Tail(prog[s]) = <<>>
           /\ Tail(prog[s]) \in Reorg(req[s])
<1>1. /\ prog[s] # <<>> /\ Head(prog[s]).do = kind /\ req[s] \in Request
      /\ Fits(req[s], Head(prog[s]))
  BY Running
<1>2. req[s].op = "setCanonical"
  BY <1>1 DEF Fits
<1>3. req[s].block \in Block /\ req[s].finalized \in BOOLEAN \cup {NoRow}
  BY <1>1, <1>2, CallTypes
<1>4. prog[s] \in Reorg(req[s])
  BY <1>2 DEF ScriptInv, Scripted
<1>5. PICK q : q = req[s]
  OBVIOUS
<1>6. PICK p : p = prog[s]
  OBVIOUS
<1>7. /\ Head(Program(q)) = [do |-> "select", block |-> q.block]
      /\ Head(Tail(Program(q))) = [do |-> "orphan"]
      /\ Head(Tail(Tail(Program(q)))) = [do |-> "mark", block |-> q.block, finalized |-> q.finalized]
      /\ Tail(Tail(Tail(Program(q)))) = <<>>
      /\ Program(q) # <<>> /\ Tail(Program(q)) # <<>> /\ Tail(Tail(Program(q))) # <<>>
  BY <1>1, <1>2, <1>5, ReorgProgram
<1>8. Head(p).do = kind
  BY <1>1, <1>6
<1>9. p = Program(q) \/ p = Tail(Program(q)) \/ p = Tail(Tail(Program(q)))
  BY <1>1, <1>4, <1>5, <1>6 DEF Reorg
<1>10. CASE p = Program(q)
  <2>1. Head(p) = [do |-> "select", block |-> q.block] /\ Tail(p) # <<>>
    BY <1>7, <1>10
  <2>2. kind = "select" /\ Head(p).block = q.block
    BY SMT, <1>8, <2>1
  <2>3. Tail(p) \in Reorg(q)
    BY <1>10 DEF Reorg
  <2> QED
    BY <1>2, <1>3, <1>5, <1>6, <2>1, <2>2, <2>3
<1>11. CASE p = Tail(Program(q))
  <2>1. Head(p) = [do |-> "orphan"] /\ Tail(p) # <<>>
    BY <1>7, <1>11
  <2>2. kind = "orphan"
    BY SMT, <1>8, <2>1
  <2>3. Tail(p) \in Reorg(q)
    BY <1>11 DEF Reorg
  <2> QED
    BY <1>2, <1>3, <1>5, <1>6, <2>1, <2>2, <2>3
<1>12. CASE p = Tail(Tail(Program(q)))
  <2>1. /\ Head(p) = [do |-> "mark", block |-> q.block, finalized |-> q.finalized]
        /\ Tail(p) = <<>>
    BY <1>7, <1>12
  <2>2. kind = "mark" /\ Head(p).block = q.block /\ Head(p).finalized = q.finalized
    BY SMT, <1>8, <2>1
  <2>3. Tail(p) \in Reorg(q)
    BY <2>1 DEF Reorg
  <2> QED
    BY <1>2, <1>3, <1>5, <1>6, <2>1, <2>2, <2>3
<1> QED
  BY <1>9, <1>10, <1>11, <1>12

\* A step of s leaves what another session has as it is.
Untouched(o) ==
    /\ req'[o] = req[o] /\ prog'[o] = prog[o]
    /\ locked'[o] = locked[o] /\ newRoles'[o] = newRoles[o] /\ goneRoles'[o] = goneRoles[o]
    /\ newBlocks'[o] = newBlocks[o] /\ newChildren'[o] = newChildren[o]
    /\ newVk'[o] = newVk[o] /\ victims'[o] = victims[o]

\* A transaction that ends has nothing left to do and nothing written.
LEMMA Ends ==
    ASSUME TypeOK, NEW s \in Session, End(s)
    PROVE  /\ req'[s] = Idle /\ prog'[s] = <<>> /\ Fresh(s)'
           /\ \A o \in Others(s) : Untouched(o)
<1>1. req'[s] = Idle /\ prog'[s] = <<>>
  BY Domains DEF End
<1>2. Fresh(s)'
  BY Domains DEF End, ClearPending, Fresh
<1>3. ASSUME NEW o \in Others(s) PROVE Untouched(o)
  <2>1. o \in Session /\ o # s
    BY DEF Others
  <2>2. req'[o] = req[o] /\ prog'[o] = prog[o]
    BY <2>1, Domains DEF End
  <2>3. locked'[o] = locked[o] /\ newRoles'[o] = newRoles[o] /\ goneRoles'[o] = goneRoles[o]
    BY <2>1, Domains DEF End, ClearPending
  <2>4. /\ newBlocks'[o] = newBlocks[o] /\ newChildren'[o] = newChildren[o]
        /\ newVk'[o] = newVk[o] /\ victims'[o] = victims[o]
    BY <2>1, Domains DEF End, ClearPending
  <2> QED
    BY <2>2, <2>3, <2>4 DEF Untouched
<1> QED
  BY <1>1, <1>2, <1>3

\* Ending keeps the types of what belongs to the sessions.
LEMMA EndTypes ==
    ASSUME TypeOK, NEW s \in Session, End(s),
           roles' \subseteq Role, blocks' \in BlockTable, children' \subseteq Block \X Role,
           vk' \in Nat \cup {NoRow}
    PROVE  TypeOK'
<1>1. req' \in [Session -> Request \cup {Idle}]
  BY DEF TypeOK, End
<1>2. <<>> \in Seq(Statement)
  BY ShortLists
<1>3. prog' \in [Session -> Seq(Statement)]
  BY <1>2 DEF TypeOK, End
<1>4. [b \in Block |-> NoRow] \in BlockTable
  BY DEF BlockTable
<1>5. /\ locked' \in [Session -> SUBSET Role] /\ newRoles' \in [Session -> SUBSET Role]
      /\ goneRoles' \in [Session -> SUBSET Role]
  BY DEF TypeOK, End, ClearPending
<1>6. newBlocks' \in [Session -> BlockTable]
  BY <1>4 DEF TypeOK, End, ClearPending
<1>7. /\ newChildren' \in [Session -> SUBSET (Block \X Role)]
      /\ newVk' \in [Session -> Nat \cup {NoRow}] /\ victims' \in [Session -> SUBSET Block]
  BY DEF TypeOK, End, ClearPending
<1> QED
  BY <1>1, <1>3, <1>5, <1>6, <1>7 DEF TypeOK

-----------------------------------------------------------------------------
(* What each step does, with the session's rows named.                     *)

\* No table changes.
TablesKept == roles' = roles /\ blocks' = blocks /\ children' = children /\ vk' = vk

\* s is past a statement of its method.
Moved(s) ==
    /\ prog[s] # <<>> /\ req[s] \in Request
    /\ prog'[s] = Tail(prog[s]) /\ req'[s] = req[s] /\ TablesKept
    /\ Range(prog[s]) = {Head(prog[s])} \cup Range(Tail(prog[s]))

\* s has begun a call.
Begun(s) ==
    /\ req[s] = Idle /\ req'[s] \in Request /\ prog'[s] = Program(req'[s])
    /\ TablesKept /\ UNCHANGED pending

DidRole(s) ==
    /\ Moved(s) /\ Head(prog[s]).do = "role" /\ req[s].op \notin {"removeRole", "setCanonical"}
    /\ newRoles[s] \subseteq newRoles'[s]
    /\ UNCHANGED <<locked, goneRoles, newBlocks, newChildren, newVk, victims>>

\* s has locked roles that are there and that nobody is removing.
DidLock(s, rs) ==
    /\ rs \subseteq Roles(s) /\ \A r \in rs : ~RoleGoing(s, r)
    /\ locked'[s] = locked[s] \cup rs

DidBlock(s, b, flags) ==
    /\ Moved(s) /\ Head(prog[s]).do = "block" /\ req[s].op \in {"putBlock", "putBlockBundle"}
    /\ Head(prog[s]).block = b
    /\ DidLock(s, Range(BlockRoles[b])) /\ ~RowBusy(s, b)
    /\ flags.canonical /\ Row(s, b) = NoRow => ~SlotBusy(s, b) /\ ~SlotTaken(s, b)
    /\ newBlocks'[s][b] = IF Row(s, b) = NoRow THEN flags ELSE newBlocks[s][b]
    /\ \A c \in Block \ {b} : newBlocks'[s][c] = newBlocks[s][c]
    /\ UNCHANGED <<newRoles, goneRoles, newChildren, newVk, victims>>

DidChild(s, b, r) ==
    /\ Moved(s) /\ Head(prog[s]).do = "child" /\ req[s].op \in {"putChildren", "putBlockBundle"}
    /\ Head(prog[s]).block = b /\ Head(prog[s]).role = r
    /\ DidLock(s, {r}) /\ Row(s, b) # NoRow
    /\ newChildren'[s] = newChildren[s] \cup ({<<b, r>>} \ children)
    /\ UNCHANGED <<newRoles, goneRoles, newBlocks, newVk, victims>>

DidVk(s) ==
    /\ Moved(s) /\ Head(prog[s]).do = "vk" /\ req[s].op = "putVerifierKeyObservation"
    /\ req[s].height \in Nat
    /\ DidLock(s, {VkRole})
    /\ \A o \in Others(s) : newVk[o] = NoRow
    /\ newVk'[s] = Least(req[s].height)
    /\ UNCHANGED <<newRoles, goneRoles, newBlocks, newChildren, victims>>

DidSelect(s) ==
    /\ Moved(s) /\ Head(prog[s]).do = "select" /\ prog'[s] # <<>>
    /\ req[s].op = "setCanonical" /\ req[s].block \in Block
    /\ victims'[s] = {c \in AtHeightOf(req[s].block) : Canonical(blocks[c])}
    /\ UNCHANGED <<locked, newRoles, goneRoles, newBlocks, newChildren, newVk>>

DidOrphan(s) ==
    /\ Moved(s) /\ Head(prog[s]).do = "orphan" /\ prog'[s] # <<>> /\ req[s].op = "setCanonical"
    /\ \A c \in victims[s] : ~RowBusy(s, c)
    /\ \A c \in Block :
          IF c \in victims[s] /\ blocks[c].canonical
          THEN ~blocks[c].finalized /\ newBlocks'[s][c] = [blocks[c] EXCEPT !.canonical = FALSE]
          ELSE newBlocks'[s][c] = newBlocks[s][c]
    /\ victims'[s] = {}
    /\ UNCHANGED <<locked, newRoles, goneRoles, newChildren, newVk>>

DidMark(s, b) ==
    /\ Moved(s) /\ Head(prog[s]).do = "mark" /\ req[s].op = "setCanonical" /\ req[s].block = b
    /\ blocks[b] # NoRow /\ ~RowBusy(s, b) /\ ~SlotBusy(s, b) /\ ~SlotTaken(s, b)
    /\ newBlocks'[s][b] \in Flags /\ newBlocks'[s][b].canonical
    /\ blocks[b].finalized => newBlocks'[s][b].finalized
    /\ \A c \in Block \ {b} : newBlocks'[s][c] = newBlocks[s][c]
    /\ UNCHANGED <<locked, newRoles, goneRoles, newChildren, newVk, victims>>

DidRemove(s, r) ==
    /\ Moved(s) /\ Head(prog[s]).do = "remove" /\ req[s].op = "removeRole"
    /\ \A o \in Others(s) : r \notin locked[o] \cup goneRoles[o]
    /\ r \in roles => ~InUse(r)
    /\ goneRoles'[s] = {r} \cap roles
    /\ UNCHANGED <<locked, newRoles, newBlocks, newChildren, newVk, victims>>

\* s is rid of its transaction.
Over(s) == req'[s] = Idle /\ prog'[s] = <<>> /\ Fresh(s)'

Committed(s) ==
    /\ Over(s) /\ req[s] # Idle /\ prog[s] = <<>>
    /\ roles' = Roles(s) /\ children' = Children(s)
    /\ \A b \in Block : blocks'[b] = Row(s, b)
    /\ vk' = IF newVk[s] = NoRow THEN vk ELSE newVk[s]

\* What a step of s comes to.
Did(s) ==
    \/ Begun(s) \/ DidRole(s)
    \/ \E b \in Block, flags \in Flags : DidBlock(s, b, flags)
    \/ \E b \in Block, r \in Role : DidChild(s, b, r)
    \/ DidVk(s) \/ DidSelect(s) \/ DidOrphan(s)
    \/ \E b \in Block : DidMark(s, b)
    \/ \E r \in Role : DidRemove(s, r)
    \/ Committed(s) \/ (Over(s) /\ TablesKept)

\* The variables of one session that a step may write, for the others.
LEMMA OthersKept ==
    ASSUME TypeOK, NEW s \in Session, NEW o \in Others(s), Advance(s),
           locked'[o] = locked[o], newRoles'[o] = newRoles[o], goneRoles'[o] = goneRoles[o],
           newBlocks'[o] = newBlocks[o], newChildren'[o] = newChildren[o],
           newVk'[o] = newVk[o], victims'[o] = victims[o]
    PROVE  Untouched(o)
<1>1. o \in Session /\ o # s
  BY DEF Others
<1>2. req'[o] = req[o] /\ prog'[o] = prog[o]
  BY <1>1, Domains DEF Advance
<1> QED
  BY <1>2 DEF Untouched

\* Advancing is past the statement.
LEMMA AdvanceMoves ==
    ASSUME ScriptInv, NEW s \in Session, NEW kind, Runs(s, kind), Advance(s)
    PROVE  Moved(s)
<1>1. TypeOK
  BY DEF ScriptInv
<1>2. /\ prog[s] # <<>> /\ req[s] \in Request
      /\ Range(prog[s]) = {Head(prog[s])} \cup Range(Tail(prog[s]))
  BY Running
<1>3. prog'[s] = Tail(prog[s]) /\ req'[s] = req[s]
  BY <1>1, Domains DEF Advance
<1>4. TablesKept
  BY DEF Advance, committed, TablesKept
<1> QED
  BY <1>2, <1>3, <1>4 DEF Moved

\* A statement that raises ends the transaction and changes no table.
LEMMA FaultDid ==
    ASSUME ScriptInv, NEW s \in Session, Fault(s)
    PROVE  Did(s) /\ \A o \in Others(s) : Untouched(o)
<1>1. TypeOK
  BY DEF ScriptInv
<1>2. End(s) /\ TablesKept
  BY DEF Fault, TablesKept, committed
<1>3. Over(s) /\ \A o \in Others(s) : Untouched(o)
  BY <1>1, <1>2, Ends DEF Over
<1> QED
  BY <1>2, <1>3 DEF Did

\* Begin.
LEMMA BeginDid ==
    ASSUME ScriptInv, NEW s \in Session, Begin(s)
    PROVE  Did(s) /\ \A o \in Others(s) : Untouched(o)
<1>1. TypeOK
  BY DEF ScriptInv
<1>2. PICK q \in Request : req' = [req EXCEPT ![s] = q] /\ prog' = [prog EXCEPT ![s] = Program(q)]
  BY DEF Begin
<1>3. req'[s] = q /\ prog'[s] = Program(q)
  BY <1>1, <1>2, Domains
<1>4. req[s] = Idle /\ TablesKept /\ UNCHANGED pending
  BY DEF Begin, TablesKept, committed
<1>5. Begun(s)
  BY <1>3, <1>4 DEF Begun
<1>6. ASSUME NEW o \in Others(s) PROVE Untouched(o)
  <2>1. o \in Session /\ o # s
    BY DEF Others
  <2>2. req'[o] = req[o] /\ prog'[o] = prog[o]
    BY <1>1, <1>2, <2>1, Domains
  <2> QED
    BY <1>4, <2>2 DEF Untouched, pending
<1> QED
  BY <1>5, <1>6 DEF Did

\* PutRole.
LEMMA PutRoleDid ==
    ASSUME ScriptInv, NEW s \in Session, PutRole(s)
    PROVE  Did(s) /\ \A o \in Others(s) : Untouched(o)
<1>1. TypeOK
  BY DEF ScriptInv
<1>2. /\ Advance(s) /\ Runs(s, "role")
      /\ UNCHANGED <<locked, goneRoles, newBlocks, newChildren, newVk, victims>>
  BY DEF PutRole
<1>3. PICK X : newRoles' = [newRoles EXCEPT ![s] = newRoles[s] \cup X]
  BY DEF PutRole
<1>4. newRoles[s] \subseteq newRoles'[s]
  BY <1>1, <1>3, Domains
<1>5. Moved(s) /\ Head(prog[s]).do = "role"
  BY <1>2, AdvanceMoves DEF Runs
<1>6. ASSUME NEW o \in Others(s) PROVE Untouched(o)
  <2>1. newRoles'[o] = newRoles[o]
    BY <1>1, <1>3, Domains DEF Others
  <2> QED
    BY <1>1, <1>2, <2>1, OthersKept
<1>7. Fits(req[s], Head(prog[s]))
  BY <1>2, Running
<1>8. req[s].op \notin {"removeRole", "setCanonical"}
  BY <1>5, <1>7 DEF Fits
<1> QED
  BY <1>2, <1>4, <1>5, <1>6, <1>8 DEF Did, DidRole

\* InsertBlock.
LEMMA InsertBlockDid ==
    ASSUME ScriptInv, NEW s \in Session, InsertBlock(s)
    PROVE  Did(s) /\ \A o \in Others(s) : Untouched(o)
<1>1. TypeOK /\ Runs(s, "block")
  BY DEF ScriptInv, InsertBlock
<1>2. Fits(req[s], Head(prog[s])) /\ Head(prog[s]).do = "block"
  BY <1>1, Running
<1>3. PICK b : b = Head(prog[s]).block
  OBVIOUS
<1>4. PICK flags : flags = Head(prog[s]).flags
  OBVIOUS
<1>5. b \in Block /\ flags \in Flags /\ req[s].op \in {"putBlock", "putBlockBundle"}
  BY <1>2, <1>3, <1>4 DEF Fits
<1>6. CASE Fault(s)
  BY <1>6, FaultDid
<1>7. CASE ~Fault(s)
  <2>1. \A r \in Range(BlockRoles[b]) : ~RoleGoing(s, r)
    BY <1>3 DEF InsertBlock
  <2>2. /\ ~RowBusy(s, b)
        /\ flags.canonical /\ Row(s, b) = NoRow => ~SlotBusy(s, b) /\ ~SlotTaken(s, b)
        /\ LockRole(s, Range(BlockRoles[b]))
        /\ newBlocks' = [newBlocks EXCEPT ![s][b] =
                            IF Row(s, b) = NoRow THEN flags ELSE newBlocks[s][b]]
        /\ Advance(s)
        /\ UNCHANGED <<newRoles, goneRoles, newChildren, newVk, victims>>
    BY <1>3, <1>4, <1>7 DEF InsertBlock
  <2>3. DidLock(s, Range(BlockRoles[b]))
    BY <1>1, <2>1, <2>2, Domains DEF LockRole, DidLock
  <2>4. PICK v : v = IF Row(s, b) = NoRow THEN flags ELSE newBlocks[s][b]
    OBVIOUS
  <2>5. newBlocks' = [newBlocks EXCEPT ![s][b] = v]
    BY <2>2, <2>4
  <2>6. newBlocks'[s][b] = v /\ \A c \in Block \ {b} : newBlocks'[s][c] = newBlocks[s][c]
    BY <1>1, <1>5, <2>5, Domains
  <2>7. Moved(s)
    BY <1>1, <2>2, AdvanceMoves
  <2>8. ASSUME NEW o \in Others(s) PROVE Untouched(o)
    <3>1. newBlocks'[o] = newBlocks[o]
      BY <1>1, <2>5, Domains DEF Others
    <3>2. locked'[o] = locked[o]
      BY <1>1, <2>2, Domains DEF Others, LockRole
    <3> QED
      BY <1>1, <2>2, <3>1, <3>2, OthersKept
  <2>9. DidBlock(s, b, flags)
    BY <1>2, <1>3, <1>5, <2>2, <2>3, <2>4, <2>6, <2>7 DEF DidBlock
  <2> QED
    BY <1>5, <2>8, <2>9 DEF Did
<1> QED
  BY <1>6, <1>7

\* InsertChild.
LEMMA InsertChildDid ==
    ASSUME ScriptInv, NEW s \in Session, InsertChild(s)
    PROVE  Did(s) /\ \A o \in Others(s) : Untouched(o)
<1>1. TypeOK /\ Runs(s, "child")
  BY DEF ScriptInv, InsertChild
<1>2. Fits(req[s], Head(prog[s])) /\ Head(prog[s]).do = "child"
  BY <1>1, Running
<1>3. PICK b : b = Head(prog[s]).block
  OBVIOUS
<1>4. PICK r : r = Head(prog[s]).role
  OBVIOUS
<1>5. b \in Block /\ r \in Role /\ req[s].op \in {"putChildren", "putBlockBundle"}
  BY <1>2, <1>3, <1>4 DEF Fits
<1>6. CASE Fault(s)
  BY <1>6, FaultDid
<1>7. CASE ~Fault(s)
  <2>1. ~RoleGoing(s, r)
    BY <1>4 DEF InsertChild
  <2>2. /\ Row(s, b) # NoRow /\ LockRole(s, {r})
        /\ newChildren' = [newChildren EXCEPT ![s] = newChildren[s] \cup ({<<b, r>>} \ children)]
        /\ Advance(s)
        /\ UNCHANGED <<newRoles, goneRoles, newBlocks, newVk, victims>>
    BY <1>3, <1>4, <1>7 DEF InsertChild
  <2>3. DidLock(s, {r})
    BY <1>1, <2>1, <2>2, Domains DEF LockRole, DidLock
  <2>4. newChildren'[s] = newChildren[s] \cup ({<<b, r>>} \ children)
    BY <1>1, <2>2, Domains
  <2>5. Moved(s)
    BY <1>1, <2>2, AdvanceMoves
  <2>6. ASSUME NEW o \in Others(s) PROVE Untouched(o)
    <3>1. newChildren'[o] = newChildren[o]
      BY <1>1, <2>2, Domains DEF Others
    <3>2. locked'[o] = locked[o]
      BY <1>1, <2>2, Domains DEF Others, LockRole
    <3> QED
      BY <1>1, <2>2, <3>1, <3>2, OthersKept
  <2>7. DidChild(s, b, r)
    BY <1>2, <1>3, <1>4, <1>5, <2>2, <2>3, <2>4, <2>5 DEF DidChild
  <2> QED
    BY <1>5, <2>6, <2>7 DEF Did
<1> QED
  BY <1>6, <1>7

\* UpsertVk.
LEMMA UpsertVkDid ==
    ASSUME ScriptInv, NEW s \in Session, UpsertVk(s)
    PROVE  Did(s) /\ \A o \in Others(s) : Untouched(o)
<1>1. TypeOK /\ Runs(s, "vk")
  BY DEF ScriptInv, UpsertVk
<1>2. Fits(req[s], Head(prog[s])) /\ Head(prog[s]).do = "vk"
  BY <1>1, Running
<1>3. /\ req[s].op = "putVerifierKeyObservation" /\ Head(prog[s]).height = req[s].height
      /\ req[s].height \in Nat
  BY <1>2 DEF Fits
<1>4. CASE Fault(s)
  BY <1>4, FaultDid
<1>5. CASE ~Fault(s)
  <2>1. ~RoleGoing(s, VkRole)
    BY DEF UpsertVk
  <2>2. /\ \A o \in Others(s) : newVk[o] = NoRow
        /\ LockRole(s, {VkRole})
        /\ newVk' = [newVk EXCEPT ![s] = Least(Head(prog[s]).height)]
        /\ Advance(s)
        /\ UNCHANGED <<newRoles, goneRoles, newBlocks, newChildren, victims>>
    BY <1>5 DEF UpsertVk
  <2>3. DidLock(s, {VkRole})
    BY <1>1, <2>1, <2>2, Domains DEF LockRole, DidLock
  <2>4. newVk'[s] = Least(req[s].height)
    BY <1>1, <1>3, <2>2, Domains
  <2>5. Moved(s)
    BY <1>1, <2>2, AdvanceMoves
  <2>6. ASSUME NEW o \in Others(s) PROVE Untouched(o)
    <3>1. newVk'[o] = newVk[o]
      BY <1>1, <2>2, Domains DEF Others
    <3>2. locked'[o] = locked[o]
      BY <1>1, <2>2, Domains DEF Others, LockRole
    <3> QED
      BY <1>1, <2>2, <3>1, <3>2, OthersKept
  <2>7. DidVk(s)
    BY <1>2, <1>3, <2>2, <2>3, <2>4, <2>5 DEF DidVk
  <2> QED
    BY <2>6, <2>7 DEF Did
<1> QED
  BY <1>4, <1>5

\* SelectCanonical.
LEMMA SelectDid ==
    ASSUME ScriptInv, NEW s \in Session, SelectCanonical(s)
    PROVE  Did(s) /\ \A o \in Others(s) : Untouched(o)
<1>1. /\ TypeOK /\ Runs(s, "select") /\ Advance(s)
      /\ UNCHANGED <<locked, newRoles, goneRoles, newBlocks, newChildren, newVk>>
  BY DEF ScriptInv, SelectCanonical
<1>2. /\ req[s].op = "setCanonical" /\ req[s].block \in Block
      /\ Head(prog[s]).block = req[s].block /\ Tail(prog[s]) # <<>>
  BY <1>1, Reorging
<1>3. Moved(s) /\ Head(prog[s]).do = "select"
  BY <1>1, AdvanceMoves DEF Runs
<1>4. PICK V : V = {c \in AtHeightOf(Head(prog[s]).block) : Canonical(blocks[c])}
  OBVIOUS
<1>5. victims' = [victims EXCEPT ![s] = V]
  BY <1>4 DEF SelectCanonical
<1>6. victims'[s] = V
  BY <1>1, <1>5, Domains
<1>7. victims'[s] = {c \in AtHeightOf(req[s].block) : Canonical(blocks[c])}
  BY <1>2, <1>4, <1>6
<1>8. ASSUME NEW o \in Others(s) PROVE Untouched(o)
  <2>1. victims'[o] = victims[o]
    BY <1>1, <1>5, Domains DEF Others
  <2> QED
    BY <1>1, <2>1, OthersKept
<1>9. prog'[s] # <<>>
  BY <1>2, <1>3 DEF Moved
<1>10. DidSelect(s)
  BY <1>1, <1>2, <1>3, <1>7, <1>9 DEF DidSelect
<1> QED
  BY <1>8, <1>10 DEF Did

\* Orphan.
LEMMA OrphanDid ==
    ASSUME ScriptInv, NEW s \in Session, Orphan(s)
    PROVE  Did(s) /\ \A o \in Others(s) : Untouched(o)
<1>1. TypeOK /\ Runs(s, "orphan") /\ \A c \in victims[s] : ~RowBusy(s, c)
  BY DEF ScriptInv, Orphan
<1>2. req[s].op = "setCanonical" /\ Tail(prog[s]) # <<>>
  BY <1>1, Reorging
<1>3. CASE Fault(s)
  BY <1>3, FaultDid
<1>4. CASE ~Fault(s)
  <2>1. PICK still : still = {c \in victims[s] : blocks[c].canonical}
    OBVIOUS
  <2>2. PICK t : t = [c \in Block |-> IF c \in still THEN [blocks[c] EXCEPT !.canonical = FALSE]
                                     ELSE newBlocks[s][c]]
    OBVIOUS
  <2>3. /\ \A c \in still : ~blocks[c].finalized
        /\ newBlocks' = [newBlocks EXCEPT ![s] = t]
        /\ victims' = [victims EXCEPT ![s] = {}]
        /\ Advance(s)
        /\ UNCHANGED <<locked, newRoles, goneRoles, newChildren, newVk>>
    BY <1>4, <2>1, <2>2 DEF Orphan
  <2>4. newBlocks'[s] = t /\ victims'[s] = {}
    BY <1>1, <2>3, Domains
  <2>5. ASSUME NEW c \in Block
        PROVE  IF c \in victims[s] /\ blocks[c].canonical
               THEN ~blocks[c].finalized /\ newBlocks'[s][c] = [blocks[c] EXCEPT !.canonical = FALSE]
               ELSE newBlocks'[s][c] = newBlocks[s][c]
    <3>1. newBlocks'[s][c] = IF c \in still THEN [blocks[c] EXCEPT !.canonical = FALSE]
                             ELSE newBlocks[s][c]
      BY <2>2, <2>4
    <3>2. c \in still <=> c \in victims[s] /\ blocks[c].canonical
      BY <2>1
    <3>3. CASE c \in still
      BY <2>3, <3>1, <3>2, <3>3
    <3>4. CASE c \notin still
      BY <3>1, <3>2, <3>4
    <3> QED
      BY <3>3, <3>4
  <2>6. Moved(s) /\ Head(prog[s]).do = "orphan"
    BY <1>1, <2>3, AdvanceMoves DEF Runs
  <2>7. prog'[s] # <<>>
    BY <1>2, <2>6 DEF Moved
  <2>8. ASSUME NEW o \in Others(s) PROVE Untouched(o)
    <3>1. newBlocks'[o] = newBlocks[o] /\ victims'[o] = victims[o]
      BY <1>1, <2>3, Domains DEF Others
    <3> QED
      BY <1>1, <2>3, <3>1, OthersKept
  <2>9. DidOrphan(s)
    BY <1>1, <1>2, <2>3, <2>4, <2>5, <2>6, <2>7 DEF DidOrphan
  <2> QED
    BY <2>8, <2>9 DEF Did
<1> QED
  BY <1>3, <1>4

\* Mark.
LEMMA MarkDid ==
    ASSUME ScriptInv, NEW s \in Session, Mark(s)
    PROVE  Did(s) /\ \A o \in Others(s) : Untouched(o)
<1>1. TypeOK /\ Runs(s, "mark")
  BY DEF ScriptInv, Mark
<1>2. /\ req[s].op = "setCanonical" /\ req[s].block \in Block
      /\ Head(prog[s]).block = req[s].block
      /\ Head(prog[s]).finalized \in BOOLEAN \cup {NoRow}
  BY <1>1, Reorging
<1>3. PICK b \in Block : b = req[s].block
  BY <1>2
<1>4. PICK to \in BOOLEAN \cup {NoRow} : to = Head(prog[s]).finalized
  BY <1>2
<1>5. CASE Fault(s)
  BY <1>5, FaultDid
<1>6. CASE ~Fault(s)
  <2>1. PICK f : f = IF to = NoRow THEN blocks[b].finalized ELSE to
    OBVIOUS
  <2>2. /\ blocks[b] # NoRow /\ ~RowBusy(s, b) /\ ~SlotBusy(s, b) /\ ~SlotTaken(s, b)
        /\ blocks[b].finalized => to # FALSE
        /\ newBlocks' = [newBlocks EXCEPT ![s][b] = [canonical |-> TRUE, finalized |-> f]]
        /\ Advance(s)
        /\ UNCHANGED <<locked, newRoles, goneRoles, newChildren, newVk, victims>>
    BY <1>2, <1>3, <1>4, <1>6, <2>1 DEF Mark
  <2>3. blocks[b].finalized \in BOOLEAN
    BY <1>1, <2>2 DEF TypeOK, BlockTable, Flags
  <2>4. f \in BOOLEAN /\ (blocks[b].finalized => f)
    BY <2>1, <2>2, <2>3
  <2>5. PICK row \in Flags : row = [canonical |-> TRUE, finalized |-> f]
    BY <2>4 DEF Flags
  <2>6. row.canonical /\ (blocks[b].finalized => row.finalized)
    BY <2>4, <2>5
  <2>7. newBlocks'[s][b] = row /\ \A c \in Block \ {b} : newBlocks'[s][c] = newBlocks[s][c]
    BY <1>1, <2>2, <2>5, Domains
  <2>8. newBlocks'[s][b] \in Flags /\ newBlocks'[s][b].canonical
        /\ (blocks[b].finalized => newBlocks'[s][b].finalized)
    BY <2>6, <2>7
  <2>9. Moved(s) /\ Head(prog[s]).do = "mark"
    BY <1>1, <2>2, AdvanceMoves DEF Runs
  <2>10. ASSUME NEW o \in Others(s) PROVE Untouched(o)
    <3>1. newBlocks'[o] = newBlocks[o]
      BY <1>1, <2>2, Domains DEF Others
    <3> QED
      BY <1>1, <2>2, <3>1, OthersKept
  <2>11. DidMark(s, b)
    BY <1>2, <1>3, <2>2, <2>7, <2>8, <2>9 DEF DidMark
  <2> QED
    BY <2>10, <2>11 DEF Did
<1> QED
  BY <1>5, <1>6

\* RemoveRole.
LEMMA RemoveRoleDid ==
    ASSUME ScriptInv, NEW s \in Session, RemoveRole(s)
    PROVE  Did(s) /\ \A o \in Others(s) : Untouched(o)
<1>1. TypeOK /\ Runs(s, "remove")
  BY DEF ScriptInv, RemoveRole
<1>2. Fits(req[s], Head(prog[s])) /\ Head(prog[s]).do = "remove"
  BY <1>1, Running
<1>3. PICK r : r = Head(prog[s]).role
  OBVIOUS
<1>4. req[s].op = "removeRole" /\ r \in Role
  BY <1>2, <1>3 DEF Fits
<1>5. CASE Fault(s)
  BY <1>5, FaultDid
<1>6. CASE ~Fault(s)
  <2>1. /\ \A o \in Others(s) : r \notin locked[o] \cup goneRoles[o]
        /\ r \in roles => ~InUse(r)
        /\ goneRoles' = [goneRoles EXCEPT ![s] = {r} \cap roles]
        /\ Advance(s)
        /\ UNCHANGED <<locked, newRoles, newBlocks, newChildren, newVk, victims>>
    BY <1>3, <1>6 DEF RemoveRole
  <2>2. goneRoles'[s] = {r} \cap roles
    BY <1>1, <2>1, Domains
  <2>3. Moved(s)
    BY <1>1, <2>1, AdvanceMoves
  <2>4. ASSUME NEW o \in Others(s) PROVE Untouched(o)
    <3>1. goneRoles'[o] = goneRoles[o]
      BY <1>1, <2>1, Domains DEF Others
    <3> QED
      BY <1>1, <2>1, <3>1, OthersKept
  <2>5. DidRemove(s, r)
    BY <1>2, <1>4, <2>1, <2>2, <2>3 DEF DidRemove
  <2> QED
    BY <1>4, <2>4, <2>5 DEF Did
<1> QED
  BY <1>5, <1>6

\* Commit.
LEMMA CommitDid ==
    ASSUME ScriptInv, NEW s \in Session, Commit(s)
    PROVE  Did(s) /\ \A o \in Others(s) : Untouched(o)
<1>1. TypeOK /\ End(s)
  BY DEF ScriptInv, Commit
<1>2. Over(s) /\ \A o \in Others(s) : Untouched(o)
  BY <1>1, Ends DEF Over
<1>3. \A b \in Block : blocks'[b] = Row(s, b)
  BY DEF Commit
<1>4. Committed(s)
  BY <1>2, <1>3 DEF Commit, Committed
<1> QED
  BY <1>2, <1>4 DEF Did

\* Every step of a session comes to one of these, and concerns no other session.
LEMMA StepDid ==
    ASSUME ScriptInv, NEW s \in Session, Step(s)
    PROVE  Did(s) /\ \A o \in Others(s) : Untouched(o)
<1>1. CASE Rollback(s)
  BY <1>1, FaultDid DEF Rollback
<1> QED
  BY <1>1, BeginDid, PutRoleDid, InsertBlockDid, InsertChildDid, UpsertVkDid, SelectDid, OrphanDid,
     MarkDid, RemoveRoleDid, CommitDid DEF Step

\* The types of what a statement may write.
PendingTypes ==
    /\ locked \in [Session -> SUBSET Role] /\ newRoles \in [Session -> SUBSET Role]
    /\ goneRoles \in [Session -> SUBSET Role] /\ newBlocks \in [Session -> BlockTable]
    /\ newChildren \in [Session -> SUBSET (Block \X Role)]
    /\ newVk \in [Session -> Nat \cup {NoRow}] /\ victims \in [Session -> SUBSET Block]

\* A statement that keeps the types of what it writes keeps all.
LEMMA AdvanceTypes ==
    ASSUME ScriptInv, NEW s \in Session, NEW kind, Runs(s, kind), Advance(s), PendingTypes'
    PROVE  TypeOK'
<1>1. Tail(prog[s]) \in Seq(Statement) /\ TypeOK
  BY Running DEF ScriptInv
<1>2. prog' \in [Session -> Seq(Statement)]
  BY <1>1 DEF TypeOK, Advance
<1>3. req' \in [Session -> Request \cup {Idle}]
  BY <1>1 DEF TypeOK, Advance
<1>4. /\ roles' \subseteq Role /\ blocks' \in BlockTable
      /\ children' \subseteq Block \X Role /\ vk' \in Nat \cup {NoRow}
  BY <1>1 DEF TypeOK, Advance, committed
<1> QED
  BY <1>2, <1>3, <1>4 DEF TypeOK, PendingTypes

\* The trigger locks roles.
LEMMA LockTypes ==
    ASSUME TypeOK, NEW s \in Session, NEW rs, LockRole(s, rs)
    PROVE  locked' \in [Session -> SUBSET Role]
<1>1. roles \subseteq Role /\ newRoles[s] \subseteq Role /\ locked[s] \subseteq Role
  BY DEF TypeOK
<1>2. rs \subseteq Role
  BY <1>1 DEF LockRole, Roles
<1>3. locked[s] \cup rs \in SUBSET Role
  BY <1>1, <1>2
<1> QED
  BY <1>3 DEF LockRole, TypeOK

\* A transaction that fails keeps the types.
LEMMA FaultTypes ==
    ASSUME TypeOK, NEW s \in Session, Fault(s)
    PROVE  TypeOK'
<1>1. /\ roles' \subseteq Role /\ blocks' \in BlockTable
      /\ children' \subseteq Block \X Role /\ vk' \in Nat \cup {NoRow}
  BY DEF TypeOK, Fault, committed
<1> QED
  BY <1>1, EndTypes DEF Fault

\* A row that is seen is a row.
LEMMA RowTypes ==
    ASSUME TypeOK, NEW s \in Session, NEW b \in Block
    PROVE  /\ Row(s, b) \in Flags \cup {NoRow}
           /\ blocks[b] \in Flags \cup {NoRow} /\ newBlocks[s][b] \in Flags \cup {NoRow}
<1>1. blocks \in BlockTable /\ newBlocks[s] \in BlockTable
  BY DEF TypeOK
<1>2. blocks[b] \in Flags \cup {NoRow} /\ newBlocks[s][b] \in Flags \cup {NoRow}
  BY <1>1 DEF BlockTable
<1> QED
  BY <1>2 DEF Row

\* A row written into a session's table.
LEMMA WriteTypes ==
    ASSUME TypeOK, NEW s \in Session, NEW b \in Block, NEW v \in Flags \cup {NoRow},
           newBlocks' = [newBlocks EXCEPT ![s][b] = v]
    PROVE  newBlocks' \in [Session -> BlockTable]
<1>1. newBlocks[s] \in BlockTable /\ newBlocks \in [Session -> BlockTable]
  BY DEF TypeOK
<1>2. [newBlocks[s] EXCEPT ![b] = v] \in BlockTable
  BY <1>1 DEF BlockTable
<1> QED
  BY <1>1, <1>2

\* Begin, PutRole and RemoveRole.
LEMMA SimpleTypes ==
    ASSUME ScriptInv, NEW s \in Session, Begin(s) \/ PutRole(s) \/ RemoveRole(s)
    PROVE  TypeOK'
<1>1. TypeOK
  BY DEF ScriptInv
<1>2. CASE Begin(s)
  <2>1. PICK q \in Request : req' = [req EXCEPT ![s] = q] /\ prog' = [prog EXCEPT ![s] = Program(q)]
    BY <1>2 DEF Begin
  <2>2. Program(q) \in Seq(Statement)
    BY ProgramFits
  <2>3. req' \in [Session -> Request \cup {Idle}] /\ prog' \in [Session -> Seq(Statement)]
    BY <1>1, <2>1, <2>2 DEF TypeOK
  <2>4. UNCHANGED <<committed, pending>>
    BY <1>2 DEF Begin
  <2> QED
    BY <1>1, <2>3, <2>4 DEF TypeOK, committed, pending
<1>3. CASE PutRole(s)
  <2>1. PICK r : r = Head(prog[s]).role
    OBVIOUS
  <2>2. Runs(s, "role") /\ Advance(s)
        /\ UNCHANGED <<locked, goneRoles, newBlocks, newChildren, newVk, victims>>
        /\ newRoles' = [newRoles EXCEPT ![s] = newRoles[s] \cup ({r} \ Roles(s))]
    BY <1>3, <2>1 DEF PutRole
  <2>3. Fits(req[s], Head(prog[s])) /\ Head(prog[s]).do = "role"
    BY <2>2, Running
  <2>4. r \in Role
    BY <2>1, <2>3 DEF Fits
  <2>5. newRoles[s] \cup ({r} \ Roles(s)) \in SUBSET Role
    BY <1>1, <2>4 DEF TypeOK
  <2>6. newRoles' \in [Session -> SUBSET Role]
    BY <1>1, <2>2, <2>5 DEF TypeOK
  <2>7. PendingTypes'
    BY <1>1, <2>2, <2>6 DEF TypeOK, PendingTypes
  <2> QED
    BY <2>2, <2>7, AdvanceTypes
<1>4. CASE RemoveRole(s)
  <2>1. CASE Fault(s)
    BY <1>1, <2>1, FaultTypes
  <2>2. CASE ~Fault(s)
    <3>1. PICK r : r = Head(prog[s]).role
      OBVIOUS
    <3>2. Runs(s, "remove") /\ Advance(s)
          /\ UNCHANGED <<locked, newRoles, newBlocks, newChildren, newVk, victims>>
          /\ goneRoles' = [goneRoles EXCEPT ![s] = {r} \cap roles]
      BY <1>4, <2>2, <3>1 DEF RemoveRole
    <3>3. {r} \cap roles \in SUBSET Role
      BY <1>1 DEF TypeOK
    <3>4. goneRoles' \in [Session -> SUBSET Role]
      BY <1>1, <3>2, <3>3 DEF TypeOK
    <3>5. PendingTypes'
      BY <1>1, <3>2, <3>4 DEF TypeOK, PendingTypes
    <3> QED
      BY <3>2, <3>5, AdvanceTypes
  <2> QED
    BY <2>1, <2>2
<1> QED
  BY <1>2, <1>3, <1>4

\* InsertBlock, InsertChild and UpsertVk.
LEMMA InsertTypes ==
    ASSUME ScriptInv, NEW s \in Session, InsertBlock(s) \/ InsertChild(s) \/ UpsertVk(s)
    PROVE  TypeOK'
<1>1. TypeOK
  BY DEF ScriptInv
<1>2. CASE Fault(s)
  BY <1>1, <1>2, FaultTypes
<1>3. CASE ~Fault(s) /\ InsertBlock(s)
  <2>1. PICK b : b = Head(prog[s]).block
    OBVIOUS
  <2>2. PICK flags : flags = Head(prog[s]).flags
    OBVIOUS
  <2>3. PICK v : v = IF Row(s, b) = NoRow THEN flags ELSE newBlocks[s][b]
    OBVIOUS
  <2>4. /\ LockRole(s, Range(BlockRoles[b]))
        /\ newBlocks' = [newBlocks EXCEPT ![s][b] = v]
        /\ Runs(s, "block") /\ Advance(s)
        /\ UNCHANGED <<newRoles, goneRoles, newChildren, newVk, victims>>
    BY <1>3, <2>1, <2>2, <2>3 DEF InsertBlock
  <2>5. Fits(req[s], Head(prog[s])) /\ Head(prog[s]).do = "block"
    BY <2>4, Running
  <2>6. b \in Block /\ flags \in Flags
    BY <2>1, <2>2, <2>5 DEF Fits
  <2>7. v \in Flags \cup {NoRow}
    BY <1>1, <2>3, <2>6, RowTypes
  <2>8. newBlocks' \in [Session -> BlockTable]
    BY <1>1, <2>4, <2>6, <2>7, WriteTypes
  <2>9. locked' \in [Session -> SUBSET Role]
    BY <1>1, <2>4, LockTypes
  <2>10. PendingTypes'
    BY <1>1, <2>4, <2>8, <2>9 DEF TypeOK, PendingTypes
  <2> QED
    BY <2>4, <2>10, AdvanceTypes
<1>4. CASE ~Fault(s) /\ InsertChild(s)
  <2>1. PICK b : b = Head(prog[s]).block
    OBVIOUS
  <2>2. PICK r : r = Head(prog[s]).role
    OBVIOUS
  <2>3. /\ LockRole(s, {r})
        /\ newChildren' = [newChildren EXCEPT ![s] = newChildren[s] \cup ({<<b, r>>} \ children)]
        /\ Runs(s, "child") /\ Advance(s)
        /\ UNCHANGED <<newRoles, goneRoles, newBlocks, newVk, victims>>
    BY <1>4, <2>1, <2>2 DEF InsertChild
  <2>4. Fits(req[s], Head(prog[s])) /\ Head(prog[s]).do = "child"
    BY <2>3, Running
  <2>5. b \in Block /\ r \in Role
    BY <2>1, <2>2, <2>4 DEF Fits
  <2>6. newChildren[s] \cup ({<<b, r>>} \ children) \in SUBSET (Block \X Role)
    <3>1. <<b, r>> \in Block \X Role /\ newChildren[s] \subseteq Block \X Role
      BY <1>1, <2>5 DEF TypeOK
    <3> QED
      BY <3>1
  <2>7. newChildren' \in [Session -> SUBSET (Block \X Role)]
    BY <1>1, <2>3, <2>6 DEF TypeOK
  <2>8. locked' \in [Session -> SUBSET Role]
    BY <1>1, <2>3, LockTypes
  <2>9. PendingTypes'
    BY <1>1, <2>3, <2>7, <2>8 DEF TypeOK, PendingTypes
  <2> QED
    BY <2>3, <2>9, AdvanceTypes
<1>5. CASE ~Fault(s) /\ UpsertVk(s)
  <2>1. PICK h : h = Head(prog[s]).height
    OBVIOUS
  <2>2. /\ LockRole(s, {VkRole})
        /\ newVk' = [newVk EXCEPT ![s] = Least(h)]
        /\ Runs(s, "vk") /\ Advance(s)
        /\ UNCHANGED <<newRoles, goneRoles, newBlocks, newChildren, victims>>
    BY <1>5, <2>1 DEF UpsertVk
  <2>3. Fits(req[s], Head(prog[s])) /\ Head(prog[s]).do = "vk"
    BY <2>2, Running
  <2>4. h \in Nat
    BY <2>1, <2>3 DEF Fits
  <2>5. Least(h) \in Nat \cup {NoRow}
    BY <1>1, <2>4 DEF TypeOK, Least
  <2>6. newVk' \in [Session -> Nat \cup {NoRow}]
    BY <1>1, <2>2, <2>5 DEF TypeOK
  <2>7. locked' \in [Session -> SUBSET Role]
    BY <1>1, <2>2, LockTypes
  <2>8. PendingTypes'
    BY <1>1, <2>2, <2>6, <2>7 DEF TypeOK, PendingTypes
  <2> QED
    BY <2>2, <2>8, AdvanceTypes
<1> QED
  BY <1>2, <1>3, <1>4, <1>5

\* The statements of setCanonical.
LEMMA ReorgTypes ==
    ASSUME ScriptInv, NEW s \in Session, Selected(s),
           SelectCanonical(s) \/ Orphan(s) \/ Mark(s)
    PROVE  TypeOK'
<1>1. TypeOK
  BY DEF ScriptInv
<1>2. CASE Fault(s)
  BY <1>1, <1>2, FaultTypes
<1>3. CASE ~Fault(s) /\ SelectCanonical(s)
  <2>1. PICK V : V = {c \in AtHeightOf(Head(prog[s]).block) : Canonical(blocks[c])}
    OBVIOUS
  <2>2. /\ victims' = [victims EXCEPT ![s] = V] /\ Runs(s, "select") /\ Advance(s)
        /\ UNCHANGED <<locked, newRoles, goneRoles, newBlocks, newChildren, newVk>>
    BY <1>3, <2>1 DEF SelectCanonical
  <2>3. V \in SUBSET Block
    BY <2>1 DEF AtHeightOf
  <2>4. victims' \in [Session -> SUBSET Block]
    BY <1>1, <2>2, <2>3 DEF TypeOK
  <2>5. PendingTypes'
    BY <1>1, <2>2, <2>4 DEF TypeOK, PendingTypes
  <2> QED
    BY <2>2, <2>5, AdvanceTypes
<1>4. CASE ~Fault(s) /\ Orphan(s)
  <2>1. PICK still : still = {c \in victims[s] : blocks[c].canonical}
    OBVIOUS
  <2>2. PICK t : t = [c \in Block |-> IF c \in still THEN [blocks[c] EXCEPT !.canonical = FALSE]
                                     ELSE newBlocks[s][c]]
    OBVIOUS
  <2>3. /\ newBlocks' = [newBlocks EXCEPT ![s] = t]
        /\ victims' = [victims EXCEPT ![s] = {}]
        /\ Runs(s, "orphan") /\ Advance(s)
        /\ UNCHANGED <<locked, newRoles, goneRoles, newChildren, newVk>>
    BY <1>4, <2>1, <2>2 DEF Orphan
  <2>4. ASSUME NEW c \in Block
        PROVE  (IF c \in still THEN [blocks[c] EXCEPT !.canonical = FALSE] ELSE newBlocks[s][c])
                  \in Flags \cup {NoRow}
    <3>1. CASE c \in still
      <4>1. blocks[c] \in Flags
        BY <1>1, <2>1, <3>1, RowTypes DEF Selected
      <4>2. [blocks[c] EXCEPT !.canonical = FALSE] \in Flags
        BY <4>1 DEF Flags
      <4> QED
        BY <3>1, <4>2
    <3>2. CASE c \notin still
      BY <1>1, <3>2, RowTypes
    <3> QED
      BY <3>1, <3>2
  <2>5. t \in BlockTable
    BY <2>2, <2>4 DEF BlockTable
  <2>6. newBlocks' \in [Session -> BlockTable] /\ victims' \in [Session -> SUBSET Block]
    BY <1>1, <2>3, <2>5 DEF TypeOK
  <2>7. PendingTypes'
    BY <1>1, <2>3, <2>6 DEF TypeOK, PendingTypes
  <2> QED
    BY <2>3, <2>7, AdvanceTypes
<1>5. CASE ~Fault(s) /\ Mark(s)
  <2>1. PICK b : b = Head(prog[s]).block
    OBVIOUS
  <2>2. PICK to : to = Head(prog[s]).finalized
    OBVIOUS
  <2>3. PICK f : f = IF to = NoRow THEN blocks[b].finalized ELSE to
    OBVIOUS
  <2>4. /\ blocks[b] # NoRow
        /\ newBlocks' = [newBlocks EXCEPT ![s][b] = [canonical |-> TRUE, finalized |-> f]]
        /\ Runs(s, "mark") /\ Advance(s)
        /\ UNCHANGED <<locked, newRoles, goneRoles, newChildren, newVk, victims>>
    BY <1>5, <2>1, <2>2, <2>3 DEF Mark
  <2>5. b \in Block /\ to \in BOOLEAN \cup {NoRow}
    BY <2>1, <2>2, <2>4, Reorging
  <2>6. blocks[b].finalized \in BOOLEAN
    BY <1>1, <2>4, <2>5, RowTypes DEF Flags
  <2>7. f \in BOOLEAN
    BY <2>3, <2>5, <2>6
  <2>8. [canonical |-> TRUE, finalized |-> f] \in Flags \cup {NoRow}
    BY <2>7 DEF Flags
  <2>9. newBlocks' \in [Session -> BlockTable]
    BY <1>1, <2>4, <2>5, <2>8, WriteTypes
  <2>10. PendingTypes'
    BY <1>1, <2>4, <2>9 DEF TypeOK, PendingTypes
  <2> QED
    BY <2>4, <2>10, AdvanceTypes
<1> QED
  BY <1>2, <1>3, <1>4, <1>5

\* Every step keeps the types.
LEMMA StepTypes ==
    ASSUME ScriptInv, NEW s \in Session, Selected(s), Step(s)
    PROVE  TypeOK'
<1>1. TypeOK
  BY DEF ScriptInv
<1>2. CASE Commit(s)
  <2>1. roles' \subseteq Role
    BY <1>1, <1>2 DEF Commit, Roles, TypeOK
  <2>2. blocks' \in BlockTable
    BY <1>1, <1>2, RowTypes DEF Commit, BlockTable
  <2>3. children' \subseteq Block \X Role
    BY <1>1, <1>2 DEF Commit, Children, TypeOK
  <2>4. vk' \in Nat \cup {NoRow}
    BY <1>1, <1>2 DEF Commit, TypeOK
  <2> QED
    BY <1>1, <1>2, <2>1, <2>2, <2>3, <2>4, EndTypes DEF Commit
<1>3. CASE Rollback(s)
  BY <1>1, <1>3, FaultTypes DEF Rollback
<1> QED
  BY <1>2, <1>3, SimpleTypes, InsertTypes, ReorgTypes DEF Step

\* Every step keeps to the methods.
LEMMA StepScripts ==
    ASSUME ScriptInv, NEW s \in Session, Did(s), \A o \in Others(s) : Untouched(o)
    PROVE  \A o \in Session : Scripted(o)'
<1>1. ASSUME NEW o \in Others(s) PROVE Scripted(o)'
  <2>1. Scripted(o) /\ Untouched(o)
    BY DEF ScriptInv, Others
  <2> QED
    BY <2>1 DEF Scripted, Untouched, Fresh
<1>2. Scripted(s)
  BY DEF ScriptInv
<1>3. ASSUME Over(s) PROVE Scripted(s)'
  <2>1. req'[s].op # "setCanonical"
    BY SMT, <1>3 DEF Over, Idle
  <2>2. req'[s] = Idle /\ prog'[s] = <<>> /\ Fresh(s)'
    BY <1>3 DEF Over
  <2> QED
    BY <2>1, <2>2 DEF Scripted
<1>4. ASSUME Begun(s) PROVE Scripted(s)'
  <2>1. req'[s] # Idle /\ prog'[s] = Program(req'[s])
    BY <1>4, CallsRun DEF Begun
  <2>2. prog'[s] \in Reorg(req[s])'
    BY <2>1 DEF Reorg
  <2> QED
    BY <2>1, <2>2 DEF Scripted
<1>5. ASSUME Moved(s) PROVE Scripted(s)'
  <2>1. /\ prog'[s] = Tail(prog[s]) /\ req'[s] = req[s] /\ req[s] # Idle
        /\ Range(prog'[s]) \subseteq Range(Program(req'[s]))
    BY <1>2, <1>5, CallsRun DEF Moved, Scripted
  <2>2. req[s].op = "setCanonical" => Tail(prog[s]) \in Reorg(req[s])
    <3> SUFFICES ASSUME req[s].op = "setCanonical"
                 PROVE  Tail(prog[s]) \in Reorg(req[s])
      OBVIOUS
    <3>1. prog[s] \in Reorg(req[s]) /\ prog[s] # <<>> /\ req[s] \in Request
      BY <1>2, <1>5 DEF Scripted, Moved
    <3>2. Tail(Tail(Tail(Program(req[s])))) = <<>>
      BY <3>1, ReorgProgram
    <3> QED
      BY <3>1, <3>2 DEF Reorg
  <2>3. req'[s].op = "setCanonical" => prog'[s] \in Reorg(req[s])'
    BY <2>1, <2>2 DEF Reorg
  <2> QED
    BY <2>1, <2>3 DEF Scripted
<1>6. Over(s) \/ Begun(s) \/ Moved(s)
  BY DEF Did, DidRole, DidBlock, DidChild, DidVk, DidSelect, DidOrphan, DidMark, DidRemove, Committed
<1>7. Scripted(s)'
  BY <1>3, <1>4, <1>5, <1>6
<1> QED
  BY <1>1, <1>7 DEF Others

-----------------------------------------------------------------------------
(* Nothing is taken back.                                                  *)

\* A row of flags is a row.
LEMMA FlagsAreRows == NoRow \notin Flags /\ NoRow \notin Nat
  BY ArchiveConstants

\* A step that does not commit leaves the tables as they are.
LEMMA TablesKeptOrNot ==
    ASSUME NEW s, Did(s)
    PROVE  TablesKept \/ Committed(s)
  BY DEF Did, Begun, DidRole, DidBlock, DidChild, DidVk, DidSelect, DidOrphan, DidMark, DidRemove, Moved

\* A block row and a child row stay.
LEMMA TablesGrow ==
    ASSUME NEW s, Did(s)
    PROVE  children \subseteq children' /\ \A b \in Block : blocks[b] # NoRow => blocks'[b] # NoRow
<1>1. CASE TablesKept
  BY <1>1 DEF TablesKept
<1>2. CASE Committed(s)
  BY <1>2 DEF Committed, Children, Row
<1> QED
  BY <1>1, <1>2, TablesKeptOrNot

\* A statement takes back no row that its transaction has written.
LEMMA OwnGrow ==
    ASSUME ScriptInv, NEW s \in Session, Selected(s), Did(s), Moved(s)
    PROVE  /\ newChildren[s] \subseteq newChildren'[s]
           /\ \A b \in Block : newBlocks[s][b] # NoRow => newBlocks'[s][b] # NoRow
<1>1. CASE Begun(s)
  BY <1>1 DEF Begun, pending
<1>2. CASE DidRole(s)
  BY <1>2 DEF DidRole
<1>3. CASE \E b \in Block, flags \in Flags : DidBlock(s, b, flags)
  <2>1. PICK b \in Block, flags \in Flags : DidBlock(s, b, flags)
    BY <1>3
  <2>2. /\ newBlocks'[s][b] = IF Row(s, b) = NoRow THEN flags ELSE newBlocks[s][b]
        /\ \A c \in Block \ {b} : newBlocks'[s][c] = newBlocks[s][c]
        /\ newChildren' = newChildren
    BY <2>1 DEF DidBlock
  <2>3. newBlocks[s][b] # NoRow => newBlocks'[s][b] # NoRow
    BY <2>2 DEF Row
  <2> QED
    BY <2>2, <2>3
<1>4. CASE \E b \in Block, r \in Role : DidChild(s, b, r)
  BY <1>4 DEF DidChild
<1>5. CASE DidVk(s)
  BY <1>5 DEF DidVk
<1>6. CASE DidSelect(s)
  BY <1>6 DEF DidSelect
<1>7. CASE DidOrphan(s)
  <2>1. newChildren' = newChildren
    BY <1>7 DEF DidOrphan
  <2>2. ASSUME NEW c \in Block, newBlocks[s][c] # NoRow PROVE newBlocks'[s][c] # NoRow
    <3>1. IF c \in victims[s] /\ blocks[c].canonical
          THEN newBlocks'[s][c] = [blocks[c] EXCEPT !.canonical = FALSE]
          ELSE newBlocks'[s][c] = newBlocks[s][c]
      BY <1>7 DEF DidOrphan
    <3>2. CASE c \in victims[s] /\ blocks[c].canonical
      <4>1. blocks[c] \in Flags
        BY <3>2, RowTypes DEF Selected, ScriptInv
      <4>2. [blocks[c] EXCEPT !.canonical = FALSE] \in Flags
        BY <4>1 DEF Flags
      <4> QED
        BY <3>1, <3>2, <4>2, FlagsAreRows
    <3>3. CASE ~(c \in victims[s] /\ blocks[c].canonical)
      BY <2>2, <3>1, <3>3
    <3> QED
      BY <3>2, <3>3
  <2> QED
    BY <2>1, <2>2
<1>8. CASE \E b \in Block : DidMark(s, b)
  <2>1. PICK b \in Block : DidMark(s, b)
    BY <1>8
  <2>2. /\ newBlocks'[s][b] \in Flags /\ newChildren' = newChildren
        /\ \A c \in Block \ {b} : newBlocks'[s][c] = newBlocks[s][c]
    BY <2>1 DEF DidMark
  <2>3. newBlocks'[s][b] # NoRow
    BY <2>2, FlagsAreRows
  <2> QED
    BY <2>2, <2>3
<1>9. CASE \E r \in Role : DidRemove(s, r)
  BY <1>9 DEF DidRemove
<1>10. CASE Over(s)
  BY <1>10, CallsRun DEF Over, Moved
<1> QED
  BY <1>1, <1>2, <1>3, <1>4, <1>5, <1>6, <1>7, <1>8, <1>9, <1>10 DEF Did, Committed

\* A statement that a step of any session leaves out has still had its effect.
LEMMA EffectStays ==
    ASSUME NEW o \in Session, NEW st, st.do = "block" => st.block \in Block, Effected(o, st),
           children \subseteq children', \A b \in Block : blocks[b] # NoRow => blocks'[b] # NoRow,
           newChildren[o] \subseteq newChildren'[o],
           \A b \in Block : newBlocks[o][b] # NoRow => newBlocks'[o][b] # NoRow
    PROVE  Effected(o, st)'
<1>1. ASSUME st.do = "block" PROVE Row(o, st.block)' # NoRow
  <2>1. PICK b \in Block : b = st.block
    BY <1>1
  <2>2. newBlocks[o][b] # NoRow \/ blocks[b] # NoRow
    BY <1>1, <2>1 DEF Effected, Row
  <2>3. newBlocks'[o][b] # NoRow \/ blocks'[b] # NoRow
    BY <2>2
  <2> QED
    BY <2>1, <2>3 DEF Row
<1>2. ASSUME st.do = "child" PROVE <<st.block, st.role>> \in Children(o)'
  BY <1>2 DEF Effected, Children
<1> QED
  BY <1>1, <1>2 DEF Effected

\* The statement that s has executed has its effect.
LEMMA HeadEffected ==
    ASSUME ScriptInv, NEW s \in Session, Did(s), Moved(s), NEW st, st = Head(prog[s])
    PROVE  Effected(s, st)'
<1>1. st = Head(prog[s])
  OBVIOUS
<1>2. CASE \E b \in Block, flags \in Flags : DidBlock(s, b, flags)
  <2>1. PICK b \in Block, flags \in Flags : DidBlock(s, b, flags)
    BY <1>2
  <2>2. /\ st.do = "block" /\ st.block = b /\ blocks' = blocks
        /\ newBlocks'[s][b] = IF Row(s, b) = NoRow THEN flags ELSE newBlocks[s][b]
    BY <1>1, <2>1 DEF DidBlock, Moved, TablesKept
  <2>3. newBlocks'[s][b] # NoRow \/ blocks'[b] # NoRow
    BY <2>2, FlagsAreRows DEF Row
  <2>4. Row(s, st.block)' # NoRow
    BY <2>2, <2>3 DEF Row
  <2>5. Effected(s, st)'
    BY <2>2, <2>4 DEF Effected
  <2> QED
    BY <1>1, <2>5
<1>3. CASE \E b \in Block, r \in Role : DidChild(s, b, r)
  <2>1. PICK b \in Block, r \in Role : DidChild(s, b, r)
    BY <1>3
  <2>2. /\ st.do = "child" /\ st.block = b /\ st.role = r /\ children' = children
        /\ newChildren'[s] = newChildren[s] \cup ({<<b, r>>} \ children)
    BY <1>1, <2>1 DEF DidChild, Moved, TablesKept
  <2>3. <<st.block, st.role>> \in Children(s)'
    BY <2>2 DEF Children
  <2>4. Effected(s, st)'
    BY <2>2, <2>3 DEF Effected
  <2> QED
    BY <1>1, <2>4
<1>4. CASE st.do \notin {"block", "child"}
  <2>1. Effected(s, st)'
    BY <1>4 DEF Effected
  <2> QED
    BY <1>1, <2>1
<1>5. ~Over(s) /\ ~Begun(s)
  BY CallsRun DEF Over, Begun, Moved
<1> QED
  BY <1>1, <1>2, <1>3, <1>4, <1>5
     DEF Did, DidRole, DidVk, DidSelect, DidOrphan, DidMark, DidRemove, Committed

\* Every statement of a method under way is left or has had its effect.
LEMMA ProgressKept ==
    ASSUME ScriptInv, NEW s \in Session, Selected(s), Did(s), \A o \in Others(s) : Untouched(o),
           \A o \in Session : Progressed(o)
    PROVE  \A o \in Session : Progressed(o)'
<1>1. children \subseteq children' /\ \A b \in Block : blocks[b] # NoRow => blocks'[b] # NoRow
  BY TablesGrow
<1>2. ASSUME NEW o \in Others(s) PROVE Progressed(o)'
  <2>1. o \in Session /\ Untouched(o) /\ Progressed(o)
    BY DEF Others
  <2>2. SUFFICES ASSUME req'[o] # Idle, NEW st \in Range(Program(req'[o]))
                 PROVE  st \in Range(prog'[o]) \/ Effected(o, st)'
    BY DEF Progressed
  <2>3. /\ req'[o] = req[o] /\ prog'[o] = prog[o]
        /\ newBlocks'[o] = newBlocks[o] /\ newChildren'[o] = newChildren[o]
    BY <2>1 DEF Untouched
  <2>4. req[o] \in Request /\ st \in Range(Program(req[o]))
    BY <2>1, <2>2, <2>3 DEF ScriptInv, TypeOK
  <2>5. st.do = "block" => st.block \in Block
    BY <2>4, ProgramFits DEF Fits
  <2>6. st \in Range(prog[o]) \/ Effected(o, st)
    BY <2>1, <2>2, <2>3, <2>4 DEF Progressed
  <2>7. CASE Effected(o, st)
    BY <1>1, <2>1, <2>3, <2>5, <2>7, EffectStays
  <2> QED
    BY <2>3, <2>6, <2>7
<1>3. ASSUME Moved(s) PROVE Progressed(s)'
  <2>1. SUFFICES ASSUME NEW st \in Range(Program(req'[s]))
                 PROVE  st \in Range(prog'[s]) \/ Effected(s, st)'
    BY DEF Progressed
  <2>2. /\ req'[s] = req[s] /\ prog'[s] = Tail(prog[s]) /\ req[s] \in Request /\ req[s] # Idle
        /\ Range(prog[s]) = {Head(prog[s])} \cup Range(Tail(prog[s]))
    BY <1>3, CallsRun DEF Moved
  <2>3. st \in Range(Program(req[s])) /\ Progressed(s)
    BY <2>1, <2>2
  <2>4. st.do = "block" => st.block \in Block
    BY <2>2, <2>3, ProgramFits DEF Fits
  <2>5. st \in Range(prog[s]) \/ Effected(s, st)
    BY <2>2, <2>3 DEF Progressed
  <2>6. CASE Effected(s, st)
    <3>1. /\ newChildren[s] \subseteq newChildren'[s]
          /\ \A b \in Block : newBlocks[s][b] # NoRow => newBlocks'[s][b] # NoRow
      BY <1>3, OwnGrow
    <3> QED
      BY <1>1, <2>4, <2>6, <3>1, EffectStays
  <2>7. CASE st = Head(prog[s])
    BY <1>3, <2>7, HeadEffected
  <2> QED
    BY <2>2, <2>5, <2>6, <2>7
<1>4. ASSUME Begun(s) PROVE Progressed(s)'
  BY <1>4 DEF Begun, Progressed
<1>5. ASSUME Over(s) PROVE Progressed(s)'
  BY <1>5 DEF Over, Progressed
<1>6. Over(s) \/ Begun(s) \/ Moved(s)
  BY DEF Did, DidRole, DidBlock, DidChild, DidVk, DidSelect, DidOrphan, DidMark, DidRemove, Committed
<1> QED
  BY <1>2, <1>3, <1>4, <1>5, <1>6 DEF Others

-----------------------------------------------------------------------------
(* The verifier key.                                                       *)

\* The earlier of two sightings.
LEMMA LeastIsLeast ==
    ASSUME TypeOK, NEW h \in Nat
    PROVE  /\ Least(h) \in Nat /\ Least(h) # NoRow /\ Least(h) <= h
           /\ vk # NoRow => Least(h) <= vk
<1>1. vk \in Nat \cup {NoRow} /\ NoRow \notin Nat
  BY FlagsAreRows DEF TypeOK
<1> QED
  BY SMT, <1>1 DEF Least

\* Only one sighting waits to be committed, and it is the earliest.
LEMMA VkKept ==
    ASSUME ScriptInv, NEW s \in Session, Did(s), \A o \in Others(s) : Untouched(o),
           \A o \in Session : VkHeld(o)
    PROVE  \A o \in Session : VkHeld(o)'
<1>1. \A o \in Others(s) : newVk'[o] = newVk[o] /\ req'[o] = req[o] /\ o \in Session
  BY DEF Untouched, Others
<1>2. ASSUME newVk'[s] = NoRow, newVk[s] # NoRow => TablesKept \/ \A o \in Others(s) : newVk[o] = NoRow,
             newVk[s] = NoRow => vk' = vk
      PROVE  \A o \in Session : VkHeld(o)'
  <2>1. ASSUME NEW o \in Session, newVk'[o] # NoRow
        PROVE  /\ newVk'[o] <= req'[o].height /\ (vk' # NoRow => newVk'[o] <= vk')
               /\ \A x \in Others(o) : newVk'[x] = NoRow
    <3>1. o \in Others(s)
      BY <1>2, <2>1 DEF Others
    <3>2. newVk[o] # NoRow /\ newVk'[o] = newVk[o] /\ req'[o] = req[o]
      BY <1>1, <2>1, <3>1
    <3>3. /\ newVk[o] <= req[o].height /\ (vk # NoRow => newVk[o] <= vk)
          /\ \A x \in Others(o) : newVk[x] = NoRow
      BY <3>2 DEF VkHeld
    <3>4. newVk[s] = NoRow
      BY <3>1, <3>3 DEF Others
    <3>5. ASSUME NEW x \in Others(o) PROVE newVk'[x] = NoRow
      <4>1. newVk[x] = NoRow /\ (x = s \/ x \in Others(s))
        BY <3>3 DEF Others
      <4> QED
        BY <1>1, <1>2, <4>1
    <3> QED
      BY <1>2, <3>2, <3>3, <3>4, <3>5
  <2> QED
    BY <2>1 DEF VkHeld
<1>3. ASSUME newVk'[s] = newVk[s], vk' = vk, req'[s] = req[s] \/ newVk[s] = NoRow
      PROVE  \A o \in Session : VkHeld(o)'
  <2>1. \A o \in Session : newVk'[o] = newVk[o] /\ (req'[o] = req[o] \/ newVk[o] = NoRow)
    BY <1>1, <1>3 DEF Others
  <2>2. ASSUME NEW o \in Session, newVk'[o] # NoRow
        PROVE  /\ newVk'[o] <= req'[o].height /\ (vk' # NoRow => newVk'[o] <= vk')
               /\ \A x \in Others(o) : newVk'[x] = NoRow
    <3>1. newVk'[o] = newVk[o] /\ req'[o] = req[o] /\ newVk[o] # NoRow
      BY <2>1, <2>2
    <3>2. /\ newVk[o] <= req[o].height /\ (vk # NoRow => newVk[o] <= vk)
          /\ \A x \in Others(o) : newVk[x] = NoRow
      BY <3>1 DEF VkHeld
    <3>3. ASSUME NEW x \in Others(o) PROVE newVk'[x] = NoRow
      <4>1. newVk[x] = NoRow /\ x \in Session
        BY <3>2 DEF Others
      <4> QED
        BY <2>1, <4>1
    <3> QED
      BY <1>3, <3>1, <3>2, <3>3
  <2> QED
    BY <2>2 DEF VkHeld
<1>4. CASE Begun(s)
  <2>1. newVk[s] = NoRow
    BY <1>4 DEF Begun, ScriptInv, Scripted, Fresh
  <2>2. newVk'[s] = newVk[s] /\ vk' = vk
    BY <1>4 DEF Begun, pending, TablesKept
  <2> QED
    BY <1>3, <2>1, <2>2
<1>5. CASE DidVk(s)
  <2>1. /\ req[s].height \in Nat /\ newVk'[s] = Least(req[s].height)
        /\ req'[s] = req[s] /\ vk' = vk /\ \A o \in Others(s) : newVk[o] = NoRow
    BY <1>5 DEF DidVk, Moved, TablesKept
  <2>2. newVk'[s] <= req'[s].height /\ (vk' # NoRow => newVk'[s] <= vk')
    BY <2>1, LeastIsLeast DEF ScriptInv
  <2>3. \A o \in Others(s) : newVk'[o] = NoRow
    BY <1>1, <2>1
  <2> QED
    BY <2>2, <2>3 DEF VkHeld, Others
<1>6. CASE Over(s) /\ TablesKept
  <2>1. newVk'[s] = NoRow /\ vk' = vk
    BY <1>6 DEF Over, Fresh, TablesKept
  <2> QED
    BY <1>2, <1>6, <2>1
<1>7. CASE Committed(s)
  <2>1. newVk'[s] = NoRow /\ vk' = IF newVk[s] = NoRow THEN vk ELSE newVk[s]
    BY <1>7 DEF Committed, Over, Fresh
  <2>2. newVk[s] # NoRow => \A o \in Others(s) : newVk[o] = NoRow
    BY DEF VkHeld
  <2> QED
    BY <1>2, <2>1, <2>2
<1>8. CASE Moved(s) /\ newVk' = newVk
  <2>1. newVk'[s] = newVk[s] /\ vk' = vk /\ req'[s] = req[s]
    BY <1>8 DEF Moved, TablesKept
  <2> QED
    BY <1>3, <2>1
<1> QED
  BY <1>4, <1>5, <1>6, <1>7, <1>8
     DEF Did, DidRole, DidBlock, DidChild, DidSelect, DidOrphan, DidMark, DidRemove

-----------------------------------------------------------------------------
(* The canonical slots.                                                    *)

\* A session whose rows stay, and which is no closer to a commit that it should
\* not make, keeps to the slots.
LEMMA SlotsSame ==
    ASSUME NEW o \in Session, OneSeen(o), Selected(o), Reorged(o),
           \A b \in Block : blocks'[b] = blocks[b] /\ newBlocks'[o][b] = newBlocks[o][b],
           req'[o] = req[o], victims'[o] = victims[o], victims[o] \subseteq Block,
           prog'[o] = prog[o] \/ prog'[o] # <<>> \/ req[o].op # "setCanonical",
           req[o].op = "setCanonical" => req[o].block \in Block
    PROVE  OneSeen(o)' /\ Selected(o)' /\ Reorged(o)'
<1>1. \A b \in Block : Row(o, b)' = Row(o, b)
  BY DEF Row
<1>2. OneSeen(o)'
  BY <1>1 DEF OneSeen
<1>3. Selected(o)'
  BY DEF Selected
<1>4. ASSUME NEW b \in Block, newBlocks'[o][b] # NoRow, Canonical(blocks'[b])
      PROVE  /\ blocks'[b].finalized => Canonical(newBlocks'[o][b]) /\ newBlocks'[o][b].finalized
             /\ Canonical(newBlocks'[o][b]) \/ Replaced(o, b)'
  <2>1. blocks'[b] = blocks[b] /\ newBlocks'[o][b] = newBlocks[o][b]
    OBVIOUS
  <2>2. /\ blocks[b].finalized => Canonical(newBlocks[o][b]) /\ newBlocks[o][b].finalized
        /\ Canonical(newBlocks[o][b]) \/ Replaced(o, b)
    BY <1>4, <2>1 DEF Reorged
  <2>3. Replaced(o, b) => Replaced(o, b)'
    BY DEF Replaced
  <2> QED
    BY <2>1, <2>2, <2>3
<1>5. Reorged(o)'
  BY <1>4 DEF Reorged
<1> QED
  BY <1>2, <1>3, <1>5

\* Sessions whose rows stay are as far apart as before.
LEMMA ApartSame ==
    ASSUME NEW s \in Session, NEW o \in Session, Apart(s, o),
           \A b \in Block : /\ blocks'[b] = blocks[b] \/ (newBlocks[s][b] = NoRow /\ newBlocks[o][b] = NoRow)
                            /\ newBlocks'[s][b] = newBlocks[s][b] /\ newBlocks'[o][b] = newBlocks[o][b]
    PROVE  Apart(s, o)'
<1>1. \A b \in Block : (Touches(s, b)' => Touches(s, b)) /\ (Touches(o, b)' => Touches(o, b))
  BY DEF Touches
<1>2. \A b \in Block : newBlocks'[s][b] = NoRow \/ newBlocks'[o][b] = NoRow
  BY DEF Apart
<1> QED
  BY <1>1, <1>2 DEF Apart, SameHeight

\* A session that writes a row that is free, and the slot only when that is free,
\* sees one canonical block at a height and stays apart from the others.
LEMMA WritesFree ==
    ASSUME NEW s \in Session, NEW b \in Block, NEW v,
           newBlocks'[s][b] = v, \A c \in Block \ {b} : newBlocks'[s][c] = newBlocks[s][c],
           blocks' = blocks, v # NoRow, ~RowBusy(s, b),
           Canonical(v) \/ Canonical(blocks[b]) => ~SlotBusy(s, b) /\ ~SlotTaken(s, b),
           OneSeen(s), \A o \in Others(s) : Apart(s, o) /\ newBlocks'[o] = newBlocks[o]
    PROVE  OneSeen(s)' /\ \A o \in Others(s) : Apart(s, o)'
<1>1. \A c \in Block \ {b} : Row(s, c)' = Row(s, c)
  BY DEF Row
<1>2. Row(s, b)' = v
  BY DEF Row
<1>3. \A c \in Block \ {b} : SameHeight(b, c) \/ SameHeight(c, b) => c \in AtHeightOf(b)
  BY DEF SameHeight, AtHeightOf
<1>4. \A c \in AtHeightOf(b) : Canonical(v) => ~Canonical(Row(s, c))
  BY DEF SlotTaken
<1>5. ASSUME NEW c \in Block, NEW d \in Block, SameHeight(c, d), Canonical(Row(s, c)'), Canonical(Row(s, d)')
      PROVE  c = d
  <2>1. CASE c = b /\ d # b
    BY <1>1, <1>2, <1>3, <1>4, <1>5, <2>1
  <2>2. CASE c # b /\ d = b
    BY <1>1, <1>2, <1>3, <1>4, <1>5, <2>2
  <2>3. CASE c # b /\ d # b
    <3>1. Canonical(Row(s, c)) /\ Canonical(Row(s, d))
      BY <1>1, <1>5, <2>3
    <3> QED
      BY <1>5, <3>1 DEF OneSeen
  <2> QED
    BY <2>1, <2>2, <2>3
<1>6. OneSeen(s)'
  BY <1>5 DEF OneSeen, SameHeight
<1>7. ASSUME NEW o \in Others(s) PROVE Apart(s, o)'
  <2>1. Apart(s, o) /\ newBlocks'[o] = newBlocks[o]
    OBVIOUS
  <2>2. newBlocks[o][b] = NoRow
    BY DEF RowBusy
  <2>3. \A c \in Block : newBlocks'[s][c] = NoRow \/ newBlocks'[o][c] = NoRow
    BY <2>1, <2>2 DEF Apart
  <2>4. \A c \in Block : Touches(o, c)' => Touches(o, c)
    BY <2>1 DEF Touches
  <2>5. \A c \in Block \ {b} : Touches(s, c)' => Touches(s, c)
    BY DEF Touches
  <2>6. Touches(s, b)' => ~SlotBusy(s, b)
    BY DEF Touches
  <2>7. \A c \in AtHeightOf(b) : Touches(o, c) => SlotBusy(s, b)
    BY DEF Touches, SlotBusy
  <2>8. ~Touches(o, b)
    BY <2>2 DEF Touches
  <2>9. ASSUME NEW c \in Block, NEW d \in Block, SameHeight(c, d), Touches(s, c)', Touches(o, d)'
        PROVE  FALSE
    <3>1. Touches(o, d) /\ d # b
      BY <2>4, <2>8, <2>9
    <3>2. CASE c = b
      BY <1>3, <2>6, <2>7, <2>9, <3>1, <3>2
    <3>3. CASE c # b
      BY <2>1, <2>5, <2>9, <3>1, <3>3 DEF Apart
    <3> QED
      BY <3>2, <3>3
  <2> QED
    BY <2>3, <2>9 DEF Apart, SameHeight
<1> QED
  BY <1>6, <1>7

\* The rows of setCanonical's first UPDATE: what it orphans was canonical, is not
\* finalized, and nobody else has it.
LEMMA OrphanSlots ==
    ASSUME ScriptInv, SlotsInv, NEW s \in Session, DidOrphan(s), \A o \in Others(s) : Untouched(o)
    PROVE  /\ OneSeen(s)' /\ Selected(s)' /\ Reorged(s)'
           /\ \A o \in Others(s) : Apart(s, o)'
<1> DEFINE still(c) == c \in victims[s] /\ blocks[c].canonical
<1>1. /\ OneCommitted /\ OneSeen(s) /\ Selected(s) /\ Reorged(s)
      /\ \A o \in Others(s) : OneSeen(o) /\ Apart(s, o)
  BY DEF SlotsInv, Others
<1>2. /\ blocks' = blocks /\ victims'[s] = {} /\ req'[s] = req[s] /\ req[s].op = "setCanonical"
      /\ prog'[s] # <<>> /\ \A c \in victims[s] : ~RowBusy(s, c)
  BY DEF DidOrphan, Moved, TablesKept
<1>3. ASSUME NEW c \in Block, still(c)
      PROVE  /\ Canonical(blocks[c]) /\ ~blocks[c].finalized
             /\ newBlocks'[s][c] # NoRow /\ ~Canonical(newBlocks'[s][c])
             /\ SameHeight(c, req[s].block)
             /\ \A o \in Others(s) : newBlocks[o][c] = NoRow
  <2>1. blocks[c] # NoRow /\ SameHeight(c, req[s].block)
    BY <1>1, <1>3 DEF Selected
  <2>2. Canonical(blocks[c])
    BY <1>3, <2>1 DEF Canonical
  <2>3. ~blocks[c].finalized /\ newBlocks'[s][c] = [blocks[c] EXCEPT !.canonical = FALSE]
    BY <1>3 DEF DidOrphan
  <2>4. blocks[c] \in Flags
    BY <2>1, RowTypes DEF ScriptInv
  <2>5. [blocks[c] EXCEPT !.canonical = FALSE] \in Flags
        /\ [blocks[c] EXCEPT !.canonical = FALSE].canonical = FALSE
    BY <2>4 DEF Flags
  <2>6. newBlocks'[s][c] # NoRow /\ ~Canonical(newBlocks'[s][c])
    BY <2>3, <2>5, FlagsAreRows DEF Canonical
  <2>7. \A o \in Others(s) : newBlocks[o][c] = NoRow
    BY <1>2, <1>3 DEF RowBusy
  <2> QED
    BY <2>1, <2>2, <2>3, <2>6, <2>7
<1>4. \A c \in Block : ~still(c) => newBlocks'[s][c] = newBlocks[s][c]
  BY DEF DidOrphan
<1> HIDE DEF still
<1>5. ASSUME NEW c \in Block, Canonical(Row(s, c)') PROVE Canonical(Row(s, c))
  <2>1. ~still(c)
    BY <1>3, <1>5 DEF Row
  <2> QED
    BY <1>2, <1>4, <1>5, <2>1 DEF Row
<1>6. OneSeen(s)'
  BY <1>1, <1>5 DEF OneSeen, SameHeight
<1>7. Selected(s)'
  BY <1>2 DEF Selected
<1>8. ASSUME NEW b \in Block, newBlocks'[s][b] # NoRow, Canonical(blocks'[b])
      PROVE  /\ blocks'[b].finalized => Canonical(newBlocks'[s][b]) /\ newBlocks'[s][b].finalized
             /\ Canonical(newBlocks'[s][b]) \/ Replaced(s, b)'
  <2>1. CASE still(b)
    <3>1. SameHeight(b, req[s].block) /\ ~blocks[b].finalized
      BY <1>3, <2>1
    <3>2. Replaced(s, b)'
      BY <1>2, <3>1 DEF Replaced, SameHeight
    <3> QED
      BY <1>2, <3>1, <3>2
  <2>2. CASE ~still(b)
    <3>1. newBlocks'[s][b] = newBlocks[s][b] /\ blocks'[b] = blocks[b]
      BY <1>2, <1>4, <2>2
    <3>2. /\ blocks[b].finalized => Canonical(newBlocks[s][b]) /\ newBlocks[s][b].finalized
          /\ Canonical(newBlocks[s][b]) \/ Replaced(s, b)
      BY <1>1, <1>8, <3>1 DEF Reorged
    <3>3. Replaced(s, b) => Replaced(s, b)'
      BY <1>2 DEF Replaced, SameHeight
    <3> QED
      BY <3>1, <3>2, <3>3
  <2> QED
    BY <2>1, <2>2
<1>9. Reorged(s)'
  BY <1>8 DEF Reorged
<1>10. ASSUME NEW o \in Others(s) PROVE Apart(s, o)'
  <2>1. Apart(s, o) /\ OneSeen(o) /\ newBlocks'[o] = newBlocks[o]
    BY <1>1 DEF Untouched
  <2>2. \A c \in Block : newBlocks'[s][c] = NoRow \/ newBlocks'[o][c] = NoRow
    BY <1>3, <1>4, <2>1 DEF Apart
  <2>3. \A c \in Block : Touches(o, c)' => Touches(o, c)
    BY <1>2, <2>1 DEF Touches
  <2>4. \A c \in Block : ~still(c) /\ Touches(s, c)' => Touches(s, c)
    BY <1>2, <1>4 DEF Touches
  <2>5. ASSUME NEW c \in Block, NEW d \in Block, SameHeight(c, d), Touches(s, c)', Touches(o, d)'
        PROVE  FALSE
    <3>1. Touches(o, d)
      BY <2>3, <2>5
    <3>2. CASE ~still(c)
      BY <2>1, <2>4, <2>5, <3>1, <3>2 DEF Apart
    <3>3. CASE still(c)
      <4>1. Canonical(blocks[c]) /\ newBlocks[o][c] = NoRow
        BY <1>3, <3>3
      <4>2. newBlocks[o][d] # NoRow /\ (Canonical(newBlocks[o][d]) \/ Canonical(blocks[d]))
        BY <3>1 DEF Touches
      <4>3. c # d
        BY <4>1, <4>2
      <4>4. ~Canonical(blocks[d])
        BY <1>1, <2>5, <4>1, <4>3 DEF OneCommitted
      <4>5. Canonical(Row(o, d)) /\ Canonical(Row(o, c))
        BY <4>1, <4>2, <4>4 DEF Row
      <4> QED
        BY <2>1, <2>5, <4>3, <4>5 DEF OneSeen
    <3> QED
      BY <3>2, <3>3
  <2> QED
    BY <2>2, <2>5 DEF Apart, SameHeight
<1> QED
  BY <1>6, <1>7, <1>9, <1>10

\* A commit shows the others what it has written, on rows and slots that are not
\* theirs.
LEMMA CommitSlots ==
    ASSUME ScriptInv, SlotsInv, NEW s \in Session, Committed(s), \A o \in Others(s) : Untouched(o)
    PROVE  SlotsInv'
<1>1. /\ OneCommitted /\ \A o \in Session : OneSeen(o) /\ Selected(o) /\ Reorged(o)
      /\ \A o \in Session : \A x \in Others(o) : Apart(o, x)
  BY DEF SlotsInv
<1>2. \A b \in Block : blocks'[b] = Row(s, b)
  BY DEF Committed
<1>3. req'[s] = Idle /\ victims'[s] = {} /\ \A b \in Block : newBlocks'[s][b] = NoRow
  BY DEF Committed, Over, Fresh
<1>4. \A b \in Block : Row(s, b)' = Row(s, b)
  BY <1>2, <1>3 DEF Row
<1>5. OneCommitted'
  BY <1>1, <1>2 DEF OneCommitted, OneSeen, SameHeight
<1>6. OneSeen(s)' /\ Selected(s)' /\ Reorged(s)'
  <2>1. OneSeen(s)'
    BY <1>1, <1>4 DEF OneSeen, SameHeight
  <2>2. Selected(s)'
    BY <1>3 DEF Selected
  <2>3. Reorged(s)'
    BY <1>3 DEF Reorged
  <2> QED
    BY <2>1, <2>2, <2>3
<1>7. \A o \in Others(s) : \A b \in Block : newBlocks[o][b] # NoRow => blocks'[b] = blocks[b]
  <2> SUFFICES ASSUME NEW o \in Others(s), NEW b \in Block, newBlocks[o][b] # NoRow
               PROVE  blocks'[b] = blocks[b]
    OBVIOUS
  <2>1. newBlocks[s][b] = NoRow
    BY <1>1 DEF Apart
  <2> QED
    BY <1>2, <2>1 DEF Row
<1>8. ASSUME NEW o \in Others(s) PROVE OneSeen(o)' /\ Selected(o)' /\ Reorged(o)'
  <2>1. /\ o \in Session /\ newBlocks'[o] = newBlocks[o] /\ req'[o] = req[o]
        /\ prog'[o] = prog[o] /\ victims'[o] = victims[o]
    BY DEF Untouched, Others
  <2>2. OneSeen(o) /\ Selected(o) /\ Reorged(o) /\ Apart(s, o)
    BY <1>1, <2>1
  <2>3. ASSUME NEW b \in Block, NEW c \in Block, SameHeight(b, c),
               newBlocks[o][b] # NoRow, newBlocks[o][c] = NoRow,
               Canonical(newBlocks[o][b]), Canonical(blocks'[c])
        PROVE  b = c
    <3>1. Touches(o, b) /\ Row(o, b) = newBlocks[o][b]
      BY <2>3 DEF Touches, Row
    <3>2. SameHeight(c, b)
      BY <2>3 DEF SameHeight
    <3>3. CASE newBlocks[s][c] = NoRow
      <4>1. Row(o, c) = blocks[c] /\ blocks'[c] = blocks[c]
        BY <1>2, <2>3, <3>3 DEF Row
      <4>2. Canonical(Row(o, c)) /\ Canonical(Row(o, b))
        BY <2>3, <3>1, <4>1
      <4> QED
        BY <2>2, <2>3, <4>2 DEF OneSeen
    <3>4. CASE newBlocks[s][c] # NoRow
      <4>1. Touches(s, c)
        BY <1>2, <2>3, <3>4 DEF Row, Touches
      <4> QED
        BY <2>2, <3>1, <3>2, <4>1 DEF Apart
    <3> QED
      BY <3>3, <3>4
  <2>4. ASSUME NEW b \in Block, NEW c \in Block, SameHeight(b, c),
               Canonical(Row(o, b)'), Canonical(Row(o, c)')
        PROVE  b = c
    <3>1. SameHeight(c, b)
      BY <2>4 DEF SameHeight
    <3>2. CASE newBlocks[o][b] # NoRow /\ newBlocks[o][c] # NoRow
      <4>1. Row(o, b)' = Row(o, b) /\ Row(o, c)' = Row(o, c)
        BY <2>1, <3>2 DEF Row
      <4> QED
        BY <2>2, <2>4, <4>1 DEF OneSeen
    <3>3. CASE newBlocks[o][b] # NoRow /\ newBlocks[o][c] = NoRow
      <4>1. newBlocks'[o][b] # NoRow /\ newBlocks'[o][c] = NoRow /\ newBlocks'[o][b] = newBlocks[o][b]
        BY <2>1, <3>3
      <4>2. Row(o, b)' = newBlocks[o][b]
        BY <4>1 DEF Row
      <4>3. Row(o, c)' = blocks'[c]
        BY <4>1 DEF Row
      <4> QED
        BY <2>3, <2>4, <3>3, <4>2, <4>3
    <3>4. CASE newBlocks[o][b] = NoRow /\ newBlocks[o][c] # NoRow
      <4>1. newBlocks'[o][c] # NoRow /\ newBlocks'[o][b] = NoRow /\ newBlocks'[o][c] = newBlocks[o][c]
        BY <2>1, <3>4
      <4>2. Row(o, c)' = newBlocks[o][c]
        BY <4>1 DEF Row
      <4>3. Row(o, b)' = blocks'[b]
        BY <4>1 DEF Row
      <4> QED
        BY <2>3, <2>4, <3>1, <3>4, <4>2, <4>3
    <3>5. CASE newBlocks[o][b] = NoRow /\ newBlocks[o][c] = NoRow
      <4>1. Row(o, b)' = Row(s, b) /\ Row(o, c)' = Row(s, c)
        BY <1>2, <2>1, <3>5 DEF Row
      <4> QED
        BY <1>1, <2>4, <4>1 DEF OneSeen
    <3> QED
      BY <3>2, <3>3, <3>4, <3>5
  <2>5. OneSeen(o)'
    BY <2>4 DEF OneSeen, SameHeight
  <2>6. victims[o] \subseteq Block
    BY <2>1 DEF ScriptInv, TypeOK
  <2>7. \A b \in Block : blocks[b] # NoRow => blocks'[b] # NoRow
    BY <1>2 DEF Row
  <2>8. Selected(o)'
    BY <2>1, <2>2, <2>6, <2>7 DEF Selected, SameHeight
  <2>9. ASSUME NEW b \in Block, newBlocks'[o][b] # NoRow, Canonical(blocks'[b])
        PROVE  /\ blocks'[b].finalized => Canonical(newBlocks'[o][b]) /\ newBlocks'[o][b].finalized
               /\ Canonical(newBlocks'[o][b]) \/ Replaced(o, b)'
    <3>1. blocks'[b] = blocks[b] /\ newBlocks'[o][b] = newBlocks[o][b]
      BY <1>7, <2>1, <2>9
    <3>2. /\ blocks[b].finalized => Canonical(newBlocks[o][b]) /\ newBlocks[o][b].finalized
          /\ Canonical(newBlocks[o][b]) \/ Replaced(o, b)
      BY <2>2, <2>9, <3>1 DEF Reorged
    <3>3. Replaced(o, b) => Replaced(o, b)'
      BY <2>1 DEF Replaced, SameHeight
    <3> QED
      BY <3>1, <3>2, <3>3
  <2>10. Reorged(o)'
    BY <2>9 DEF Reorged
  <2> QED
    BY <2>5, <2>8, <2>10
<1>9. ASSUME NEW o \in Session, NEW x \in Others(o) PROVE Apart(o, x)'
  <2>1. CASE o = s \/ x = s
    BY <1>3, <2>1 DEF Apart, Touches
  <2>2. CASE o # s /\ x # s
    <3>1. o \in Others(s) /\ x \in Others(s) /\ x \in Session
      BY <2>2 DEF Others
    <3>2. newBlocks'[o] = newBlocks[o] /\ newBlocks'[x] = newBlocks[x]
      BY <3>1 DEF Untouched
    <3>3. Apart(o, x)
      BY <1>1
    <3> QED
      BY <1>7, <3>1, <3>2, <3>3, ApartSame
  <2> QED
    BY <2>1, <2>2
<1>10. \A o \in Session : OneSeen(o)' /\ Selected(o)' /\ Reorged(o)'
  BY <1>6, <1>8 DEF Others
<1> QED
  BY <1>5, <1>9, <1>10 DEF SlotsInv, Others

\* While the tables stay, it is enough to look at the session that steps.
LEMMA SlotsOfOne ==
    ASSUME ScriptInv, SlotsInv, NEW s \in Session, blocks' = blocks,
           \A o \in Others(s) : Untouched(o),
           OneSeen(s)', Selected(s)', Reorged(s)', \A o \in Others(s) : Apart(s, o)'
    PROVE  SlotsInv'
<1>1. OneCommitted'
  BY DEF SlotsInv, OneCommitted, SameHeight
<1>2. ASSUME NEW o \in Others(s) PROVE OneSeen(o)' /\ Selected(o)' /\ Reorged(o)'
  <2>1. /\ o \in Session /\ newBlocks'[o] = newBlocks[o] /\ req'[o] = req[o]
        /\ prog'[o] = prog[o] /\ victims'[o] = victims[o]
    BY DEF Untouched, Others
  <2>2. OneSeen(o) /\ Selected(o) /\ Reorged(o)
    BY <2>1 DEF SlotsInv
  <2>3. victims[o] \subseteq Block /\ req[o] \in Request \cup {Idle}
    BY <2>1 DEF ScriptInv, TypeOK
  <2>4. Idle.op # "setCanonical"
    BY DEF Idle
  <2>5. req[o].op = "setCanonical" => req[o].block \in Block
    BY <2>3, <2>4, CallTypes
  <2> QED
    BY <2>1, <2>2, <2>3, <2>5, SlotsSame
<1>3. ASSUME NEW o \in Session, NEW x \in Others(o) PROVE Apart(o, x)'
  <2>1. x \in Session /\ x # o
    BY DEF Others
  <2>2. CASE o = s
    BY <2>2
  <2>3. CASE x = s
    <3>1. o \in Others(s)
      BY <2>1, <2>3 DEF Others
    <3>2. Apart(s, o)'
      BY <3>1
    <3>3. \A b, c \in Block : SameHeight(b, c) => SameHeight(c, b)
      BY DEF SameHeight
    <3> QED
      BY <2>3, <3>2, <3>3 DEF Apart, SameHeight
  <2>4. CASE o # s /\ x # s
    <3>1. o \in Others(s) /\ x \in Others(s)
      BY <2>1, <2>4 DEF Others
    <3>2. newBlocks'[o] = newBlocks[o] /\ newBlocks'[x] = newBlocks[x]
      BY <3>1 DEF Untouched
    <3>3. Apart(o, x)
      BY DEF SlotsInv
    <3> QED
      BY <2>1, <3>2, <3>3, ApartSame
  <2> QED
    BY <2>2, <2>3, <2>4
<1>4. \A o \in Session : OneSeen(o)' /\ Selected(o)' /\ Reorged(o)'
  BY <1>2 DEF Others
<1> QED
  BY <1>1, <1>3, <1>4 DEF SlotsInv, Others

\* A session that has no rows has nothing to do with the slots.
LEMMA SlotsOfNone ==
    ASSUME ScriptInv, SlotsInv, NEW s \in Session, blocks' = blocks,
           \A o \in Others(s) : Untouched(o),
           victims'[s] = {}, \A b \in Block : newBlocks'[s][b] = NoRow
    PROVE  SlotsInv'
<1>1. \A b \in Block : Row(s, b)' = blocks[b]
  BY DEF Row
<1>2. OneSeen(s)'
  BY <1>1 DEF SlotsInv, OneCommitted, OneSeen, SameHeight
<1>3. Selected(s)' /\ Reorged(s)'
  BY DEF Selected, Reorged
<1>4. \A o \in Others(s) : Apart(s, o)'
  BY DEF Apart, Touches
<1> QED
  BY <1>2, <1>3, <1>4, SlotsOfOne

\* A statement that writes no block row.
LEMMA SlotsOfSame ==
    ASSUME ScriptInv, SlotsInv, NEW s \in Session, Moved(s), \A o \in Others(s) : Untouched(o),
           \A b \in Block : newBlocks'[s][b] = newBlocks[s][b], victims'[s] = victims[s],
           req[s].op # "setCanonical"
    PROVE  SlotsInv'
<1>1. blocks' = blocks /\ req'[s] = req[s] /\ victims[s] \subseteq Block
  BY DEF Moved, TablesKept, ScriptInv, TypeOK
<1>2. OneSeen(s) /\ Selected(s) /\ Reorged(s)
  BY DEF SlotsInv
<1>3. OneSeen(s)' /\ Selected(s)' /\ Reorged(s)'
  BY <1>1, <1>2, SlotsSame
<1>4. ASSUME NEW o \in Others(s) PROVE Apart(s, o)'
  <2>1. o \in Session /\ newBlocks'[o] = newBlocks[o] /\ Apart(s, o)
    BY DEF Others, Untouched, SlotsInv
  <2> QED
    BY <1>1, <2>1, ApartSame
<1> QED
  BY <1>1, <1>3, <1>4, SlotsOfOne

\* InsertBlock claims the slot only when nobody has it or is about to.
LEMMA BlockSlots ==
    ASSUME ScriptInv, SlotsInv, NEW s \in Session, NEW b \in Block, NEW flags \in Flags,
           DidBlock(s, b, flags), \A o \in Others(s) : Untouched(o)
    PROVE  SlotsInv'
<1>1. /\ Moved(s) /\ victims' = victims /\ ~RowBusy(s, b)
      /\ flags.canonical /\ Row(s, b) = NoRow => ~SlotBusy(s, b) /\ ~SlotTaken(s, b)
      /\ newBlocks'[s][b] = IF Row(s, b) = NoRow THEN flags ELSE newBlocks[s][b]
      /\ \A c \in Block \ {b} : newBlocks'[s][c] = newBlocks[s][c]
  BY DEF DidBlock
<1>2. req[s].op # "setCanonical"
  BY DEF DidBlock
<1>3. CASE Row(s, b) # NoRow
  <2>1. \A c \in Block : newBlocks'[s][c] = newBlocks[s][c]
    BY <1>1, <1>3
  <2> QED
    BY <1>1, <1>2, <2>1, SlotsOfSame
<1>4. CASE Row(s, b) = NoRow
  <2>1. blocks' = blocks /\ req'[s] = req[s]
    BY <1>1 DEF Moved, TablesKept
  <2>2. newBlocks'[s][b] = flags /\ flags # NoRow /\ newBlocks[s][b] = NoRow /\ blocks[b] = NoRow
    BY <1>1, <1>4, FlagsAreRows DEF Row
  <2>3. Canonical(flags) \/ Canonical(blocks[b]) => ~SlotBusy(s, b) /\ ~SlotTaken(s, b)
    BY <1>1, <1>4, <2>2 DEF Canonical
  <2>4. /\ OneSeen(s) /\ Selected(s) /\ Reorged(s)
        /\ \A o \in Others(s) : Apart(s, o) /\ newBlocks'[o] = newBlocks[o]
    BY DEF SlotsInv, Untouched
  <2>5. OneSeen(s)' /\ \A o \in Others(s) : Apart(s, o)'
    BY <1>1, <2>1, <2>2, <2>3, <2>4, WritesFree
  <2>6. Selected(s)'
    BY <1>1, <2>1, <2>4 DEF Selected, SameHeight
  <2>7. ASSUME NEW c \in Block, newBlocks'[s][c] # NoRow, Canonical(blocks'[c])
        PROVE  /\ blocks'[c].finalized => Canonical(newBlocks'[s][c]) /\ newBlocks'[s][c].finalized
               /\ Canonical(newBlocks'[s][c]) \/ Replaced(s, c)'
    <3>1. c # b
      BY <2>1, <2>2, <2>7 DEF Canonical
    <3>2. newBlocks'[s][c] = newBlocks[s][c] /\ blocks'[c] = blocks[c]
      BY <1>1, <2>1, <3>1
    <3>3. /\ blocks[c].finalized => Canonical(newBlocks[s][c]) /\ newBlocks[s][c].finalized
          /\ Canonical(newBlocks[s][c])
      BY <1>2, <2>4, <2>7, <3>2 DEF Reorged, Replaced
    <3> QED
      BY <3>2, <3>3
  <2>8. Reorged(s)'
    BY <2>7 DEF Reorged
  <2> QED
    BY <2>1, <2>5, <2>6, <2>8, SlotsOfOne
<1> QED
  BY <1>3, <1>4

\* Mark puts the block that setCanonical names into a slot that is free.
LEMMA MarkSlots ==
    ASSUME ScriptInv, SlotsInv, NEW s \in Session, NEW b \in Block,
           DidMark(s, b), \A o \in Others(s) : Untouched(o)
    PROVE  SlotsInv'
<1>1. /\ Moved(s) /\ victims' = victims /\ ~RowBusy(s, b) /\ ~SlotBusy(s, b) /\ ~SlotTaken(s, b)
      /\ newBlocks'[s][b] \in Flags /\ newBlocks'[s][b].canonical
      /\ blocks[b].finalized => newBlocks'[s][b].finalized
      /\ \A c \in Block \ {b} : newBlocks'[s][c] = newBlocks[s][c]
      /\ req[s].op = "setCanonical" /\ req[s].block = b
  BY DEF DidMark
<1>2. blocks' = blocks /\ req'[s] = req[s]
  BY <1>1 DEF Moved, TablesKept
<1>3. newBlocks'[s][b] # NoRow
  BY <1>1, FlagsAreRows
<1>4. Canonical(newBlocks'[s][b])
  BY <1>1, <1>3 DEF Canonical
<1>5. /\ OneSeen(s) /\ Selected(s) /\ Reorged(s)
      /\ \A o \in Others(s) : Apart(s, o) /\ newBlocks'[o] = newBlocks[o]
  BY DEF SlotsInv, Untouched
<1>6. PICK v : v = newBlocks'[s][b]
  OBVIOUS
<1>7. OneSeen(s)' /\ \A o \in Others(s) : Apart(s, o)'
  BY <1>1, <1>2, <1>3, <1>5, <1>6, WritesFree
<1>8. Selected(s)'
  BY <1>1, <1>2, <1>5 DEF Selected, SameHeight
<1>9. ASSUME NEW c \in Block, newBlocks'[s][c] # NoRow, Canonical(blocks'[c])
      PROVE  /\ blocks'[c].finalized => Canonical(newBlocks'[s][c]) /\ newBlocks'[s][c].finalized
             /\ Canonical(newBlocks'[s][c]) \/ Replaced(s, c)'
  <2>1. CASE c = b
    BY <1>1, <1>2, <1>4, <2>1
  <2>2. CASE c # b
    <3>1. newBlocks'[s][c] = newBlocks[s][c] /\ blocks'[c] = blocks[c]
      BY <1>1, <1>2, <2>2
    <3>2. /\ blocks[c].finalized => Canonical(newBlocks[s][c]) /\ newBlocks[s][c].finalized
          /\ Canonical(newBlocks[s][c]) \/ Replaced(s, c)
      BY <1>5, <1>9, <3>1 DEF Reorged
    <3>3. Replaced(s, c) => Replaced(s, c)'
      BY <1>1, <1>2, <1>4 DEF Replaced, SameHeight
    <3> QED
      BY <3>1, <3>2, <3>3
  <2> QED
    BY <2>1, <2>2
<1>10. Reorged(s)'
  BY <1>9 DEF Reorged
<1> QED
  BY <1>2, <1>7, <1>8, <1>10, SlotsOfOne

\* Select looks at committed rows.
LEMMA SelectSlots ==
    ASSUME ScriptInv, SlotsInv, NEW s \in Session, DidSelect(s), \A o \in Others(s) : Untouched(o)
    PROVE  SlotsInv'
<1>1. /\ req[s].op = "setCanonical" /\ req[s].block \in Block /\ req'[s] = req[s] /\ blocks' = blocks
      /\ newBlocks' = newBlocks /\ prog'[s] # <<>>
      /\ victims'[s] = {c \in AtHeightOf(req[s].block) : Canonical(blocks[c])}
  BY DEF DidSelect, Moved, TablesKept
<1>2. OneSeen(s) /\ Reorged(s)
  BY DEF SlotsInv
<1>3. OneSeen(s)'
  BY <1>1, <1>2 DEF OneSeen, Row, SameHeight
<1>4. Selected(s)'
  BY <1>1 DEF Selected, SameHeight, AtHeightOf, Canonical
<1>5. \A b \in Block : Replaced(s, b) => Replaced(s, b)'
  BY <1>1 DEF Replaced, SameHeight
<1>6. Reorged(s)'
  BY <1>1, <1>2, <1>5 DEF Reorged
<1>7. ASSUME NEW o \in Others(s) PROVE Apart(s, o)'
  <2>1. o \in Session /\ Apart(s, o)
    BY DEF Others, SlotsInv
  <2> QED
    BY <1>1, <2>1, ApartSame
<1> QED
  BY <1>1, <1>3, <1>4, <1>6, <1>7, SlotsOfOne

\* Every step keeps the canonical slots.
LEMMA SlotsKept ==
    ASSUME ScriptInv, SlotsInv, NEW s \in Session, Did(s), \A o \in Others(s) : Untouched(o)
    PROVE  SlotsInv'
<1>1. CASE Begun(s)
  <2>1. Fresh(s) /\ blocks' = blocks /\ UNCHANGED pending
    BY <1>1 DEF Begun, ScriptInv, Scripted, TablesKept
  <2>2. victims'[s] = {} /\ \A b \in Block : newBlocks'[s][b] = NoRow
    BY <2>1 DEF Fresh, pending
  <2> QED
    BY <2>1, <2>2, SlotsOfNone
<1>2. CASE Over(s) /\ TablesKept
  <2>1. victims'[s] = {} /\ \A b \in Block : newBlocks'[s][b] = NoRow
    BY <1>2 DEF Over, Fresh
  <2>2. blocks' = blocks
    BY <1>2 DEF TablesKept
  <2> QED
    BY <2>1, <2>2, SlotsOfNone
<1>3. CASE Committed(s)
  BY <1>3, CommitSlots
<1>4. CASE \E b \in Block, flags \in Flags : DidBlock(s, b, flags)
  BY <1>4, BlockSlots
<1>5. CASE \E b \in Block : DidMark(s, b)
  BY <1>5, MarkSlots
<1>6. CASE DidSelect(s)
  BY <1>6, SelectSlots
<1>7. CASE DidOrphan(s)
  <2>1. blocks' = blocks
    BY <1>7 DEF DidOrphan, Moved, TablesKept
  <2> QED
    BY <1>7, <2>1, OrphanSlots, SlotsOfOne
<1>8. CASE Moved(s) /\ newBlocks' = newBlocks /\ victims' = victims /\ req[s].op # "setCanonical"
  BY <1>8, SlotsOfSame
<1>9. CASE DidRole(s) \/ DidVk(s) \/ (\E r \in Role : DidRemove(s, r))
           \/ \E b \in Block, r \in Role : DidChild(s, b, r)
  BY <1>8, <1>9 DEF DidRole, DidVk, DidRemove, DidChild
<1> QED
  BY <1>1, <1>2, <1>3, <1>4, <1>5, <1>6, <1>7, <1>9 DEF Did

-----------------------------------------------------------------------------
(* The roles.                                                              *)

\* While the tables stay, what is in use stays so.
LEMMA UseSame ==
    ASSUME TablesKept
    PROVE  \A r : InUse(r)' <=> InUse(r)
  BY DEF TablesKept, InUse

\* While the tables stay, it is enough to look at the session that steps, and at
\* what it removes.
LEMMA RolesOfOne ==
    ASSUME RolesInv, NEW s \in Session, TablesKept, \A o \in Others(s) : Untouched(o),
           RolesHeld(s)', \A o \in Others(s) : goneRoles'[s] \cap (locked[o] \cup goneRoles[o]) = {}
    PROVE  RolesInv'
<1>1. RolesBacked'
  BY UseSame DEF RolesInv, RolesBacked, TablesKept
<1>2. ASSUME NEW o \in Others(s) PROVE RolesHeld(o)'
  <2>1. o \in Session /\ RolesHeld(o) /\ Untouched(o)
    BY DEF Others, RolesInv
  <2>2. /\ locked'[o] = locked[o] /\ newRoles'[o] = newRoles[o] /\ goneRoles'[o] = goneRoles[o]
        /\ newBlocks'[o] = newBlocks[o] /\ newChildren'[o] = newChildren[o] /\ newVk'[o] = newVk[o]
        /\ req'[o] = req[o] /\ blocks' = blocks /\ roles' = roles
    BY <2>1 DEF Untouched, TablesKept
  <2>3. /\ \A b \in Block : newBlocks'[o][b] # NoRow /\ blocks'[b] = NoRow =>
              Range(BlockRoles[b]) \subseteq locked'[o]
        /\ newVk'[o] # NoRow => VkRole \in locked'[o]
        /\ locked'[o] \subseteq roles' \cup newRoles'[o]
        /\ req'[o].op = "removeRole" => locked'[o] = {}
        /\ req'[o].op # "removeRole" => goneRoles'[o] = {}
    BY <2>1, <2>2 DEF RolesHeld
  <2>4. \A c \in newChildren'[o] : c[2] \in locked'[o] /\ Row(o, c[1])' # NoRow
    BY <2>1, <2>2 DEF RolesHeld, Row
  <2>5. \A r \in goneRoles'[o] : r \in roles' /\ ~InUse(r)'
    BY <2>1, <2>2, UseSame DEF RolesHeld
  <2>6. ASSUME NEW x \in Others(o) PROVE goneRoles'[x] \cap (locked'[o] \cup goneRoles'[o]) = {}
    <3>1. CASE x = s
      BY <2>2, <3>1
    <3>2. CASE x # s
      <4>1. goneRoles'[x] = goneRoles[x]
        BY <3>2 DEF Others, Untouched
      <4> QED
        BY <2>1, <2>2, <4>1 DEF RolesHeld
    <3> QED
      BY <3>1, <3>2
  <2> QED
    BY <2>3, <2>4, <2>5, <2>6 DEF RolesHeld, Others
<1> QED
  BY <1>1, <1>2 DEF RolesInv, Others

\* A session that has nothing pending holds no role.
LEMMA RolesOfNone ==
    ASSUME RolesInv, NEW s \in Session, TablesKept, \A o \in Others(s) : Untouched(o), Fresh(s)'
    PROVE  RolesInv'
<1>1. /\ locked'[s] = {} /\ goneRoles'[s] = {} /\ newChildren'[s] = {} /\ newVk'[s] = NoRow
      /\ \A b \in Block : newBlocks'[s][b] = NoRow
  BY DEF Fresh
<1>2. RolesHeld(s)'
  BY <1>1 DEF RolesHeld
<1> QED
  BY <1>1, <1>2, RolesOfOne

\* A statement that refers to roles has locked them, and they are there.
LEMMA RolesLocked ==
    ASSUME ScriptInv, RolesInv, NEW s \in Session, Selected(s), Did(s), Moved(s),
           \A o \in Others(s) : Untouched(o),
           newRoles[s] \subseteq newRoles'[s], goneRoles'[s] = goneRoles[s],
           locked[s] \subseteq locked'[s],
           \A r \in locked'[s] : r \in locked[s] \/ (r \in Roles(s) /\ ~RoleGoing(s, r)),
           req[s].op = "removeRole" => locked'[s] = locked[s],
           \A b \in Block : newBlocks'[s][b] # NoRow /\ blocks[b] = NoRow =>
               newBlocks[s][b] # NoRow \/ Range(BlockRoles[b]) \subseteq locked'[s],
           \A c \in newChildren'[s] :
               c \in newChildren[s] \/ (c[2] \in locked'[s] /\ Row(s, c[1])' # NoRow),
           newVk'[s] # NoRow => newVk[s] # NoRow \/ VkRole \in locked'[s]
    PROVE  RolesInv'
<1>1. RolesHeld(s)
  BY DEF RolesInv
<1>2. TablesKept /\ req'[s] = req[s] /\ blocks' = blocks /\ roles' = roles
  BY DEF Moved, TablesKept
<1>3. \A b \in Block : newBlocks[s][b] # NoRow => newBlocks'[s][b] # NoRow
  BY OwnGrow
<1>4. \A b \in Block : newBlocks'[s][b] # NoRow /\ blocks'[b] = NoRow =>
          Range(BlockRoles[b]) \subseteq locked'[s]
  BY <1>1, <1>2 DEF RolesHeld
<1>5. ASSUME NEW c \in newChildren'[s] PROVE c[2] \in locked'[s] /\ Row(s, c[1])' # NoRow
  <2>1. CASE c \in newChildren[s]
    <3>1. newChildren[s] \subseteq Block \X Role
      BY DEF ScriptInv, TypeOK
    <3>2. c[1] \in Block
      BY <2>1, <3>1
    <3>3. c[2] \in locked[s] /\ Row(s, c[1]) # NoRow
      BY <1>1, <2>1 DEF RolesHeld
    <3>4. newBlocks'[s][c[1]] # NoRow \/ blocks'[c[1]] # NoRow
      BY <1>2, <1>3, <3>2, <3>3 DEF Row
    <3>5. Row(s, c[1])' # NoRow
      BY <3>4 DEF Row
    <3> QED
      BY <3>3, <3>5
  <2>2. CASE c \notin newChildren[s]
    BY <2>2
  <2> QED
    BY <2>1, <2>2
<1>6. newVk'[s] # NoRow => VkRole \in locked'[s]
  BY <1>1 DEF RolesHeld
<1>7. locked'[s] \subseteq roles' \cup newRoles'[s]
  BY <1>1, <1>2 DEF RolesHeld, Roles
<1>8. /\ req'[s].op = "removeRole" => locked'[s] = {}
      /\ req'[s].op # "removeRole" => goneRoles'[s] = {}
  BY <1>1, <1>2 DEF RolesHeld
<1>9. \A r \in goneRoles'[s] : r \in roles' /\ ~InUse(r)'
  BY <1>1, <1>2, UseSame DEF RolesHeld
<1>10. ASSUME NEW o \in Others(s) PROVE goneRoles'[o] \cap (locked'[s] \cup goneRoles'[s]) = {}
  <2>1. goneRoles'[o] = goneRoles[o]
    BY DEF Untouched
  <2>2. goneRoles[o] \cap (locked[s] \cup goneRoles[s]) = {}
    BY <1>1 DEF RolesHeld
  <2>3. \A r \in goneRoles[o] : RoleGoing(s, r)
    BY DEF RoleGoing
  <2>4. \A r \in goneRoles[o] : r \notin locked[s] /\ r \notin goneRoles[s]
    BY <2>2
  <2>5. \A r \in goneRoles[o] : r \notin locked'[s] /\ r \notin goneRoles'[s]
    BY <2>3, <2>4
  <2> QED
    BY <2>1, <2>5
<1>11. RolesHeld(s)'
  BY <1>4, <1>5, <1>6, <1>7, <1>8, <1>9, <1>10 DEF RolesHeld
<1>12. \A o \in Others(s) : goneRoles'[s] \cap (locked[o] \cup goneRoles[o]) = {}
  BY DEF RolesInv, RolesHeld, Others
<1> QED
  BY <1>2, <1>11, <1>12, RolesOfOne

\* A commit adds references only to roles it has locked.
LEMMA UseGrows ==
    ASSUME ScriptInv, RolesInv, NEW s \in Session, Committed(s), NEW r, InUse(r)'
    PROVE  InUse(r) \/ r \in locked[s]
<1>1. RolesHeld(s)
  BY DEF RolesInv
<1>2. CASE \E b \in Block : blocks'[b] # NoRow /\ r \in Range(BlockRoles[b])
  <2>1. PICK b \in Block : blocks'[b] # NoRow /\ r \in Range(BlockRoles[b])
    BY <1>2
  <2>2. newBlocks[s][b] # NoRow \/ blocks[b] # NoRow
    BY <2>1 DEF Committed, Row
  <2> QED
    BY <1>1, <2>1, <2>2 DEF RolesHeld, InUse
<1>3. CASE \E c \in children' : c[2] = r
  <2>1. PICK c \in children' : c[2] = r
    BY <1>3
  <2>2. c \in children \/ c \in newChildren[s]
    BY DEF Committed, Children
  <2> QED
    BY <1>1, <2>1, <2>2 DEF RolesHeld, InUse
<1>4. CASE r = VkRole /\ vk' # NoRow
  <2>1. vk # NoRow \/ newVk[s] # NoRow
    BY <1>4 DEF Committed
  <2> QED
    BY <1>1, <1>4, <2>1 DEF RolesHeld, InUse
<1> QED
  BY <1>2, <1>3, <1>4 DEF InUse

\* A commit keeps every reference backed, and takes no role that another holds.
LEMMA CommitRoles ==
    ASSUME ScriptInv, RolesInv, NEW s \in Session, Committed(s), \A o \in Others(s) : Untouched(o)
    PROVE  RolesInv'
<1>1. RolesHeld(s) /\ RolesBacked
  BY DEF RolesInv
<1>2. roles' = (roles \ goneRoles[s]) \cup newRoles[s] /\ children' = children \cup newChildren[s]
  BY DEF Committed, Roles, Children
<1>3. \A b \in Block : blocks[b] # NoRow => blocks'[b] # NoRow
  BY DEF Committed, Row
<1>4. ASSUME NEW r \in locked[s] PROVE r \in roles'
  <2>1. r \in roles \cup newRoles[s] /\ req[s].op # "removeRole"
    BY <1>1 DEF RolesHeld
  <2>2. goneRoles[s] = {}
    BY <1>1, <2>1 DEF RolesHeld
  <2> QED
    BY <1>2, <2>1, <2>2
<1>5. ASSUME NEW r \in Role, InUse(r) PROVE r \in roles'
  <2>1. r \in roles
    BY <1>1, <1>5 DEF RolesBacked
  <2>2. r \notin goneRoles[s]
    BY <1>1, <1>5 DEF RolesHeld
  <2> QED
    BY <1>2, <2>1, <2>2
<1>6. \A r \in Role : InUse(r)' => r \in roles'
  BY <1>4, <1>5, UseGrows
<1>7. ASSUME NEW c \in children' PROVE blocks'[c[1]] # NoRow
  <2>1. children \subseteq Block \X Role /\ newChildren[s] \subseteq Block \X Role
    BY DEF ScriptInv, TypeOK
  <2>2. c[1] \in Block
    BY <1>2, <2>1
  <2>3. CASE c \in children
    BY <1>1, <1>3, <2>2, <2>3 DEF RolesBacked
  <2>4. CASE c \in newChildren[s]
    <3>1. Row(s, c[1]) # NoRow
      BY <1>1, <2>4 DEF RolesHeld
    <3> QED
      BY <2>2, <3>1 DEF Committed
  <2> QED
    BY <1>2, <2>3, <2>4
<1>8. RolesBacked'
  BY <1>6, <1>7 DEF RolesBacked
<1>9. /\ locked'[s] = {} /\ goneRoles'[s] = {} /\ newChildren'[s] = {} /\ newVk'[s] = NoRow
      /\ \A b \in Block : newBlocks'[s][b] = NoRow
  BY DEF Committed, Over, Fresh
<1>10. RolesHeld(s)'
  BY <1>9 DEF RolesHeld
<1>11. ASSUME NEW o \in Others(s) PROVE RolesHeld(o)'
  <2>1. o \in Session /\ s \in Others(o) /\ RolesHeld(o) /\ Untouched(o)
    BY DEF Others, RolesInv
  <2>2. /\ locked'[o] = locked[o] /\ newRoles'[o] = newRoles[o] /\ goneRoles'[o] = goneRoles[o]
        /\ newBlocks'[o] = newBlocks[o] /\ newChildren'[o] = newChildren[o] /\ newVk'[o] = newVk[o]
        /\ req'[o] = req[o]
    BY <2>1 DEF Untouched
  <2>3. goneRoles[s] \cap (locked[o] \cup goneRoles[o]) = {}
    BY <2>1 DEF RolesHeld
  <2>4. goneRoles[o] \cap (locked[s] \cup goneRoles[s]) = {}
    BY <1>1 DEF RolesHeld
  <2>5. \A b \in Block : newBlocks'[o][b] # NoRow /\ blocks'[b] = NoRow =>
            Range(BlockRoles[b]) \subseteq locked'[o]
    BY <1>3, <2>1, <2>2 DEF RolesHeld
  <2>6. ASSUME NEW c \in newChildren'[o] PROVE c[2] \in locked'[o] /\ Row(o, c[1])' # NoRow
    <3>1. newChildren[o] \subseteq Block \X Role
      BY <2>1 DEF ScriptInv, TypeOK
    <3>2. c \in newChildren[o] /\ c[1] \in Block
      <4>1. c \in newChildren[o]
        BY <2>2
      <4>2. c \in Block \X Role
        BY <3>1, <4>1
      <4> QED
        BY <4>1, <4>2
    <3>3. c[2] \in locked[o] /\ Row(o, c[1]) # NoRow
      BY <2>1, <3>2 DEF RolesHeld
    <3>4. newBlocks[o][c[1]] # NoRow \/ blocks'[c[1]] # NoRow
      BY <1>3, <3>2, <3>3 DEF Row
    <3>5. Row(o, c[1])' # NoRow
      BY <2>2, <3>4 DEF Row
    <3> QED
      BY <2>2, <3>3, <3>5
  <2>7. newVk'[o] # NoRow => VkRole \in locked'[o]
    BY <2>1, <2>2 DEF RolesHeld
  <2>8. locked'[o] \subseteq roles' \cup newRoles'[o]
    <3>1. locked[o] \subseteq roles \cup newRoles[o]
      BY <2>1 DEF RolesHeld
    <3> QED
      BY <1>2, <2>2, <2>3, <3>1
  <2>9. /\ req'[o].op = "removeRole" => locked'[o] = {}
        /\ req'[o].op # "removeRole" => goneRoles'[o] = {}
    BY <2>1, <2>2 DEF RolesHeld
  <2>10. ASSUME NEW r \in goneRoles'[o] PROVE r \in roles' /\ ~InUse(r)'
    <3>1. r \in roles /\ ~InUse(r) /\ r \in goneRoles[o]
      BY <2>1, <2>2 DEF RolesHeld
    <3>2. r \notin goneRoles[s] /\ r \notin locked[s]
      BY <2>4, <3>1
    <3> QED
      BY <1>2, <3>1, <3>2, UseGrows
  <2>11. ASSUME NEW x \in Others(o) PROVE goneRoles'[x] \cap (locked'[o] \cup goneRoles'[o]) = {}
    <3>1. CASE x = s
      BY <1>9, <3>1
    <3>2. CASE x # s
      <4>1. goneRoles'[x] = goneRoles[x]
        BY <3>2 DEF Others, Untouched
      <4> QED
        BY <2>1, <2>2, <4>1 DEF RolesHeld
    <3> QED
      BY <3>1, <3>2
  <2> QED
    BY <2>5, <2>6, <2>7, <2>8, <2>9, <2>10, <2>11 DEF RolesHeld
<1> QED
  BY <1>8, <1>10, <1>11 DEF RolesInv, Others

\* A removal takes a role that is not in use, from nobody.
LEMMA RemoveRoles ==
    ASSUME ScriptInv, RolesInv, NEW s \in Session, NEW r \in Role, DidRemove(s, r),
           \A o \in Others(s) : Untouched(o)
    PROVE  RolesInv'
<1>1. RolesHeld(s)
  BY DEF RolesInv
<1>2. /\ TablesKept /\ req'[s] = req[s] /\ req[s].op = "removeRole" /\ roles' = roles /\ blocks' = blocks
      /\ goneRoles'[s] = {r} \cap roles /\ (r \in roles => ~InUse(r))
      /\ \A o \in Others(s) : r \notin locked[o] \cup goneRoles[o]
  BY DEF DidRemove, Moved, TablesKept
<1>3. /\ locked' = locked /\ newRoles' = newRoles /\ newBlocks' = newBlocks
      /\ newChildren' = newChildren /\ newVk' = newVk
  BY DEF DidRemove
<1>4. locked[s] = {}
  BY <1>1, <1>2 DEF RolesHeld
<1>5. /\ \A b \in Block : newBlocks'[s][b] # NoRow /\ blocks'[b] = NoRow =>
            Range(BlockRoles[b]) \subseteq locked'[s]
      /\ newVk'[s] # NoRow => VkRole \in locked'[s]
      /\ locked'[s] \subseteq roles' \cup newRoles'[s]
  BY <1>1, <1>2, <1>3 DEF RolesHeld
<1>6. \A c \in newChildren'[s] : c[2] \in locked'[s] /\ Row(s, c[1])' # NoRow
  BY <1>1, <1>2, <1>3 DEF RolesHeld, Row
<1>7. \A x \in goneRoles'[s] : x = r /\ x \in roles' /\ ~InUse(x)'
  BY <1>2, UseSame
<1>8. ASSUME NEW o \in Others(s) PROVE goneRoles'[o] \cap (locked'[s] \cup goneRoles'[s]) = {}
  <2>1. goneRoles'[o] = goneRoles[o] /\ r \notin goneRoles[o]
    BY <1>2 DEF Untouched
  <2>2. \A x \in locked'[s] \cup goneRoles'[s] : x = r
    BY <1>3, <1>4, <1>7
  <2> QED
    BY <2>1, <2>2
<1>9. RolesHeld(s)'
  BY <1>2, <1>3, <1>4, <1>5, <1>6, <1>7, <1>8 DEF RolesHeld
<1>10. \A o \in Others(s) : goneRoles'[s] \cap (locked[o] \cup goneRoles[o]) = {}
  BY <1>2
<1> QED
  BY <1>2, <1>9, <1>10, RolesOfOne

\* Every step keeps the roles backed.
LEMMA RolesKept ==
    ASSUME ScriptInv, SlotsInv, RolesInv, NEW s \in Session, Did(s), \A o \in Others(s) : Untouched(o)
    PROVE  RolesInv'
<1>1. Selected(s)
  BY DEF SlotsInv
<1>2. CASE Begun(s)
  <2>1. Fresh(s) /\ TablesKept /\ UNCHANGED pending
    BY <1>2 DEF Begun, ScriptInv, Scripted
  <2>2. Fresh(s)'
    BY <2>1 DEF Fresh, pending
  <2> QED
    BY <2>1, <2>2, RolesOfNone
<1>3. CASE Over(s) /\ TablesKept
  BY <1>3, RolesOfNone DEF Over
<1>4. CASE Committed(s)
  BY <1>4, CommitRoles
<1>5. CASE \E r \in Role : DidRemove(s, r)
  BY <1>5, RemoveRoles
<1>6. CASE DidRole(s)
  <2>1. /\ Moved(s) /\ newRoles[s] \subseteq newRoles'[s] /\ locked' = locked /\ goneRoles' = goneRoles
        /\ newBlocks' = newBlocks /\ newChildren' = newChildren /\ newVk' = newVk
    BY <1>6 DEF DidRole
  <2> QED
    BY <1>1, <2>1, RolesLocked
<1>7. CASE \E b \in Block, flags \in Flags : DidBlock(s, b, flags)
  <2>1. PICK b \in Block, flags \in Flags : DidBlock(s, b, flags)
    BY <1>7
  <2>2. /\ Moved(s) /\ DidLock(s, Range(BlockRoles[b]))
        /\ \A c \in Block \ {b} : newBlocks'[s][c] = newBlocks[s][c]
        /\ newRoles' = newRoles /\ goneRoles' = goneRoles /\ newChildren' = newChildren
        /\ newVk' = newVk
    BY <2>1 DEF DidBlock
  <2>3. req[s].op # "removeRole"
    BY <2>1 DEF DidBlock
  <2>4. /\ locked[s] \subseteq locked'[s] /\ Range(BlockRoles[b]) \subseteq locked'[s]
        /\ \A r \in locked'[s] : r \in locked[s] \/ (r \in Roles(s) /\ ~RoleGoing(s, r))
    BY <2>2 DEF DidLock
  <2>5. \A c \in Block : newBlocks'[s][c] # NoRow /\ blocks[c] = NoRow =>
            newBlocks[s][c] # NoRow \/ Range(BlockRoles[c]) \subseteq locked'[s]
    BY <2>2, <2>4
  <2> QED
    BY <1>1, <2>2, <2>3, <2>4, <2>5, RolesLocked
<1>8. CASE \E b \in Block, r \in Role : DidChild(s, b, r)
  <2>1. PICK b \in Block, r \in Role : DidChild(s, b, r)
    BY <1>8
  <2>2. /\ Moved(s) /\ DidLock(s, {r}) /\ Row(s, b) # NoRow
        /\ newChildren'[s] = newChildren[s] \cup ({<<b, r>>} \ children)
        /\ newRoles' = newRoles /\ goneRoles' = goneRoles /\ newBlocks' = newBlocks /\ newVk' = newVk
    BY <2>1 DEF DidChild
  <2>3. req[s].op # "removeRole"
    BY <2>1 DEF DidChild
  <2>4. /\ locked[s] \subseteq locked'[s] /\ r \in locked'[s]
        /\ \A x \in locked'[s] : x \in locked[s] \/ (x \in Roles(s) /\ ~RoleGoing(s, x))
    BY <2>2 DEF DidLock
  <2>5. blocks' = blocks
    BY <2>2 DEF Moved, TablesKept
  <2>6. Row(s, b)' # NoRow
    BY <2>2, <2>5 DEF Row
  <2>7. ASSUME NEW c \in newChildren'[s]
        PROVE  c \in newChildren[s] \/ (c[2] \in locked'[s] /\ Row(s, c[1])' # NoRow)
    <3>1. c \in newChildren[s] \/ c = <<b, r>>
      BY <2>2
    <3>2. CASE c = <<b, r>>
      <4>1. c[1] = b /\ c[2] = r
        BY <3>2
      <4> QED
        BY <2>4, <2>6, <4>1
    <3> QED
      BY <3>1, <3>2
  <2> QED
    BY <1>1, <2>2, <2>3, <2>4, <2>7, RolesLocked
<1>9. CASE DidVk(s)
  <2>1. /\ Moved(s) /\ DidLock(s, {VkRole})
        /\ newRoles' = newRoles /\ goneRoles' = goneRoles /\ newBlocks' = newBlocks
        /\ newChildren' = newChildren
    BY <1>9 DEF DidVk
  <2>2. req[s].op # "removeRole"
    BY <1>9 DEF DidVk
  <2>3. /\ locked[s] \subseteq locked'[s] /\ VkRole \in locked'[s]
        /\ \A r \in locked'[s] : r \in locked[s] \/ (r \in Roles(s) /\ ~RoleGoing(s, r))
    BY <2>1 DEF DidLock
  <2> QED
    BY <1>1, <2>1, <2>2, <2>3, RolesLocked
<1>10. CASE DidSelect(s)
  <2>1. /\ Moved(s) /\ locked' = locked /\ newRoles' = newRoles /\ goneRoles' = goneRoles
        /\ newBlocks' = newBlocks /\ newChildren' = newChildren /\ newVk' = newVk
    BY <1>10 DEF DidSelect
  <2> QED
    BY <1>1, <2>1, RolesLocked
<1>11. CASE DidOrphan(s)
  <2>1. /\ Moved(s) /\ locked' = locked /\ newRoles' = newRoles /\ goneRoles' = goneRoles
        /\ newChildren' = newChildren /\ newVk' = newVk
    BY <1>11 DEF DidOrphan
  <2>2. \A c \in Block : c \in victims[s] \/ newBlocks'[s][c] = newBlocks[s][c]
    BY <1>11 DEF DidOrphan
  <2>3. \A c \in victims[s] : blocks[c] # NoRow
    BY <1>1 DEF Selected
  <2>4. \A c \in Block : newBlocks'[s][c] # NoRow /\ blocks[c] = NoRow => newBlocks[s][c] # NoRow
    BY <2>2, <2>3
  <2> QED
    BY <1>1, <2>1, <2>4, RolesLocked
<1>12. CASE \E b \in Block : DidMark(s, b)
  <2>1. PICK b \in Block : DidMark(s, b)
    BY <1>12
  <2>2. /\ Moved(s) /\ locked' = locked /\ newRoles' = newRoles /\ goneRoles' = goneRoles
        /\ newChildren' = newChildren /\ newVk' = newVk
    BY <2>1 DEF DidMark
  <2>3. \A c \in Block : newBlocks'[s][c] # NoRow /\ blocks[c] = NoRow => newBlocks[s][c] # NoRow
    BY <2>1 DEF DidMark
  <2> QED
    BY <1>1, <2>2, <2>3, RolesLocked
<1> QED
  BY <1>2, <1>3, <1>4, <1>5, <1>6, <1>7, <1>8, <1>9, <1>10, <1>11, <1>12 DEF Did

-----------------------------------------------------------------------------
(* The invariant of the archive.                                           *)

\* The inductive invariant: the four theorems below follow from it.
ArchiveInv ==
    /\ ScriptInv /\ SlotsInv /\ RolesInv
    /\ \A s \in Session : Progressed(s) /\ VkHeld(s)

\* Initially nothing is stored and nobody is at work.
LEMMA InitArchive == Init => ArchiveInv
<1> SUFFICES ASSUME Init PROVE ArchiveInv
  OBVIOUS
<1>1. /\ roles = {} /\ children = {} /\ vk = NoRow /\ \A b \in Block : blocks[b] = NoRow
      /\ \A s \in Session : req[s] = Idle /\ prog[s] = <<>> /\ Fresh(s)
  BY DEF Init, Fresh
<1>2. TypeOK
  <2>1. [b \in Block |-> NoRow] \in BlockTable
    BY DEF BlockTable
  <2>2. <<>> \in Seq(Statement)
    BY ShortLists
  <2>3. roles \subseteq Role /\ children \subseteq Block \X Role /\ vk \in Nat \cup {NoRow}
    BY <1>1
  <2>4. blocks \in BlockTable /\ newBlocks \in [Session -> BlockTable]
    BY <2>1 DEF Init
  <2>5. req \in [Session -> Request \cup {Idle}] /\ prog \in [Session -> Seq(Statement)]
    BY <2>2 DEF Init
  <2>6. /\ locked \in [Session -> SUBSET Role] /\ newRoles \in [Session -> SUBSET Role]
        /\ goneRoles \in [Session -> SUBSET Role] /\ victims \in [Session -> SUBSET Block]
    BY DEF Init
  <2>7. newChildren \in [Session -> SUBSET (Block \X Role)] /\ newVk \in [Session -> Nat \cup {NoRow}]
    BY DEF Init
  <2> QED
    BY <2>3, <2>4, <2>5, <2>6, <2>7 DEF TypeOK
<1>3. Idle.op = "idle"
  BY DEF Idle
<1>4. \A s \in Session : req[s].op = "idle"
  BY <1>1, <1>3
<1>5. ASSUME NEW s \in Session PROVE Scripted(s) /\ Progressed(s) /\ VkHeld(s)
  <2>1. req[s] = Idle /\ prog[s] = <<>> /\ Fresh(s) /\ req[s].op # "setCanonical" /\ newVk[s] = NoRow
    BY <1>1, <1>4 DEF Fresh
  <2>2. Scripted(s)
    BY <2>1 DEF Scripted
  <2>3. Progressed(s)
    BY <2>1 DEF Progressed
  <2>4. VkHeld(s)
    BY <2>1 DEF VkHeld
  <2> QED
    BY <2>2, <2>3, <2>4
<1>6. ASSUME NEW s \in Session, NEW b \in Block PROVE newBlocks[s][b] = NoRow
  <2>1. newBlocks[s] = [c \in Block |-> NoRow]
    BY <1>1 DEF Fresh
  <2> QED
    BY <2>1
<1>7. SlotsInv
  <2>1. OneCommitted
    BY <1>1 DEF OneCommitted, Canonical
  <2>2. \A s \in Session : OneSeen(s)
    BY <1>1, <1>6 DEF OneSeen, Row, Canonical
  <2>3. \A s \in Session : Selected(s) /\ Reorged(s)
    BY <1>1, <1>6 DEF Selected, Reorged, Fresh
  <2>4. \A s \in Session : \A o \in Others(s) : Apart(s, o)
    BY <1>6 DEF Apart, Touches
  <2> QED
    BY <2>1, <2>2, <2>3, <2>4 DEF SlotsInv
<1>8. RolesInv
  <2>1. \A r : ~InUse(r)
    BY <1>1 DEF InUse
  <2>2. RolesBacked
    BY <1>1, <2>1 DEF RolesBacked
  <2>3. ASSUME NEW s \in Session PROVE RolesHeld(s)
    <3>1. /\ locked[s] = {} /\ goneRoles[s] = {} /\ newChildren[s] = {} /\ newVk[s] = NoRow
          /\ \A b \in Block : newBlocks[s][b] = NoRow
      BY <1>1, <1>6 DEF Fresh
    <3> QED
      BY <3>1 DEF RolesHeld
  <2> QED
    BY <2>2, <2>3 DEF RolesInv
<1> QED
  BY <1>2, <1>5, <1>7, <1>8 DEF ArchiveInv, ScriptInv

\* Every step keeps it.
LEMMA StepArchive ==
    ASSUME ArchiveInv, NEW s \in Session, Step(s)
    PROVE  ArchiveInv'
<1>1. /\ ScriptInv /\ SlotsInv /\ RolesInv /\ Selected(s)
      /\ \A o \in Session : Progressed(o) /\ VkHeld(o)
  BY DEF ArchiveInv, SlotsInv
<1>2. Did(s) /\ \A o \in Others(s) : Untouched(o)
  BY <1>1, StepDid
<1>3. TypeOK'
  BY <1>1, StepTypes
<1>4. \A o \in Session : Scripted(o)'
  BY <1>1, <1>2, StepScripts
<1>5. \A o \in Session : Progressed(o)'
  BY <1>1, <1>2, ProgressKept
<1>6. \A o \in Session : VkHeld(o)'
  BY <1>1, <1>2, VkKept
<1>7. SlotsInv'
  BY <1>1, <1>2, SlotsKept
<1>8. RolesInv'
  BY <1>1, <1>2, RolesKept
<1> QED
  BY <1>3, <1>4, <1>5, <1>6, <1>7, <1>8 DEF ArchiveInv, ScriptInv

\* So does a step that changes nothing.
LEMMA NextArchive == ArchiveInv /\ [Next]_vars => ArchiveInv'
<1> SUFFICES ASSUME ArchiveInv, [Next]_vars PROVE ArchiveInv'
  OBVIOUS
<1>1. CASE Next
  BY <1>1, StepArchive DEF Next
<1>2. CASE UNCHANGED vars
  <2>1. /\ TypeOK' /\ \A s \in Session : Scripted(s)'
    BY <1>2 DEF ArchiveInv, ScriptInv, TypeOK, Scripted, Fresh, vars, committed, pending
  <2>2. \A s \in Session : Progressed(s)'
    BY <1>2 DEF ArchiveInv, Progressed, Effected, Row, Children, vars, committed, pending
  <2>3. \A s \in Session : VkHeld(s)'
    BY <1>2 DEF ArchiveInv, VkHeld, vars, committed, pending
  <2>4. SlotsInv'
    <3>1. SlotsInv
      BY DEF ArchiveInv
    <3>2. /\ blocks' = blocks /\ newBlocks' = newBlocks /\ victims' = victims
          /\ req' = req /\ prog' = prog
      BY <1>2 DEF vars, committed, pending
    <3>3. OneCommitted'
      BY <3>1, <3>2 DEF SlotsInv, OneCommitted
    <3>4. \A s \in Session : OneSeen(s)'
      BY <3>1, <3>2 DEF SlotsInv, OneSeen, Row
    <3>5. \A s \in Session : Selected(s)'
      BY <3>1, <3>2 DEF SlotsInv, Selected
    <3>6. \A s \in Session : Reorged(s)'
      BY <3>1, <3>2 DEF SlotsInv, Reorged, Replaced
    <3>7. \A s \in Session : \A o \in Others(s) : Apart(s, o)'
      BY <3>1, <3>2 DEF SlotsInv, Apart, Touches
    <3> QED
      BY <3>3, <3>4, <3>5, <3>6, <3>7 DEF SlotsInv
  <2>5. RolesInv'
    BY <1>2 DEF ArchiveInv, RolesInv, RolesBacked, RolesHeld, InUse, Row, vars, committed, pending
  <2> QED
    BY <2>1, <2>2, <2>3, <2>4, <2>5 DEF ArchiveInv, ScriptInv
<1> QED
  BY <1>1, <1>2

\* The invariant holds in every reachable state.
LEMMA ArchiveInvariant == Spec => []ArchiveInv
  BY InitArchive, NextArchive, PTL DEF Spec

\* Every stored reference to a blob has its role row, and every child row its
\* block, whatever inserts and removals race: RolesBacked.
THEOREM ReferencesAreBacked == Spec => []RolesBacked
<1>1. ArchiveInv => RolesBacked
  BY DEF ArchiveInv, RolesInv
<1> QED
  BY <1>1, ArchiveInvariant, PTL

\* What a putVerifierKeyObservation is about to commit as the first-seen height is
\* no later than its own sighting nor than the stored one, also when others have
\* committed since its upsert read the row: FirstSeenEarliest.
THEOREM EarliestSightingStays == Spec => []FirstSeenEarliest
<1>1. ArchiveInv => FirstSeenEarliest
  BY DEF ArchiveInv, VkHeld, FirstSeenEarliest
<1> QED
  BY <1>1, ArchiveInvariant, PTL

\* A bundle about to commit has its block and all its child rows: BundleComplete.
THEOREM BundlesAreComplete == Spec => []BundleComplete
<1>1. ArchiveInv => BundleComplete
  <2> SUFFICES ASSUME ArchiveInv, NEW s \in Session, req[s].op = "putBlockBundle", prog[s] = <<>>
               PROVE  /\ Row(s, req[s].block) # NoRow
                      /\ \A r \in Range(ChildRoles[req[s].block]) : <<req[s].block, r>> \in Children(s)
    BY DEF BundleComplete
  <2>1. req[s] \in Request \cup {Idle} /\ Progressed(s)
    BY DEF ArchiveInv, ScriptInv, TypeOK
  <2>2. Idle.op = "idle"
    BY DEF Idle
  <2>3. req[s] \in Request /\ req[s] # Idle
    BY <2>1, <2>2, CallsRun
  <2>4. PICK q \in Request : q = req[s]
    BY <2>3
  <2>5. \A st \in Range(Program(q)) : Effected(s, st)
    BY <2>1, <2>3, <2>4, ShortLists DEF Progressed
  <2>6. /\ [do |-> "block", block |-> q.block, flags |-> q.flags] \in Range(Program(q))
        /\ \A r \in Range(ChildRoles[q.block]) :
              [do |-> "child", block |-> q.block, role |-> r] \in Range(Program(q))
    BY <2>4, BundleProgram
  <2>7. Row(s, q.block) # NoRow
    <3>1. Effected(s, [do |-> "block", block |-> q.block, flags |-> q.flags])
      BY <2>5, <2>6
    <3> QED
      BY <3>1 DEF Effected
  <2>8. ASSUME NEW r \in Range(ChildRoles[q.block]) PROVE <<q.block, r>> \in Children(s)
    <3>1. Effected(s, [do |-> "child", block |-> q.block, role |-> r])
      BY <2>5, <2>6
    <3> QED
      BY <3>1 DEF Effected
  <2> QED
    BY <2>4, <2>7, <2>8
<1> QED
  BY <1>1, ArchiveInvariant, PTL

\* A step leaves one canonical block at the height of a canonical block.
LEMMA OneRemains ==
    ASSUME ArchiveInv, [Next]_vars, NEW b \in Block, Canonical(blocks[b])
    PROVE  /\ \E x : {c \in AtHeightOf(b) \cup {b} : Canonical(blocks'[c])} = {x}
           /\ blocks[b].finalized => Canonical(blocks'[b]) /\ blocks'[b].finalized
<1>1. SlotsInv /\ ScriptInv
  BY DEF ArchiveInv
<1>2. \A c \in AtHeightOf(b) \cup {b} : c \in Block /\ SameHeight(c, b)
  BY DEF AtHeightOf, SameHeight
<1>3. \A c \in Block : SameHeight(c, b) => c \in AtHeightOf(b) \cup {b}
  BY DEF AtHeightOf, SameHeight
<1>4. \A c, d \in Block : SameHeight(c, b) /\ SameHeight(d, b) => SameHeight(c, d)
  BY DEF SameHeight
<1>5. SlotsInv'
  BY NextArchive DEF ArchiveInv
<1>6. \A c, d \in AtHeightOf(b) \cup {b} : Canonical(blocks'[c]) /\ Canonical(blocks'[d]) => c = d
  BY <1>2, <1>4, <1>5 DEF SlotsInv, OneCommitted, SameHeight
<1>7. ASSUME NEW x \in Block, SameHeight(x, b), Canonical(blocks'[x])
      PROVE  {c \in AtHeightOf(b) \cup {b} : Canonical(blocks'[c])} = {x}
  <2>1. x \in AtHeightOf(b) \cup {b}
    BY <1>3, <1>7
  <2> QED
    BY <1>6, <1>7, <2>1
<1>8. SameHeight(b, b)
  BY DEF SameHeight
<1>9. CASE blocks' = blocks
  <2>1. Canonical(blocks'[b])
    BY <1>9
  <2> QED
    BY <1>7, <1>8, <1>9, <2>1
<1>10. CASE \E s \in Session : Committed(s)
  <2>1. PICK s \in Session : Committed(s)
    BY <1>10
  <2>2. /\ \A c \in Block : blocks'[c] = Row(s, c)
        /\ prog[s] = <<>>
    BY <2>1 DEF Committed
  <2>3. CASE newBlocks[s][b] = NoRow
    <3>1. blocks'[b] = blocks[b]
      BY <2>2, <2>3 DEF Row
    <3> QED
      BY <1>7, <1>8, <3>1
  <2>4. CASE newBlocks[s][b] # NoRow
    <3>1. blocks'[b] = newBlocks[s][b]
      BY <2>2, <2>4 DEF Row
    <3>2. /\ blocks[b].finalized => Canonical(newBlocks[s][b]) /\ newBlocks[s][b].finalized
          /\ Canonical(newBlocks[s][b]) \/ Replaced(s, b)
      BY <1>1, <2>4 DEF SlotsInv, Reorged
    <3>3. CASE Canonical(newBlocks[s][b])
      BY <1>7, <1>8, <3>1, <3>2, <3>3
    <3>4. CASE ~Canonical(newBlocks[s][b])
      <4>1. PICK x : x = req[s].block
        OBVIOUS
      <4>2. req[s].op = "setCanonical" /\ SameHeight(x, b) /\ Canonical(newBlocks[s][x])
        BY <2>2, <3>2, <3>4, <4>1 DEF Replaced, SameHeight
      <4>3. req[s] \in Request \cup {Idle} /\ Idle.op = "idle"
        BY <1>1 DEF ScriptInv, TypeOK, Idle
      <4>4. x \in Block
        BY <4>1, <4>2, <4>3, CallTypes
      <4>5. Canonical(blocks'[x])
        BY <2>2, <4>2, <4>4 DEF Row, Canonical
      <4> QED
        BY <1>7, <3>2, <3>4, <4>2, <4>4, <4>5
    <3> QED
      BY <3>3, <3>4
  <2> QED
    BY <2>3, <2>4
<1>11. blocks' = blocks \/ \E s \in Session : Committed(s)
  <2>1. CASE Next
    <3>1. PICK s \in Session : Step(s)
      BY <2>1 DEF Next
    <3>2. TablesKept \/ Committed(s)
      BY <1>1, <3>1, StepDid, TablesKeptOrNot
    <3> QED
      BY <3>2 DEF TablesKept
  <2>2. CASE UNCHANGED vars
    BY <2>2 DEF vars, committed
  <2> QED
    BY <2>1, <2>2
<1> QED
  BY <1>9, <1>10, <1>11

-----------------------------------------------------------------------------
\* Only the last theorem counts.
INSTANCE FiniteSetTheorems

\* A canonical block gives way only to another one of its height, in one step and
\* never to two, and a finalized one never: CanonicalKept.
THEOREM CanonicalBlocksAreKept == Spec => CanonicalKept
<1>1. ArchiveInv /\ [Next]_vars => KeepsCanonical
  <2> SUFFICES ASSUME ArchiveInv, [Next]_vars, NEW b \in Block, Canonical(blocks[b])
               PROVE  /\ Cardinality({c \in AtHeightOf(b) \cup {b} : Canonical(blocks'[c])}) = 1
                      /\ blocks[b].finalized => Canonical(blocks'[b]) /\ blocks'[b].finalized
    BY DEF KeepsCanonical
  <2>1. PICK x : {c \in AtHeightOf(b) \cup {b} : Canonical(blocks'[c])} = {x}
    BY OneRemains
  <2>2. Cardinality({x}) = 1
    BY FS_Singleton
  <2> QED
    BY <2>1, <2>2, OneRemains
<1> QED
  BY <1>1, ArchiveInvariant, PTL DEF Spec, CanonicalKept
=============================================================================
