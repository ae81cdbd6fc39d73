---------------------------- MODULE ChainArchive ----------------------------
(***************************************************************************)
(* The tables of the chain archive as PostgresChainArchiveStore writes     *)
(* them: blocks, their transaction and bridge-observation rows, the role   *)
(* rows that back every blob reference, and the first-seen height of a     *)
(* verifier key.  Every method is one transaction, a list of statements    *)
(* that the server executes one by one under READ COMMITTED; statements of *)
(* different sessions interleave, and a statement that meets a row another *)
(* open transaction has written waits for that transaction to end.         *)
(*                                                                         *)
(* chain_blobs is never deleted from and is written beside each role row,  *)
(* so a role stands for the blob too.  A deadlock, a timeout or a lost     *)
(* connection is Rollback, which may happen at any point.                  *)
(***************************************************************************)
EXTENDS Integers, Sequences, FiniteSets, Functions

CONSTANTS
    Session,        \* connections, each running one method at a time
    Block,          \* block hashes
    Height,         \* the height of each block
    Role,           \* (blob_hash, role) pairs
    BlockRoles,     \* the header role of each block, and its body role if any
    ChildRoles,     \* the raw-bytes roles of each block's child rows, in order
    VkRole,         \* the role of the observed verifier key
    Request,        \* the calls the sessions may make
    NoRow           \* no such row

Flags == [canonical : BOOLEAN, finalized : BOOLEAN]

\* The methods of the store that write, with their arguments, and the removal of
\* a role row; NoRow is the finality that a caller of setCanonical leaves out.
Call ==
    [op : {"putBlobWithRole", "removeRole"}, role : Role]
        \cup [op : {"putBlock", "putBlockBundle"}, block : Block, flags : Flags]
        \cup [op : {"putChildren"}, block : Block]
        \cup [op : {"putVerifierKeyObservation"}, height : Nat]
        \cup [op : {"setCanonical"}, block : Block, finalized : BOOLEAN \cup {NoRow}]

ASSUME ArchiveConstants ==
    /\ Height \in [Block -> Nat]
    /\ BlockRoles \in [Block -> Seq(Role)]
    /\ ChildRoles \in [Block -> Seq(Role)]
    /\ VkRole \in Role
    /\ Request \subseteq Call
    /\ NoRow \notin Flags \cup Nat

VARIABLES
    roles,          \* committed chain_blob_roles
    blocks,         \* committed blocks: NoRow or the flags
    children,       \* committed transactions and bridge_observations
    vk,             \* committed first_seen_height, or NoRow
    req,            \* the call each session is running
    prog,           \* the statements it has left
    locked,         \* roles it holds FOR SHARE
    newRoles,       \* role rows it has inserted
    goneRoles,      \* role rows it has deleted
    newBlocks,      \* block rows it has inserted or updated
    newChildren,    \* child rows it has inserted
    newVk,          \* the verifier-key row it has written
    victims         \* blocks its first UPDATE has selected to orphan

committed == <<roles, blocks, children, vk>>
pending == <<locked, newRoles, goneRoles, newBlocks, newChildren, newVk, victims>>
vars == <<committed, req, prog, pending>>

-----------------------------------------------------------------------------
(* The statements of each method.                                          *)

Idle == [op |-> "idle"]

InsertRole(r) == [do |-> "role", role |-> r]

InsertBlockRow(b, flags) ==
    [i \in DOMAIN BlockRoles[b] |-> InsertRole(BlockRoles[b][i])]
        \o <<[do |-> "block", block |-> b, flags |-> flags]>>

\* For each child row in turn, its role and then the row.
InsertChildRows(b) ==
    [i \in 1..2 * Len(ChildRoles[b]) |->
        LET r == ChildRoles[b][(i + 1) \div 2] IN
        IF i % 2 = 1 THEN InsertRole(r)
        ELSE [do |-> "child", block |-> b, role |-> r]]

Program(q) ==
    CASE q.op = "putBlobWithRole" -> <<InsertRole(q.role)>>
      [] q.op = "putBlock" -> InsertBlockRow(q.block, q.flags)
      [] q.op = "putChildren" -> InsertChildRows(q.block)
      [] q.op = "putBlockBundle" ->
            InsertBlockRow(q.block, q.flags) \o InsertChildRows(q.block)
      [] q.op = "putVerifierKeyObservation" ->
            <<InsertRole(VkRole), [do |-> "vk", height |-> q.height]>>
      [] q.op = "setCanonical" ->
            <<[do |-> "select", block |-> q.block], [do |-> "orphan"],
              [do |-> "mark", block |-> q.block, finalized |-> q.finalized]>>
      [] q.op = "removeRole" -> <<[do |-> "remove", role |-> q.role]>>

-----------------------------------------------------------------------------
(* What a session sees, and what it waits for.                             *)

Others(s) == Session \ {s}

Roles(s) == (roles \ goneRoles[s]) \cup newRoles[s]

Row(s, b) == IF newBlocks[s][b] # NoRow THEN newBlocks[s][b] ELSE blocks[b]

Children(s) == children \cup newChildren[s]

Canonical(row) == row # NoRow /\ row.canonical

AtHeightOf(b) == {c \in Block \ {b} : Height[c] = Height[b]}

\* Another open transaction has written block b's row.
RowBusy(s, b) == \E o \in Others(s) : newBlocks[o][b] # NoRow

\* Mutant: the canonical index does not see uncommitted rows.
SlotBusyIgnored(s, b) == FALSE

\* Another open transaction is taking or giving up the canonical slot at b's
\* height: blocks_one_canonical_per_height waits to learn the outcome.
SlotBusy(s, b) ==
    \E o \in Others(s), c \in AtHeightOf(b) :
        newBlocks[o][c] # NoRow
            /\ (Canonical(newBlocks[o][c]) \/ Canonical(blocks[c]))

SlotTaken(s, b) == \E c \in AtHeightOf(b) : Canonical(Row(s, c))

RoleBusy(s, r) == \E o \in Others(s) : r \in newRoles[o] \cup goneRoles[o]

\* chain_archive_assert_blob_role waits for a deletion of the role in progress.
RoleGoing(s, r) == \E o \in Others(s) : r \in goneRoles[o]

Runs(s, kind) == prog[s] # <<>> /\ Head(prog[s]).do = kind

Advance(s) == prog' = [prog EXCEPT ![s] = Tail(@)] /\ UNCHANGED <<committed, req>>

ClearPending(s) ==
    /\ locked' = [locked EXCEPT ![s] = {}]
    /\ newRoles' = [newRoles EXCEPT ![s] = {}]
    /\ goneRoles' = [goneRoles EXCEPT ![s] = {}]
    /\ newBlocks' = [newBlocks EXCEPT ![s] = [b \in Block |-> NoRow]]
    /\ newChildren' = [newChildren EXCEPT ![s] = {}]
    /\ newVk' = [newVk EXCEPT ![s] = NoRow]
    /\ victims' = [victims EXCEPT ![s] = {}]

End(s) ==
    /\ req' = [req EXCEPT ![s] = Idle]
    /\ prog' = [prog EXCEPT ![s] = <<>>]
    /\ ClearPending(s)

\* A statement raises: sql.begin rolls the transaction back.
Fault(s) == End(s) /\ UNCHANGED committed

-----------------------------------------------------------------------------
Init ==
    /\ roles = {} /\ children = {} /\ vk = NoRow
    /\ blocks = [b \in Block |-> NoRow]
    /\ req = [s \in Session |-> Idle]
    /\ prog = [s \in Session |-> <<>>]
    /\ locked = [s \in Session |-> {}]
    /\ newRoles = [s \in Session |-> {}]
    /\ goneRoles = [s \in Session |-> {}]
    /\ newBlocks = [s \in Session |-> [b \in Block |-> NoRow]]
    /\ newChildren = [s \in Session |-> {}]
    /\ newVk = [s \in Session |-> NoRow]
    /\ victims = [s \in Session |-> {}]

Begin(s) ==
    /\ req[s] = Idle
    /\ \E q \in Request :
        /\ Program(q) # <<>>
        /\ req' = [req EXCEPT ![s] = q]
        /\ prog' = [prog EXCEPT ![s] = Program(q)]
    /\ UNCHANGED <<committed, pending>>

\* INSERT INTO chain_blob_roles ... ON CONFLICT DO NOTHING.
PutRole(s) ==
    /\ Runs(s, "role")
    /\ LET r == Head(prog[s]).role IN
        /\ ~RoleBusy(s, r)
        /\ newRoles' = [newRoles EXCEPT ![s] = @ \cup ({r} \ Roles(s))]
    /\ Advance(s)
    /\ UNCHANGED <<locked, goneRoles, newBlocks, newChildren, newVk, victims>>

\* Mutant: the trigger reads without FOR SHARE.
LockRoleUnlocked(s, rs) == rs \subseteq Roles(s) /\ UNCHANGED locked

\* The BEFORE INSERT trigger of the referencing tables: each role must have its
\* row, which stays locked FOR SHARE until the transaction ends.
LockRole(s, rs) ==
    /\ rs \subseteq Roles(s)
    /\ locked' = [locked EXCEPT ![s] = @ \cup rs]

\* Mutant: a block that is there already ends the bundle.
InsertBlockOnly(s) ==
    /\ Runs(s, "block")
    /\ LET b == Head(prog[s]).block
           flags == Head(prog[s]).flags
       IN /\ ~RowBusy(s, b) /\ ~SlotBusy(s, b) /\ ~SlotTaken(s, b)
          /\ LockRole(s, Range(BlockRoles[b]))
          /\ newBlocks' = [newBlocks EXCEPT ![s][b] =
                              IF Row(s, b) = NoRow THEN flags ELSE @]
          /\ prog' = [prog EXCEPT ![s] = IF Row(s, b) = NoRow THEN Tail(@) ELSE <<>>]
          /\ UNCHANGED <<committed, req>>
          /\ UNCHANGED <<newRoles, goneRoles, newChildren, newVk, victims>>

\* INSERT INTO blocks ... ON CONFLICT (net, height, block_hash) DO NOTHING.  The
\* trigger and the CHECK come first, also for a row that is already there; only
\* a new canonical row meets blocks_one_canonical_per_height.
InsertBlock(s) ==
    /\ Runs(s, "block")
    /\ LET b == Head(prog[s]).block
           flags == Head(prog[s]).flags
           rs == Range(BlockRoles[b])
           claims == flags.canonical /\ Row(s, b) = NoRow
       IN /\ \A r \in rs : ~RoleGoing(s, r)
          /\ \/ /\ flags.finalized => flags.canonical
                /\ ~RowBusy(s, b)
                /\ claims => ~SlotBusy(s, b) /\ ~SlotTaken(s, b)
                /\ LockRole(s, rs)
                /\ newBlocks' = [newBlocks EXCEPT ![s][b] =
                                    IF Row(s, b) = NoRow THEN flags ELSE @]
                /\ Advance(s)
                /\ UNCHANGED <<newRoles, goneRoles, newChildren, newVk, victims>>
             \/ /\ \/ ~(rs \subseteq Roles(s))
                   \/ flags.finalized /\ ~flags.canonical
                   \/ ~RowBusy(s, b) /\ claims /\ SlotTaken(s, b)
                /\ Fault(s)

\* INSERT INTO transactions or bridge_observations ... ON CONFLICT DO NOTHING:
\* the trigger, then the row, then the foreign key to its block.
InsertChild(s) ==
    /\ Runs(s, "child")
    /\ LET b == Head(prog[s]).block
           r == Head(prog[s]).role
       IN /\ ~RoleGoing(s, r)
          /\ \/ /\ \A o \in Others(s) : <<b, r>> \notin newChildren[o]
                /\ Row(s, b) # NoRow
                /\ LockRole(s, {r})
                /\ newChildren' = [newChildren EXCEPT ![s] = @ \cup ({<<b, r>>} \ children)]
                /\ Advance(s)
                /\ UNCHANGED <<newRoles, goneRoles, newBlocks, newVk, victims>>
             \/ /\ r \notin Roles(s) \/ Row(s, b) = NoRow
                /\ Fault(s)

\* Mutant: the last sighting wins.
LeastLastWins(h) == h

\* INSERT INTO verifier_key_observations ... DO UPDATE SET first_seen_height =
\* LEAST(...): the row is locked, so the minimum is taken with its latest value.
Least(h) == IF vk # NoRow /\ vk < h THEN vk ELSE h

UpsertVk(s) ==
    /\ Runs(s, "vk")
    /\ ~RoleGoing(s, VkRole)
    /\ \/ /\ \A o \in Others(s) : newVk[o] = NoRow
          /\ LockRole(s, {VkRole})
          /\ newVk' = [newVk EXCEPT ![s] = Least(Head(prog[s]).height)]
          /\ Advance(s)
          /\ UNCHANGED <<newRoles, goneRoles, newBlocks, newChildren, victims>>
       \/ VkRole \notin Roles(s) /\ Fault(s)

\* setCanonical's first UPDATE finds its rows in the snapshot of its start ...
SelectCanonical(s) ==
    /\ Runs(s, "select")
    /\ victims' = [victims EXCEPT ![s] =
                      {c \in AtHeightOf(Head(prog[s]).block) : Canonical(blocks[c])}]
    /\ Advance(s)
    /\ UNCHANGED <<locked, newRoles, goneRoles, newBlocks, newChildren, newVk>>

\* Mutant: no CHECK (NOT finalized OR is_canonical).
OrphanUnchecked(s) ==
    /\ Runs(s, "orphan")
    /\ \A c \in victims[s] : ~RowBusy(s, c)
    /\ newBlocks' = [newBlocks EXCEPT ![s] = [c \in Block |->
            IF c \in victims[s] /\ blocks[c].canonical
            THEN [blocks[c] EXCEPT !.canonical = FALSE] ELSE @[c]]]
    /\ victims' = [victims EXCEPT ![s] = {}]
    /\ Advance(s)
    /\ UNCHANGED <<locked, newRoles, goneRoles, newChildren, newVk>>

\* ... and once their locks are free orphans those that are canonical still.
\* A finalized one fails CHECK (NOT finalized OR is_canonical).
Orphan(s) ==
    /\ Runs(s, "orphan")
    /\ \A c \in victims[s] : ~RowBusy(s, c)
    /\ LET still == {c \in victims[s] : blocks[c].canonical} IN
        \/ /\ \A c \in still : ~blocks[c].finalized
           /\ newBlocks' = [newBlocks EXCEPT ![s] = [c \in Block |->
                  IF c \in still THEN [blocks[c] EXCEPT !.canonical = FALSE] ELSE @[c]]]
           /\ victims' = [victims EXCEPT ![s] = {}]
           /\ Advance(s)
           /\ UNCHANGED <<locked, newRoles, goneRoles, newChildren, newVk>>
        \/ /\ \E c \in still : blocks[c].finalized
           /\ Fault(s)

\* setCanonical's second UPDATE, on the one row it names; no such row is
\* BlockNotFoundError.  The row keeps its finality unless the caller gives one,
\* and blocks_finalized_monotonic refuses to take it back.
Mark(s) ==
    /\ Runs(s, "mark")
    /\ LET b == Head(prog[s]).block
           to == Head(prog[s]).finalized
       IN \/ /\ blocks[b] # NoRow
             /\ ~RowBusy(s, b) /\ ~SlotBusy(s, b) /\ ~SlotTaken(s, b)
             /\ blocks[b].finalized => to # FALSE
             /\ newBlocks' = [newBlocks EXCEPT ![s][b] =
                    [canonical |-> TRUE,
                     finalized |-> IF to = NoRow THEN blocks[b].finalized ELSE to]]
             /\ Advance(s)
             /\ UNCHANGED <<locked, newRoles, goneRoles, newChildren, newVk, victims>>
          \/ /\ \/ blocks[b] = NoRow
                \/ /\ blocks[b] # NoRow /\ ~RowBusy(s, b)
                   /\ (blocks[b].finalized /\ to = FALSE) \/ SlotTaken(s, b)
             /\ Fault(s)

\* DELETE FROM chain_blob_roles by an operator: the guard trigger locks the row
\* FOR UPDATE, behind every FOR SHARE on it, and then looks for references.
InUse(r) ==
    \/ \E b \in Block : blocks[b] # NoRow /\ r \in Range(BlockRoles[b])
    \/ \E c \in children : c[2] = r
    \/ r = VkRole /\ vk # NoRow

RemoveRole(s) ==
    /\ Runs(s, "remove")
    /\ LET r == Head(prog[s]).role IN
        /\ \A o \in Others(s) : r \notin locked[o] \cup goneRoles[o]
        /\ \/ /\ r \in roles => ~InUse(r)
              /\ goneRoles' = [goneRoles EXCEPT ![s] = {r} \cap roles]
              /\ Advance(s)
              /\ UNCHANGED <<locked, newRoles, newBlocks, newChildren, newVk, victims>>
           \/ /\ r \in roles /\ InUse(r)
              /\ Fault(s)

Commit(s) ==
    /\ req[s] # Idle /\ prog[s] = <<>>
    /\ roles' = Roles(s)
    /\ blocks' = [b \in Block |-> Row(s, b)]
    /\ children' = Children(s)
    /\ vk' = IF newVk[s] = NoRow THEN vk ELSE newVk[s]
    /\ End(s)

\* The deadlock detector, a timeout or a lost connection ends the transaction.
Rollback(s) == req[s] # Idle /\ Fault(s)

Step(s) ==
    \/ Begin(s) \/ PutRole(s) \/ InsertBlock(s) \/ InsertChild(s) \/ UpsertVk(s)
    \/ SelectCanonical(s) \/ Orphan(s) \/ Mark(s) \/ RemoveRole(s)
    \/ Commit(s) \/ Rollback(s)

Next == \E s \in Session : Step(s)

Spec == Init /\ [][Next]_vars

-----------------------------------------------------------------------------
\* At the height of a canonical block there is one after the step, and it is
\* the same one if it was finalized.
KeepsCanonical ==
    \A b \in Block : Canonical(blocks[b]) =>
        /\ Cardinality({c \in AtHeightOf(b) \cup {b} : Canonical(blocks'[c])}) = 1
        /\ blocks[b].finalized => Canonical(blocks'[b]) /\ blocks'[b].finalized

\* A canonical block gives way only to another one of its height, in one step and
\* never to two, and a finalized one never: setCanonical orphans the old block
\* and marks the new one together or not at all, also when the block it names
\* does not exist, and no stale reorg displaces what was finalized meanwhile.
CanonicalKept == [][KeepsCanonical]_vars

\* When putBlockBundle is about to commit, the block and every child row of the
\* bundle are there, whether it wrote them or found them written by a putBlock,
\* a putTransactions or an earlier bundle that was retried.
BundleComplete ==
    \A s \in Session : req[s].op = "putBlockBundle" /\ prog[s] = <<>> =>
        /\ Row(s, req[s].block) # NoRow
        /\ \A r \in Range(ChildRoles[req[s].block]) : <<req[s].block, r>> \in Children(s)

\* Every stored reference to a blob has its role row, and every child row its
\* block, against removals of roles that race the inserts: the FOR SHARE of
\* chain_archive_assert_blob_role meets the FOR UPDATE of the removal guard.
RolesBacked ==
    /\ \A r \in Role : InUse(r) => r \in roles
    /\ \A c \in children : blocks[c[1]] # NoRow

\* What putVerifierKeyObservation is about to commit is no later than its own
\* sighting and than the height already stored, so the stored first-seen height
\* is the earliest of all sightings in whatever order the calls overlap.
FirstSeenEarliest ==
    \A s \in Session : newVk[s] # NoRow =>
        /\ newVk[s] <= req[s].height
        /\ vk # NoRow => newVk[s] <= vk

=============================================================================
