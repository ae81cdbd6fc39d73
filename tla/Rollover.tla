------------------------------- MODULE Rollover -------------------------------
(***************************************************************************)
(* rolloverDefaultPartition (src/postgres/chain-archive-rollover.ts): the  *)
(* rows that overflowed into the DEFAULT partitions of the chain archive's *)
(* three height-partitioned tables become a bounded partition of their     *)
(* own.  The function asks its callers to pause writers and not to run it  *)
(* twice at once; here they do neither.                                    *)
(*                                                                         *)
(* A step is one statement.  The DDL statements are the Script; what       *)
(* PostgreSQL does with each (the locks it takes, when it refuses) is in   *)
(* Legal and Exec.  A statement may fail, wait until lock_timeout, and a   *)
(* connection may be lost, the answer of COMMIT included.                  *)
(***************************************************************************)
EXTENDS Naturals, Sequences, FiniteSets, FiniteSetsExt, SequencesExt

CONSTANTS
    Runner,        \* callers of rolloverDefaultPartition
    Writer,        \* sessions that write block bundles
    Heights,       \* block heights that are written
    Buckets,       \* the arguments callers use: records [suffix, lo, hi]
    PartitionSize, Precreated,  \* partition-config.ts
    MaxCalls,      \* bound: rollover calls in a behaviour
    MaxFaults,     \* bound: failed statements and lost connections
    None

ASSUME RolloverConstants ==
    /\ Buckets \subseteq [suffix : STRING, lo : Nat, hi : Nat]
    /\ PartitionSize \in Nat \ {0} /\ Precreated \in 0..5
    /\ MaxCalls \in Nat /\ MaxFaults \in Nat
    /\ None \notin Runner \cup Writer

ROLLOVER_TABLES == <<"blocks", "transactions", "bridge_observations">>
Table == Range(ROLLOVER_TABLES)
Child == Table \ {"blocks"}

VARIABLES
    catalog,    \* [Table -> set of relations], uncommitted changes included
    saved,      \* what ROLLBACK restores: [Table -> set of relations]
    exclusive,  \* session with ACCESS EXCLUSIVE on the table: [Table -> Runner or None]
    shared,     \* sessions with ROW EXCLUSIVE on it: [Table -> SUBSET Writer]
    rows,       \* committed rows: records [table, height, oid]
    inserted,   \* rows of open transactions: [Writer -> set of rows]
    pc, bucket, step, bounds, repeat, result,  \* the calls of runners
    at,         \* the height a writer writes, or None
    calls, faults

archive == <<catalog, saved, exclusive, shared, rows>>
runner  == <<pc, bucket, step, bounds, repeat, result, calls>>
writer  == <<inserted, at>>
rolloverVars == <<archive, runner, writer, faults>>

-----------------------------------------------------------------------------
(* Relations: a partition keeps its oid, and so its rows, when it is renamed, *)
(* detached or attached.                                                      *)

Bound(lo, hi) == [kind |-> "range", lo |-> lo, hi |-> hi]
DEFAULT  == [kind |-> "default", lo |-> 0, hi |-> 0]
DETACHED == [kind |-> "detached", lo |-> 0, hi |-> 0]
\* fk: does it carry the foreign key to blocks?
Relation(oid, name, bound, fk) == [oid |-> oid, name |-> name, bound |-> bound, fk |-> fk]
Inside(h, bound) == bound.kind = "range" /\ bound.lo <= h /\ h < bound.hi

PartitionName == <<"p0", "p1", "p2", "p3", "p4">>
createHeightPartitions(t) ==
    {Relation(i, PartitionName[i + 1], Bound(i * PartitionSize, (i + 1) * PartitionSize), t \in Child) :
        i \in 0..(Precreated - 1)}
    \cup {Relation(Precreated, "default", DEFAULT, t \in Child)}

Named(rels, name) == {p \in rels : p.name = name}
Attached(rels) == {p \in rels : p.bound # DETACHED}
\* The partition that rows of height h are written to and looked for in.
IsHome(rels, p, h) == \/ Inside(h, p.bound)
                      \/ p.bound = DEFAULT /\ \A q \in rels : ~Inside(h, q.bound)
Routed(rels, h) == CHOOSE p \in rels : IsHome(rels, p, h)
RowsOf(t, oid) == {x \in rows : x.table = t /\ x.oid = oid}

\* What sessions other than the one altering t see.
Committed(t) == IF exclusive[t] = None THEN catalog[t] ELSE saved[t]

RolloverInit ==
    /\ catalog = [t \in Table |-> createHeightPartitions(t)]
    /\ saved = [t \in Table |-> {}]
    /\ exclusive = [t \in Table |-> None] /\ shared = [t \in Table |-> {}]
    /\ rows = {} /\ inserted = [w \in Writer |-> {}] /\ at = [w \in Writer |-> None]
    /\ pc = [r \in Runner |-> "idle"] /\ bucket = [r \in Runner |-> None]
    /\ step = [r \in Runner |-> 0] /\ bounds = [r \in Runner |-> <<>>]
    /\ repeat = [r \in Runner |-> FALSE] /\ result = [r \in Runner |-> "none"]
    /\ calls = 0 /\ faults = 0

-----------------------------------------------------------------------------
(* The DDL of one rollover, in order *)

Statement(op, t) == [op |-> op, table |-> t]
Each(op) == [i \in 1..3 |-> Statement(op, ROLLOVER_TABLES[i])]
Reattach == FlattenSeq([i \in 1..3 |-> <<Each("name")[i], Each("attach")[i]>>])
\* Mutant of Script: the third table's staging data is not attached again.
ScriptBridgeForgotten ==
    <<Statement("detach", "transactions"), Statement("detach", "bridge_observations"),
      Statement("drop_fk", "transactions"), Statement("drop_fk", "bridge_observations"),
      Statement("detach", "blocks")>> \o Each("stage") \o SubSeq(Reattach, 1, 4) \o Each("default")
Script ==
    <<Statement("detach", "transactions"), Statement("detach", "bridge_observations"),
      Statement("drop_fk", "transactions"), Statement("drop_fk", "bridge_observations"),
      Statement("detach", "blocks")>> \o Each("stage") \o Reattach \o Each("default")

\* The name a statement finds its relation by, and the name it gives it.
NameOf(s, b) == CASE s.op \in {"detach", "drop_fk", "stage", "default"} -> "default"
                  [] s.op = "name" -> "staging"
                  [] s.op = "attach" -> b.suffix
NewName(s, b) == CASE s.op = "stage" -> "staging"
                   [] s.op = "name" -> b.suffix
                   [] OTHER -> NameOf(s, b)
Subject(s, b) == CHOOSE p \in Named(catalog[s.table], NameOf(s, b)) : TRUE

\* Tables a statement locks: dropping a foreign key also locks the table it refers to.
LocksOf(s) == IF s.op = "drop_fk" THEN {s.table, "blocks"} ELSE {s.table}

\* Is a row of this partition of blocks referred to through an enforced foreign key?
Referenced(p) == \E x \in RowsOf("blocks", p.oid) : \E y \in rows :
    /\ y.table \in Child /\ y.height = x.height
    /\ \E q \in catalog[y.table] : q.oid = y.oid /\ q.fk
HasParent(x) == \E y \in rows :
    /\ y.table = "blocks" /\ y.height = x.height
    /\ \E q \in Attached(catalog["blocks"]) : q.oid = y.oid

\* Does PostgreSQL accept the statement?
Legal(s, b) ==
    LET rels == catalog[s.table]
        p == Subject(s, b) IN
    CASE s.op = "default" -> /\ Named(rels, "default") = {}
                             /\ \A q \in rels : q.bound # DEFAULT
      [] s.op # "default" ->
         /\ Named(rels, NameOf(s, b)) # {}
         /\ NewName(s, b) = NameOf(s, b) \/ Named(rels, NewName(s, b)) = {}
         /\ s.op = "detach" => p.bound = DEFAULT /\ (s.table = "blocks" => ~Referenced(p))
         /\ s.op = "attach" =>
              /\ \A q \in rels : q.bound.kind = "range" =>
                    q.bound.hi <= b.lo \/ b.hi <= q.bound.lo
              /\ \A x \in RowsOf(s.table, p.oid) : /\ Inside(x.height, Bound(b.lo, b.hi))
                                                   /\ s.table \in Child => HasParent(x)
              /\ \A q \in rels : q.bound = DEFAULT =>
                    \A x \in RowsOf(s.table, q.oid) : ~Inside(x.height, Bound(b.lo, b.hi))

\* The relations of the table afterwards.
Exec(s, b) ==
    LET rels == catalog[s.table]
        p == Subject(s, b)
        Becomes(q) == (rels \ {p}) \cup {q} IN
    CASE s.op = "detach"  -> Becomes([p EXCEPT !.bound = DETACHED])
      [] s.op = "drop_fk" -> Becomes([p EXCEPT !.fk = FALSE])
      [] s.op \in {"stage", "name"} -> Becomes([p EXCEPT !.name = NewName(s, b)])
      [] s.op = "attach"  -> Becomes([p EXCEPT !.bound = Bound(b.lo, b.hi),
                                               !.fk = s.table \in Child])
      [] s.op = "default" -> rels \cup {Relation(1 + Max({q.oid : q \in rels}), "default",
                                                 DEFAULT, s.table \in Child)}

-----------------------------------------------------------------------------
(* rolloverDefaultPartition *)

Goto(r, label, n) == pc' = [pc EXCEPT ![r] = label] /\ step' = [step EXCEPT ![r] = n]
Settle(r, how) ==
    /\ Goto(r, "idle", 0)
    /\ result' = [result EXCEPT ![r] = how]
    /\ bounds' = [bounds EXCEPT ![r] = <<>>]

assertValidBucketBounds(b) == b.lo < b.hi
\* The bound of the attached partition t_<suffix>, in what is committed.
attachedPartitionBound(t, b) ==
    {p.bound : p \in Attached(Named(Committed(t), b.suffix))}
AppliedIn(t, b) == attachedPartitionBound(t, b) = {Bound(b.lo, b.hi)}

CallRollover(r) == \E b \in Buckets :
    /\ pc[r] = "idle" /\ calls < MaxCalls
    /\ calls' = calls + 1
    /\ bucket' = [bucket EXCEPT ![r] = b]
    /\ repeat' = [repeat EXCEPT ![r] = \A t \in Table : AppliedIn(t, b)]
    /\ \/ ~assertValidBucketBounds(b) /\ Settle(r, "refused")
       \/ /\ assertValidBucketBounds(b)
          /\ Goto(r, "applied", 1) /\ UNCHANGED <<bounds, result>>
    /\ UNCHANGED <<archive, writer, faults>>

\* Mutant of rolloverAlreadyApplied: goes ahead whatever the answers.
AlreadyAppliedIgnored(r, seen) ==
    Goto(r, "span", 1) /\ bounds' = [bounds EXCEPT ![r] = <<>>] /\ UNCHANGED result
\* The three answers decide: none attached, all with this bound, or a refusal.
rolloverAlreadyApplied(r, seen) ==
    LET attached == {i \in 1..3 : seen[i] # {}} IN
    CASE attached = {} -> Goto(r, "span", 1) /\ bounds' = [bounds EXCEPT ![r] = <<>>]
                          /\ UNCHANGED result
      [] attached # {} /\ \A i \in 1..3 : seen[i] = {Bound(bucket[r].lo, bucket[r].hi)} ->
            Settle(r, "noop")
      [] OTHER -> Settle(r, "refused")

\* Three queries, each with a snapshot of its own.
ReadBound(r) ==
    /\ pc[r] = "applied"
    /\ LET seen == Append(bounds[r], attachedPartitionBound(ROLLOVER_TABLES[step[r]], bucket[r])) IN
       \/ /\ step[r] < 3
          /\ bounds' = [bounds EXCEPT ![r] = seen]
          /\ Goto(r, "applied", step[r] + 1) /\ UNCHANGED result
       \/ step[r] = 3 /\ rolloverAlreadyApplied(r, seen)
    /\ UNCHANGED <<archive, writer, bucket, repeat, calls, faults>>

DefaultHeights(t) == {x.height : x \in UNION {RowsOf(t, p.oid) : p \in Named(Committed(t), "default")}}

\* The committed rows of t_default, read under a lock that waits for the other rollover's.
assertDefaultSpanFitsOneBucket(r) ==
    LET t == ROLLOVER_TABLES[step[r]]
        fits == \A h \in DefaultHeights(t) : Inside(h, Bound(bucket[r].lo, bucket[r].hi)) IN
    /\ pc[r] = "span" /\ exclusive[t] = None
    /\ \/ ~fits /\ Settle(r, "refused")
       \/ /\ fits
          /\ IF step[r] < 3 THEN Goto(r, "span", step[r] + 1) ELSE Goto(r, "ddl", 1)
          /\ UNCHANGED <<bounds, result>>
    /\ UNCHANGED <<archive, writer, bucket, repeat, calls, faults>>

\* A table that r alters, or is about to, belongs to nobody else.
Free(r, t) == exclusive[t] \in {None, r} /\ shared[t] = {}
Blocked(r) == CASE pc[r] = "ddl" -> \E t \in LocksOf(Script[step[r]]) : ~Free(r, t)
                [] pc[r] = "span" -> exclusive[ROLLOVER_TABLES[step[r]]] # None
                [] OTHER -> FALSE

\* One statement of the script; one that PostgreSQL refuses aborts the transaction.
Ddl(r) ==
    LET s == Script[step[r]]
        locks == LocksOf(s)
        new == {t \in locks : exclusive[t] = None} IN
    /\ pc[r] = "ddl" /\ ~Blocked(r)
    /\ exclusive' = [t \in Table |-> IF t \in locks THEN r ELSE exclusive[t]]
    /\ saved' = [t \in Table |-> IF t \in new THEN catalog[t] ELSE saved[t]]
    /\ \/ /\ Legal(s, bucket[r])
          /\ catalog' = [catalog EXCEPT ![s.table] = Exec(s, bucket[r])]
          /\ IF step[r] < Len(Script) THEN Goto(r, "ddl", step[r] + 1) ELSE Goto(r, "commit", 0)
       \/ ~Legal(s, bucket[r]) /\ Goto(r, "rollback", 0) /\ UNCHANGED catalog
    /\ UNCHANGED <<shared, rows, writer, bucket, bounds, repeat, result, calls, faults>>

\* The end of r's transaction.
EndTx(r, keep) ==
    LET mine == {t \in Table : exclusive[t] = r} IN
    /\ catalog' = [t \in Table |-> IF t \in mine /\ ~keep THEN saved[t] ELSE catalog[t]]
    /\ saved' = [t \in Table |-> IF t \in mine THEN {} ELSE saved[t]]
    /\ exclusive' = [t \in Table |-> IF t \in mine THEN None ELSE exclusive[t]]
    /\ UNCHANGED <<shared, rows>>

CommitRollover(r) ==
    /\ pc[r] = "commit" /\ EndTx(r, TRUE) /\ Settle(r, "done")
    /\ UNCHANGED <<writer, bucket, repeat, calls, faults>>

\* Mutant of RollbackRollover: the error is rethrown from statements that ran on their own.
RollbackAutocommit(r) ==
    /\ pc[r] = "rollback" /\ EndTx(r, TRUE) /\ Settle(r, "failed")
    /\ UNCHANGED <<writer, bucket, repeat, calls, faults>>

RollbackRollover(r) ==
    /\ pc[r] = "rollback" /\ EndTx(r, FALSE) /\ Settle(r, "failed")
    /\ UNCHANGED <<writer, bucket, repeat, calls, faults>>

\* lock_timeout, or the deadlock detector, ends a wait.
WaitEnds(r) ==
    /\ Blocked(r)
    /\ IF pc[r] = "ddl" THEN Goto(r, "rollback", 0) /\ UNCHANGED <<bounds, result>>
       ELSE Settle(r, "failed")
    /\ UNCHANGED <<archive, writer, bucket, repeat, calls, faults>>

StatementFails(r) ==
    /\ faults < MaxFaults /\ faults' = faults + 1
    /\ pc[r] \in {"ddl", "commit"} /\ Goto(r, "rollback", 0)
    /\ UNCHANGED <<archive, writer, bucket, bounds, repeat, result, calls>>

\* The caller learns nothing; the server undoes what was not committed.
ConnectionLost(r) ==
    /\ faults < MaxFaults /\ faults' = faults + 1
    /\ pc[r] # "idle" /\ Settle(r, "lost")
    /\ EndTx(r, FALSE) \/ (pc[r] = "commit" /\ EndTx(r, TRUE))
    /\ UNCHANGED <<writer, bucket, repeat, calls>>

-----------------------------------------------------------------------------
(* Writers: a bundle is a block and a row of each child table, in one transaction *)

Written(t, h) == \E x \in rows : x.table = t /\ x.height = h
WriterIsAt(w) == ROLLOVER_TABLES[Cardinality(inserted[w]) + 1]

BeginBundle(w) == \E h \in Heights :
    /\ at[w] = None /\ ~Written("blocks", h) /\ \A v \in Writer : at[v] # h
    /\ at' = [at EXCEPT ![w] = h]
    /\ UNCHANGED <<archive, runner, inserted, faults>>

InsertRow(w) ==
    /\ at[w] # None /\ Cardinality(inserted[w]) < 3
    /\ LET t == WriterIsAt(w) IN
       /\ exclusive[t] = None
       /\ shared' = [shared EXCEPT ![t] = @ \cup {w}]
       /\ inserted' = [inserted EXCEPT ![w] = @ \cup
             {[table |-> t, height |-> at[w], oid |-> Routed(catalog[t], at[w]).oid]}]
    /\ UNCHANGED <<catalog, saved, exclusive, rows, runner, at, faults>>

EndBundle(w) ==
    /\ shared' = [t \in Table |-> shared[t] \ {w}]
    /\ inserted' = [inserted EXCEPT ![w] = {}]
    /\ at' = [at EXCEPT ![w] = None]
    /\ UNCHANGED <<catalog, saved, exclusive, runner, faults>>

CommitBundle(w) ==
    /\ Cardinality(inserted[w]) = 3
    /\ rows' = rows \cup inserted[w]
    /\ EndBundle(w)

\* A wait that ends, or any other failure of the writer's transaction.
AbortBundle(w) == at[w] # None /\ EndBundle(w) /\ UNCHANGED rows

-----------------------------------------------------------------------------
RolloverNext ==
    \/ \E r \in Runner :
          \/ CallRollover(r) \/ ReadBound(r) \/ assertDefaultSpanFitsOneBucket(r) \/ Ddl(r)
          \/ CommitRollover(r) \/ RollbackRollover(r)
          \/ WaitEnds(r) \/ StatementFails(r) \/ ConnectionLost(r)
    \/ \E w \in Writer : BeginBundle(w) \/ InsertRow(w) \/ CommitBundle(w) \/ AbortBundle(w)

\* Every call is over and every height is written: nothing is left to do.
Finished ==
    /\ calls = MaxCalls /\ \A r \in Runner : pc[r] = "idle"
    /\ \A w \in Writer : at[w] = None
    /\ \A h \in Heights : Written("blocks", h)

-----------------------------------------------------------------------------
(* What must hold, of what other sessions see *)

\* Every row ever committed is in an attached partition of its table, the one that a
\* query for its height reads: no rollover, finished, failed or cut off, and no writer
\* that was not paused, puts a row where its height is not looked for.
RowsReachable == \A x \in rows : \E p \in Committed(x.table) :
    p.oid = x.oid /\ IsHome(Committed(x.table), p, x.height)

\* The three tables always have the same partitions, disjoint ones, and a DEFAULT;
\* none is left detached or under its staging name, and the foreign key of every
\* partition of a child table is back.
HierarchyWhole ==
    /\ \A t \in Table : /\ \A p \in Committed(t) : p.bound # DETACHED /\ (p.fk <=> t \in Child)
                        /\ \E p \in Committed(t) : p.name = "default" /\ p.bound = DEFAULT
                        /\ \A h \in Heights : Cardinality({p \in Committed(t) : Inside(h, p.bound)}) <= 1
    /\ \A t \in Child : {<<p.name, p.bound>> : p \in Committed(t)} =
                        {<<p.name, p.bound>> : p \in Committed("blocks")}

\* A call for a bucket that is already there returns without touching anything, also
\* while others are at work: a caller that lost the answer of COMMIT may call again.
RepeatIsNoop == \A r \in Runner : repeat[r] => /\ pc[r] \in {"idle", "applied"}
                                               /\ pc[r] = "idle" => result[r] \in {"noop", "lost"}
===============================================================================
