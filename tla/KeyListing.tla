----------------------------- MODULE KeyListing -----------------------------
(***************************************************************************)
(* PgTemporalKV.listKeys (src/postgres/temporal-kv.ts): an async generator *)
(* over a cursor of postgres.js, with an abort signal that may fire while  *)
(* it fetches, while it hands out the rows of a batch, and while it is     *)
(* suspended at a yield.  A step is what the generator does between two    *)
(* awaits or yields, or one event of its consumer, of the signal, of the   *)
(* server or of the wire.                                                  *)
(*                                                                         *)
(* A string is a sequence of characters.  The cursor is the driver's: its  *)
(* return() closes the server's portal only when the last batch asked for  *)
(* has arrived, and query.cancel() is a request that travels on its own    *)
(* and does nothing when it finds no statement executing.                  *)
(***************************************************************************)
EXTENDS Naturals, Sequences, SequencesExt

CONSTANTS
    KeyOrder,     \* the keys there may be, in the order of the collation
    Prefix,       \* the prefixes listed
    BATCH         \* query.cursor(256)

UnsafePrefix == <<"NUL">>

VARIABLES
    keys,         \* the keys of kv_current
    where,        \* where the generator is
    prefix,       \* its argument
    atCall,       \* the keys there were when it was called
    batch,        \* rows of the batch that it has not yielded yet
    yielded,      \* keys it has yielded
    outcome,      \* how it ended
    signalled,    \* signal.aborted
    cursor,       \* the query: "none", "queued", "executing", "portal", "ended"
    rest,         \* rows the portal has still to send
    reply,        \* what iterator.next() has resolved to, unread
    cancelling,   \* a cancel request is under way
    wasted        \* a cancel request found no statement to cancel

generator == <<where, prefix, atCall, batch, yielded, outcome>>
query == <<cursor, rest, reply, cancelling, wasted>>
listing == <<keys, signalled, generator, query>>

Answer(kind) == [kind |-> kind, rows |-> <<>>]
RowsAnswer(rows) == [kind |-> "rows", rows |-> rows]
NoReply == Answer("none")
Running == "running"

(***************************************************************************)
(* The pattern                                                             *)
(***************************************************************************)
\* The prefix is used as it is.
EscapeNothing(p) == p
escapeLikePrefix(p) ==
    FlattenSeq([i \in DOMAIN p |->
        IF p[i] \in {"\\", "%", "_"} THEN <<"\\", p[i]>> ELSE <<p[i]>>])

\* LIKE ... ESCAPE '\'.
RECURSIVE Like(_, _)
Like(s, pattern) ==
    IF pattern = <<>> THEN s = <<>>
    ELSE IF pattern[1] = "%"
         THEN \E i \in 0 .. Len(s) : Like(SubSeq(s, i + 1, Len(s)), Tail(pattern))
    ELSE LET p == IF pattern[1] = "\\" THEN Tail(pattern) ELSE pattern
         IN  /\ p # <<>> /\ s # <<>>
             /\ s[1] = p[1] \/ pattern[1] = "_"
             /\ Like(Tail(s), Tail(p))

\* The rows of the query, ORDER BY key.
Selected(p) ==
    SelectSeq(KeyOrder, LAMBDA k : k \in keys /\ Like(k, Append(escapeLikePrefix(p), "%")))

(***************************************************************************)
(* The generator                                                           *)
(***************************************************************************)
ListingInit ==
    /\ keys \in SUBSET ToSet(KeyOrder)
    /\ where = "new" /\ prefix = <<>> /\ atCall = {} /\ batch = <<>> /\ yielded = <<>>
    /\ outcome = Running /\ signalled = FALSE
    /\ cursor = "none" /\ rest = <<>> /\ reply = NoReply
    /\ cancelling = FALSE /\ wasted = FALSE

\* iterator.next(): the query is sent with the first call; later ones ask the
\* portal for the next batch; once the query has ended there is none.
NextBatch ==
    /\ where' = "fetch"
    /\ cursor' = CASE cursor = "none" -> "queued"
                   [] cursor = "portal" -> "executing"
                   [] OTHER -> cursor
    /\ reply' = IF cursor = "ended" THEN Answer("done") ELSE NoReply
    /\ UNCHANGED <<rest, cancelling, wasted>>

\* A throw, or the end of the loop: the listener is removed, then return().
Leave(how) == where' = "closing" /\ outcome' = how

listKeys(p) ==
    /\ where = "new"
    /\ prefix' = p /\ atCall' = keys
    /\ IF p = UnsafePrefix
       THEN where' = "done" /\ outcome' = "ValidationError" /\ UNCHANGED query
       ELSE IF signalled
       THEN where' = "done" /\ outcome' = "AbortError" /\ UNCHANGED query
       ELSE NextBatch /\ UNCHANGED outcome
    /\ UNCHANGED <<keys, signalled, batch, yielded>>

\* The race was lost to onAbort's rejection.
AbortWins ==
    /\ where = "fetch" /\ signalled
    /\ Leave("AbortError")
    /\ UNCHANGED <<keys, signalled, prefix, atCall, batch, yielded, query>>

\* The code of an error is passed on whatever the signal says.
ErrorAsItCame(code) == code
\* An error that comes while the signal is aborted is the abort.
ErrorThrown(code) == IF signalled THEN "AbortError" ELSE code

Fetched ==
    /\ where = "fetch" /\ reply # NoReply
    /\ reply' = NoReply
    /\ \/ /\ reply.kind = "rows"
          /\ batch' = reply.rows /\ where' = "rows" /\ UNCHANGED outcome
       \/ /\ reply.kind = "done"
          /\ Leave("complete") /\ UNCHANGED batch
       \/ /\ reply.kind \in {"ConnectionError", "57014"}
          /\ Leave(ErrorThrown(reply.kind)) /\ UNCHANGED batch
    /\ UNCHANGED <<keys, signalled, prefix, atCall, yielded, cursor, rest, cancelling, wasted>>

YieldRow ==
    /\ where = "rows"
    /\ IF batch = <<>> THEN NextBatch /\ UNCHANGED <<batch, yielded, outcome>>
       ELSE IF signalled THEN Leave("AbortError") /\ UNCHANGED <<batch, yielded, query>>
       ELSE /\ yielded' = Append(yielded, Head(batch)) /\ batch' = Tail(batch)
            /\ where' = "suspended" /\ UNCHANGED <<outcome, query>>
    /\ UNCHANGED <<keys, signalled, prefix, atCall>>

\* finally: iterator.return().
Close ==
    /\ where = "closing"
    /\ where' = "done"
    /\ cursor' = IF cursor = "portal" THEN "ended" ELSE cursor
    /\ UNCHANGED <<keys, signalled, prefix, atCall, batch, yielded, outcome, rest, reply,
                   cancelling, wasted>>

(***************************************************************************)
(* Its surroundings                                                        *)
(***************************************************************************)
\* The consumer takes the next key, or breaks off its loop.
Resume ==
    /\ where = "suspended"
    /\ \/ where' = "rows" /\ UNCHANGED outcome
       \/ Leave("returned")
    /\ UNCHANGED <<keys, signalled, prefix, atCall, batch, yielded, query>>

\* onAbort without query.cancel().
AbortRejectsOnly ==
    /\ outcome = Running /\ ~signalled
    /\ signalled' = TRUE
    /\ UNCHANGED <<keys, generator, query>>
\* The signal: a query that has no connection yet is taken off the queue,
\* another one is sent a cancel request.
AbortSignal ==
    /\ outcome = Running /\ ~signalled
    /\ signalled' = TRUE
    /\ IF cursor = "queued"
       THEN cursor' = "ended" /\ reply' = Answer("57014") /\ UNCHANGED cancelling
       ELSE cancelling' = (cursor \in {"executing", "portal"}) /\ UNCHANGED <<cursor, reply>>
    /\ UNCHANGED <<keys, generator, rest, wasted>>

Execute ==
    /\ cursor = "queued"
    /\ cursor' = "executing" /\ rest' = Selected(prefix)
    /\ UNCHANGED <<keys, signalled, generator, reply, cancelling, wasted>>

\* A full batch suspends the portal, a shorter one ends the query.
SendBatch ==
    /\ cursor = "executing"
    /\ IF Len(rest) < BATCH
       THEN cursor' = "ended" /\ rest' = <<>> /\ reply' = (IF rest = <<>> THEN Answer("done") ELSE RowsAnswer(rest))
       ELSE /\ cursor' = "portal" /\ reply' = RowsAnswer(SubSeq(rest, 1, BATCH))
            /\ rest' = SubSeq(rest, BATCH + 1, Len(rest))
    /\ UNCHANGED <<keys, signalled, generator, cancelling, wasted>>

\* The connection or the statement fails.
QueryFails ==
    /\ cursor \in {"queued", "executing"}
    /\ cursor' = "ended" /\ reply' = Answer("ConnectionError")
    /\ UNCHANGED <<keys, signalled, generator, rest, cancelling, wasted>>

CancelArrives ==
    /\ cancelling /\ cancelling' = FALSE
    /\ IF cursor = "executing"
       THEN cursor' = "ended" /\ reply' = Answer("57014") /\ UNCHANGED wasted
       ELSE wasted' = TRUE /\ UNCHANGED <<cursor, reply>>
    /\ UNCHANGED <<keys, signalled, generator, rest>>

\* Another session puts a new key.
Put(k) ==
    /\ k \notin keys /\ keys' = keys \cup {k}
    /\ UNCHANGED <<signalled, generator, query>>

Generator == AbortWins \/ Fetched \/ YieldRow \/ Close

ListingNext ==
    \/ \E p \in Prefix : listKeys(p)
    \/ Generator \/ Resume \/ AbortSignal
    \/ Execute \/ SendBatch \/ QueryFails \/ CancelArrives
    \/ \E k \in ToSet(KeyOrder) : Put(k)

\* The event loop runs and cancel requests arrive.  The query may block for
\* ever, and the consumer need not come back.
Fairness == WF_listing(Generator) /\ WF_listing(CancelArrives)

(***************************************************************************)
(* Properties                                                              *)
(***************************************************************************)
\* The keys yielded are in order, without a repetition, and begin with the
\* prefix itself, whatever characters it has; a listing that completes has left
\* out none that existed when it was called; and an abort is never reported as
\* the driver error that its own cancel request provokes.
ListingFaithful ==
    LET Begins == {k \in keys : IsPrefix(prefix, k)}
        Place(k) == CHOOSE i \in DOMAIN KeyOrder : KeyOrder[i] = k
    IN  /\ ToSet(yielded) \subseteq Begins
        /\ \A i \in 1 .. Len(yielded) - 1 : Place(yielded[i]) < Place(yielded[i + 1])
        /\ outcome = "complete" => Begins \cap atCall \subseteq ToSet(yielded)
        /\ outcome # "57014"
        /\ signalled => outcome # "ConnectionError"

\* A generator that is not suspended ends once its signal is aborted, though
\* the query blocks for ever, and a listing that has ended gives its connection
\* back, unless its cancel request found nothing to cancel.
ListingEnds ==
    /\ signalled /\ where \in {"fetch", "rows"} ~> where = "done"
    /\ where = "done" ~> cursor \in {"none", "ended"} \/ wasted
=============================================================================
