-------------------------- MODULE AdapterFunctions --------------------------
(***************************************************************************)
(* The pure functions of the adapters over bounded inputs: a step takes an *)
(* input for one of them, and the invariants relate what the functions     *)
(* make of it.                                                             *)
(***************************************************************************)
EXTENDS WalletEnvelope, ReplayDecoder, ClientConfig, PostgresErrors

VARIABLE input      \* [of |-> the function, ...its arguments]

NoInput == [of |-> "none"]
InputInit == input = NoInput

(***************************************************************************)
(* Inputs                                                                  *)
(***************************************************************************)
\* Functions from a subset of keys with at most n members.
Objects(keys, n, values) ==
    {[obj |-> f] : f \in UNION {[ks -> values] : ks \in {s \in SUBSET keys : Cardinality(s) <= n}}}
Arrays(values) == {[arr |-> <<>>]} \cup {[arr |-> <<v>>] : v \in values}

Leaves == {[str |-> "text"], [str |-> "5"], [str |-> "NUL"], [num |-> 5], Null,
           [big |-> 5], [big |-> 0], [date |-> 1], [date |-> InvalidDate]}
Nested == Leaves \cup Arrays(Leaves) \cup Objects({"k", BIGINT_TAG, DATE_TAG}, 2, Leaves)
DeepValue == [arr |-> <<[arr |-> <<[arr |-> <<Null>>]>>]>>]
Sections == Objects({"s"}, 1, Nested \cup {DeepValue}) \cup Objects({BIGINT_TAG, "NUL"}, 1, Leaves)

Entries ==
    [timestamp : {Undefined}, fees : {Undefined}, sections : Sections]
    \cup [timestamp : {Undefined, [date |-> 1], [date |-> InvalidDate]},
          fees : {Undefined, Null, [big |-> -5]}, sections : Objects({"s"}, 1, Leaves)]

Texts == {[str |-> x] : x \in DOMAIN BigInt \cup
             {"text", "2024-01-01T00:00:00.000Z", "2024-01-01", "2024-02-30"}}
JsonLeaves == Texts \cup {[num |-> 5], Null}
StoredContents ==
    JsonLeaves \cup Arrays(JsonLeaves) \cup Objects({"k", BIGINT_TAG, DATE_TAG}, 2, JsonLeaves)
Rows ==
    {[obj |-> [sections |-> s]] : s \in Objects({"s"}, 1, StoredContents)}
    \cup {[obj |-> [sections |-> [obj |-> <<>>], timestamp |-> t, fees |-> f]] :
              t \in JsonLeaves, f \in JsonLeaves}
    \cup {Null, [arr |-> <<>>], [obj |-> <<>>], [obj |-> [sections |-> Null]],
          [obj |-> [sections |-> [arr |-> <<>>]]]}

SubWalletObjects ==
    {[obj |-> [shielded |-> s, unshielded |-> u, dust |-> Null]] :
         s \in {[str |-> "snapshot"], [str |-> "NUL"]}, u \in {Null, [num |-> 5]}}
    \cup {[obj |-> [shielded |-> Null, dust |-> Null]],
          [obj |-> [shielded |-> Null, unshielded |-> Null, dust |-> Null, anchor |-> Null]]}
EnvelopeObjects ==
    {[obj |-> [envelopeVersion |-> v, walletId |-> [str |-> w], networkId |-> [str |-> "n1"],
               subWallets |-> s]] :
         v \in {[num |-> 0], [num |-> 1], [num |-> 2], [str |-> "1"]},
         w \in {"w1", "w2", "", "NUL"}, s \in SubWalletObjects}
Payloads == EnvelopeObjects \cup
    {NotUtf8, NotJson, Null, [arr |-> <<>>], [obj |-> <<>>],
     [obj |-> [envelopeVersion |-> [num |-> 2]]], [obj |-> [envelopeVersion |-> [num |-> 1]]]}

Offers == {None, [outputs |-> <<>>, inputs |-> <<"i1">>],
           [outputs |-> <<"o1", "o2">>, inputs |-> <<>>], [outputs |-> <<"o3">>, inputs |-> <<"i2">>]}
Intents == [guaranteed : Offers, fallible : Offers,
            dust : {None, [spends |-> <<"d1">>, registrations |-> <<"g1">>]}]
LedgerTransactions ==
    [guaranteedOffer : Offers, fallibleOffer : {<<>>, <<<<1, [outputs |-> <<"o4">>, inputs |-> <<>>]>>>>},
     intents : {<<>>} \cup {<<<<1, i>>>> : i \in Intents}]
    \cup [guaranteedOffer : {None}, fallibleOffer : {<<>>},
          intents : {<<<<1, i>>, <<2, j>>>> : i, j \in Intents}]
Tags == {"midnight:transaction", "midnight:system-transaction", "midnight:block"}

RawErrors ==
    [isError : {TRUE}, class : {"PostgresError", "Error"}, severity : BOOLEAN,
     code : {"", "ECONNRESET", "ENOENT", "08006", "57014", "55P03", "UB001", "23P01",
             "23514", "40001", "40P01"},
     constraint : {"", "kv_history_range", "blocks_finalized_monotonic", "blocks_height_check"}]
    \cup {Typed(c) : c \in StorageError}
    \cup {[isError |-> FALSE, class |-> "string", severity |-> FALSE, code |-> "", constraint |-> ""]}

Schemas == {DEFAULT_SCHEMA, [name |-> "tenant", wellFormed |-> TRUE, length |-> 6],
            [name |-> "Tenant", wellFormed |-> FALSE, length |-> 6],
            [name |-> "long", wellFormed |-> TRUE, length |-> MAX_IDENTIFIER + 1]}
DsnParams ==
    [param : {"search_path"}, escaped : BOOLEAN, value : {"public"}]
        \cup [param : {"lock_timeout"}, escaped : BOOLEAN, value : {0}]
        \cup [param : {"application_name"}, escaped : {FALSE}, value : {"app"}]
ClientOptions ==
    [schema : Schemas, dsn : SUBSET DsnParams,
     timeouts : [TimeoutParams -> {Unset, 0, 2, INT4_MAX + 1}]]

(***************************************************************************)
(* One step per function                                                   *)
(***************************************************************************)
WriteEntry == \E e \in Entries : input' = [of |-> "entry", entry |-> e]
ReadRow == \E r \in Rows : input' = [of |-> "row", row |-> r]
UseEnvelope == \E b \in Payloads : input' = [of |-> "envelope", bytes |-> b]
DecodeTransaction ==
    \E t \in LedgerTransactions, g \in Tags :
        /\ g = "midnight:transaction" \/ t.intents = <<>>
        /\ input' = [of |-> "payload", payload |-> [tag |-> g, tx |-> t]]
TranslateError ==
    \E e \in RawErrors, c \in BOOLEAN : input' = [of |-> "error", err |-> e, context |-> c]
OpenClient == \E o \in ClientOptions : input' = [of |-> "client", opts |-> o]

TakeInput ==
    /\ input = NoInput
    /\ \/ WriteEntry \/ ReadRow \/ UseEnvelope
       \/ DecodeTransaction \/ TranslateError \/ OpenClient

(***************************************************************************)
(* Properties                                                              *)
(***************************************************************************)
\* What is stored is read back as it was written, and nothing else is read as
\* it.  A history entry that the boundary schema accepts is stored as JSON that
\* jsonb can hold, and no content a caller can write looks like the tags of the
\* codec (THS_RESERVED_KEY_PREFIX).  A row that is read at all is read as what
\* would be stored for it: a tag, number or date in any other than the encoder's
\* own form is an error and never a different value (parseStoredBigint,
\* parseStoredDate).  "-0", which the pattern admits, is the one exception, and
\* is read as 0.  load returns an envelope only if it is the one that save for
\* the same wallet and network would have stored, and an envelope of a later
\* version is never taken for damage, whatever fields that version has.
CodecFaithful ==
    /\ input.of = "entry" /\ TransactionHistoryEntrySchema(input.entry) =>
           LET stored == encodeStoredEntry(input.entry)
           IN  /\ IsJson(stored) /\ ~jsonValueHasUnsafeText(stored)
               /\ rowToEntry(stored) = Ok(input.entry)
    /\ input.of = "row" =>
           LET r == rowToEntry(input.row)
               Minus0 == [str |-> "-0"]
               HasMinus0 ==
                   \/ Field(input.row, "fees") = Minus0
                   \/ \E s \in Children(input.row.obj["sections"]) :
                          isTagObject(s, BIGINT_TAG) /\ s.obj[BIGINT_TAG] = Minus0
           IN  IF Failed(r) THEN r.error \in StorageError
               ELSE HasMinus0 \/ encodeStoredEntry(r.ok) = input.row
    /\ input.of = "envelope" =>
           LET r == load("w1", "n1", input.bytes)
           IN  /\ ~Failed(r) => save("w1", "n1", r.ok) = Ok(input.bytes)
               /\ Is(input.bytes, "obj") /\ ~Failed(save("w1", "n1", input.bytes)) =>
                      r = Ok(input.bytes)
               /\ Is(input.bytes, "obj") /\ Field(input.bytes, "envelopeVersion") = [num |-> 2] =>
                      r = Error("VERSION_UNSUPPORTED")

\* The outputs of an intent are numbered from 0 without a gap over its
\* guaranteed and then its fallible section, and none of them is lost: the
\* numbering the indexer uses for output_index.
OutputsNumbered ==
    input.of = "payload" /\ isStandardTransaction(input.payload) =>
        LET out == decodeArchivedTransaction(input.payload).unshieldedOutputs
        IN  \A n \in DOMAIN input.payload.tx.intents :
                LET seg == input.payload.tx.intents[n][1]
                    intent == input.payload.tx.intents[n][2]
                    mine == SelectSeq(out, LAMBDA o : o.segment = seg)
                    all == SectionOutputs(intent.guaranteed) \o SectionOutputs(intent.fallible)
                IN  /\ Each(mine, LAMBDA o : o.of) = all
                    /\ \A i \in DOMAIN mine : mine[i].outputIndex = i - 1

\* An error keeps its class through every further layer that translates it; one
\* that did not come from the server or a lost connection is not relabelled; and
\* a failed check of the chain archive is not reported as a clock problem.
TranslationStable ==
    input.of = "error" =>
        LET e == translatePostgresError(input.err, input.context)
        IN  /\ translatePostgresError(e, ~input.context) = e
            /\ ~isPgDriverError(input.err) => e.class = input.err.class
            /\ isPgDriverError(input.err) => e.class \in StorageError
            /\ isConnectionFailure(input.err) => Retryability[e.class] = "retryable"
            /\ input.err.constraint \in CHAIN_ARCHIVE_CHECK_NAMES => e.class # "ClockRegressionError"

=============================================================================
