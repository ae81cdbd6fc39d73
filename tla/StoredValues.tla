---------------------------- MODULE StoredValues ----------------------------
(***************************************************************************)
(* The values callers hand to the stores, the JSON kept for them, and the  *)
(* way back: the boundary schemas of src/interfaces/temporal-kv.ts and     *)
(* src/interfaces/transaction-history-storage.ts, and the entry codec of   *)
(* src/postgres/transaction-history-storage.ts.                            *)
(*                                                                         *)
(* A value is a record with one field, named for its kind: str, num, nul,  *)
(* big (a bigint), date, arr (a sequence) or obj (a function from keys).   *)
(* JSON has no big and no date.  Texts are tokens; what BigInt and Date    *)
(* make of a text is given by tables of the texts the inputs use.          *)
(***************************************************************************)
EXTENDS Integers, Sequences, FiniteSets, SequencesExt

CONSTANT MAX_JSON_DEPTH     \* 64 in the code, small here

ASSUME DepthAssumption == MAX_JSON_DEPTH \in Nat \ {0}

Kind(v) == CHOOSE k \in DOMAIN v : TRUE
Is(v, k) == k \in DOMAIN v

(***************************************************************************)
(* Texts (external: ECMAScript's BigInt and Date)                          *)
(***************************************************************************)
InvalidDate == 0

BigInt == [x \in {"", "0", "-0", "5", "05", "0x5", "-5"} |->
              CASE x \in {"", "0", "-0"} -> 0 [] x = "-5" -> -5 [] OTHER -> 5]
BigIntToString(n) == CASE n = 0 -> "0" [] n = 5 -> "5" [] n = -5 -> "-5"

\* "2024-02-30" is read as the first of March, a date of its own.
DateOf(x) == CASE x \in {"2024-01-01T00:00:00.000Z", "2024-01-01"} -> 1
               [] x \in {"2024-03-01T00:00:00.000Z", "2024-02-30"} -> 2
               [] OTHER -> InvalidDate
toISOString(d) == IF d = 1 THEN "2024-01-01T00:00:00.000Z" ELSE "2024-03-01T00:00:00.000Z"

(***************************************************************************)
(* Boundary schemas                                                        *)
(***************************************************************************)
\* A NUL or an unpaired surrogate, which neither text nor jsonb can hold.
hasPostgresUnsafeText(s) == s \in {"NUL", "lone surrogate"}

RECURSIVE jsonValueHasUnsafeText(_)
jsonValueHasUnsafeText(v) ==
    \/ Is(v, "str") /\ hasPostgresUnsafeText(v.str)
    \/ Is(v, "arr") /\ \E i \in DOMAIN v.arr : jsonValueHasUnsafeText(v.arr[i])
    \/ Is(v, "obj") /\ \E k \in DOMAIN v.obj :
                           hasPostgresUnsafeText(k) \/ jsonValueHasUnsafeText(v.obj[k])

Children(v) == IF Is(v, "arr") THEN ToSet(v.arr)
               ELSE IF Is(v, "obj") THEN {v.obj[k] : k \in DOMAIN v.obj} ELSE {}

\* The code's loop over an explicit stack, as the levels of the tree: is there
\* a value below maxDepth levels of nesting?
RECURSIVE exceedsMaxDepth(_, _)
exceedsMaxDepth(v, maxDepth) ==
    IF maxDepth < 0 THEN TRUE
    ELSE \E w \in Children(v) : exceedsMaxDepth(w, maxDepth - 1)

\* z.json(): no bigint, no Date, at any level.
RECURSIVE IsJson(_)
IsJson(v) == ~Is(v, "big") /\ ~Is(v, "date") /\ \A w \in Children(v) : IsJson(w)

BIGINT_TAG == "__umbradb_ths_bigint"
DATE_TAG == "__umbradb_ths_date"
HasReservedPrefix(k) == k \in {BIGINT_TAG, DATE_TAG, "__umbradb_ths_"}

\* Keys are only checked for safe text.
ReservedAllowed(k) == ~hasPostgresUnsafeText(k)
SafeObjectKeySchema(k) == ~hasPostgresUnsafeText(k) /\ ~HasReservedPrefix(k)

RECURSIVE EntryContentSchema(_)
EntryContentSchema(v) ==
    /\ Is(v, "str") => ~hasPostgresUnsafeText(v.str)
    /\ Is(v, "date") => v.date # InvalidDate
    /\ Is(v, "obj") => \A k \in DOMAIN v.obj : SafeObjectKeySchema(k)
    /\ \A w \in Children(v) : EntryContentSchema(w)

EntrySectionsSchema(v) ==
    ~exceedsMaxDepth(v, MAX_JSON_DEPTH) /\ Is(v, "obj") /\ EntryContentSchema(v)

(***************************************************************************)
(* The entry codec.  An entry is [fees, timestamp, sections], a field      *)
(* that is not there being Undefined; its other fields are copied as they  *)
(* are.  A result is [ok |-> value] or [error |-> class].                  *)
(***************************************************************************)
Undefined == [undefined |-> TRUE]
Null == [nul |-> TRUE]
Ok(v) == [ok |-> v]
Error(class) == [error |-> class]
Failed(r) == Is(r, "error")

TransactionHistoryEntrySchema(e) ==
    /\ Is(e.timestamp, "undefined") \/ (Is(e.timestamp, "date") /\ e.timestamp.date # InvalidDate)
    /\ Kind(e.fees) \in {"undefined", "big", "nul"}
    /\ EntrySectionsSchema(e.sections)

RECURSIVE encodeContent(_)
encodeContent(v) ==
    CASE Is(v, "big") -> [obj |-> [k \in {BIGINT_TAG} |-> [str |-> BigIntToString(v.big)]]]
      [] Is(v, "date") -> [obj |-> [k \in {DATE_TAG} |-> [str |-> toISOString(v.date)]]]
      [] Is(v, "arr") -> [arr |-> [i \in DOMAIN v.arr |-> encodeContent(v.arr[i])]]
      [] Is(v, "obj") -> [obj |-> [k \in DOMAIN v.obj |-> encodeContent(v.obj[k])]]
      [] OTHER -> v

\* The JSON of an entry: an object without the fields that are undefined.
encodeStoredEntry(e) ==
    LET json == [timestamp |-> IF Is(e.timestamp, "date")
                               THEN [str |-> toISOString(e.timestamp.date)] ELSE Undefined,
                 fees |-> IF Is(e.fees, "big") THEN [str |-> BigIntToString(e.fees.big)] ELSE e.fees,
                 sections |-> encodeContent(e.sections)]
    IN  [obj |-> [k \in {x \in DOMAIN json : ~Is(json[x], "undefined")} |-> json[k]]]

isTagObject(v, tag) == Is(v, "obj") /\ DOMAIN v.obj = {tag} /\ Is(v.obj[tag], "str")

\* /^-?(0|[1-9]\d*)$/, which "-0" matches.
CanonicalBigint(x) == x \in {"0", "-0", "5", "-5"}

\* Whatever BigInt takes.
ParseAnyBigint(raw) ==
    IF Is(raw, "str") /\ raw.str \in DOMAIN BigInt THEN Ok([big |-> BigInt[raw.str]])
    ELSE Error("SerializationFailedError")
parseStoredBigint(raw) ==
    IF Is(raw, "str") /\ CanonicalBigint(raw.str) THEN Ok([big |-> BigInt[raw.str]])
    ELSE Error("SerializationFailedError")

parseStoredDate(raw) ==
    IF Is(raw, "str") /\ DateOf(raw.str) # InvalidDate /\ toISOString(DateOf(raw.str)) = raw.str
    THEN Ok([date |-> DateOf(raw.str)]) ELSE Error("SerializationFailedError")

\* The first of the results that failed is thrown; otherwise all are taken.
Gather(results, Build(_)) ==
    IF \E k \in DOMAIN results : Failed(results[k])
    THEN results[CHOOSE k \in DOMAIN results : Failed(results[k])]
    ELSE Ok(Build([k \in DOMAIN results |-> results[k].ok]))

RECURSIVE decodeContent(_)
decodeContent(v) ==
    CASE Is(v, "arr") -> Gather([i \in DOMAIN v.arr |-> decodeContent(v.arr[i])],
                                LAMBDA s : [arr |-> s])
      [] isTagObject(v, BIGINT_TAG) -> parseStoredBigint(v.obj[BIGINT_TAG])
      [] isTagObject(v, DATE_TAG) -> parseStoredDate(v.obj[DATE_TAG])
      [] Is(v, "obj") /\ ~isTagObject(v, BIGINT_TAG) /\ ~isTagObject(v, DATE_TAG) ->
             Gather([k \in DOMAIN v.obj |-> decodeContent(v.obj[k])], LAMBDA f : [obj |-> f])
      [] OTHER -> Ok(v)

assertStoredEntryShape(row) ==
    Is(row, "obj") /\ "sections" \in DOMAIN row.obj /\ Is(row.obj["sections"], "obj")

Field(row, k) == IF k \in DOMAIN row.obj THEN row.obj[k] ELSE Undefined

\* decodeRow within rowToEntry, whose catch-all leaves only StorageErrors.
rowToEntry(row) ==
    IF ~assertStoredEntryShape(row) THEN Error("SerializationFailedError")
    ELSE LET ts == Field(row, "timestamp")
             fs == Field(row, "fees")
             candidate == Gather(
                 [timestamp |-> IF Is(ts, "undefined") THEN Ok(ts) ELSE parseStoredDate(ts),
                  fees |-> IF Kind(fs) \in {"undefined", "nul"} THEN Ok(fs) ELSE parseStoredBigint(fs),
                  sections |-> decodeContent(row.obj["sections"])], LAMBDA e : e)
         IN  IF Failed(candidate) \/ TransactionHistoryEntrySchema(candidate.ok)
             THEN candidate ELSE Error("ValidationError")
=============================================================================
