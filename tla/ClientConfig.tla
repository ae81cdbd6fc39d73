---------------------------- MODULE ClientConfig ----------------------------
(***************************************************************************)
(* createClient (src/postgres/client.ts): which options it takes, and the  *)
(* settings the server's sessions then run with, a connection string's own *)
(* parameters included.                                                    *)
(***************************************************************************)
EXTENDS Integers

CONSTANTS
    MAX_IDENTIFIER,     \* POSTGRES_MAX_IDENTIFIER_BYTES, 63 in the code
    INT4_MAX            \* 2147483647 in the code

ASSUME ClientAssumption == MAX_IDENTIFIER \in Nat /\ INT4_MAX \in Nat

Unset == -99         \* an option that is not given

TimeoutParams == {"statement_timeout", "lock_timeout", "idle_in_transaction_session_timeout"}
GuardedParams == TimeoutParams \cup {"search_path"}

\* The defaults of the four settings, in the order of the code: schema
\* "umbradb" and three timeouts.
DEFAULT_SCHEMA == [name |-> "umbradb", wellFormed |-> TRUE, length |-> 7]
DefaultTimeout == 3

\* A schema name is its text, whether it matches SCHEMA_NAME_PATTERN, and its
\* length.
assertValidSchemaName(s) == s.wellFormed /\ s.length <= MAX_IDENTIFIER

\* A connection string is the set of its query parameters: the name a parameter
\* has once it is decoded, whether it is written with percent-escapes, and the
\* value.  The scan is of the text as written; it ignores case, as the server
\* does, and finds a name that is not escaped.
Found(dsn, params) == \E p \in dsn : ~p.escaped /\ p.param \in params

assertNoConflictingSearchPath(dsn) == ~Found(dsn, GuardedParams)

ValidTimeout(v) == v = Unset \/ (v > 0 /\ v <= INT4_MAX)

Accepts(opts) ==
    /\ assertValidSchemaName(opts.schema)
    /\ assertNoConflictingSearchPath(opts.dsn)
    /\ \A t \in TimeoutParams : ValidTimeout(opts.timeouts[t])

\* createClient's own connection settings, and umbradbSchema.
createClient(opts) ==
    [umbradbSchema |-> opts.schema,
     connection |-> [p \in GuardedParams |->
         IF p = "search_path" THEN opts.schema.name
         ELSE IF opts.timeouts[p] = Unset THEN DefaultTimeout ELSE opts.timeouts[p]]]

\* The schema that a search_path of this name reaches: the server folds case and
\* cuts an identifier at its limit.
Reached(s) == IF s.wellFormed /\ s.length <= MAX_IDENTIFIER THEN s.name ELSE "another schema"

\* postgres.js decodes the query parameters and spreads them over the
\* connection settings.
SessionSetting(opts, param) ==
    LET over == {p \in opts.dsn : p.param = param}
    IN  IF over # {} THEN (CHOOSE p \in over : TRUE).value
        ELSE IF param = "search_path" THEN Reached(opts.schema)
        ELSE createClient(opts).connection[param]
=============================================================================
