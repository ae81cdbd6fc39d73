--------------------------- MODULE PostgresErrors ---------------------------
(***************************************************************************)
(* src/postgres/errors.ts, src/interfaces/storage-errors.ts and            *)
(* src/postgres/abort.ts: what a raw error becomes on its way out of the   *)
(* adapter layer, and whether the caller may retry what failed.            *)
(*                                                                         *)
(* A raw error is a record: is it an instance of Error at all, its class,  *)
(* its code and constraint name ("" for none), and whether it carries the  *)
(* severity field only errors read off the wire have.  Messages and causes *)
(* are left out.                                                           *)
(***************************************************************************)

CONNECTION_FAILURE_CODES ==
    {"ECONNREFUSED", "ENOTFOUND", "ETIMEDOUT", "ECONNRESET",
     "CONNECTION_CLOSED", "CONNECT_TIMEOUT", "CONNECTION_ENDED",
     "CONNECTION_DESTROYED", "08000", "08001", "08003", "08004", "08006",
     "08007", "08P01", "28000", "28P01", "57P01", "57P02", "57P03"}

CHAIN_ARCHIVE_INVARIANT_CONSTRAINT_NAMES ==
    {"chain_blob_roles_completeness", "blocks_finalized_monotonic",
     "chain_blob_roles_removal_guard"}

\* Constraint names that start with one of CHAIN_ARCHIVE_CHECK_TABLE_PREFIXES;
\* the invariants' own names do too, which is why they are tried first.
CHAIN_ARCHIVE_CHECK_NAMES ==
    CHAIN_ARCHIVE_INVARIANT_CONSTRAINT_NAMES \cup
    {"blocks_height_check", "transactions_status_check",
     "bridge_observations_kind_check", "chain_blobs_check",
     "chain_blob_roles_role_check", "verifier_key_observations_scope_check"}

\* The typed errors and their retryable field.
Retryability ==
    [ValidationError |-> "non-retryable", SerializationFailedError |-> "non-retryable",
     ConnectionError |-> "retryable", TransactionFaultError |-> "retryable",
     TransactionKeyReuseError |-> "non-retryable",
     ExclusionViolationError |-> "non-retryable",
     ClockRegressionError |-> "conditional",
     ChainArchiveInvariantError |-> "non-retryable",
     ChainArchiveCheckViolationError |-> "non-retryable",
     UnrecognizedPostgresError |-> "non-retryable"]

StorageError == DOMAIN Retryability

isPgDriverError(err) ==
    /\ err.isError /\ err.code # ""
    /\ err.severity \/ err.code \in CONNECTION_FAILURE_CODES

isConnectionFailure(err) == isPgDriverError(err) /\ err.code \in CONNECTION_FAILURE_CODES

isStatementTimeout(err) == isPgDriverError(err) /\ err.code = "57014"

isLockTimeout(err) == isPgDriverError(err) /\ err.code = "55P03"

\* A new typed error; its own code is a string too, and it has no severity.
Typed(class) ==
    [isError |-> TRUE, class |-> class, code |-> class, severity |-> FALSE, constraint |-> ""]

\* The classes a driver error is given, tried in the order of the code.
ClassOf(err, keyContext) ==
    CASE err.code \in CONNECTION_FAILURE_CODES -> "ConnectionError"
      [] err.code = "UB001" ->
             IF keyContext THEN "TransactionKeyReuseError" ELSE "ExclusionViolationError"
      [] err.code = "23P01" -> "ExclusionViolationError"
      [] err.code = "23514" ->
             IF err.constraint \in CHAIN_ARCHIVE_INVARIANT_CONSTRAINT_NAMES
             THEN "ChainArchiveInvariantError"
             ELSE IF err.constraint \in CHAIN_ARCHIVE_CHECK_NAMES
             THEN "ChainArchiveCheckViolationError"
             ELSE "ClockRegressionError"
      [] err.code \in {"40001", "40P01"} -> "TransactionFaultError"
      [] OTHER -> "UnrecognizedPostgresError"

\* The form in which our own typed errors are not let through first.
TranslateDriverFirst(err, keyContext) ==
    IF err.isError /\ err.code # "" THEN Typed(ClassOf(err, keyContext)) ELSE err

translatePostgresError(err, keyContext) ==
    IF err.class \in StorageError THEN err
    ELSE IF ~isPgDriverError(err) THEN [err EXCEPT !.isError = TRUE]
    ELSE Typed(ClassOf(err, keyContext))

\* abortError: a reason that is an AbortError already is kept, whatever else
\* the signal was aborted with is replaced by one.
abortError(reason) ==
    IF reason.isError /\ reason.class = "AbortError" THEN reason
    ELSE [isError |-> TRUE, class |-> "AbortError", code |-> "", severity |-> FALSE,
          constraint |-> ""]
=============================================================================
