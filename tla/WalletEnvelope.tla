--------------------------- MODULE WalletEnvelope ---------------------------
(***************************************************************************)
(* src/interfaces/wallet-state-envelope.ts and                             *)
(* src/postgres/wallet-state-envelope.ts: the one payload in which a       *)
(* wallet's three sub-wallet snapshots go to the checkpoint store.         *)
(*                                                                         *)
(* Stored bytes are a JSON value, or bytes that are not UTF-8 or not JSON. *)
(***************************************************************************)
EXTENDS StoredValues

ENVELOPE_VERSION == 1

NotUtf8 == [notUtf8 |-> TRUE]
NotJson == [notJson |-> TRUE]

SubWallets == {"shielded", "unshielded", "dust"}

\* A non-empty string that PostgreSQL can hold.
IdSchema(v) == Is(v, "str") /\ v.str # "" /\ ~hasPostgresUnsafeText(v.str)

SubWalletSlotSchema(v) == Is(v, "nul") \/ (Is(v, "str") /\ ~hasPostgresUnsafeText(v.str))

PositiveInteger(v) == Is(v, "num") /\ v.num > 0

\* Both objects are strict: exactly these keys.
WalletStateEnvelopeShapeSchema(v) ==
    /\ Is(v, "obj")
    /\ DOMAIN v.obj = {"envelopeVersion", "walletId", "networkId", "subWallets"}
    /\ PositiveInteger(v.obj["envelopeVersion"])
    /\ IdSchema(v.obj["walletId"]) /\ IdSchema(v.obj["networkId"])
    /\ LET subs == v.obj["subWallets"]
       IN  Is(subs, "obj") /\ DOMAIN subs.obj = SubWallets
           /\ \A s \in SubWallets : SubWalletSlotSchema(subs.obj[s])

encode(e) ==
    IF WalletStateEnvelopeShapeSchema(e) /\ e.obj["envelopeVersion"].num = ENVELOPE_VERSION
    THEN Ok(e) ELSE Error("ValidationError")

\* UTF-8, JSON and an object; then the version; then the shape.
decode(bytes) ==
    IF ~Is(bytes, "obj") THEN Error("CORRUPT")
    ELSE IF ~PositiveInteger(Field(bytes, "envelopeVersion")) THEN Error("CORRUPT")
    ELSE IF bytes.obj["envelopeVersion"].num # ENVELOPE_VERSION THEN Error("VERSION_UNSUPPORTED")
    ELSE IF ~WalletStateEnvelopeShapeSchema(bytes) THEN Error("CORRUPT")
    ELSE Ok(bytes)

Names(e, walletId, networkId) ==
    Field(e, "walletId") = [str |-> walletId] /\ Field(e, "networkId") = [str |-> networkId]

\* The bytes PgWalletStateEnvelopeStore.save hands to its one checkpoint save.
save(walletId, networkId, e) ==
    IF Names(e, walletId, networkId) THEN encode(e) ELSE Error("ValidationError")

\* load without the look at the echoed identity.
LoadUnchecked(walletId, networkId, bytes) == decode(bytes)
load(walletId, networkId, bytes) ==
    LET e == decode(bytes)
    IN  IF Failed(e) \/ Names(e.ok, walletId, networkId) THEN e ELSE Error("CORRUPT")
=============================================================================
