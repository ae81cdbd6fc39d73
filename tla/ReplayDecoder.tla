--------------------------- MODULE ReplayDecoder ----------------------------
(***************************************************************************)
(* chain-archive-sync/tx-replay-decoder.ts: the zswap, unshielded and dust *)
(* records read out of an archived transaction.                            *)
(*                                                                         *)
(* A payload is its self-tag with the transaction the ledger's             *)
(* deserializer makes of it.  An offer is None or sequences of outputs and *)
(* inputs; the ledger's maps from segments are sequences of pairs, in the  *)
(* order they are iterated.  Amounts, hashes and addresses are one opaque  *)
(* value per record.                                                       *)
(***************************************************************************)
EXTENDS Naturals, Sequences, SequencesExt

None == [none |-> TRUE]
IsNone(x) == "none" \in DOMAIN x

isSystemTransaction(payload) == payload.tag = "midnight:system-transaction"
isStandardTransaction(payload) == payload.tag = "midnight:transaction"

\* [f(s[1]), f(s[2]), ...]
Each(s, f(_)) == [i \in DOMAIN s |-> f(s[i])]

\* collectOffer: the records of one offer, labelled with its section.
CollectOffer(offer, section, segment, list) ==
    IF IsNone(offer) THEN <<>>
    ELSE Each(offer[list], LAMBDA x : [section |-> section, segment |-> segment, of |-> x])

\* The guaranteed offer, then every fallible one under its segment.
Zswap(tx, list) ==
    CollectOffer(tx.guaranteedOffer, "guaranteed", 0, list) \o
    FlattenSeq(Each(tx.fallibleOffer, LAMBDA p : CollectOffer(p[2], "fallible", p[1], list)))

SectionOutputs(offer) == IF IsNone(offer) THEN <<>> ELSE offer.outputs

\* The counter starts again in the fallible section.
UnshieldedRestarted(segment, intent) ==
    LET Numbered(offer, section) ==
            [i \in DOMAIN SectionOutputs(offer) |->
                [segment |-> segment, outputIndex |-> i - 1, section |-> section,
                 of |-> SectionOutputs(offer)[i]]]
    IN  Numbered(intent.guaranteed, "guaranteed") \o Numbered(intent.fallible, "fallible")

\* One counter runs over the guaranteed outputs, then the fallible ones.
Unshielded(segment, intent) ==
    LET Push(acc, section, x) ==
            [next |-> acc.next + 1,
             out |-> Append(acc.out, [segment |-> segment, outputIndex |-> acc.next,
                                      section |-> section, of |-> x])]
        first == FoldLeft(LAMBDA acc, x : Push(acc, "guaranteed", x),
                          [next |-> 0, out |-> <<>>], SectionOutputs(intent.guaranteed))
    IN  FoldLeft(LAMBDA acc, x : Push(acc, "fallible", x),
                 first, SectionOutputs(intent.fallible)).out

Dust(segment, actions, list) ==
    IF IsNone(actions) THEN <<>>
    ELSE Each(actions[list], LAMBDA x : [segment |-> segment, of |-> x])

decodeArchivedTransaction(payload) ==
    LET tx == payload.tx
        PerIntent(F(_, _)) == FlattenSeq(Each(tx.intents, LAMBDA p : F(p[1], p[2])))
        nothing == [zswapOutputs |-> <<>>, zswapInputs |-> <<>>, unshieldedOutputs |-> <<>>,
                    dustSpends |-> <<>>, dustRegistrations |-> <<>>]
    IN  IF isSystemTransaction(payload) THEN [kind |-> "system"] @@ nothing
        ELSE IF ~isStandardTransaction(payload) THEN [kind |-> "error"] @@ nothing
        ELSE [kind |-> "standard",
              zswapOutputs |-> Zswap(tx, "outputs"),
              zswapInputs |-> Zswap(tx, "inputs"),
              unshieldedOutputs |-> PerIntent(Unshielded),
              dustSpends |-> PerIntent(LAMBDA seg, i : Dust(seg, i.dust, "spends")),
              dustRegistrations |-> PerIntent(LAMBDA seg, i : Dust(seg, i.dust, "registrations"))]
=============================================================================
