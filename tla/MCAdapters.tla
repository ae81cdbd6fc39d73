----------------------------- MODULE MCAdapters -----------------------------
(***************************************************************************)
(* What the consumer of the adapters meets: their functions on one input   *)
(* each, one call of listKeys, and a wallet process that syncs with        *)
(* saveAndAdvance.  The three do not touch each other, so a behaviour is   *)
(* of one of them, and what belongs to the others stays as it was.         *)
(***************************************************************************)
EXTENDS AdapterFunctions, KeyListing, DurableCursor

VARIABLE part

\* "a", "a%", "a\" and "ab": prefixes that are also patterns.
MCKeyOrder == << <<"a">>, <<"a", "%">>, <<"a", "\\">>, <<"a", "b">> >>
MCPrefix == {<<>>, <<"a">>, <<"a", "%">>, <<"a", "\\">>, <<"_">>, UnsafePrefix}

MCInit ==
    /\ part \in {"functions", "listing", "cursor"}
    /\ InputInit /\ ListingInit /\ Init
    /\ part # "listing" => keys = {}
    /\ part # "cursor" => schedule = CHOOSE s \in Schedules : TRUE

Function == part = "functions" /\ TakeInput /\ UNCHANGED <<part, listing, vars>>
List == part = "listing" /\ ListingNext /\ UNCHANGED <<part, input, vars>>
Sync == part = "cursor" /\ Next /\ UNCHANGED <<part, input, listing>>

\* The fairness of KeyListing, and that of DurableCursor where it is the cursor
\* that runs.
MCSpec ==
    /\ MCInit /\ [][Function \/ List \/ Sync]_<<part, input, listing, vars>>
    /\ Fairness
    /\ WF_vars(part = "cursor" /\ ProcessStep)
    /\ \A c \in Conn : WF_vars(Server(c))
=============================================================================
