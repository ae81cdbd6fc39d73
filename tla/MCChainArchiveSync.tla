------------------------- MODULE MCChainArchiveSync -------------------------
(* Small instances of ChainArchiveSync for TLC.                            *)
EXTENDS ChainArchiveSync, TLC

CONSTANTS v1, v2, c1, c2

\* Two calls on two services.
TwoServices == (c1 :> v1) @@ (c2 :> v2)
=============================================================================
