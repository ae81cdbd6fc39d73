----------------------------- MODULE MCMigrations -----------------------------
(* Two processes start up together; both migrate one schema, one of them a second. *)
EXTENDS Migrations, TLC

CONSTANTS r1, r2, c1, c2

MCRunner == {r1, r2}
MCConn == {c1, c2}
MCSchema == {"wallet", "archive"}
MCWanted == r1 :> {"wallet"} @@ r2 :> MCSchema
MCPoolOf == r1 :> {c1} @@ r2 :> {c2}
MCLineage == "wallet" :> <<"000", "001">> @@ "archive" :> <<"000", "001">>
\* One server that passes the probe, thanks to allowFullPageWritesOff, and those that do not.
MCServers == {[fsync |-> f, fullPageWrites |-> FALSE, allowOff |-> a, pooler |-> p] :
                 f \in BOOLEAN, a \in BOOLEAN, p \in BOOLEAN}
===============================================================================
