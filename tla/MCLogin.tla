------------------------------ MODULE MCLogin ------------------------------
(***************************************************************************)
(* Login for TLC: every identity comes with the same user name and every   *)
(* directory group with the same display name, so that all of them collide.*)
(***************************************************************************)
EXTENDS Login

MCPreferred == [i \in Identities |-> "ann"]
MCDisplay == [l \in Links |-> "editors"]
MCReports == {{l} : l \in Links}

\* The name is a local account's.
MCAccounts == [n \in Names |-> IF n[2] = "plain" THEN "local" ELSE "nobody"]
MCNamed == {}
=============================================================================
