---------------------------- MODULE MCMapAccess ----------------------------
(***************************************************************************)
(* MapAccess for TLC.                                                      *)
(***************************************************************************)
EXTENDS MapAccess

\* A user whose rights all come from a group.
MCInitial ==
    {[user |-> {}, member |-> TRUE, group |-> {"admin"}, grant |-> {},
      groupGrant |-> {"edit"}, map |-> {}]}
=============================================================================
