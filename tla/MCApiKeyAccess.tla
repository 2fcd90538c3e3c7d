--------------------------- MODULE MCApiKeyAccess ---------------------------
(***************************************************************************)
(* ApiKeyAccess for TLC.                                                   *)
(***************************************************************************)
EXTENDS ApiKeyAccess

\* A key that is confined to one version of the map.
MCInitial ==
    {[key |-> {"scoped"}, owned |-> TRUE, map |-> TRUE,
      scope |-> {"map", CHOOSE v \in Versions : TRUE}]}
=============================================================================
