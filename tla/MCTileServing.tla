--------------------------- MODULE MCTileServing ---------------------------
(***************************************************************************)
(* TileServing for TLC.                                                    *)
(***************************************************************************)
EXTENDS TileServing

\* A request each that reaches every cache.
OfEachCache == {<<"current", TRUE>>, <<"alias", FALSE>>}

\* Requests by every name, one of them for bounds.
Named == {<<"current", FALSE>>, <<"alias", TRUE>>, <<"number", FALSE>>}
=============================================================================
