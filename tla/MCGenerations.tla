--------------------------- MODULE MCGenerations ---------------------------
(* The instance TLC checks: this application and a second process of it,   *)
(* and three signed catalogs of which two share a revision.  Those two are *)
(* interchangeable.                                                        *)
EXTENDS Generations, TLC

CONSTANTS ida, idb, idc       \* the catalogs' identities

MCProcs == {"app", "other"}
MCCatalogs == {[rev |-> 1, id |-> ida], [rev |-> 2, id |-> idb], [rev |-> 2, id |-> idc]}
MCSymmetry == Permutations({idb, idc})
=============================================================================
