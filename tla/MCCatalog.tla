----------------------------- MODULE MCCatalog -----------------------------
(* One entry, two renditions of one recording and one of another; three    *)
(* members, of which one refuses, one is dead and one serves, a cap of two *)
(* catalogs and one request a round; a friend and a member to be reached.  *)
EXTENDS Catalog, TLC

CONSTANTS x, y, z

MCRecording == x :> x @@ y :> x @@ z :> z
MCQuality == x :> 1 @@ y :> 2 @@ z :> 1
=============================================================================
