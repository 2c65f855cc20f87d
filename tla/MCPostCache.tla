----------------------------- MODULE MCPostCache -----------------------------
(* PostCache with a post that shows two images, of which one has an empty   *)
(* destination, and two images that other posts show, one of them written   *)
(* in two ways.                                                             *)
EXTENDS PostCache

CONSTANTS p1, p2

MCRawPaths == {"p1", "./p1", "p2"}
MCClean == [raw \in MCRawPaths |-> IF raw = "p2" THEN p2 ELSE p1]
MCPostImages == <<"./p1", NoPath, "p2">>
=============================================================================
