--------------------------- MODULE MCAssetPipeline ---------------------------
(* AssetPipeline with two of the three widths and a channel of one, so that *)
(* one request can find the channel full between its own Enqueues.          *)
EXTENDS AssetPipeline, TLC

MCWidths == <<800, 1200>>
Symmetry == Permutations(Requests)
=============================================================================
