------------------------------ MODULE MCEdgeRd ------------------------------
(***************************************************************************)
(* Five indices, rates of many shapes, with and without the lossless       *)
(* index, and a block of 100 pixels whose gradients put it in a contour or *)
(* outside.                                                                *)
(***************************************************************************)
EXTENDS EdgeRd

MCBitRates == {17, 20, 24, 40}
MCRanges == {<<0, 4>>, <<1, 3>>, <<1, 4>>}
MCCounts == {0, 8, 19}
=============================================================================
