----------------------------- MODULE MCFrameMt -----------------------------
(***************************************************************************)
(* Tile layouts for FrameMt, in superblocks.                               *)
(***************************************************************************)
EXTENDS FrameMt

MCTileHeights == <<2, 1>>
MCTileWidths == <<2, 1>>
=============================================================================
