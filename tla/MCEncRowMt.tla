----------------------------- MODULE MCEncRowMt -----------------------------
(***************************************************************************)
(* Encoders for EncRowMt, sizes in superblocks.  The first three encode    *)
(* only; the others have the loop filter behind the encoder.               *)
(***************************************************************************)
EXTENDS EncRowMt

\* every worker in a row of its own
Crowded == [workers |-> 3, row_start_sb |-> <<0, 3>>, col_start_sb |-> <<0, 3>>,
            delay |-> 0, late |-> FALSE, pipelined |-> FALSE,
            sb_128 |-> TRUE, lf_planes |-> 1, lf_sync_range |-> 1]

\* workers that change between tiles of unequal size
ManyTiles == [Crowded EXCEPT !.workers = 2, !.row_start_sb = <<0, 1, 3>>, !.col_start_sb = <<0, 2, 3>>]

\* the late wait, with intra block copy
Late == [Crowded EXCEPT !.row_start_sb = <<0, 2>>, !.col_start_sb = <<0, 4>>,
                        !.delay = 2, !.late = TRUE]

\* rows of the frame that are rows of several tiles
FilteredTiles == [ManyTiles EXCEPT !.row_start_sb = <<0, 1, 2>>, !.col_start_sb = <<0, 1, 2>>,
                                   !.pipelined = TRUE]

\* one worker fails, another gives up the job a third one waits for
Narrow == [Crowded EXCEPT !.row_start_sb = <<0, 1>>, !.col_start_sb = <<0, 2>>, !.pipelined = TRUE]

\* two planes, superblocks of half a filter unit, and every second unit published
TwoPlanes == [FilteredTiles EXCEPT !.row_start_sb = <<0, 2>>, !.col_start_sb = <<0, 5>>,
                                   !.sb_128 = FALSE, !.lf_planes = 2, !.lf_sync_range = 2]

MCSetups == {Crowded, ManyTiles, Late, FilteredTiles, Narrow, TwoPlanes}
=============================================================================
