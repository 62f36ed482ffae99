------------------------------ MODULE FrameMt ------------------------------
(***************************************************************************)
(* Frame after frame of the multithreaded decoder                          *)
(* (av1_decode_tg_tiles_and_wrapup of av1/decoder/decodeframe.c): the      *)
(* tiles, the loop filter, CDEF and loop restoration, each of them a job   *)
(* for all the threads of the decoder, each joined before the next one     *)
(* starts.  A frame header may leave filters out, and an error in one      *)
(* stage ends the frame (aom_internal_error).  The stages are DecRowMt,    *)
(* LfSync, CdefSync and LrSync; what they share here is what the threads   *)
(* themselves keep (place, errors, what a failed worker has released), the *)
(* queue counter and the columns published, which every stage sets up      *)
(* anew.  CDEF's row objects alone outlive the frame.                      *)
(***************************************************************************)
EXTENDS Integers, Sequences, FiniteSets

CONSTANTS
    NumWorkers,
    MaxErrors,                  \* bound on the errors of a run
    TileHeights, TileWidths, ExtraDelay,    \* of DecRowMt
    LfRows, LfCols, LfPlanes, LfSyncRange,  \* of LfSync
    CdefHeight,                 \* in rows of 64x64 filter blocks
    LrRows, LrCols, LrPlanes    \* of LrSync

VARIABLES
    stage,          \* "tiles", "lf", "cdef" or "lr"
    pc, plane, tile, row, col, cur_sb_col, jobs_dequeued, released, done, errors, outcome,
    tiles_left, parse_done, decode_started, num_threads_working, row_mt_exit, corrupted,
    lf_mt_exit, nvfb, is_row_done, fbr, cdef_mt_exit, lr_mt_exit

Dec == INSTANCE DecRowMt
Lf == INSTANCE LfSync WITH Rows <- LfRows, Cols <- LfCols, NumPlanes <- LfPlanes,
                           SyncRange <- LfSyncRange
Cdef == INSTANCE CdefSync WITH Heights <- {CdefHeight}
Lr == INSTANCE LrSync WITH Rows <- LrRows, Cols <- LrCols, NumPlanes <- LrPlanes

ASSUME FrameMtAssumption ==
    /\ Dec!DecRowMtAssumption /\ Lf!LfSyncAssumption
    /\ Cdef!CdefSyncAssumption /\ Lr!LrSyncAssumption

tilesOnly == <<tile, tiles_left, parse_done, decode_started, num_threads_working, row_mt_exit,
               corrupted>>
cdefOnly == <<nvfb, is_row_done, fbr, cdef_mt_exit>>
filterOnly == <<plane, jobs_dequeued>>
vars == <<stage, pc, row, col, cur_sb_col, released, done, errors, outcome, filterOnly, tilesOnly,
          lf_mt_exit, cdefOnly, lr_mt_exit>>

Workers == 0..(NumWorkers - 1)

\* before the first av1_alloc_cdef_buffers there are no row objects
Init ==
    /\ stage = "tiles" /\ Dec!Init
    /\ plane = [t \in Workers |-> 0] /\ jobs_dequeued = 0
    /\ released = [t \in Workers |-> 0]
    /\ lf_mt_exit = FALSE
    /\ nvfb = 0 /\ is_row_done = <<>> /\ fbr = 0 /\ cdef_mt_exit = FALSE
    /\ lr_mt_exit = FALSE

-----------------------------------------------------------------------------
\* A stage at work: what is left alone beyond its own module.

OtherThanTiles == <<stage, filterOnly, released, lf_mt_exit, cdefOnly, lr_mt_exit>>
OtherThanLf == <<stage, tilesOnly, cdefOnly, lr_mt_exit>>
OtherThanCdef == <<stage, col, cur_sb_col, filterOnly, tilesOnly, lf_mt_exit, lr_mt_exit>>
OtherThanLr == <<stage, tilesOnly, lf_mt_exit, cdefOnly>>

Step(t) ==
    \/ stage = "tiles" /\ Dec!Step(t) /\ UNCHANGED OtherThanTiles
    \/ stage = "lf" /\ Lf!Step(t) /\ UNCHANGED OtherThanLf
    \/ stage = "cdef" /\ Cdef!Step(t) /\ UNCHANGED OtherThanCdef
    \/ stage = "lr" /\ Lr!Step(t) /\ UNCHANGED OtherThanLr

Fault(t) ==
    \/ /\ stage = "tiles" /\ (Dec!Throw(t) \/ Dec!FindCorruption(t) \/ Dec!Spurious(t))
       /\ UNCHANGED OtherThanTiles
    \/ stage = "lf" /\ (Lf!Throw(t) \/ Lf!Spurious(t)) /\ UNCHANGED OtherThanLf
    \/ stage = "cdef" /\ (Cdef!Throw(t) \/ Cdef!Spurious(t)) /\ UNCHANGED OtherThanCdef
    \/ stage = "lr" /\ (Lr!Throw(t) \/ Lr!Spurious(t)) /\ UNCHANGED OtherThanLr

Join ==
    \/ stage = "tiles" /\ Dec!Join /\ UNCHANGED OtherThanTiles
    \/ stage = "lf" /\ Lf!Join /\ UNCHANGED OtherThanLf
    \/ stage = "cdef" /\ Cdef!Join /\ UNCHANGED OtherThanCdef
    \/ stage = "lr" /\ Lr!Join /\ UNCHANGED OtherThanLr

-----------------------------------------------------------------------------
\* From stage to stage.

Enter(where, from) ==
    /\ outcome = "ok" /\ stage \in from
    /\ stage' = where
    /\ done' = {} /\ UNCHANGED errors

StartLf ==
    /\ Enter("lf", {"tiles"}) /\ Lf!Start
    /\ UNCHANGED <<tilesOnly, cdefOnly, lr_mt_exit>>

StartCdef ==
    /\ Enter("cdef", {"tiles", "lf"}) /\ Cdef!Start
    /\ UNCHANGED <<col, cur_sb_col, filterOnly, tilesOnly, lf_mt_exit, lr_mt_exit>>

StartLr ==
    /\ Enter("lr", {"tiles", "lf", "cdef"}) /\ Lr!Start
    /\ UNCHANGED <<tilesOnly, lf_mt_exit, cdefOnly>>

\* The next frame: after any stage, if the header wants no further filter, or
\* after an error.  A bound: the run ends with a failed CDEF, whose flags would
\* mislead a later frame of the same height.  (The variables of the filters are
\* set up here as well as in their stage: nobody looks at them in between.)
StartFrame ==
    /\ outcome # "busy" /\ ~(stage = "cdef" /\ outcome = "error")
    /\ stage' = "tiles" /\ Dec!Start
    /\ done' = {} /\ UNCHANGED errors
    /\ plane' = [t \in Workers |-> 0] /\ jobs_dequeued' = 0
    /\ released' = [t \in Workers |-> 0]
    /\ lf_mt_exit' = FALSE /\ fbr' = 0 /\ cdef_mt_exit' = FALSE /\ lr_mt_exit' = FALSE
    /\ UNCHANGED <<nvfb, is_row_done>>

Next ==
    \/ \E t \in Workers : Step(t) \/ Fault(t)
    \/ Join \/ StartLf \/ StartCdef \/ StartLr \/ StartFrame

\* Every thread runs and the main thread joins; errors, wakeups without a
\* signal and further frames are never required.
Fairness == (\A t \in Workers : WF_vars(Step(t))) /\ WF_vars(Join)

Spec == Init /\ [][Next]_vars /\ Fairness

-----------------------------------------------------------------------------

TypeOK ==
    /\ stage \in {"tiles", "lf", "cdef", "lr"}
    /\ stage = "tiles" => Dec!TypeOK
    /\ stage = "lf" => Lf!TypeOK
    /\ stage = "cdef" => Cdef!TypeOK
    /\ stage = "lr" => Lr!TypeOK

\* A row is handed out once it is parsed, to one worker, so that the signal of
\* sync_write reaches all who wait for it.
RowsAreTakenOnce == stage = "tiles" => Dec!RowsAreTakenOnce

\* Whoever is about to filter a block is the first to do so and finds what it
\* needs: for the loop filter everything that vertical filtering changes there,
\* for CDEF the copies of the lines that the rows around it are about to lose.
BlocksAreReady ==
    /\ stage = "lf" => Lf!FiltersInOrder
    /\ stage = "cdef" => Cdef!WaitsForLineCopy

\* The flags that make a row of CDEF wait are, after a good frame, as the next
\* frame needs them.
FlagsConsumed == stage = "cdef" => Cdef!FlagsConsumed

\* No two workers restore units that touch.
NoUnitsTouch == stage = "lr" => Lr!NoUnitsTouch

\* Every stage comes to an end, whoever fails and whenever, although a thread
\* that leaves a tile, which makes room for another one, signals nobody.
StageEnds == (outcome = "busy") ~> (outcome # "busy")

\* In every stage each block is done once, in an order a single thread could
\* have used, and a stage that is reported good is complete.
NeedsOf == [tiles |-> [b \in Dec!Blocks |-> Dec!Needs(b)],
            lf |-> [b \in Lf!Blocks |-> Lf!Needs(b)],
            cdef |-> [b \in {"copy", "cdef"} \X (0..(CdefHeight - 1)) |-> Cdef!Needs(b)],
            lr |-> [b \in Lr!Blocks |-> Lr!Needs(b)]]
Stage == INSTANCE Wavefront WITH needs <- NeedsOf[stage], encoded <- done
StagesInOrder == Stage!Spec

=============================================================================
