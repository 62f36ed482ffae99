------------------------------ MODULE EncRowMt ------------------------------
(***************************************************************************)
(* Row-based multithreaded encoding of frames in libaom                    *)
(* (av1/encoder/ethread.c, encode_sb_row in encodeframe.c): workers take   *)
(* superblock rows of tiles, keep each row behind the row above it, and    *)
(* then loop-filter rows whose encoding is done.  A worker that fails      *)
(* raises row_mt_exit and releases everybody who may wait for it: for a    *)
(* row above, for rows to filter, or for vertical edges of the filter.     *)
(*                                                                         *)
(* A step is one critical section, or the encoding of one superblock.      *)
(* Columns and rows are counted in superblocks.  The first and the last    *)
(* line of launch_workers / sync_enc_workers are StartFrame and Join; what *)
(* a worker thread is to its owner is the subject of WorkerThread.         *)
(***************************************************************************)
EXTENDS Integers, Sequences, FiniteSets

CONSTANTS
    Setups,         \* the encoders considered; each is a record of
                    \*   workers          how many
                    \*   row_start_sb     first row of each tile row, and the end of the last one
                    \*   col_start_sb     the same for columns
                    \*   delay            intrabc_extra_top_right_sb_delay
                    \*   late             delay_wait_for_top_right_sb(): wait inside the superblock
                    \*   pipelined        do_pipelined_lpf_mt_with_enc, and for that filter
                    \*   sb_128             superblocks are as large as its units, not half
                    \*   lf_planes          planes with jobs in its queue
                    \*   lf_sync_range      lf_sync->sync_range, by the frame width
    MaxErrors       \* bound on the errors of a run

Setup == [workers : Nat \ {0}, row_start_sb : Seq(Nat), col_start_sb : Seq(Nat),
          delay : Nat, late : BOOLEAN, pipelined : BOOLEAN, sb_128 : BOOLEAN,
          lf_planes : Nat \ {0}, lf_sync_range : {1, 2, 4, 8}]

\* av1_calculate_tile_rows and av1_calculate_tile_cols: no tile is empty
CutsAll(starts) ==
    /\ Len(starts) > 1 /\ starts[1] = 0
    /\ \A i, j \in DOMAIN starts : i < j => starts[i] < starts[j]

ASSUME EncRowMtAssumption ==
    /\ \A s \in Setups : s \in Setup /\ CutsAll(s.row_start_sb) /\ CutsAll(s.col_start_sb)
    /\ MaxErrors \in Nat

SyncRange == 1
Max2(a, b) == IF a > b THEN a ELSE b
Min2(a, b) == IF a < b THEN a ELSE b

\* The tiles of an encoder; rows are counted within a tile.
TileRowsIn(s) == Len(s.row_start_sb) - 1
TileColsIn(s) == Len(s.col_start_sb) - 1
TilesIn(s) == 0..(TileRowsIn(s) * TileColsIn(s) - 1)

\* av1_tile_init: first row of the tile in the frame, its rows and columns
RowStartIn(s, k) == s.row_start_sb[(k \div TileColsIn(s)) + 1]
RowsIn(s, k) == s.row_start_sb[(k \div TileColsIn(s)) + 2] - RowStartIn(s, k)
ColsIn(s, k) == s.col_start_sb[(k % TileColsIn(s)) + 2] - s.col_start_sb[(k % TileColsIn(s)) + 1]
RowIdsIn(s) == UNION {{k} \X (0..(RowsIn(s, k) - 1)) : k \in TilesIn(s)}
SuperblocksIn(s) == UNION {{<<x[1], x[2], c>> : c \in 0..(ColsIn(s, x[1]) - 1)} : x \in RowIdsIn(s)}

\* The loop filter goes by superblock rows, but by columns of 128 pixels.
FrameRowsIn(s) == s.row_start_sb[Len(s.row_start_sb)]
FrameColsIn(s) == s.col_start_sb[Len(s.col_start_sb)]
LfColsIn(s) == IF s.sb_128 THEN FrameColsIn(s) ELSE (FrameColsIn(s) + 1) \div 2
LfRowIdsIn(s) == (0..(FrameRowsIn(s) - 1)) \X (0..(s.lf_planes - 1))

VARIABLES
    setup,          \* of the encoder
    pc,             \* where each worker is
    tile, row, col, \* cur_tile_id and the superblock a worker is at, in its tile
    next_row,       \* row_mt_sync->next_mi_row of each tile, from its first row
    num_threads_working,
    num_finished_cols,  \* of each row of each tile
    num_tile_cols_done, \* of each row of the frame
    row_mt_exit, lf_mt_exit,
    released,       \* rows a failed worker has set done in set_encoding_done, and
                    \* then in av1_set_vert_loop_filter_done
    jobs_dequeued,  \* loop-filter jobs handed out
    lf_job, lf_col, \* the one each worker has, and the column it is at
    cur_sb_col,     \* per <<row, plane>>: vertical edges are filtered up to here
    encoded,        \* history: superblocks encoded (and not Spoilt), <<tile, row, column>>
    filtered,       \* history: <<direction, row, plane, column>>
    errors,         \* counter of the run
    outcome         \* of the frame: "busy", "ok" or "error"

queueVars == <<next_row, num_threads_working>>
lfVars == <<lf_mt_exit, jobs_dequeued, lf_job, lf_col, cur_sb_col, filtered>>
runVars == <<setup, outcome>>
vars == <<pc, tile, row, col, queueVars, num_finished_cols, num_tile_cols_done,
          row_mt_exit, lfVars, released, encoded, errors, runVars>>

Workers == 0..(setup.workers - 1)
AllWorkers == UNION {0..(s.workers - 1) : s \in Setups}
NumTileCols == TileColsIn(setup)
Tiles == TilesIn(setup)
NumTiles == TileRowsIn(setup) * NumTileCols
RowsOf(k) == RowsIn(setup, k)
ColsOf(k) == ColsIn(setup, k)
RowStart(k) == RowStartIn(setup, k)
FrameRows == FrameRowsIn(setup)
FrameCols == FrameColsIn(setup)
LfCols == LfColsIn(setup)
LfRowIds == LfRowIdsIn(setup)
RowIds == RowIdsIn(setup)
Done(k) == ColsOf(k) + SyncRange + setup.delay

-----------------------------------------------------------------------------
\* The state av1_encode_tiles_row_mt sets up before it launches the workers.

FreshFrame ==
    /\ pc = [t \in Workers |-> "start"]
    /\ tile = [t \in Workers |-> t % NumTiles]         \* assign_tile_to_thread
    /\ row = [t \in Workers |-> 0] /\ col = [t \in Workers |-> 0]
    /\ next_row = [k \in Tiles |-> 0]
    /\ num_threads_working = [k \in Tiles |-> 0]
    /\ num_finished_cols = [x \in RowIds |-> -1]
    /\ num_tile_cols_done = [r \in 0..(FrameRows - 1) |-> 0]
    /\ row_mt_exit = FALSE /\ lf_mt_exit = FALSE
    /\ released = [t \in Workers |-> {}]
    /\ jobs_dequeued = 0
    /\ lf_job = [t \in Workers |-> 0] /\ lf_col = [t \in Workers |-> 0]
    /\ cur_sb_col = [x \in LfRowIds |-> -1]            \* loop_filter_frame_mt_init
    /\ encoded = {} /\ filtered = {}
    /\ outcome = "busy"

Init == setup \in Setups /\ FreshFrame /\ errors = 0

-----------------------------------------------------------------------------
\* Handing out rows.

GoesTo(t, where) == pc' = [pc EXCEPT ![t] = where]

\* The first allocation of the hook, before its loop.
Start(t) ==
    /\ pc[t] = "start"
    /\ GoesTo(t, "fetch")
    /\ UNCHANGED <<tile, row, col, queueVars, num_finished_cols, num_tile_cols_done,
                   row_mt_exit, lfVars, released, encoded, errors, runVars>>

\* A faulty variant: one row too many.
HasJobOneMore(k) == next_row[k] <= RowsOf(k)

HasJob(k) == next_row[k] < RowsOf(k)

\* switch_tile_and_get_next_job: fewest workers first, then most rows left, then
\* the lowest index, among tiles that can use another worker.
ThreadLimit(k) == Min2((ColsOf(k) + 1) \div 2, RowsOf(k))
Eligible == {k \in Tiles : num_threads_working[k] < ThreadLimit(k) /\ HasJob(k)}
Better(j, k) ==
    \/ num_threads_working[j] < num_threads_working[k]
    \/ /\ num_threads_working[j] = num_threads_working[k]
       /\ \/ RowsOf(j) - next_row[j] > RowsOf(k) - next_row[k]
          \/ RowsOf(j) - next_row[j] = RowsOf(k) - next_row[k] /\ j < k

\* A faulty variant: the row is not taken off the queue.
TakeRowAgain(t, k) ==
    /\ tile' = [tile EXCEPT ![t] = k]
    /\ row' = [row EXCEPT ![t] = next_row[k]]
    /\ col' = [col EXCEPT ![t] = 0]
    /\ num_threads_working' = [num_threads_working EXCEPT ![k] = @ + 1]
    /\ GoesTo(t, "read")
    /\ UNCHANGED <<next_row, num_finished_cols, num_tile_cols_done, row_mt_exit, lfVars,
                   released, encoded, errors, runVars>>

\* get_next_job
TakeRow(t, k) ==
    /\ tile' = [tile EXCEPT ![t] = k]
    /\ row' = [row EXCEPT ![t] = next_row[k]]
    /\ col' = [col EXCEPT ![t] = 0]
    /\ next_row' = [next_row EXCEPT ![k] = @ + 1]
    /\ num_threads_working' = [num_threads_working EXCEPT ![k] = @ + 1]
    /\ GoesTo(t, "read")
    /\ UNCHANGED <<num_finished_cols, num_tile_cols_done, row_mt_exit, lfVars,
                   released, encoded, errors, runVars>>

FetchOwnTile(t) ==
    /\ pc[t] = "fetch" /\ ~row_mt_exit
    /\ HasJob(tile[t])
    /\ TakeRow(t, tile[t])

FetchOtherTile(t) ==
    /\ pc[t] = "fetch" /\ ~row_mt_exit
    /\ ~HasJob(tile[t])
    /\ \E k \in Eligible :
        /\ \A j \in Eligible \ {k} : Better(k, j)
        /\ TakeRow(t, k)

\* row_mt_exit, or end_of_frame
StopEncoding(t) ==
    /\ pc[t] = "fetch"
    /\ \/ row_mt_exit /\ GoesTo(t, "returned")
       \/ /\ ~row_mt_exit
          /\ ~HasJob(tile[t]) /\ Eligible = {}
          /\ GoesTo(t, IF setup.pipelined THEN "lf_get" ELSE "returned")
    /\ UNCHANGED <<tile, row, col, queueVars, num_finished_cols, num_tile_cols_done,
                   row_mt_exit, lfVars, released, encoded, errors, runVars>>

-----------------------------------------------------------------------------
\* One superblock row: av1_encode_sb_row and the sync functions of ethread.c.

\* A faulty variant: the superblock above is enough.
RowAboveIsUnsynced(t, c) ==
    row[t] = 0 \/ c <= num_finished_cols[<<tile[t], row[t] - 1>>] - setup.delay

\* the condition av1_row_mt_sync_read(r, c) waits on, negated
RowAboveIs(t, c) ==
    row[t] = 0 \/ c <= num_finished_cols[<<tile[t], row[t] - 1>>] - SyncRange - setup.delay

\* The column a worker asks the row above for, at the start of a superblock.
ReadColumn(t) == IF setup.late THEN col[t] - 1 ELSE col[t]

SyncRead(t) ==
    /\ pc[t] = "read"
    /\ GoesTo(t, IF RowAboveIs(t, ReadColumn(t)) THEN "check" ELSE "asleep")
    /\ UNCHANGED <<tile, row, col, queueVars, num_finished_cols, num_tile_cols_done,
                   row_mt_exit, lfVars, released, encoded, errors, runVars>>

\* A faulty variant: the exit flag is not read again after the wait.
CheckExitNever(t) ==
    /\ pc[t] = "check"
    /\ GoesTo(t, "encode")
    /\ UNCHANGED <<tile, row, col, queueVars, num_finished_cols, num_tile_cols_done,
                   row_mt_exit, lfVars, released, encoded, errors, runVars>>

\* encode_sb_row returns in the middle of a row when another worker has failed
CheckExit(t) ==
    /\ pc[t] = "check"
    /\ GoesTo(t, IF row_mt_exit THEN "row_done" ELSE "encode")
    /\ UNCHANGED <<tile, row, col, queueVars, num_finished_cols, num_tile_cols_done,
                   row_mt_exit, lfVars, released, encoded, errors, runVars>>

\* wait_for_top_right_sb, at the first block that touches the top-right corner
SyncReadLate(t) ==
    /\ pc[t] = "encode" /\ setup.late
    /\ GoesTo(t, IF RowAboveIs(t, col[t]) THEN "finish" ELSE "asleep_late")
    /\ UNCHANGED <<tile, row, col, queueVars, num_finished_cols, num_tile_cols_done,
                   row_mt_exit, lfVars, released, encoded, errors, runVars>>

\* With the late wait nobody looks at row_mt_exit between the wait and the use
\* of the top-right superblock: what is encoded after a failure is of no use.
Spoilt == setup.late /\ row_mt_exit

Encode(t) ==
    /\ pc[t] = IF setup.late THEN "finish" ELSE "encode"
    /\ encoded' = IF Spoilt THEN encoded ELSE encoded \cup {<<tile[t], row[t], col[t]>>}
    /\ GoesTo(t, "write")
    /\ UNCHANGED <<tile, row, col, queueVars, num_finished_cols, num_tile_cols_done,
                   row_mt_exit, lfVars, released, errors, runVars>>

SleepsOn(u, k, r) == pc[u] \in {"asleep", "asleep_late"} /\ tile[u] = k /\ row[u] = r + 1
Woken(w) == IF w = "asleep" THEN "read" ELSE "encode"

\* A faulty variant: the count is assigned, not raised.
SyncWriteLowers(t, k, r, cur, where) ==
    /\ num_finished_cols' = [num_finished_cols EXCEPT ![<<k, r>>] = cur]
    /\ \/ /\ \A u \in Workers : ~SleepsOn(u, k, r)
          /\ GoesTo(t, where)
       \/ \E u \in Workers :
            /\ SleepsOn(u, k, r)
            /\ pc' = [pc EXCEPT ![t] = where, ![u] = Woken(@)]

\* av1_row_mt_sync_write: a row's count never goes down, and one sleeper is woken
SyncWrite(t, k, r, cur, where) ==
    /\ num_finished_cols' = [num_finished_cols EXCEPT ![<<k, r>>] = Max2(@, cur)]
    /\ \/ /\ \A u \in Workers : ~SleepsOn(u, k, r)
          /\ GoesTo(t, where)
       \/ \E u \in Workers :
            /\ SleepsOn(u, k, r)
            /\ pc' = [pc EXCEPT ![t] = where, ![u] = Woken(@)]

Write(t) ==
    /\ pc[t] = "write"
    /\ LET last == col[t] = ColsOf(tile[t]) - 1
       IN SyncWrite(t, tile[t], row[t], IF last THEN Done(tile[t]) ELSE col[t],
                    IF last THEN "row_done" ELSE "read")
    /\ col' = [col EXCEPT ![t] = @ + 1]
    /\ UNCHANGED <<tile, row, queueVars, num_tile_cols_done, row_mt_exit, lfVars,
                   released, encoded, errors, runVars>>

\* pthread_cond_broadcast on enc_row_mt->cond_
LfWoken(p) == [u \in Workers |-> IF p[u] = "lf_asleep" THEN "lf_wait" ELSE p[u]]

\* the row is over, encoded or given up
RowDone(t) ==
    /\ pc[t] = "row_done"
    /\ num_threads_working' = [num_threads_working EXCEPT ![tile[t]] = @ - 1]
    /\ num_tile_cols_done' = [num_tile_cols_done EXCEPT ![RowStart(tile[t]) + row[t]] = @ + 1]
    /\ pc' = LfWoken([pc EXCEPT ![t] = "fetch"])
    /\ UNCHANGED <<tile, row, col, next_row, num_finished_cols, row_mt_exit, lfVars,
                   released, encoded, errors, runVars>>

-----------------------------------------------------------------------------
\* The jobs of the loop filter (enqueue_lf_jobs): all vertical ones first; in
\* each direction rows, then planes.

HalfOfLfJobs == FrameRows * setup.lf_planes

\* A faulty variant: the last job is never handed out.
NumLfJobsLess == 2 * HalfOfLfJobs - 1

NumLfJobs == 2 * HalfOfLfJobs
IsVert(n) == n < HalfOfLfJobs
JobRow(n) == (n % HalfOfLfJobs) \div setup.lf_planes
JobPlane(n) == n % setup.lf_planes

LfRow(t) == JobRow(lf_job[t])
LfPlane(t) == JobPlane(lf_job[t])
LfOwn(t) == <<LfRow(t), LfPlane(t)>>
LfAbove(t) == <<LfRow(t) - 1, LfPlane(t)>>

-----------------------------------------------------------------------------
\* An error: aom_internal_error jumps to the start of the hook.

Throw(t) ==
    /\ pc[t] \in {"start", "encode", "finish"}
    /\ errors < MaxErrors
    /\ errors' = errors + 1
    /\ GoesTo(t, "error")
    /\ UNCHANGED <<tile, row, col, queueVars, num_finished_cols, num_tile_cols_done,
                   row_mt_exit, lfVars, released, encoded, runVars>>

RaiseExit(t) ==
    /\ pc[t] = "error"
    /\ row_mt_exit' = TRUE
    /\ pc' = LfWoken([pc EXCEPT ![t] = "release"])
    /\ UNCHANGED <<tile, row, col, queueVars, num_finished_cols, num_tile_cols_done,
                   lfVars, released, encoded, errors, runVars>>

\* set_encoding_done: every row of every tile, one sync_write at a time, in order
Earlier(x, y) == x[1] < y[1] \/ (x[1] = y[1] /\ x[2] < y[2])
Release(t) ==
    /\ pc[t] = "release"
    /\ \E x \in RowIds \ released[t] :
        /\ \A y \in RowIds \ (released[t] \cup {x}) : Earlier(x, y)
        /\ SyncWrite(t, x[1], x[2], Done(x[1]), "release")
        /\ released' = [released EXCEPT ![t] = @ \cup {x}]
    /\ UNCHANGED <<tile, row, col, queueVars, num_tile_cols_done, row_mt_exit, lfVars,
                   encoded, errors, runVars>>

\* A faulty variant: the vertical edges are not declared done.
LfCloseOnly(t) ==
    /\ pc[t] = "release" /\ released[t] = RowIds /\ setup.pipelined
    /\ lf_mt_exit' = TRUE
    /\ released' = [released EXCEPT ![t] = LfRowIds]
    /\ GoesTo(t, "lf_release")
    /\ UNCHANGED <<tile, row, col, queueVars, num_finished_cols, num_tile_cols_done,
                   row_mt_exit, jobs_dequeued, lf_job, lf_col, cur_sb_col, filtered,
                   encoded, errors, runVars>>

\* the queue of the loop filter is closed before its rows are released
LfClose(t) ==
    /\ pc[t] = "release" /\ released[t] = RowIds /\ setup.pipelined
    /\ lf_mt_exit' = TRUE
    /\ released' = [released EXCEPT ![t] = {}]
    /\ GoesTo(t, "lf_release")
    /\ UNCHANGED <<tile, row, col, queueVars, num_finished_cols, num_tile_cols_done,
                   row_mt_exit, jobs_dequeued, lf_job, lf_col, cur_sb_col, filtered,
                   encoded, errors, runVars>>

\* sync_write of thread_common.c: everybody who waits for the row looks again
LfSleepsOn(u, x) ==
    \/ pc[u] = "lf_asleep_above" /\ LfAbove(u) = x
    \/ pc[u] = "lf_asleep_own" /\ LfOwn(u) = x
LfSyncWrite(t, x, cur, where) ==
    /\ cur_sb_col' = [cur_sb_col EXCEPT ![x] = Max2(@, cur)]
    /\ pc' = [u \in Workers |-> IF u = t THEN where
                                ELSE IF ~LfSleepsOn(u, x) THEN pc[u]
                                ELSE IF pc[u] = "lf_asleep_above" THEN "lf_above" ELSE "lf_own"]

\* av1_set_vert_loop_filter_done: rows, then planes; columns are counted in
\* superblocks here
LfRelease(t) ==
    /\ pc[t] = "lf_release"
    /\ \E x \in LfRowIds \ released[t] :
        /\ \A y \in LfRowIds \ (released[t] \cup {x}) : Earlier(x, y)
        /\ LfSyncWrite(t, x, FrameCols + setup.lf_sync_range, "lf_release")
        /\ released' = [released EXCEPT ![t] = @ \cup {x}]
    /\ UNCHANGED <<tile, row, col, queueVars, num_finished_cols, num_tile_cols_done, row_mt_exit,
                   lf_mt_exit, jobs_dequeued, lf_job, lf_col, filtered, encoded, errors, runVars>>

\* the hook returns 0
Failed(t) ==
    /\ \/ pc[t] = "release" /\ released[t] = RowIds /\ ~setup.pipelined
       \/ pc[t] = "lf_release" /\ released[t] = LfRowIds
    /\ GoesTo(t, "failed")
    /\ UNCHANGED <<tile, row, col, queueVars, num_finished_cols, num_tile_cols_done,
                   row_mt_exit, lfVars, released, encoded, errors, runVars>>

-----------------------------------------------------------------------------
\* launch_loop_filter_rows

\* get_lf_job_info
LfGet(t) ==
    /\ pc[t] = "lf_get"
    /\ IF ~lf_mt_exit /\ jobs_dequeued < NumLfJobs
       THEN /\ lf_job' = [lf_job EXCEPT ![t] = jobs_dequeued]
            /\ lf_col' = [lf_col EXCEPT ![t] = 0]
            /\ jobs_dequeued' = jobs_dequeued + 1
            /\ GoesTo(t, "lf_wait")
       ELSE /\ GoesTo(t, "returned")
            /\ UNCHANGED <<lf_job, lf_col, jobs_dequeued>>
    /\ UNCHANGED <<tile, row, col, queueVars, num_finished_cols, num_tile_cols_done, row_mt_exit,
                   lf_mt_exit, cur_sb_col, filtered, released, encoded, errors, runVars>>

RowEncoded(r) == num_tile_cols_done[r] >= NumTileCols
NextLfRow(t) == Min2(FrameRows - 1, LfRow(t) + 1)
LfBegin(t) == IF IsVert(lf_job[t]) THEN "lf_vert" ELSE "lf_above"

\* A faulty variant: the exit flag is not looked at.
LfWaitIgnoresExit(t) ==
    /\ pc[t] = "lf_wait"
    /\ GoesTo(t, IF RowEncoded(LfRow(t)) /\ RowEncoded(NextLfRow(t)) THEN LfBegin(t)
                 ELSE "lf_asleep")
    /\ UNCHANGED <<tile, row, col, queueVars, num_finished_cols, num_tile_cols_done,
                   row_mt_exit, lfVars, released, encoded, errors, runVars>>

\* a job that was handed out is given up when a worker has failed
LfWait(t) ==
    /\ pc[t] = "lf_wait"
    /\ GoesTo(t, IF row_mt_exit THEN "returned"
                 ELSE IF RowEncoded(LfRow(t)) /\ RowEncoded(NextLfRow(t)) THEN LfBegin(t)
                 ELSE "lf_asleep")
    /\ UNCHANGED <<tile, row, col, queueVars, num_finished_cols, num_tile_cols_done,
                   row_mt_exit, lfVars, released, encoded, errors, runVars>>

-----------------------------------------------------------------------------
\* One job: av1_thread_loop_filter_rows

LfBlock(t) == <<IF IsVert(lf_job[t]) THEN "vert" ELSE "horz", LfRow(t), LfPlane(t), lf_col[t]>>

LfVert(t) ==
    /\ pc[t] = "lf_vert"
    /\ filtered' = filtered \cup {LfBlock(t)}
    /\ GoesTo(t, "lf_write")
    /\ UNCHANGED <<tile, row, col, queueVars, num_finished_cols, num_tile_cols_done, row_mt_exit,
                   lf_mt_exit, jobs_dequeued, lf_job, lf_col, cur_sb_col,
                   released, encoded, errors, runVars>>

\* the last column is published, and every lf_sync_range-th one before it
LfWrite(t) ==
    /\ pc[t] = "lf_write"
    /\ LET last == lf_col[t] = LfCols - 1
           where == IF last THEN "lf_get" ELSE "lf_vert"
       IN IF last \/ lf_col[t] % setup.lf_sync_range = 0
          THEN LfSyncWrite(t, LfOwn(t), IF last THEN LfCols + setup.lf_sync_range ELSE lf_col[t], where)
          ELSE GoesTo(t, where) /\ UNCHANGED cur_sb_col
    /\ lf_col' = [lf_col EXCEPT ![t] = @ + 1]
    /\ UNCHANGED <<tile, row, col, queueVars, num_finished_cols, num_tile_cols_done, row_mt_exit,
                   lf_mt_exit, jobs_dequeued, lf_job, filtered, released, encoded, errors, runVars>>

\* A faulty variant: the same column is enough.
LfRowIsUnsynced(x, c) == x[1] < 0 \/ c % setup.lf_sync_range # 0 \/ c <= cur_sb_col[x]

\* the condition sync_read(x[1] + 1, c, x[2]) waits on, negated
LfRowIs(x, c) == x[1] < 0 \/ c % setup.lf_sync_range # 0 \/ c <= cur_sb_col[x] - setup.lf_sync_range

LfReadAbove(t) ==
    /\ pc[t] = "lf_above"
    /\ GoesTo(t, IF LfRowIs(LfAbove(t), lf_col[t]) THEN "lf_own" ELSE "lf_asleep_above")
    /\ UNCHANGED <<tile, row, col, queueVars, num_finished_cols, num_tile_cols_done,
                   row_mt_exit, lfVars, released, encoded, errors, runVars>>

LfReadOwn(t) ==
    /\ pc[t] = "lf_own"
    /\ GoesTo(t, IF LfRowIs(LfOwn(t), lf_col[t]) THEN "lf_check" ELSE "lf_asleep_own")
    /\ UNCHANGED <<tile, row, col, queueVars, num_finished_cols, num_tile_cols_done,
                   row_mt_exit, lfVars, released, encoded, errors, runVars>>

\* (a single worker never finds the flag set, so lf_sync->num_workers is left out)
LfCheckExit(t) ==
    /\ pc[t] = "lf_check"
    /\ GoesTo(t, IF lf_mt_exit THEN "lf_get" ELSE "lf_horz")
    /\ UNCHANGED <<tile, row, col, queueVars, num_finished_cols, num_tile_cols_done,
                   row_mt_exit, lfVars, released, encoded, errors, runVars>>

LfHorz(t) ==
    /\ pc[t] = "lf_horz"
    /\ filtered' = filtered \cup {LfBlock(t)}
    /\ lf_col' = [lf_col EXCEPT ![t] = @ + 1]
    /\ GoesTo(t, IF lf_col[t] = LfCols - 1 THEN "lf_get" ELSE "lf_above")
    /\ UNCHANGED <<tile, row, col, queueVars, num_finished_cols, num_tile_cols_done, row_mt_exit,
                   lf_mt_exit, jobs_dequeued, lf_job, cur_sb_col, released, encoded, errors, runVars>>

-----------------------------------------------------------------------------
\* A condition variable returns without a signal.
Spurious(t) ==
    /\ pc[t] \in {"asleep", "asleep_late", "lf_asleep", "lf_asleep_above", "lf_asleep_own"}
    /\ GoesTo(t, CASE pc[t] = "lf_asleep" -> "lf_wait"
                   [] pc[t] = "lf_asleep_above" -> "lf_above"
                   [] pc[t] = "lf_asleep_own" -> "lf_own"
                   [] OTHER -> Woken(pc[t]))
    /\ UNCHANGED <<tile, row, col, queueVars, num_finished_cols, num_tile_cols_done,
                   row_mt_exit, lfVars, released, encoded, errors, runVars>>

\* A faulty variant: only the main thread's error is looked at.
JoinMainOnly ==
    /\ outcome = "busy"
    /\ \A t \in Workers : pc[t] \in {"returned", "failed"}
    /\ outcome' = IF pc[0] = "failed" THEN "error" ELSE "ok"
    /\ UNCHANGED <<pc, tile, row, col, queueVars, num_finished_cols, num_tile_cols_done,
                   row_mt_exit, lfVars, released, encoded, errors, setup>>

\* sync_enc_workers: every hook has returned; the frame fails if one of them did
Join ==
    /\ outcome = "busy"
    /\ \A t \in Workers : pc[t] \in {"returned", "failed"}
    /\ outcome' = IF \E t \in Workers : pc[t] = "failed" THEN "error" ELSE "ok"
    /\ UNCHANGED <<pc, tile, row, col, queueVars, num_finished_cols, num_tile_cols_done,
                   row_mt_exit, lfVars, released, encoded, errors, setup>>

\* the next av1_encode_tiles_row_mt
StartFrame ==
    /\ outcome # "busy"
    /\ pc' = [t \in Workers |-> "start"]
    /\ tile' = [t \in Workers |-> t % NumTiles]
    /\ row' = [t \in Workers |-> 0] /\ col' = [t \in Workers |-> 0]
    /\ next_row' = [k \in Tiles |-> 0]
    /\ num_threads_working' = [k \in Tiles |-> 0]
    /\ num_finished_cols' = [x \in RowIds |-> -1]
    /\ num_tile_cols_done' = [r \in 0..(FrameRows - 1) |-> 0]
    /\ row_mt_exit' = FALSE /\ lf_mt_exit' = FALSE
    /\ released' = [t \in Workers |-> {}]
    /\ jobs_dequeued' = 0
    /\ lf_job' = [t \in Workers |-> 0] /\ lf_col' = [t \in Workers |-> 0]
    /\ cur_sb_col' = [x \in LfRowIds |-> -1]
    /\ encoded' = {} /\ filtered' = {}
    /\ outcome' = "busy"
    /\ UNCHANGED <<errors, setup>>

Step(t) ==
    \/ Start(t) \/ FetchOwnTile(t) \/ FetchOtherTile(t) \/ StopEncoding(t)
    \/ SyncRead(t) \/ CheckExit(t) \/ SyncReadLate(t) \/ Encode(t) \/ Write(t) \/ RowDone(t)
    \/ RaiseExit(t) \/ Release(t) \/ LfClose(t) \/ LfRelease(t) \/ Failed(t)
    \/ LfGet(t) \/ LfWait(t) \/ LfVert(t) \/ LfWrite(t)
    \/ LfReadAbove(t) \/ LfReadOwn(t) \/ LfCheckExit(t) \/ LfHorz(t)

Next == (\E t \in Workers : Step(t) \/ Throw(t) \/ Spurious(t)) \/ Join \/ StartFrame

\* Every worker thread runs and the main thread joins; errors and spurious
\* wakeups are never required.
Fairness == (\A t \in AllWorkers : WF_vars(t \in Workers /\ Step(t))) /\ WF_vars(Join)

Spec == Init /\ [][Next]_vars /\ Fairness

-----------------------------------------------------------------------------

Places == {"start", "fetch", "read", "asleep", "check", "encode", "asleep_late", "finish",
           "write", "row_done", "error", "release", "lf_release", "failed",
           "lf_get", "lf_wait", "lf_asleep", "lf_vert", "lf_write",
           "lf_above", "lf_asleep_above", "lf_own", "lf_asleep_own", "lf_check", "lf_horz",
           "returned"}
Superblocks == SuperblocksIn(setup)

TypeOK ==
    /\ setup \in Setups
    /\ pc \in [Workers -> Places]
    /\ tile \in [Workers -> Tiles]
    /\ \A t \in Workers : row[t] \in 0..(RowsOf(tile[t]) - 1) /\ col[t] \in 0..ColsOf(tile[t])
    /\ \A k \in Tiles : next_row[k] \in 0..RowsOf(k) /\ num_threads_working[k] \in 0..setup.workers
    /\ \A x \in RowIds : num_finished_cols[x] \in -1..Done(x[1])
    /\ \A r \in 0..(FrameRows - 1) : num_tile_cols_done[r] \in 0..NumTileCols
    /\ row_mt_exit \in BOOLEAN /\ lf_mt_exit \in BOOLEAN
    /\ jobs_dequeued \in 0..NumLfJobs
    /\ lf_job \in [Workers -> 0..(NumLfJobs - 1)] /\ lf_col \in [Workers -> 0..LfCols]
    /\ \A x \in LfRowIds : cur_sb_col[x] \in -1..(FrameCols + setup.lf_sync_range)
    /\ encoded \subseteq Superblocks
    /\ outcome \in {"busy", "ok", "error"}

\* The superblocks b is predicted from: to its left, and above it as far as
\* the top-right neighbour and the extra delay of intra block copy reach.
NeedsIn(s, b) ==
    {<<b[1], b[2], c>> : c \in 0..(b[3] - 1)} \cup
    (IF b[2] = 0 THEN {}
     ELSE {<<b[1], b[2] - 1, c>> : c \in 0..Min2(b[3] + 1 + s.delay, ColsIn(s, b[1]) - 1)})

\* Filtering a block wants its row and the next one encoded in all tiles.
\* Horizontal filtering wants every vertical filtering that touches its columns,
\* in its own row and in the row above, whose lowest pixels it changes.
FilterBlocksIn(s) ==
    IF ~s.pipelined THEN {}
    ELSE {<<d, x[1], x[2], c>> : d \in {"vert", "horz"}, x \in LfRowIdsIn(s), c \in 0..(LfColsIn(s) - 1)}
RowsEncodedIn(s, r) == {b \in SuperblocksIn(s) : RowStartIn(s, b[1]) + b[2] \in {r, r + 1}}
EdgesIn(s, f) ==
    IF f[1] = "vert" THEN {}
    ELSE {<<"vert", r, f[3], c>> : r \in (f[2] - 1)..f[2], c \in f[4]..Min2(f[4] + 1, LfColsIn(s) - 1)}
            \cap FilterBlocksIn(s)
FilterNeedsIn(s, f) == RowsEncodedIn(s, f[2]) \cup EdgesIn(s, f)

NeedsOf == [s \in Setups |-> [b \in SuperblocksIn(s) \cup FilterBlocksIn(s) |->
                IF b \in SuperblocksIn(s) THEN NeedsIn(s, b) ELSE FilterNeedsIn(s, b)]]

\* Whoever is about to use the top-right superblock finds it encoded, also
\* while a failed worker is declaring rows done that are not.
TopRightEncoded ==
    \A t \in Workers :
        (pc[t] = (IF setup.late THEN "finish" ELSE "encode") /\ ~Spoilt) =>
            NeedsIn(setup, <<tile[t], row[t], col[t]>>) \subseteq encoded

\* No two workers are ever in the same row of a tile: next_mi_row hands each row
\* to one of them, however they change tiles.  The signal in sync_write, which
\* wakes one sleeper of the row below, therefore reaches all there are.
InRow == {"read", "asleep", "check", "encode", "asleep_late", "finish", "write", "row_done"}
RowsAreDisjoint ==
    \A t, u \in Workers :
        (t # u /\ pc[t] \in InRow /\ pc[u] \in InRow) => <<tile[t], row[t]>> # <<tile[u], row[u]>>

\* The loop filter only ever works on rows all of whose superblocks, and those
\* of the next row, are encoded, although a row that was given up after an
\* error is counted in num_tile_cols_done as well.
FiltersEncodedRows ==
    \A t \in Workers : pc[t] \in {"lf_vert", "lf_horz"} => RowsEncodedIn(setup, LfRow(t)) \subseteq encoded

\* A frame that is reported good is complete, encoded and (when the filter
\* follows the encoder) filtered, and the frame is reported bad whenever a
\* worker failed in it.
OutcomeIsTrue ==
    /\ outcome = "ok" => encoded = Superblocks /\ filtered = FilterBlocksIn(setup)
    /\ outcome # "busy" => (outcome = "error" <=> row_mt_exit)

\* Every frame comes to an end, whoever fails and whenever: nobody is left
\* waiting for a row that will not be written, nor for vertical edges of a job
\* that somebody took and gave up.
FrameEnds == (outcome = "busy") ~> (outcome # "busy")

\* The workers implement the wavefront of a frame, of its encoding and of the
\* filter that follows it.
Frame == INSTANCE Wavefront WITH needs <- NeedsOf[setup], encoded <- encoded \cup filtered
WavefrontSpec == Frame!Spec

=============================================================================
