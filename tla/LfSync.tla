------------------------------- MODULE LfSync -------------------------------
(***************************************************************************)
(* The loop filter of a frame on several threads (av1/common/              *)
(* thread_common.c and .h): jobs filter the vertical edges of one row of   *)
(* one plane, then the horizontal edges; a horizontal job stays behind the *)
(* vertical filtering of its own row and the row above.  Who fails closes  *)
(* the queue and declares all vertical filtering done.                     *)
(*                                                                         *)
(* Rows and columns are counted in units of 128 pixels.  A step is one     *)
(* critical section or the filtering of one block.  A behaviour is the     *)
(* filter of one frame; FrameMt puts it into frames that follow each other *)
(***************************************************************************)
EXTENDS Integers

CONSTANTS
    NumWorkers, Rows, Cols,
    NumPlanes,      \* planes with jobs in the queue
    SyncRange,      \* lf_sync->sync_range: 1, 2, 4 or 8 by the frame width
    MaxErrors       \* bound on the errors of a run

LfSyncAssumption ==
    /\ {NumWorkers, Rows, Cols, NumPlanes} \subseteq Nat \ {0}
    /\ SyncRange \in {1, 2, 4, 8}
    /\ MaxErrors \in Nat

Workers == 0..(NumWorkers - 1)
Planes == 0..(NumPlanes - 1)
RowIds == 0..(Rows - 1)

VARIABLES
    pc,             \* where each worker is
    plane, row, col,    \* what it works on
    lf_mt_exit,
    jobs_dequeued,
    cur_sb_col,     \* per plane and row: vertical filtering is done up to here
    released,       \* how many of the rows a failed worker has declared done
    done,           \* history: <<direction, plane, row, column>>
    errors,         \* counter of the run
    outcome         \* "busy", "ok" or "error"

place == <<plane, row, col>>
vars == <<pc, place, lf_mt_exit, jobs_dequeued, cur_sb_col, released, done, errors, outcome>>

Zeros == [t \in Workers |-> 0]

Init ==
    /\ pc = [t \in Workers |-> "get"]
    /\ plane = Zeros /\ row = Zeros /\ col = Zeros
    /\ lf_mt_exit = FALSE /\ jobs_dequeued = 0
    /\ cur_sb_col = [x \in Planes \X RowIds |-> -1]
    /\ released = Zeros
    /\ done = {} /\ errors = 0
    /\ outcome = "busy"

GoesTo(t, where) == pc' = [pc EXCEPT ![t] = where]
Min2(a, b) == IF a < b THEN a ELSE b

-----------------------------------------------------------------------------
\* The queue (enqueue_lf_jobs, get_lf_job_info)

\* All vertical jobs come first; in each direction rows, then planes.
Job(n) ==
    LET x == n % (Rows * NumPlanes)
    IN <<IF n < Rows * NumPlanes THEN "vert" ELSE "horz", x % NumPlanes, x \div NumPlanes>>
NumJobs == 2 * Rows * NumPlanes

Begin(direction) == IF direction = "vert" THEN "vert" ELSE "read_above"

GetJob(t) ==
    /\ pc[t] = "get"
    /\ IF ~lf_mt_exit /\ jobs_dequeued < NumJobs
       THEN LET job == Job(jobs_dequeued)
            IN /\ plane' = [plane EXCEPT ![t] = job[2]]
               /\ row' = [row EXCEPT ![t] = job[3]]
               /\ GoesTo(t, Begin(job[1]))
               /\ jobs_dequeued' = jobs_dequeued + 1
       ELSE /\ GoesTo(t, "returned")
            /\ UNCHANGED <<plane, row, jobs_dequeued>>
    /\ col' = [col EXCEPT ![t] = 0]
    /\ UNCHANGED <<lf_mt_exit, cur_sb_col, released, done, errors, outcome>>

-----------------------------------------------------------------------------
\* av1_thread_loop_filter_rows

FilterVert(t) ==
    /\ pc[t] = "vert"
    /\ done' = done \cup {<<"vert", plane[t], row[t], col[t]>>}
    /\ GoesTo(t, "write")
    /\ UNCHANGED <<place, lf_mt_exit, jobs_dequeued, cur_sb_col, released, errors, outcome>>

\* sync_write: the last column, and every SyncRange-th one before it, is published
Asleep(u, p, r) == /\ plane[u] = p
                   /\ \/ pc[u] = "asleep_above" /\ row[u] = r + 1
                      \/ pc[u] = "asleep_own" /\ row[u] = r
Woken(where) == IF where = "asleep_above" THEN "read_above" ELSE "read_own"
Broadcast(t, p, r, where) ==
    pc' = [u \in Workers |-> IF u = t THEN where
                             ELSE IF Asleep(u, p, r) THEN Woken(pc[u]) ELSE pc[u]]

Publish(t, p, r, cur, where) ==
    /\ cur_sb_col' = [cur_sb_col EXCEPT ![<<p, r>>] = IF cur > @ THEN cur ELSE @]
    /\ Broadcast(t, p, r, where)

AllCols == Cols + SyncRange

\* A faulty variant: one column too many.
WritePastEnd(t) ==
    /\ pc[t] = "write"
    /\ LET last == col[t] = Cols
           where == IF last THEN "get" ELSE "vert"
       IN IF last \/ col[t] % SyncRange = 0
          THEN Publish(t, plane[t], row[t], IF last THEN AllCols ELSE col[t], where)
          ELSE GoesTo(t, where) /\ UNCHANGED cur_sb_col
    /\ col' = [col EXCEPT ![t] = @ + 1]
    /\ UNCHANGED <<plane, row, lf_mt_exit, jobs_dequeued, released, done, errors, outcome>>

Write(t) ==
    /\ pc[t] = "write"
    /\ LET last == col[t] = Cols - 1
           where == IF last THEN "get" ELSE "vert"
       IN IF last \/ col[t] % SyncRange = 0
          THEN Publish(t, plane[t], row[t], IF last THEN AllCols ELSE col[t], where)
          ELSE GoesTo(t, where) /\ UNCHANGED cur_sb_col
    /\ col' = [col EXCEPT ![t] = @ + 1]
    /\ UNCHANGED <<plane, row, lf_mt_exit, jobs_dequeued, released, done, errors, outcome>>

\* A faulty variant: the block above is enough.
RowIsUnsynced(p, r, c) == r < 0 \/ c % SyncRange # 0 \/ c <= cur_sb_col[<<p, r>>]

\* the condition sync_read(r + 1, c) waits on, negated
RowIs(p, r, c) == r < 0 \/ c % SyncRange # 0 \/ c <= cur_sb_col[<<p, r>>] - SyncRange

ReadAbove(t) ==
    /\ pc[t] = "read_above"
    /\ GoesTo(t, IF RowIs(plane[t], row[t] - 1, col[t]) THEN "read_own" ELSE "asleep_above")
    /\ UNCHANGED <<place, lf_mt_exit, jobs_dequeued, cur_sb_col, released,
                   done, errors, outcome>>

ReadOwn(t) ==
    /\ pc[t] = "read_own"
    /\ GoesTo(t, IF RowIs(plane[t], row[t], col[t]) THEN "check" ELSE "asleep_own")
    /\ UNCHANGED <<place, lf_mt_exit, jobs_dequeued, cur_sb_col, released,
                   done, errors, outcome>>

\* A faulty variant: the exit flag is not looked at.
CheckExitNever(t) ==
    /\ pc[t] = "check"
    /\ GoesTo(t, "horz")
    /\ UNCHANGED <<place, lf_mt_exit, jobs_dequeued, cur_sb_col, released,
                   done, errors, outcome>>

CheckExit(t) ==
    /\ pc[t] = "check"
    /\ GoesTo(t, IF lf_mt_exit /\ NumWorkers > 1 THEN "get" ELSE "horz")
    /\ UNCHANGED <<place, lf_mt_exit, jobs_dequeued, cur_sb_col, released,
                   done, errors, outcome>>

FilterHorz(t) ==
    /\ pc[t] = "horz"
    /\ done' = done \cup {<<"horz", plane[t], row[t], col[t]>>}
    /\ GoesTo(t, IF col[t] = Cols - 1 THEN "get" ELSE "read_above")
    /\ col' = [col EXCEPT ![t] = @ + 1]
    /\ UNCHANGED <<plane, row, lf_mt_exit, jobs_dequeued, cur_sb_col, released,
                   errors, outcome>>

-----------------------------------------------------------------------------
\* An error jumps to the start of the hook.  (No filter reports one yet, but
\* loop_filter_row_worker is ready for it.)

Throw(t) ==
    /\ pc[t] \in {"vert", "horz"}
    /\ errors < MaxErrors
    /\ errors' = errors + 1
    /\ GoesTo(t, "close")
    /\ UNCHANGED <<place, lf_mt_exit, jobs_dequeued, cur_sb_col, released, done, outcome>>

CloseQueue(t) ==
    /\ pc[t] = "close"
    /\ lf_mt_exit' = TRUE
    /\ GoesTo(t, "release")
    /\ UNCHANGED <<place, jobs_dequeued, cur_sb_col, released, done, errors, outcome>>

\* av1_set_vert_loop_filter_done: rows, then planes; the hook returns 0
Release(t) ==
    /\ pc[t] = "release"
    /\ LET n == released[t]
       IN Publish(t, n % NumPlanes, n \div NumPlanes, AllCols,
                  IF n + 1 = Rows * NumPlanes THEN "failed" ELSE "release")
    /\ released' = [released EXCEPT ![t] = @ + 1]
    /\ UNCHANGED <<place, lf_mt_exit, jobs_dequeued, done, errors, outcome>>

Spurious(t) ==
    /\ pc[t] \in {"asleep_above", "asleep_own"}
    /\ GoesTo(t, Woken(pc[t]))
    /\ UNCHANGED <<place, lf_mt_exit, jobs_dequeued, cur_sb_col, released,
                   done, errors, outcome>>

\* sync_lf_workers; the locals of the hooks are gone
Join ==
    /\ outcome = "busy"
    /\ \A t \in Workers : pc[t] \in {"returned", "failed"}
    /\ outcome' = IF \E t \in Workers : pc[t] = "failed" THEN "error" ELSE "ok"
    /\ plane' = Zeros /\ row' = Zeros /\ col' = Zeros
    /\ UNCHANGED <<pc, lf_mt_exit, jobs_dequeued, cur_sb_col, released, done, errors>>

\* loop_filter_frame_mt_init
Start ==
    /\ pc' = [t \in Workers |-> "get"]
    /\ plane' = Zeros /\ row' = Zeros /\ col' = Zeros
    /\ lf_mt_exit' = FALSE /\ jobs_dequeued' = 0
    /\ cur_sb_col' = [x \in Planes \X RowIds |-> -1]
    /\ released' = Zeros
    /\ outcome' = "busy"

Step(t) ==
    \/ GetJob(t) \/ FilterVert(t) \/ Write(t)
    \/ ReadAbove(t) \/ ReadOwn(t) \/ CheckExit(t) \/ FilterHorz(t)
    \/ CloseQueue(t) \/ Release(t)

Next == (\E t \in Workers : Step(t) \/ Throw(t) \/ Spurious(t)) \/ Join

Spec == Init /\ [][Next]_vars

-----------------------------------------------------------------------------

Places == {"get", "vert", "write", "read_above",
           "asleep_above", "read_own", "asleep_own", "check", "horz", "close",
           "release", "returned", "failed"}
Blocks == {"vert", "horz"} \X Planes \X RowIds \X (0..(Cols - 1))

TypeOK ==
    /\ pc \in [Workers -> Places]
    /\ plane \in [Workers -> Planes] /\ row \in [Workers -> RowIds]
    /\ col \in [Workers -> 0..Cols]
    /\ lf_mt_exit \in BOOLEAN
    /\ jobs_dequeued \in 0..NumJobs
    /\ cur_sb_col \in [Planes \X RowIds -> -1..AllCols]
    /\ released \in [Workers -> 0..(Rows * NumPlanes)]
    /\ outcome \in {"busy", "ok", "error"}

\* Horizontal filtering of a block wants every vertical filtering that touches
\* its columns, in its own row and in the row above, whose lowest pixels it
\* changes.
Needs(b) ==
    IF b[1] = "vert" THEN {}
    ELSE {x \in {"vert"} \X {b[2]} \X {b[3] - 1, b[3]} \X (b[4]..Min2(Cols - 1, b[4] + 1)) :
            x[3] >= 0}

\* Whoever is about to filter a block is the first to do so and finds its needs
\* done, also while a failed worker is declaring vertical filtering done that is
\* not.
FiltersInOrder ==
    \A t \in Workers : pc[t] \in {"vert", "horz"} =>
        LET b == <<pc[t], plane[t], row[t], col[t]>>
        IN b \notin done /\ Needs(b) \subseteq done

=============================================================================
