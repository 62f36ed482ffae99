------------------------------- MODULE LrSync -------------------------------
(***************************************************************************)
(* Loop restoration on several threads (av1/common/thread_common.c,        *)
(* av1_foreach_rest_unit_in_row in restoration.c).  A job is one row of    *)
(* restoration units of one plane.  Filtering a unit reads the frame, puts *)
(* saved lines over the lines above and below it for the time being, and   *)
(* writes to another buffer; at the end of the job the row is copied back. *)
(* Even rows come first and do not wait; an odd row stays behind the rows  *)
(* above and below it, and also copies back their three lines next to it.  *)
(*                                                                         *)
(* A step is one critical section, the filtering of a unit or a copy.  A   *)
(* behaviour is the filter of one frame; FrameMt puts it into frames that  *)
(* follow each other.                                                      *)
(***************************************************************************)
EXTENDS Integers

CONSTANTS
    NumWorkers,
    NumPlanes,      \* planes that are restored
    Rows, Cols,     \* vert_units and horz_units of a plane
    MaxErrors       \* bound on the errors of a run

LrSyncAssumption ==
    /\ {NumWorkers, NumPlanes, Rows, Cols} \subseteq Nat \ {0}
    /\ MaxErrors \in Nat

Workers == 0..(NumWorkers - 1)
Planes == 0..(NumPlanes - 1)
RowIds == 0..(Rows - 1)
ColIds == 0..(Cols - 1)
SyncRange == 1      \* get_lr_sync_range

VARIABLES
    pc, plane, row, col,    \* where each worker is, and the unit it is at
    jobs_dequeued, lr_mt_exit,
    cur_sb_col,     \* per plane and row: units are filtered up to here
    released,       \* how many rows a failed worker has declared done
    done,           \* history: <<"unit", plane, row, column>>, <<"back", plane, row>>
    errors,         \* counter of the run
    outcome         \* "busy", "ok" or "error"

place == <<plane, row, col>>
vars == <<pc, place, jobs_dequeued, lr_mt_exit, cur_sb_col, released, done, errors, outcome>>

Zeros == [t \in Workers |-> 0]

Init ==
    /\ pc = [t \in Workers |-> "get"]
    /\ plane = Zeros /\ row = Zeros /\ col = Zeros
    /\ jobs_dequeued = 0 /\ lr_mt_exit = FALSE
    /\ cur_sb_col = [x \in Planes \X RowIds |-> -1]
    /\ released = Zeros
    /\ done = {} /\ errors = 0
    /\ outcome = "busy"

GoesTo(t, where) == pc' = [pc EXCEPT ![t] = where]
Even(r) == r % 2 = 0
Neighbours(r) == {r - 1, r + 1} \cap RowIds

-----------------------------------------------------------------------------
\* enqueue_lr_jobs: the even rows of all planes, then the odd ones

EvenRows == (Rows + 1) \div 2
OddRows == Rows \div 2
NumJobs == NumPlanes * Rows

Job(n) ==
    IF n < NumPlanes * EvenRows
    THEN <<n \div EvenRows, 2 * (n % EvenRows)>>
    ELSE LET m == n - NumPlanes * EvenRows IN <<m \div OddRows, 2 * (m % OddRows) + 1>>

\* get_lr_job_info
GetJob(t) ==
    /\ pc[t] = "get"
    /\ IF ~lr_mt_exit /\ jobs_dequeued < NumJobs
       THEN LET job == Job(jobs_dequeued)
            IN /\ plane' = [plane EXCEPT ![t] = job[1]]
               /\ row' = [row EXCEPT ![t] = job[2]]
               /\ jobs_dequeued' = jobs_dequeued + 1
               /\ GoesTo(t, "read_above")
       ELSE /\ GoesTo(t, "returned")
            /\ UNCHANGED <<plane, row, jobs_dequeued>>
    /\ col' = [col EXCEPT ![t] = 0]
    /\ UNCHANGED <<lr_mt_exit, cur_sb_col, released, done, errors, outcome>>

-----------------------------------------------------------------------------
\* av1_foreach_rest_unit_in_row

\* A faulty variant: the unit above or below is enough.
RowIsUnsynced(p, r, c) == c <= cur_sb_col[<<p, r>>]

\* the condition lr_sync_read waits on, negated
RowIs(p, r, c) == c <= cur_sb_col[<<p, r>>] - SyncRange

\* top-right sync: only the jobs with sync_mode 1, the odd rows, wait
ReadAbove(t) ==
    /\ pc[t] = "read_above"
    /\ GoesTo(t, IF Even(row[t]) \/ RowIs(plane[t], row[t] - 1, col[t]) THEN "read_below"
                 ELSE "asleep_above")
    /\ UNCHANGED <<place, jobs_dequeued, lr_mt_exit, cur_sb_col, released, done, errors, outcome>>

\* bottom-right sync, unless the row is the last one
ReadBelow(t) ==
    /\ pc[t] = "read_below"
    /\ GoesTo(t, IF \/ Even(row[t]) \/ row[t] + 1 = Rows
                    \/ RowIs(plane[t], row[t] + 1, col[t])
                 THEN "check" ELSE "asleep_below")
    /\ UNCHANGED <<place, jobs_dequeued, lr_mt_exit, cur_sb_col, released, done, errors, outcome>>

\* a row that is given up is still copied back
CheckExit(t) ==
    /\ pc[t] = "check"
    /\ GoesTo(t, IF lr_mt_exit /\ NumWorkers > 1 THEN "copy" ELSE "filter")
    /\ UNCHANGED <<place, jobs_dequeued, lr_mt_exit, cur_sb_col, released, done, errors, outcome>>

Filter(t) ==
    /\ pc[t] = "filter"
    /\ done' = done \cup {<<"unit", plane[t], row[t], col[t]>>}
    /\ GoesTo(t, "write")
    /\ UNCHANGED <<place, jobs_dequeued, lr_mt_exit, cur_sb_col, released, errors, outcome>>

\* lr_sync_write and its broadcast
Woken(where) == IF where = "asleep_above" THEN "read_above" ELSE "read_below"
WaitsFor(u, p, r) == /\ plane[u] = p
                     /\ \/ pc[u] = "asleep_above" /\ row[u] = r + 1
                        \/ pc[u] = "asleep_below" /\ row[u] = r - 1
Publish(t, p, r, cur, where) ==
    /\ cur_sb_col' = [cur_sb_col EXCEPT ![<<p, r>>] = IF cur > @ THEN cur ELSE @]
    /\ pc' = [u \in Workers |-> IF u = t THEN where
                                ELSE IF WaitsFor(u, p, r) THEN Woken(pc[u]) ELSE pc[u]]

AllCols == Cols + SyncRange

\* only the jobs with sync_mode 0, the even rows, write
Write(t) ==
    /\ pc[t] = "write"
    /\ LET last == col[t] = Cols - 1
           where == IF last THEN "copy" ELSE "read_above"
       IN IF Even(row[t]) THEN Publish(t, plane[t], row[t], IF last THEN AllCols ELSE col[t], where)
                          ELSE GoesTo(t, where) /\ UNCHANGED cur_sb_col
    /\ col' = [col EXCEPT ![t] = @ + 1]
    /\ UNCHANGED <<plane, row, jobs_dequeued, lr_mt_exit, released, done, errors, outcome>>

\* copy_funs; the copy of a row that was given up does not count
Copy(t) ==
    /\ pc[t] = "copy"
    /\ done' = IF col[t] = Cols THEN done \cup {<<"back", plane[t], row[t]>>} ELSE done
    /\ GoesTo(t, "get")
    /\ UNCHANGED <<place, jobs_dequeued, lr_mt_exit, cur_sb_col, released, errors, outcome>>

-----------------------------------------------------------------------------
\* An error, of a filter that gets no memory, jumps to the start of
\* loop_restoration_row_worker.

Throw(t) ==
    /\ pc[t] = "filter" /\ errors < MaxErrors
    /\ errors' = errors + 1
    /\ GoesTo(t, "error")
    /\ UNCHANGED <<place, jobs_dequeued, lr_mt_exit, cur_sb_col, released, done, outcome>>

RaiseExit(t) ==
    /\ pc[t] = "error"
    /\ lr_mt_exit' = TRUE
    /\ GoesTo(t, "release")
    /\ UNCHANGED <<place, jobs_dequeued, cur_sb_col, released, done, errors, outcome>>

\* set_loop_restoration_done: planes, then rows; the hook returns 0
Release(t) ==
    /\ pc[t] = "release"
    /\ LET n == released[t]
       IN Publish(t, n \div Rows, n % Rows, AllCols, IF n + 1 = NumJobs THEN "failed" ELSE "release")
    /\ released' = [released EXCEPT ![t] = @ + 1]
    /\ UNCHANGED <<place, jobs_dequeued, lr_mt_exit, done, errors, outcome>>

Spurious(t) ==
    /\ pc[t] \in {"asleep_above", "asleep_below"}
    /\ GoesTo(t, Woken(pc[t]))
    /\ UNCHANGED <<place, jobs_dequeued, lr_mt_exit, cur_sb_col, released, done, errors, outcome>>

\* sync_lr_workers; the locals of the hooks are gone
Join ==
    /\ outcome = "busy"
    /\ \A t \in Workers : pc[t] \in {"returned", "failed"}
    /\ outcome' = IF \E t \in Workers : pc[t] = "failed" THEN "error" ELSE "ok"
    /\ plane' = Zeros /\ row' = Zeros /\ col' = Zeros
    /\ UNCHANGED <<pc, jobs_dequeued, lr_mt_exit, cur_sb_col, released, done, errors>>

\* foreach_rest_unit_in_planes_mt
Start ==
    /\ pc' = [t \in Workers |-> "get"]
    /\ plane' = Zeros /\ row' = Zeros /\ col' = Zeros
    /\ jobs_dequeued' = 0 /\ lr_mt_exit' = FALSE
    /\ cur_sb_col' = [x \in Planes \X RowIds |-> -1]
    /\ released' = Zeros
    /\ outcome' = "busy"

Step(t) ==
    \/ GetJob(t) \/ ReadAbove(t) \/ ReadBelow(t) \/ CheckExit(t) \/ Filter(t) \/ Write(t) \/ Copy(t)
    \/ RaiseExit(t) \/ Release(t)

Next == (\E t \in Workers : Step(t) \/ Throw(t) \/ Spurious(t)) \/ Join

Spec == Init /\ [][Next]_vars

-----------------------------------------------------------------------------

Places == {"get", "read_above", "asleep_above", "read_below", "asleep_below", "check", "filter",
           "write", "copy", "error", "release", "returned", "failed"}
Blocks == ({"unit"} \X Planes \X RowIds \X ColIds) \cup ({"back"} \X Planes \X RowIds)

TypeOK ==
    /\ pc \in [Workers -> Places]
    /\ plane \in [Workers -> Planes] /\ row \in [Workers -> RowIds]
    /\ col \in [Workers -> 0..Cols]
    /\ jobs_dequeued \in 0..NumJobs /\ lr_mt_exit \in BOOLEAN
    /\ cur_sb_col \in [Planes \X RowIds -> -1..AllCols]
    /\ released \in [Workers -> 0..NumJobs]
    /\ outcome \in {"busy", "ok", "error"}

\* While a unit is filtered the lines of its neighbours above and below, as far
\* as the next column, hold other pixels: no two workers filter units that
\* touch, not even while a failed worker is declaring rows done that are not.
NoUnitsTouch ==
    \A t, u \in Workers :
        (t # u /\ pc[t] = "filter" /\ pc[u] = "filter" /\ plane[t] = plane[u]) =>
            ~(row[u] \in Neighbours(row[t]) /\ col[u] \in (col[t] - 1)..(col[t] + 1))

\* "For odd numbered rows, Loop Restoration of current block requires the LR of
\* top-right and bottom-right blocks to be completed."
Needs(b) ==
    LET p == b[2]  r == b[3]
        near == IF Even(r) THEN {} ELSE Neighbours(r)
    IN IF b[1] = "back" THEN {"unit"} \X {p} \X ({r} \cup near) \X ColIds
       ELSE {"unit"} \X {p} \X near \X (ColIds \cap (b[4]..(b[4] + 1)))

=============================================================================
