------------------------------ MODULE CdefSync ------------------------------
(***************************************************************************)
(* CDEF on several threads (av1/common/thread_common.c): workers take rows *)
(* of 64x64 filter blocks from the top.  A worker first copies the lowest  *)
(* lines of its row and the first lines of the next row into the line      *)
(* buffers (av1_cdef_init_fb_row_mt), then filters its row in place; the   *)
(* next row waits for the copy, because it will change the lines it took.  *)
(* is_row_done is set by the row and cleared by the row below that waits   *)
(* for it: it lives as long as the row objects (alloccommon.c), not as     *)
(* long as the frame.                                                      *)
(*                                                                         *)
(* A step is one critical section, the copy of a row or its filtering.  A  *)
(* behaviour is the filter of one frame; FrameMt puts it into frames that  *)
(* follow each other.                                                      *)
(***************************************************************************)
EXTENDS Integers

CONSTANTS
    NumWorkers,
    Heights,        \* the heights frames may have, in filter block rows
    MaxErrors       \* bound on the errors of a run

CdefSyncAssumption ==
    /\ NumWorkers \in Nat \ {0}
    /\ Heights # {} /\ Heights \subseteq Nat \ {0}
    /\ MaxErrors \in Nat

Workers == 0..(NumWorkers - 1)
RowIds(n) == 0..(n - 1)

VARIABLES
    nvfb,           \* height of the frame, and of the row objects
    is_row_done,    \* of the rows that have objects
    fbr,            \* rows handed out
    cdef_mt_exit,
    pc, row,        \* where each worker is, and its row
    released,       \* rows a failed worker has declared copied
    done,           \* history: <<"copy", row>> and <<"cdef", row>>
    errors,         \* counter of the run
    outcome         \* "busy", "ok" or "error"

vars == <<nvfb, is_row_done, fbr, cdef_mt_exit, pc, row, released, done, errors, outcome>>

Zeros == [t \in Workers |-> 0]

Init ==
    /\ nvfb \in Heights
    /\ is_row_done = [r \in RowIds(nvfb) |-> 0]
    /\ fbr = 0 /\ cdef_mt_exit = FALSE
    /\ pc = [t \in Workers |-> "next"] /\ row = Zeros
    /\ released = Zeros
    /\ done = {}
    /\ errors = 0 /\ outcome = "busy"

GoesTo(t, where) == pc' = [pc EXCEPT ![t] = where]

-----------------------------------------------------------------------------

\* get_cdef_row_next_job
NextJob(t) ==
    /\ pc[t] = "next"
    /\ IF ~cdef_mt_exit /\ fbr < nvfb
       THEN /\ row' = [row EXCEPT ![t] = fbr]
            /\ fbr' = fbr + 1
            /\ GoesTo(t, "copy")
       ELSE /\ GoesTo(t, "returned")
            /\ UNCHANGED <<row, fbr>>
    /\ UNCHANGED <<nvfb, is_row_done, cdef_mt_exit, released, done, errors, outcome>>

\* av1_cdef_init_fb_row_mt: both line buffers of the boundary below the row
CopyLines(t) ==
    /\ pc[t] = "copy"
    /\ done' = done \cup {<<"copy", row[t]>>}
    /\ GoesTo(t, "write")
    /\ UNCHANGED <<nvfb, is_row_done, fbr, cdef_mt_exit, row, released, errors, outcome>>

\* cdef_row_mt_sync_write, which wakes the one worker that may wait for the row
SetRowDone(t, r, where) ==
    /\ is_row_done' = [is_row_done EXCEPT ![r] = 1]
    /\ \/ /\ \A u \in Workers : ~(pc[u] = "asleep" /\ row[u] = r + 1)
          /\ GoesTo(t, where)
       \/ \E u \in Workers : /\ pc[u] = "asleep" /\ row[u] = r + 1
                             /\ pc' = [pc EXCEPT ![t] = where, ![u] = "read"]

SyncWrite(t) ==
    /\ pc[t] = "write"
    /\ SetRowDone(t, row[t], "read")
    /\ UNCHANGED <<nvfb, fbr, cdef_mt_exit, row, released, done, errors, outcome>>

\* A faulty variant: the flag is not cleared.
SyncReadKeeps(t) ==
    /\ pc[t] = "read"
    /\ GoesTo(t, IF row[t] = 0 \/ is_row_done[row[t] - 1] = 1 THEN "check" ELSE "asleep")
    /\ UNCHANGED <<nvfb, is_row_done, fbr, cdef_mt_exit, row, released, done, errors,
                   outcome>>

\* cdef_row_mt_sync_read: wait for the row above, and clear its flag
SyncRead(t) ==
    /\ pc[t] = "read"
    /\ IF row[t] = 0
       THEN GoesTo(t, "check") /\ UNCHANGED is_row_done
       ELSE IF is_row_done[row[t] - 1] = 1
       THEN GoesTo(t, "check") /\ is_row_done' = [is_row_done EXCEPT ![row[t] - 1] = 0]
       ELSE GoesTo(t, "asleep") /\ UNCHANGED is_row_done
    /\ UNCHANGED <<nvfb, fbr, cdef_mt_exit, row, released, done, errors, outcome>>

\* av1_cdef_fb_row leaves the row alone when somebody has failed
CheckExit(t) ==
    /\ pc[t] = "check"
    /\ GoesTo(t, IF cdef_mt_exit /\ NumWorkers > 1 THEN "next" ELSE "filter")
    /\ UNCHANGED <<nvfb, is_row_done, fbr, cdef_mt_exit, row, released, done, errors,
                   outcome>>

Filter(t) ==
    /\ pc[t] = "filter"
    /\ done' = done \cup {<<"cdef", row[t]>>}
    /\ GoesTo(t, "next")
    /\ UNCHANGED <<nvfb, is_row_done, fbr, cdef_mt_exit, row, released, errors, outcome>>

-----------------------------------------------------------------------------
\* An error jumps to the start of cdef_sb_row_worker_hook.  (No filter reports
\* one yet, but the hook is ready for it.)

Throw(t) ==
    /\ pc[t] \in {"copy", "filter"}
    /\ errors < MaxErrors
    /\ errors' = errors + 1
    /\ GoesTo(t, "error")
    /\ UNCHANGED <<nvfb, is_row_done, fbr, cdef_mt_exit, row, released, done, outcome>>

RaiseExit(t) ==
    /\ pc[t] = "error"
    /\ cdef_mt_exit' = TRUE
    /\ GoesTo(t, "release")
    /\ UNCHANGED <<nvfb, is_row_done, fbr, row, released, done, errors, outcome>>

\* set_cdef_init_fb_row_done, one row after the other; the hook returns 0
Release(t) ==
    /\ pc[t] = "release"
    /\ SetRowDone(t, released[t], IF released[t] + 1 = nvfb THEN "failed" ELSE "release")
    /\ released' = [released EXCEPT ![t] = @ + 1]
    /\ UNCHANGED <<nvfb, fbr, cdef_mt_exit, row, done, errors, outcome>>

Spurious(t) ==
    /\ pc[t] = "asleep"
    /\ GoesTo(t, "read")
    /\ UNCHANGED <<nvfb, is_row_done, fbr, cdef_mt_exit, row, released, done, errors,
                   outcome>>

\* sync_cdef_workers; the locals of the hooks are gone
Join ==
    /\ outcome = "busy"
    /\ \A t \in Workers : pc[t] \in {"returned", "failed"}
    /\ outcome' = IF \E t \in Workers : pc[t] = "failed" THEN "error" ELSE "ok"
    /\ row' = Zeros
    /\ UNCHANGED <<nvfb, is_row_done, fbr, cdef_mt_exit, pc, released, done, errors>>

\* av1_alloc_cdef_buffers: new row objects when the height changes, else the old
RowObjects(n) == IF n = nvfb THEN is_row_done ELSE [r \in RowIds(n) |-> 0]

\* av1_cdef_frame_mt: reset_cdef_job_info does not touch the row objects
Start ==
    /\ nvfb' \in Heights
    /\ is_row_done' = RowObjects(nvfb')
    /\ fbr' = 0 /\ cdef_mt_exit' = FALSE
    /\ pc' = [t \in Workers |-> "next"]
    /\ row' = Zeros /\ released' = Zeros
    /\ outcome' = "busy"

Step(t) ==
    \/ NextJob(t) \/ CopyLines(t) \/ SyncWrite(t) \/ SyncRead(t) \/ CheckExit(t) \/ Filter(t)
    \/ RaiseExit(t) \/ Release(t)

Next == (\E t \in Workers : Step(t) \/ Throw(t) \/ Spurious(t)) \/ Join

Spec == Init /\ [][Next]_vars

-----------------------------------------------------------------------------

Places == {"next", "copy", "write", "read", "asleep", "check", "filter", "error", "release",
           "returned", "failed"}
Blocks == {"copy", "cdef"} \X RowIds(nvfb)

TypeOK ==
    /\ nvfb \in Heights
    /\ is_row_done \in [RowIds(nvfb) -> {0, 1}]
    /\ fbr \in 0..nvfb /\ cdef_mt_exit \in BOOLEAN
    /\ pc \in [Workers -> Places]
    /\ \A t \in Workers : pc[t] \notin {"next", "returned", "failed", "error", "release"} => row[t] < nvfb
    /\ \A t \in Workers : released[t] \in 0..nvfb
    /\ outcome \in {"busy", "ok", "error"}

\* A row is filtered after its own lines and those of the row above are copied.
Needs(b) == IF b[1] = "copy" THEN {} ELSE {"copy"} \X {r \in {b[2] - 1, b[2]} : r >= 0}

\* "the worker on a filter block row (fbr) waits for the line buffers (top and
\* bottom) copy of the above row": whoever filters a row, which changes the
\* lines the row above is going to look at, finds them copied; and no row is
\* filtered twice.
WaitsForLineCopy ==
    \A t \in Workers : pc[t] = "filter" =>
        /\ <<"cdef", row[t]>> \notin done
        /\ Needs(<<"cdef", row[t]>>) \subseteq done

\* A frame that is filtered without an error leaves no flag behind that the
\* next frame, of the same height, would take for its own: only the flag of the
\* last row, which no row waits for, stays set.
FlagsConsumed ==
    outcome = "ok" => \A r \in RowIds(nvfb - 1) : is_row_done[r] = 0

=============================================================================
