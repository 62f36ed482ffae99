------------------------------ MODULE DecRowMt ------------------------------
(***************************************************************************)
(* Row-based multithreaded decoding of the tiles of a frame                *)
(* (row_mt_worker_hook of av1/decoder/decodeframe.c).  A worker first      *)
(* parses whole tiles; then workers reconstruct superblock rows that are   *)
(* parsed, each row behind the row above it.  A worker without a row waits *)
(* on one condition variable of the frame, a worker behind another one on  *)
(* the condition variable of the row above.                                *)
(*                                                                         *)
(* A step is one critical section, the parsing of one superblock row or    *)
(* the reconstruction of one superblock.  A behaviour is one frame;        *)
(* FrameMt puts it into frames that follow each other, with their filters. *)
(***************************************************************************)
EXTENDS Integers, Sequences, FiniteSets

CONSTANTS
    NumWorkers,
    TileHeights, TileWidths,    \* in superblocks, of each tile
    ExtraDelay,     \* intrabc_extra_top_right_sb_delay
    MaxErrors       \* bound on the errors of a run

DecRowMtAssumption ==
    /\ NumWorkers \in Nat \ {0}
    /\ TileHeights \in Seq(Nat \ {0}) /\ TileHeights # <<>>
    /\ TileWidths \in [DOMAIN TileHeights -> Nat \ {0}]
    /\ ExtraDelay \in Nat
    /\ MaxErrors \in Nat

Workers == 0..(NumWorkers - 1)
Tiles == DOMAIN TileHeights
RowIds == UNION {{k} \X (0..(TileHeights[k] - 1)) : k \in Tiles}
SyncRange == 1      \* get_sync_range

VARIABLES
    pc,             \* where each worker is
    tile, row, col, \* the superblock it is at, in its tile
    tiles_left,     \* the queue of parse jobs
    parse_done, decode_started, num_threads_working,    \* of each tile
    row_mt_exit,
    cur_sb_col,     \* of each row of each tile
    corrupted,      \* the workers whose data is corrupt
    done,           \* history: <<"parse", tile, row>>, <<"decode", tile, row, column>>
    errors,         \* counter of the run
    outcome         \* "busy", "ok" or "error"

place == <<tile, row, col>>
tileVars == <<tiles_left, parse_done, decode_started, num_threads_working>>
vars == <<pc, place, tileVars, row_mt_exit, cur_sb_col, corrupted, done, errors, outcome>>

Zeros == [t \in Workers |-> 0]
AnyTile == [t \in Workers |-> 1]

Init ==
    /\ pc = [t \in Workers |-> "next_tile"]
    /\ tile = AnyTile /\ row = Zeros /\ col = Zeros
    /\ tiles_left = Tiles
    /\ parse_done = [k \in Tiles |-> 0] /\ decode_started = [k \in Tiles |-> 0]
    /\ num_threads_working = [k \in Tiles |-> 0]
    /\ row_mt_exit = FALSE
    /\ cur_sb_col = [x \in RowIds |-> -1]
    /\ corrupted = {}
    /\ done = {} /\ errors = 0
    /\ outcome = "busy"

GoesTo(t, where) == pc' = [pc EXCEPT ![t] = where]

\* row_mt_cond_: a broadcast, and a signal that wakes one of those who wait
Broadcast(t, where) ==
    pc' = [u \in Workers |-> IF u = t THEN where ELSE IF pc[u] = "waiting" THEN "next_row" ELSE pc[u]]
Signal(t, where) ==
    \/ (\A u \in Workers : pc[u] # "waiting") /\ GoesTo(t, where)
    \/ \E u \in Workers : pc[u] = "waiting" /\ pc' = [pc EXCEPT ![t] = where, ![u] = "next_row"]

-----------------------------------------------------------------------------
\* Parsing.

\* get_dec_job_info: the largest tile first, so any order
TakeTile(t) ==
    /\ pc[t] = "next_tile"
    /\ \/ /\ tiles_left = {}
          /\ GoesTo(t, "next_row")
          /\ UNCHANGED <<tile, row, tiles_left>>
       \/ \E k \in tiles_left :
          /\ tiles_left' = tiles_left \ {k}
          /\ tile' = [tile EXCEPT ![t] = k] /\ row' = [row EXCEPT ![t] = 0]
          /\ GoesTo(t, "enter")
    /\ UNCHANGED <<col, parse_done, decode_started, num_threads_working, row_mt_exit, cur_sb_col,
                   corrupted, done, errors, outcome>>

EnterTile(t) ==
    /\ pc[t] = "enter"
    /\ num_threads_working' = [num_threads_working EXCEPT ![tile[t]] = @ + 1]
    /\ GoesTo(t, "parse")
    /\ UNCHANGED <<place, tiles_left, parse_done, decode_started, row_mt_exit, cur_sb_col,
                   corrupted, done, errors, outcome>>

ParseRow(t) ==
    /\ pc[t] = "parse"
    /\ done' = done \cup {<<"parse", tile[t], row[t]>>}
    /\ GoesTo(t, "signal")
    /\ UNCHANGED <<place, tileVars, row_mt_exit, cur_sb_col, corrupted, errors, outcome>>

\* signal_parse_sb_row_done
ParseRowDone(t) ==
    /\ pc[t] = "signal"
    /\ parse_done' = [parse_done EXCEPT ![tile[t]] = @ + 1]
    /\ row' = [row EXCEPT ![t] = @ + 1]
    /\ Signal(t, IF row[t] + 1 = TileHeights[tile[t]] THEN "leave" ELSE "parse")
    /\ UNCHANGED <<tile, col, tiles_left, decode_started, num_threads_working, row_mt_exit,
                   cur_sb_col, corrupted, done, errors, outcome>>

\* the reader has overflowed, or the bits after the last symbol are wrong
FindCorruption(t) ==
    /\ pc[t] \in {"parse", "leave"} /\ t \notin corrupted
    /\ errors < MaxErrors
    /\ errors' = errors + 1
    /\ corrupted' = corrupted \cup {t}
    /\ GoesTo(t, "leave")
    /\ UNCHANGED <<place, tileVars, row_mt_exit, cur_sb_col, done, outcome>>

LeaveTile(t) ==
    /\ pc[t] = "leave"
    /\ num_threads_working' = [num_threads_working EXCEPT ![tile[t]] = @ - 1]
    /\ GoesTo(t, IF t \in corrupted THEN "corrupt" ELSE "next_tile")
    /\ UNCHANGED <<place, tiles_left, parse_done, decode_started, row_mt_exit, cur_sb_col,
                   corrupted, done, errors, outcome>>

-----------------------------------------------------------------------------
\* Reconstruction.

Sum(f) == LET s[i \in 0..Len(TileHeights)] == IF i = 0 THEN 0 ELSE s[i - 1] + f[i]
          IN s[Len(TileHeights)]
AllStarted == Sum(decode_started) = Sum(TileHeights)

\* get_max_row_mt_workers_per_tile
MaxWorkers(k) == IF TileHeights[k] = 1 THEN 1 ELSE 2

\* A faulty variant: one row too many.
RowsParsedOneMore(k) == parse_done[k] >= decode_started[k]

\* get_next_job_info: of the tiles with a parsed row, those with the fewest
\* threads; of these the one with most left to decode, then the first.
RowsParsed(k) == parse_done[k] > decode_started[k]
Waiting == {k \in Tiles : RowsParsed(k)}
LeftToDecode(k) == (TileHeights[k] - decode_started[k]) * TileWidths[k]
Candidates ==
    {k \in Waiting : /\ \A j \in Waiting : num_threads_working[k] <= num_threads_working[j]
                     /\ num_threads_working[k] < MaxWorkers(k)}
Chosen == {k \in Candidates : \A j \in Candidates \ {k} :
                LeftToDecode(k) > LeftToDecode(j) \/ (LeftToDecode(k) = LeftToDecode(j) /\ k < j)}

\* A faulty variant: the workers that wait are not told that all rows are taken.
TakeRowSilently(t) ==
    /\ pc[t] = "next_row" /\ ~row_mt_exit
    /\ \E k \in Chosen :
        /\ tile' = [tile EXCEPT ![t] = k]
        /\ row' = [row EXCEPT ![t] = decode_started[k]]
        /\ decode_started' = [decode_started EXCEPT ![k] = @ + 1]
        /\ num_threads_working' = [num_threads_working EXCEPT ![k] = @ + 1]
    /\ GoesTo(t, "read")
    /\ col' = [col EXCEPT ![t] = 0]
    /\ UNCHANGED <<tiles_left, parse_done, row_mt_exit, cur_sb_col, corrupted, done, errors, outcome>>

\* with the last row everybody who waits is woken
TakeRow(t) ==
    /\ pc[t] = "next_row" /\ ~row_mt_exit
    /\ \E k \in Chosen :
        /\ tile' = [tile EXCEPT ![t] = k]
        /\ row' = [row EXCEPT ![t] = decode_started[k]]
        /\ decode_started' = [decode_started EXCEPT ![k] = @ + 1]
        /\ num_threads_working' = [num_threads_working EXCEPT ![k] = @ + 1]
    /\ IF AllStarted' THEN Broadcast(t, "read") ELSE GoesTo(t, "read")
    /\ col' = [col EXCEPT ![t] = 0]
    /\ UNCHANGED <<tiles_left, parse_done, row_mt_exit, cur_sb_col, corrupted, done, errors, outcome>>

EndOfFrame(t) ==
    /\ pc[t] = "next_row"
    /\ \/ (AllStarted \/ row_mt_exit) /\ GoesTo(t, "returned")
       \/ ~AllStarted /\ ~row_mt_exit /\ Chosen = {} /\ GoesTo(t, "waiting")
    /\ UNCHANGED <<place, tileVars, row_mt_exit, cur_sb_col, corrupted, done, errors, outcome>>

\* the condition sync_read waits on, negated
RowIs(k, r, c) == c <= cur_sb_col[<<k, r>>] - SyncRange - ExtraDelay

SyncRead(t) ==
    /\ pc[t] = "read"
    /\ GoesTo(t, IF row[t] = 0 \/ RowIs(tile[t], row[t] - 1, col[t]) THEN "check" ELSE "asleep")
    /\ UNCHANGED <<place, tileVars, row_mt_exit, cur_sb_col, corrupted, done, errors, outcome>>

\* after an error the superblock is skipped, but still published
CheckExit(t) ==
    /\ pc[t] = "check"
    /\ GoesTo(t, IF row_mt_exit THEN "write" ELSE "decode")
    /\ UNCHANGED <<place, tileVars, row_mt_exit, cur_sb_col, corrupted, done, errors, outcome>>

Decode(t) ==
    /\ pc[t] = "decode"
    /\ done' = done \cup {<<"decode", tile[t], row[t], col[t]>>}
    /\ GoesTo(t, "write")
    /\ UNCHANGED <<place, tileVars, row_mt_exit, cur_sb_col, corrupted, errors, outcome>>

\* sync_write, whose signal wakes the one worker that may wait for the row
Publish(t, k, r, cur, where) ==
    /\ cur_sb_col' = [cur_sb_col EXCEPT ![<<k, r>>] = cur]
    /\ LET sleepers == {u \in Workers : pc[u] = "asleep" /\ tile[u] = k /\ row[u] = r + 1}
       IN \/ sleepers = {} /\ GoesTo(t, where)
          \/ \E u \in sleepers : pc' = [pc EXCEPT ![t] = where, ![u] = "read"]

AllCols(k) == TileWidths[k] + SyncRange + ExtraDelay

SyncWrite(t) ==
    /\ pc[t] = "write"
    /\ LET k == tile[t]
           last == col[t] = TileWidths[k] - 1
       IN Publish(t, k, row[t], IF last THEN AllCols(k) ELSE col[t],
                  IF last THEN "row_done" ELSE "read")
    /\ col' = [col EXCEPT ![t] = @ + 1]
    /\ UNCHANGED <<tile, row, tileVars, row_mt_exit, corrupted, done, errors, outcome>>

RowDone(t) ==
    /\ pc[t] = "row_done"
    /\ num_threads_working' = [num_threads_working EXCEPT ![tile[t]] = @ - 1]
    /\ GoesTo(t, "next_row")
    /\ UNCHANGED <<place, tiles_left, parse_done, decode_started, row_mt_exit, cur_sb_col,
                   corrupted, done, errors, outcome>>

-----------------------------------------------------------------------------
\* Errors: a jump to the start of the hook, or corrupt data after parsing.

Throw(t) ==
    /\ pc[t] \in {"parse", "decode"}
    /\ errors < MaxErrors
    /\ errors' = errors + 1
    /\ corrupted' = corrupted \cup {t}
    /\ GoesTo(t, "error")
    /\ UNCHANGED <<place, tileVars, row_mt_exit, cur_sb_col, done, outcome>>

RaiseExit(t) ==
    /\ pc[t] \in {"error", "corrupt"}
    /\ row_mt_exit' = TRUE
    /\ Broadcast(t, IF pc[t] = "error" THEN "release" ELSE "failed")
    /\ UNCHANGED <<place, tileVars, cur_sb_col, corrupted, done, errors, outcome>>

\* signal_decoding_done_for_erroneous_row; the hook returns 0
Release(t) ==
    /\ pc[t] = "release"
    /\ Publish(t, tile[t], row[t], AllCols(tile[t]), "failed")
    /\ UNCHANGED <<place, tileVars, row_mt_exit, corrupted, done, errors, outcome>>

Spurious(t) ==
    /\ pc[t] \in {"waiting", "asleep"}
    /\ GoesTo(t, IF pc[t] = "waiting" THEN "next_row" ELSE "read")
    /\ UNCHANGED <<place, tileVars, row_mt_exit, cur_sb_col, corrupted, done, errors, outcome>>

\* sync_dec_workers; the locals of the hooks are gone
Join ==
    /\ outcome = "busy"
    /\ \A t \in Workers : pc[t] \in {"returned", "failed"}
    /\ outcome' = IF corrupted = {} THEN "ok" ELSE "error"
    /\ tile' = AnyTile /\ row' = Zeros /\ col' = Zeros
    /\ UNCHANGED <<pc, tileVars, row_mt_exit, cur_sb_col, corrupted, done, errors>>

\* tile_mt_queue and row_mt_frame_init
Start ==
    /\ pc' = [t \in Workers |-> "next_tile"]
    /\ tile' = AnyTile /\ row' = Zeros /\ col' = Zeros
    /\ tiles_left' = Tiles
    /\ parse_done' = [k \in Tiles |-> 0] /\ decode_started' = [k \in Tiles |-> 0]
    /\ num_threads_working' = [k \in Tiles |-> 0]
    /\ row_mt_exit' = FALSE
    /\ cur_sb_col' = [x \in RowIds |-> -1]
    /\ corrupted' = {}
    /\ outcome' = "busy"

Step(t) ==
    \/ TakeTile(t) \/ EnterTile(t) \/ ParseRow(t) \/ ParseRowDone(t) \/ LeaveTile(t)
    \/ TakeRow(t) \/ EndOfFrame(t) \/ SyncRead(t) \/ CheckExit(t) \/ Decode(t) \/ SyncWrite(t)
    \/ RowDone(t) \/ RaiseExit(t) \/ Release(t)

Next ==
    \/ \E t \in Workers : Step(t) \/ FindCorruption(t) \/ Throw(t) \/ Spurious(t)
    \/ Join

Spec == Init /\ [][Next]_vars

-----------------------------------------------------------------------------

Places == {"next_tile", "enter", "parse", "signal", "leave", "corrupt", "next_row", "waiting",
           "read", "asleep", "check", "decode", "write", "row_done", "error", "release",
           "returned", "failed"}
Blocks == UNION {{<<"parse", x[1], x[2]>>} \cup
                 {<<"decode", x[1], x[2], c>> : c \in 0..(TileWidths[x[1]] - 1)} : x \in RowIds}

TypeOK ==
    /\ pc \in [Workers -> Places]
    /\ \A t \in Workers : /\ tile[t] \in Tiles /\ row[t] \in 0..TileHeights[tile[t]]
                          /\ pc[t] \in {"read", "asleep", "check", "decode", "write"} =>
                                col[t] \in 0..(TileWidths[tile[t]] - 1)
    /\ tiles_left \subseteq Tiles
    /\ \A k \in Tiles : /\ {parse_done[k], decode_started[k]} \subseteq 0..TileHeights[k]
                        /\ num_threads_working[k] \in 0..NumWorkers
    /\ row_mt_exit \in BOOLEAN
    /\ \A x \in RowIds : cur_sb_col[x] \in -1..AllCols(x[1])
    /\ corrupted \subseteq Workers
    /\ outcome \in {"busy", "ok", "error"}

\* The assertion of get_next_job_info, tile by tile; and no two workers are in
\* the same row, so that the signal of sync_write reaches all who wait.
InRow == {"read", "asleep", "check", "decode", "write", "row_done"}
RowsAreTakenOnce ==
    /\ \A k \in Tiles : decode_started[k] <= parse_done[k]
    /\ \A t, u \in Workers :
        (t # u /\ pc[t] \in InRow /\ pc[u] \in InRow) => <<tile[t], row[t]>> # <<tile[u], row[u]>>

\* A superblock is reconstructed from its parsed row, from the superblocks to
\* its left, and from the row above as far as intra prediction and intra block
\* copy reach.
Needs(b) ==
    IF b[1] = "parse" THEN {"parse"} \X {b[2]} \X (0..(b[3] - 1))
    ELSE LET k == b[2]  r == b[3]  c == b[4]
             reach == {x \in 0..(TileWidths[k] - 1) : x <= c + 1 + ExtraDelay}
         IN {<<"parse", k, r>>} \cup {<<"decode", k, r, x>> : x \in 0..(c - 1)} \cup
            (IF r = 0 THEN {} ELSE {<<"decode", k, r - 1, x>> : x \in reach})

=============================================================================
