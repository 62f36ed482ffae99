--------------------------- MODULE EncRowMtProofs ---------------------------
(***************************************************************************)
(* Proofs about EncRowMt, for every tile layout, number of workers, planes *)
(* and errors: the properties the run row_mt checks, except that frames    *)
(* end, and that the workers implement Wavefront.                          *)
(*                                                                         *)
(* The invariant IInv is a conjunction of named parts.  The steps of a     *)
(* worker are first reduced to a few kinds (WorkerStep), stated point by   *)
(* point; each part has a lemma that these kinds of steps keep it.  What   *)
(* makes the properties inductive is                                       *)
(*   - that a worker which has been let past the row above finds it        *)
(*     encoded until it has used it (CountsAreTrue, AboveIsReady), since   *)
(*     the counts lie only after row_mt_exit is set (ExitMeans), and the   *)
(*     flag is looked at in between;                                       *)
(*   - that num_tile_cols_done counts tiles whose row is over (DoneIsOver) *)
(*     of which a row of the frame has at most NumTileCols (TilesAtRow);   *)
(*   - that no worker gives up looking for rows while a tile has rows and  *)
(*     no worker (NobodyLeavesWork), which rests on num_threads_working    *)
(*     counting the workers of a tile (ThreadsAreCounted).                 *)
(* A second invariant, LfInv, is about the filter, with kinds of steps of  *)
(* its own (LfStep): the columns that are published are filtered until     *)
(* lf_mt_exit is set (EdgesAreTrue); who filters horizontally has seen     *)
(* that far, and looked at the flag since (EdgesAreSeen); and a job that   *)
(* was handed out is done or somebody's, until row_mt_exit lets workers    *)
(* give jobs up (JobsAreCovered).                                          *)
(***************************************************************************)
EXTENDS EncRowMt, TLAPS, FiniteSetTheorems

-----------------------------------------------------------------------------
\* Tiles.

\* FS_Subset, in a form the provers instantiate.
LEMMA SubsetSize ==
  ASSUME NEW S, NEW T, IsFiniteSet(S), T \subseteq S
  PROVE  /\ IsFiniteSet(T) /\ Cardinality(T) <= Cardinality(S)
         /\ Cardinality(T) = Cardinality(S) => T = S
BY FS_Subset

\* A tile index is a tile row and a tile column.
LEMMA TileIndex ==
  ASSUME NEW H \in Nat \ {0}, NEW W \in Nat \ {0}, NEW k \in 0..(H * W - 1)
  PROVE  /\ k \div W \in 0..(H - 1) /\ k % W \in 0..(W - 1)
         /\ k = W * (k \div W) + (k % W)
<1>1. k \in Int
  OBVIOUS
<1>2. k % W \in 0..(W - 1) /\ k \div W \in Int /\ k \div W >= 0
  BY <1>1
<1>3. k = W * (k \div W) + (k % W)
  BY <1>1
<1>4. ASSUME k \div W >= H PROVE FALSE
  <2> DEFINE q == k \div W
  <2>1. q \in Int /\ q - H \in Nat
    BY <1>2, <1>4
  <2> HIDE DEF q
  <2>2. W * q = W * H + W * (q - H) /\ W * (q - H) >= 0
    BY <2>1
  <2> QED BY <1>2, <1>3, <2>1, <2>2 DEF q
<1> QED BY <1>2, <1>3, <1>4

\* The starts of a division into tiles grow, from 0.
LEMMA Cuts ==
  ASSUME NEW st \in Seq(Nat), CutsAll(st)
  PROVE  /\ Len(st) \in Nat /\ Len(st) > 1 /\ Len(st) - 1 \in Nat \ {0} /\ st[1] = 0
         /\ \A i \in 1..Len(st) : st[i] \in Nat
         /\ \A i, j \in 1..Len(st) : i < j => st[i] < st[j]
BY DEF CutsAll

\* A number lies in one of the pieces only.
LEMMA OnePiece ==
  ASSUME NEW st \in Seq(Nat), CutsAll(st),
         NEW a \in 1..(Len(st) - 1), NEW b \in 1..(Len(st) - 1), NEW r \in Nat,
         st[a] <= r, r < st[a + 1], st[b] <= r, r < st[b + 1]
  PROVE  a = b
<1>1. Len(st) \in Nat
  OBVIOUS
<1>2. a \in 1..Len(st) /\ b \in 1..Len(st) /\ a + 1 \in 1..Len(st) /\ b + 1 \in 1..Len(st)
  BY <1>1
<1>3. st[a] \in Nat /\ st[b] \in Nat /\ st[a + 1] \in Nat /\ st[b + 1] \in Nat
  BY <1>2, Cuts
<1>4. ASSUME a < b PROVE FALSE
  <2>1. a + 1 = b \/ st[a + 1] < st[b]
    BY <1>2, <1>4, Cuts
  <2> QED BY <1>3, <2>1
<1>5. ASSUME b < a PROVE FALSE
  <2>1. b + 1 = a \/ st[b + 1] < st[a]
    BY <1>2, <1>5, Cuts
  <2> QED BY <1>3, <2>1
<1> QED BY <1>4, <1>5

\* What a tile layout is made of.
LEMMA SetupParts ==
  ASSUME NEW s \in Setups
  PROVE  /\ s.workers \in Nat \ {0} /\ s.delay \in Nat /\ s.late \in BOOLEAN
         /\ s.row_start_sb \in Seq(Nat) /\ CutsAll(s.row_start_sb)
         /\ s.col_start_sb \in Seq(Nat) /\ CutsAll(s.col_start_sb)
         /\ TileRowsIn(s) \in Nat \ {0} /\ TileColsIn(s) \in Nat \ {0}
<1>1. s \in Setup /\ CutsAll(s.row_start_sb) /\ CutsAll(s.col_start_sb)
  BY EncRowMtAssumption
<1>2. s.row_start_sb \in Seq(Nat) /\ s.col_start_sb \in Seq(Nat)
  BY <1>1 DEF Setup
<1>3. s.workers \in Nat \ {0} /\ s.delay \in Nat /\ s.late \in BOOLEAN
  BY <1>1 DEF Setup
<1>4. TileRowsIn(s) \in Nat \ {0} /\ TileColsIn(s) \in Nat \ {0}
  BY <1>1, <1>2, Cuts DEF TileRowsIn, TileColsIn
<1> QED BY <1>1, <1>2, <1>3, <1>4

\* No tile is empty, and all of them lie in the frame.
LEMMA TileSize ==
  ASSUME NEW s \in Setups, NEW k \in TilesIn(s)
  PROVE  /\ RowsIn(s, k) \in Nat \ {0} /\ ColsIn(s, k) \in Nat \ {0}
         /\ RowStartIn(s, k) \in Nat
         /\ RowStartIn(s, k) + RowsIn(s, k) <= FrameRowsIn(s)
<1> DEFINE q == k \div TileColsIn(s)
           m == k % TileColsIn(s)
           R == s.row_start_sb
           C == s.col_start_sb
<1>1. R \in Seq(Nat) /\ CutsAll(R) /\ C \in Seq(Nat) /\ CutsAll(C)
  BY SetupParts
<1>2. q \in 0..(TileRowsIn(s) - 1) /\ m \in 0..(TileColsIn(s) - 1)
  <2>1. k \in 0..(TileRowsIn(s) * TileColsIn(s) - 1)
    BY DEF TilesIn
  <2> QED BY <2>1, TileIndex, SetupParts
<1>3. q \in 0..(Len(R) - 2) /\ m \in 0..(Len(C) - 2)
  BY <1>1, <1>2 DEF TileRowsIn, TileColsIn
<1> HIDE DEF q, m, R, C
<1>4. Len(R) \in Nat /\ Len(C) \in Nat
  BY <1>1
<1>5. R[q + 1] \in Nat /\ R[q + 2] \in Nat /\ R[q + 1] < R[q + 2] /\ R[Len(R)] \in Nat
      /\ R[q + 2] <= R[Len(R)]
  <2>1. q + 1 \in 1..Len(R) /\ q + 2 \in 1..Len(R) /\ Len(R) \in 1..Len(R)
    BY <1>3, <1>4
  <2>2. R[q + 1] \in Nat /\ R[q + 2] \in Nat /\ R[q + 1] < R[q + 2] /\ R[Len(R)] \in Nat
    BY <1>1, <1>3, <2>1, Cuts
  <2>3. q + 2 = Len(R) \/ R[q + 2] < R[Len(R)]
    BY <1>1, <1>3, <1>4, <2>1, Cuts
  <2> QED BY <2>2, <2>3
<1>6. C[m + 1] \in Nat /\ C[m + 2] \in Nat /\ C[m + 1] < C[m + 2]
  <2>1. m + 1 \in 1..Len(C) /\ m + 2 \in 1..Len(C)
    BY <1>3, <1>4
  <2> QED BY <1>1, <1>3, <2>1, Cuts
<1>7. FrameRowsIn(s) = R[Len(R)]
  BY DEF FrameRowsIn, R
<1>8. RowStartIn(s, k) = R[q + 1] /\ RowsIn(s, k) = R[q + 2] - R[q + 1]
      /\ ColsIn(s, k) = C[m + 2] - C[m + 1] /\ s.row_start_sb = R
  BY DEF RowsIn, ColsIn, RowStartIn, q, m, R, C
<1>9. RowsIn(s, k) \in Nat \ {0} /\ ColsIn(s, k) \in Nat \ {0}
  BY <1>5, <1>6, <1>8, SMTT(30)
<1>10. RowStartIn(s, k) + RowsIn(s, k) = R[q + 2]
  BY <1>5, <1>8
<1> QED BY <1>5, <1>7, <1>8, <1>9, <1>10

\* The tiles of a row of the frame are those of one tile row.
TilesAt(s, r) == {k \in TilesIn(s) : r \in RowStartIn(s, k)..(RowStartIn(s, k) + RowsIn(s, k) - 1)}

\* They are at most as many as the tile columns: num_tile_cols_done cannot count more.
LEMMA TilesAtRow ==
  ASSUME NEW s \in Setups, NEW r \in Nat
  PROVE  IsFiniteSet(TilesAt(s, r)) /\ Cardinality(TilesAt(s, r)) <= TileColsIn(s)
<1> DEFINE W == TileColsIn(s)
           q(k) == k \div W
<1>1. W \in Nat \ {0} /\ TileRowsIn(s) \in Nat \ {0}
  BY SetupParts
<1>2. \A k \in TilesIn(s) : q(k) \in 0..(TileRowsIn(s) - 1) /\ k \in (W * q(k))..(W * q(k) + W - 1)
  <2> TAKE k \in TilesIn(s)
  <2>1. k \in 0..(TileRowsIn(s) * W - 1)
    BY DEF TilesIn
  <2>2. k \div W \in 0..(TileRowsIn(s) - 1) /\ k % W \in 0..(W - 1) /\ k = W * (k \div W) + (k % W)
    BY <1>1, <2>1, TileIndex
  <2> QED BY <1>1, <2>2
<1>3. ASSUME NEW j \in TilesAt(s, r), NEW k \in TilesAt(s, r) PROVE q(j) = q(k)
  <2> DEFINE R == s.row_start_sb
  <2>1. j \in TilesIn(s) /\ k \in TilesIn(s)
    BY DEF TilesAt
  <2>2. R \in Seq(Nat) /\ CutsAll(R)
    BY SetupParts
  <2>3. q(j) \in Nat /\ q(k) \in Nat /\ q(j) + 1 \in 1..(Len(R) - 1) /\ q(k) + 1 \in 1..(Len(R) - 1)
    BY <1>2, <2>1, <2>2, SMTT(30) DEF TileRowsIn
  <2>4. Len(R) \in Nat
    BY <2>2
  <2>5. /\ R[q(j) + 1] \in Nat /\ R[q(j) + 2] \in Nat
        /\ R[q(k) + 1] \in Nat /\ R[q(k) + 2] \in Nat
    <3>1. /\ q(j) + 1 \in 1..Len(R) /\ q(j) + 2 \in 1..Len(R)
          /\ q(k) + 1 \in 1..Len(R) /\ q(k) + 2 \in 1..Len(R)
      BY <2>3, <2>4, SMTT(30)
    <3> QED BY <2>2, <3>1, Cuts
  <2>6. /\ r \in R[q(j) + 1]..(R[q(j) + 1] + (R[q(j) + 2] - R[q(j) + 1]) - 1)
        /\ r \in R[q(k) + 1]..(R[q(k) + 1] + (R[q(k) + 2] - R[q(k) + 1]) - 1)
    BY DEF TilesAt, RowsIn, RowStartIn
  <2> HIDE DEF q, R
  <2>7. R[q(j) + 1] <= r /\ r < R[q(j) + 2] /\ R[q(k) + 1] <= r /\ r < R[q(k) + 2]
    BY <2>5, <2>6
  <2>8. (q(j) + 1) + 1 = q(j) + 2 /\ (q(k) + 1) + 1 = q(k) + 2
    BY <2>3
  <2>9. q(j) + 1 = q(k) + 1
    BY <2>2, <2>3, <2>7, <2>8, OnePiece
  <2> QED BY <2>3, <2>9
<1>4. CASE TilesAt(s, r) = {}
  BY <1>1, <1>4, FS_EmptySet
<1>5. CASE TilesAt(s, r) # {}
  <2>1. PICK k \in TilesAt(s, r) : TRUE
    BY <1>5
  <2>2. k \in TilesIn(s)
    BY DEF TilesAt
  <2>3. W * q(k) \in Int /\ W * q(k) + W - 1 \in Int
    BY <1>1, <1>2, <2>2
  <2>4. TilesAt(s, r) \subseteq (W * q(k))..(W * q(k) + W - 1)
    <3> SUFFICES ASSUME NEW j \in TilesAt(s, r) PROVE j \in (W * q(k))..(W * q(k) + W - 1)
      OBVIOUS
    <3>1. q(j) = q(k) /\ j \in TilesIn(s)
      BY <1>3, <2>1 DEF TilesAt
    <3> QED BY <1>2, <3>1
  <2> HIDE DEF q, W
  <2>5. /\ IsFiniteSet((W * q(k))..(W * q(k) + W - 1))
        /\ Cardinality((W * q(k))..(W * q(k) + W - 1)) = W
    BY <1>1, <2>3, FS_Interval
  <2>6. IsFiniteSet(TilesAt(s, r)) /\ Cardinality(TilesAt(s, r)) <= W
    BY <2>4, <2>5, SubsetSize
  <2> QED BY <2>6 DEF W
<1> QED BY <1>4, <1>5

-----------------------------------------------------------------------------
\* The inductive invariant.

LfHorzPlaces == {"lf_above", "lf_asleep_above", "lf_own", "lf_asleep_own", "lf_check", "lf_horz"}
LfWork == {"lf_vert", "lf_write"} \cup LfHorzPlaces
LfPlaces == {"lf_wait", "lf_asleep"} \cup LfWork

Shapes ==
    /\ setup \in Setups
    /\ pc \in [Workers -> Places] /\ tile \in [Workers -> Tiles]
    /\ row \in [Workers -> Nat] /\ col \in [Workers -> Nat]
    /\ lf_job \in [Workers -> Nat] /\ lf_col \in [Workers -> Nat]
    /\ next_row \in [Tiles -> Nat] /\ num_threads_working \in [Tiles -> Int]
    /\ num_finished_cols \in [RowIds -> Int]
    /\ num_tile_cols_done \in [0..(FrameRows - 1) -> Nat]
    /\ row_mt_exit \in BOOLEAN /\ lf_mt_exit \in BOOLEAN /\ jobs_dequeued \in Nat
    /\ encoded \subseteq Superblocks /\ outcome \in {"busy", "ok", "error"}

\* A worker stays in its tile, and in a row that was handed out.
WorkerPlace ==
    \A u \in Workers :
        /\ row[u] < RowsOf(tile[u]) /\ col[u] <= ColsOf(tile[u])
        /\ pc[u] \in InRow \ {"row_done"} => col[u] < ColsOf(tile[u])
        /\ pc[u] \in InRow => row[u] < next_row[tile[u]]
        /\ pc[u] \in {"asleep_late", "finish"} => setup.late

QueuePlace == \A k \in Tiles : next_row[k] <= RowsOf(k)

ExitMeans == row_mt_exit <=> \E u \in Workers : pc[u] \in {"release", "lf_release", "failed"}

\* Until a worker fails, the columns a row has finished are encoded.
CountsAreTrue ==
    \A k \in Tiles : \A r \in 0..(RowsOf(k) - 1) :
        /\ num_finished_cols[<<k, r>>] \in -1..Done(k)
        /\ ~row_mt_exit => \A c \in 0..(ColsOf(k) - 1) :
               c <= num_finished_cols[<<k, r>>] => <<k, r, c>> \in encoded

\* What a worker has passed in its row is encoded.
RowSoFar ==
    \A u \in Workers :
        /\ (pc[u] \in InRow /\ ~Spoilt) => \A c \in 0..(col[u] - 1) : <<tile[u], row[u], c>> \in encoded
        /\ (pc[u] = "write" /\ ~Spoilt) => <<tile[u], row[u], col[u]>> \in encoded
        /\ (pc[u] = "row_done" /\ ~row_mt_exit) => col[u] = ColsOf(tile[u])

\* What a worker waited for stays true until it has used it.
AboveEncoded(u) ==
    row[u] = 0 \/ \A c \in 0..(ColsOf(tile[u]) - 1) :
                     c <= col[u] + 1 + setup.delay => <<tile[u], row[u] - 1, c>> \in encoded
AboveIsReady ==
    \A u \in Workers :
        /\ (pc[u] = "check" /\ ~setup.late /\ ~row_mt_exit) => AboveEncoded(u)
        /\ (pc[u] = "encode" /\ ~setup.late) => AboveEncoded(u)
        /\ (pc[u] = "finish" /\ ~row_mt_exit) => AboveEncoded(u)

RowComplete(k, r) == \A c \in 0..(ColsOf(k) - 1) : <<k, r, c>> \in encoded

\* Until a worker fails, a row that was handed out is complete or somebody's.
RowsAreCovered ==
    ~row_mt_exit => \A k \in Tiles : \A r \in 0..(next_row[k] - 1) :
        RowComplete(k, r) \/ \E u \in Workers : tile[u] = k /\ row[u] = r /\ pc[u] \in InRow \cup {"error"}

\* Whoever stops encoding leaves no tile behind that has rows and nobody to take them.
Attended == InRow \cup {"fetch", "error"}
Gone == {"lf_get", "returned"} \cup LfPlaces
NobodyLeavesWork ==
    (~row_mt_exit /\ \E u \in Workers : pc[u] \in Gone) =>
        \A k \in Tiles : next_row[k] < RowsOf(k) => \E u \in Workers : tile[u] = k /\ pc[u] \in Attended

\* num_threads_working counts the workers in a tile, and those that failed in it.
WorkersOf(k) == {u \in Workers : tile[u] = k /\ pc[u] \in InRow}
LostTo(k) == {u \in Workers : tile[u] = k /\ pc[u] \in InRow \cup {"error", "release", "lf_release", "failed"}}
ThreadsAreCounted ==
    \A k \in Tiles : /\ Cardinality(WorkersOf(k)) <= num_threads_working[k]
                     /\ num_threads_working[k] <= Cardinality(LostTo(k))

\* num_tile_cols_done counts tiles whose row is over: complete, or given up.
Over(k, r) ==
    /\ r < next_row[k]
    /\ \A u \in Workers : ~(pc[u] \in InRow /\ tile[u] = k /\ row[u] = r)
    /\ row_mt_exit \/ RowComplete(k, r)
OverAt(r) == {k \in TilesAt(setup, r) : Over(k, r - RowStart(k))}
DoneIsOver == \A r \in 0..(FrameRows - 1) : num_tile_cols_done[r] <= Cardinality(OverAt(r))

FilterReady ==
    \A u \in Workers : pc[u] \in LfWork =>
        \A r \in {LfRow(u), LfRow(u) + 1} : \A k \in TilesAt(setup, r) : RowComplete(k, r - RowStart(k))

FrameIsOver == outcome # "busy" => \A u \in Workers : pc[u] \in {"returned", "failed"}

EncodingIsTrue ==
    /\ outcome = "ok" => encoded = Superblocks
    /\ outcome # "busy" => (outcome = "error" <=> row_mt_exit)

IInv ==
    /\ Shapes /\ WorkerPlace /\ QueuePlace /\ ExitMeans /\ RowsAreDisjoint
    /\ CountsAreTrue /\ RowSoFar /\ AboveIsReady /\ RowsAreCovered
    /\ ThreadsAreCounted /\ NobodyLeavesWork /\ DoneIsOver /\ FilterReady
    /\ FrameIsOver /\ EncodingIsTrue

-----------------------------------------------------------------------------
\* What the steps of a worker do, point by point.  The parts of the invariant
\* are proved from these kinds of steps instead of from the actions.

\* Another worker keeps its place, or is woken.
Stirs(from, to) ==
    \/ to = from
    \/ from = "asleep" /\ to = "read"
    \/ from = "asleep_late" /\ to = "encode"
    \/ from = "lf_asleep" /\ to = "lf_wait"
    \/ from = "lf_asleep_above" /\ to = "lf_above"
    \/ from = "lf_asleep_own" /\ to = "lf_own"
OthersStay(t) ==
    \A u \in Workers \ {t} :
        /\ tile'[u] = tile[u] /\ row'[u] = row[u] /\ col'[u] = col[u]
        /\ lf_job'[u] = lf_job[u] /\ lf_col'[u] = lf_col[u]
        /\ Stirs(pc[u], pc'[u])

Route(t) ==
    \/ pc[t] = "start" /\ pc'[t] \in {"fetch", "error"}
    \/ pc[t] = "fetch" /\ row_mt_exit /\ pc'[t] = "returned"
    \/ pc[t] = "fetch" /\ ~HasJob(tile[t]) /\ Eligible = {} /\ pc'[t] \in {"lf_get", "returned"}
    \/ pc[t] = "read" /\ pc'[t] = "asleep"
    \/ pc[t] = "read" /\ RowAboveIs(t, ReadColumn(t)) /\ pc'[t] = "check"
    \/ pc[t] = "check" /\ row_mt_exit /\ pc'[t] = "row_done"
    \/ pc[t] = "check" /\ ~row_mt_exit /\ pc'[t] = "encode"
    \/ pc[t] = "encode" /\ setup.late /\ RowAboveIs(t, col[t]) /\ pc'[t] = "finish"
    \/ pc[t] = "encode" /\ setup.late /\ pc'[t] = "asleep_late"
    \/ pc[t] \in {"encode", "finish"} /\ pc'[t] = "error"
    \/ pc[t] = "release" /\ pc'[t] \in {"lf_release", "failed"}
    \/ pc[t] = "lf_release" /\ pc'[t] \in {"lf_release", "failed"}
    \/ pc[t] = "lf_get" /\ pc'[t] \in {"returned", "lf_wait"}
    \/ pc[t] = "lf_wait" /\ pc'[t] \in {"returned", "lf_asleep"}
    \/ /\ pc[t] = "lf_wait" /\ pc'[t] \in LfWork /\ ~row_mt_exit
       /\ RowEncoded(LfRow(t)) /\ RowEncoded(NextLfRow(t))
    \/ pc[t] \in LfWork /\ pc'[t] \in LfWork \cup {"lf_get"}
    \/ pc[t] = "asleep" /\ pc'[t] = "read"
    \/ pc[t] = "asleep_late" /\ pc'[t] = "encode"
    \/ pc[t] = "lf_asleep" /\ pc'[t] = "lf_wait"

\* a step that changes little more than the place of its worker
Walks(t) ==
    /\ OthersStay(t) /\ Route(t)
    /\ pc[t] \in LfPlaces => lf_job'[t] = lf_job[t]
    /\ UNCHANGED <<tile, row, col, queueVars, num_finished_cols, num_tile_cols_done,
                   row_mt_exit, encoded, outcome>>

Takes(t, k) ==
    /\ OthersStay(t) /\ pc[t] = "fetch" /\ pc'[t] = "read" /\ ~row_mt_exit
    /\ next_row[k] < RowsOf(k) /\ (k = tile[t] \/ ~HasJob(tile[t]))
    /\ tile'[t] = k /\ row'[t] = next_row[k] /\ col'[t] = 0
    /\ next_row'[k] = next_row[k] + 1
    /\ num_threads_working'[k] = num_threads_working[k] + 1
    /\ \A j \in Tiles \ {k} : next_row'[j] = next_row[j] /\ num_threads_working'[j] = num_threads_working[j]
    /\ UNCHANGED <<num_finished_cols, num_tile_cols_done, row_mt_exit, encoded, outcome>>

Encodes(t) ==
    /\ OthersStay(t) /\ pc'[t] = "write"
    /\ pc[t] = (IF setup.late THEN "finish" ELSE "encode")
    /\ encoded' = IF Spoilt THEN encoded ELSE encoded \cup {<<tile[t], row[t], col[t]>>}
    /\ UNCHANGED <<tile, row, col, queueVars, num_finished_cols, num_tile_cols_done,
                   row_mt_exit, outcome>>

\* av1_row_mt_sync_write on row r of tile k
Raised(k, r, cur) ==
    /\ num_finished_cols'[<<k, r>>] = Max2(num_finished_cols[<<k, r>>], cur)
    /\ \A x \in RowIds \ {<<k, r>>} : num_finished_cols'[x] = num_finished_cols[x]

Writes(t) ==
    /\ OthersStay(t) /\ pc[t] = "write"
    /\ tile'[t] = tile[t] /\ row'[t] = row[t] /\ col'[t] = col[t] + 1
    /\ \/ /\ col[t] = ColsOf(tile[t]) - 1 /\ pc'[t] = "row_done"
          /\ Raised(tile[t], row[t], Done(tile[t]))
       \/ /\ col[t] # ColsOf(tile[t]) - 1 /\ pc'[t] = "read"
          /\ Raised(tile[t], row[t], col[t])
    /\ UNCHANGED <<queueVars, num_tile_cols_done, row_mt_exit, encoded, outcome>>

EndsRow(t) ==
    /\ OthersStay(t) /\ pc[t] = "row_done" /\ pc'[t] = "fetch"
    /\ num_threads_working'[tile[t]] = num_threads_working[tile[t]] - 1
    /\ \A j \in Tiles \ {tile[t]} : num_threads_working'[j] = num_threads_working[j]
    /\ num_tile_cols_done'[RowStart(tile[t]) + row[t]] = num_tile_cols_done[RowStart(tile[t]) + row[t]] + 1
    /\ \A r \in (0..(FrameRows - 1)) \ {RowStart(tile[t]) + row[t]} :
           num_tile_cols_done'[r] = num_tile_cols_done[r]
    /\ UNCHANGED <<tile, row, col, next_row, num_finished_cols, row_mt_exit, encoded, outcome>>

RaisesExit(t) ==
    /\ OthersStay(t) /\ pc[t] = "error" /\ pc'[t] = "release" /\ row_mt_exit'
    /\ UNCHANGED <<tile, row, col, queueVars, num_finished_cols, num_tile_cols_done,
                   encoded, outcome>>

Releases(t) ==
    /\ OthersStay(t) /\ pc[t] = "release" /\ pc'[t] = "release"
    /\ \E x \in RowIds : Raised(x[1], x[2], Done(x[1]))
    /\ UNCHANGED <<tile, row, col, queueVars, num_tile_cols_done, row_mt_exit,
                   encoded, outcome>>

WorkerStep(t) ==
    \/ Walks(t) \/ (\E k \in Tiles : Takes(t, k)) \/ Encodes(t) \/ Writes(t)
    \/ EndsRow(t) \/ RaisesExit(t) \/ Releases(t)

\* A superblock of a tile is a superblock of the frame, and there are no others.
LEMMA InTile ==
  ASSUME NEW s \in Setups, NEW k \in TilesIn(s), NEW r \in 0..(RowsIn(s, k) - 1)
  PROVE  /\ <<k, r>> \in RowIdsIn(s)
         /\ \A c \in 0..(ColsIn(s, k) - 1) : <<k, r, c>> \in SuperblocksIn(s)
<1>1. <<k, r>> \in RowIdsIn(s)
  BY DEF RowIdsIn
<1>2. ASSUME NEW c \in 0..(ColsIn(s, k) - 1) PROVE <<k, r, c>> \in SuperblocksIn(s)
  <2> DEFINE x == <<k, r>>
  <2>1. x[1] = k /\ x[2] = r
    OBVIOUS
  <2>2. <<k, r, c>> \in {<<x[1], x[2], e>> : e \in 0..(ColsIn(s, x[1]) - 1)}
    BY <2>1
  <2> QED BY <1>1, <2>2 DEF SuperblocksIn
<1> QED BY <1>1, <1>2

\* The parts of a row and of a superblock.
LEMMA OfTile ==
  ASSUME NEW s \in Setups
  PROVE  /\ \A x \in RowIdsIn(s) : x[1] \in TilesIn(s) /\ x[2] \in 0..(RowsIn(s, x[1]) - 1) /\ x = <<x[1], x[2]>>
         /\ \A b \in SuperblocksIn(s) : /\ b[1] \in TilesIn(s) /\ b[2] \in 0..(RowsIn(s, b[1]) - 1)
                                       /\ b[3] \in 0..(ColsIn(s, b[1]) - 1) /\ b = <<b[1], b[2], b[3]>>
<1>1. ASSUME NEW x \in RowIdsIn(s)
      PROVE  x[1] \in TilesIn(s) /\ x[2] \in 0..(RowsIn(s, x[1]) - 1) /\ x = <<x[1], x[2]>>
  <2>1. PICK k \in TilesIn(s) : x \in {k} \X (0..(RowsIn(s, k) - 1))
    BY DEF RowIdsIn
  <2> QED BY <2>1
<1>2. ASSUME NEW b \in SuperblocksIn(s)
      PROVE  /\ b[1] \in TilesIn(s) /\ b[2] \in 0..(RowsIn(s, b[1]) - 1)
             /\ b[3] \in 0..(ColsIn(s, b[1]) - 1) /\ b = <<b[1], b[2], b[3]>>
  <2>1. PICK x \in RowIdsIn(s) : b \in {<<x[1], x[2], c>> : c \in 0..(ColsIn(s, x[1]) - 1)}
    BY DEF SuperblocksIn
  <2>2. PICK c \in 0..(ColsIn(s, x[1]) - 1) : b = <<x[1], x[2], c>>
    BY <2>1
  <2> QED BY <1>1, <2>2
<1> QED BY <1>1, <1>2

\* The numbers of a tile and of the frame.
LEMMA Sizes ==
  ASSUME Shapes
  PROVE  /\ \A k \in Tiles : /\ k \in Nat /\ RowsOf(k) \in Nat \ {0} /\ ColsOf(k) \in Nat \ {0}
                             /\ RowStart(k) \in Nat /\ RowStart(k) + RowsOf(k) <= FrameRows
                             /\ Done(k) \in Nat /\ Done(k) >= ColsOf(k) + 1
         /\ FrameRows \in Nat \ {0} /\ NumTileCols \in Nat \ {0} /\ setup.delay \in Nat
         /\ setup.workers \in Nat \ {0} /\ setup.late \in BOOLEAN /\ NumTiles \in Nat \ {0}
<1>1. setup \in Setups
  BY DEF Shapes
<1>2. /\ setup.delay \in Nat /\ setup.workers \in Nat \ {0} /\ setup.late \in BOOLEAN
      /\ NumTileCols \in Nat \ {0} /\ TileRowsIn(setup) \in Nat \ {0}
  BY <1>1, SetupParts DEF NumTileCols
<1>3. NumTiles \in Nat \ {0}
  BY <1>2 DEF NumTiles
<1>4. FrameRows \in Nat \ {0}
  <2> DEFINE R == setup.row_start_sb
  <2>1. R \in Seq(Nat) /\ CutsAll(R)
    BY <1>1, SetupParts
  <2>2. Len(R) \in Nat /\ Len(R) > 1 /\ R[1] = 0
    BY <2>1, Cuts
  <2>3. FrameRows = R[Len(R)]
    BY DEF FrameRows, FrameRowsIn
  <2> HIDE DEF R
  <2>4. 1 \in 1..Len(R) /\ Len(R) \in 1..Len(R) /\ 1 < Len(R)
    BY <2>2
  <2>5. R[Len(R)] \in Nat /\ R[1] < R[Len(R)]
    BY <2>1, <2>4, Cuts
  <2> QED BY <2>2, <2>3, <2>5
<1>5. ASSUME NEW k \in Tiles
      PROVE  /\ k \in Nat /\ RowsOf(k) \in Nat \ {0} /\ ColsOf(k) \in Nat \ {0}
             /\ RowStart(k) \in Nat /\ RowStart(k) + RowsOf(k) <= FrameRows
             /\ Done(k) \in Nat /\ Done(k) >= ColsOf(k) + 1
  <2>1. k \in Nat
    BY <1>2 DEF Tiles, TilesIn, NumTileCols
  <2>2. /\ RowsOf(k) \in Nat \ {0} /\ ColsOf(k) \in Nat \ {0}
        /\ RowStart(k) \in Nat /\ RowStart(k) + RowsOf(k) <= FrameRows
    BY <1>1, TileSize DEF Tiles, RowsOf, ColsOf, RowStart, FrameRows
  <2> QED BY <1>2, <2>1, <2>2 DEF Done, SyncRange
<1> QED BY <1>2, <1>3, <1>4, <1>5

\* What a new place of one worker, or of two of them, or a broadcast, does to pc.
LEMMA Goes ==
  ASSUME Shapes, NEW t \in Workers, NEW w \in Places, GoesTo(t, w)
  PROVE  pc' \in [Workers -> Places] /\ pc'[t] = w /\ \A u \in Workers \ {t} : pc'[u] = pc[u]
BY DEF Shapes, GoesTo

\* av1_row_mt_sync_write: the worker goes on, sleepers at the row may wake up.
LEMMA GoesAndWakes ==
  ASSUME Shapes, NEW t \in Workers, NEW w \in Places, NEW k \in Tiles, NEW r, NEW cur, <<k, r>> \in RowIds,
         cur \in Int, pc[t] \notin {"asleep", "asleep_late"}, SyncWrite(t, k, r, cur, w)
  PROVE  /\ pc' \in [Workers -> Places] /\ pc'[t] = w
         /\ \A u \in Workers \ {t} : Stirs(pc[u], pc'[u])
         /\ num_finished_cols' \in [RowIds -> Int] /\ Raised(k, r, cur)
<1>1. num_finished_cols' \in [RowIds -> Int] /\ Raised(k, r, cur)
  BY DEF Shapes, SyncWrite, Raised, Max2
<1>2. CASE GoesTo(t, w)
  BY <1>1, <1>2, Goes DEF Stirs
<1>3. ASSUME NEW v \in Workers, SleepsOn(v, k, r),
             pc' = [pc EXCEPT ![t] = w, ![v] = Woken(@)]
      PROVE  pc' \in [Workers -> Places] /\ pc'[t] = w /\ \A u \in Workers \ {t} : Stirs(pc[u], pc'[u])
  <2>1. v # t /\ pc[v] \in {"asleep", "asleep_late"}
    BY <1>3 DEF SleepsOn
  <2>2. pc' = [pc EXCEPT ![t] = w, ![v] = Woken(pc[v])]
    BY <1>3, <2>1
  <2>3. Woken(pc[v]) \in Places /\ Stirs(pc[v], Woken(pc[v]))
    BY <2>1 DEF Woken, Places, Stirs
  <2>4. pc \in [Workers -> Places]
    BY DEF Shapes
  <2>5. pc' \in [Workers -> Places] /\ pc'[t] = w /\ pc'[v] = Woken(pc[v])
    BY <2>1, <2>2, <2>3, <2>4
  <2>6. \A u \in Workers \ {t, v} : pc'[u] = pc[u]
    BY <2>2, <2>4
  <2> QED BY <2>3, <2>5, <2>6 DEF Stirs
<1> QED BY <1>1, <1>2, <1>3 DEF SyncWrite

\* The broadcast for the loop filter: the worker goes on, waiting ones wake up.
LEMMA GoesAndBroadcasts ==
  ASSUME Shapes, NEW t \in Workers, NEW w \in Places, w # "lf_asleep",
         pc' = LfWoken([pc EXCEPT ![t] = w])
  PROVE  pc' \in [Workers -> Places] /\ pc'[t] = w /\ \A u \in Workers \ {t} : Stirs(pc[u], pc'[u])
<1>1. pc \in [Workers -> Places] /\ "lf_wait" \in Places
  BY DEF Shapes, Places
<1> DEFINE p == [pc EXCEPT ![t] = w]
<1>2. p \in [Workers -> Places] /\ p[t] = w /\ \A u \in Workers \ {t} : p[u] = pc[u]
  BY <1>1
<1>3. pc' = [u \in Workers |-> IF p[u] = "lf_asleep" THEN "lf_wait" ELSE p[u]]
  BY DEF LfWoken
<1> HIDE DEF p
<1> QED BY <1>1, <1>2, <1>3 DEF Stirs

\* sync_write of the loop filter: the worker goes on, all sleepers at the row wake up.
LEMMA LfGoesAndWakes ==
  ASSUME Shapes, NEW t \in Workers, NEW w \in Places, NEW x, NEW cur, LfSyncWrite(t, x, cur, w)
  PROVE  pc' \in [Workers -> Places] /\ pc'[t] = w /\ \A u \in Workers \ {t} : Stirs(pc[u], pc'[u])
<1>1. pc \in [Workers -> Places] /\ "lf_above" \in Places /\ "lf_own" \in Places
  BY DEF Shapes, Places
<1>2. pc' = [u \in Workers |-> IF u = t THEN w
                               ELSE IF ~LfSleepsOn(u, x) THEN pc[u]
                               ELSE IF pc[u] = "lf_asleep_above" THEN "lf_above" ELSE "lf_own"]
  BY DEF LfSyncWrite
<1>3. \A u \in Workers : LfSleepsOn(u, x) => pc[u] \in {"lf_asleep_above", "lf_asleep_own"}
  BY DEF LfSleepsOn
<1>4. pc' \in [Workers -> Places] /\ pc'[t] = w
  BY <1>1, <1>2
<1>5. ASSUME NEW u \in Workers \ {t} PROVE Stirs(pc[u], pc'[u])
  <2>1. pc'[u] = IF ~LfSleepsOn(u, x) THEN pc[u]
                 ELSE IF pc[u] = "lf_asleep_above" THEN "lf_above" ELSE "lf_own"
    BY <1>2
  <2> QED BY <1>3, <2>1 DEF Stirs
<1> QED BY <1>4, <1>5

Moves(t) == Step(t) \/ Throw(t) \/ Spurious(t)

\* Every step of the system is of one of these kinds, and keeps the shapes.
LEMMA StepKinds ==
  ASSUME Shapes, WorkerPlace, QueuePlace, Next
  PROVE  /\ setup' = setup /\ Shapes'
         /\ Join \/ StartFrame \/ \E t \in Workers : Moves(t) /\ WorkerStep(t)
<1> USE DEF queueVars, lfVars, runVars
<1> DEFINE Same == /\ setup' = setup
                   /\ UNCHANGED <<tile, row, col, next_row, num_threads_working, num_finished_cols,
                                  num_tile_cols_done, row_mt_exit, encoded, outcome>>
<1>24. ASSUME NEW t \in Workers, pc' \in [Workers -> Places], Same, Route(t),
              \A u \in Workers \ {t} : /\ Stirs(pc[u], pc'[u])
                                        /\ lf_job'[u] = lf_job[u] /\ lf_col'[u] = lf_col[u],
              lf_job' \in [Workers -> Nat], lf_col' \in [Workers -> Nat], jobs_dequeued' \in Nat,
              lf_mt_exit' \in BOOLEAN, pc[t] \in LfPlaces => lf_job'[t] = lf_job[t]
       PROVE  Shapes' /\ Walks(t)
  <2>1. Shapes'
    BY <1>24 DEF Shapes, Workers, Tiles, RowIds, FrameRows, Superblocks
  <2>2. OthersStay(t)
    BY <1>24 DEF OthersStay
  <2> QED BY <1>24, <2>1, <2>2 DEF Walks
<1>1. ASSUME NEW t \in Workers, NEW w \in Places, GoesTo(t, w), Same, Route(t),
             lf_job' = lf_job /\ lf_col' = lf_col, jobs_dequeued' = jobs_dequeued, lf_mt_exit' \in BOOLEAN
      PROVE  Shapes' /\ Walks(t)
  <2>1. pc' \in [Workers -> Places] /\ \A u \in Workers \ {t} : pc'[u] = pc[u]
    BY <1>1, Goes
  <2>2. \A u \in Workers \ {t} : Stirs(pc[u], pc'[u])
    BY <2>1 DEF Stirs
  <2>3. lf_job' \in [Workers -> Nat] /\ lf_col' \in [Workers -> Nat] /\ jobs_dequeued' \in Nat
    BY <1>1 DEF Shapes
  <2> QED BY <1>1, <1>24, <2>1, <2>2, <2>3
<1>2. ASSUME NEW t \in Workers, Start(t) PROVE setup' = setup /\ Shapes' /\ Walks(t)
  <2> DEFINE w == "fetch"
  <2>1. w \in Places
    BY <1>2 DEF Places, Start
  <2>2. GoesTo(t, w) /\ Same /\ lf_job' = lf_job /\ lf_col' = lf_col /\ jobs_dequeued' = jobs_dequeued /\ lf_mt_exit' \in BOOLEAN
    BY <1>2 DEF Start, Shapes
  <2>3. pc'[t] = w
    BY <2>1, <2>2, Goes
  <2>4. Route(t)
    BY <1>2, <2>2, <2>3 DEF Start, Route
  <2> QED BY <1>1, <2>1, <2>2, <2>4
<1>3. ASSUME NEW t \in Workers, StopEncoding(t) PROVE setup' = setup /\ Shapes' /\ Walks(t)
  <2> DEFINE w == IF setup.pipelined /\ ~row_mt_exit THEN "lf_get" ELSE "returned"
  <2>1. w \in Places
    BY <1>3 DEF Places, StopEncoding
  <2>2. GoesTo(t, w) /\ Same /\ lf_job' = lf_job /\ lf_col' = lf_col /\ jobs_dequeued' = jobs_dequeued /\ lf_mt_exit' \in BOOLEAN
    BY <1>3 DEF StopEncoding, Shapes
  <2>3. pc'[t] = w
    BY <2>1, <2>2, Goes
  <2>4. Route(t)
    BY <1>3, <2>2, <2>3 DEF StopEncoding, Route
  <2> QED BY <1>1, <2>1, <2>2, <2>4
<1>4. ASSUME NEW t \in Workers, SyncRead(t) PROVE setup' = setup /\ Shapes' /\ Walks(t)
  <2> DEFINE w == IF RowAboveIs(t, ReadColumn(t)) THEN "check" ELSE "asleep"
  <2>1. w \in Places
    BY <1>4 DEF Places, SyncRead
  <2>2. GoesTo(t, w) /\ Same /\ lf_job' = lf_job /\ lf_col' = lf_col /\ jobs_dequeued' = jobs_dequeued /\ lf_mt_exit' \in BOOLEAN
    BY <1>4 DEF SyncRead, Shapes
  <2>3. pc'[t] = w
    BY <2>1, <2>2, Goes
  <2>4. Route(t)
    BY <1>4, <2>2, <2>3 DEF SyncRead, Route
  <2> QED BY <1>1, <2>1, <2>2, <2>4
<1>5. ASSUME NEW t \in Workers, CheckExit(t) PROVE setup' = setup /\ Shapes' /\ Walks(t)
  <2> DEFINE w == IF row_mt_exit THEN "row_done" ELSE "encode"
  <2>1. w \in Places
    BY <1>5 DEF Places, CheckExit
  <2>2. GoesTo(t, w) /\ Same /\ lf_job' = lf_job /\ lf_col' = lf_col /\ jobs_dequeued' = jobs_dequeued /\ lf_mt_exit' \in BOOLEAN
    BY <1>5 DEF CheckExit, Shapes
  <2>3. pc'[t] = w
    BY <2>1, <2>2, Goes
  <2>4. Route(t)
    BY <1>5, <2>2, <2>3 DEF CheckExit, Route
  <2> QED BY <1>1, <2>1, <2>2, <2>4
<1>6. ASSUME NEW t \in Workers, SyncReadLate(t) PROVE setup' = setup /\ Shapes' /\ Walks(t)
  <2> DEFINE w == IF RowAboveIs(t, col[t]) THEN "finish" ELSE "asleep_late"
  <2>1. w \in Places
    BY <1>6 DEF Places, SyncReadLate
  <2>2. GoesTo(t, w) /\ Same /\ lf_job' = lf_job /\ lf_col' = lf_col /\ jobs_dequeued' = jobs_dequeued /\ lf_mt_exit' \in BOOLEAN
    BY <1>6 DEF SyncReadLate, Shapes
  <2>3. pc'[t] = w
    BY <2>1, <2>2, Goes
  <2>4. Route(t)
    BY <1>6, <2>2, <2>3 DEF SyncReadLate, Route
  <2> QED BY <1>1, <2>1, <2>2, <2>4
<1>7. ASSUME NEW t \in Workers, LfWait(t) PROVE setup' = setup /\ Shapes' /\ Walks(t)
  <2> DEFINE w == IF row_mt_exit THEN "returned"
                     ELSE IF RowEncoded(LfRow(t)) /\ RowEncoded(NextLfRow(t)) THEN LfBegin(t)
                     ELSE "lf_asleep"
  <2>1. w \in Places
    BY <1>7 DEF Places, LfWait, LfBegin
  <2>2. GoesTo(t, w) /\ Same /\ lf_job' = lf_job /\ lf_col' = lf_col /\ jobs_dequeued' = jobs_dequeued /\ lf_mt_exit' \in BOOLEAN
    BY <1>7 DEF LfWait, Shapes
  <2>3. pc'[t] = w
    BY <2>1, <2>2, Goes
  <2>4. Route(t)
    BY <1>7, <2>2, <2>3 DEF LfWait, Route, LfBegin, LfWork, LfHorzPlaces
  <2> QED BY <1>1, <2>1, <2>2, <2>4
<1>8. ASSUME NEW t \in Workers, LfReadAbove(t) PROVE setup' = setup /\ Shapes' /\ Walks(t)
  <2> DEFINE w == IF LfRowIs(LfAbove(t), lf_col[t]) THEN "lf_own" ELSE "lf_asleep_above"
  <2>1. w \in Places
    BY <1>8 DEF Places, LfReadAbove
  <2>2. GoesTo(t, w) /\ Same /\ lf_job' = lf_job /\ lf_col' = lf_col /\ jobs_dequeued' = jobs_dequeued /\ lf_mt_exit' \in BOOLEAN
    BY <1>8 DEF LfReadAbove, Shapes
  <2>3. pc'[t] = w
    BY <2>1, <2>2, Goes
  <2>4. Route(t)
    BY <1>8, <2>2, <2>3 DEF LfReadAbove, Route, LfWork, LfHorzPlaces
  <2> QED BY <1>1, <2>1, <2>2, <2>4
<1>25. ASSUME NEW t \in Workers, LfReadOwn(t) PROVE setup' = setup /\ Shapes' /\ Walks(t)
  <2> DEFINE w == IF LfRowIs(LfOwn(t), lf_col[t]) THEN "lf_check" ELSE "lf_asleep_own"
  <2>1. w \in Places
    BY <1>25 DEF Places, LfReadOwn
  <2>2. GoesTo(t, w) /\ Same /\ lf_job' = lf_job /\ lf_col' = lf_col /\ jobs_dequeued' = jobs_dequeued /\ lf_mt_exit' \in BOOLEAN
    BY <1>25 DEF LfReadOwn, Shapes
  <2>3. pc'[t] = w
    BY <2>1, <2>2, Goes
  <2>4. Route(t)
    BY <1>25, <2>2, <2>3 DEF LfReadOwn, Route, LfWork, LfHorzPlaces
  <2> QED BY <1>1, <2>1, <2>2, <2>4
<1>26. ASSUME NEW t \in Workers, LfCheckExit(t) PROVE setup' = setup /\ Shapes' /\ Walks(t)
  <2> DEFINE w == IF lf_mt_exit THEN "lf_get" ELSE "lf_horz"
  <2>1. w \in Places
    BY <1>26 DEF Places, LfCheckExit
  <2>2. GoesTo(t, w) /\ Same /\ lf_job' = lf_job /\ lf_col' = lf_col /\ jobs_dequeued' = jobs_dequeued /\ lf_mt_exit' \in BOOLEAN
    BY <1>26 DEF LfCheckExit, Shapes
  <2>3. pc'[t] = w
    BY <2>1, <2>2, Goes
  <2>4. Route(t)
    BY <1>26, <2>2, <2>3 DEF LfCheckExit, Route, LfWork, LfHorzPlaces
  <2> QED BY <1>1, <2>1, <2>2, <2>4
<1>27. ASSUME NEW t \in Workers, LfClose(t) PROVE setup' = setup /\ Shapes' /\ Walks(t)
  <2> DEFINE w == "lf_release"
  <2>1. w \in Places
    BY <1>27 DEF Places, LfClose
  <2>2. GoesTo(t, w) /\ Same /\ lf_job' = lf_job /\ lf_col' = lf_col /\ jobs_dequeued' = jobs_dequeued /\ lf_mt_exit' \in BOOLEAN
    BY <1>27 DEF LfClose, Shapes
  <2>3. pc'[t] = w
    BY <2>1, <2>2, Goes
  <2>4. Route(t)
    BY <1>27, <2>2, <2>3 DEF LfClose, Route, LfWork, LfHorzPlaces
  <2> QED BY <1>1, <2>1, <2>2, <2>4
<1>9. ASSUME NEW t \in Workers, Spurious(t) PROVE setup' = setup /\ Shapes' /\ Walks(t)
  <2> DEFINE w == IF pc[t] = "lf_asleep" THEN "lf_wait"
                  ELSE IF pc[t] = "lf_asleep_above" THEN "lf_above"
                  ELSE IF pc[t] = "lf_asleep_own" THEN "lf_own" ELSE Woken(pc[t])
  <2>1. w \in Places
    BY <1>9 DEF Places, Spurious, Woken
  <2>2. GoesTo(t, w) /\ Same /\ lf_job' = lf_job /\ lf_col' = lf_col /\ jobs_dequeued' = jobs_dequeued /\ lf_mt_exit' \in BOOLEAN
    BY <1>9 DEF Spurious, Shapes
  <2>3. pc'[t] = w
    BY <2>1, <2>2, Goes
  <2>4. Route(t)
    BY <1>9, <2>2, <2>3 DEF Spurious, Route, Woken, LfWork, LfHorzPlaces
  <2> QED BY <1>1, <2>1, <2>2, <2>4
<1>10. ASSUME NEW t \in Workers, Throw(t) PROVE setup' = setup /\ Shapes' /\ Walks(t)
  <2> DEFINE w == "error"
  <2>1. w \in Places
    BY <1>10 DEF Places, Throw
  <2>2. GoesTo(t, w) /\ Same /\ lf_job' = lf_job /\ lf_col' = lf_col /\ jobs_dequeued' = jobs_dequeued /\ lf_mt_exit' \in BOOLEAN
    BY <1>10 DEF Throw, Shapes
  <2>3. pc'[t] = w
    BY <2>1, <2>2, Goes
  <2>4. Route(t)
    BY <1>10, <2>2, <2>3 DEF Throw, Route
  <2> QED BY <1>1, <2>1, <2>2, <2>4
<1>11. ASSUME NEW t \in Workers, Failed(t) PROVE setup' = setup /\ Shapes' /\ Walks(t)
  <2> DEFINE w == "failed"
  <2>1. w \in Places
    BY <1>11 DEF Places, Failed
  <2>2. GoesTo(t, w) /\ Same /\ lf_job' = lf_job /\ lf_col' = lf_col /\ jobs_dequeued' = jobs_dequeued /\ lf_mt_exit' \in BOOLEAN
    BY <1>11 DEF Failed, Shapes
  <2>3. pc'[t] = w
    BY <2>1, <2>2, Goes
  <2>4. Route(t)
    BY <1>11, <2>2, <2>3 DEF Failed, Route
  <2> QED BY <1>1, <2>1, <2>2, <2>4
<1>12. ASSUME NEW t \in Workers, LfGet(t) PROVE setup' = setup /\ Shapes' /\ Walks(t)
  <2> DEFINE w == IF ~lf_mt_exit /\ jobs_dequeued < NumLfJobs THEN "lf_wait" ELSE "returned"
  <2>1. GoesTo(t, w) /\ Same /\ pc[t] = "lf_get" /\ lf_mt_exit' \in BOOLEAN
    BY <1>12 DEF LfGet, Shapes
  <2>2. w \in Places
    BY DEF Places
  <2>3. pc' \in [Workers -> Places] /\ pc'[t] = w /\ \A u \in Workers \ {t} : pc'[u] = pc[u]
    <3> HIDE DEF w
    <3> QED BY <2>1, <2>2, Goes
  <2>4. /\ lf_job' \in [Workers -> Nat] /\ lf_col' \in [Workers -> Nat] /\ jobs_dequeued' \in Nat
        /\ \A u \in Workers \ {t} : lf_job'[u] = lf_job[u] /\ lf_col'[u] = lf_col[u]
    <3>1. lf_job \in [Workers -> Nat] /\ lf_col \in [Workers -> Nat] /\ jobs_dequeued \in Nat
      BY DEF Shapes
    <3>2. \/ /\ lf_job' = [lf_job EXCEPT ![t] = jobs_dequeued] /\ lf_col' = [lf_col EXCEPT ![t] = 0]
             /\ jobs_dequeued' = jobs_dequeued + 1
          \/ UNCHANGED <<lf_job, lf_col, jobs_dequeued>>
      BY <1>12 DEF LfGet
    <3> QED BY <3>1, <3>2
  <2>5. Route(t) /\ pc[t] \notin LfPlaces
    BY <2>1, <2>3 DEF Route, LfPlaces, LfWork, LfHorzPlaces
  <2>6. \A u \in Workers \ {t} : Stirs(pc[u], pc'[u])
    BY <2>3 DEF Stirs
  <2> QED BY <1>24, <2>1, <2>3, <2>4, <2>5, <2>6
<1>28. ASSUME NEW t \in Workers, LfVert(t) \/ LfHorz(t) PROVE setup' = setup /\ Shapes' /\ Walks(t)
  <2> DEFINE w == IF LfVert(t) THEN "lf_write" ELSE IF lf_col[t] = LfCols - 1 THEN "lf_get" ELSE "lf_above"
  <2>1. /\ GoesTo(t, w) /\ Same /\ pc[t] \in {"lf_vert", "lf_horz"} /\ lf_mt_exit' \in BOOLEAN
        /\ lf_job' = lf_job /\ jobs_dequeued' = jobs_dequeued
    BY <1>28 DEF LfVert, LfHorz, Shapes
  <2>2. w \in Places
    BY DEF Places
  <2>3. pc' \in [Workers -> Places] /\ pc'[t] = w /\ \A u \in Workers \ {t} : pc'[u] = pc[u]
    <3> HIDE DEF w
    <3> QED BY <2>1, <2>2, Goes
  <2>4. /\ lf_job' \in [Workers -> Nat] /\ lf_col' \in [Workers -> Nat] /\ jobs_dequeued' \in Nat
        /\ \A u \in Workers \ {t} : lf_col'[u] = lf_col[u]
    <3>1. lf_job \in [Workers -> Nat] /\ lf_col \in [Workers -> Nat] /\ jobs_dequeued \in Nat
      BY DEF Shapes
    <3>2. lf_col' = lf_col \/ lf_col' = [lf_col EXCEPT ![t] = @ + 1]
      BY <1>28 DEF LfVert, LfHorz
    <3> QED BY <2>1, <3>1, <3>2
  <2>5. Route(t)
    BY <2>1, <2>3 DEF Route, LfPlaces, LfWork, LfHorzPlaces
  <2>6. \A u \in Workers \ {t} : Stirs(pc[u], pc'[u])
    BY <2>3 DEF Stirs
  <2> HIDE DEF w
  <2> QED BY <1>24, <2>1, <2>3, <2>4, <2>5, <2>6
<1>29. ASSUME NEW t \in Workers, LfWrite(t) PROVE setup' = setup /\ Shapes' /\ Walks(t)
  <2> DEFINE last == lf_col[t] = LfCols - 1
             w == IF last THEN "lf_get" ELSE "lf_vert"
             cur == IF last THEN LfCols + setup.lf_sync_range ELSE lf_col[t]
  <2>1. /\ LfSyncWrite(t, LfOwn(t), cur, w) \/ GoesTo(t, w)
        /\ Same /\ pc[t] = "lf_write" /\ lf_mt_exit' \in BOOLEAN
        /\ lf_job' = lf_job /\ jobs_dequeued' = jobs_dequeued
    BY <1>29 DEF LfWrite, Shapes
  <2>2. w \in Places
    BY DEF Places
  <2>3. pc' \in [Workers -> Places] /\ pc'[t] = w /\ \A u \in Workers \ {t} : Stirs(pc[u], pc'[u])
    <3> HIDE DEF w, cur
    <3> QED BY <2>1, <2>2, Goes, LfGoesAndWakes DEF Stirs
  <2>4. /\ lf_job' \in [Workers -> Nat] /\ lf_col' \in [Workers -> Nat] /\ jobs_dequeued' \in Nat
        /\ \A u \in Workers \ {t} : lf_col'[u] = lf_col[u]
    BY <1>29, <2>1 DEF LfWrite, Shapes
  <2>5. Route(t)
    BY <2>1, <2>3 DEF Route, LfPlaces, LfWork, LfHorzPlaces
  <2> HIDE DEF w
  <2> QED BY <1>24, <2>1, <2>3, <2>4, <2>5
<1>30. ASSUME NEW t \in Workers, LfRelease(t) PROVE setup' = setup /\ Shapes' /\ Walks(t)
  <2>1. PICK x \in LfRowIds : LfSyncWrite(t, x, FrameCols + setup.lf_sync_range, "lf_release")
    BY <1>30 DEF LfRelease
  <2>2. /\ Same /\ pc[t] = "lf_release" /\ lf_mt_exit' \in BOOLEAN
        /\ lf_job' = lf_job /\ lf_col' = lf_col /\ jobs_dequeued' = jobs_dequeued
    BY <1>30 DEF LfRelease, Shapes
  <2>3. pc' \in [Workers -> Places] /\ pc'[t] = "lf_release" /\ \A u \in Workers \ {t} : Stirs(pc[u], pc'[u])
    BY <2>1, LfGoesAndWakes DEF Places
  <2>4. lf_job' \in [Workers -> Nat] /\ lf_col' \in [Workers -> Nat] /\ jobs_dequeued' \in Nat
    BY <2>2 DEF Shapes
  <2>5. Route(t)
    BY <2>2, <2>3 DEF Route
  <2> QED BY <1>24, <2>2, <2>3, <2>4, <2>5
<1>13. ASSUME NEW t \in Workers, NEW k \in Tiles, pc[t] = "fetch", ~row_mt_exit, HasJob(k),
              k = tile[t] \/ ~HasJob(tile[t]), TakeRow(t, k)
       PROVE  setup' = setup /\ Shapes' /\ Takes(t, k)
  <2>1. pc' \in [Workers -> Places] /\ pc'[t] = "read" /\ \A u \in Workers \ {t} : pc'[u] = pc[u]
    BY <1>13, Goes DEF TakeRow, Places
  <2>2. /\ tile' \in [Workers -> Tiles] /\ tile'[t] = k /\ \A u \in Workers \ {t} : tile'[u] = tile[u]
        /\ row' \in [Workers -> Nat] /\ row'[t] = next_row[k] /\ \A u \in Workers \ {t} : row'[u] = row[u]
        /\ col' \in [Workers -> Nat] /\ col'[t] = 0 /\ \A u \in Workers \ {t} : col'[u] = col[u]
    BY <1>13 DEF TakeRow, Shapes
  <2>3. /\ next_row' \in [Tiles -> Nat] /\ num_threads_working' \in [Tiles -> Int]
        /\ next_row'[k] = next_row[k] + 1 /\ num_threads_working'[k] = num_threads_working[k] + 1
        /\ \A j \in Tiles \ {k} : next_row'[j] = next_row[j] /\ num_threads_working'[j] = num_threads_working[j]
    BY <1>13 DEF TakeRow, Shapes
  <2>4. /\ UNCHANGED <<num_finished_cols, num_tile_cols_done, row_mt_exit, lf_mt_exit, jobs_dequeued, lf_job, lf_col,
                       encoded, outcome, setup>>
    BY <1>13 DEF TakeRow
  <2>5. Shapes'
    BY <2>1, <2>2, <2>3, <2>4 DEF Shapes, Workers, Tiles, RowIds, FrameRows, Superblocks
  <2>6. OthersStay(t)
    BY <2>1, <2>2, <2>4 DEF OthersStay, Stirs
  <2> QED BY <1>13, <2>1, <2>2, <2>3, <2>4, <2>5, <2>6 DEF Takes, HasJob
<1>14. ASSUME NEW t \in Workers, FetchOwnTile(t) \/ FetchOtherTile(t)
       PROVE  setup' = setup /\ Shapes' /\ \E k \in Tiles : Takes(t, k)
  <2>1. CASE FetchOwnTile(t)
    <3>1. tile[t] \in Tiles
      BY DEF Shapes
    <3> QED BY <1>13, <2>1, <3>1 DEF FetchOwnTile
  <2>2. CASE FetchOtherTile(t)
    BY <1>13, <2>2 DEF FetchOtherTile, Eligible
  <2> QED BY <1>14, <2>1, <2>2
<1>15. ASSUME NEW t \in Workers, Encode(t) PROVE setup' = setup /\ Shapes' /\ Encodes(t)
  <2>1. pc' \in [Workers -> Places] /\ pc'[t] = "write" /\ \A u \in Workers \ {t} : pc'[u] = pc[u]
    BY <1>15, Goes DEF Encode, Places
  <2>2. pc[t] = (IF setup.late THEN "finish" ELSE "encode")
        /\ encoded' = (IF Spoilt THEN encoded ELSE encoded \cup {<<tile[t], row[t], col[t]>>})
        /\ UNCHANGED <<tile, row, col, next_row, num_threads_working, num_finished_cols, num_tile_cols_done,
                       row_mt_exit, lf_mt_exit, jobs_dequeued, lf_job, lf_col, outcome, setup>>
    BY <1>15 DEF Encode
  <2>3. <<tile[t], row[t], col[t]>> \in Superblocks
    <3>1. tile[t] \in Tiles /\ row[t] \in Nat /\ col[t] \in Nat
          /\ row[t] < RowsOf(tile[t]) /\ col[t] < ColsOf(tile[t])
      BY <2>2 DEF Shapes, WorkerPlace, InRow
    <3>2. row[t] \in 0..(RowsOf(tile[t]) - 1) /\ col[t] \in 0..(ColsOf(tile[t]) - 1)
      BY <3>1, Sizes
    <3> QED BY <3>1, <3>2, InTile DEF Shapes, Tiles, RowsOf, ColsOf, Superblocks
  <2>4. Shapes'
    BY <2>1, <2>2, <2>3 DEF Shapes, Workers, Tiles, RowIds, FrameRows, Superblocks
  <2>5. OthersStay(t)
    BY <2>1, <2>2 DEF OthersStay, Stirs
  <2> QED BY <2>1, <2>2, <2>4, <2>5 DEF Encodes
<1>16. ASSUME NEW t \in Workers, Write(t) PROVE setup' = setup /\ Shapes' /\ Writes(t)
  <2> DEFINE last == col[t] = ColsOf(tile[t]) - 1
             w == IF last THEN "row_done" ELSE "read"
             cur == IF last THEN Done(tile[t]) ELSE col[t]
  <2>1. pc[t] = "write" /\ SyncWrite(t, tile[t], row[t], cur, w) /\ w \in Places
    BY <1>16 DEF Write, Places
  <2>2. tile[t] \in Tiles /\ row[t] \in Nat /\ col[t] \in Nat /\ row[t] < RowsOf(tile[t])
    BY DEF Shapes, WorkerPlace
  <2>3. cur \in Int /\ <<tile[t], row[t]>> \in RowIds
    <3>1. row[t] \in 0..(RowsOf(tile[t]) - 1) /\ Done(tile[t]) \in Int
      BY <2>2, Sizes
    <3> QED BY <2>2, <3>1, InTile DEF Shapes, Tiles, RowsOf, RowIds
  <2>4. /\ pc' \in [Workers -> Places] /\ pc'[t] = w
        /\ \A u \in Workers \ {t} : Stirs(pc[u], pc'[u])
        /\ num_finished_cols' \in [RowIds -> Int] /\ Raised(tile[t], row[t], cur)
    <3> HIDE DEF w, cur
    <3> QED BY <2>1, <2>2, <2>3, GoesAndWakes
  <2>5. col' \in [Workers -> Nat] /\ col'[t] = col[t] + 1 /\ \A u \in Workers \ {t} : col'[u] = col[u]
    BY <1>16 DEF Write, Shapes
  <2>6. UNCHANGED <<tile, row, next_row, num_threads_working, num_tile_cols_done,
                    row_mt_exit, lf_mt_exit, jobs_dequeued, lf_job, lf_col, encoded, outcome, setup>>
    BY <1>16 DEF Write
  <2>7. Shapes'
    BY <2>4, <2>5, <2>6 DEF Shapes, Workers, Tiles, RowIds, FrameRows, Superblocks
  <2>8. OthersStay(t)
    BY <2>4, <2>5, <2>6 DEF OthersStay
  <2> QED BY <2>1, <2>4, <2>5, <2>6, <2>7, <2>8 DEF Writes
<1>17. ASSUME NEW t \in Workers, RowDone(t) PROVE setup' = setup /\ Shapes' /\ EndsRow(t)
  <2> DEFINE fr == RowStart(tile[t]) + row[t]
  <2>1. pc' \in [Workers -> Places] /\ pc'[t] = "fetch" /\ \A u \in Workers \ {t} : Stirs(pc[u], pc'[u])
    BY <1>17, GoesAndBroadcasts DEF RowDone, Places
  <2>2. tile[t] \in Tiles /\ fr \in 0..(FrameRows - 1)
    <3>1. tile[t] \in Tiles /\ row[t] \in Nat /\ row[t] < RowsOf(tile[t])
      BY DEF Shapes, WorkerPlace
    <3> QED BY <3>1, Sizes
  <2>3. UNCHANGED <<tile, row, col, next_row, num_finished_cols, row_mt_exit, lf_mt_exit, jobs_dequeued, lf_job, lf_col,
                    encoded, outcome, setup>>
    BY <1>17 DEF RowDone
  <2>4. /\ num_threads_working' \in [Tiles -> Int]
        /\ num_threads_working'[tile[t]] = num_threads_working[tile[t]] - 1
        /\ \A j \in Tiles \ {tile[t]} : num_threads_working'[j] = num_threads_working[j]
    BY <1>17, <2>2 DEF RowDone, Shapes
  <2>5. /\ num_tile_cols_done' \in [0..(FrameRows - 1) -> Nat]
        /\ num_tile_cols_done'[fr] = num_tile_cols_done[fr] + 1
        /\ \A r \in (0..(FrameRows - 1)) \ {fr} : num_tile_cols_done'[r] = num_tile_cols_done[r]
    <3>1. num_tile_cols_done' = [num_tile_cols_done EXCEPT ![fr] = num_tile_cols_done[fr] + 1]
      BY <1>17 DEF RowDone
    <3> DEFINE D == 0..(FrameRows - 1)
    <3>2. num_tile_cols_done \in [D -> Nat] /\ fr \in D
      BY <2>2 DEF Shapes
    <3> HIDE DEF fr, D
    <3>3. /\ num_tile_cols_done' \in [D -> Nat] /\ num_tile_cols_done'[fr] = num_tile_cols_done[fr] + 1
          /\ \A r \in D \ {fr} : num_tile_cols_done'[r] = num_tile_cols_done[r]
      BY <3>1, <3>2
    <3> QED BY <3>3 DEF D
  <2>6. Shapes'
    BY <2>1, <2>3, <2>4, <2>5 DEF Shapes, Workers, Tiles, RowIds, FrameRows, Superblocks
  <2>7. OthersStay(t)
    BY <2>1, <2>3 DEF OthersStay
  <2>8. pc[t] = "row_done"
    BY <1>17 DEF RowDone
  <2> QED BY <2>1, <2>3, <2>4, <2>5, <2>6, <2>7, <2>8 DEF EndsRow
<1>18. ASSUME NEW t \in Workers, RaiseExit(t) PROVE setup' = setup /\ Shapes' /\ RaisesExit(t)
  <2>1. pc' \in [Workers -> Places] /\ pc'[t] = "release" /\ \A u \in Workers \ {t} : Stirs(pc[u], pc'[u])
    BY <1>18, GoesAndBroadcasts DEF RaiseExit, Places
  <2>2. /\ pc[t] = "error" /\ row_mt_exit' = TRUE
        /\ UNCHANGED <<tile, row, col, next_row, num_threads_working, num_finished_cols, num_tile_cols_done,
                       lf_mt_exit, jobs_dequeued, lf_job, lf_col, encoded, outcome, setup>>
    BY <1>18 DEF RaiseExit
  <2>3. Shapes'
    BY <2>1, <2>2 DEF Shapes, Workers, Tiles, RowIds, FrameRows, Superblocks
  <2>4. OthersStay(t)
    BY <2>1, <2>2 DEF OthersStay
  <2> QED BY <2>1, <2>2, <2>3, <2>4 DEF RaisesExit
<1>19. ASSUME NEW t \in Workers, Release(t) PROVE setup' = setup /\ Shapes' /\ Releases(t)
  <2>1. PICK x \in RowIds : SyncWrite(t, x[1], x[2], Done(x[1]), "release")
    BY <1>19 DEF Release
  <2>2. x[1] \in Tiles /\ <<x[1], x[2]>> \in RowIds
    BY <2>1, OfTile DEF Shapes, RowIds, Tiles
  <2>3. Done(x[1]) \in Int
    BY <2>2, Sizes
  <2>4. pc[t] = "release" /\ "release" \in Places
    BY <1>19 DEF Release, Places
  <2>5. /\ pc' \in [Workers -> Places] /\ pc'[t] = "release"
        /\ \A u \in Workers \ {t} : Stirs(pc[u], pc'[u])
        /\ num_finished_cols' \in [RowIds -> Int] /\ Raised(x[1], x[2], Done(x[1]))
    BY <2>1, <2>2, <2>3, <2>4, GoesAndWakes
  <2>6. UNCHANGED <<tile, row, col, next_row, num_threads_working, num_tile_cols_done,
                    row_mt_exit, lf_mt_exit, jobs_dequeued, lf_job, lf_col, encoded, outcome, setup>>
    BY <1>19 DEF Release
  <2>7. Shapes'
    BY <2>5, <2>6 DEF Shapes, Workers, Tiles, RowIds, FrameRows, Superblocks
  <2>8. OthersStay(t)
    BY <2>5, <2>6 DEF OthersStay
  <2> QED BY <2>4, <2>5, <2>6, <2>7, <2>8 DEF Releases
<1>20. ASSUME Join PROVE setup' = setup /\ Shapes'
  <2>1. outcome' \in {"busy", "ok", "error"}
    BY <1>20 DEF Join
  <2>2. UNCHANGED <<pc, tile, row, col, next_row, num_threads_working, num_finished_cols, num_tile_cols_done,
                    row_mt_exit, lf_mt_exit, jobs_dequeued, lf_job, lf_col, encoded, setup>>
    BY <1>20 DEF Join
  <2> QED BY <2>1, <2>2 DEF Shapes, Workers, Tiles, RowIds, FrameRows, Superblocks
<1>21. ASSUME StartFrame PROVE setup' = setup /\ Shapes'
  <2>1. \A t \in Workers : t % NumTiles \in Tiles
    BY Sizes DEF Workers, Tiles, TilesIn, NumTiles, NumTileCols
  <2>2. setup' = setup /\ pc' \in [Workers -> Places] /\ tile' \in [Workers -> Tiles] /\ row' \in [Workers -> Nat]
    BY <1>21, <2>1 DEF StartFrame, Places
  <2>3. col' \in [Workers -> Nat] /\ lf_job' \in [Workers -> Nat] /\ lf_col' \in [Workers -> Nat] /\ next_row' \in [Tiles -> Nat]
        /\ num_threads_working' \in [Tiles -> Int]
    BY <1>21 DEF StartFrame
  <2>4. num_finished_cols' \in [RowIds -> Int] /\ num_tile_cols_done' \in [0..(FrameRows - 1) -> Nat]
    BY <1>21 DEF StartFrame
  <2>5. row_mt_exit' \in BOOLEAN /\ lf_mt_exit' \in BOOLEAN /\ jobs_dequeued' \in Nat
        /\ encoded' \subseteq Superblocks /\ outcome' \in {"busy", "ok", "error"}
    BY <1>21 DEF StartFrame
  <2> QED BY <2>2, <2>3, <2>4, <2>5 DEF Shapes, Workers, Tiles, RowIds, FrameRows, Superblocks
<1>22. CASE Join \/ StartFrame
  BY <1>20, <1>21, <1>22
<1>23. ASSUME NEW t \in Workers, Step(t) \/ Throw(t) \/ Spurious(t)
       PROVE  setup' = setup /\ Shapes' /\ WorkerStep(t)
  BY <1>2, <1>3, <1>4, <1>5, <1>6, <1>7, <1>8, <1>9, <1>10, <1>11, <1>12, <1>14, <1>15, <1>16,
     <1>17, <1>18, <1>19, <1>23, <1>25, <1>26, <1>27, <1>28, <1>29, <1>30 DEF Step, WorkerStep
<1> QED BY <1>22, <1>23 DEF Next, Moves

\* What every step of a worker has in common.
LEMMA Common ==
  ASSUME Shapes, setup' = setup, Shapes', NEW t \in Workers, WorkerStep(t)
  PROVE  /\ OthersStay(t) /\ outcome' = outcome /\ encoded \subseteq encoded'
         /\ \A k \in Tiles : next_row[k] \in Nat /\ next_row'[k] \in Nat /\ next_row[k] <= next_row'[k]
         /\ row_mt_exit => row_mt_exit'
         /\ \A u \in Workers : /\ tile[u] \in Tiles /\ tile'[u] \in Tiles
                               /\ row[u] \in Nat /\ row'[u] \in Nat /\ col[u] \in Nat /\ col'[u] \in Nat
                               /\ lf_job[u] \in Nat /\ lf_job'[u] \in Nat /\ lf_col[u] \in Nat /\ lf_col'[u] \in Nat
<1> USE DEF queueVars
<1>1. \A k \in Tiles : next_row[k] \in Nat /\ next_row'[k] \in Nat
  BY DEF Shapes, Tiles
<1>2. \A u \in Workers : /\ tile[u] \in Tiles /\ tile'[u] \in Tiles
                         /\ row[u] \in Nat /\ row'[u] \in Nat /\ col[u] \in Nat /\ col'[u] \in Nat
                         /\ lf_job[u] \in Nat /\ lf_job'[u] \in Nat /\ lf_col[u] \in Nat /\ lf_col'[u] \in Nat
  BY DEF Shapes, Tiles, Workers
<1>3. OthersStay(t) /\ outcome' = outcome
  BY DEF WorkerStep, Walks, Takes, Encodes, Writes, EndsRow, RaisesExit, Releases
<1>4. encoded \subseteq encoded' /\ (row_mt_exit => row_mt_exit')
  BY DEF WorkerStep, Walks, Takes, Encodes, Writes, EndsRow, RaisesExit, Releases
<1>5. \A k \in Tiles : next_row[k] <= next_row'[k]
  <2>1. CASE \E j \in Tiles : Takes(t, j)
    <3>1. PICK j \in Tiles : Takes(t, j)
      BY <2>1
    <3> QED BY <1>1, <3>1 DEF Takes
  <2>2. CASE next_row' = next_row
    BY <1>1, <2>2
  <2> QED BY <2>1, <2>2 DEF WorkerStep, Walks, Encodes, Writes, EndsRow, RaisesExit, Releases
<1> QED BY <1>1, <1>2, <1>3, <1>4, <1>5

-----------------------------------------------------------------------------
\* The parts of the invariant under the steps of a worker.

\* A worker in a row is inside it.
LEMMA WorkerPlaceKept ==
  ASSUME Shapes, WorkerPlace, setup' = setup, Shapes', NEW t \in Workers, WorkerStep(t)
  PROVE  WorkerPlace'
<1> USE DEF queueVars
<1> DEFINE Fine(u) == /\ row[u] < RowsOf(tile[u]) /\ col[u] <= ColsOf(tile[u])
                      /\ pc[u] \in InRow \ {"row_done"} => col[u] < ColsOf(tile[u])
                      /\ pc[u] \in InRow => row[u] < next_row[tile[u]]
                      /\ pc[u] \in {"asleep_late", "finish"} => setup.late
<1>1. \A u \in Workers : Fine(u)
  BY DEF WorkerPlace
<1>2. \A k \in Tiles : RowsOf(k) \in Nat \ {0} /\ ColsOf(k) \in Nat \ {0} /\ next_row[k] <= next_row'[k]
                       /\ next_row[k] \in Nat /\ next_row'[k] \in Nat
  BY Sizes, Common
<1>3. ASSUME NEW u \in Workers \ {t} PROVE Fine(u)'
  <2>1. /\ tile'[u] = tile[u] /\ row'[u] = row[u] /\ col'[u] = col[u]
        /\ Stirs(pc[u], pc'[u]) /\ tile[u] \in Tiles /\ row[u] \in Nat
    BY Common DEF OthersStay
  <2> QED BY <1>1, <1>2, <2>1 DEF RowsOf, ColsOf, FrameRows, Stirs, InRow, LfPlaces, LfWork, LfHorzPlaces
<1>4. tile[t] \in Tiles /\ row[t] \in Nat /\ col[t] \in Nat
  BY Common
<1>5. Fine(t)'
  <2>1. CASE Walks(t)
    BY <1>1, <1>2, <1>4, <2>1 DEF Walks, Route, RowsOf, ColsOf, InRow, LfWork, LfHorzPlaces
  <2>2. ASSUME NEW k \in Tiles, Takes(t, k) PROVE Fine(t)'
    BY <1>2, <2>2 DEF Takes, RowsOf, ColsOf, InRow, LfPlaces, LfWork, LfHorzPlaces
  <2>3. CASE Encodes(t)
    BY <1>1, <1>2, <1>4, <2>3 DEF Encodes, RowsOf, ColsOf, InRow, LfPlaces, LfWork, LfHorzPlaces
  <2>4. CASE Writes(t)
    BY <1>1, <1>2, <1>4, <2>4 DEF Writes, RowsOf, ColsOf, InRow, LfPlaces, LfWork, LfHorzPlaces
  <2>5. CASE EndsRow(t) \/ RaisesExit(t) \/ Releases(t)
    BY <1>1, <1>2, <1>4, <2>5 DEF EndsRow, RaisesExit, Releases, RowsOf, ColsOf, InRow, LfPlaces, LfWork, LfHorzPlaces
  <2> QED BY <2>1, <2>2, <2>3, <2>4, <2>5 DEF WorkerStep
<1>6. \A u \in Workers : Fine(u)'
  BY <1>3, <1>5
<1> QED BY <1>6 DEF WorkerPlace, Workers

\* No row beyond the last one is handed out.
LEMMA QueuePlaceKept ==
  ASSUME Shapes, QueuePlace, setup' = setup, Shapes', NEW t \in Workers, WorkerStep(t)
  PROVE  QueuePlace'
<1> USE DEF queueVars
<1>1. \A k \in Tiles : RowsOf(k) \in Nat \ {0} /\ next_row[k] \in Nat
  BY Sizes, Common
<1>2. ASSUME NEW k \in Tiles, Takes(t, k) PROVE QueuePlace'
  BY <1>1, <1>2 DEF Takes, QueuePlace, RowsOf, Tiles
<1>3. CASE next_row' = next_row
  BY <1>1, <1>3 DEF QueuePlace, RowsOf, Tiles
<1> QED BY <1>2, <1>3 DEF WorkerStep, Walks, Encodes, Writes, EndsRow, RaisesExit, Releases

\* A worker on the error path has raised row_mt_exit.
LEMMA ExitMeansKept ==
  ASSUME Shapes, ExitMeans, setup' = setup, Shapes', NEW t \in Workers, WorkerStep(t)
  PROVE  ExitMeans'
<1> USE DEF queueVars
<1> DEFINE Out(w) == w \in {"release", "lf_release", "failed"}
<1>1. \A u \in Workers \ {t} : Out(pc'[u]) <=> Out(pc[u])
  BY Common DEF OthersStay, Stirs
<1>2. CASE row_mt_exit' = row_mt_exit /\ (Out(pc'[t]) <=> Out(pc[t]))
  BY <1>1, <1>2 DEF ExitMeans, Workers
<1>3. CASE RaisesExit(t)
  BY <1>3 DEF RaisesExit, ExitMeans, Workers
<1>4. CASE Walks(t)
  BY <1>2, <1>4 DEF Walks, Route, LfWork, LfHorzPlaces
<1> QED BY <1>2, <1>3, <1>4 DEF WorkerStep, Takes, Encodes, Writes, EndsRow, Releases

\* A row taken is one nobody else has, because next_row has passed those.
LEMMA RowsAreDisjointKept ==
  ASSUME Shapes, WorkerPlace, RowsAreDisjoint, setup' = setup, Shapes', NEW t \in Workers, WorkerStep(t)
  PROVE  RowsAreDisjoint'
<1> USE DEF queueVars
<1>1. \A u \in Workers \ {t} : /\ tile'[u] = tile[u] /\ row'[u] = row[u]
                               /\ pc'[u] \in InRow <=> pc[u] \in InRow
  BY Common DEF OthersStay, Stirs, InRow
<1>2. CASE tile'[t] = tile[t] /\ row'[t] = row[t] /\ (pc'[t] \in InRow => pc[t] \in InRow)
  BY <1>1, <1>2 DEF RowsAreDisjoint, Workers
<1>3. ASSUME NEW k \in Tiles, Takes(t, k) PROVE RowsAreDisjoint'
  <2>1. tile'[t] = k /\ row'[t] = next_row[k] /\ next_row[k] \in Nat
    BY <1>3, Common DEF Takes
  <2>2. \A u \in Workers \ {t} : pc[u] \in InRow => ~(tile[u] = k /\ row[u] = next_row[k])
    BY Common DEF WorkerPlace
  <2> QED BY <1>1, <2>1, <2>2 DEF RowsAreDisjoint, Workers
<1>4. CASE Walks(t)
  BY <1>2, <1>4 DEF Walks, Route, LfWork, LfHorzPlaces, InRow
<1>5. CASE Encodes(t) \/ Writes(t) \/ EndsRow(t) \/ RaisesExit(t) \/ Releases(t)
  BY <1>2, <1>5 DEF Encodes, Writes, EndsRow, RaisesExit, Releases, InRow
<1> QED BY <1>3, <1>4, <1>5 DEF WorkerStep

\* num_finished_cols rises behind the superblock, and beyond it only after an error.
LEMMA CountsAreTrueKept ==
  ASSUME Shapes, WorkerPlace, ExitMeans, CountsAreTrue, RowSoFar,
         setup' = setup, Shapes', NEW t \in Workers, WorkerStep(t)
  PROVE  CountsAreTrue'
<1> USE DEF queueVars
<1> DEFINE Fine(k, r) ==
             /\ num_finished_cols[<<k, r>>] \in -1..Done(k)
             /\ ~row_mt_exit => \A c \in 0..(ColsOf(k) - 1) :
                    c <= num_finished_cols[<<k, r>>] => <<k, r, c>> \in encoded
<1>1. SUFFICES ASSUME NEW k \in Tiles, NEW r \in 0..(RowsOf(k) - 1) PROVE Fine(k, r)'
  BY DEF CountsAreTrue, Tiles, RowsOf
<1>2. Fine(k, r)
  BY DEF CountsAreTrue
<1>3. <<k, r>> \in RowIds /\ ColsOf(k) \in Nat \ {0} /\ Done(k) \in Nat /\ Done(k) >= ColsOf(k) + 1
  BY Sizes, InTile DEF Shapes, RowIds, Tiles, RowsOf
<1>4. Done(k)' = Done(k) /\ ColsOf(k)' = ColsOf(k)
  BY DEF Done, ColsOf
<1>5. CASE num_finished_cols'[<<k, r>>] = num_finished_cols[<<k, r>>]
  BY <1>2, <1>4, <1>5, Common
<1>6. ASSUME Writes(t), tile[t] = k, row[t] = r PROVE Fine(k, r)'
  <2>1. col[t] \in Nat /\ col[t] < ColsOf(k) /\ row_mt_exit' = row_mt_exit /\ encoded' = encoded
    BY <1>6, Common DEF Writes, WorkerPlace, InRow
  <2>2. ~row_mt_exit => \A c \in 0..col[t] : <<k, r, c>> \in encoded
    <3>1. pc[t] = "write" /\ pc[t] \in InRow /\ (Spoilt => row_mt_exit)
      BY <1>6 DEF Writes, Spoilt, InRow
    <3>2. ~row_mt_exit => \A c \in 0..(col[t] - 1) : <<k, r, c>> \in encoded
      BY <1>6, <3>1 DEF RowSoFar
    <3>3. ~row_mt_exit => <<k, r, col[t]>> \in encoded
      BY <1>6, <3>1 DEF RowSoFar
    <3>4. \A c \in 0..col[t] : c \in 0..(col[t] - 1) \/ c = col[t]
      BY <2>1
    <3> QED BY <3>2, <3>3, <3>4
  <2>3. CASE col[t] = ColsOf(k) - 1
    <3>1. num_finished_cols'[<<k, r>>] = Max2(num_finished_cols[<<k, r>>], Done(k))
      BY <1>6, <2>3 DEF Writes, Raised
    <3> QED BY <1>2, <1>3, <1>4, <2>1, <2>2, <2>3, <3>1 DEF Max2
  <2>4. CASE col[t] # ColsOf(k) - 1
    <3>1. num_finished_cols'[<<k, r>>] = Max2(num_finished_cols[<<k, r>>], col[t])
      BY <1>6, <2>4 DEF Writes, Raised
    <3> QED BY <1>2, <1>3, <1>4, <2>1, <2>2, <3>1 DEF Max2
  <2> QED BY <2>3, <2>4
<1>7. ASSUME Writes(t), ~(tile[t] = k /\ row[t] = r) PROVE Fine(k, r)'
  <2>1. <<k, r>> # <<tile[t], row[t]>>
    BY <1>7
  <2> QED BY <1>3, <1>5, <1>7, <2>1 DEF Writes, Raised
<1>8. CASE Releases(t)
  <2>1. row_mt_exit'
    BY <1>8 DEF Releases, ExitMeans
  <2>2. PICK x \in RowIds : Raised(x[1], x[2], Done(x[1]))
    BY <1>8 DEF Releases
  <2>3. x = <<x[1], x[2]>>
    BY OfTile DEF Shapes, RowIds
  <2>4. CASE x = <<k, r>>
    <3>1. num_finished_cols'[<<k, r>>] = Max2(num_finished_cols[<<k, r>>], Done(k))
      BY <2>2, <2>4 DEF Raised
    <3> QED BY <1>2, <1>3, <1>4, <2>1, <3>1 DEF Max2
  <2>5. CASE x # <<k, r>>
    BY <1>3, <1>5, <2>2, <2>3, <2>5 DEF Raised
  <2> QED BY <2>4, <2>5
<1> QED BY <1>5, <1>6, <1>7, <1>8 DEF WorkerStep, Walks, Takes, Encodes, EndsRow, RaisesExit

\* A worker leaves a superblock of its row when it has encoded it.
LEMMA RowSoFarKept ==
  ASSUME Shapes, WorkerPlace, RowSoFar, setup' = setup, Shapes', NEW t \in Workers, WorkerStep(t)
  PROVE  RowSoFar'
<1> USE DEF queueVars
<1> DEFINE Fine(u) ==
             /\ (pc[u] \in InRow /\ ~Spoilt) => \A c \in 0..(col[u] - 1) : <<tile[u], row[u], c>> \in encoded
             /\ (pc[u] = "write" /\ ~Spoilt) => <<tile[u], row[u], col[u]>> \in encoded
             /\ (pc[u] = "row_done" /\ ~row_mt_exit) => col[u] = ColsOf(tile[u])
<1>1. \A u \in Workers : Fine(u)
  BY DEF RowSoFar
<1>2. Spoilt => Spoilt'
  BY Common DEF Spoilt
<1>3. encoded \subseteq encoded' /\ (row_mt_exit => row_mt_exit')
  BY Common
<1>4. ASSUME NEW u \in Workers \ {t} PROVE Fine(u)'
  <2>1. /\ tile'[u] = tile[u] /\ row'[u] = row[u] /\ col'[u] = col[u] /\ Stirs(pc[u], pc'[u])
    BY Common DEF OthersStay
  <2>2. /\ pc'[u] \in InRow <=> pc[u] \in InRow
        /\ pc'[u] \in {"write", "row_done"} => pc[u] = pc'[u]
    BY <2>1 DEF Stirs, InRow
  <2>3. (pc'[u] \in InRow /\ ~Spoilt') => \A c \in 0..(col'[u] - 1) : <<tile'[u], row'[u], c>> \in encoded'
    BY <1>1, <1>2, <1>3, <2>1, <2>2
  <2>4. (pc'[u] = "write" /\ ~Spoilt') => <<tile'[u], row'[u], col'[u]>> \in encoded'
    BY <1>1, <1>2, <1>3, <2>1, <2>2
  <2>5. (pc'[u] = "row_done" /\ ~row_mt_exit') => col'[u] = ColsIn(setup', tile'[u])
    BY <1>1, <1>3, <2>1, <2>2 DEF ColsOf
  <2> QED BY <2>3, <2>4, <2>5 DEF ColsOf
<1>5. tile[t] \in Tiles /\ row[t] \in Nat /\ col[t] \in Nat
  BY Common
<1>6. Fine(t)'
  <2>1. CASE Walks(t) \/ EndsRow(t) \/ RaisesExit(t) \/ Releases(t)
    <3>1. /\ tile'[t] = tile[t] /\ row'[t] = row[t] /\ col'[t] = col[t]
          /\ pc'[t] \in InRow => pc[t] \in InRow
          /\ pc'[t] = "row_done" => row_mt_exit'
          /\ pc'[t] # "write"
      BY <1>3, <2>1 DEF Walks, Route, LfWork, LfHorzPlaces, EndsRow, RaisesExit, Releases, InRow
    <3>2. (pc'[t] \in InRow /\ ~Spoilt') => \A c \in 0..(col'[t] - 1) : <<tile'[t], row'[t], c>> \in encoded'
      BY <1>1, <1>2, <1>3, <3>1
    <3>3. ~(pc'[t] = "write") /\ ~(pc'[t] = "row_done" /\ ~row_mt_exit')
      BY <3>1
    <3> QED BY <3>2, <3>3
  <2>2. ASSUME NEW k \in Tiles, Takes(t, k) PROVE Fine(t)'
    <3>1. pc'[t] = "read" /\ col'[t] = 0
      BY <2>2 DEF Takes
    <3> QED BY <3>1
  <2>3. CASE Encodes(t)
    <3>1. /\ tile'[t] = tile[t] /\ row'[t] = row[t] /\ col'[t] = col[t] /\ pc[t] \in InRow /\ pc'[t] = "write"
          /\ Spoilt' <=> Spoilt
          /\ ~Spoilt => encoded' = encoded \cup {<<tile[t], row[t], col[t]>>}
      BY <2>3 DEF Encodes, Spoilt, InRow
    <3>2. ~Spoilt => \A c \in 0..(col[t] - 1) : <<tile[t], row[t], c>> \in encoded
      BY <1>1, <3>1
    <3> QED BY <3>1, <3>2
  <2>4. CASE Writes(t)
    <3>1. /\ tile'[t] = tile[t] /\ row'[t] = row[t] /\ col'[t] = col[t] + 1 /\ pc[t] = "write"
          /\ Spoilt' <=> Spoilt
          /\ encoded' = encoded
          /\ pc'[t] = "row_done" => col[t] = ColsOf(tile[t]) - 1
          /\ pc'[t] \in {"read", "row_done"}
      BY <2>4 DEF Writes, Spoilt
    <3>2. ~Spoilt => \A c \in 0..(col'[t] - 1) : <<tile[t], row[t], c>> \in encoded
      <4>1. pc[t] \in InRow
        BY <3>1 DEF InRow
      <4>2. ~Spoilt => \A c \in 0..(col[t] - 1) : <<tile[t], row[t], c>> \in encoded
        BY <1>1, <4>1
      <4>3. ~Spoilt => <<tile[t], row[t], col[t]>> \in encoded
        BY <1>1, <3>1
      <4>4. \A c \in 0..(col'[t] - 1) : c \in 0..(col[t] - 1) \/ c = col[t]
        BY <1>5, <3>1
      <4> QED BY <4>2, <4>3, <4>4
    <3>3. pc'[t] = "row_done" => col'[t] = ColsIn(setup', tile'[t])
      BY <1>5, <3>1, Sizes DEF ColsOf
    <3>4. (pc'[t] \in InRow /\ ~Spoilt') => \A c \in 0..(col'[t] - 1) : <<tile'[t], row'[t], c>> \in encoded'
      BY <3>1, <3>2
    <3>5. ~(pc'[t] = "write")
      BY <3>1
    <3> QED BY <3>3, <3>4, <3>5 DEF ColsOf
  <2> QED BY <2>1, <2>2, <2>3, <2>4 DEF WorkerStep
<1> QED BY <1>4, <1>6 DEF RowSoFar, Workers

\* Past the wait, the row above is far enough, or an exit is raised.
LEMMA AboveIsReadyKept ==
  ASSUME Shapes, WorkerPlace, CountsAreTrue, AboveIsReady,
         setup' = setup, Shapes', NEW t \in Workers, WorkerStep(t)
  PROVE  AboveIsReady'
<1> USE DEF queueVars
<1> DEFINE Fine(u) ==
             /\ (pc[u] = "check" /\ ~setup.late /\ ~row_mt_exit) => AboveEncoded(u)
             /\ (pc[u] = "encode" /\ ~setup.late) => AboveEncoded(u)
             /\ (pc[u] = "finish" /\ ~row_mt_exit) => AboveEncoded(u)
<1>1. \A u \in Workers : Fine(u)
  BY DEF AboveIsReady
<1>2. encoded \subseteq encoded' /\ (row_mt_exit => row_mt_exit')
  BY Common
<1>3. ASSUME NEW u \in Workers, tile'[u] = tile[u], row'[u] = row[u], col'[u] = col[u], AboveEncoded(u)
      PROVE  AboveEncoded(u)'
  BY <1>2, <1>3 DEF AboveEncoded, ColsOf
<1>4. ASSUME NEW u \in Workers \ {t} PROVE Fine(u)'
  <2>1. /\ tile'[u] = tile[u] /\ row'[u] = row[u] /\ col'[u] = col[u] /\ Stirs(pc[u], pc'[u])
    BY Common DEF OthersStay
  <2>2. pc[u] = "asleep_late" => setup.late
    BY DEF WorkerPlace
  <2>3. (pc'[u] = "check" /\ ~setup'.late /\ ~row_mt_exit') => AboveEncoded(u)'
    BY <1>1, <1>2, <1>3, <2>1 DEF Stirs
  <2>4. (pc'[u] = "encode" /\ ~setup'.late) => AboveEncoded(u)'
    BY <1>1, <1>2, <1>3, <2>1, <2>2 DEF Stirs
  <2>5. (pc'[u] = "finish" /\ ~row_mt_exit') => AboveEncoded(u)'
    BY <1>1, <1>2, <1>3, <2>1 DEF Stirs
  <2> QED BY <2>3, <2>4, <2>5
<1>5. ASSUME ~row_mt_exit, RowAboveIs(t, col[t]) PROVE AboveEncoded(t)
  <2> DEFINE k == tile[t]
             r == row[t]
  <2>1. k \in Tiles /\ r \in Nat /\ r < RowsOf(k) /\ col[t] \in Nat
    BY Common DEF WorkerPlace
  <2>2. RowsOf(k) \in Nat /\ ColsOf(k) \in Nat /\ setup.delay \in Nat
    BY <2>1, Sizes
  <2>3. CASE r = 0
    BY <2>3 DEF AboveEncoded
  <2>4. CASE r # 0
    <3> HIDE DEF k, r
    <3>1. r - 1 \in 0..(RowsOf(k) - 1)
      BY <2>1, <2>2, <2>4
    <3>2. /\ num_finished_cols[<<k, r - 1>>] \in -1..Done(k) /\ Done(k) \in Nat
          /\ \A c \in 0..(ColsOf(k) - 1) :
                 c <= num_finished_cols[<<k, r - 1>>] => <<k, r - 1, c>> \in encoded
      BY <1>5, <2>1, <3>1, Sizes DEF CountsAreTrue
    <3>3. col[t] <= num_finished_cols[<<k, r - 1>>] - 1 - setup.delay
      BY <1>5, <2>4 DEF RowAboveIs, SyncRange, k, r
    <3>4. \A c \in 0..(ColsOf(k) - 1) : c <= col[t] + 1 + setup.delay => <<k, r - 1, c>> \in encoded
      BY <2>1, <2>2, <3>2, <3>3
    <3> QED BY <3>4 DEF AboveEncoded, k, r
  <2> QED BY <2>3, <2>4
<1>6. Fine(t)'
  <2>1. CASE Walks(t)
    <3>1. /\ tile'[t] = tile[t] /\ row'[t] = row[t] /\ col'[t] = col[t] /\ row_mt_exit' = row_mt_exit
          /\ Route(t)
      BY <2>1 DEF Walks
    <3>2. (pc'[t] = "check" /\ ~setup'.late /\ ~row_mt_exit') => AboveEncoded(t)'
      BY <1>3, <1>5, <3>1 DEF Route, LfWork, LfHorzPlaces, ReadColumn
    <3>3. (pc'[t] = "encode" /\ ~setup'.late) => AboveEncoded(t)'
      BY <1>1, <1>3, <3>1 DEF Route, LfWork, LfHorzPlaces, WorkerPlace
    <3>4. (pc'[t] = "finish" /\ ~row_mt_exit') => AboveEncoded(t)'
      BY <1>3, <1>5, <3>1 DEF Route, LfWork, LfHorzPlaces
    <3> QED BY <3>2, <3>3, <3>4
  <2>2. CASE ~Walks(t)
    <3>1. pc'[t] \notin {"check", "encode", "finish"}
      BY <2>2 DEF WorkerStep, Takes, Encodes, Writes, EndsRow, RaisesExit, Releases
    <3> QED BY <3>1
  <2> QED BY <2>1, <2>2
<1> QED BY <1>4, <1>6 DEF AboveIsReady, Workers

\* A row handed out is complete, or somebody is in it, or an exit is raised.
LEMMA RowsAreCoveredKept ==
  ASSUME Shapes, WorkerPlace, RowSoFar, RowsAreCovered, setup' = setup, Shapes', NEW t \in Workers, WorkerStep(t)
  PROVE  RowsAreCovered'
<1> USE DEF queueVars
<1> DEFINE Has(u, k, r) == tile[u] = k /\ row[u] = r /\ pc[u] \in InRow \cup {"error"}
<1>1. SUFFICES ASSUME ~row_mt_exit', NEW k \in Tiles, NEW r \in 0..(next_row'[k] - 1)
               PROVE  RowComplete(k, r)' \/ \E u \in Workers : Has(u, k, r)'
  BY DEF RowsAreCovered, Tiles, Workers
<1>2. /\ encoded \subseteq encoded' /\ ~row_mt_exit /\ r \in Nat
      /\ next_row[k] \in Nat /\ next_row'[k] \in Nat /\ next_row[k] <= next_row'[k]
  BY <1>1, Common
<1>3. CASE r >= next_row[k]
  <2>1. PICK j \in Tiles : Takes(t, j)
    BY <1>2, <1>3 DEF WorkerStep, Walks, Encodes, Writes, EndsRow, RaisesExit, Releases
  <2>2. j = k /\ r = next_row[k]
    BY <1>2, <1>3, <2>1 DEF Takes
  <2>3. Has(t, k, r)'
    BY <2>1, <2>2 DEF Takes, InRow
  <2> QED BY <2>3
<1>4. CASE r < next_row[k]
  <2>1. RowComplete(k, r) \/ \E u \in Workers : Has(u, k, r)
    BY <1>2, <1>4 DEF RowsAreCovered
  <2>2. CASE RowComplete(k, r)
    BY <1>2, <2>2 DEF RowComplete, ColsOf
  <2>3. ASSUME NEW u \in Workers \ {t}, Has(u, k, r) PROVE Has(u, k, r)'
    BY <2>3, Common DEF OthersStay, Stirs, InRow
  <2>4. CASE Has(t, k, r)
    <3>1. CASE EndsRow(t)
      <4>1. pc[t] = "row_done" /\ pc[t] \in InRow /\ ~Spoilt /\ tile[t] = k /\ row[t] = r
        BY <1>2, <2>4, <3>1 DEF EndsRow, InRow, Spoilt
      <4>2. col[t] = ColsOf(k) /\ \A c \in 0..(col[t] - 1) : <<k, r, c>> \in encoded
        BY <1>2, <4>1 DEF RowSoFar
      <4>3. RowComplete(k, r)
        BY <4>2 DEF RowComplete
      <4> QED BY <1>2, <4>3 DEF RowComplete, ColsOf
    <3>2. CASE ~EndsRow(t)
      <4>1. Has(t, k, r)'
        BY <1>1, <1>2, <2>4, <3>2
           DEF WorkerStep, Walks, Route, LfWork, LfHorzPlaces, Takes, Encodes, Writes, RaisesExit, Releases, InRow
      <4> QED BY <4>1
    <3> QED BY <3>1, <3>2
  <2> QED BY <2>1, <2>2, <2>3, <2>4
<1> QED BY <1>2, <1>3, <1>4

\* Adding a member to a finite set, and taking one away.
LEMMA OneMore ==
  ASSUME NEW S, IsFiniteSet(S), NEW x, x \notin S
  PROVE  IsFiniteSet(S \cup {x}) /\ Cardinality(S \cup {x}) = Cardinality(S) + 1
BY FS_AddElement

\* A set without one of its elements.
LEMMA OneLess ==
  ASSUME NEW S, IsFiniteSet(S), NEW x \in S
  PROVE  IsFiniteSet(S \ {x}) /\ Cardinality(S \ {x}) = Cardinality(S) - 1
BY FS_RemoveElement

\* The workers of a tile can be counted.
LEMMA CrewIsFinite ==
  ASSUME Shapes, NEW k
  PROVE  /\ IsFiniteSet(WorkersOf(k)) /\ Cardinality(WorkersOf(k)) \in Nat
         /\ IsFiniteSet(LostTo(k)) /\ Cardinality(LostTo(k)) \in Nat
         /\ Cardinality(LostTo(k)) <= setup.workers
<1>1. setup.workers \in Nat /\ 0 \in Int /\ setup.workers - 1 \in Int
  BY Sizes
<1>2. IsFiniteSet(Workers) /\ Cardinality(Workers) = setup.workers
  <2>1. /\ IsFiniteSet(0..(setup.workers - 1))
        /\ Cardinality(0..(setup.workers - 1)) =
             IF 0 > setup.workers - 1 THEN 0 ELSE (setup.workers - 1) - 0 + 1
    BY <1>1, FS_Interval
  <2> QED BY <1>1, <2>1 DEF Workers
<1>3. WorkersOf(k) \subseteq Workers /\ LostTo(k) \subseteq Workers
  BY DEF WorkersOf, LostTo
<1>4. IsFiniteSet(WorkersOf(k)) /\ IsFiniteSet(LostTo(k)) /\ Cardinality(LostTo(k)) <= setup.workers
  BY <1>2, <1>3, SubsetSize
<1> QED BY <1>4, FS_CardinalityType

\* It is raised with a row taken and lowered with a row done.
LEMMA ThreadsAreCountedKept ==
  ASSUME Shapes, ThreadsAreCounted, setup' = setup, Shapes', NEW t \in Workers, WorkerStep(t)
  PROVE  ThreadsAreCounted'
<1> USE DEF queueVars
<1> DEFINE Fine(k) == /\ Cardinality(WorkersOf(k)) <= num_threads_working[k]
                      /\ num_threads_working[k] <= Cardinality(LostTo(k))
<1>1. SUFFICES ASSUME NEW k \in Tiles PROVE Fine(k)'
  BY DEF ThreadsAreCounted, Tiles
<1>2. Fine(k) /\ num_threads_working[k] \in Int /\ num_threads_working'[k] \in Int
  BY DEF ThreadsAreCounted, Shapes, Tiles
<1>3. /\ IsFiniteSet(WorkersOf(k)) /\ Cardinality(WorkersOf(k)) \in Nat
      /\ IsFiniteSet(LostTo(k)) /\ Cardinality(LostTo(k)) \in Nat
  BY CrewIsFinite
<1>4. IsFiniteSet(LostTo(k)')
  <2>1. IsFiniteSet(Workers)
    <3>1. 0 \in Int /\ setup.workers - 1 \in Int
      BY Sizes
    <3> QED BY <3>1, FS_Interval DEF Workers
  <2>2. LostTo(k)' \subseteq Workers
    BY DEF LostTo, Workers
  <2> QED BY <2>1, <2>2, SubsetSize
<1>5. \A u \in Workers \ {t} : /\ tile'[u] = tile[u]
                               /\ pc'[u] \in InRow <=> pc[u] \in InRow
                               /\ pc'[u] \in {"error", "release", "lf_release", "failed"} <=> pc[u] \in {"error", "release", "lf_release", "failed"}
  BY Common DEF OthersStay, Stirs, InRow
<1>6. ASSUME WorkersOf(k)' \subseteq WorkersOf(k), LostTo(k) \subseteq LostTo(k)',
             num_threads_working'[k] = num_threads_working[k]
      PROVE  Fine(k)'
  <2>1. Cardinality(WorkersOf(k)') <= Cardinality(WorkersOf(k)) /\ IsFiniteSet(WorkersOf(k)')
    BY <1>3, <1>6, SubsetSize
  <2>2. Cardinality(LostTo(k)) <= Cardinality(LostTo(k)')
    BY <1>4, <1>6, SubsetSize
  <2>3. Cardinality(WorkersOf(k)') \in Nat /\ Cardinality(LostTo(k)') \in Nat
    BY <1>4, <2>1, FS_CardinalityType
  <2> QED BY <1>2, <1>3, <1>6, <2>1, <2>2, <2>3
<1>7. CASE Walks(t) \/ Encodes(t) \/ Writes(t) \/ RaisesExit(t) \/ Releases(t)
  <2>1. /\ tile'[t] = tile[t] /\ num_threads_working' = num_threads_working
        /\ pc'[t] \in InRow => pc[t] \in InRow
        /\ pc[t] \in InRow \cup {"error", "release", "lf_release", "failed"} => pc'[t] \in InRow \cup {"error", "release", "lf_release", "failed"}
    BY <1>7 DEF Walks, Route, LfWork, LfHorzPlaces, Encodes, Writes, RaisesExit, Releases, InRow
  <2>2. WorkersOf(k)' \subseteq WorkersOf(k) /\ LostTo(k) \subseteq LostTo(k)'
    BY <1>5, <2>1 DEF WorkersOf, LostTo, Workers
  <2> QED BY <1>6, <2>1, <2>2
<1>8. ASSUME NEW j \in Tiles, Takes(t, j) PROVE Fine(k)'
  <2>1. pc[t] = "fetch" /\ pc'[t] = "read" /\ tile'[t] = j
    BY <1>8 DEF Takes
  <2>2. CASE j = k
    <3>1. t \notin WorkersOf(k) /\ t \notin LostTo(k)
      BY <2>1 DEF WorkersOf, LostTo, InRow
    <3>2. WorkersOf(k)' = WorkersOf(k) \cup {t} /\ LostTo(k)' = LostTo(k) \cup {t}
      BY <1>5, <2>1, <2>2 DEF WorkersOf, LostTo, InRow, Workers
    <3>3. num_threads_working'[k] = num_threads_working[k] + 1
      BY <1>8, <2>2 DEF Takes
    <3>4. /\ Cardinality(WorkersOf(k)') = Cardinality(WorkersOf(k)) + 1
          /\ Cardinality(LostTo(k)') = Cardinality(LostTo(k)) + 1
      BY <1>3, <3>1, <3>2, OneMore
    <3> QED BY <1>2, <1>3, <3>3, <3>4
  <2>3. CASE j # k
    <3>1. WorkersOf(k)' \subseteq WorkersOf(k) /\ LostTo(k) \subseteq LostTo(k)'
      BY <1>5, <2>1, <2>3 DEF WorkersOf, LostTo, InRow, Workers
    <3>2. num_threads_working'[k] = num_threads_working[k]
      BY <1>8, <2>3 DEF Takes
    <3> QED BY <1>6, <3>1, <3>2
  <2> QED BY <2>2, <2>3
<1>9. CASE EndsRow(t)
  <2>1. pc[t] = "row_done" /\ pc'[t] = "fetch" /\ tile'[t] = tile[t]
    BY <1>9 DEF EndsRow
  <2>2. CASE tile[t] = k
    <3>1. t \in WorkersOf(k) /\ t \in LostTo(k)
      BY <2>1, <2>2 DEF WorkersOf, LostTo, InRow
    <3>2. WorkersOf(k)' = WorkersOf(k) \ {t} /\ LostTo(k)' = LostTo(k) \ {t}
      BY <1>5, <2>1, <2>2 DEF WorkersOf, LostTo, InRow, Workers
    <3>3. num_threads_working'[k] = num_threads_working[k] - 1
      BY <1>9, <2>2 DEF EndsRow
    <3>4. /\ Cardinality(WorkersOf(k)') = Cardinality(WorkersOf(k)) - 1
          /\ Cardinality(LostTo(k)') = Cardinality(LostTo(k)) - 1
      BY <1>3, <3>1, <3>2, OneLess
    <3> QED BY <1>2, <1>3, <3>3, <3>4
  <2>3. CASE tile[t] # k
    <3>1. WorkersOf(k)' \subseteq WorkersOf(k) /\ LostTo(k) \subseteq LostTo(k)'
      BY <1>5, <2>1, <2>3 DEF WorkersOf, LostTo, InRow, Workers
    <3>2. num_threads_working'[k] = num_threads_working[k]
      BY <1>9, <2>3 DEF EndsRow
    <3> QED BY <1>6, <3>1, <3>2
  <2> QED BY <2>2, <2>3
<1> QED BY <1>7, <1>8, <1>9 DEF WorkerStep

\* switch_tile_and_get_next_job finds nothing only where every tile with rows has a worker.
LEMMA NobodyLeavesWorkKept ==
  ASSUME Shapes, ExitMeans, ThreadsAreCounted, NobodyLeavesWork,
         setup' = setup, Shapes', NEW t \in Workers, WorkerStep(t)
  PROVE  NobodyLeavesWork'
<1> USE DEF queueVars
<1>1. SUFFICES ASSUME ~row_mt_exit', \E u \in Workers : pc'[u] \in Gone,
                      NEW k \in Tiles, next_row'[k] < RowsOf(k)
               PROVE  \E u \in Workers : tile'[u] = k /\ pc'[u] \in Attended
  BY DEF NobodyLeavesWork, Tiles, Workers, RowsOf
<1>2. ~row_mt_exit
  BY <1>1, Common
<1>3. HasJob(k)
  <2>1. next_row[k] \in Nat /\ next_row'[k] \in Nat /\ next_row[k] <= next_row'[k] /\ RowsOf(k) \in Nat
    BY Common, Sizes
  <2> QED BY <1>1, <2>1 DEF HasJob
<1>4. \A u \in Workers \ {t} : /\ tile'[u] = tile[u]
                               /\ pc[u] \in Attended => pc'[u] \in Attended
                               /\ pc'[u] \in Gone => pc[u] \in Gone
  BY Common DEF OthersStay, Stirs, Attended, Gone, InRow, LfPlaces, LfWork, LfHorzPlaces
<1>5. CASE \E u \in Workers : pc[u] \in Gone
  <2>1. PICK v \in Workers : tile[v] = k /\ pc[v] \in Attended
    BY <1>2, <1>3, <1>5 DEF NobodyLeavesWork, HasJob
  <2>2. CASE v # t
    BY <1>4, <2>1, <2>2
  <2>3. CASE v = t
    <3>1. tile[t] = k /\ pc[t] \in Attended
      BY <2>1, <2>3
    <3>2. CASE Walks(t)
      <4>1. tile'[t] = k /\ pc'[t] \in Attended
        BY <1>2, <1>3, <3>1, <3>2 DEF Walks, Route, LfWork, LfHorzPlaces, Attended, InRow
      <4> QED BY <4>1
    <3>3. ASSUME NEW j \in Tiles, Takes(t, j) PROVE tile'[t] = k /\ pc'[t] \in Attended
      BY <1>3, <3>1, <3>3 DEF Takes, Attended, InRow
    <3>4. CASE Encodes(t) \/ Writes(t) \/ EndsRow(t)
      <4>1. tile'[t] = k /\ pc'[t] \in Attended
        BY <3>1, <3>4 DEF Encodes, Writes, EndsRow, Attended, InRow
      <4> QED BY <4>1
    <3>5. CASE RaisesExit(t) \/ Releases(t)
      BY <1>1, <3>1, <3>5 DEF RaisesExit, Releases, Attended, InRow
    <3> QED BY <3>2, <3>3, <3>4, <3>5 DEF WorkerStep
  <2> QED BY <2>2, <2>3
<1>6. CASE ~(\E u \in Workers : pc[u] \in Gone)
  <2>1. pc[t] \notin Gone /\ pc'[t] \in Gone
    BY <1>1, <1>4, <1>6
  <2>2. pc[t] = "fetch" /\ Eligible = {}
    BY <1>2, <2>1 DEF WorkerStep, Walks, Route, LfWork, LfHorzPlaces, Takes, Encodes, Writes, EndsRow, RaisesExit, Releases,
                      Gone, LfPlaces, LfWork, LfHorzPlaces
  <2>3. num_threads_working[k] >= 1
    <3>1. k \notin Eligible
      BY <2>2
    <3>2. ~(num_threads_working[k] < ThreadLimit(k)) /\ num_threads_working[k] \in Int
      BY <1>3, <3>1 DEF Eligible, Shapes
    <3>3. RowsOf(k) \in Nat \ {0} /\ ColsOf(k) \in Nat \ {0}
      BY Sizes
    <3>4. (ColsOf(k) + 1) \div 2 >= 1 /\ (ColsOf(k) + 1) \div 2 \in Int
      BY <3>3
    <3>5. ThreadLimit(k) >= 1 /\ ThreadLimit(k) \in Int
      BY <3>3, <3>4 DEF ThreadLimit, Min2
    <3> QED BY <3>2, <3>5
  <2>4. LostTo(k) # {}
    <3>1. Cardinality(LostTo(k)) >= 1
      BY <2>3, CrewIsFinite, SMTT(30) DEF ThreadsAreCounted, Shapes
    <3> QED BY <3>1, FS_EmptySet
  <2>5. PICK v \in LostTo(k) : TRUE
    BY <2>4
  <2>6. v \in Workers /\ tile[v] = k /\ pc[v] \in InRow \cup {"error"}
    BY <1>2, <2>5 DEF LostTo, ExitMeans
  <2>7. v # t /\ pc[v] \in Attended
    BY <2>2, <2>6 DEF InRow, Attended
  <2> QED BY <1>4, <2>6, <2>7
<1> QED BY <1>5, <1>6

\* The tiles whose row is over at r stay among themselves; a row that ends joins them.
LEMMA OverStays ==
  ASSUME Shapes, WorkerPlace, setup' = setup, Shapes', NEW t \in Workers, WorkerStep(t), NEW r \in Nat
  PROVE  /\ OverAt(r) \subseteq OverAt(r)' /\ OverAt(r)' \subseteq TilesAt(setup, r)
         /\ IsFiniteSet(OverAt(r)) /\ IsFiniteSet(OverAt(r)')
         /\ Cardinality(OverAt(r)) \in Nat /\ Cardinality(OverAt(r)') \in Nat
<1> USE DEF queueVars
<1>1. ASSUME NEW k \in OverAt(r) PROVE k \in OverAt(r)'
  <2> DEFINE i == r - RowStart(k)
  <2>1. k \in TilesAt(setup, r) /\ Over(k, i) /\ k \in Tiles
    BY DEF OverAt, TilesAt, Tiles
  <2>2. i \in Int /\ i < next_row[k] /\ next_row[k] \in Nat /\ next_row'[k] \in Nat /\ next_row[k] <= next_row'[k]
    BY <2>1, Common, Sizes DEF Over
  <2>3. \A u \in Workers \ {t} : ~(pc'[u] \in InRow /\ tile'[u] = k /\ row'[u] = i)
    BY <2>1, Common DEF Over, OthersStay, Stirs, InRow
  <2>4. ~(pc'[t] \in InRow /\ tile'[t] = k /\ row'[t] = i)
    <3>1. ASSUME NEW j \in Tiles, Takes(t, j) PROVE ~(tile'[t] = k /\ row'[t] = i)
      BY <2>2, <3>1 DEF Takes
    <3>2. CASE tile'[t] = tile[t] /\ row'[t] = row[t] /\ (pc'[t] \in InRow => pc[t] \in InRow)
      BY <2>1, <3>2 DEF Over
    <3> QED BY <3>1, <3>2 DEF WorkerStep, Walks, Route, LfWork, LfHorzPlaces, Encodes, Writes, EndsRow, RaisesExit, Releases, InRow
  <2>5. row_mt_exit' \/ \A c \in 0..(ColsOf(k) - 1) : <<k, i, c>> \in encoded'
    BY <2>1, Common DEF Over, RowComplete
  <2>6. i < next_row'[k]
    BY <2>2
  <2> HIDE DEF i
  <2>7. Over(k, i)'
    <3>1. \A u \in Workers : ~(pc'[u] \in InRow /\ tile'[u] = k /\ row'[u] = i')
      BY <2>3, <2>4 DEF i, RowStart
    <3>2. i' = i
      BY DEF i, RowStart
    <3> QED BY <2>5, <2>6, <3>1, <3>2 DEF Over, RowComplete, ColsOf, Workers
  <2> QED BY <2>1, <2>7 DEF OverAt, i
<1>2. OverAt(r)' \subseteq TilesAt(setup, r) /\ OverAt(r) \subseteq TilesAt(setup, r)
  BY DEF OverAt
<1>3. IsFiniteSet(TilesAt(setup, r))
  BY TilesAtRow DEF Shapes
<1>4. IsFiniteSet(OverAt(r)) /\ IsFiniteSet(OverAt(r)')
  BY <1>2, <1>3, SubsetSize
<1> QED BY <1>1, <1>2, <1>4, FS_CardinalityType

\* num_tile_cols_done rises when a row of a tile is over.
LEMMA DoneIsOverKept ==
  ASSUME Shapes, WorkerPlace, RowsAreDisjoint, RowSoFar, DoneIsOver,
         setup' = setup, Shapes', NEW t \in Workers, WorkerStep(t)
  PROVE  DoneIsOver'
<1> USE DEF queueVars
<1>1. SUFFICES ASSUME NEW r \in 0..(FrameRows - 1) PROVE num_tile_cols_done'[r] <= Cardinality(OverAt(r)')
  BY DEF DoneIsOver, FrameRows
<1>2. /\ num_tile_cols_done[r] \in Nat /\ num_tile_cols_done'[r] \in Nat /\ r \in Nat
      /\ num_tile_cols_done[r] <= Cardinality(OverAt(r))
  <2>1. FrameRows' = FrameRows
    BY DEF FrameRows
  <2>2. num_tile_cols_done[r] \in Nat /\ num_tile_cols_done'[r] \in Nat
    BY <2>1 DEF Shapes
  <2>3. num_tile_cols_done[r] <= Cardinality(OverAt(r))
    BY DEF DoneIsOver
  <2> QED BY <2>2, <2>3
<1>3. /\ OverAt(r) \subseteq OverAt(r)'
      /\ IsFiniteSet(OverAt(r)) /\ IsFiniteSet(OverAt(r)')
      /\ Cardinality(OverAt(r)) \in Nat /\ Cardinality(OverAt(r)') \in Nat
  BY <1>2, OverStays
<1>4. Cardinality(OverAt(r)) <= Cardinality(OverAt(r)')
  BY <1>3, SubsetSize
<1>5. CASE num_tile_cols_done'[r] = num_tile_cols_done[r]
  BY <1>2, <1>3, <1>4, <1>5
<1>6. CASE EndsRow(t) /\ r = RowStart(tile[t]) + row[t]
  <2> DEFINE k == tile[t]
             i == row[t]
  <2>1. k \in Tiles /\ i \in Nat /\ i < RowsOf(k) /\ i < next_row[k] /\ pc[t] \in InRow
        /\ RowStart(k) \in Nat /\ RowsOf(k) \in Nat
    BY <1>6, Common, Sizes DEF EndsRow, InRow, WorkerPlace
  <2>2. r - RowStart(k) = i
    BY <1>6, <2>1
  <2>3. k \notin OverAt(r)
    BY <2>1, <2>2 DEF OverAt, Over
  <2>4. k \in TilesAt(setup, r)
    <3> HIDE DEF k, i
    <3>1. r \in RowStart(k)..(RowStart(k) + RowsOf(k) - 1)
      BY <1>6, <2>1 DEF k, i
    <3> QED BY <2>1, <3>1 DEF TilesAt, Tiles, RowStart, RowsOf
  <2>5. Over(k, i)'
    <3>1. /\ pc'[t] = "fetch" /\ tile' = tile /\ row' = row /\ next_row' = next_row
          /\ row_mt_exit' = row_mt_exit /\ encoded' = encoded /\ pc[t] = "row_done"
      BY <1>6 DEF EndsRow
    <3>2. \A u \in Workers : ~(pc'[u] \in InRow /\ tile'[u] = k /\ row'[u] = i)
      <4>1. ASSUME NEW u \in Workers \ {t} PROVE ~(pc'[u] \in InRow /\ tile'[u] = k /\ row'[u] = i)
        <5>1. pc'[u] \in InRow => pc[u] \in InRow
          BY Common DEF OthersStay, Stirs, InRow
        <5> QED BY <2>1, <3>1, <5>1 DEF RowsAreDisjoint
      <4> QED BY <3>1, <4>1 DEF InRow
    <3>3. row_mt_exit \/ RowComplete(k, i)
      <4>1. ASSUME ~row_mt_exit PROVE RowComplete(k, i)
        <5>1. col[t] = ColsOf(k) /\ \A c \in 0..(col[t] - 1) : <<k, i, c>> \in encoded
          BY <2>1, <3>1, <4>1 DEF RowSoFar, Spoilt
        <5> QED BY <5>1 DEF RowComplete
      <4> QED BY <4>1
    <3>4. k' = k /\ i' = i
      BY <3>1
    <3> HIDE DEF k, i
    <3> QED BY <2>1, <3>1, <3>2, <3>3, <3>4 DEF Over, RowComplete, ColsOf, Workers
  <2>6. k \in OverAt(r)'
    <3>1. k' = k /\ i' = i /\ RowStart(k)' = RowStart(k)
      BY <1>6 DEF EndsRow, RowStart
    <3> HIDE DEF k, i
    <3>2. Over(k, r - RowStart(k))'
      BY <2>2, <2>5, <3>1 DEF Over, RowComplete, ColsOf, RowStart
    <3> QED BY <2>4, <3>1, <3>2 DEF OverAt
  <2>7. Cardinality(OverAt(r)) + 1 <= Cardinality(OverAt(r)')
    <3> HIDE DEF k, i
    <3>1. IsFiniteSet(OverAt(r) \cup {k}) /\ Cardinality(OverAt(r) \cup {k}) = Cardinality(OverAt(r)) + 1
      BY <1>3, <2>3, OneMore
    <3>2. OverAt(r) \cup {k} \subseteq OverAt(r)'
      BY <1>3, <2>6
    <3>3. Cardinality(OverAt(r) \cup {k}) <= Cardinality(OverAt(r)')
      BY <1>3, <3>2, SubsetSize
    <3> QED BY <3>1, <3>3
  <2>8. num_tile_cols_done'[r] = num_tile_cols_done[r] + 1
    BY <1>6 DEF EndsRow
  <2> QED BY <1>2, <1>3, <2>7, <2>8
<1>7. CASE EndsRow(t) /\ r # RowStart(tile[t]) + row[t]
  BY <1>5, <1>7 DEF EndsRow
<1> QED BY <1>5, <1>6, <1>7 DEF WorkerStep, Walks, Takes, Encodes, Writes, RaisesExit, Releases

\* A row all of whose tiles are counted is complete, unless a worker has failed.
LEMMA CountedRow ==
  ASSUME Shapes, DoneIsOver, ~row_mt_exit, NEW r \in 0..(FrameRows - 1), RowEncoded(r)
  PROVE  \A k \in TilesAt(setup, r) : RowComplete(k, r - RowStart(k))
<1>1. /\ IsFiniteSet(TilesAt(setup, r)) /\ Cardinality(TilesAt(setup, r)) <= NumTileCols
      /\ NumTileCols \in Nat /\ r \in Nat
  BY TilesAtRow, Sizes DEF Shapes, NumTileCols
<1>2. OverAt(r) \subseteq TilesAt(setup, r)
  BY DEF OverAt
<1>3. /\ Cardinality(OverAt(r)) \in Nat /\ Cardinality(TilesAt(setup, r)) \in Nat
      /\ Cardinality(OverAt(r)) <= Cardinality(TilesAt(setup, r))
      /\ Cardinality(OverAt(r)) = Cardinality(TilesAt(setup, r)) => OverAt(r) = TilesAt(setup, r)
  BY <1>1, <1>2, SubsetSize, FS_CardinalityType
<1>4. num_tile_cols_done[r] \in Nat /\ num_tile_cols_done[r] >= NumTileCols
      /\ num_tile_cols_done[r] <= Cardinality(OverAt(r))
  BY DEF Shapes, RowEncoded, DoneIsOver
<1>5. OverAt(r) = TilesAt(setup, r)
  BY <1>1, <1>3, <1>4
<1> QED BY <1>5 DEF OverAt, Over

\* There are no tiles below the last row.
LEMMA NoTilesBelow ==
  ASSUME Shapes PROVE TilesAt(setup, FrameRows) = {}
<1> SUFFICES ASSUME NEW k \in TilesAt(setup, FrameRows) PROVE FALSE
  OBVIOUS
<1>1. k \in Tiles /\ FrameRows \in RowStart(k)..(RowStart(k) + RowsOf(k) - 1)
  BY DEF TilesAt, Tiles, RowStart, RowsOf
<1> QED BY <1>1, Sizes

\* The sizes of the loop filter's part.
LEMMA LfSizes ==
  ASSUME Shapes
  PROVE  /\ FrameRows \in Nat \ {0} /\ FrameCols \in Nat \ {0} /\ setup.lf_planes \in Nat \ {0}
         /\ setup.lf_sync_range \in {1, 2, 4, 8} /\ setup.pipelined \in BOOLEAN
         /\ LfCols \in Nat \ {0} /\ LfCols <= FrameCols
         /\ HalfOfLfJobs \in Nat \ {0} /\ NumLfJobs = HalfOfLfJobs + HalfOfLfJobs /\ NumLfJobs \in Nat
<1>1. setup \in Setup /\ setup \in Setups /\ FrameRows \in Nat \ {0}
  BY EncRowMtAssumption, Sizes DEF Shapes
<1>2. /\ setup.lf_planes \in Nat \ {0} /\ setup.lf_sync_range \in {1, 2, 4, 8}
      /\ setup.pipelined \in BOOLEAN /\ setup.sb_128 \in BOOLEAN
  BY <1>1 DEF Setup
<1>3. FrameCols \in Nat \ {0}
  <2> DEFINE C == setup.col_start_sb
  <2>1. C \in Seq(Nat) /\ CutsAll(C)
    BY <1>1, SetupParts
  <2>2. Len(C) \in Nat /\ Len(C) > 1 /\ C[1] = 0
    BY <2>1, Cuts
  <2>3. FrameCols = C[Len(C)]
    BY DEF FrameCols, FrameColsIn
  <2> HIDE DEF C
  <2>4. 1 \in 1..Len(C) /\ Len(C) \in 1..Len(C) /\ 1 < Len(C)
    BY <2>2
  <2>5. C[Len(C)] \in Nat /\ C[1] < C[Len(C)]
    BY <2>1, <2>4, Cuts
  <2> QED BY <2>2, <2>3, <2>5
<1>4. LfCols \in Nat \ {0} /\ LfCols <= FrameCols
  <2>1. LfCols = IF setup.sb_128 THEN FrameCols ELSE (FrameCols + 1) \div 2
    BY DEF LfCols, LfColsIn, FrameCols
  <2>2. (FrameCols + 1) \div 2 \in Nat \ {0} /\ (FrameCols + 1) \div 2 <= FrameCols
    BY <1>3
  <2> QED BY <1>3, <2>1, <2>2
<1>5. HalfOfLfJobs \in Nat \ {0}
  BY <1>1, <1>2 DEF HalfOfLfJobs
<1>6. NumLfJobs = HalfOfLfJobs + HalfOfLfJobs
  BY <1>5 DEF NumLfJobs
<1> QED BY <1>1, <1>2, <1>3, <1>4, <1>5, <1>6

\* A job is one row of one plane.
LEMMA JobIsInFrame ==
  ASSUME Shapes, NEW n \in Nat
  PROVE  JobRow(n) \in 0..(FrameRows - 1) /\ JobPlane(n) \in 0..(setup.lf_planes - 1)
<1>1. /\ FrameRows \in Nat \ {0} /\ setup.lf_planes \in Nat \ {0}
      /\ HalfOfLfJobs \in Nat \ {0} /\ HalfOfLfJobs = FrameRows * setup.lf_planes
  BY LfSizes DEF HalfOfLfJobs
<1> DEFINE m == n % HalfOfLfJobs
<1>2. m \in 0..(FrameRows * setup.lf_planes - 1)
  BY <1>1
<1> HIDE DEF m
<1>3. m \div setup.lf_planes \in 0..(FrameRows - 1)
  BY <1>1, <1>2, TileIndex
<1>4. n % setup.lf_planes \in 0..(setup.lf_planes - 1)
  BY <1>1
<1> QED BY <1>3, <1>4 DEF JobRow, JobPlane, m

\* A worker is at the row of its job as long as it has it.
LEMMA JobStays ==
  ASSUME setup' = setup, NEW u, lf_job'[u] = lf_job[u]
  PROVE  LfRow(u)' = LfRow(u) /\ LfPlane(u)' = LfPlane(u)
<1>1. /\ LfRow(u) = (lf_job[u] % (FrameRowsIn(setup) * setup.lf_planes)) \div setup.lf_planes
      /\ LfRow(u)' = (lf_job'[u] % (FrameRowsIn(setup') * setup'.lf_planes)) \div setup'.lf_planes
  BY DEF LfRow, JobRow, HalfOfLfJobs, FrameRows
<1>2. LfPlane(u) = lf_job[u] % setup.lf_planes /\ LfPlane(u)' = lf_job'[u] % setup'.lf_planes
  BY DEF LfPlane, JobPlane
<1> QED BY <1>1, <1>2, Zenon

\* launch_loop_filter_rows waits for all tiles of its row and of the row below.
LEMMA FilterReadyKept ==
  ASSUME Shapes, WorkerPlace, DoneIsOver, FilterReady, setup' = setup, Shapes', NEW t \in Workers, WorkerStep(t)
  PROVE  FilterReady'
<1> DEFINE Ready(u) == \A r \in {LfRow(u), LfRow(u) + 1} : \A k \in TilesAt(setup, r) :
                           RowComplete(k, r - RowStart(k))
<1>1. ASSUME NEW u \in Workers, lf_job'[u] = lf_job[u], Ready(u)
      PROVE  Ready(u)'
  <2>1. LfRow(u)' = LfRow(u)
    BY <1>1, JobStays
  <2>2. ASSUME NEW r \in {LfRow(u), LfRow(u) + 1}, NEW k \in TilesAt(setup, r)
        PROVE  \A c \in 0..(ColsIn(setup, k) - 1) : <<k, r - RowStartIn(setup, k), c>> \in encoded'
    BY <1>1, <2>2, Common DEF RowComplete, ColsOf, RowStart
  <2> QED BY <2>1, <2>2 DEF RowComplete, ColsOf, RowStart
<1>2. ASSUME NEW u \in Workers \ {t} PROVE pc'[u] \in LfWork => Ready(u)'
  <2>1. lf_job'[u] = lf_job[u] /\ (pc'[u] \in LfWork => pc[u] \in LfWork)
    BY Common DEF OthersStay, Stirs, LfWork, LfHorzPlaces
  <2>2. pc[u] \in LfWork => Ready(u)
    BY DEF FilterReady
  <2> HIDE DEF Ready
  <2> QED BY <1>1, <2>1, <2>2
<1>3. pc'[t] \in LfWork => Ready(t)'
  <2> SUFFICES ASSUME pc'[t] \in LfWork PROVE Ready(t)'
    OBVIOUS
  <2>1. Walks(t)
    BY DEF WorkerStep, Takes, Encodes, Writes, EndsRow, RaisesExit, Releases, LfWork, LfHorzPlaces
  <2>2. /\ lf_job'[t] = lf_job[t]
        /\ \/ pc[t] \in LfWork
           \/ pc[t] = "lf_wait" /\ ~row_mt_exit /\ RowEncoded(LfRow(t)) /\ RowEncoded(NextLfRow(t))
    BY <2>1 DEF Walks, Route, LfPlaces, LfWork, LfHorzPlaces
  <2>3. CASE pc[t] \in LfWork
    <3>1. Ready(t)
      BY <2>3 DEF FilterReady
    <3> HIDE DEF Ready
    <3> QED BY <1>1, <2>2, <3>1
  <2>4. CASE ~row_mt_exit /\ RowEncoded(LfRow(t)) /\ RowEncoded(NextLfRow(t))
    <3> DEFINE r == LfRow(t)
    <3>1. r \in 0..(FrameRows - 1) /\ FrameRows \in Nat
      BY JobIsInFrame, Sizes DEF LfRow, Shapes
    <3>2. NextLfRow(t) = Min2(FrameRows - 1, r + 1)
      BY DEF NextLfRow
    <3> HIDE DEF r
    <3>3. \A k \in TilesAt(setup, r) : RowComplete(k, r - RowStart(k))
      BY <2>4, <3>1, CountedRow DEF r
    <3>4. \A k \in TilesAt(setup, r + 1) : RowComplete(k, (r + 1) - RowStart(k))
      <4>1. CASE r + 1 = FrameRows
        BY <4>1, NoTilesBelow
      <4>2. CASE r + 1 # FrameRows
        <5>1. NextLfRow(t) = r + 1 /\ r + 1 \in 0..(FrameRows - 1)
          BY <3>1, <3>2, <4>2 DEF Min2
        <5> QED BY <2>4, <5>1, CountedRow
      <4> QED BY <4>1, <4>2
    <3>5. Ready(t)
      BY <3>3, <3>4 DEF r
    <3> HIDE DEF Ready
    <3> QED BY <1>1, <2>2, <3>5
  <2> QED BY <2>2, <2>3, <2>4
<1> QED BY <1>2, <1>3 DEF FilterReady, Workers

\* A worker takes a step only while its frame is under way.
LEMMA BusyIsKept ==
  ASSUME Shapes, FrameIsOver, setup' = setup, NEW t \in Workers, WorkerStep(t), Shapes'
  PROVE  outcome = "busy" /\ outcome' = "busy"
<1>1. pc[t] \notin {"returned", "failed"}
  BY DEF WorkerStep, Walks, Route, LfWork, LfHorzPlaces, Takes, Encodes, Writes, EndsRow, RaisesExit, Releases
<1> QED BY <1>1, Common DEF FrameIsOver

\* The outcome is decided only by Join.
LEMMA OutcomeKept ==
  ASSUME Shapes, FrameIsOver, setup' = setup, NEW t \in Workers, WorkerStep(t), Shapes'
  PROVE  FrameIsOver' /\ EncodingIsTrue'
BY BusyIsKept DEF FrameIsOver, EncodingIsTrue

-----------------------------------------------------------------------------
\* A frame begins and ends.

\* The state a frame starts in satisfies the invariant.
LEMMA FreshIsFine == setup \in Setups /\ FreshFrame => IInv
<1> SUFFICES ASSUME setup \in Setups, FreshFrame PROVE IInv
  OBVIOUS
<1>1. Shapes
  <2>1. setup.workers \in Nat /\ NumTiles \in Nat \ {0}
    BY SetupParts DEF NumTiles, NumTileCols
  <2>2. \A t \in Workers : t % NumTiles \in Tiles
    BY <2>1 DEF Workers, Tiles, TilesIn, NumTiles, NumTileCols
  <2>3. pc \in [Workers -> Places] /\ tile \in [Workers -> Tiles]
    BY <2>2 DEF FreshFrame, Places
  <2>4. /\ row \in [Workers -> Nat] /\ col \in [Workers -> Nat]
        /\ lf_job \in [Workers -> Nat] /\ lf_col \in [Workers -> Nat]
        /\ next_row \in [Tiles -> Nat] /\ num_threads_working \in [Tiles -> Int]
    BY DEF FreshFrame
  <2>5. num_finished_cols \in [RowIds -> Int] /\ num_tile_cols_done \in [0..(FrameRows - 1) -> Nat]
    BY DEF FreshFrame
  <2>6. /\ row_mt_exit \in BOOLEAN /\ lf_mt_exit \in BOOLEAN /\ jobs_dequeued \in Nat
        /\ encoded \subseteq Superblocks /\ outcome \in {"busy", "ok", "error"}
    BY DEF FreshFrame
  <2> QED BY <2>3, <2>4, <2>5, <2>6 DEF Shapes
<1>2. \A k \in Tiles : /\ next_row[k] = 0 /\ num_threads_working[k] = 0
                       /\ RowsOf(k) \in Nat \ {0} /\ ColsOf(k) \in Nat \ {0} /\ Done(k) \in Nat
  BY <1>1, Sizes DEF FreshFrame
<1>3. \A u \in Workers : pc[u] = "start" /\ row[u] = 0 /\ col[u] = 0 /\ tile[u] \in Tiles
  BY <1>1 DEF FreshFrame, Shapes
<1>4. WorkerPlace /\ QueuePlace /\ ExitMeans /\ RowsAreDisjoint
  BY <1>1, <1>2, <1>3, Sizes DEF FreshFrame, WorkerPlace, QueuePlace, ExitMeans, RowsAreDisjoint, InRow, LfPlaces
<1>5. CountsAreTrue
  <2> SUFFICES ASSUME NEW k \in Tiles, NEW r \in 0..(RowsOf(k) - 1)
               PROVE  /\ num_finished_cols[<<k, r>>] \in -1..Done(k)
                      /\ \A c \in 0..(ColsOf(k) - 1) : ~(c <= num_finished_cols[<<k, r>>])
    BY DEF CountsAreTrue
  <2>1. <<k, r>> \in RowIds
    BY <1>1, InTile DEF Shapes, Tiles, RowIds, RowsOf
  <2>2. num_finished_cols[<<k, r>>] = -1
    BY <2>1 DEF FreshFrame
  <2> QED BY <1>2, <2>2
<1>6. RowSoFar /\ AboveIsReady /\ FilterReady
  BY <1>3 DEF RowSoFar, AboveIsReady, FilterReady, InRow, LfWork, LfHorzPlaces
<1>7. RowsAreCovered /\ NobodyLeavesWork
  BY <1>2, <1>3 DEF RowsAreCovered, NobodyLeavesWork, Gone, LfPlaces, LfWork, LfHorzPlaces
<1>8. ThreadsAreCounted
  <2> SUFFICES ASSUME NEW k \in Tiles
               PROVE  Cardinality(WorkersOf(k)) = 0 /\ Cardinality(LostTo(k)) \in Nat
    BY <1>2 DEF ThreadsAreCounted
  <2>1. WorkersOf(k) = {}
    BY <1>3 DEF WorkersOf, InRow
  <2> QED BY <1>1, <2>1, FS_EmptySet, CrewIsFinite
<1>9. DoneIsOver
  <2> SUFFICES ASSUME NEW r \in 0..(FrameRows - 1) PROVE num_tile_cols_done[r] <= Cardinality(OverAt(r))
    BY DEF DoneIsOver
  <2>1. num_tile_cols_done[r] = 0
    BY DEF FreshFrame
  <2>2. IsFiniteSet(TilesAt(setup, r)) /\ OverAt(r) \subseteq TilesAt(setup, r)
    BY <1>1, TilesAtRow, Sizes DEF OverAt
  <2>3. Cardinality(OverAt(r)) \in Nat
    BY <2>2, SubsetSize, FS_CardinalityType
  <2> QED BY <2>1, <2>3
<1>10. FrameIsOver /\ EncodingIsTrue
  BY DEF FreshFrame, FrameIsOver, EncodingIsTrue
<1> QED BY <1>1, <1>4, <1>5, <1>6, <1>7, <1>8, <1>9, <1>10 DEF IInv

\* A frame that ends with no failed worker is complete, and row_mt_exit tells
\* whether one has failed.
LEMMA JoinIsTrue ==
  ASSUME IInv, Join
  PROVE  /\ outcome' = "ok" => encoded = Superblocks
         /\ outcome' \in {"ok", "error"} /\ (outcome' = "error" <=> row_mt_exit)
<1> USE DEF IInv
<1>1. \A t \in Workers : pc[t] \in {"returned", "failed"}
  BY DEF Join
<1>2. outcome' = IF \E t \in Workers : pc[t] = "failed" THEN "error" ELSE "ok"
  BY DEF Join
<1>3. row_mt_exit <=> \E t \in Workers : pc[t] = "failed"
  BY <1>1 DEF ExitMeans
<1>4. ASSUME ~row_mt_exit PROVE encoded = Superblocks
  <2>1. 0 \in Workers
    BY Sizes DEF Workers
  <2>2. pc[0] \in Gone
    BY <1>1, <1>3, <1>4, <2>1 DEF Gone
  <2>3. \A k \in Tiles : ~(next_row[k] < RowsOf(k))
    BY <1>1, <1>4, <2>1, <2>2 DEF NobodyLeavesWork, Attended, InRow
  <2>4. \A k \in Tiles : \A r \in 0..(RowsOf(k) - 1) : RowComplete(k, r)
    <3> SUFFICES ASSUME NEW k \in Tiles, NEW r \in 0..(RowsOf(k) - 1) PROVE RowComplete(k, r)
      OBVIOUS
    <3>1. next_row[k] \in Nat /\ RowsOf(k) \in Nat /\ r \in 0..(next_row[k] - 1)
      BY <2>3, Sizes, SMTT(30) DEF Shapes
    <3> QED BY <1>1, <1>4, <3>1 DEF RowsAreCovered, InRow
  <2>5. Superblocks \subseteq encoded
    <3> SUFFICES ASSUME NEW b \in Superblocks PROVE b \in encoded
      OBVIOUS
    <3>1. b[1] \in Tiles /\ b[2] \in 0..(RowsOf(b[1]) - 1) /\ b[3] \in 0..(ColsOf(b[1]) - 1)
          /\ b = <<b[1], b[2], b[3]>>
      BY OfTile DEF Shapes, Superblocks, Tiles, RowsOf, ColsOf
    <3> QED BY <2>4, <3>1 DEF RowComplete
  <2> QED BY <2>5 DEF Shapes
<1> QED BY <1>2, <1>3, <1>4

\* sync_enc_workers.
LEMMA JoinKept == IInv /\ Join => IInv'
<1> SUFFICES ASSUME IInv, Join PROVE IInv'
  OBVIOUS
<1> USE DEF lfVars, queueVars
<1>1. UNCHANGED <<setup, pc, tile, row, col, next_row, num_threads_working, num_finished_cols, num_tile_cols_done,
                  row_mt_exit, lf_mt_exit, jobs_dequeued, lf_job, lf_col, encoded>>
  BY DEF Join
<1>2. outcome' \in {"busy", "ok", "error"}
  BY JoinIsTrue
<1>3. Shapes'
  BY <1>1, <1>2 DEF IInv, Shapes, Workers, Tiles, RowIds, FrameRows, Superblocks
<1>4. WorkerPlace' /\ QueuePlace' /\ ExitMeans' /\ RowsAreDisjoint'
  BY <1>1 DEF IInv, WorkerPlace, QueuePlace, ExitMeans, RowsAreDisjoint, Workers, Tiles, RowsOf, ColsOf, FrameRows
<1>5. CountsAreTrue'
  BY <1>1 DEF IInv, CountsAreTrue, Tiles, RowsOf, ColsOf, Done
<1>6. RowSoFar' /\ AboveIsReady'
  BY <1>1 DEF IInv, RowSoFar, AboveIsReady, AboveEncoded, Spoilt, Workers, ColsOf
<1>7. RowsAreCovered' /\ NobodyLeavesWork'
  BY <1>1 DEF IInv, RowsAreCovered, NobodyLeavesWork, RowComplete, Workers, Tiles, RowsOf, ColsOf
<1>8. ThreadsAreCounted'
  <2>1. \A k : WorkersOf(k)' = WorkersOf(k) /\ LostTo(k)' = LostTo(k)
    BY <1>1 DEF WorkersOf, LostTo, Workers
  <2> QED BY <1>1, <2>1 DEF IInv, ThreadsAreCounted, Tiles
<1>9. DoneIsOver'
  <2>1. \A r : OverAt(r)' = OverAt(r)
    BY <1>1 DEF OverAt, Over, RowComplete, RowStart, ColsOf, Workers
  <2> QED BY <1>1, <2>1 DEF IInv, DoneIsOver, FrameRows
<1>10. FilterReady'
  <2>1. \A u : LfRow(u)' = LfRow(u)
    BY <1>1, JobStays
  <2> QED BY <1>1, <2>1 DEF IInv, FilterReady, RowComplete, RowStart, ColsOf, Workers
<1>11. FrameIsOver' /\ EncodingIsTrue'
  <2>1. \A t \in Workers : pc[t] \in {"returned", "failed"}
    BY DEF Join
  <2>2. Superblocks' = Superblocks
    BY <1>1 DEF Superblocks
  <2> QED BY <1>1, <2>1, <2>2, JoinIsTrue DEF FrameIsOver, EncodingIsTrue, Workers
<1> QED BY <1>3, <1>4, <1>5, <1>6, <1>7, <1>8, <1>9, <1>10, <1>11 DEF IInv

\* The next frame starts from nothing.
LEMMA StartKept == IInv /\ StartFrame => IInv'
<1>1. setup \in Setups /\ StartFrame => setup' \in Setups /\ FreshFrame'
  BY DEF StartFrame, FreshFrame, Workers, Tiles, NumTiles, NumTileCols, RowIds, LfRowIds, FrameRows
<1>2. (setup \in Setups /\ FreshFrame => IInv)'
  BY FreshIsFine, PTL
<1> QED BY <1>1, <1>2 DEF IInv, Shapes

\* The invariant is inductive.
LEMMA NextIInv == IInv /\ [Next]_vars => IInv'
<1> SUFFICES ASSUME IInv, [Next]_vars PROVE IInv'
  OBVIOUS
<1>1. CASE Next
  <2>1. setup' = setup /\ Shapes' /\ (Join \/ StartFrame \/ \E t \in Workers : WorkerStep(t))
    BY <1>1, StepKinds DEF IInv
  <2>2. ASSUME NEW t \in Workers, WorkerStep(t) PROVE IInv'
    <3> USE DEF IInv
    <3>1. WorkerPlace' /\ QueuePlace' /\ ExitMeans' /\ RowsAreDisjoint'
      BY <2>1, <2>2, WorkerPlaceKept, QueuePlaceKept, ExitMeansKept, RowsAreDisjointKept
    <3>2. CountsAreTrue' /\ RowSoFar' /\ AboveIsReady' /\ RowsAreCovered'
      BY <2>1, <2>2, CountsAreTrueKept, RowSoFarKept, AboveIsReadyKept, RowsAreCoveredKept
    <3>3. ThreadsAreCounted' /\ NobodyLeavesWork' /\ DoneIsOver' /\ FilterReady'
      BY <2>1, <2>2, ThreadsAreCountedKept, NobodyLeavesWorkKept, DoneIsOverKept, FilterReadyKept
    <3>4. FrameIsOver' /\ EncodingIsTrue'
      BY <2>1, <2>2, OutcomeKept
    <3> QED BY <2>1, <3>1, <3>2, <3>3, <3>4
  <2> QED BY <2>1, <2>2, JoinKept, StartKept
<1>2. CASE UNCHANGED vars
  <2> USE <1>2 DEF vars, queueVars, lfVars, runVars
  <2>1. Shapes' /\ WorkerPlace' /\ QueuePlace' /\ ExitMeans' /\ RowsAreDisjoint' /\ CountsAreTrue'
    BY DEF IInv, Shapes, WorkerPlace, QueuePlace, ExitMeans, RowsAreDisjoint, CountsAreTrue,
           Workers, Tiles, RowIds, FrameRows, Superblocks, RowsOf, ColsOf, Done
  <2>2. RowSoFar' /\ AboveIsReady' /\ RowsAreCovered' /\ NobodyLeavesWork'
    BY DEF IInv, RowSoFar, AboveIsReady, AboveEncoded, Spoilt, RowsAreCovered, NobodyLeavesWork,
           RowComplete, Workers, Tiles, RowsOf, ColsOf
  <2>3. ThreadsAreCounted'
    <3>1. \A k : WorkersOf(k)' = WorkersOf(k) /\ LostTo(k)' = LostTo(k)
      BY DEF WorkersOf, LostTo, Workers
    <3> QED BY <3>1 DEF IInv, ThreadsAreCounted, Tiles
  <2>4. DoneIsOver'
    <3>1. \A r : OverAt(r)' = OverAt(r)
      BY DEF OverAt, Over, RowComplete, RowStart, ColsOf, Workers
    <3> QED BY <3>1 DEF IInv, DoneIsOver, FrameRows
  <2>5. FilterReady' /\ FrameIsOver' /\ EncodingIsTrue'
    <3>1. \A u : LfRow(u)' = LfRow(u)
      BY JobStays
    <3> QED BY <3>1 DEF IInv, FilterReady, RowComplete, RowStart, ColsOf, Workers, FrameIsOver, EncodingIsTrue,
                    Superblocks
  <2> QED BY <2>1, <2>2, <2>3, <2>4, <2>5 DEF IInv
<1> QED BY <1>1, <1>2

\* The invariant of the specification.
LEMMA Invariant == Spec => []IInv
<1>1. Init => IInv
  BY FreshIsFine DEF Init
<1> QED BY <1>1, NextIInv, PTL DEF Spec

-----------------------------------------------------------------------------
\* The filter: a second invariant, on top of IInv.

JobDir(n) == IF IsVert(n) THEN "vert" ELSE "horz"
JobBlock(n, c) == <<JobDir(n), JobRow(n), JobPlane(n), c>>
LfColIds == 0..(LfCols - 1)

LfTypes ==
    /\ cur_sb_col \in [LfRowIds -> Int]
    /\ \A x \in LfRowIds : cur_sb_col[x] \in -1..(FrameCols + setup.lf_sync_range)
    /\ jobs_dequeued <= NumLfJobs
    /\ \A u \in Workers : lf_job[u] < NumLfJobs /\ lf_col[u] <= LfCols
    /\ filtered \subseteq FilterBlocksIn(setup)

\* A worker at the filter has a job that was handed out, of the direction it works in.
FilterPlace ==
    \A u \in Workers :
        /\ pc[u] \in LfPlaces \cup {"lf_get"} => setup.pipelined
        /\ pc[u] \in LfPlaces => lf_job[u] < jobs_dequeued /\ lf_col[u] < LfCols
        /\ pc[u] \in {"lf_wait", "lf_asleep"} => lf_col[u] = 0
        /\ pc[u] \in {"lf_vert", "lf_write"} => IsVert(lf_job[u])
        /\ pc[u] \in LfHorzPlaces => ~IsVert(lf_job[u])

\* The filter's queue is closed only by a worker that failed.
FilterExit ==
    /\ lf_mt_exit => row_mt_exit
    /\ \A u \in Workers : pc[u] = "lf_release" => lf_mt_exit

\* What a worker has passed in its job is filtered.
LfPast(u) == IF pc[u] = "lf_write" THEN lf_col[u] + 1 ELSE lf_col[u]
LfSoFar ==
    \A u \in Workers : pc[u] \in LfPlaces =>
        \A c \in LfColIds : c < LfPast(u) => JobBlock(lf_job[u], c) \in filtered

\* Until a worker fails, the columns that are published are filtered.
EdgesAreTrue ==
    ~lf_mt_exit => \A x \in LfRowIds : \A c \in LfColIds :
        c <= cur_sb_col[x] => <<"vert", x[1], x[2], c>> \in filtered

\* What a worker has seen of a row at the last column it had to look at.
LfBase(u) == lf_col[u] - (lf_col[u] % setup.lf_sync_range)
OnTheWay(u) == lf_col[u] % setup.lf_sync_range # 0
Seen(u, x) ==
    x \in LfRowIds => \A c \in LfColIds :
        c <= LfBase(u) + setup.lf_sync_range => <<"vert", x[1], x[2], c>> \in filtered
SeesAbove(u) == \/ pc[u] \in {"lf_own", "lf_asleep_own", "lf_check"}
                \/ pc[u] \in {"lf_above", "lf_asleep_above"} /\ OnTheWay(u)
SeesOwn(u) ==
    \/ pc[u] = "lf_check"
    \/ pc[u] \in {"lf_above", "lf_asleep_above", "lf_own", "lf_asleep_own"} /\ OnTheWay(u)
EdgesAreSeen ==
    \A u \in Workers :
        /\ pc[u] = "lf_horz" \/ (~lf_mt_exit /\ SeesAbove(u)) => Seen(u, LfAbove(u))
        /\ pc[u] = "lf_horz" \/ (~lf_mt_exit /\ SeesOwn(u)) => Seen(u, LfOwn(u))

\* Until a worker fails, a job that was handed out is done or somebody's, and
\* nobody leaves while there are jobs.
JobComplete(n) == \A c \in LfColIds : JobBlock(n, c) \in filtered
JobsAreCovered ==
    ~row_mt_exit => \A n \in 0..(jobs_dequeued - 1) :
        JobComplete(n) \/ \E u \in Workers : pc[u] \in LfPlaces /\ lf_job[u] = n
NobodyLeavesJobs ==
    (~row_mt_exit /\ setup.pipelined /\ \E u \in Workers : pc[u] = "returned") => jobs_dequeued = NumLfJobs

FilteringIsTrue == outcome = "ok" => filtered = FilterBlocksIn(setup)

LfInv ==
    /\ LfTypes /\ FilterPlace /\ FilterExit /\ LfSoFar /\ EdgesAreTrue /\ EdgesAreSeen
    /\ JobsAreCovered /\ NobodyLeavesJobs /\ FilteringIsTrue

-----------------------------------------------------------------------------
\* What the steps of a worker do to the filter.

LfHere == {"lf_get", "lf_release"} \cup LfPlaces
LfRoute(t) ==
    \/ pc[t] \notin LfHere /\ pc'[t] \notin LfHere \cup {"returned"}
    \/ pc[t] = "fetch" /\ row_mt_exit /\ pc'[t] = "returned"
    \/ pc[t] = "fetch" /\ pc'[t] = IF setup.pipelined THEN "lf_get" ELSE "returned"
    \/ pc[t] = "lf_get" /\ pc'[t] = "returned" /\ (lf_mt_exit \/ jobs_dequeued >= NumLfJobs)
    \/ pc[t] = "lf_wait" /\ pc'[t] = "returned" /\ row_mt_exit
    \/ pc[t] = "lf_wait" /\ pc'[t] \in {"lf_asleep", LfBegin(t)}
    \/ pc[t] = "lf_asleep" /\ pc'[t] = "lf_wait"
    \/ pc[t] = "lf_above" /\ pc'[t] = "lf_own" /\ LfRowIs(LfAbove(t), lf_col[t])
    \/ pc[t] = "lf_above" /\ pc'[t] = "lf_asleep_above"
    \/ pc[t] = "lf_asleep_above" /\ pc'[t] = "lf_above"
    \/ pc[t] = "lf_own" /\ pc'[t] = "lf_check" /\ LfRowIs(LfOwn(t), lf_col[t])
    \/ pc[t] = "lf_own" /\ pc'[t] = "lf_asleep_own"
    \/ pc[t] = "lf_asleep_own" /\ pc'[t] = "lf_own"
    \/ pc[t] = "lf_check" /\ pc'[t] = "lf_get" /\ lf_mt_exit
    \/ pc[t] = "lf_check" /\ pc'[t] = "lf_horz" /\ ~lf_mt_exit
    \/ pc[t] = "lf_release" /\ pc'[t] = "failed"
LfWalks(t) ==
    /\ LfRoute(t)
    /\ UNCHANGED <<lf_mt_exit, jobs_dequeued, lf_job, lf_col, cur_sb_col, filtered>>

LfTakes(t) ==
    /\ pc[t] = "lf_get" /\ pc'[t] = "lf_wait" /\ ~lf_mt_exit /\ jobs_dequeued < NumLfJobs
    /\ lf_job'[t] = jobs_dequeued /\ lf_col'[t] = 0 /\ jobs_dequeued' = jobs_dequeued + 1
    /\ UNCHANGED <<lf_mt_exit, cur_sb_col, filtered>>

LfFiltersVert(t) ==
    /\ pc[t] = "lf_vert" /\ pc'[t] = "lf_write"
    /\ lf_job'[t] = lf_job[t] /\ lf_col'[t] = lf_col[t] /\ filtered' = filtered \cup {LfBlock(t)}
    /\ UNCHANGED <<lf_mt_exit, jobs_dequeued, cur_sb_col>>

LfFiltersHorz(t) ==
    /\ pc[t] = "lf_horz" /\ pc'[t] = IF lf_col[t] = LfCols - 1 THEN "lf_get" ELSE "lf_above"
    /\ lf_job'[t] = lf_job[t] /\ lf_col'[t] = lf_col[t] + 1 /\ filtered' = filtered \cup {LfBlock(t)}
    /\ UNCHANGED <<lf_mt_exit, jobs_dequeued, cur_sb_col>>

LfWrites(t) ==
    /\ pc[t] = "lf_write" /\ pc'[t] = IF lf_col[t] = LfCols - 1 THEN "lf_get" ELSE "lf_vert"
    /\ lf_job'[t] = lf_job[t] /\ lf_col'[t] = lf_col[t] + 1
    /\ \/ cur_sb_col' = cur_sb_col
       \/ cur_sb_col' = [cur_sb_col EXCEPT ![LfOwn(t)] =
             Max2(@, IF lf_col[t] = LfCols - 1 THEN LfCols + setup.lf_sync_range ELSE lf_col[t])]
    /\ UNCHANGED <<lf_mt_exit, jobs_dequeued, filtered>>

LfCloses(t) ==
    /\ pc[t] = "release" /\ pc'[t] = "lf_release" /\ lf_mt_exit'
    /\ UNCHANGED <<jobs_dequeued, lf_job, lf_col, cur_sb_col, filtered>>

LfReleases(t) ==
    /\ pc[t] = "lf_release" /\ pc'[t] = "lf_release"
    /\ \E x \in LfRowIds : cur_sb_col' = [cur_sb_col EXCEPT ![x] = Max2(@, FrameCols + setup.lf_sync_range)]
    /\ UNCHANGED <<lf_mt_exit, jobs_dequeued, lf_job, lf_col, filtered>>

LfStep(t) ==
    \/ LfWalks(t) \/ LfTakes(t) \/ LfFiltersVert(t) \/ LfFiltersHorz(t) \/ LfWrites(t)
    \/ LfCloses(t) \/ LfReleases(t)

\* Every step of a worker is of one of these kinds.
LEMMA LfStepKinds ==
  ASSUME Shapes, setup' = setup, Shapes', NEW t \in Workers, Moves(t), WorkerStep(t)
  PROVE  LfStep(t)
<1> USE DEF lfVars
<1>1. pc \in [Workers -> Places] /\ pc' \in [Workers -> Places]
  BY DEF Shapes, Workers
<1>2. ASSUME NEW w, GoesTo(t, w) PROVE pc'[t] = w
  BY <1>1, <1>2 DEF GoesTo
<1> DEFINE Same == UNCHANGED lfVars
<1>3. ASSUME Same, pc[t] \notin LfHere, pc'[t] \notin LfHere \cup {"returned"} PROVE LfStep(t)
  BY <1>3 DEF LfStep, LfWalks, LfRoute
<1>4. ASSUME Same, LfRoute(t) PROVE LfStep(t)
  BY <1>4 DEF LfStep, LfWalks
<1> HIDE DEF Same
<1>5. CASE Start(t) \/ SyncRead(t) \/ CheckExit(t) \/ SyncReadLate(t) \/ Throw(t)
  <2>1. Same /\ pc[t] \in {"start", "read", "check", "encode", "finish"}
    BY <1>5 DEF Start, SyncRead, CheckExit, SyncReadLate, Throw, Same
  <2>2. pc'[t] \in {"fetch", "check", "asleep", "row_done", "encode", "finish", "asleep_late", "error"}
    BY <1>2, <1>5 DEF Start, SyncRead, CheckExit, SyncReadLate, Throw
  <2> QED BY <1>3, <2>1, <2>2 DEF LfHere, LfPlaces, LfWork, LfHorzPlaces
<1>6. CASE FetchOwnTile(t) \/ FetchOtherTile(t)
  <2>1. PICK k : TakeRow(t, k) /\ pc[t] = "fetch"
    BY <1>6 DEF FetchOwnTile, FetchOtherTile
  <2>2. Same /\ pc'[t] = "read"
    BY <1>2, <2>1 DEF TakeRow, Same
  <2> QED BY <1>3, <2>1, <2>2 DEF LfHere, LfPlaces, LfWork, LfHorzPlaces
<1>7. CASE Encode(t) \/ Write(t) \/ RowDone(t) \/ RaiseExit(t)
  <2>1. Same /\ pc[t] \in {"encode", "finish", "write", "row_done", "error"}
    BY <1>7 DEF Encode, Write, RowDone, RaiseExit, Same
  <2>2. pc'[t] \in {"check", "asleep", "row_done", "encode", "finish", "asleep_late", "error", "write",
                    "read", "fetch", "release"}
    BY <2>1 DEF WorkerStep, Walks, Route, LfWork, LfHorzPlaces, Takes, Encodes, Writes, EndsRow, RaisesExit, Releases
  <2> QED BY <1>3, <2>1, <2>2 DEF LfHere, LfPlaces, LfWork, LfHorzPlaces
<1>8. CASE Release(t)
  <2>1. PICK x \in RowIds : SyncWrite(t, x[1], x[2], Done(x[1]), "release")
    BY <1>8 DEF Release
  <2>2. x[1] \in Tiles /\ <<x[1], x[2]>> \in RowIds
    BY OfTile DEF Shapes, RowIds, Tiles
  <2>3. Done(x[1]) \in Int
    BY <2>2, Sizes
  <2>4. pc[t] = "release" /\ "release" \in Places /\ Same
    BY <1>8 DEF Release, Places, Same
  <2>5. pc'[t] = "release"
    BY <2>1, <2>2, <2>3, <2>4, GoesAndWakes
  <2> QED BY <1>3, <2>4, <2>5 DEF LfHere, LfPlaces, LfWork, LfHorzPlaces
<1>9. CASE StopEncoding(t)
  <2>1. Same /\ pc[t] = "fetch"
    BY <1>9 DEF StopEncoding, Same
  <2>2. \/ row_mt_exit /\ pc'[t] = "returned"
        \/ pc'[t] = IF setup.pipelined THEN "lf_get" ELSE "returned"
    BY <1>2, <1>9 DEF StopEncoding
  <2> QED BY <1>4, <2>1, <2>2 DEF LfRoute
<1>10. CASE Failed(t)
  <2>1. Same /\ pc[t] \in {"release", "lf_release"} /\ pc'[t] = "failed"
    BY <1>2, <1>10 DEF Failed, Same
  <2> QED BY <1>4, <2>1 DEF LfRoute, LfHere, LfPlaces, LfWork, LfHorzPlaces
<1>11. CASE LfWait(t)
  <2>1. Same /\ pc[t] = "lf_wait"
    BY <1>11 DEF LfWait, Same
  <2>2. \/ row_mt_exit /\ pc'[t] = "returned"
        \/ pc'[t] \in {"lf_asleep", LfBegin(t)}
    BY <1>2, <1>11 DEF LfWait
  <2> QED BY <1>4, <2>1, <2>2 DEF LfRoute
<1>12. CASE LfReadAbove(t)
  <2>1. Same /\ pc[t] = "lf_above"
    BY <1>12 DEF LfReadAbove, Same
  <2>2. \/ pc'[t] = "lf_own" /\ LfRowIs(LfAbove(t), lf_col[t])
        \/ pc'[t] = "lf_asleep_above"
    BY <1>2, <1>12 DEF LfReadAbove
  <2> QED BY <1>4, <2>1, <2>2 DEF LfRoute
<1>13. CASE LfReadOwn(t)
  <2>1. Same /\ pc[t] = "lf_own"
    BY <1>13 DEF LfReadOwn, Same
  <2>2. \/ pc'[t] = "lf_check" /\ LfRowIs(LfOwn(t), lf_col[t])
        \/ pc'[t] = "lf_asleep_own"
    BY <1>2, <1>13 DEF LfReadOwn
  <2> QED BY <1>4, <2>1, <2>2 DEF LfRoute
<1>14. CASE LfCheckExit(t)
  <2>1. Same /\ pc[t] = "lf_check"
    BY <1>14 DEF LfCheckExit, Same
  <2>2. pc'[t] = IF lf_mt_exit THEN "lf_get" ELSE "lf_horz"
    BY <1>2, <1>14 DEF LfCheckExit
  <2> QED BY <1>4, <2>1, <2>2 DEF LfRoute
<1>15. CASE Spurious(t)
  <2>1. Same /\ pc[t] \in {"asleep", "asleep_late", "lf_asleep", "lf_asleep_above", "lf_asleep_own"}
    BY <1>15 DEF Spurious, Same
  <2>2. /\ pc[t] = "lf_asleep" => pc'[t] = "lf_wait"
        /\ pc[t] = "lf_asleep_above" => pc'[t] = "lf_above"
        /\ pc[t] = "lf_asleep_own" => pc'[t] = "lf_own"
        /\ pc[t] \in {"asleep", "asleep_late"} => pc'[t] \in {"read", "encode"}
    BY <1>2, <1>15 DEF Spurious, Woken
  <2> QED BY <1>4, <2>1, <2>2 DEF LfRoute, LfHere, LfPlaces, LfWork, LfHorzPlaces
<1>16. CASE LfClose(t)
  <2>1. pc'[t] = "lf_release"
    BY <1>2, <1>16 DEF LfClose
  <2> QED BY <1>16, <2>1 DEF LfClose, LfStep, LfCloses
<1>17. CASE LfRelease(t)
  <2>1. PICK x \in LfRowIds : LfSyncWrite(t, x, FrameCols + setup.lf_sync_range, "lf_release")
    BY <1>17 DEF LfRelease
  <2>2. pc'[t] = "lf_release"
    BY <2>1 DEF LfSyncWrite
  <2>3. cur_sb_col' = [cur_sb_col EXCEPT ![x] = Max2(@, FrameCols + setup.lf_sync_range)]
    BY <2>1 DEF LfSyncWrite
  <2> QED BY <1>17, <2>2, <2>3 DEF LfRelease, LfStep, LfReleases
<1>18. CASE LfGet(t)
  <2>1. CASE ~lf_mt_exit /\ jobs_dequeued < NumLfJobs
    <3>1. lf_job'[t] = jobs_dequeued /\ lf_col'[t] = 0
      BY <1>18, <2>1 DEF LfGet, Shapes
    <3>2. pc'[t] = "lf_wait"
      BY <1>2, <1>18, <2>1 DEF LfGet
    <3> QED BY <1>18, <2>1, <3>1, <3>2 DEF LfGet, LfStep, LfTakes
  <2>2. CASE ~(~lf_mt_exit /\ jobs_dequeued < NumLfJobs)
    <3>1. pc[t] = "lf_get" /\ pc'[t] = "returned" /\ Same
      BY <1>2, <1>18, <2>2 DEF LfGet, Same
    <3>2. jobs_dequeued \in Nat /\ NumLfJobs \in Nat
      BY LfSizes DEF Shapes
    <3>3. lf_mt_exit \/ jobs_dequeued >= NumLfJobs
      BY <2>2, <3>2
    <3> QED BY <1>4, <3>1, <3>3 DEF LfRoute
  <2> QED BY <2>1, <2>2
<1>19. CASE LfVert(t)
  <2>1. pc'[t] = "lf_write"
    BY <1>2, <1>19 DEF LfVert
  <2> QED BY <1>19, <2>1 DEF LfVert, LfStep, LfFiltersVert
<1>20. CASE LfHorz(t)
  <2>1. pc'[t] = IF lf_col[t] = LfCols - 1 THEN "lf_get" ELSE "lf_above"
    BY <1>2, <1>20 DEF LfHorz
  <2>2. lf_col'[t] = lf_col[t] + 1
    BY <1>20 DEF LfHorz, Shapes
  <2> QED BY <1>20, <2>1, <2>2 DEF LfHorz, LfStep, LfFiltersHorz
<1>21. CASE LfWrite(t)
  <2> DEFINE last == lf_col[t] = LfCols - 1
             where == IF last THEN "lf_get" ELSE "lf_vert"
             cur == IF last THEN LfCols + setup.lf_sync_range ELSE lf_col[t]
  <2>1. \/ LfSyncWrite(t, LfOwn(t), cur, where)
        \/ GoesTo(t, where) /\ UNCHANGED cur_sb_col
    BY <1>21 DEF LfWrite
  <2>2. lf_col'[t] = lf_col[t] + 1
    BY <1>21 DEF LfWrite, Shapes
  <2>3. /\ pc'[t] = where
        /\ cur_sb_col' = cur_sb_col \/ cur_sb_col' = [cur_sb_col EXCEPT ![LfOwn(t)] = Max2(@, cur)]
    BY <1>2, <2>1 DEF LfSyncWrite
  <2> QED BY <1>21, <2>2, <2>3 DEF LfWrite, LfStep, LfWrites
<1> QED BY <1>5, <1>6, <1>7, <1>8, <1>9, <1>10, <1>11, <1>12, <1>13, <1>14, <1>15, <1>16, <1>17, <1>18,
           <1>19, <1>20, <1>21 DEF Moves, Step

-----------------------------------------------------------------------------
\* The filter's frame does not change, nor does the job of a worker that keeps it.

LEMMA SameFilter ==
  ASSUME setup' = setup
  PROVE  /\ Workers' = Workers /\ LfRowIds' = LfRowIds /\ LfColIds' = LfColIds /\ LfCols' = LfCols
         /\ FrameCols' = FrameCols /\ NumLfJobs' = NumLfJobs
         /\ \A n : IsVert(n)' = IsVert(n) /\ JobDir(n)' = JobDir(n) /\ JobRow(n)' = JobRow(n)
                   /\ JobPlane(n)' = JobPlane(n) /\ \A c : JobBlock(n, c)' = JobBlock(n, c)
<1>1. /\ FrameRows' = FrameRows /\ FrameCols' = FrameCols /\ LfCols' = LfCols
      /\ LfRowIds' = LfRowIds /\ Workers' = Workers
  BY DEF FrameRows, FrameCols, LfCols, LfRowIds, Workers
<1>2. HalfOfLfJobs' = HalfOfLfJobs
  BY <1>1 DEF HalfOfLfJobs
<1>3. LfColIds' = LfColIds
  BY <1>1 DEF LfColIds
<1>4. NumLfJobs' = NumLfJobs
  BY <1>2 DEF NumLfJobs
<1>5. \A n : IsVert(n)' = IsVert(n) /\ JobDir(n)' = JobDir(n)
  BY <1>2 DEF IsVert, JobDir
<1>6. \A n : JobRow(n)' = JobRow(n) /\ JobPlane(n)' = JobPlane(n)
  <2> TAKE n
  <2>1. /\ JobRow(n) = (n % HalfOfLfJobs) \div setup.lf_planes
        /\ JobRow(n)' = (n % HalfOfLfJobs') \div setup'.lf_planes
        /\ JobPlane(n) = n % setup.lf_planes /\ JobPlane(n)' = n % setup'.lf_planes
    BY DEF JobRow, JobPlane
  <2> QED BY <1>2, <2>1, Zenon
<1>7. \A n, c : JobBlock(n, c)' = JobBlock(n, c)
  BY <1>5, <1>6 DEF JobBlock
<1> QED BY <1>1, <1>3, <1>4, <1>5, <1>6, <1>7

LEMMA SameJob ==
  ASSUME setup' = setup, NEW u, lf_job'[u] = lf_job[u]
  PROVE  /\ LfOwn(u)' = LfOwn(u) /\ LfAbove(u)' = LfAbove(u)
         /\ (IsVert(lf_job[u]))' <=> IsVert(lf_job[u])
         /\ \A c : (JobBlock(lf_job[u], c))' = JobBlock(lf_job[u], c)
         /\ lf_col'[u] = lf_col[u] => LfBase(u)' = LfBase(u) /\ (OnTheWay(u)' <=> OnTheWay(u))
<1>1. LfRow(u)' = LfRow(u) /\ LfPlane(u)' = LfPlane(u)
  BY JobStays
<1>2. LfOwn(u)' = LfOwn(u) /\ LfAbove(u)' = LfAbove(u)
  BY <1>1 DEF LfOwn, LfAbove
<1>3. HalfOfLfJobs' = HalfOfLfJobs
  BY DEF HalfOfLfJobs, FrameRows
<1>4. (IsVert(lf_job[u]))' <=> IsVert(lf_job[u])
  BY <1>3 DEF IsVert
<1>5. \A c : (JobBlock(lf_job[u], c))' = JobBlock(lf_job[u], c)
  BY <1>1, <1>4 DEF JobBlock, JobDir, LfRow, LfPlane
<1>6. ASSUME lf_col'[u] = lf_col[u] PROVE LfBase(u)' = LfBase(u) /\ (OnTheWay(u)' <=> OnTheWay(u))
  <2>1. /\ LfBase(u) = lf_col[u] - (lf_col[u] % setup.lf_sync_range)
        /\ LfBase(u)' = lf_col'[u] - (lf_col'[u] % setup'.lf_sync_range)
        /\ OnTheWay(u) <=> lf_col[u] % setup.lf_sync_range # 0
        /\ OnTheWay(u)' <=> lf_col'[u] % setup'.lf_sync_range # 0
    BY DEF LfBase, OnTheWay
  <2> QED BY <1>6, <2>1, Zenon
<1> QED BY <1>2, <1>4, <1>5, <1>6

\* A worker's job is in the frame.
LEMMA BlockIsThere ==
  ASSUME Shapes, FilterPlace, NEW t \in Workers, pc[t] \in LfPlaces
  PROVE  /\ LfOwn(t) \in LfRowIds /\ lf_col[t] \in LfColIds /\ lf_job[t] \in Nat
         /\ LfBlock(t) = JobBlock(lf_job[t], lf_col[t]) /\ LfBlock(t) \in FilterBlocksIn(setup)
         /\ LfOwn(t)[1] = LfRow(t) /\ LfOwn(t)[2] = LfPlane(t)
         /\ LfAbove(t)[1] = LfRow(t) - 1 /\ LfAbove(t)[2] = LfPlane(t)
<1>1. lf_job[t] \in Nat /\ lf_col[t] \in Nat
  BY DEF Shapes
<1>2. LfRow(t) \in 0..(FrameRows - 1) /\ LfPlane(t) \in 0..(setup.lf_planes - 1)
  BY <1>1, JobIsInFrame DEF LfRow, LfPlane
<1>3. LfOwn(t) \in LfRowIds
  BY <1>2 DEF LfOwn, LfRowIds, LfRowIdsIn, FrameRows
<1>4. lf_col[t] \in LfColIds /\ setup.pipelined
  BY <1>1, LfSizes DEF FilterPlace, LfColIds
<1>5. LfBlock(t) = JobBlock(lf_job[t], lf_col[t])
  BY DEF LfBlock, JobBlock, JobDir, LfRow, LfPlane
<1>6. LfOwn(t)[1] = LfRow(t) /\ LfOwn(t)[2] = LfPlane(t) /\ LfAbove(t)[1] = LfRow(t) - 1 /\ LfAbove(t)[2] = LfPlane(t)
  BY DEF LfOwn, LfAbove
<1>7. LfBlock(t) \in FilterBlocksIn(setup)
  <2> DEFINE x == LfOwn(t)  d == IF IsVert(lf_job[t]) THEN "vert" ELSE "horz"
  <2>1. x \in LfRowIdsIn(setup) /\ lf_col[t] \in 0..(LfColsIn(setup) - 1) /\ d \in {"vert", "horz"}
    BY <1>3, <1>4 DEF LfRowIds, LfColIds, LfCols
  <2>2. LfBlock(t) = <<d, x[1], x[2], lf_col[t]>>
    BY <1>6 DEF LfBlock
  <2> HIDE DEF x, d
  <2> QED BY <1>4, <2>1, <2>2 DEF FilterBlocksIn
<1> QED BY <1>1, <1>3, <1>4, <1>5, <1>6, <1>7

\* The ranges of the filter's counters.
LEMMA LfTypesKept ==
  ASSUME Shapes, LfTypes, FilterPlace, setup' = setup, Shapes', NEW t \in Workers, WorkerStep(t), LfStep(t)
  PROVE  LfTypes'
<1>1. \A u \in Workers : lf_job[u] \in Nat /\ lf_col[u] \in Nat
  BY DEF Shapes
<1>2. /\ NumLfJobs' = NumLfJobs /\ NumLfJobs \in Nat /\ jobs_dequeued \in Nat /\ LfCols' = LfCols
      /\ LfCols \in Nat \ {0} /\ FrameCols \in Nat \ {0} /\ LfCols <= FrameCols /\ setup.lf_sync_range \in Nat
      /\ LfRowIds' = LfRowIds /\ FrameCols' = FrameCols /\ Workers' = Workers
  <2>1. jobs_dequeued \in Nat
    BY DEF Shapes
  <2>2. setup.lf_sync_range \in Nat
    BY LfSizes
  <2> QED BY <2>1, <2>2, SameFilter, LfSizes
<1>3. \A u \in Workers : pc[u] \in LfPlaces => lf_col[u] < LfCols
  BY DEF FilterPlace
<1>4. jobs_dequeued' <= NumLfJobs
  BY <1>2 DEF LfTypes, LfStep, LfWalks, LfTakes, LfFiltersVert, LfFiltersHorz, LfWrites, LfCloses, LfReleases
<1>5. \A u \in Workers : lf_job'[u] < NumLfJobs /\ lf_col'[u] <= LfCols
  <2>1. \A u \in Workers \ {t} : lf_job'[u] = lf_job[u] /\ lf_col'[u] = lf_col[u]
    BY Common DEF OthersStay
  <2>2. lf_job[t] < NumLfJobs /\ lf_col[t] <= LfCols
    BY DEF LfTypes
  <2>3. lf_job'[t] < NumLfJobs
    BY <1>2, <2>2 DEF LfStep, LfWalks, LfTakes, LfFiltersVert, LfFiltersHorz, LfWrites, LfCloses, LfReleases
  <2>4. lf_col'[t] <= LfCols
    BY <1>1, <1>2, <1>3, <2>2 DEF LfStep, LfWalks, LfTakes, LfFiltersVert, LfFiltersHorz, LfWrites, LfCloses, LfReleases,
                            LfPlaces, LfWork, LfHorzPlaces
  <2> QED BY <2>1, <2>3, <2>4 DEF LfTypes
<1>6. /\ cur_sb_col' \in [LfRowIds -> Int]
      /\ \A x \in LfRowIds : cur_sb_col'[x] \in -1..(FrameCols + setup.lf_sync_range)
  <2>1. ASSUME NEW y \in LfRowIds, NEW v \in Nat, v <= FrameCols + setup.lf_sync_range,
               cur_sb_col' = [cur_sb_col EXCEPT ![y] = Max2(@, v)]
        PROVE  /\ cur_sb_col' \in [LfRowIds -> Int]
               /\ \A x \in LfRowIds : cur_sb_col'[x] \in -1..(FrameCols + setup.lf_sync_range)
    BY <1>2, <2>1 DEF LfTypes, Max2
  <2>2. CASE cur_sb_col' = cur_sb_col
    BY <2>2 DEF LfTypes
  <2>3. CASE LfReleases(t)
    <3>1. FrameCols + setup.lf_sync_range \in Nat /\ FrameCols + setup.lf_sync_range <= FrameCols + setup.lf_sync_range
      BY <1>2
    <3> QED BY <2>1, <2>3, <3>1 DEF LfReleases
  <2>4. CASE LfWrites(t)
    <3> DEFINE v == IF lf_col[t] = LfCols - 1 THEN LfCols + setup.lf_sync_range ELSE lf_col[t]
    <3>1. lf_col[t] < LfCols /\ LfOwn(t) \in LfRowIds
      BY <1>3, <2>4, BlockIsThere DEF LfWrites, LfPlaces, LfWork
    <3>2. v \in Nat /\ v <= FrameCols + setup.lf_sync_range
      BY <1>1, <1>2, <3>1
    <3>3. cur_sb_col' = cur_sb_col \/ cur_sb_col' = [cur_sb_col EXCEPT ![LfOwn(t)] = Max2(@, v)]
      BY <2>4 DEF LfWrites
    <3> HIDE DEF v
    <3> QED BY <2>1, <2>2, <3>1, <3>2, <3>3
  <2> QED BY <2>2, <2>3, <2>4 DEF LfStep, LfWalks, LfTakes, LfFiltersVert, LfFiltersHorz, LfCloses
<1>7. filtered' \subseteq FilterBlocksIn(setup)
  <2>1. CASE LfFiltersVert(t) \/ LfFiltersHorz(t)
    <3>1. pc[t] \in LfPlaces /\ filtered' = filtered \cup {LfBlock(t)}
      BY <2>1 DEF LfFiltersVert, LfFiltersHorz, LfPlaces, LfWork, LfHorzPlaces
    <3> QED BY <3>1, BlockIsThere DEF LfTypes
  <2>2. CASE filtered' = filtered
    BY <2>2 DEF LfTypes
  <2> QED BY <2>1, <2>2 DEF LfStep, LfWalks, LfTakes, LfWrites, LfCloses, LfReleases
<1> QED BY <1>2, <1>4, <1>5, <1>6, <1>7 DEF LfTypes

\* Places at the filter.
LEMMA FilterPlaceKept ==
  ASSUME Shapes, FilterPlace, LfTypes, setup' = setup, Shapes', NEW t \in Workers, WorkerStep(t), LfStep(t)
  PROVE  FilterPlace'
<1> DEFINE Fine(u) ==
        /\ pc[u] \in LfPlaces \cup {"lf_get"} => setup.pipelined
        /\ pc[u] \in LfPlaces => lf_job[u] < jobs_dequeued /\ lf_col[u] < LfCols
        /\ pc[u] \in {"lf_wait", "lf_asleep"} => lf_col[u] = 0
        /\ pc[u] \in {"lf_vert", "lf_write"} => IsVert(lf_job[u])
        /\ pc[u] \in LfHorzPlaces => ~IsVert(lf_job[u])
<1>1. \A u \in Workers : Fine(u)
  BY DEF FilterPlace
<1>2. /\ LfCols' = LfCols /\ LfCols \in Nat \ {0} /\ Workers' = Workers
      /\ jobs_dequeued \in Nat /\ jobs_dequeued' \in Nat /\ jobs_dequeued <= jobs_dequeued'
      /\ \A u \in Workers : lf_job[u] \in Nat /\ lf_col[u] \in Nat
  <2>1. jobs_dequeued \in Nat /\ \A u \in Workers : lf_job[u] \in Nat /\ lf_col[u] \in Nat
    BY DEF Shapes
  <2>2. jobs_dequeued' = jobs_dequeued \/ jobs_dequeued' = jobs_dequeued + 1
    BY DEF LfStep, LfWalks, LfTakes, LfFiltersVert, LfFiltersHorz, LfWrites, LfCloses, LfReleases
  <2> QED BY <2>1, <2>2, SameFilter, LfSizes
<1>3. ASSUME NEW u \in Workers \ {t} PROVE Fine(u)'
  <2>1. lf_job'[u] = lf_job[u] /\ lf_col'[u] = lf_col[u] /\ Stirs(pc[u], pc'[u])
    BY Common DEF OthersStay
  <2>2. (IsVert(lf_job[u]))' <=> IsVert(lf_job[u])
    BY <2>1, SameJob
  <2>3. /\ pc'[u] \in LfPlaces <=> pc[u] \in LfPlaces
        /\ pc'[u] = "lf_get" <=> pc[u] = "lf_get"
        /\ pc'[u] \in {"lf_wait", "lf_asleep"} <=> pc[u] \in {"lf_wait", "lf_asleep"}
        /\ pc'[u] \in {"lf_vert", "lf_write"} <=> pc[u] \in {"lf_vert", "lf_write"}
        /\ pc'[u] \in LfHorzPlaces <=> pc[u] \in LfHorzPlaces
    BY <2>1 DEF Stirs, LfPlaces, LfWork, LfHorzPlaces
  <2> QED BY <1>1, <1>2, <2>1, <2>2, <2>3
<1>4. Fine(t)'
  <2>1. CASE LfWalks(t)
    <3>1. LfRoute(t) /\ lf_job' = lf_job /\ lf_col' = lf_col /\ jobs_dequeued' = jobs_dequeued
      BY <2>1 DEF LfWalks
    <3>2. (IsVert(lf_job[t]))' <=> IsVert(lf_job[t])
      BY <3>1, SameJob
    <3>3. LfBegin(t) = IF IsVert(lf_job[t]) THEN "lf_vert" ELSE "lf_above"
      BY DEF LfBegin
    <3> QED BY <1>1, <1>2, <3>1, <3>2, <3>3 DEF LfRoute, LfHere, LfPlaces, LfWork, LfHorzPlaces
  <2>2. CASE LfTakes(t)
    BY <1>1, <1>2, <2>2 DEF LfTakes, LfPlaces, LfWork, LfHorzPlaces
  <2>3. CASE LfFiltersVert(t) \/ LfFiltersHorz(t) \/ LfWrites(t)
    <3>1. /\ lf_job'[t] = lf_job[t] /\ jobs_dequeued' = jobs_dequeued
          /\ pc[t] \in {"lf_vert", "lf_write", "lf_horz"}
          /\ pc'[t] \in {"lf_write", "lf_vert", "lf_above", "lf_get"}
          /\ pc[t] \in {"lf_vert", "lf_write"} => pc'[t] # "lf_above"
          /\ pc[t] = "lf_horz" => pc'[t] \in {"lf_above", "lf_get"}
          /\ pc'[t] # "lf_get" => lf_col'[t] < LfCols
      BY <1>1, <1>2, <2>3 DEF LfFiltersVert, LfFiltersHorz, LfWrites, LfPlaces, LfWork, LfHorzPlaces
    <3>2. (IsVert(lf_job[t]))' <=> IsVert(lf_job[t])
      BY <3>1, SameJob
    <3> QED BY <1>1, <1>2, <3>1, <3>2 DEF LfPlaces, LfWork, LfHorzPlaces
  <2>4. CASE LfCloses(t) \/ LfReleases(t)
    BY <2>4 DEF LfCloses, LfReleases, LfPlaces, LfWork, LfHorzPlaces
  <2> QED BY <2>1, <2>2, <2>3, <2>4 DEF LfStep
<1>5. \A u \in Workers : Fine(u)'
  BY <1>3, <1>4
<1> QED BY <1>2, <1>5 DEF FilterPlace

\* The exit flags of the filter and of the encoder.
LEMMA FilterExitKept ==
  ASSUME Shapes, ExitMeans, FilterExit, setup' = setup, Shapes', NEW t \in Workers, WorkerStep(t), LfStep(t)
  PROVE  FilterExit'
<1>1. row_mt_exit => row_mt_exit'
  BY Common
<1>2. lf_mt_exit' => row_mt_exit'
  BY <1>1 DEF FilterExit, ExitMeans, LfStep, LfWalks, LfTakes, LfFiltersVert, LfFiltersHorz, LfWrites, LfCloses, LfReleases
<1>3. lf_mt_exit => lf_mt_exit'
  BY DEF LfStep, LfWalks, LfTakes, LfFiltersVert, LfFiltersHorz, LfWrites, LfCloses, LfReleases
<1>4. ASSUME NEW u \in Workers \ {t}, pc'[u] = "lf_release" PROVE lf_mt_exit'
  <2>1. pc[u] = "lf_release"
    BY <1>4, Common DEF OthersStay, Stirs
  <2> QED BY <1>3, <2>1 DEF FilterExit
<1>5. ASSUME pc'[t] = "lf_release" PROVE lf_mt_exit'
  <2>1. LfCloses(t) \/ LfReleases(t)
    BY <1>5 DEF LfStep, LfWalks, LfRoute, LfBegin, LfHere, LfTakes, LfFiltersVert, LfFiltersHorz, LfWrites
  <2> QED BY <2>1 DEF LfCloses, LfReleases, FilterExit
<1> QED BY <1>2, <1>4, <1>5 DEF FilterExit, Workers

\* Nothing filtered is forgotten, and the filter's queue is not opened again.
LEMMA LfAdds ==
  ASSUME NEW t \in Workers, LfStep(t)
  PROVE  /\ filtered \subseteq filtered' /\ (lf_mt_exit => lf_mt_exit')
         /\ filtered' = filtered \/ filtered' = filtered \cup {LfBlock(t)}
BY DEF LfStep, LfWalks, LfTakes, LfFiltersVert, LfFiltersHorz, LfWrites, LfCloses, LfReleases

\* What a worker has passed stays filtered.
LEMMA LfSoFarKept ==
  ASSUME Shapes, FilterPlace, LfSoFar, setup' = setup, Shapes', NEW t \in Workers, WorkerStep(t), LfStep(t)
  PROVE  LfSoFar'
<1> DEFINE Fine(u) == pc[u] \in LfPlaces =>
                         \A c \in LfColIds : c < LfPast(u) => JobBlock(lf_job[u], c) \in filtered
<1>1. \A u \in Workers : Fine(u)
  BY DEF LfSoFar
<1>2. LfColIds' = LfColIds /\ Workers' = Workers /\ filtered \subseteq filtered' /\ \A c \in LfColIds : c \in Nat
  BY SameFilter, LfAdds DEF LfColIds
<1>3. ASSUME NEW u \in Workers, lf_job'[u] = lf_job[u], pc[u] \in LfPlaces, LfPast(u)' = LfPast(u)
      PROVE  Fine(u)'
  <2>1. \A c : (JobBlock(lf_job[u], c))' = JobBlock(lf_job[u], c)
    BY <1>3, SameJob
  <2> QED BY <1>1, <1>2, <1>3, <2>1
<1>4. ASSUME NEW u \in Workers \ {t} PROVE Fine(u)'
  <2>1. lf_job'[u] = lf_job[u] /\ lf_col'[u] = lf_col[u] /\ Stirs(pc[u], pc'[u])
    BY Common DEF OthersStay
  <2>2. /\ pc'[u] \in LfPlaces <=> pc[u] \in LfPlaces
        /\ pc'[u] = "lf_write" <=> pc[u] = "lf_write"
    BY <2>1 DEF Stirs, LfPlaces, LfWork, LfHorzPlaces
  <2>3. LfPast(u)' = LfPast(u)
    BY <2>1, <2>2 DEF LfPast
  <2>4. CASE pc[u] \in LfPlaces
    <3> HIDE DEF Fine
    <3> QED BY <1>3, <2>1, <2>3, <2>4
  <2> QED BY <2>2, <2>4
<1>5. lf_col[t] \in Nat
  BY DEF Shapes
<1>6. Fine(t)'
  <2>1. CASE LfWalks(t) \/ LfWrites(t)
    <3>1. lf_job'[t] = lf_job[t]
      BY <2>1 DEF LfWalks, LfWrites
    <3>2. pc'[t] \in LfPlaces => \/ pc[t] \in LfPlaces /\ LfPast(t)' = LfPast(t)
                                 \/ pc[t] = "lf_get"
      BY <2>1 DEF LfWalks, LfRoute, LfBegin, LfWrites, LfPast, LfHere, LfPlaces, LfWork, LfHorzPlaces
    <3>3. pc[t] = "lf_get" => pc'[t] \notin LfPlaces
      BY <2>1 DEF LfWalks, LfRoute, LfWrites, LfHere, LfPlaces, LfWork, LfHorzPlaces
    <3>4. CASE pc'[t] \in LfPlaces
      <4> HIDE DEF Fine
      <4> QED BY <1>3, <3>1, <3>2, <3>3, <3>4
    <3> QED BY <3>4
  <2>2. CASE LfTakes(t)
    BY <1>2, <2>2 DEF LfTakes, LfPast
  <2>3. CASE LfFiltersVert(t) \/ LfFiltersHorz(t)
    <3>1. /\ lf_job'[t] = lf_job[t] /\ filtered' = filtered \cup {LfBlock(t)} /\ pc[t] \in LfPlaces
          /\ LfPast(t)' = lf_col[t] + 1 /\ LfPast(t) = lf_col[t]
      BY <2>3 DEF LfFiltersVert, LfFiltersHorz, LfPlaces, LfWork, LfHorzPlaces, LfPast
    <3>2. LfBlock(t) = JobBlock(lf_job[t], lf_col[t])
      BY <3>1, BlockIsThere
    <3>3. \A c : (JobBlock(lf_job[t], c))' = JobBlock(lf_job[t], c)
      BY <3>1, SameJob
    <3>4. \A c \in LfColIds : c < lf_col[t] + 1 => JobBlock(lf_job[t], c) \in filtered'
      <4> SUFFICES ASSUME NEW c \in LfColIds, c < lf_col[t] + 1 PROVE JobBlock(lf_job[t], c) \in filtered'
        OBVIOUS
      <4>1. c = lf_col[t] \/ c < LfPast(t)
        BY <1>2, <1>5, <3>1
      <4> QED BY <1>1, <3>1, <3>2, <4>1
    <3> QED BY <1>2, <3>1, <3>3, <3>4
  <2>4. CASE LfCloses(t) \/ LfReleases(t)
    BY <2>4 DEF LfCloses, LfReleases, LfPlaces, LfWork, LfHorzPlaces
  <2> QED BY <2>1, <2>2, <2>3, <2>4 DEF LfStep
<1>7. \A u \in Workers : Fine(u)'
  BY <1>4, <1>6
<1> QED BY <1>2, <1>7 DEF LfSoFar

\* A column is published after those before it have been filtered.
LEMMA EdgesAreTrueKept ==
  ASSUME Shapes, FilterPlace, LfTypes, LfSoFar, FilterExit, EdgesAreTrue,
         setup' = setup, Shapes', NEW t \in Workers, WorkerStep(t), LfStep(t)
  PROVE  EdgesAreTrue'
<1>1. LfColIds' = LfColIds /\ LfRowIds' = LfRowIds /\ filtered \subseteq filtered' /\ (lf_mt_exit => lf_mt_exit')
  BY SameFilter, LfAdds
<1>2. SUFFICES ASSUME ~lf_mt_exit', NEW x \in LfRowIds, NEW c \in LfColIds, c <= cur_sb_col'[x]
               PROVE  <<"vert", x[1], x[2], c>> \in filtered'
  BY <1>1 DEF EdgesAreTrue
<1>3. CASE cur_sb_col'[x] = cur_sb_col[x]
  BY <1>1, <1>2, <1>3 DEF EdgesAreTrue
<1>4. CASE cur_sb_col'[x] # cur_sb_col[x]
  <2> DEFINE v == IF lf_col[t] = LfCols - 1 THEN LfCols + setup.lf_sync_range ELSE lf_col[t]
  <2>1. ~LfReleases(t)
    BY <1>1, <1>2 DEF LfReleases, FilterExit
  <2>2. LfWrites(t) /\ cur_sb_col' = [cur_sb_col EXCEPT ![LfOwn(t)] = Max2(@, v)]
    BY <1>4, <2>1 DEF LfStep, LfWalks, LfTakes, LfFiltersVert, LfFiltersHorz, LfWrites, LfCloses
  <2>3. x = LfOwn(t) /\ cur_sb_col'[x] = v
    BY <1>4, <2>2 DEF LfTypes, Max2
  <2>4. pc[t] = "lf_write" /\ pc[t] \in LfPlaces
    BY <2>2 DEF LfWrites, LfPlaces, LfWork
  <2>5. IsVert(lf_job[t]) /\ lf_col[t] \in Nat /\ lf_col[t] < LfCols /\ LfCols \in Nat /\ c \in 0..(LfCols - 1)
    <3>1. IsVert(lf_job[t]) /\ lf_col[t] < LfCols
      BY <2>4 DEF FilterPlace
    <3>2. lf_col[t] \in Nat /\ LfCols \in Nat
      BY LfSizes DEF Shapes
    <3> QED BY <3>1, <3>2 DEF LfColIds
  <2>6. c < LfPast(t)
    BY <1>2, <2>3, <2>4, <2>5 DEF LfPast
  <2>7. JobBlock(lf_job[t], c) \in filtered
    BY <2>4, <2>6 DEF LfSoFar
  <2>8. JobBlock(lf_job[t], c) = <<"vert", x[1], x[2], c>>
    BY <2>3, <2>5 DEF JobBlock, JobDir, LfOwn, LfRow, LfPlane
  <2> QED BY <1>1, <2>7, <2>8
<1> QED BY <1>3, <1>4

\* The columns between two looks: the last look covers the next column, and
\* stays the last one until the next has to be taken.
LEMMA LfLooks ==
  ASSUME Shapes, NEW c \in Nat
  PROVE  /\ c - (c % setup.lf_sync_range) \in Nat
         /\ c + 1 <= (c - (c % setup.lf_sync_range)) + setup.lf_sync_range
         /\ (c + 1) % setup.lf_sync_range # 0 =>
                (c + 1) - ((c + 1) % setup.lf_sync_range) = c - (c % setup.lf_sync_range)
<1>1. setup.lf_sync_range \in {1, 2, 4, 8}
  BY LfSizes
<1>2. CASE setup.lf_sync_range = 1
  BY <1>2
<1>3. CASE setup.lf_sync_range = 2
  BY <1>3
<1>4. CASE setup.lf_sync_range = 4
  BY <1>4
<1>5. CASE setup.lf_sync_range = 8
  BY <1>5
<1> QED BY <1>1, <1>2, <1>3, <1>4, <1>5

\* sync_read returns when vertical filtering is a range of columns ahead.
LEMMA LfWaited ==
  ASSUME Shapes, LfTypes, EdgesAreTrue, ~lf_mt_exit, NEW t \in Workers, NEW x,
         LfRowIs(x, lf_col[t]), ~OnTheWay(t)
  PROVE  Seen(t, x)
<1> SUFFICES ASSUME x \in LfRowIds, NEW c \in LfColIds, c <= LfBase(t) + setup.lf_sync_range
             PROVE  <<"vert", x[1], x[2], c>> \in filtered
  BY DEF Seen
<1>1. lf_col[t] \in Nat /\ c \in Nat /\ cur_sb_col[x] \in Int
  BY DEF Shapes, LfTypes, LfColIds
<1>2. setup.lf_sync_range \in Nat
  BY LfSizes
<1>3. ~(x[1] < 0)
  <2>1. x[1] \in 0..(FrameRowsIn(setup) - 1)
    BY DEF LfRowIds, LfRowIdsIn
  <2>2. FrameRowsIn(setup) \in Nat
    BY LfSizes DEF FrameRows
  <2> QED BY <2>1, <2>2
<1>4. lf_col[t] <= cur_sb_col[x] - setup.lf_sync_range
  BY <1>3 DEF LfRowIs, OnTheWay
<1>5. c <= lf_col[t] + setup.lf_sync_range
  BY <1>1, <1>2 DEF LfBase, OnTheWay
<1>6. c <= cur_sb_col[x]
  BY <1>1, <1>2, <1>4, <1>5
<1> QED BY <1>6 DEF EdgesAreTrue

\* What a worker has seen of the rows it changes stays so.
LEMMA EdgesAreSeenKept ==
  ASSUME Shapes, FilterPlace, LfTypes, EdgesAreTrue, EdgesAreSeen,
         setup' = setup, Shapes', NEW t \in Workers, WorkerStep(t), LfStep(t)
  PROVE  EdgesAreSeen'
<1> DEFINE Of(u) == /\ pc[u] = "lf_horz" \/ (~lf_mt_exit /\ SeesAbove(u)) => Seen(u, LfAbove(u))
                    /\ pc[u] = "lf_horz" \/ (~lf_mt_exit /\ SeesOwn(u)) => Seen(u, LfOwn(u))
<1>1. \A u \in Workers : Of(u)
  BY DEF EdgesAreSeen
<1>2. /\ LfColIds' = LfColIds /\ LfRowIds' = LfRowIds /\ Workers' = Workers
      /\ filtered \subseteq filtered' /\ (lf_mt_exit => lf_mt_exit')
  BY SameFilter, LfAdds
<1>3. ASSUME NEW u \in Workers, lf_job'[u] = lf_job[u], LfBase(u)' = LfBase(u)
      PROVE  /\ Seen(u, LfAbove(u)) => Seen(u, LfAbove(u))'
             /\ Seen(u, LfOwn(u)) => Seen(u, LfOwn(u))'
  <2>1. LfAbove(u)' = LfAbove(u) /\ LfOwn(u)' = LfOwn(u)
    BY <1>3, SameJob
  <2> QED BY <1>2, <1>3, <2>1 DEF Seen
<1>4. ASSUME NEW u \in Workers \ {t} PROVE Of(u)'
  <2>1. lf_job'[u] = lf_job[u] /\ lf_col'[u] = lf_col[u] /\ Stirs(pc[u], pc'[u])
    BY Common DEF OthersStay
  <2>2. LfBase(u)' = LfBase(u) /\ (OnTheWay(u)' <=> OnTheWay(u))
    BY <2>1, SameJob
  <2>3. /\ pc'[u] = "lf_horz" <=> pc[u] = "lf_horz"
        /\ SeesAbove(u)' => SeesAbove(u)
        /\ SeesOwn(u)' => SeesOwn(u)
    BY <2>1, <2>2 DEF Stirs, SeesAbove, SeesOwn
  <2>4. /\ Seen(u, LfAbove(u)) => Seen(u, LfAbove(u))'
        /\ Seen(u, LfOwn(u)) => Seen(u, LfOwn(u))'
    BY <1>3, <2>1, <2>2
  <2> QED BY <1>1, <1>2, <2>3, <2>4
<1>5. Of(t)'
  <2>1. CASE LfWalks(t)
    <3>1. LfRoute(t) /\ lf_job' = lf_job /\ lf_col' = lf_col /\ lf_mt_exit' = lf_mt_exit
      BY <2>1 DEF LfWalks
    <3>2. LfBase(t)' = LfBase(t) /\ (OnTheWay(t)' <=> OnTheWay(t))
      BY <3>1, SameJob
    <3>3. /\ Seen(t, LfAbove(t)) => Seen(t, LfAbove(t))'
          /\ Seen(t, LfOwn(t)) => Seen(t, LfOwn(t))'
      BY <1>3, <3>1, <3>2
    <3>4. ASSUME SeesAbove(t)', ~lf_mt_exit PROVE Seen(t, LfAbove(t))
      <4>1. CASE pc[t] = "lf_above" /\ ~OnTheWay(t)
        <5>1. LfRowIs(LfAbove(t), lf_col[t])
          BY <3>1, <3>2, <3>4, <4>1 DEF LfRoute, LfHere, LfPlaces, LfWork, LfHorzPlaces, SeesAbove
        <5> QED BY <3>4, <4>1, <5>1, LfWaited
      <4>2. CASE ~(pc[t] = "lf_above" /\ ~OnTheWay(t))
        <5>1. SeesAbove(t) \/ (pc[t] = "lf_wait" /\ pc'[t] = "lf_above")
          BY <3>1, <3>2, <3>4, <4>2 DEF LfRoute, LfBegin, LfHere, LfPlaces, LfWork, LfHorzPlaces, SeesAbove
        <5>2. ~(pc[t] = "lf_wait" /\ pc'[t] = "lf_above")
          <6>1. SUFFICES ASSUME pc[t] = "lf_wait", pc'[t] = "lf_above" PROVE FALSE
            OBVIOUS
          <6>2. lf_col[t] = 0 /\ OnTheWay(t)
            BY <3>2, <3>4, <6>1 DEF FilterPlace, SeesAbove
          <6>3. setup.lf_sync_range \in Nat \ {0}
            BY LfSizes
          <6> QED BY <6>2, <6>3 DEF OnTheWay
        <5> QED BY <1>1, <3>4, <5>1, <5>2
      <4> QED BY <4>1, <4>2
    <3>5. ASSUME SeesOwn(t)', ~lf_mt_exit PROVE Seen(t, LfOwn(t))
      <4>1. CASE pc[t] = "lf_own" /\ ~OnTheWay(t)
        <5>1. LfRowIs(LfOwn(t), lf_col[t])
          BY <3>1, <3>2, <3>5, <4>1 DEF LfRoute, LfHere, LfPlaces, LfWork, LfHorzPlaces, SeesOwn
        <5> QED BY <3>5, <4>1, <5>1, LfWaited
      <4>2. CASE ~(pc[t] = "lf_own" /\ ~OnTheWay(t))
        <5>1. SeesOwn(t) \/ (pc[t] = "lf_wait" /\ pc'[t] = "lf_above")
          BY <3>1, <3>2, <3>5, <4>2 DEF LfRoute, LfBegin, LfHere, LfPlaces, LfWork, LfHorzPlaces, SeesOwn
        <5>2. ~(pc[t] = "lf_wait" /\ pc'[t] = "lf_above")
          <6>1. SUFFICES ASSUME pc[t] = "lf_wait", pc'[t] = "lf_above" PROVE FALSE
            OBVIOUS
          <6>2. lf_col[t] = 0 /\ OnTheWay(t)
            BY <3>2, <3>5, <6>1 DEF FilterPlace, SeesOwn
          <6>3. setup.lf_sync_range \in Nat \ {0}
            BY LfSizes
          <6> QED BY <6>2, <6>3 DEF OnTheWay
        <5> QED BY <1>1, <3>5, <5>1, <5>2
      <4> QED BY <4>1, <4>2
    <3>6. ASSUME pc'[t] = "lf_horz" PROVE Seen(t, LfAbove(t)) /\ Seen(t, LfOwn(t))
      <4>1. pc[t] = "lf_check" /\ ~lf_mt_exit
        BY <3>1, <3>6 DEF LfRoute, LfBegin, LfHere, LfPlaces, LfWork, LfHorzPlaces
      <4> QED BY <1>1, <4>1 DEF SeesAbove, SeesOwn
    <3> QED BY <3>1, <3>3, <3>4, <3>5, <3>6
  <2>2. CASE LfFiltersHorz(t)
    <3>1. /\ lf_job'[t] = lf_job[t] /\ lf_col'[t] = lf_col[t] + 1 /\ pc[t] = "lf_horz"
          /\ pc'[t] \in {"lf_get", "lf_above"}
      BY <2>2 DEF LfFiltersHorz
    <3>2. CASE ~OnTheWay(t)'
      BY <3>1, <3>2 DEF SeesAbove, SeesOwn
    <3>3. CASE OnTheWay(t)'
      <4>1. lf_col[t] \in Nat
        BY DEF Shapes
      <4>2. (lf_col[t] + 1) % setup.lf_sync_range # 0
        <5>1. OnTheWay(t)' <=> lf_col'[t] % setup'.lf_sync_range # 0
          BY DEF OnTheWay
        <5> QED BY <3>1, <3>3, <5>1
      <4>3. (lf_col[t] + 1) - ((lf_col[t] + 1) % setup.lf_sync_range) = lf_col[t] - (lf_col[t] % setup.lf_sync_range)
        BY <4>1, <4>2, LfLooks
      <4>4. LfBase(t)' = LfBase(t)
        <5>1. LfBase(t)' = lf_col'[t] - (lf_col'[t] % setup'.lf_sync_range)
          BY DEF LfBase
        <5> QED BY <3>1, <4>3, <5>1 DEF LfBase
      <4>5. Seen(t, LfAbove(t)) /\ Seen(t, LfOwn(t))
        BY <1>1, <3>1
      <4> QED BY <1>3, <3>1, <4>4, <4>5
    <3> QED BY <3>2, <3>3
  <2>3. CASE ~LfWalks(t) /\ ~LfFiltersHorz(t)
    <3>1. pc'[t] \in {"lf_wait", "lf_write", "lf_get", "lf_vert", "lf_release"}
      BY <2>3 DEF LfStep, LfTakes, LfFiltersVert, LfWrites, LfCloses, LfReleases
    <3> QED BY <3>1 DEF SeesAbove, SeesOwn
  <2> QED BY <2>1, <2>2, <2>3
<1>6. \A u \in Workers : Of(u)'
  BY <1>4, <1>5
<1> QED BY <1>2, <1>6 DEF EdgesAreSeen

\* A job that was handed out is done when its worker leaves it.
LEMMA JobsAreCoveredKept ==
  ASSUME Shapes, FilterPlace, LfTypes, LfSoFar, FilterExit, JobsAreCovered,
         setup' = setup, Shapes', NEW t \in Workers, WorkerStep(t), LfStep(t)
  PROVE  JobsAreCovered'
<1>1. /\ LfColIds' = LfColIds /\ Workers' = Workers /\ filtered \subseteq filtered'
      /\ row_mt_exit => row_mt_exit'
  BY SameFilter, LfAdds, Common
<1>2. SUFFICES ASSUME ~row_mt_exit', NEW n \in 0..(jobs_dequeued' - 1)
               PROVE  JobComplete(n)' \/ \E u \in Workers : pc'[u] \in LfPlaces /\ lf_job'[u] = n
  BY <1>1 DEF JobsAreCovered
<1>3. JobComplete(n) => JobComplete(n)'
  <2>1. \A c : JobBlock(n, c)' = JobBlock(n, c)
    BY SameFilter
  <2> QED BY <1>1, <2>1 DEF JobComplete
<1>4. CASE n \in 0..(jobs_dequeued - 1)
  <2>1. JobComplete(n) \/ \E u \in Workers : pc[u] \in LfPlaces /\ lf_job[u] = n
    BY <1>1, <1>2, <1>4 DEF JobsAreCovered
  <2>2. ASSUME NEW u \in Workers, pc[u] \in LfPlaces, lf_job[u] = n
        PROVE  JobComplete(n)' \/ (pc'[u] \in LfPlaces /\ lf_job'[u] = n)
    <3>1. CASE u # t
      <4>1. lf_job'[u] = lf_job[u] /\ Stirs(pc[u], pc'[u])
        BY <3>1, Common DEF OthersStay
      <4>2. pc'[u] \in LfPlaces
        BY <2>2, <4>1 DEF Stirs, LfPlaces, LfWork, LfHorzPlaces
      <4> QED BY <2>2, <4>1, <4>2
    <3>2. CASE u = t /\ LfWalks(t)
      <4>1. lf_job'[t] = lf_job[t] /\ ~lf_mt_exit /\ ~row_mt_exit
        BY <1>1, <1>2, <3>2 DEF LfWalks, FilterExit
      <4>2. pc'[t] \in LfPlaces
        BY <2>2, <3>2, <4>1 DEF LfWalks, LfRoute, LfBegin, LfHere, LfPlaces, LfWork, LfHorzPlaces
      <4> QED BY <2>2, <3>2, <4>1, <4>2
    <3>3. CASE u = t /\ ~LfWalks(t)
      <4>1. LfFiltersVert(t) \/ LfFiltersHorz(t) \/ LfWrites(t)
        BY <2>2, <3>3 DEF LfStep, LfTakes, LfCloses, LfReleases, LfPlaces, LfWork, LfHorzPlaces
      <4>2. lf_job'[t] = lf_job[t]
        BY <4>1 DEF LfFiltersVert, LfFiltersHorz, LfWrites
      <4>3. CASE pc'[t] \in LfPlaces
        BY <2>2, <3>3, <4>2, <4>3
      <4>4. CASE pc'[t] \notin LfPlaces
        <5>1. /\ lf_col[t] = LfCols - 1 /\ LfCols \in Nat
              /\ pc[t] = "lf_write" \/ filtered' = filtered \cup {LfBlock(t)}
          <6>1. LfCols \in Nat
            BY LfSizes
          <6> QED BY <4>1, <4>4, <6>1 DEF LfFiltersVert, LfFiltersHorz, LfWrites, LfPlaces, LfWork, LfHorzPlaces
        <5>2. LfBlock(t) = JobBlock(lf_job[t], lf_col[t])
          BY <2>2, <3>3, BlockIsThere
        <5>3. \A c \in LfColIds : JobBlock(lf_job[t], c) \in filtered'
          <6> SUFFICES ASSUME NEW c \in LfColIds PROVE JobBlock(lf_job[t], c) \in filtered'
            OBVIOUS
          <6>1. c < lf_col[t] \/ c = lf_col[t]
            BY <5>1 DEF LfColIds
          <6>2. c < LfPast(t) \/ (c = lf_col[t] /\ filtered' = filtered \cup {LfBlock(t)})
            BY <5>1, <6>1 DEF LfPast, LfColIds
          <6> QED BY <1>1, <2>2, <3>3, <5>2, <6>2 DEF LfSoFar
        <5>4. \A c : JobBlock(n, c)' = JobBlock(n, c)
          BY SameFilter
        <5> QED BY <1>1, <2>2, <3>3, <5>3, <5>4 DEF JobComplete
      <4> QED BY <4>3, <4>4
    <3> QED BY <3>1, <3>2, <3>3
  <2> QED BY <1>3, <2>1, <2>2
<1>5. CASE n \notin 0..(jobs_dequeued - 1)
  <2>1. jobs_dequeued \in Nat /\ jobs_dequeued' \in Nat
    BY DEF Shapes
  <2>2. LfTakes(t)
    BY <1>2, <1>5 DEF LfStep, LfWalks, LfFiltersVert, LfFiltersHorz, LfWrites, LfCloses, LfReleases
  <2>3. n = jobs_dequeued
    BY <1>2, <1>5, <2>1, <2>2 DEF LfTakes
  <2> QED BY <2>2, <2>3 DEF LfTakes, LfPlaces
<1> QED BY <1>4, <1>5

\* A worker leaves the filter when its queue is empty, or after an error.
LEMMA NobodyLeavesJobsKept ==
  ASSUME Shapes, LfTypes, FilterPlace, FilterExit, NobodyLeavesJobs,
         setup' = setup, Shapes', NEW t \in Workers, WorkerStep(t), LfStep(t)
  PROVE  NobodyLeavesJobs'
<1>1. /\ NumLfJobs' = NumLfJobs /\ Workers' = Workers /\ (row_mt_exit => row_mt_exit')
  BY SameFilter, Common
<1>2. jobs_dequeued \in Nat /\ NumLfJobs \in Nat /\ jobs_dequeued <= NumLfJobs
  <2>1. jobs_dequeued \in Nat
    BY DEF Shapes
  <2> QED BY <2>1, LfSizes DEF LfTypes
<1>3. SUFFICES ASSUME ~row_mt_exit', setup.pipelined, NEW u \in Workers, pc'[u] = "returned"
               PROVE  jobs_dequeued' = NumLfJobs
  BY <1>1 DEF NobodyLeavesJobs
<1>4. CASE pc[u] = "returned"
  <2>1. jobs_dequeued = NumLfJobs
    BY <1>1, <1>3, <1>4 DEF NobodyLeavesJobs
  <2> QED BY <1>2, <2>1 DEF LfStep, LfWalks, LfTakes, LfFiltersVert, LfFiltersHorz, LfWrites, LfCloses, LfReleases
<1>5. CASE pc[u] # "returned"
  <2>1. u = t
    BY <1>3, <1>5, Common DEF OthersStay, Stirs
  <2>2. LfWalks(t) /\ LfRoute(t) /\ jobs_dequeued' = jobs_dequeued
    BY <1>3, <2>1 DEF LfStep, LfWalks, LfTakes, LfFiltersVert, LfFiltersHorz, LfWrites, LfCloses, LfReleases
  <2>3. ~row_mt_exit /\ ~lf_mt_exit
    BY <1>1, <1>3 DEF FilterExit
  <2>4. jobs_dequeued >= NumLfJobs
    BY <1>3, <2>1, <2>2, <2>3 DEF LfRoute, LfBegin, LfHere, LfPlaces, LfWork, LfHorzPlaces
  <2> QED BY <1>2, <2>2, <2>4
<1> QED BY <1>4, <1>5

\* A number is found again from its quotient and its remainder.
LEMMA Divided ==
  ASSUME NEW P \in Nat \ {0}, NEW a \in Nat, NEW p \in 0..(P - 1)
  PROVE  (a * P + p) \div P = a /\ (a * P + p) % P = p
<1> DEFINE k == a * P + p  q == k \div P  m == k % P
<1>1. k \in Nat /\ a * P \in Nat
  OBVIOUS
<1>2. m \in 0..(P - 1) /\ q \in Nat /\ k = P * q + m
  <2> HIDE DEF k
  <2> QED BY <1>1
<1>3. a * P + p = q * P + m
  BY <1>2
<1> HIDE DEF k, q, m
<1>4. ASSUME q < a PROVE FALSE
  <2> DEFINE d == a - q - 1
  <2>1. d \in Nat /\ a = q + 1 + d
    BY <1>2, <1>4
  <2> HIDE DEF d
  <2>2. a * P = q * P + P + d * P /\ q * P \in Nat /\ d * P \in Nat
    BY <1>2, <2>1
  <2> QED BY <1>2, <1>3, <2>2
<1>5. ASSUME a < q PROVE FALSE
  <2> DEFINE d == q - a - 1
  <2>1. d \in Nat /\ q = a + 1 + d
    BY <1>2, <1>5
  <2> HIDE DEF d
  <2>2. q * P = a * P + P + d * P /\ a * P \in Nat /\ d * P \in Nat
    BY <1>2, <2>1
  <2> QED BY <1>2, <1>3, <2>2
<1>6. q = a
  BY <1>2, <1>4, <1>5
<1>7. m = p
  BY <1>1, <1>2, <1>3, <1>6
<1> QED BY <1>6, <1>7 DEF q, m, k

\* Every row, plane and direction has its job.
LEMMA JobsAreAll ==
  ASSUME Shapes, NEW d \in {"vert", "horz"}, NEW x \in LfRowIds
  PROVE  \E n \in 0..(NumLfJobs - 1) : JobDir(n) = d /\ JobRow(n) = x[1] /\ JobPlane(n) = x[2]
<1> DEFINE H == HalfOfLfJobs
           P == setup.lf_planes
           r == x[1]
           p == x[2]
           m == r * P + p
<1>1. /\ P \in Nat \ {0} /\ H \in Nat \ {0} /\ NumLfJobs = H + H
      /\ FrameRows \in Nat \ {0}
  BY LfSizes
<1>2. r \in 0..(FrameRows - 1) /\ p \in 0..(P - 1)
  BY DEF LfRowIds, LfRowIdsIn, FrameRows
<1>3. H = FrameRows * P
  BY DEF HalfOfLfJobs
<1> HIDE DEF H, P, r, p
<1>4. m \in 0..(H - 1)
  <2> DEFINE e == FrameRows - 1 - r
  <2>1. e \in Nat /\ FrameRows = r + 1 + e /\ r \in Nat
    BY <1>1, <1>2
  <2> HIDE DEF e
  <2>2. FrameRows * P = r * P + P + e * P /\ r * P \in Nat /\ e * P \in Nat
    BY <1>1, <2>1
  <2> QED BY <1>1, <1>2, <1>3, <2>2
<1>5. m \div P = r /\ m % P = p
  BY <1>1, <1>2, Divided
<1>6. m % H = m /\ (H + m) % H = m
  <2>1. 0 * H + m = m /\ 1 * H + m = H + m
    BY <1>1, <1>4
  <2> HIDE DEF m
  <2>2. (0 * H + m) % H = m /\ (1 * H + m) % H = m
    BY <1>1, <1>4, Divided
  <2> QED BY <2>1, <2>2
<1>7. (H + m) % P = p
  <2>1. H + m = (FrameRows + r) * P + p
    BY <1>1, <1>2, <1>3
  <2>2. ((FrameRows + r) * P + p) % P = p
    BY <1>1, <1>2, Divided
  <2> QED BY <2>1, <2>2
<1> HIDE DEF m
<1>8. m < H /\ ~(H + m < H) /\ m \in 0..(NumLfJobs - 1) /\ H + m \in 0..(NumLfJobs - 1)
  BY <1>1, <1>4
<1>9. JobRow(m) = r /\ JobPlane(m) = p /\ JobDir(m) = "vert"
  BY <1>5, <1>6, <1>8 DEF JobRow, JobPlane, JobDir, IsVert, H, P
<1>10. JobRow(H + m) = r /\ JobPlane(H + m) = p /\ JobDir(H + m) = "horz"
  BY <1>5, <1>6, <1>7, <1>8 DEF JobRow, JobPlane, JobDir, IsVert, H, P
<1> QED BY <1>8, <1>9, <1>10 DEF r, p

\* A frame that ends with no failed worker is filtered.
LEMMA JoinIsFiltered ==
  ASSUME IInv, LfInv, Join, outcome' = "ok"
  PROVE  filtered = FilterBlocksIn(setup)
<1> USE DEF IInv
<1>1. \A t \in Workers : pc[t] = "returned"
  BY DEF Join
<1>2. ~row_mt_exit
  BY <1>1 DEF ExitMeans
<1>3. filtered \subseteq FilterBlocksIn(setup)
  BY DEF LfInv, LfTypes
<1>4. CASE ~setup.pipelined
  BY <1>3, <1>4 DEF FilterBlocksIn
<1>5. CASE setup.pipelined
  <2>1. 0 \in Workers
    BY Sizes DEF Workers
  <2>2. jobs_dequeued = NumLfJobs
    BY <1>1, <1>2, <1>5, <2>1 DEF LfInv, NobodyLeavesJobs
  <2>3. \A n \in 0..(NumLfJobs - 1) : JobComplete(n)
    BY <1>1, <1>2, <2>2 DEF LfInv, JobsAreCovered, LfPlaces, LfWork, LfHorzPlaces
  <2>4. ASSUME NEW b \in FilterBlocksIn(setup) PROVE b \in filtered
    <3>1. PICK d \in {"vert", "horz"}, x \in LfRowIds, c \in LfColIds : b = <<d, x[1], x[2], c>>
      BY <1>5 DEF FilterBlocksIn, LfRowIds, LfColIds, LfCols
    <3>2. PICK n \in 0..(NumLfJobs - 1) : JobDir(n) = d /\ JobRow(n) = x[1] /\ JobPlane(n) = x[2]
      BY JobsAreAll
    <3>3. b = JobBlock(n, c)
      BY <3>1, <3>2 DEF JobBlock
    <3> QED BY <2>3, <3>3 DEF JobComplete
  <2> QED BY <1>3, <2>4
<1> QED BY <1>4, <1>5

-----------------------------------------------------------------------------
\* The second invariant.

\* A frame starts with nothing handed out, published or filtered.
LEMMA FreshIsFiltered == setup \in Setups /\ FreshFrame => LfInv
<1> SUFFICES ASSUME setup \in Setups, FreshFrame PROVE LfInv
  OBVIOUS
<1>1. Shapes
  BY FreshIsFine DEF IInv
<1>2. /\ NumLfJobs \in Nat \ {0} /\ LfCols \in Nat \ {0} /\ FrameCols \in Nat /\ setup.lf_sync_range \in Nat
  <2>1. setup.lf_sync_range \in Nat
    BY <1>1, LfSizes
  <2> QED BY <1>1, <2>1, LfSizes
<1>3. \A u \in Workers : pc[u] = "start" /\ lf_job[u] = 0 /\ lf_col[u] = 0
  BY DEF FreshFrame
<1>4. LfTypes
  BY <1>2, <1>3 DEF FreshFrame, LfTypes
<1>5. FilterPlace /\ FilterExit /\ LfSoFar /\ EdgesAreSeen /\ NobodyLeavesJobs
  BY <1>3 DEF FreshFrame, FilterPlace, FilterExit, LfSoFar, EdgesAreSeen, SeesAbove, SeesOwn, NobodyLeavesJobs,
              LfPlaces, LfWork, LfHorzPlaces
<1>6. EdgesAreTrue
  BY DEF FreshFrame, EdgesAreTrue, LfColIds
<1>7. JobsAreCovered /\ FilteringIsTrue
  BY DEF FreshFrame, JobsAreCovered, FilteringIsTrue
<1> QED BY <1>4, <1>5, <1>6, <1>7 DEF LfInv

\* A step that does not touch the workers or the filter.
LEMMA LfUntouched ==
  ASSUME LfInv, UNCHANGED <<setup, pc, row_mt_exit, lf_mt_exit, jobs_dequeued, lf_job, lf_col, cur_sb_col, filtered>>
  PROVE  /\ LfTypes' /\ FilterPlace' /\ FilterExit' /\ LfSoFar' /\ EdgesAreTrue' /\ EdgesAreSeen'
         /\ JobsAreCovered' /\ NobodyLeavesJobs' /\ FilterBlocksIn(setup)' = FilterBlocksIn(setup)
<1>1. /\ Workers' = Workers /\ LfRowIds' = LfRowIds /\ LfColIds' = LfColIds /\ LfCols' = LfCols
      /\ FrameCols' = FrameCols /\ NumLfJobs' = NumLfJobs
      /\ \A n, c : JobBlock(n, c)' = JobBlock(n, c)
  BY SameFilter
<1>2. \A u : /\ LfOwn(u)' = LfOwn(u) /\ LfAbove(u)' = LfAbove(u)
             /\ (IsVert(lf_job[u]))' <=> IsVert(lf_job[u])
             /\ \A c : (JobBlock(lf_job[u], c))' = JobBlock(lf_job[u], c)
             /\ LfBase(u)' = LfBase(u) /\ (OnTheWay(u)' <=> OnTheWay(u))
  BY SameJob
<1>3. LfTypes' /\ FilterBlocksIn(setup)' = FilterBlocksIn(setup)
  BY <1>1 DEF LfInv, LfTypes
<1>4. FilterPlace' /\ FilterExit' /\ NobodyLeavesJobs'
  BY <1>1, <1>2 DEF LfInv, FilterPlace, FilterExit, NobodyLeavesJobs
<1>5. LfSoFar' /\ EdgesAreTrue'
  BY <1>1, <1>2 DEF LfInv, LfSoFar, LfPast, EdgesAreTrue
<1>6. EdgesAreSeen'
  BY <1>1, <1>2 DEF LfInv, EdgesAreSeen, SeesAbove, SeesOwn, Seen
<1>7. JobsAreCovered'
  BY <1>1 DEF LfInv, JobsAreCovered, JobComplete
<1> QED BY <1>3, <1>4, <1>5, <1>6, <1>7

\* On top of the first invariant, it is inductive.
LEMMA NextLfInv == IInv /\ LfInv /\ [Next]_vars => LfInv'
<1> SUFFICES ASSUME IInv, LfInv, [Next]_vars PROVE LfInv'
  OBVIOUS
<1>1. CASE UNCHANGED vars
  <2>1. UNCHANGED <<setup, pc, row_mt_exit, lf_mt_exit, jobs_dequeued, lf_job, lf_col, cur_sb_col, filtered, outcome>>
    BY <1>1 DEF vars, lfVars, runVars
  <2>2. FilteringIsTrue'
    BY <2>1, LfUntouched DEF LfInv, FilteringIsTrue
  <2> QED BY <2>1, <2>2, LfUntouched DEF LfInv
<1>2. CASE Join
  <2>1. UNCHANGED <<setup, pc, row_mt_exit, lf_mt_exit, jobs_dequeued, lf_job, lf_col, cur_sb_col, filtered>>
    BY <1>2 DEF Join, lfVars
  <2>2. FilteringIsTrue'
    BY <1>2, <2>1, JoinIsFiltered, LfUntouched DEF FilteringIsTrue
  <2> QED BY <2>1, <2>2, LfUntouched DEF LfInv
<1>3. CASE StartFrame
  <2>1. setup' \in Setups /\ FreshFrame'
    BY <1>3 DEF IInv, Shapes, StartFrame, FreshFrame, Workers, Tiles, NumTiles, NumTileCols, RowIds, LfRowIds, FrameRows
  <2>2. (setup \in Setups /\ FreshFrame => LfInv)'
    BY FreshIsFiltered, PTL
  <2> QED BY <2>1, <2>2
<1>4. CASE Next /\ ~Join /\ ~StartFrame
  <2>1. setup' = setup /\ Shapes' /\ \E t \in Workers : Moves(t) /\ WorkerStep(t)
    BY <1>4, StepKinds DEF IInv
  <2>2. PICK t \in Workers : Moves(t) /\ WorkerStep(t)
    BY <2>1
  <2> USE DEF IInv, LfInv
  <2>3. LfStep(t)
    BY <2>1, <2>2, LfStepKinds
  <2>4. LfTypes' /\ FilterPlace' /\ FilterExit'
    BY <2>1, <2>2, <2>3, LfTypesKept, FilterPlaceKept, FilterExitKept
  <2>5. LfSoFar' /\ EdgesAreTrue' /\ EdgesAreSeen'
    BY <2>1, <2>2, <2>3, LfSoFarKept, EdgesAreTrueKept, EdgesAreSeenKept
  <2>6. JobsAreCovered' /\ NobodyLeavesJobs'
    BY <2>1, <2>2, <2>3, JobsAreCoveredKept, NobodyLeavesJobsKept
  <2>7. FilteringIsTrue'
    <3>1. outcome' = "busy"
      BY <2>1, <2>2, BusyIsKept
    <3> QED BY <3>1 DEF FilteringIsTrue
  <2> QED BY <2>4, <2>5, <2>6, <2>7
<1> QED BY <1>1, <1>2, <1>3, <1>4

LEMMA BothInvariants == Spec => [](IInv /\ LfInv)
<1>1. Init => IInv /\ LfInv
  BY FreshIsFine, FreshIsFiltered DEF Init
<1>2. IInv /\ LfInv /\ [Next]_vars => (IInv /\ LfInv)'
  BY NextIInv, NextLfInv
<1> QED BY <1>1, <1>2, PTL DEF Spec

-----------------------------------------------------------------------------
\* The properties.

\* The variables have their types: every index stays in its tile and every
\* counter of ethread.c and of the filter's row synchronisation in its range,
\* however many tiles, workers and errors.
THEOREM TypeCorrect == Spec => []TypeOK
<1>1. IInv /\ LfInv => TypeOK
  <2> SUFFICES ASSUME IInv, LfInv PROVE TypeOK
    OBVIOUS
  <2> USE DEF IInv
  <2>1. \A t \in Workers : row[t] \in 0..(RowsOf(tile[t]) - 1) /\ col[t] \in 0..ColsOf(tile[t])
    <3> SUFFICES ASSUME NEW t \in Workers
                 PROVE  row[t] \in 0..(RowsOf(tile[t]) - 1) /\ col[t] \in 0..ColsOf(tile[t])
      OBVIOUS
    <3>1. tile[t] \in Tiles /\ row[t] \in Nat /\ col[t] \in Nat
      BY DEF Shapes
    <3> QED BY <3>1, Sizes DEF WorkerPlace
  <2>2. \A k \in Tiles : next_row[k] \in 0..RowsOf(k) /\ num_threads_working[k] \in 0..setup.workers
    <3> SUFFICES ASSUME NEW k \in Tiles
                 PROVE  next_row[k] \in 0..RowsOf(k) /\ num_threads_working[k] \in 0..setup.workers
      OBVIOUS
    <3>1. next_row[k] \in Nat /\ next_row[k] <= RowsOf(k) /\ RowsOf(k) \in Nat
      BY Sizes DEF Shapes, QueuePlace
    <3>2. /\ num_threads_working[k] \in Int /\ setup.workers \in Nat
          /\ Cardinality(WorkersOf(k)) \in Nat /\ Cardinality(WorkersOf(k)) <= num_threads_working[k]
          /\ num_threads_working[k] <= Cardinality(LostTo(k)) /\ Cardinality(LostTo(k)) \in Nat
          /\ Cardinality(LostTo(k)) <= setup.workers
      BY CrewIsFinite, Sizes DEF Shapes, ThreadsAreCounted
    <3> QED BY <3>1, <3>2
  <2>3. \A x \in RowIds : num_finished_cols[x] \in -1..Done(x[1])
    BY OfTile DEF Shapes, RowIds, CountsAreTrue, Tiles, RowsOf
  <2>4. \A r \in 0..(FrameRows - 1) : num_tile_cols_done[r] \in 0..NumTileCols
    <3> SUFFICES ASSUME NEW r \in 0..(FrameRows - 1) PROVE num_tile_cols_done[r] \in 0..NumTileCols
      OBVIOUS
    <3>1. /\ IsFiniteSet(TilesAt(setup, r)) /\ Cardinality(TilesAt(setup, r)) <= NumTileCols
          /\ NumTileCols \in Nat /\ OverAt(r) \subseteq TilesAt(setup, r)
      BY TilesAtRow, Sizes DEF Shapes, NumTileCols, OverAt
    <3>2. /\ Cardinality(OverAt(r)) \in Nat /\ Cardinality(TilesAt(setup, r)) \in Nat
          /\ Cardinality(OverAt(r)) <= Cardinality(TilesAt(setup, r))
      BY <3>1, SubsetSize, FS_CardinalityType
    <3>3. num_tile_cols_done[r] \in Nat /\ num_tile_cols_done[r] <= Cardinality(OverAt(r))
      BY DEF Shapes, DoneIsOver
    <3> QED BY <3>1, <3>2, <3>3
  <2>5. NumLfJobs \in Nat \ {0} /\ LfCols \in Nat
    BY LfSizes
  <2>6. jobs_dequeued \in 0..NumLfJobs
    BY <2>5 DEF Shapes, LfInv, LfTypes
  <2>7. lf_job \in [Workers -> 0..(NumLfJobs - 1)] /\ lf_col \in [Workers -> 0..LfCols]
    <3>1. lf_job \in [Workers -> Nat] /\ lf_col \in [Workers -> Nat]
      BY DEF Shapes
    <3>2. \A u \in Workers : lf_job[u] < NumLfJobs /\ lf_col[u] <= LfCols
      BY DEF LfInv, LfTypes
    <3> QED BY <2>5, <3>1, <3>2
  <2>8. \A x \in LfRowIds : cur_sb_col[x] \in -1..(FrameCols + setup.lf_sync_range)
    BY DEF LfInv, LfTypes
  <2>9. /\ setup \in Setups /\ pc \in [Workers -> Places] /\ tile \in [Workers -> Tiles]
        /\ row_mt_exit \in BOOLEAN /\ lf_mt_exit \in BOOLEAN
        /\ encoded \subseteq Superblocks /\ outcome \in {"busy", "ok", "error"}
    BY DEF Shapes
  <2> QED BY <2>1, <2>2, <2>3, <2>4, <2>6, <2>7, <2>8, <2>9 DEF TypeOK
<1> QED BY <1>1, BothInvariants, PTL

\* No two workers are ever in the same row of a tile, whatever tiles they move
\* between: get_next_job hands each row out once.
THEOREM RowsDisjoint == Spec => []RowsAreDisjoint
BY Invariant, PTL DEF IInv

\* The row above has been written far enough when a superblock is about to use it.
LEMMA IInvTopRight == IInv => TopRightEncoded
<1> SUFFICES ASSUME IInv, NEW t \in Workers, pc[t] = (IF setup.late THEN "finish" ELSE "encode"), ~Spoilt,
                    NEW b \in NeedsIn(setup, <<tile[t], row[t], col[t]>>)
             PROVE  b \in encoded
  BY DEF TopRightEncoded
<1> USE DEF IInv
<1>1. pc[t] \in InRow /\ (setup.late => ~row_mt_exit)
  BY DEF InRow, Spoilt
<1>2. \A c \in 0..(col[t] - 1) : <<tile[t], row[t], c>> \in encoded
  BY <1>1 DEF RowSoFar
<1>3. AboveEncoded(t)
  BY <1>1 DEF AboveIsReady
<1> DEFINE B == <<tile[t], row[t], col[t]>>
<1>4. B[1] = tile[t] /\ B[2] = row[t] /\ B[3] = col[t]
  OBVIOUS
<1>5. \/ \E c \in 0..(col[t] - 1) : b = <<tile[t], row[t], c>>
      \/ /\ row[t] # 0
         /\ \E c \in 0..Min2(col[t] + 1 + setup.delay, ColsOf(tile[t]) - 1) : b = <<tile[t], row[t] - 1, c>>
  BY <1>4 DEF NeedsIn, ColsOf
<1>6. ASSUME row[t] # 0, NEW c \in 0..Min2(col[t] + 1 + setup.delay, ColsOf(tile[t]) - 1)
      PROVE  <<tile[t], row[t] - 1, c>> \in encoded
  <2>1. col[t] \in Nat /\ setup.delay \in Nat /\ ColsOf(tile[t]) \in Nat
    BY Sizes DEF Shapes
  <2>2. c \in 0..(ColsOf(tile[t]) - 1) /\ c <= col[t] + 1 + setup.delay
    BY <2>1 DEF Min2
  <2> QED BY <1>3, <1>6, <2>2 DEF AboveEncoded
<1> QED BY <1>2, <1>5, <1>6

\* sync_read never lets a worker use a top-right superblock that is not
\* encoded, in either place it is called from, while others fail and release.
THEOREM TopRightIsThere == Spec => []TopRightEncoded
BY Invariant, IInvTopRight, PTL

\* A row at the filter, and the one below it, are encoded.
LEMMA IInvFilters ==
  ASSUME IInv, NEW t \in Workers, pc[t] \in LfWork
  PROVE  RowsEncodedIn(setup, LfRow(t)) \subseteq encoded
<1> SUFFICES ASSUME NEW b \in Superblocks, RowStart(b[1]) + b[2] \in {LfRow(t), LfRow(t) + 1}
             PROVE  b \in encoded
  BY DEF RowsEncodedIn, Superblocks, RowStart
<1> USE DEF IInv
<1> DEFINE k == b[1]
           r == RowStart(k) + b[2]
<1>1. k \in Tiles /\ b[2] \in 0..(RowsOf(k) - 1) /\ b[3] \in 0..(ColsOf(k) - 1) /\ b = <<k, b[2], b[3]>>
  BY OfTile DEF Shapes, Superblocks, Tiles, RowsOf, ColsOf
<1>2. RowStart(k) \in Nat /\ RowsOf(k) \in Nat
  BY <1>1, Sizes
<1> HIDE DEF k
<1>3. r \in RowStart(k)..(RowStart(k) + RowsOf(k) - 1) /\ r - RowStart(k) = b[2]
  BY <1>1, <1>2
<1>4. k \in TilesAt(setup, r)
  BY <1>1, <1>3 DEF TilesAt, Tiles, RowStart, RowsOf
<1>5. r \in {LfRow(t), LfRow(t) + 1}
  BY DEF k
<1>6. RowComplete(k, r - RowStart(k))
  BY <1>4, <1>5 DEF FilterReady
<1> QED BY <1>1, <1>3, <1>6 DEF RowComplete

\* launch_loop_filter_rows never filters a row that is not encoded, or whose
\* neighbour below is not, although rows that were given up are counted too.
THEOREM FiltersAreSafe == Spec => []FiltersEncodedRows
<1>1. IInv => FiltersEncodedRows
  BY IInvFilters DEF FiltersEncodedRows, LfWork, LfHorzPlaces
<1> QED BY <1>1, Invariant, PTL

\* A frame reported good is complete, encoded and filtered, and it is reported
\* bad exactly when a worker failed in it.
THEOREM OutcomeCorrect == Spec => []OutcomeIsTrue
<1>1. IInv /\ LfInv => OutcomeIsTrue
  BY DEF IInv, LfInv, EncodingIsTrue, FilteringIsTrue, OutcomeIsTrue
<1> QED BY <1>1, BothInvariants, PTL

-----------------------------------------------------------------------------
\* The wavefront.

\* Blocks of the encoder and of the filter are different things.
LEMMA TwoKinds ==
  ASSUME NEW s \in Setups, NEW f \in FilterBlocksIn(s)
  PROVE  f \notin SuperblocksIn(s)
<1>1. PICK d \in {"vert", "horz"}, x \in LfRowIdsIn(s), c \in 0..(LfColsIn(s) - 1) : f = <<d, x[1], x[2], c>>
  BY DEF FilterBlocksIn
<1>2. ASSUME f \in SuperblocksIn(s) PROVE FALSE
  <2>1. f = <<f[1], f[2], f[3]>>
    BY <1>2, OfTile
  <2> QED BY <1>1, <2>1
<1> QED BY <1>2

\* What a worker is about to filter has everything it needs.
LEMMA FilterNeedsThere ==
  ASSUME IInv, LfInv, NEW t \in Workers, pc[t] \in {"lf_vert", "lf_horz"}
  PROVE  FilterNeedsIn(setup, LfBlock(t)) \subseteq encoded \cup filtered
<1> USE DEF IInv, LfInv
<1> DEFINE f == LfBlock(t)
<1>1. f[2] = LfRow(t) /\ f[3] = LfPlane(t) /\ f[4] = lf_col[t]
      /\ f[1] = (IF IsVert(lf_job[t]) THEN "vert" ELSE "horz")
  BY DEF LfBlock
<1>2. pc[t] \in LfWork /\ pc[t] \in LfPlaces
  BY DEF LfWork, LfHorzPlaces, LfPlaces
<1>3. RowsEncodedIn(setup, f[2]) \subseteq encoded
  BY <1>1, <1>2, IInvFilters
<1>4. EdgesIn(setup, f) \subseteq filtered
  <2>1. CASE pc[t] = "lf_vert"
    BY <1>1, <2>1 DEF EdgesIn, FilterPlace
  <2>2. CASE pc[t] = "lf_horz"
    <3> SUFFICES ASSUME NEW e \in EdgesIn(setup, f) PROVE e \in filtered
      OBVIOUS
    <3>1. /\ lf_col[t] \in Nat /\ setup.lf_sync_range \in Nat /\ LfRow(t) \in Nat
          /\ LfBase(t) \in Nat /\ lf_col[t] + 1 <= LfBase(t) + setup.lf_sync_range
      <4>1. lf_col[t] \in Nat /\ lf_job[t] \in Nat
        BY DEF Shapes
      <4>2. LfRow(t) \in Nat
        BY <4>1, JobIsInFrame DEF LfRow
      <4>3. setup.lf_sync_range \in Nat
        BY LfSizes
      <4> QED BY <4>1, <4>2, <4>3, LfLooks DEF LfBase
    <3> HIDE DEF f
    <3>2. e \in FilterBlocksIn(setup)
      BY DEF EdgesIn
    <3>3. PICK r \in (f[2] - 1)..f[2], c \in f[4]..Min2(f[4] + 1, LfColsIn(setup) - 1) : e = <<"vert", r, f[3], c>>
      BY <1>1 DEF EdgesIn
    <3>4. PICK d \in {"vert", "horz"}, x \in LfRowIds, i \in LfColIds : e = <<d, x[1], x[2], i>>
      BY <3>2 DEF FilterBlocksIn, LfRowIds, LfColIds, LfCols
    <3>5. x[1] = r /\ x[2] = LfPlane(t) /\ i = c /\ x = <<x[1], x[2]>>
      BY <1>1, <3>3, <3>4 DEF LfRowIds, LfRowIdsIn
    <3>6. x = LfOwn(t) \/ x = LfAbove(t)
      <4>1. r = LfRow(t) - 1 \/ r = LfRow(t)
        BY <1>1, <3>1, <3>3
      <4> QED BY <3>5, <4>1 DEF LfOwn, LfAbove
    <3>7. c <= LfBase(t) + setup.lf_sync_range
      <4>1. LfColsIn(setup) \in Nat
        BY LfSizes DEF LfCols
      <4> QED BY <1>1, <3>1, <3>3, <4>1 DEF Min2
    <3>8. Seen(t, x)
      BY <2>2, <3>6 DEF EdgesAreSeen
    <3>9. <<"vert", x[1], x[2], i>> \in filtered
      BY <3>5, <3>7, <3>8 DEF Seen
    <3> QED BY <3>3, <3>5, <3>9, <1>1
  <2> QED BY <2>1, <2>2
<1> QED BY <1>3, <1>4 DEF FilterNeedsIn

\* A frame of the encoder starts as a frame of Wavefront.
LEMMA InitMaps == Init => Frame!Init
BY DEF Init, FreshFrame, Frame!Init

\* A step of the encoder is a step of Wavefront or a stutter.
LEMMA NextMaps == IInv /\ LfInv /\ [Next]_vars => [Frame!Next]_(Frame!vars)
<1> SUFFICES ASSUME IInv, LfInv, [Next]_vars PROVE [Frame!Next]_(Frame!vars)
  OBVIOUS
<1> USE DEF Frame!vars
<1> DEFINE Blocks == Superblocks \cup FilterBlocksIn(setup)
           done == encoded \cup filtered
<1>1. setup \in Setups
  BY DEF IInv, Shapes
<1>2. /\ DOMAIN NeedsOf[setup] = Blocks
      /\ \A b \in Superblocks : NeedsOf[setup][b] = NeedsIn(setup, b)
      /\ \A f \in FilterBlocksIn(setup) : NeedsOf[setup][f] = FilterNeedsIn(setup, f)
  BY <1>1, TwoKinds DEF NeedsOf, Superblocks
<1>3. ASSUME setup' = setup, done' = done, outcome' = outcome PROVE [Frame!Next]_(Frame!vars)
  BY <1>3
<1>4. CASE UNCHANGED vars
  BY <1>3, <1>4 DEF vars, lfVars, runVars
<1>5. ASSUME setup' = setup, outcome = "busy", outcome' = "busy", NEW b \in Blocks,
             done' = done \cup {b}, NeedsOf[setup][b] \subseteq done
      PROVE  [Frame!Next]_(Frame!vars)
  <2>1. CASE b \in done
    BY <1>3, <1>5, <2>1
  <2>2. CASE b \notin done
    <3>1. Frame!Encode
      BY <1>2, <1>5, <2>2 DEF Frame!Encode, Frame!Blocks
    <3> QED BY <3>1 DEF Frame!Next
  <2> QED BY <2>1, <2>2
<1>6. CASE Next
  <2>1. setup' = setup /\ Shapes' /\ (Join \/ StartFrame \/ \E t \in Workers : Moves(t) /\ WorkerStep(t))
    BY <1>6, StepKinds DEF IInv
  <2>2. CASE Join
    <3>1. outcome = "busy" /\ done' = done
      BY <2>2 DEF Join, lfVars
    <3>2. \/ outcome' = "ok" /\ done = Blocks
          \/ outcome' = "error"
      BY <2>2, JoinIsTrue, JoinIsFiltered
    <3>3. Frame!Succeed \/ Frame!Fail
      BY <1>2, <2>1, <3>1, <3>2 DEF Frame!Succeed, Frame!Fail, Frame!Blocks
    <3> QED BY <3>3 DEF Frame!Next
  <2>3. CASE StartFrame
    BY <2>3 DEF StartFrame, Frame!Next, Frame!NextFrame
  <2>4. ASSUME NEW t \in Workers, Moves(t), WorkerStep(t) PROVE [Frame!Next]_(Frame!vars)
    <3>1. outcome = "busy" /\ outcome' = "busy"
      BY <2>1, <2>4, BusyIsKept DEF IInv
    <3>2. LfStep(t)
      BY <2>1, <2>4, LfStepKinds DEF IInv
    <3>3. CASE encoded' = encoded /\ filtered' = filtered
      BY <1>3, <2>1, <3>1, <3>3
    <3>4. CASE encoded' # encoded
      <4> DEFINE b == <<tile[t], row[t], col[t]>>
      <4>1. Encodes(t) /\ ~Spoilt
        BY <2>4, <3>4 DEF WorkerStep, Walks, Takes, Encodes, Writes, EndsRow, RaisesExit, Releases
      <4>2. encoded' = encoded \cup {b} /\ pc[t] = (IF setup.late THEN "finish" ELSE "encode") /\ pc'[t] = "write"
        BY <4>1 DEF Encodes
      <4>3. filtered' = filtered
        BY <3>2, <4>2 DEF LfStep, LfWalks, LfTakes, LfFiltersVert, LfFiltersHorz, LfWrites, LfCloses, LfReleases
      <4>4. b \in Superblocks
        BY <2>1, <4>2 DEF Shapes, Superblocks
      <4>5. NeedsIn(setup, b) \subseteq encoded
        BY <4>1, <4>2, IInvTopRight DEF TopRightEncoded
      <4> HIDE DEF b
      <4> QED BY <1>2, <1>5, <2>1, <3>1, <4>2, <4>3, <4>4, <4>5
    <3>5. CASE encoded' = encoded /\ filtered' # filtered
      <4>1. LfFiltersVert(t) \/ LfFiltersHorz(t)
        BY <3>2, <3>5 DEF LfStep, LfWalks, LfTakes, LfWrites, LfCloses, LfReleases
      <4>2. filtered' = filtered \cup {LfBlock(t)} /\ pc[t] \in {"lf_vert", "lf_horz"} /\ pc[t] \in LfPlaces
        BY <4>1 DEF LfFiltersVert, LfFiltersHorz, LfPlaces, LfWork, LfHorzPlaces
      <4>3. LfBlock(t) \in FilterBlocksIn(setup)
        BY <4>2, BlockIsThere DEF IInv, LfInv
      <4>4. FilterNeedsIn(setup, LfBlock(t)) \subseteq done
        BY <4>2, FilterNeedsThere
      <4>5. done' = done \cup {LfBlock(t)}
        BY <3>5, <4>2
      <4> QED BY <1>2, <1>5, <2>1, <3>1, <4>3, <4>4, <4>5
    <3> QED BY <3>3, <3>4, <3>5
  <2> QED BY <2>1, <2>2, <2>3, <2>4
<1> QED BY <1>4, <1>6

\* The workers implement the wavefront: superblocks are encoded and filtered in
\* an order a single thread could have used, and a good frame is a complete one.
THEOREM ImplementsWavefront == Spec => WavefrontSpec
<1>1. Spec => Frame!Init /\ [][Frame!Next]_(Frame!vars)
  BY InitMaps, NextMaps, BothInvariants, PTL DEF Spec
<1> QED BY <1>1 DEF WavefrontSpec, Frame!Spec

=============================================================================
