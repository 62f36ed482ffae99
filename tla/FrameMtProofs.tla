---------------------------- MODULE FrameMtProofs ----------------------------
(***************************************************************************)
(* Proofs about FrameMt, for any number of threads, tiles of any sizes,    *)
(* frames of any size, any number of errors and of frames.  The invariant  *)
(* of the system is one invariant for the stage at work and what outlives  *)
(* a stage: the row objects of CDEF.                                       *)
(***************************************************************************)
EXTENDS FrameMt, TLAPS, FiniteSetTheorems, WellFoundedInduction

\* Another worker keeps its place, or is woken.
Stirs(from, to, asleep, awake) == to = from \/ (from = asleep /\ to = awake)

-----------------------------------------------------------------------------
\* Numbers.

\* Rows of W numbers each: a number is a row and a place in it, and the reverse.
LEMMA Grid ==
    ASSUME NEW H \in Nat, NEW W \in Nat \ {0}
    PROVE  /\ H * W \in Nat
           /\ \A k \in 0..(H * W - 1) : /\ k \div W \in 0..(H - 1) /\ k % W \in 0..(W - 1)
                                        /\ (k \div W) * W + (k % W) = k
           /\ \A q \in 0..(H - 1), r \in 0..(W - 1) : q * W + r \in 0..(H * W - 1)
           /\ \A q, u \in 0..(H - 1), r, v \in 0..(W - 1) :
                q * W + r = u * W + v => q = u /\ r = v
<1> DEFINE size == H * W
<1>1. size \in Nat
  OBVIOUS
<1>2. ASSUME NEW k \in 0..(size - 1)
      PROVE  /\ k \div W \in 0..(H - 1) /\ k % W \in 0..(W - 1)
             /\ (k \div W) * W + (k % W) = k
  <2>1. k \in Nat /\ k < size
    BY <1>1
  <2>2. k % W \in 0..(W - 1) /\ k \div W \in Nat /\ k = W * (k \div W) + (k % W)
    BY <2>1
  <2>3. W * (k \div W) = (k \div W) * W
    BY <2>2
  <2>4. ASSUME k \div W >= H PROVE FALSE
    <3> DEFINE q == k \div W
    <3>1. q \in Int /\ q - H \in Nat
      BY <2>2, <2>4
    <3> HIDE DEF q
    <3>2. W * q = W * H + W * (q - H) /\ W * (q - H) >= 0 /\ W * H = H * W
      BY <3>1
    <3>3. k >= W * q
      BY <2>2 DEF q
    <3> QED BY <2>1, <3>1, <3>2, <3>3, <1>1
  <2> QED BY <2>2, <2>3, <2>4
<1>3. ASSUME NEW q \in 0..(H - 1), NEW r \in 0..(W - 1)
      PROVE  q * W + r \in 0..(size - 1)
  <2> DEFINE rest == H - 1 - q
  <2>1. rest \in Nat /\ q = (H - 1) - rest /\ q \in Nat
    OBVIOUS
  <2> HIDE DEF rest
  <2>2. q * W \in Nat /\ rest * W \in Nat /\ H * W = q * W + W + rest * W
    BY <2>1
  <2> QED BY <2>2
<1>4. ASSUME NEW q \in 0..(H - 1), NEW u \in 0..(H - 1), NEW r \in 0..(W - 1), NEW v \in 0..(W - 1),
             q * W + r = u * W + v
      PROVE  ~(q < u)
  <2> SUFFICES ASSUME q < u PROVE FALSE
    OBVIOUS
  <2> DEFINE d == u - q - 1
  <2>1. d \in Nat /\ u = q + 1 + d /\ q \in Nat
    OBVIOUS
  <2> HIDE DEF d
  <2>2. u * W = q * W + W + d * W /\ q * W \in Nat /\ d * W \in Nat
    BY <2>1
  <2> QED BY <1>4, <2>2
<1>5. ASSUME NEW q \in 0..(H - 1), NEW u \in 0..(H - 1), NEW r \in 0..(W - 1), NEW v \in 0..(W - 1),
             q * W + r = u * W + v
      PROVE  q = u /\ r = v
  <2>1. ~(q < u) /\ ~(u < q)
    BY <1>4, <1>5
  <2>2. q = u /\ q * W \in Nat
    BY <2>1
  <2> QED BY <1>5, <2>2
<1> QED BY <1>1, <1>2, <1>3, <1>5

-----------------------------------------------------------------------------
\* CDEF: the invariant.

CdefRows == 0..(CdefHeight - 1)
CdefInRow == {"copy", "write", "read", "asleep", "check", "filter"}
CdefAtRow == CdefInRow \cup {"error"}
CdefEarly == {"copy", "write", "read", "asleep", "error"}
CdefBlocks == {"copy", "cdef"} \X CdefRows

CdefShapes ==
    /\ nvfb = CdefHeight /\ is_row_done \in [CdefRows -> {0, 1}]
    /\ fbr \in 0..CdefHeight /\ cdef_mt_exit \in BOOLEAN
    /\ pc \in [Workers -> Cdef!Places] /\ row \in [Workers -> CdefRows]
    /\ released \in [Workers -> 0..CdefHeight]
    /\ \A t \in Workers : pc[t] = "release" => released[t] < CdefHeight
    /\ \A t \in Workers : pc[t] \in {"next"} \cup CdefAtRow => released[t] = 0
    /\ done \subseteq CdefBlocks /\ outcome \in {"busy", "ok", "error"}

CdefExitMeans == cdef_mt_exit <=> \E t \in Workers : pc[t] \in {"release", "failed"}

\* A row that was handed out is one worker's.
CdefApart ==
    /\ \A t \in Workers : pc[t] \in CdefAtRow => row[t] < fbr
    /\ \A t, u \in Workers :
        t # u /\ pc[t] \in CdefAtRow /\ pc[u] \in CdefAtRow => row[t] # row[u]

\* What is done in the row of a worker, and in no row before it is handed out.
CdefDone ==
    /\ \A b \in done : b[2] < fbr
    /\ \A t \in Workers :
        /\ pc[t] \in CdefInRow => <<"cdef", row[t]>> \notin done
        /\ pc[t] = "copy" => <<"copy", row[t]>> \notin done
        /\ pc[t] \in CdefInRow \ {"copy"} => <<"copy", row[t]>> \in done
        /\ pc[t] = "filter" => (row[t] = 0 \/ <<"copy", row[t] - 1>> \in done)

\* A row that is filtered was copied.
CdefCopied == \A r \in CdefRows : <<"cdef", r>> \in done => <<"copy", r>> \in done

\* The lines of a row are copied, by a worker that has signalled it.
CdefSignalled(r) ==
    /\ <<"copy", r>> \in done
    /\ \A t \in Workers : pc[t] \in {"copy", "write"} => row[t] # r

\* Until a worker fails, a flag is set by its row and consumed by the next one;
\* that of the last row is consumed by nobody and may be of another frame.
CdefFlags ==
    ~cdef_mt_exit => \A r \in CdefRows :
        /\ r + 1 < CdefHeight /\ is_row_done[r] = 1 => CdefSignalled(r)
        /\ r > 0 /\ r < fbr /\ (\A t \in Workers : pc[t] \in CdefEarly => row[t] # r) =>
               is_row_done[r - 1] = 0 /\ CdefSignalled(r - 1)

\* Until a worker fails, a row that was handed out is filtered or somebody's.
CdefCovered ==
    ~cdef_mt_exit => \A r \in 0..(fbr - 1) :
        <<"cdef", r>> \in done \/ \E t \in Workers : pc[t] \in CdefAtRow /\ row[t] = r

CdefEnds ==
    /\ ~cdef_mt_exit /\ (\E t \in Workers : pc[t] = "returned") => fbr = CdefHeight
    /\ outcome # "busy" => \A t \in Workers : pc[t] \in {"returned", "failed"}
    /\ outcome = "ok" => ~cdef_mt_exit

CdefInv ==
    /\ CdefShapes /\ CdefExitMeans /\ CdefApart /\ CdefDone /\ CdefCopied /\ CdefFlags
    /\ CdefCovered /\ CdefEnds

-----------------------------------------------------------------------------
\* CDEF: its steps by their kinds.

CdefOthersStay(t) ==
    \A u \in Workers \ {t} : row'[u] = row[u] /\ Stirs(pc[u], pc'[u], "asleep", "read")

CdefRoute(t) ==
    \/ pc[t] = "next" /\ pc'[t] = "returned" /\ (cdef_mt_exit \/ fbr = CdefHeight)
    \/ pc[t] = "read" /\ pc'[t] = "check" /\ row[t] = 0
    \/ pc[t] = "read" /\ pc'[t] = "asleep"
    \/ pc[t] = "asleep" /\ pc'[t] = "read"
    \/ pc[t] = "check" /\ pc'[t] = "next" /\ cdef_mt_exit
    \/ pc[t] = "check" /\ pc'[t] = "filter" /\ ~(cdef_mt_exit /\ NumWorkers > 1)
    \/ pc[t] \in {"copy", "filter"} /\ pc'[t] = "error"

CdefWalks(t) ==
    /\ CdefOthersStay(t) /\ CdefRoute(t)
    /\ UNCHANGED <<row, fbr, is_row_done, cdef_mt_exit, done, outcome>>

CdefTakes(t) ==
    /\ CdefOthersStay(t) /\ pc[t] = "next" /\ pc'[t] = "copy"
    /\ ~cdef_mt_exit /\ fbr < CdefHeight /\ row'[t] = fbr /\ fbr' = fbr + 1
    /\ UNCHANGED <<is_row_done, cdef_mt_exit, done, outcome>>

CdefCopies(t) ==
    /\ CdefOthersStay(t) /\ pc[t] = "copy" /\ pc'[t] = "write"
    /\ done' = done \cup {<<"copy", row[t]>>}
    /\ UNCHANGED <<row, fbr, is_row_done, cdef_mt_exit, outcome>>

CdefSignals(t) ==
    /\ CdefOthersStay(t) /\ pc[t] = "write" /\ pc'[t] = "read"
    /\ is_row_done'[row[t]] = 1
    /\ \A r \in CdefRows \ {row[t]} : is_row_done'[r] = is_row_done[r]
    /\ UNCHANGED <<row, fbr, cdef_mt_exit, done, outcome>>

CdefConsumes(t) ==
    /\ CdefOthersStay(t) /\ pc[t] = "read" /\ pc'[t] = "check"
    /\ row[t] > 0 /\ is_row_done[row[t] - 1] = 1 /\ is_row_done'[row[t] - 1] = 0
    /\ \A r \in CdefRows \ {row[t] - 1} : is_row_done'[r] = is_row_done[r]
    /\ UNCHANGED <<row, fbr, cdef_mt_exit, done, outcome>>

CdefFilters(t) ==
    /\ CdefOthersStay(t) /\ pc[t] = "filter" /\ pc'[t] = "next"
    /\ done' = done \cup {<<"cdef", row[t]>>}
    /\ UNCHANGED <<row, fbr, is_row_done, cdef_mt_exit, outcome>>

CdefFails(t) ==
    /\ CdefOthersStay(t) /\ cdef_mt_exit'
    /\ \/ pc[t] = "error" /\ pc'[t] = "release"
       \/ pc[t] = "release" /\ pc'[t] \in {"release", "failed"}
    /\ UNCHANGED <<row, fbr, done, outcome>>

CdefStep(t) ==
    \/ CdefWalks(t) \/ CdefTakes(t) \/ CdefCopies(t) \/ CdefSignals(t) \/ CdefConsumes(t)
    \/ CdefFilters(t) \/ CdefFails(t)

\* CdefHeight and NumWorkers.
LEMMA CdefSizes ==
    /\ CdefHeight \in Nat \ {0} /\ NumWorkers \in Nat \ {0} /\ MaxErrors \in Nat
    /\ 0 \in Workers /\ 0 \in CdefRows
<1>1. CdefHeight \in Nat \ {0} /\ NumWorkers \in Nat \ {0} /\ MaxErrors \in Nat
  BY FrameMtAssumption DEF Cdef!CdefSyncAssumption
<1> QED BY <1>1 DEF Workers, CdefRows

\* cdef_row_mt_sync_write: the worker goes on, one that waits for the row may wake up.
LEMMA CdefSetsRowDone ==
    ASSUME CdefShapes, NEW t \in Workers, NEW r \in CdefRows, NEW w \in Cdef!Places,
           pc[t] # "asleep", Cdef!SetRowDone(t, r, w)
    PROVE  /\ pc' \in [Workers -> Cdef!Places] /\ pc'[t] = w
           /\ \A u \in Workers \ {t} : Stirs(pc[u], pc'[u], "asleep", "read")
           /\ is_row_done' \in [CdefRows -> {0, 1}] /\ is_row_done'[r] = 1
           /\ \A q \in CdefRows \ {r} : is_row_done'[q] = is_row_done[q]
<1>1. /\ is_row_done' \in [CdefRows -> {0, 1}] /\ is_row_done'[r] = 1
      /\ \A q \in CdefRows \ {r} : is_row_done'[q] = is_row_done[q]
  BY DEF Cdef!SetRowDone, CdefShapes
<1>2. pc \in [Workers -> Cdef!Places] /\ "read" \in Cdef!Places
  BY DEF CdefShapes, Cdef!Places
<1>3. CASE Cdef!GoesTo(t, w)
  BY <1>1, <1>2, <1>3 DEF Cdef!GoesTo, Stirs
<1>4. ASSUME NEW v \in Workers, pc[v] = "asleep", pc' = [pc EXCEPT ![t] = w, ![v] = "read"]
      PROVE  /\ pc' \in [Workers -> Cdef!Places] /\ pc'[t] = w
             /\ \A u \in Workers \ {t} : Stirs(pc[u], pc'[u], "asleep", "read")
  BY <1>2, <1>4 DEF Stirs
<1> QED BY <1>1, <1>3, <1>4 DEF Cdef!SetRowDone, Cdef!Workers, Workers

\* Every step of a worker is of one of these kinds, and keeps the shapes.
LEMMA CdefStepKinds ==
    ASSUME CdefShapes, CdefExitMeans, CdefApart, NEW t \in Workers,
           Cdef!Step(t) \/ Cdef!Throw(t) \/ Cdef!Spurious(t)
    PROVE  CdefShapes' /\ CdefStep(t)
<1> DEFINE Same == UNCHANGED <<nvfb, is_row_done, fbr, cdef_mt_exit, row, released, done, outcome>>
<1>1. /\ nvfb = CdefHeight /\ is_row_done \in [CdefRows -> {0, 1}] /\ fbr \in 0..CdefHeight
      /\ pc \in [Workers -> Cdef!Places] /\ row \in [Workers -> CdefRows]
      /\ released \in [Workers -> 0..CdefHeight] /\ done \subseteq CdefBlocks
      /\ outcome \in {"busy", "ok", "error"} /\ cdef_mt_exit \in BOOLEAN
      /\ CdefHeight \in Nat \ {0}
  BY CdefSizes DEF CdefShapes
<1>2. ASSUME NEW w \in Cdef!Places, Cdef!GoesTo(t, w)
      PROVE  /\ pc' \in [Workers -> Cdef!Places] /\ pc'[t] = w
             /\ \A u \in Workers \ {t} : pc'[u] = pc[u]
  BY <1>1, <1>2 DEF Cdef!GoesTo
<1>3. ASSUME NEW w \in Cdef!Places, Cdef!GoesTo(t, w), Same,
             pc[t] \in {"next"} \cup CdefAtRow, w # "release"
      PROVE  CdefShapes' /\ CdefOthersStay(t) /\ pc'[t] = w
  BY <1>2, <1>3 DEF CdefShapes, CdefOthersStay, Stirs
<1>4. CASE Cdef!NextJob(t)
  <2>1. CASE ~cdef_mt_exit /\ fbr < nvfb
    <3>1. /\ pc[t] = "next" /\ Cdef!GoesTo(t, "copy") /\ row' = [row EXCEPT ![t] = fbr]
          /\ fbr' = fbr + 1
          /\ UNCHANGED <<nvfb, is_row_done, cdef_mt_exit, released, done, outcome>>
      BY <1>4, <2>1 DEF Cdef!NextJob
    <3>2. fbr \in CdefRows /\ fbr' \in 0..CdefHeight
      BY <1>1, <2>1, <3>1 DEF CdefRows
    <3>3. /\ pc' \in [Workers -> Cdef!Places] /\ pc'[t] = "copy"
          /\ \A u \in Workers \ {t} : pc'[u] = pc[u]
      BY <1>2, <3>1 DEF Cdef!Places
    <3>4. /\ row' \in [Workers -> CdefRows] /\ row'[t] = fbr
          /\ \A u \in Workers \ {t} : row'[u] = row[u]
      BY <1>1, <3>1, <3>2
    <3>5. CdefShapes'
      BY <3>1, <3>2, <3>3, <3>4 DEF CdefShapes
    <3> QED BY <1>1, <2>1, <3>1, <3>3, <3>4, <3>5 DEF CdefStep, CdefTakes, CdefOthersStay, Stirs
  <2>2. CASE ~(~cdef_mt_exit /\ fbr < nvfb)
    <3>1. pc[t] = "next" /\ Cdef!GoesTo(t, "returned") /\ Same /\ "returned" \in Cdef!Places
      BY <1>4, <2>2 DEF Cdef!NextJob, Cdef!Places
    <3>2. CdefShapes' /\ CdefOthersStay(t) /\ pc'[t] = "returned"
      BY <1>3, <3>1
    <3>3. cdef_mt_exit \/ fbr = CdefHeight
      BY <1>1, <2>2
    <3> QED BY <3>1, <3>2, <3>3 DEF CdefStep, CdefWalks, CdefRoute
  <2> QED BY <2>1, <2>2
<1>5. CASE Cdef!CopyLines(t)
  <2>1. /\ pc[t] = "copy" /\ Cdef!GoesTo(t, "write") /\ done' = done \cup {<<"copy", row[t]>>}
        /\ UNCHANGED <<nvfb, is_row_done, fbr, cdef_mt_exit, row, released, outcome>>
    BY <1>5 DEF Cdef!CopyLines
  <2>2. pc' \in [Workers -> Cdef!Places] /\ pc'[t] = "write" /\ \A u \in Workers \ {t} : pc'[u] = pc[u]
    BY <1>2, <2>1 DEF Cdef!Places
  <2>3. done' \subseteq CdefBlocks
    BY <1>1, <2>1 DEF CdefBlocks
  <2>4. CdefShapes'
    BY <2>1, <2>2, <2>3 DEF CdefShapes, CdefAtRow, CdefInRow
  <2> QED BY <2>1, <2>2, <2>4 DEF CdefStep, CdefCopies, CdefOthersStay, Stirs
<1>6. CASE Cdef!SyncWrite(t)
  <2>1. /\ pc[t] = "write" /\ Cdef!SetRowDone(t, row[t], "read")
        /\ UNCHANGED <<nvfb, fbr, cdef_mt_exit, row, released, done, outcome>>
    BY <1>6 DEF Cdef!SyncWrite
  <2>2. /\ pc' \in [Workers -> Cdef!Places] /\ pc'[t] = "read"
        /\ \A u \in Workers \ {t} : Stirs(pc[u], pc'[u], "asleep", "read")
        /\ is_row_done' \in [CdefRows -> {0, 1}] /\ is_row_done'[row[t]] = 1
        /\ \A q \in CdefRows \ {row[t]} : is_row_done'[q] = is_row_done[q]
    BY <1>1, <2>1, CdefSetsRowDone DEF Cdef!Places
  <2>3. CdefShapes'
    BY <2>1, <2>2 DEF CdefShapes, CdefAtRow, CdefInRow, Stirs
  <2> QED BY <2>1, <2>2, <2>3 DEF CdefStep, CdefSignals, CdefOthersStay
<1>7. CASE Cdef!SyncRead(t)
  <2>0. pc[t] = "read" /\ UNCHANGED <<nvfb, fbr, cdef_mt_exit, row, released, done, outcome>>
    BY <1>7 DEF Cdef!SyncRead
  <2>1. CASE row[t] = 0
    <3>1. Cdef!GoesTo(t, "check") /\ Same /\ "check" \in Cdef!Places
      BY <1>7, <2>1 DEF Cdef!SyncRead, Cdef!Places
    <3>2. CdefShapes' /\ CdefOthersStay(t) /\ pc'[t] = "check"
      BY <1>3, <2>0, <3>1 DEF CdefAtRow, CdefInRow
    <3> QED BY <2>0, <2>1, <3>1, <3>2 DEF CdefStep, CdefWalks, CdefRoute
  <2>2. CASE row[t] # 0 /\ is_row_done[row[t] - 1] = 1
    <3>1. Cdef!GoesTo(t, "check") /\ is_row_done' = [is_row_done EXCEPT ![row[t] - 1] = 0]
      BY <1>7, <2>2 DEF Cdef!SyncRead
    <3>2. row[t] - 1 \in CdefRows /\ row[t] > 0
      BY <1>1, <2>2 DEF CdefRows
    <3>3. /\ is_row_done' \in [CdefRows -> {0, 1}] /\ is_row_done'[row[t] - 1] = 0
          /\ \A r \in CdefRows \ {row[t] - 1} : is_row_done'[r] = is_row_done[r]
      BY <1>1, <3>1, <3>2
    <3>4. pc' \in [Workers -> Cdef!Places] /\ pc'[t] = "check" /\ \A u \in Workers \ {t} : pc'[u] = pc[u]
      BY <1>2, <3>1 DEF Cdef!Places
    <3>5. CdefShapes'
      BY <2>0, <3>3, <3>4 DEF CdefShapes, CdefAtRow, CdefInRow
    <3> QED BY <2>0, <2>2, <3>2, <3>3, <3>4, <3>5 DEF CdefStep, CdefConsumes, CdefOthersStay, Stirs
  <2>3. CASE row[t] # 0 /\ is_row_done[row[t] - 1] # 1
    <3>1. Cdef!GoesTo(t, "asleep") /\ Same /\ "asleep" \in Cdef!Places
      BY <1>7, <2>3 DEF Cdef!SyncRead, Cdef!Places
    <3>2. CdefShapes' /\ CdefOthersStay(t) /\ pc'[t] = "asleep"
      BY <1>3, <2>0, <3>1 DEF CdefAtRow, CdefInRow
    <3> QED BY <2>0, <3>1, <3>2 DEF CdefStep, CdefWalks, CdefRoute
  <2> QED BY <2>1, <2>2, <2>3
<1>8. CASE Cdef!CheckExit(t)
  <2>1. /\ pc[t] = "check" /\ Same
        /\ Cdef!GoesTo(t, IF cdef_mt_exit /\ NumWorkers > 1 THEN "next" ELSE "filter")
    BY <1>8 DEF Cdef!CheckExit
  <2>2. CASE cdef_mt_exit /\ NumWorkers > 1
    <3>1. CdefShapes' /\ CdefOthersStay(t) /\ pc'[t] = "next"
      BY <1>3, <2>1, <2>2 DEF CdefAtRow, CdefInRow, Cdef!Places
    <3> QED BY <2>1, <2>2, <3>1 DEF CdefStep, CdefWalks, CdefRoute
  <2>3. CASE ~(cdef_mt_exit /\ NumWorkers > 1)
    <3>1. CdefShapes' /\ CdefOthersStay(t) /\ pc'[t] = "filter"
      BY <1>3, <2>1, <2>3 DEF CdefAtRow, CdefInRow, Cdef!Places
    <3> QED BY <2>1, <2>3, <3>1 DEF CdefStep, CdefWalks, CdefRoute
  <2> QED BY <2>2, <2>3
<1>9. CASE Cdef!Filter(t)
  <2>1. /\ pc[t] = "filter" /\ Cdef!GoesTo(t, "next") /\ done' = done \cup {<<"cdef", row[t]>>}
        /\ UNCHANGED <<nvfb, is_row_done, fbr, cdef_mt_exit, row, released, outcome>>
    BY <1>9 DEF Cdef!Filter
  <2>2. pc' \in [Workers -> Cdef!Places] /\ pc'[t] = "next" /\ \A u \in Workers \ {t} : pc'[u] = pc[u]
    BY <1>2, <2>1 DEF Cdef!Places
  <2>3. done' \subseteq CdefBlocks
    BY <1>1, <2>1 DEF CdefBlocks
  <2>4. CdefShapes'
    BY <2>1, <2>2, <2>3 DEF CdefShapes, CdefAtRow, CdefInRow
  <2> QED BY <2>1, <2>2, <2>4 DEF CdefStep, CdefFilters, CdefOthersStay, Stirs
<1>10. CASE Cdef!RaiseExit(t)
  <2>1. /\ pc[t] = "error" /\ Cdef!GoesTo(t, "release") /\ cdef_mt_exit'
        /\ UNCHANGED <<nvfb, is_row_done, fbr, row, released, done, outcome>>
        /\ cdef_mt_exit' \in BOOLEAN
    BY <1>10 DEF Cdef!RaiseExit
  <2>2. pc' \in [Workers -> Cdef!Places] /\ pc'[t] = "release" /\ \A u \in Workers \ {t} : pc'[u] = pc[u]
    BY <1>2, <2>1 DEF Cdef!Places
  <2>3. CdefShapes'
    BY <1>1, <2>1, <2>2 DEF CdefShapes, CdefAtRow, CdefInRow
  <2> QED BY <2>1, <2>2, <2>3 DEF CdefStep, CdefFails, CdefOthersStay, Stirs
<1>11. CASE Cdef!Release(t)
  <2> DEFINE w == IF released[t] + 1 = nvfb THEN "failed" ELSE "release"
  <2>1. /\ pc[t] = "release" /\ Cdef!SetRowDone(t, released[t], w)
        /\ released' = [released EXCEPT ![t] = released[t] + 1]
        /\ UNCHANGED <<nvfb, fbr, cdef_mt_exit, row, done, outcome>>
    BY <1>11 DEF Cdef!Release
  <2>2. released[t] \in CdefRows /\ w \in Cdef!Places
    BY <1>1, <2>1 DEF CdefShapes, CdefRows, Cdef!Places
  <2>3. /\ pc' \in [Workers -> Cdef!Places] /\ pc'[t] = w
        /\ \A u \in Workers \ {t} : Stirs(pc[u], pc'[u], "asleep", "read")
        /\ is_row_done' \in [CdefRows -> {0, 1}]
    <3> HIDE DEF w
    <3> QED BY <2>1, <2>2, CdefSetsRowDone
  <2>4. /\ released' \in [Workers -> 0..CdefHeight] /\ released'[t] = released[t] + 1
        /\ \A u \in Workers \ {t} : released'[u] = released[u]
    BY <1>1, <2>1, <2>2 DEF CdefRows
  <2>5. CdefShapes'
    BY <1>1, <2>1, <2>2, <2>3, <2>4 DEF CdefShapes, CdefAtRow, CdefInRow, CdefRows, Stirs
  <2>6. cdef_mt_exit
    BY <2>1 DEF CdefExitMeans
  <2> QED BY <2>1, <2>3, <2>5, <2>6 DEF CdefStep, CdefFails, CdefOthersStay
<1>12. CASE Cdef!Throw(t)
  <2>1. pc[t] \in {"copy", "filter"} /\ Cdef!GoesTo(t, "error") /\ Same
    BY <1>12 DEF Cdef!Throw
  <2>2. CdefShapes' /\ CdefOthersStay(t) /\ pc'[t] = "error"
    BY <1>3, <2>1 DEF CdefAtRow, CdefInRow, Cdef!Places
  <2> QED BY <2>1, <2>2 DEF CdefStep, CdefWalks, CdefRoute
<1>13. CASE Cdef!Spurious(t)
  <2>1. pc[t] = "asleep" /\ Cdef!GoesTo(t, "read") /\ Same
    BY <1>13 DEF Cdef!Spurious
  <2>2. CdefShapes' /\ CdefOthersStay(t) /\ pc'[t] = "read"
    BY <1>3, <2>1 DEF CdefAtRow, CdefInRow, Cdef!Places
  <2> QED BY <2>1, <2>2 DEF CdefStep, CdefWalks, CdefRoute
<1> QED BY <1>4, <1>5, <1>6, <1>7, <1>8, <1>9, <1>10, <1>11, <1>12, <1>13 DEF Cdef!Step

-----------------------------------------------------------------------------
\* CDEF: each part of the invariant is kept.

\* A step of a thread of CDEF keeps CdefExitMeans.
LEMMA CdefExitMeansKept ==
    ASSUME CdefExitMeans, NEW t \in Workers, CdefStep(t)
    PROVE  CdefExitMeans'
<1> DEFINE Gone(u) == pc[u] \in {"release", "failed"}
<1>1. \A u \in Workers \ {t} : pc'[u] \in {"release", "failed"} <=> Gone(u)
  BY DEF CdefStep, CdefWalks, CdefTakes, CdefCopies, CdefSignals, CdefConsumes, CdefFilters,
         CdefFails, CdefOthersStay, Stirs
<1>2. CASE CdefFails(t)
  BY <1>1, <1>2 DEF CdefFails, CdefExitMeans
<1>3. CASE ~CdefFails(t)
  <2>1. /\ cdef_mt_exit' = cdef_mt_exit /\ ~Gone(t) /\ pc'[t] \notin {"release", "failed"}
    BY <1>3 DEF CdefStep, CdefWalks, CdefRoute, CdefTakes, CdefCopies, CdefSignals, CdefConsumes,
                CdefFilters
  <2> QED BY <1>1, <2>1 DEF CdefExitMeans
<1> QED BY <1>2, <1>3

\* A step of a thread of CDEF keeps CdefApart.
LEMMA CdefApartKept ==
    ASSUME CdefShapes, CdefApart, NEW t \in Workers, CdefStep(t)
    PROVE  CdefApart'
<1> DEFINE In(u) == pc[u] \in CdefAtRow
<1>1. \A u \in Workers \ {t} : row'[u] = row[u] /\ (pc'[u] \in CdefAtRow <=> In(u))
  BY DEF CdefStep, CdefWalks, CdefTakes, CdefCopies, CdefSignals, CdefConsumes, CdefFilters,
         CdefFails, CdefOthersStay, Stirs, CdefAtRow, CdefInRow
<1>2. fbr \in Nat /\ \A u \in Workers : row[u] \in Nat
  BY CdefSizes DEF CdefShapes, CdefRows
<1>3. CASE CdefTakes(t)
  <2>1. row'[t] = fbr /\ fbr' = fbr + 1 /\ \A u \in Workers : In(u) => row[u] < fbr
    BY <1>3 DEF CdefTakes, CdefApart
  <2> QED BY <1>1, <1>2, <2>1 DEF CdefApart
<1>4. CASE ~CdefTakes(t)
  <2>1. row' = row /\ fbr' = fbr /\ (pc'[t] \in CdefAtRow => In(t))
    BY <1>4 DEF CdefStep, CdefWalks, CdefRoute, CdefCopies, CdefSignals, CdefConsumes,
                CdefFilters, CdefFails, CdefAtRow, CdefInRow
  <2> QED BY <1>1, <2>1 DEF CdefApart
<1> QED BY <1>3, <1>4

\* A step of a thread of CDEF keeps CdefDone.
LEMMA CdefDoneKept ==
    ASSUME CdefShapes, CdefExitMeans, CdefApart, CdefDone, CdefFlags, NEW t \in Workers, CdefStep(t)
    PROVE  CdefDone'
<1> DEFINE Of(u) ==
        /\ pc[u] \in CdefInRow => <<"cdef", row[u]>> \notin done
        /\ pc[u] = "copy" => <<"copy", row[u]>> \notin done
        /\ pc[u] \in CdefInRow \ {"copy"} => <<"copy", row[u]>> \in done
        /\ pc[u] = "filter" => (row[u] = 0 \/ <<"copy", row[u] - 1>> \in done)
<1>1. fbr \in Nat /\ \A u \in Workers : row[u] \in Nat
  BY CdefSizes DEF CdefShapes, CdefRows
<1>2. \A u \in Workers : Of(u)
  BY DEF CdefDone
<1>3. \A u \in Workers \ {t} :
        /\ row'[u] = row[u] /\ Stirs(pc[u], pc'[u], "asleep", "read")
        /\ ~(pc[t] \in CdefInRow /\ pc[u] \in CdefInRow /\ row[u] = row[t])
  BY DEF CdefStep, CdefWalks, CdefTakes, CdefCopies, CdefSignals, CdefConsumes, CdefFilters,
         CdefFails, CdefOthersStay, CdefApart, CdefAtRow
<1>4. ASSUME NEW s, done' = done \cup {<<s, row[t]>>}, pc[t] \in CdefInRow
      PROVE  \A u \in Workers \ {t} : Of(u)'
  <2> SUFFICES ASSUME NEW u \in Workers \ {t} PROVE Of(u)'
    OBVIOUS
  <2>1. CASE pc[u] \in CdefInRow
    <3>1. /\ row[u] # row[t] /\ row'[u] = row[u] /\ Of(u)
          /\ pc'[u] = pc[u] \/ (pc[u] = "asleep" /\ pc'[u] = "read")
      BY <1>2, <1>3, <1>4, <2>1 DEF Stirs
    <3>2. \A w \in {"copy", "cdef"} : <<w, row[u]>> \in done' <=> <<w, row[u]>> \in done
      BY <1>4, <3>1
    <3>3. <<"copy", row[u] - 1>> \in done => <<"copy", row[u] - 1>> \in done'
      BY <1>4
    <3> QED BY <3>1, <3>2, <3>3 DEF CdefInRow
  <2>2. CASE pc[u] \notin CdefInRow
    <3>1. pc'[u] = pc[u]
      BY <1>3, <2>2 DEF Stirs, CdefInRow
    <3> QED BY <2>2, <3>1 DEF CdefInRow
  <2> QED BY <2>1, <2>2
<1>5. ASSUME done' = done
      PROVE  \A u \in Workers \ {t} : Of(u)'
  BY <1>2, <1>3, <1>5 DEF Stirs, CdefInRow
<1>6. CASE CdefWalks(t)
  <2>1. Of(t)'
    <3>1. row'[t] = row[t] /\ done' = done /\ CdefRoute(t)
      BY <1>6 DEF CdefWalks
    <3>2. CASE pc[t] = "check" /\ pc'[t] = "filter" /\ ~(cdef_mt_exit /\ NumWorkers > 1) /\ row[t] # 0
      <4>1. ~cdef_mt_exit
        <5>1. SUFFICES ASSUME cdef_mt_exit PROVE FALSE
          OBVIOUS
        <5>2. NumWorkers = 1
          BY <3>2, <5>1, CdefSizes
        <5>3. \A u \in Workers : u = t
          BY <5>2 DEF Workers
        <5> QED BY <3>2, <5>1, <5>3 DEF CdefExitMeans
      <4>2. row[t] \in CdefRows /\ row[t] > 0 /\ row[t] < fbr
        BY <1>1, <3>2, CdefSizes DEF CdefShapes, CdefApart, CdefAtRow, CdefInRow
      <4>3. \A u \in Workers : pc[u] \in CdefEarly => row[u] # row[t]
        BY <3>2 DEF CdefApart, CdefAtRow, CdefInRow, CdefEarly
      <4>4. <<"copy", row[t] - 1>> \in done
        BY <4>1, <4>2, <4>3 DEF CdefFlags, CdefSignalled
      <4> QED BY <1>2, <3>1, <3>2, <4>4 DEF CdefInRow
    <3>3. CASE ~(pc[t] = "check" /\ pc'[t] = "filter" /\ ~(cdef_mt_exit /\ NumWorkers > 1) /\ row[t] # 0)
      BY <1>2, <3>1, <3>3 DEF CdefRoute, CdefInRow
    <3> QED BY <3>2, <3>3
  <2> QED BY <1>2, <1>5, <1>6, <2>1 DEF CdefWalks, CdefDone
<1>7. CASE CdefTakes(t)
  <2>1. /\ pc'[t] = "copy" /\ row'[t] = fbr /\ fbr' = fbr + 1 /\ done' = done
        /\ \A b \in done : b[2] < fbr
    BY <1>7 DEF CdefTakes, CdefDone
  <2>2. \A b \in done : b[2] \in Nat
    BY CdefSizes DEF CdefShapes, CdefBlocks, CdefRows
  <2>3. <<"cdef", fbr>> \notin done /\ <<"copy", fbr>> \notin done
    BY <1>1, <2>1, <2>2
  <2>4. Of(t)' /\ \A b \in done' : b[2] < fbr'
    BY <1>1, <2>1, <2>2, <2>3 DEF CdefInRow
  <2> QED BY <1>5, <2>1, <2>4 DEF CdefDone
<1>8. ASSUME NEW s, pc[t] \in CdefInRow, done' = done \cup {<<s, row[t]>>}, row' = row, fbr' = fbr
      PROVE  \A b \in done' : b[2] < fbr'
  BY <1>8 DEF CdefDone, CdefApart, CdefAtRow
<1>9. CASE CdefCopies(t)
  <2>1. /\ pc[t] = "copy" /\ pc'[t] = "write" /\ done' = done \cup {<<"copy", row[t]>>}
        /\ row' = row /\ fbr' = fbr
    BY <1>9 DEF CdefCopies
  <2>2. Of(t)'
    BY <1>2, <2>1 DEF CdefInRow
  <2>3. pc[t] \in CdefInRow
    BY <2>1 DEF CdefInRow
  <2>4. \A u \in Workers \ {t} : Of(u)'
    BY <1>4, <2>1, <2>3
  <2>5. \A b \in done' : b[2] < fbr'
    BY <1>8, <2>1, <2>3
  <2> QED BY <2>2, <2>4, <2>5 DEF CdefDone
<1>10. CASE CdefSignals(t)
  <2>1. pc[t] = "write" /\ pc'[t] = "read" /\ done' = done /\ row' = row /\ fbr' = fbr
    BY <1>10 DEF CdefSignals
  <2>2. Of(t)'
    BY <1>2, <2>1 DEF CdefInRow
  <2> QED BY <1>5, <2>1, <2>2 DEF CdefDone
<1>11. CASE CdefConsumes(t)
  <2>1. pc[t] = "read" /\ pc'[t] = "check" /\ done' = done /\ row' = row /\ fbr' = fbr
    BY <1>11 DEF CdefConsumes
  <2>2. Of(t)'
    BY <1>2, <2>1 DEF CdefInRow
  <2> QED BY <1>5, <2>1, <2>2 DEF CdefDone
<1>12. CASE CdefFilters(t)
  <2>1. /\ pc[t] = "filter" /\ pc'[t] = "next" /\ done' = done \cup {<<"cdef", row[t]>>}
        /\ row' = row /\ fbr' = fbr
    BY <1>12 DEF CdefFilters
  <2>2. Of(t)'
    BY <2>1 DEF CdefInRow
  <2>3. pc[t] \in CdefInRow
    BY <2>1 DEF CdefInRow
  <2>4. \A u \in Workers \ {t} : Of(u)'
    BY <1>4, <2>1, <2>3
  <2>5. \A b \in done' : b[2] < fbr'
    BY <1>8, <2>1, <2>3
  <2> QED BY <2>2, <2>4, <2>5 DEF CdefDone
<1>13. CASE CdefFails(t)
  <2>1. /\ pc'[t] \in {"release", "failed"} /\ done' = done /\ row' = row /\ fbr' = fbr
    BY <1>13 DEF CdefFails
  <2>2. Of(t)'
    BY <2>1 DEF CdefInRow
  <2> QED BY <1>5, <2>1, <2>2 DEF CdefDone
<1> QED BY <1>6, <1>7, <1>9, <1>10, <1>11, <1>12, <1>13 DEF CdefStep

\* A step of a thread of CDEF keeps CdefCopied.
LEMMA CdefCopiedKept ==
    ASSUME CdefDone, CdefCopied, NEW t \in Workers, CdefStep(t)
    PROVE  CdefCopied'
<1>1. \/ done' = done \/ done' = done \cup {<<"copy", row[t]>>}
      \/ pc[t] = "filter" /\ done' = done \cup {<<"cdef", row[t]>>}
  BY DEF CdefStep, CdefWalks, CdefTakes, CdefCopies, CdefSignals, CdefConsumes, CdefFilters, CdefFails
<1>2. pc[t] = "filter" => <<"copy", row[t]>> \in done
  BY DEF CdefDone, CdefInRow
<1> QED BY <1>1, <1>2 DEF CdefCopied

\* A step of a thread of CDEF keeps CdefFlags.
LEMMA CdefFlagsKept ==
    ASSUME CdefShapes, CdefApart, CdefDone, CdefFlags, NEW t \in Workers, CdefStep(t)
    PROVE  CdefFlags'
<1> DEFINE Early(r) == \E u \in Workers : pc[u] \in CdefEarly /\ row[u] = r
           A(r) == r + 1 < CdefHeight /\ is_row_done[r] = 1 => CdefSignalled(r)
           B(r) == r > 0 /\ r < fbr /\ ~Early(r) => is_row_done[r - 1] = 0 /\ CdefSignalled(r - 1)
<1>1. SUFFICES ASSUME ~cdef_mt_exit', NEW r \in CdefRows
               PROVE  A(r)' /\ B(r)'
  BY DEF CdefFlags
<1>2. ~cdef_mt_exit /\ ~CdefFails(t)
  BY <1>1 DEF CdefStep, CdefWalks, CdefTakes, CdefCopies, CdefSignals, CdefConsumes,
              CdefFilters, CdefFails
<1>3. \A q \in CdefRows : A(q) /\ B(q)
  BY <1>2 DEF CdefFlags
<1>4. fbr \in Nat /\ (\A u \in Workers : row[u] \in Nat) /\ r \in Nat /\ (r > 0 => r - 1 \in CdefRows)
  BY CdefSizes DEF CdefShapes, CdefRows
<1>5. /\ \A u \in Workers \ {t} : row'[u] = row[u] /\ (pc'[u] \in CdefEarly <=> pc[u] \in CdefEarly)
      /\ \A u \in Workers \ {t} : pc'[u] \in {"copy", "write"} <=> pc[u] \in {"copy", "write"}
  BY <1>2 DEF CdefStep, CdefWalks, CdefTakes, CdefCopies, CdefSignals, CdefConsumes,
              CdefFilters, CdefOthersStay, Stirs, CdefEarly
<1>6. ASSUME done \subseteq done', row' = row, pc'[t] \in {"copy", "write"} => pc[t] \in {"copy", "write"},
             NEW q \in Int, CdefSignalled(q)
      PROVE  CdefSignalled(q)'
  BY <1>5, <1>6 DEF CdefSignalled
<1>7. ASSUME row' = row, pc[t] \in CdefEarly /\ row[t] = r => pc'[t] \in CdefEarly, ~Early(r)'
      PROVE  ~Early(r)
  BY <1>5, <1>7
<1>8. CASE CdefWalks(t) \/ CdefCopies(t) \/ CdefFilters(t)
  <2>1. /\ done \subseteq done' /\ row' = row /\ fbr' = fbr /\ is_row_done' = is_row_done
        /\ pc'[t] \in {"copy", "write"} => pc[t] \in {"copy", "write"}
    BY <1>8 DEF CdefWalks, CdefRoute, CdefCopies, CdefFilters
  <2>2. r > 0 /\ pc[t] \in CdefEarly /\ row[t] = r => pc'[t] \in CdefEarly
    BY <1>4, <1>8 DEF CdefWalks, CdefRoute, CdefCopies, CdefFilters, CdefEarly
  <2>3. \A q \in Int : CdefSignalled(q) => CdefSignalled(q)'
    BY <1>6, <2>1
  <2>4. r > 0 /\ ~Early(r)' => ~Early(r)
    BY <1>7, <2>1, <2>2
  <2> QED BY <1>3, <1>4, <2>1, <2>3, <2>4
<1>9. CASE CdefTakes(t)
  <2>1. /\ pc[t] = "next" /\ pc'[t] = "copy" /\ row'[t] = fbr /\ fbr' = fbr + 1
        /\ is_row_done' = is_row_done /\ done' = done
    BY <1>9 DEF CdefTakes
  <2>2. \A q \in Nat : CdefSignalled(q) => q < fbr
    BY DEF CdefSignalled, CdefDone
  <2>3. \A q \in Nat : CdefSignalled(q) => CdefSignalled(q)'
    BY <1>4, <1>5, <2>1, <2>2 DEF CdefSignalled
  <2>4. r < fbr' /\ ~Early(r)' => r < fbr /\ ~Early(r)
    BY <1>4, <1>5, <2>1 DEF CdefEarly
  <2> QED BY <1>3, <1>4, <2>1, <2>3, <2>4
<1>10. CASE CdefSignals(t)
  <2>1. /\ pc[t] = "write" /\ pc'[t] = "read" /\ done' = done /\ row' = row /\ fbr' = fbr
        /\ \A q \in CdefRows \ {row[t]} : is_row_done'[q] = is_row_done[q]
    BY <1>10 DEF CdefSignals
  <2>2. \A q \in Int : CdefSignalled(q) => CdefSignalled(q)' /\ q # row[t]
    BY <1>6, <2>1 DEF CdefSignalled
  <2>3. CdefSignalled(row[t])'
    <3>1. <<"copy", row[t]>> \in done
      BY <2>1 DEF CdefDone, CdefInRow
    <3>2. \A u \in Workers \ {t} : pc[u] \in {"copy", "write"} => row[u] # row[t]
      BY <2>1 DEF CdefApart, CdefAtRow, CdefInRow
    <3> QED BY <1>5, <2>1, <3>1, <3>2 DEF CdefSignalled
  <2>4. ~Early(r)' => ~Early(r)
    BY <1>7, <2>1 DEF CdefEarly
  <2>5. A(r)'
    <3>1. CASE r = row[t]
      <4>1. CdefSignalled(r)'
        BY <2>1, <2>3, <3>1 DEF CdefSignalled
      <4> QED BY <4>1
    <3>2. CASE r # row[t]
      BY <1>3, <1>4, <2>1, <2>2, <3>2
    <3> QED BY <3>1, <3>2
  <2>6. B(r)'
    BY <1>3, <1>4, <2>1, <2>2, <2>4
  <2> QED BY <2>5, <2>6
<1>11. CASE CdefConsumes(t)
  <2>1. /\ pc[t] = "read" /\ pc'[t] = "check" /\ done' = done /\ row' = row /\ fbr' = fbr
        /\ row[t] > 0 /\ is_row_done[row[t] - 1] = 1 /\ is_row_done'[row[t] - 1] = 0
        /\ \A q \in CdefRows \ {row[t] - 1} : is_row_done'[q] = is_row_done[q]
    BY <1>11 DEF CdefConsumes
  <2>2. \A q \in Int : CdefSignalled(q) => CdefSignalled(q)'
    BY <1>6, <2>1
  <2>3. A(r)'
    BY <1>3, <1>4, <2>1, <2>2
  <2>4. CASE r = row[t]
    <3>1. r - 1 \in CdefRows /\ (r - 1) + 1 < CdefHeight
      BY <1>4, <2>1, <2>4, CdefSizes DEF CdefRows
    <3>2. A(r - 1)
      BY <1>3, <3>1
    <3>3. CdefSignalled(r - 1)'
      <4>1. r - 1 \in Int /\ CdefSignalled(r - 1)
        BY <1>4, <2>1, <2>4, <3>1, <3>2
      <4> QED BY <2>2, <4>1
    <3>4. is_row_done'[r - 1] = 0
      BY <2>1, <2>4
    <3> QED BY <2>3, <3>3, <3>4
  <2>5. CASE r # row[t]
    <3>1. ~Early(r)' => ~Early(r)
      BY <1>7, <2>1, <2>5
    <3>2. r > 0 => is_row_done'[r - 1] = is_row_done[r - 1]
      BY <1>4, <2>1, <2>5
    <3> QED BY <1>3, <1>4, <2>1, <2>2, <2>3, <3>1, <3>2
  <2> QED BY <2>4, <2>5
<1> QED BY <1>2, <1>8, <1>9, <1>10, <1>11 DEF CdefStep

\* A step of a thread of CDEF keeps CdefCovered.
LEMMA CdefCoveredKept ==
    ASSUME CdefShapes, CdefCovered, NEW t \in Workers, CdefStep(t)
    PROVE  CdefCovered'
<1>1. SUFFICES ASSUME ~cdef_mt_exit', NEW r \in 0..(fbr' - 1)
               PROVE  (<<"cdef", r>> \in done \/ \E u \in Workers : pc[u] \in CdefAtRow /\ row[u] = r)'
  BY DEF CdefCovered
<1>2. ~cdef_mt_exit /\ ~CdefFails(t)
  BY <1>1 DEF CdefStep, CdefWalks, CdefTakes, CdefCopies, CdefSignals, CdefConsumes,
              CdefFilters, CdefFails
<1>3. \A u \in Workers \ {t} : row'[u] = row[u] /\ (pc'[u] \in CdefAtRow <=> pc[u] \in CdefAtRow)
  BY <1>2 DEF CdefStep, CdefWalks, CdefTakes, CdefCopies, CdefSignals, CdefConsumes,
              CdefFilters, CdefOthersStay, Stirs, CdefAtRow, CdefInRow
<1>4. CASE CdefTakes(t)
  <2>1. pc[t] = "next" /\ pc'[t] = "copy" /\ row'[t] = fbr /\ fbr' = fbr + 1 /\ done' = done
    BY <1>4 DEF CdefTakes
  <2>2. r = fbr \/ r \in 0..(fbr - 1)
    BY <2>1, CdefSizes DEF CdefShapes
  <2> QED BY <1>2, <1>3, <2>1, <2>2 DEF CdefCovered, CdefAtRow, CdefInRow
<1>5. CASE ~CdefTakes(t)
  <2>1. /\ done \subseteq done' /\ row' = row /\ fbr' = fbr
        /\ pc[t] \in CdefAtRow => (pc'[t] \in CdefAtRow \/ <<"cdef", row[t]>> \in done')
    BY <1>2, <1>5 DEF CdefStep, CdefWalks, CdefRoute, CdefCopies, CdefSignals, CdefConsumes,
                      CdefFilters, CdefAtRow, CdefInRow
  <2> QED BY <1>1, <1>2, <1>3, <2>1 DEF CdefCovered
<1> QED BY <1>4, <1>5

\* A step of a thread of CDEF keeps CdefEnds.
LEMMA CdefEndsKept ==
    ASSUME CdefShapes, CdefEnds, NEW t \in Workers, CdefStep(t)
    PROVE  CdefEnds'
<1>1. /\ pc[t] \notin {"returned", "failed"} /\ outcome' = outcome
      /\ \A u \in Workers \ {t} : pc'[u] = "returned" <=> pc[u] = "returned"
  BY DEF CdefStep, CdefWalks, CdefRoute, CdefTakes, CdefCopies, CdefSignals, CdefConsumes,
         CdefFilters, CdefFails, CdefOthersStay, Stirs
<1>2. outcome = "busy"
  BY <1>1 DEF CdefEnds
<1>3. ASSUME ~cdef_mt_exit', NEW u \in Workers, pc'[u] = "returned"
      PROVE  fbr' = CdefHeight
  <2>1. ~cdef_mt_exit /\ ~CdefFails(t)
    BY <1>3 DEF CdefStep, CdefWalks, CdefTakes, CdefCopies, CdefSignals, CdefConsumes,
                CdefFilters, CdefFails
  <2>2. CASE u = t
    BY <1>3, <2>1, <2>2 DEF CdefStep, CdefWalks, CdefRoute, CdefTakes, CdefCopies, CdefSignals,
                            CdefConsumes, CdefFilters
  <2>3. CASE u # t
    <3>1. fbr = CdefHeight
      BY <1>1, <1>3, <2>1, <2>3 DEF CdefEnds
    <3>2. fbr' = fbr
      BY <2>1, <3>1, CdefSizes DEF CdefStep, CdefWalks, CdefTakes, CdefCopies, CdefSignals,
                            CdefConsumes, CdefFilters
    <3> QED BY <3>1, <3>2
  <2> QED BY <2>2, <2>3
<1> QED BY <1>1, <1>2, <1>3 DEF CdefEnds

\* A step of a thread of CDEF keeps the invariant of the stage.
LEMMA CdefStepKept ==
    ASSUME CdefInv, NEW t \in Workers, Cdef!Step(t) \/ Cdef!Throw(t) \/ Cdef!Spurious(t)
    PROVE  CdefInv'
<1>1. CdefShapes' /\ CdefStep(t)
  BY CdefStepKinds DEF CdefInv
<1> QED BY <1>1, CdefExitMeansKept, CdefApartKept, CdefDoneKept, CdefCopiedKept, CdefFlagsKept,
           CdefCoveredKept, CdefEndsKept DEF CdefInv

-----------------------------------------------------------------------------
\* CDEF: from frame to frame.

\* Between the frames no flag is set that a row would take for its own.
FlagsIdle ==
    /\ nvfb \in {0, CdefHeight} /\ is_row_done \in [0..(nvfb - 1) -> {0, 1}]
    /\ \A r \in 0..(nvfb - 2) : is_row_done[r] = 0

\* CDEF starts with its invariant.
LEMMA CdefStarts ==
    ASSUME FlagsIdle, Cdef!Start, done' = {}
    PROVE  CdefInv'
<1>1. /\ nvfb' = CdefHeight /\ is_row_done' = Cdef!RowObjects(CdefHeight)
      /\ fbr' = 0 /\ cdef_mt_exit' = FALSE /\ outcome' = "busy"
      /\ pc' = [t \in Workers |-> "next"] /\ row' = [t \in Workers |-> 0]
      /\ released' = [t \in Workers |-> 0] /\ done' = {}
  BY DEF Cdef!Start, Cdef!Zeros, Cdef!Workers, Workers
<1>2. /\ is_row_done' \in [CdefRows -> {0, 1}]
      /\ \A r \in CdefRows : r + 1 < CdefHeight => is_row_done'[r] = 0
  <2>1. CASE nvfb = CdefHeight
    BY <1>1, <2>1, CdefSizes DEF Cdef!RowObjects, FlagsIdle, CdefRows
  <2>2. CASE nvfb # CdefHeight
    BY <1>1, <2>2 DEF Cdef!RowObjects, Cdef!RowIds, CdefRows
  <2> QED BY <2>1, <2>2
<1>3. CdefShapes'
  <2>1. 0 \in CdefRows /\ 0 \in 0..CdefHeight /\ 0 < CdefHeight
    BY CdefSizes
  <2>2. pc' \in [Workers -> Cdef!Places]
    BY <1>1 DEF Cdef!Places
  <2>3. row' \in [Workers -> CdefRows] /\ released' \in [Workers -> 0..CdefHeight]
    BY <1>1, <2>1
  <2> QED BY <1>1, <1>2, <2>1, <2>2, <2>3 DEF CdefShapes
<1>4. CdefExitMeans' /\ CdefApart' /\ CdefDone' /\ CdefCopied' /\ CdefEnds'
  BY <1>1 DEF CdefExitMeans, CdefApart, CdefDone, CdefCopied, CdefEnds, CdefAtRow, CdefInRow
<1>5. CdefFlags' /\ CdefCovered'
  BY <1>1, <1>2 DEF CdefFlags, CdefCovered, CdefRows
<1> QED BY <1>3, <1>4, <1>5 DEF CdefInv

\* When all have returned without an error, everything is done.
LEMMA CdefComplete ==
    ASSUME CdefInv, \A t \in Workers : pc[t] = "returned"
    PROVE  done = CdefBlocks
<1>1. ~cdef_mt_exit
  BY DEF CdefInv, CdefExitMeans
<1>2. fbr = CdefHeight
  BY <1>1, CdefSizes DEF CdefInv, CdefEnds
<1>3. ASSUME NEW r \in CdefRows
      PROVE  <<"cdef", r>> \in done /\ <<"copy", r>> \in done
  <2>1. \A t \in Workers : pc[t] \notin CdefAtRow
    BY DEF CdefAtRow, CdefInRow
  <2>2. <<"cdef", r>> \in done
    BY <1>1, <1>2, <2>1 DEF CdefInv, CdefCovered, CdefRows
  <2> QED BY <2>2 DEF CdefInv, CdefCopied
<1>4. ASSUME NEW b \in CdefBlocks PROVE b \in done
  <2>1. PICK r \in CdefRows : b = <<"copy", r>> \/ b = <<"cdef", r>>
    BY DEF CdefBlocks
  <2> QED BY <1>3, <2>1
<1> QED BY <1>4 DEF CdefInv, CdefShapes

\* Joined, the threads of CDEF report an error or a complete stage.
LEMMA CdefJoins ==
    ASSUME CdefInv, Cdef!Join
    PROVE  /\ CdefInv' /\ done' = done /\ outcome = "busy"
           /\ outcome' = "error" \/ (outcome' = "ok" /\ done = CdefBlocks)
<1>1. /\ \A t \in Workers : pc[t] \in {"returned", "failed"}
      /\ outcome = "busy"
      /\ outcome' = IF \E t \in Workers : pc[t] = "failed" THEN "error" ELSE "ok"
      /\ row' = [t \in Workers |-> 0]
      /\ UNCHANGED <<nvfb, is_row_done, fbr, cdef_mt_exit, pc, released, done>>
  BY DEF Cdef!Join, Cdef!Zeros, Cdef!Workers, Workers
<1>2. CdefShapes' /\ CdefExitMeans'
  BY <1>1, CdefSizes DEF CdefInv, CdefShapes, CdefExitMeans
<1>3. CdefApart' /\ CdefDone' /\ CdefCopied'
  BY <1>1 DEF CdefInv, CdefApart, CdefDone, CdefCopied, CdefAtRow, CdefInRow
<1>4. \A q \in Int : CdefSignalled(q) => CdefSignalled(q)'
  BY <1>1 DEF CdefSignalled
<1>5. CdefFlags'
  <2>1. SUFFICES ASSUME ~cdef_mt_exit, NEW r \in CdefRows
                 PROVE  /\ r + 1 < CdefHeight /\ is_row_done[r] = 1 => CdefSignalled(r)'
                        /\ r > 0 /\ r < fbr => is_row_done[r - 1] = 0 /\ CdefSignalled(r - 1)'
    BY <1>1 DEF CdefFlags
  <2>2. r \in Int /\ r - 1 \in Int
    BY DEF CdefRows
  <2>3. \A t \in Workers : pc[t] \notin CdefEarly
    BY <1>1 DEF CdefEarly
  <2> QED BY <1>4, <2>1, <2>2, <2>3 DEF CdefInv, CdefFlags
<1>6. CdefCovered'
  BY <1>1 DEF CdefInv, CdefCovered, CdefAtRow, CdefInRow
<1>7. CdefEnds'
  BY <1>1 DEF CdefInv, CdefEnds, CdefExitMeans
<1>8. outcome' = "error" \/ (outcome' = "ok" /\ done = CdefBlocks)
  BY <1>1, CdefComplete
<1> QED BY <1>1, <1>2, <1>3, <1>5, <1>6, <1>7, <1>8 DEF CdefInv

\* A step of CDEF does at most one block, whose needs are done.
LEMMA CdefInOrder ==
    ASSUME CdefInv, NEW t \in Workers, CdefStep(t)
    PROVE  \/ done' = done
           \/ \E b \in CdefBlocks \ done : Cdef!Needs(b) \subseteq done /\ done' = done \cup {b}
<1>1. row[t] \in CdefRows
  BY DEF CdefInv, CdefShapes
<1>2. CASE CdefCopies(t)
  <2> DEFINE b == <<"copy", row[t]>>
  <2>1. b \notin done /\ b \in CdefBlocks /\ done' = done \cup {b}
    BY <1>1, <1>2 DEF CdefCopies, CdefInv, CdefDone, CdefBlocks
  <2>2. Cdef!Needs(b) = {}
    BY DEF Cdef!Needs
  <2> HIDE DEF b
  <2> QED BY <2>1, <2>2
<1>3. CASE CdefFilters(t)
  <2> DEFINE b == <<"cdef", row[t]>>
  <2>1. b \in CdefBlocks /\ done' = done \cup {b} /\ pc[t] = "filter"
    BY <1>1, <1>3 DEF CdefFilters, CdefBlocks
  <2>2. /\ b \notin done /\ <<"copy", row[t]>> \in done
        /\ row[t] = 0 \/ <<"copy", row[t] - 1>> \in done
    BY <2>1 DEF CdefInv, CdefDone, CdefInRow
  <2>3. Cdef!Needs(b) = {"copy"} \X {r \in {row[t] - 1, row[t]} : r >= 0}
    BY DEF Cdef!Needs
  <2>4. Cdef!Needs(b) \subseteq done
    <3> HIDE DEF b
    <3> QED BY <2>2, <2>3
  <2> HIDE DEF b
  <2> QED BY <2>1, <2>2, <2>4
<1>4. CASE ~CdefCopies(t) /\ ~CdefFilters(t)
  BY <1>4 DEF CdefStep, CdefWalks, CdefTakes, CdefSignals, CdefConsumes, CdefFails
<1> QED BY <1>2, <1>3, <1>4

\* A frame that is filtered leaves the flags as the next one needs them.
LEMMA CdefLeavesIdle ==
    ASSUME CdefInv, outcome = "ok"
    PROVE  FlagsIdle
<1>1. /\ nvfb = CdefHeight /\ is_row_done \in [CdefRows -> {0, 1}]
      /\ CdefHeight \in Nat \ {0}
  BY CdefSizes DEF CdefInv, CdefShapes
<1>2. ~cdef_mt_exit /\ \A t \in Workers : pc[t] = "returned"
  BY DEF CdefInv, CdefEnds, CdefExitMeans
<1>3. fbr = CdefHeight
  BY <1>2, CdefSizes DEF CdefInv, CdefEnds
<1>4. ASSUME NEW r \in 0..(CdefHeight - 2)
      PROVE  is_row_done[r] = 0
  <2>1. r + 1 \in CdefRows /\ r + 1 > 0 /\ r + 1 < fbr /\ (r + 1) - 1 = r
    BY <1>1, <1>3 DEF CdefRows
  <2>2. \A t \in Workers : pc[t] \notin CdefEarly
    BY <1>2 DEF CdefEarly
  <2> QED BY <1>2, <2>1, <2>2 DEF CdefInv, CdefFlags
<1> QED BY <1>1, <1>4 DEF FlagsIdle, CdefRows

\* What the invariant says to the runs.
LEMMA CdefHolds ==
    ASSUME CdefInv
    PROVE  Cdef!TypeOK /\ Cdef!WaitsForLineCopy /\ Cdef!FlagsConsumed
<1>1. Cdef!TypeOK
  BY CdefSizes DEF CdefInv, CdefShapes, Cdef!TypeOK, Cdef!RowIds, CdefRows, Cdef!Workers, Workers
<1>2. ASSUME NEW t \in Workers, pc[t] = "filter"
      PROVE  <<"cdef", row[t]>> \notin done /\ Cdef!Needs(<<"cdef", row[t]>>) \subseteq done
  <2>1. /\ <<"cdef", row[t]>> \notin done /\ <<"copy", row[t]>> \in done
        /\ row[t] = 0 \/ <<"copy", row[t] - 1>> \in done
    BY <1>2 DEF CdefInv, CdefDone, CdefInRow
  <2>2. Cdef!Needs(<<"cdef", row[t]>>) = {"copy"} \X {r \in {row[t] - 1, row[t]} : r >= 0}
    BY DEF Cdef!Needs
  <2> QED BY <2>1, <2>2
<1>3. Cdef!FlagsConsumed
  <2>1. nvfb = CdefHeight /\ (nvfb - 1) - 1 = nvfb - 2
    BY CdefSizes DEF CdefInv, CdefShapes
  <2> QED BY <2>1, CdefLeavesIdle DEF FlagsIdle, Cdef!FlagsConsumed, Cdef!RowIds
<1> QED BY <1>1, <1>2, <1>3 DEF Cdef!WaitsForLineCopy, Cdef!Workers, Workers

-----------------------------------------------------------------------------
\* Loop restoration: the queue.

\* The sizes of the planes and their sets.
LEMMA LrSizes ==
    /\ NumWorkers \in Nat \ {0} /\ LrRows \in Nat \ {0} /\ LrCols \in Nat \ {0}
    /\ LrPlanes \in Nat \ {0} /\ MaxErrors \in Nat
    /\ 0 \in Workers /\ 0 \in Lr!Planes /\ 0 \in Lr!RowIds /\ 0 \in Lr!ColIds
    /\ Lr!NumJobs \in Nat \ {0}
<1>1. /\ NumWorkers \in Nat \ {0} /\ LrRows \in Nat \ {0} /\ LrCols \in Nat \ {0}
      /\ LrPlanes \in Nat \ {0} /\ MaxErrors \in Nat
  BY FrameMtAssumption DEF Lr!LrSyncAssumption
<1>2. Lr!NumJobs \in Nat \ {0}
  BY <1>1 DEF Lr!NumJobs
<1> QED BY <1>1, <1>2 DEF Workers, Lr!Planes, Lr!RowIds, Lr!ColIds

\* The place of a row in the queue.
LrNumber(p, r) ==
    IF Lr!Even(r) THEN p * Lr!EvenRows + (r \div 2)
    ELSE LrPlanes * Lr!EvenRows + (p * Lr!OddRows + (r \div 2))

\* Every job is a row, every row is a job.
LEMMA LrJobs ==
    /\ \A n \in 0..(Lr!NumJobs - 1) :
        /\ Lr!Job(n)[1] \in Lr!Planes /\ Lr!Job(n)[2] \in Lr!RowIds
        /\ LrNumber(Lr!Job(n)[1], Lr!Job(n)[2]) = n
    /\ \A p \in Lr!Planes, r \in Lr!RowIds : LrNumber(p, r) \in 0..(Lr!NumJobs - 1)
    /\ \A p, q \in Lr!Planes, r, s \in Lr!RowIds : LrNumber(p, r) = LrNumber(q, s) => p = q /\ r = s
<1> DEFINE E == Lr!EvenRows  O == Lr!OddRows  P == LrPlanes
           evens == P * E  odds == P * O
<1>1. /\ E \in Nat \ {0} /\ O \in Nat /\ E + O = LrRows /\ 2 * E <= LrRows + 1 /\ 2 * O <= LrRows
      /\ LrRows <= 2 * E /\ LrRows <= 2 * O + 1 /\ P \in Nat \ {0}
  BY LrSizes DEF Lr!EvenRows, Lr!OddRows
<1>2. Lr!NumJobs = evens + odds /\ evens \in Nat /\ odds \in Nat
  <2>1. \A e, o \in Nat : P * (e + o) = P * e + P * o /\ P * e \in Nat
    BY <1>1
  <2> QED BY <1>1, <2>1 DEF Lr!NumJobs
<1>3. /\ \A k \in 0..(evens - 1) : /\ k \div E \in 0..(P - 1) /\ k % E \in 0..(E - 1)
                                   /\ (k \div E) * E + (k % E) = k
      /\ \A q \in 0..(P - 1), r \in 0..(E - 1) : q * E + r \in 0..(evens - 1)
      /\ \A q, u \in 0..(P - 1), r, v \in 0..(E - 1) : q * E + r = u * E + v => q = u /\ r = v
  BY <1>1, Grid, ZenonT(40)
<1>4. O > 0 =>
      /\ \A k \in 0..(odds - 1) : /\ k \div O \in 0..(P - 1) /\ k % O \in 0..(O - 1)
                                  /\ (k \div O) * O + (k % O) = k
      /\ \A q \in 0..(P - 1), r \in 0..(O - 1) : q * O + r \in 0..(odds - 1)
      /\ \A q, u \in 0..(P - 1), r, v \in 0..(O - 1) : q * O + r = u * O + v => q = u /\ r = v
  BY <1>1, Grid
<1>5. Lr!Planes = 0..(P - 1) /\ Lr!RowIds = 0..(LrRows - 1)
  BY DEF Lr!Planes, Lr!RowIds
<1>6. \A m \in Nat : /\ Lr!Even(2 * m) /\ ~Lr!Even(2 * m + 1)
                     /\ (2 * m) \div 2 = m /\ (2 * m + 1) \div 2 = m
  BY DEF Lr!Even
<1>7. \A r \in Nat : /\ r \div 2 \in Nat
                     /\ Lr!Even(r) => r = 2 * (r \div 2)
                     /\ ~Lr!Even(r) => r = 2 * (r \div 2) + 1
  BY DEF Lr!Even
<1>8. ASSUME NEW n \in 0..(Lr!NumJobs - 1)
      PROVE  /\ Lr!Job(n)[1] \in Lr!Planes /\ Lr!Job(n)[2] \in Lr!RowIds
             /\ LrNumber(Lr!Job(n)[1], Lr!Job(n)[2]) = n
  <2>1. CASE n < evens
    <3> DEFINE q == n \div E  m == n % E
    <3>1. Lr!Job(n) = <<q, 2 * m>>
      BY <2>1 DEF Lr!Job
    <3>2. q \in 0..(P - 1) /\ m \in 0..(E - 1) /\ q * E + m = n
      BY <1>2, <1>3, <2>1
    <3> HIDE DEF q, m, E, O, P
    <3>3. 2 * m \in 0..(LrRows - 1)
      BY <1>1, <3>2, LrSizes
    <3>4. LrNumber(q, 2 * m) = q * E + m
      BY <1>6, <3>2 DEF LrNumber, E
    <3> QED BY <1>5, <3>1, <3>2, <3>3, <3>4
  <2>2. CASE ~(n < evens)
    <3> DEFINE k == n - evens  q == k \div O  m == k % O
    <3>1. Lr!Job(n) = <<q, 2 * m + 1>>
      BY <2>2 DEF Lr!Job
    <3>2. k \in 0..(odds - 1)
      BY <1>2, <2>2
    <3>3. O > 0
      <4>1. O = 0 => odds = 0
        BY <1>1
      <4> QED BY <1>1, <3>2, <4>1
    <3>4. q \in 0..(P - 1) /\ m \in 0..(O - 1) /\ q * O + m = k
      BY <1>4, <3>2, <3>3
    <3> HIDE DEF q, m, O, E, P
    <3>5. 2 * m + 1 \in 0..(LrRows - 1)
      BY <1>1, <3>4, LrSizes
    <3>6. LrNumber(q, 2 * m + 1) = P * E + (q * O + m)
      BY <1>6, <3>4 DEF LrNumber, E, O, P
    <3>7. evens + k = n
      BY <1>2
    <3> QED BY <1>5, <3>1, <3>4, <3>5, <3>6, <3>7
  <2> QED BY <2>1, <2>2
<1>9. ASSUME NEW p \in Lr!Planes, NEW r \in Lr!RowIds
      PROVE  /\ Lr!Even(r) => /\ r = 2 * (r \div 2) /\ r \div 2 \in 0..(E - 1)
                               /\ LrNumber(p, r) = p * E + (r \div 2)
                               /\ LrNumber(p, r) \in 0..(evens - 1)
             /\ ~Lr!Even(r) => /\ r = 2 * (r \div 2) + 1 /\ r \div 2 \in 0..(O - 1) /\ O > 0
                                /\ LrNumber(p, r) = evens + (p * O + (r \div 2))
                                /\ p * O + (r \div 2) \in 0..(odds - 1)
  <2> DEFINE h == r \div 2
  <2>1. r \in Nat /\ h \in Nat /\ r <= LrRows - 1
    BY <1>5, <1>7, LrSizes
  <2>2. CASE Lr!Even(r)
    <3>1. r = 2 * h
      BY <1>7, <2>1, <2>2
    <3> HIDE DEF h, E, O, P
    <3>2. h \in 0..(E - 1)
      BY <1>1, <2>1, <3>1, LrSizes
    <3>3. p * E + h \in 0..(P * E - 1)
      BY <1>3, <1>5, <3>2
    <3>4. LrNumber(p, r) = p * E + h
      BY <2>2 DEF LrNumber, E, h
    <3> QED BY <2>2, <3>1, <3>2, <3>3, <3>4 DEF h
  <2>3. CASE ~Lr!Even(r)
    <3>1. r = 2 * h + 1
      BY <1>7, <2>1, <2>3
    <3> HIDE DEF h, E, O, P
    <3>2. h \in 0..(O - 1) /\ O > 0
      BY <1>1, <2>1, <3>1, LrSizes
    <3>3. p * O + h \in 0..(P * O - 1)
      BY <1>4, <1>5, <3>2
    <3>4. LrNumber(p, r) = P * E + (p * O + h)
      BY <2>3 DEF LrNumber, E, O, P, h
    <3> QED BY <2>3, <3>1, <3>2, <3>3, <3>4 DEF h
  <2> QED BY <2>2, <2>3
<1>10. ASSUME NEW p \in Lr!Planes, NEW r \in Lr!RowIds
       PROVE  LrNumber(p, r) \in 0..(Lr!NumJobs - 1)
  <2> HIDE DEF E, O
  <2>1. CASE Lr!Even(r)
    BY <1>2, <1>9, <2>1
  <2>2. CASE ~Lr!Even(r)
    BY <1>2, <1>9, <2>2
  <2> QED BY <2>1, <2>2
<1>11. ASSUME NEW p \in Lr!Planes, NEW r \in Lr!RowIds, NEW q \in Lr!Planes, NEW s \in Lr!RowIds,
              LrNumber(p, r) = LrNumber(q, s)
       PROVE  p = q /\ r = s
  <2> DEFINE h == r \div 2  g == s \div 2
  <2>1. Lr!Even(r) <=> Lr!Even(s)
    <3> HIDE DEF E, O
    <3> QED BY <1>2, <1>9, <1>11
  <2>2. CASE Lr!Even(r)
    <3>1. /\ r = 2 * h /\ s = 2 * g /\ h \in 0..(E - 1) /\ g \in 0..(E - 1)
          /\ p * E + h = q * E + g
      BY <1>9, <1>11, <2>1, <2>2
    <3> HIDE DEF h, g, E
    <3>2. p = q /\ h = g
      BY <1>3, <1>5, <3>1
    <3> QED BY <3>1, <3>2
  <2>3. CASE ~Lr!Even(r)
    <3>1. /\ r = 2 * h + 1 /\ s = 2 * g + 1 /\ h \in 0..(O - 1) /\ g \in 0..(O - 1) /\ O > 0
          /\ p * O + h \in 0..(odds - 1) /\ q * O + g \in 0..(odds - 1)
          /\ evens + (p * O + h) = evens + (q * O + g)
      BY <1>9, <1>11, <2>1, <2>3
    <3> HIDE DEF h, g, O
    <3>2. p * O + h = q * O + g
      <4> DEFINE a == p * O + h  b == q * O + g
      <4>1. a \in Int /\ b \in Int /\ evens + a = evens + b
        BY <3>1
      <4> HIDE DEF a, b, evens
      <4> QED BY <1>2, <4>1 DEF a, b
    <3>3. p = q /\ h = g
      BY <1>4, <1>5, <3>1, <3>2
    <3> QED BY <3>1, <3>3
  <2> QED BY <2>2, <2>3
<1> QED BY <1>8, <1>10, <1>11

-----------------------------------------------------------------------------
\* Loop restoration: the invariant.

LrInJob == {"read_above", "asleep_above", "read_below", "asleep_below", "check", "filter", "write",
            "copy", "error"}
LrAtUnit == LrInJob \ {"copy", "error"}

LrCurs == -1..Lr!AllCols
LrShapes ==
    /\ pc \in [Workers -> Lr!Places]
    /\ plane \in [Workers -> Lr!Planes] /\ row \in [Workers -> Lr!RowIds]
    /\ col \in [Workers -> 0..LrCols]
    /\ \A t \in Workers : pc[t] \in LrAtUnit => col[t] < LrCols
    /\ jobs_dequeued \in 0..Lr!NumJobs /\ lr_mt_exit \in BOOLEAN
    /\ cur_sb_col \in [Lr!Planes \X Lr!RowIds -> LrCurs]
    /\ released \in [Workers -> 0..Lr!NumJobs]
    /\ \A t \in Workers : pc[t] = "release" => released[t] < Lr!NumJobs
    /\ \A t \in Workers : pc[t] \in {"get"} \cup LrInJob => released[t] = 0
    /\ done \subseteq Lr!Blocks /\ outcome \in {"busy", "ok", "error"}

LrExitMeans == lr_mt_exit <=> \E t \in Workers : pc[t] \in {"release", "failed"}

\* A row that was handed out is one worker's, and nothing is done in another.
LrApart ==
    /\ \A t \in Workers : pc[t] \in LrInJob => LrNumber(plane[t], row[t]) < jobs_dequeued
    /\ \A t, u \in Workers :
        t # u /\ pc[t] \in LrInJob /\ pc[u] \in LrInJob => <<plane[t], row[t]>> # <<plane[u], row[u]>>
    /\ \A b \in done : LrNumber(b[2], b[3]) < jobs_dequeued

\* The columns a worker has filtered, and has found filtered next to its row.
LrPast(t) == IF pc[t] = "write" THEN col[t] + 1 ELSE col[t]
LrSoFar ==
    \A t \in Workers : pc[t] \in LrInJob =>
        /\ <<"back", plane[t], row[t]>> \notin done
        /\ \A c \in Lr!ColIds : <<"unit", plane[t], row[t], c>> \in done <=> c < LrPast(t)
        /\ ~Lr!Even(row[t]) => \A q \in Lr!Neighbours(row[t]), c \in Lr!ColIds :
                c < LrPast(t) => <<"unit", plane[t], q, c>> \in done

LrPublished ==
    ~lr_mt_exit => \A p \in Lr!Planes, r \in Lr!RowIds, c \in Lr!ColIds :
        c <= cur_sb_col[<<p, r>>] => <<"unit", p, r, c>> \in done

\* What a worker has seen of a row next to its own, from its column on.
LrSeen(t, q) ==
    ~Lr!Even(row[t]) /\ q \in Lr!RowIds =>
        \A c \in Lr!ColIds : c \in col[t]..(col[t] + 1) => <<"unit", plane[t], q, c>> \in done
LrNext ==
    \A t \in Workers :
        /\ ~lr_mt_exit /\ pc[t] \in {"read_below", "asleep_below", "check"} => LrSeen(t, row[t] - 1)
        /\ ~lr_mt_exit /\ pc[t] = "check" => LrSeen(t, row[t] + 1)
        /\ pc[t] = "filter" => LrSeen(t, row[t] - 1) /\ LrSeen(t, row[t] + 1)

\* Rows are copied back when all units are done; until a worker fails, a row
\* that was handed out is copied back or somebody's.
LrCovered ==
    /\ \A p \in Lr!Planes, r \in Lr!RowIds, c \in Lr!ColIds :
        <<"back", p, r>> \in done => <<"unit", p, r, c>> \in done
    /\ ~lr_mt_exit => \A t \in Workers : pc[t] = "copy" => col[t] = LrCols
    /\ ~lr_mt_exit => \A p \in Lr!Planes, r \in Lr!RowIds : LrNumber(p, r) < jobs_dequeued =>
        \/ <<"back", p, r>> \in done
        \/ \E t \in Workers : pc[t] \in LrInJob /\ plane[t] = p /\ row[t] = r

LrEnds ==
    /\ ~lr_mt_exit /\ (\E t \in Workers : pc[t] = "returned") => jobs_dequeued = Lr!NumJobs
    /\ outcome # "busy" => \A t \in Workers : pc[t] \in {"returned", "failed"}

LrInv ==
    /\ LrShapes /\ LrExitMeans /\ LrApart /\ LrSoFar /\ LrPublished /\ LrNext
    /\ LrCovered /\ LrEnds

-----------------------------------------------------------------------------
\* Loop restoration: its steps by their kinds.

LrStirs(u) ==
    \/ Stirs(pc[u], pc'[u], "asleep_above", "read_above")
    \/ Stirs(pc[u], pc'[u], "asleep_below", "read_below")
LrOthersStay(t) ==
    \A u \in Workers \ {t} :
        plane'[u] = plane[u] /\ row'[u] = row[u] /\ col'[u] = col[u] /\ LrStirs(u)

LrHas(t, r) == Lr!RowIs(plane[t], r, col[t])
LrRoute(t) ==
    \/ pc[t] = "read_above" /\ pc'[t] = "read_below" /\ (Lr!Even(row[t]) \/ LrHas(t, row[t] - 1))
    \/ pc[t] = "read_above" /\ pc'[t] = "asleep_above"
    \/ pc[t] = "asleep_above" /\ pc'[t] = "read_above"
    \/ /\ pc[t] = "read_below" /\ pc'[t] = "check"
       /\ Lr!Even(row[t]) \/ row[t] + 1 = LrRows \/ LrHas(t, row[t] + 1)
    \/ pc[t] = "read_below" /\ pc'[t] = "asleep_below"
    \/ pc[t] = "asleep_below" /\ pc'[t] = "read_below"
    \/ pc[t] = "check" /\ pc'[t] = "copy" /\ lr_mt_exit
    \/ pc[t] = "check" /\ pc'[t] = "filter" /\ ~(lr_mt_exit /\ NumWorkers > 1)
    \/ pc[t] = "filter" /\ pc'[t] = "error"

LrWalks(t) ==
    /\ LrOthersStay(t) /\ LrRoute(t)
    /\ UNCHANGED <<plane, row, col, jobs_dequeued, lr_mt_exit, cur_sb_col, done, outcome>>

LrReturns(t) ==
    /\ LrOthersStay(t) /\ pc[t] = "get" /\ pc'[t] = "returned"
    /\ lr_mt_exit \/ jobs_dequeued = Lr!NumJobs
    /\ UNCHANGED <<plane, row, jobs_dequeued, lr_mt_exit, cur_sb_col, done, outcome>>

LrTakes(t) ==
    /\ LrOthersStay(t) /\ pc[t] = "get" /\ pc'[t] = "read_above"
    /\ ~lr_mt_exit /\ jobs_dequeued < Lr!NumJobs /\ jobs_dequeued' = jobs_dequeued + 1
    /\ LrNumber(plane'[t], row'[t]) = jobs_dequeued /\ col'[t] = 0
    /\ UNCHANGED <<lr_mt_exit, cur_sb_col, done, outcome>>

LrFilters(t) ==
    /\ LrOthersStay(t) /\ pc[t] = "filter" /\ pc'[t] = "write"
    /\ done' = done \cup {<<"unit", plane[t], row[t], col[t]>>}
    /\ UNCHANGED <<plane, row, col, jobs_dequeued, lr_mt_exit, cur_sb_col, outcome>>

LrWrites(t) ==
    /\ LrOthersStay(t) /\ pc[t] = "write" /\ col'[t] = col[t] + 1
    /\ pc'[t] = IF col[t] = LrCols - 1 THEN "copy" ELSE "read_above"
    /\ \A x \in Lr!Planes \X Lr!RowIds :
        \/ cur_sb_col'[x] = cur_sb_col[x]
        \/ x = <<plane[t], row[t]>> /\ (cur_sb_col'[x] = col[t] \/ col[t] = LrCols - 1)
    /\ UNCHANGED <<plane, row, jobs_dequeued, lr_mt_exit, done, outcome>>

LrCopies(t) ==
    /\ LrOthersStay(t) /\ pc[t] = "copy" /\ pc'[t] = "get"
    /\ done' = IF col[t] = LrCols THEN done \cup {<<"back", plane[t], row[t]>>} ELSE done
    /\ UNCHANGED <<plane, row, col, jobs_dequeued, lr_mt_exit, cur_sb_col, outcome>>

LrFails(t) ==
    /\ LrOthersStay(t) /\ lr_mt_exit'
    /\ \/ pc[t] = "error" /\ pc'[t] = "release"
       \/ pc[t] = "release" /\ pc'[t] \in {"release", "failed"}
    /\ UNCHANGED <<plane, row, col, jobs_dequeued, done, outcome>>

LrStep(t) ==
    \/ LrWalks(t) \/ LrReturns(t) \/ LrTakes(t) \/ LrFilters(t) \/ LrWrites(t) \/ LrCopies(t)
    \/ LrFails(t)

\* lr_sync_write: the worker goes on, those that wait for the row wake up.
LEMMA LrPublishes ==
    ASSUME LrShapes, NEW t \in Workers, NEW p \in Lr!Planes, NEW r \in Lr!RowIds, NEW cur \in LrCurs,
           NEW w \in Lr!Places, Lr!Publish(t, p, r, cur, w)
    PROVE  /\ pc' \in [Workers -> Lr!Places] /\ pc'[t] = w
           /\ \A u \in Workers \ {t} : LrStirs(u)
           /\ cur_sb_col' \in [Lr!Planes \X Lr!RowIds -> LrCurs]
           /\ \A x \in Lr!Planes \X Lr!RowIds :
                cur_sb_col'[x] = cur_sb_col[x] \/ (x = <<p, r>> /\ cur_sb_col'[x] = cur)
<1>1. /\ pc \in [Workers -> Lr!Places]
      /\ cur_sb_col \in [Lr!Planes \X Lr!RowIds -> LrCurs]
  BY DEF LrShapes
<1>2. /\ cur_sb_col' = [cur_sb_col EXCEPT ![<<p, r>>] =
                            IF cur > cur_sb_col[<<p, r>>] THEN cur ELSE cur_sb_col[<<p, r>>]]
      /\ pc' = [u \in Workers |-> IF u = t THEN w
                                  ELSE IF Lr!WaitsFor(u, p, r) THEN Lr!Woken(pc[u]) ELSE pc[u]]
  BY DEF Lr!Publish, Lr!Workers, Workers
<1>3. \A u \in Workers : Lr!WaitsFor(u, p, r) =>
        /\ pc[u] \in {"asleep_above", "asleep_below"}
        /\ pc[u] = "asleep_above" => Lr!Woken(pc[u]) = "read_above"
        /\ pc[u] = "asleep_below" => Lr!Woken(pc[u]) = "read_below"
  BY DEF Lr!WaitsFor, Lr!Woken
<1>4. /\ pc'[t] = w
      /\ \A u \in Workers \ {t} : LrStirs(u)
  BY <1>2, <1>3 DEF LrStirs, Stirs
<1>5. pc' \in [Workers -> Lr!Places]
  <2>1. \A u \in Workers : pc'[u] \in Lr!Places
    BY <1>1, <1>4 DEF LrStirs, Stirs, Lr!Places
  <2> QED BY <1>2, <2>1
<1>6. \A x \in Lr!Planes \X Lr!RowIds :
        cur_sb_col'[x] = cur_sb_col[x] \/ (x = <<p, r>> /\ cur_sb_col'[x] = cur)
  BY <1>1, <1>2
<1>7. cur_sb_col' \in [Lr!Planes \X Lr!RowIds -> LrCurs]
  BY <1>1, <1>2, <1>6
<1> QED BY <1>4, <1>5, <1>6, <1>7

\* Every step of a worker is of one of these kinds, and keeps the shapes.
LEMMA LrStepKinds ==
    ASSUME LrShapes, LrExitMeans, NEW t \in Workers,
           Lr!Step(t) \/ Lr!Throw(t) \/ Lr!Spurious(t)
    PROVE  LrShapes' /\ LrStep(t)
<1> DEFINE Rest == UNCHANGED <<plane, row, jobs_dequeued, lr_mt_exit, cur_sb_col, done, released, outcome>>
           Place == plane' = plane /\ row' = row /\ col' = col
<1>1. /\ pc \in [Workers -> Lr!Places]
      /\ plane \in [Workers -> Lr!Planes] /\ row \in [Workers -> Lr!RowIds]
      /\ col \in [Workers -> 0..LrCols] /\ jobs_dequeued \in 0..Lr!NumJobs /\ lr_mt_exit \in BOOLEAN
      /\ cur_sb_col \in [Lr!Planes \X Lr!RowIds -> LrCurs]
      /\ released \in [Workers -> 0..Lr!NumJobs] /\ done \subseteq Lr!Blocks
      /\ outcome \in {"busy", "ok", "error"}
      /\ \A u \in Workers : pc[u] \in LrAtUnit => col[u] < LrCols
      /\ LrCols \in Nat \ {0} /\ LrRows \in Nat \ {0} /\ Lr!NumJobs \in Nat \ {0}
  BY LrSizes DEF LrShapes
<1>2. ASSUME NEW w \in Lr!Places, Lr!GoesTo(t, w)
      PROVE  /\ pc' \in [Workers -> Lr!Places] /\ pc'[t] = w
             /\ \A u \in Workers \ {t} : pc'[u] = pc[u] /\ LrStirs(u)
  BY <1>1, <1>2 DEF Lr!GoesTo, LrStirs, Stirs
<1>3. ASSUME NEW w \in Lr!Places, Lr!GoesTo(t, w), Rest, col' = col,
             pc[t] \in LrInJob, w \in LrInJob, w \in LrAtUnit => pc[t] \in LrAtUnit
      PROVE  LrShapes' /\ LrOthersStay(t) /\ pc'[t] = w
  BY <1>2, <1>3 DEF LrShapes, LrOthersStay, LrInJob
<1>4. CASE Lr!GetJob(t)
  <2>1. /\ pc[t] = "get" /\ col' = [col EXCEPT ![t] = 0]
        /\ UNCHANGED <<lr_mt_exit, cur_sb_col, released, done, outcome>>
    BY <1>4 DEF Lr!GetJob
  <2>2. col' \in [Workers -> 0..LrCols] /\ col'[t] = 0 /\ \A u \in Workers \ {t} : col'[u] = col[u]
    BY <1>1, <2>1
  <2>3. CASE ~lr_mt_exit /\ jobs_dequeued < Lr!NumJobs
    <3> DEFINE p == Lr!Job(jobs_dequeued)[1]  r == Lr!Job(jobs_dequeued)[2]
    <3>1. /\ plane' = [plane EXCEPT ![t] = p] /\ row' = [row EXCEPT ![t] = r]
          /\ jobs_dequeued' = jobs_dequeued + 1 /\ Lr!GoesTo(t, "read_above")
      BY <1>4, <2>3 DEF Lr!GetJob
    <3>2. p \in Lr!Planes /\ r \in Lr!RowIds /\ LrNumber(p, r) = jobs_dequeued
      <4>1. jobs_dequeued \in 0..(Lr!NumJobs - 1)
        BY <1>1, <2>3
      <4> QED BY <4>1, LrJobs
    <3> HIDE DEF p, r
    <3>3. /\ pc' \in [Workers -> Lr!Places] /\ pc'[t] = "read_above"
          /\ \A u \in Workers \ {t} : pc'[u] = pc[u] /\ LrStirs(u)
      BY <1>2, <3>1 DEF Lr!Places
    <3>4. /\ plane' \in [Workers -> Lr!Planes] /\ row' \in [Workers -> Lr!RowIds]
          /\ plane'[t] = p /\ row'[t] = r
          /\ \A u \in Workers \ {t} : plane'[u] = plane[u] /\ row'[u] = row[u]
      BY <1>1, <3>1, <3>2
    <3>5. LrShapes'
      <4>1. jobs_dequeued' \in 0..Lr!NumJobs
        BY <1>1, <2>3, <3>1
      <4>2. \A u \in Workers : pc'[u] \in LrAtUnit => col'[u] < LrCols
        BY <1>1, <2>2, <3>3
      <4> QED BY <1>1, <2>1, <2>2, <3>3, <3>4, <4>1, <4>2 DEF LrShapes, LrInJob
    <3> QED BY <2>1, <2>2, <2>3, <3>1, <3>2, <3>3, <3>4, <3>5 DEF LrStep, LrTakes, LrOthersStay
  <2>4. CASE ~(~lr_mt_exit /\ jobs_dequeued < Lr!NumJobs)
    <3>1. Lr!GoesTo(t, "returned") /\ UNCHANGED <<plane, row, jobs_dequeued>>
      BY <1>4, <2>4 DEF Lr!GetJob
    <3>2. /\ pc' \in [Workers -> Lr!Places] /\ pc'[t] = "returned"
          /\ \A u \in Workers \ {t} : pc'[u] = pc[u] /\ LrStirs(u)
      BY <1>2, <3>1 DEF Lr!Places
    <3>3. lr_mt_exit \/ jobs_dequeued = Lr!NumJobs
      BY <1>1, <2>4
    <3>4. LrShapes'
      BY <1>1, <2>1, <2>2, <3>1, <3>2 DEF LrShapes, LrInJob, LrAtUnit
    <3> QED BY <2>1, <2>2, <3>1, <3>2, <3>3, <3>4 DEF LrStep, LrReturns, LrOthersStay
  <2> QED BY <2>3, <2>4
<1>5. CASE Lr!ReadAbove(t)
  <2> DEFINE has == Lr!Even(row[t]) \/ LrHas(t, row[t] - 1)
             w == IF has THEN "read_below" ELSE "asleep_above"
  <2>1. pc[t] = "read_above" /\ Lr!GoesTo(t, w) /\ Rest /\ col' = col
    BY <1>5 DEF Lr!ReadAbove, LrHas, Lr!place
  <2>2. w \in Lr!Places /\ w \in LrAtUnit /\ pc[t] \in LrAtUnit
    BY <2>1 DEF Lr!Places, LrAtUnit, LrInJob
  <2>3. LrShapes' /\ LrOthersStay(t) /\ pc'[t] = w
    <3> HIDE DEF w
    <3> QED BY <1>3, <2>1, <2>2 DEF LrAtUnit
  <2> QED BY <2>1, <2>3 DEF LrStep, LrWalks, LrRoute
<1>6. CASE Lr!ReadBelow(t)
  <2> DEFINE has == Lr!Even(row[t]) \/ row[t] + 1 = LrRows \/ LrHas(t, row[t] + 1)
             w == IF has THEN "check" ELSE "asleep_below"
  <2>1. pc[t] = "read_below" /\ Lr!GoesTo(t, w) /\ Rest /\ col' = col
    BY <1>6 DEF Lr!ReadBelow, LrHas, Lr!place
  <2>2. w \in Lr!Places /\ w \in LrAtUnit /\ pc[t] \in LrAtUnit
    BY <2>1 DEF Lr!Places, LrAtUnit, LrInJob
  <2>3. LrShapes' /\ LrOthersStay(t) /\ pc'[t] = w
    <3> HIDE DEF w
    <3> QED BY <1>3, <2>1, <2>2 DEF LrAtUnit
  <2> QED BY <2>1, <2>3 DEF LrStep, LrWalks, LrRoute
<1>7. CASE Lr!CheckExit(t)
  <2> DEFINE w == IF lr_mt_exit /\ NumWorkers > 1 THEN "copy" ELSE "filter"
  <2>1. pc[t] = "check" /\ Lr!GoesTo(t, w) /\ Rest /\ col' = col
    BY <1>7 DEF Lr!CheckExit, Lr!place
  <2>2. w \in Lr!Places /\ w \in LrInJob /\ pc[t] \in LrAtUnit
    BY <2>1 DEF Lr!Places, LrAtUnit, LrInJob
  <2>3. LrShapes' /\ LrOthersStay(t) /\ pc'[t] = w
    <3> HIDE DEF w
    <3> QED BY <1>3, <2>1, <2>2 DEF LrAtUnit
  <2> QED BY <2>1, <2>3 DEF LrStep, LrWalks, LrRoute
<1>8. CASE Lr!Filter(t)
  <2>1. /\ pc[t] = "filter" /\ Lr!GoesTo(t, "write")
        /\ done' = done \cup {<<"unit", plane[t], row[t], col[t]>>}
        /\ UNCHANGED <<plane, row, col, jobs_dequeued, lr_mt_exit, cur_sb_col, released, outcome>>
    BY <1>8 DEF Lr!Filter, Lr!place
  <2>2. /\ pc' \in [Workers -> Lr!Places] /\ pc'[t] = "write"
        /\ \A u \in Workers \ {t} : pc'[u] = pc[u] /\ LrStirs(u)
    BY <1>2, <2>1 DEF Lr!Places
  <2>3. col[t] < LrCols /\ done' \subseteq Lr!Blocks
    <3>1. col[t] < LrCols
      BY <1>1, <2>1 DEF LrAtUnit, LrInJob
    <3>2. col[t] \in Lr!ColIds
      BY <1>1, <3>1 DEF Lr!ColIds
    <3> QED BY <1>1, <2>1, <3>1, <3>2 DEF Lr!Blocks
  <2>4. LrShapes'
    BY <1>1, <2>1, <2>2, <2>3 DEF LrShapes, LrInJob
  <2> QED BY <2>1, <2>2, <2>4 DEF LrStep, LrFilters, LrOthersStay
<1>9. CASE Lr!Write(t)
  <2> DEFINE last == col[t] = LrCols - 1  w == IF last THEN "copy" ELSE "read_above"
             cur == IF last THEN Lr!AllCols ELSE col[t]
  <2>1. /\ pc[t] = "write" /\ col' = [col EXCEPT ![t] = col[t] + 1]
        /\ UNCHANGED <<plane, row, jobs_dequeued, lr_mt_exit, released, done, outcome>>
        /\ \/ Lr!Publish(t, plane[t], row[t], cur, w)
           \/ Lr!GoesTo(t, w) /\ UNCHANGED cur_sb_col
    BY <1>9 DEF Lr!Write, Lr!place
  <2>2. col[t] < LrCols /\ col[t] \in Nat
    BY <1>1, <2>1 DEF LrAtUnit, LrInJob
  <2>3. /\ col' \in [Workers -> 0..LrCols] /\ col'[t] = col[t] + 1
        /\ \A u \in Workers \ {t} : col'[u] = col[u]
    BY <1>1, <2>1, <2>2
  <2>4. w \in Lr!Places /\ cur \in LrCurs
    BY <1>1, <2>2 DEF Lr!Places, LrCurs, Lr!AllCols, Lr!SyncRange
  <2>5. /\ pc' \in [Workers -> Lr!Places] /\ pc'[t] = w
        /\ \A u \in Workers \ {t} : LrStirs(u)
        /\ cur_sb_col' \in [Lr!Planes \X Lr!RowIds -> LrCurs]
        /\ \A x \in Lr!Planes \X Lr!RowIds :
            cur_sb_col'[x] = cur_sb_col[x] \/ (x = <<plane[t], row[t]>> /\ cur_sb_col'[x] = cur)
    <3> HIDE DEF w, cur
    <3>1. CASE Lr!Publish(t, plane[t], row[t], cur, w)
      BY <1>1, <2>4, <3>1, LrPublishes
    <3>2. CASE Lr!GoesTo(t, w) /\ UNCHANGED cur_sb_col
      BY <1>1, <1>2, <2>4, <3>2
    <3> QED BY <2>1, <3>1, <3>2
  <2>6. LrShapes'
    <3>1. \A u \in Workers : pc'[u] \in LrAtUnit => col'[u] < LrCols
      BY <1>1, <2>2, <2>3, <2>5 DEF LrAtUnit, LrInJob, LrStirs, Stirs
    <3>2. \A u \in Workers : pc'[u] = "release" => pc[u] = "release"
      BY <2>5 DEF LrStirs, Stirs
    <3>3. \A u \in Workers : pc'[u] \in {"get"} \cup LrInJob => pc[u] \in {"get"} \cup LrInJob
      BY <2>1, <2>5 DEF LrStirs, Stirs, LrInJob
    <3> QED BY <1>1, <2>1, <2>3, <2>5, <3>1, <3>2, <3>3 DEF LrShapes
  <2>7. \A x \in Lr!Planes \X Lr!RowIds :
            \/ cur_sb_col'[x] = cur_sb_col[x]
            \/ x = <<plane[t], row[t]>> /\ (cur_sb_col'[x] = col[t] \/ col[t] = LrCols - 1)
    BY <2>5
  <2> QED BY <2>1, <2>3, <2>5, <2>6, <2>7 DEF LrStep, LrWrites, LrOthersStay
<1>10. CASE Lr!Copy(t)
  <2>1. /\ pc[t] = "copy" /\ Lr!GoesTo(t, "get")
        /\ done' = IF col[t] = LrCols THEN done \cup {<<"back", plane[t], row[t]>>} ELSE done
        /\ UNCHANGED <<plane, row, col, jobs_dequeued, lr_mt_exit, cur_sb_col, released, outcome>>
    BY <1>10 DEF Lr!Copy, Lr!place
  <2>2. /\ pc' \in [Workers -> Lr!Places] /\ pc'[t] = "get"
        /\ \A u \in Workers \ {t} : pc'[u] = pc[u] /\ LrStirs(u)
    BY <1>2, <2>1 DEF Lr!Places
  <2>3. done' \subseteq Lr!Blocks
    BY <1>1, <2>1 DEF Lr!Blocks
  <2>4. LrShapes'
    BY <1>1, <2>1, <2>2, <2>3 DEF LrShapes, LrInJob, LrAtUnit
  <2> QED BY <2>1, <2>2, <2>4 DEF LrStep, LrCopies, LrOthersStay
<1>11. CASE Lr!RaiseExit(t)
  <2>1. /\ pc[t] = "error" /\ lr_mt_exit' = TRUE /\ Lr!GoesTo(t, "release")
        /\ UNCHANGED <<plane, row, col, jobs_dequeued, cur_sb_col, released, done, outcome>>
    BY <1>11 DEF Lr!RaiseExit, Lr!place
  <2>2. /\ pc' \in [Workers -> Lr!Places] /\ pc'[t] = "release"
        /\ \A u \in Workers \ {t} : pc'[u] = pc[u] /\ LrStirs(u)
    BY <1>2, <2>1 DEF Lr!Places
  <2>3. released[t] = 0
    BY <2>1 DEF LrShapes, LrInJob
  <2>4. LrShapes'
    BY <1>1, <2>1, <2>2, <2>3 DEF LrShapes, LrInJob, LrAtUnit
  <2> QED BY <2>1, <2>2, <2>4 DEF LrStep, LrFails, LrOthersStay
<1>12. CASE Lr!Release(t)
  <2> DEFINE n == released[t]  w == IF n + 1 = Lr!NumJobs THEN "failed" ELSE "release"
  <2>1. /\ pc[t] = "release" /\ Lr!Publish(t, n \div LrRows, n % LrRows, Lr!AllCols, w)
        /\ released' = [released EXCEPT ![t] = n + 1]
        /\ UNCHANGED <<plane, row, col, jobs_dequeued, lr_mt_exit, done, outcome>>
    BY <1>12 DEF Lr!Release, Lr!place
  <2>2. n \in 0..(Lr!NumJobs - 1)
    BY <1>1, <2>1 DEF LrShapes
  <2>3. w \in Lr!Places /\ Lr!AllCols \in LrCurs
    BY <1>1 DEF Lr!Places, LrCurs, Lr!AllCols, Lr!SyncRange
  <2>4. /\ pc' \in [Workers -> Lr!Places] /\ pc'[t] = w
        /\ \A u \in Workers \ {t} : LrStirs(u)
        /\ cur_sb_col' \in [Lr!Planes \X Lr!RowIds -> LrCurs]
    <3> DEFINE p == n \div LrRows  r == n % LrRows  cur == Lr!AllCols
    <3>1. p \in Lr!Planes /\ r \in Lr!RowIds
      <4>1. LrPlanes \in Nat /\ LrRows \in Nat \ {0}
        BY LrSizes
      <4>2. \A k \in 0..(LrPlanes * LrRows - 1) :
                k \div LrRows \in 0..(LrPlanes - 1) /\ k % LrRows \in 0..(LrRows - 1)
        BY <4>1, Grid
      <4> QED BY <2>2, <4>2 DEF Lr!NumJobs, Lr!Planes, Lr!RowIds
    <3>2. cur \in LrCurs /\ Lr!Publish(t, p, r, cur, w)
      BY <2>1, <2>3
    <3> HIDE DEF n, w, p, r, cur
    <3> QED BY <1>1, <2>3, <3>1, <3>2, LrPublishes
  <2>5. /\ released' \in [Workers -> 0..Lr!NumJobs] /\ released'[t] = n + 1
        /\ \A u \in Workers \ {t} : released'[u] = released[u]
    BY <1>1, <2>1, <2>2
  <2>6. LrShapes'
    <3>1. \A u \in Workers : pc'[u] \in LrAtUnit => pc[u] \in LrAtUnit
      BY <2>4 DEF LrAtUnit, LrInJob, LrStirs, Stirs
    <3>2. \A u \in Workers : pc'[u] = "release" => released'[u] < Lr!NumJobs
      BY <1>1, <2>2, <2>4, <2>5 DEF LrShapes, LrStirs, Stirs
    <3>3. \A u \in Workers : pc'[u] \in {"get"} \cup LrInJob => released'[u] = 0
      BY <2>4, <2>5 DEF LrShapes, LrStirs, Stirs, LrInJob
    <3> QED BY <1>1, <2>1, <2>4, <2>5, <3>1, <3>2, <3>3 DEF LrShapes
  <2>7. lr_mt_exit
    BY <2>1 DEF LrExitMeans
  <2> QED BY <2>1, <2>4, <2>6, <2>7 DEF LrStep, LrFails, LrOthersStay
<1>13. CASE Lr!Throw(t)
  <2>1. pc[t] = "filter" /\ Lr!GoesTo(t, "error") /\ Rest /\ col' = col
    BY <1>13 DEF Lr!Throw, Lr!place
  <2>2. LrShapes' /\ LrOthersStay(t) /\ pc'[t] = "error"
    BY <1>3, <2>1 DEF LrInJob, LrAtUnit, Lr!Places
  <2> QED BY <2>1, <2>2 DEF LrStep, LrWalks, LrRoute
<1>14. CASE Lr!Spurious(t)
  <2> DEFINE w == Lr!Woken(pc[t])
  <2>1. /\ pc[t] \in {"asleep_above", "asleep_below"} /\ Lr!GoesTo(t, w) /\ Rest /\ col' = col
    BY <1>14 DEF Lr!Spurious, Lr!place
  <2>2. \/ pc[t] = "asleep_above" /\ w = "read_above"
        \/ pc[t] = "asleep_below" /\ w = "read_below"
    BY <2>1 DEF Lr!Woken
  <2>4. w \in Lr!Places /\ w \in LrAtUnit /\ pc[t] \in LrAtUnit
    BY <2>1 DEF Lr!Woken, Lr!Places, LrAtUnit, LrInJob
  <2>3. LrShapes' /\ LrOthersStay(t) /\ pc'[t] = w
    <3> HIDE DEF w
    <3> QED BY <1>3, <2>1, <2>4 DEF LrAtUnit
  <2> QED BY <2>1, <2>2, <2>3 DEF LrStep, LrWalks, LrRoute
<1> QED BY <1>4, <1>5, <1>6, <1>7, <1>8, <1>9, <1>10, <1>11, <1>12, <1>13, <1>14 DEF Lr!Step

-----------------------------------------------------------------------------
\* Loop restoration: each part of the invariant is kept.

\* A step of a thread of loop restoration keeps LrExitMeans.
LEMMA LrExitMeansKept ==
    ASSUME LrExitMeans, NEW t \in Workers, LrStep(t)
    PROVE  LrExitMeans'
<1>1. \A u \in Workers \ {t} : pc'[u] \in {"release", "failed"} <=> pc[u] \in {"release", "failed"}
  BY DEF LrStep, LrWalks, LrReturns, LrTakes, LrFilters, LrWrites, LrCopies, LrFails,
         LrOthersStay, LrStirs, Stirs
<1>2. CASE LrFails(t)
  BY <1>1, <1>2 DEF LrFails, LrExitMeans
<1>3. CASE ~LrFails(t)
  <2>1. /\ lr_mt_exit' = lr_mt_exit
        /\ pc[t] \notin {"release", "failed"} /\ pc'[t] \notin {"release", "failed"}
    BY <1>3 DEF LrStep, LrWalks, LrRoute, LrReturns, LrTakes, LrFilters, LrWrites, LrCopies
  <2> QED BY <1>1, <2>1 DEF LrExitMeans
<1> QED BY <1>2, <1>3

\* What a step leaves of a worker that does not take it.
LEMMA LrOthers ==
    ASSUME LrApart, NEW t \in Workers, LrStep(t), NEW u \in Workers \ {t}
    PROVE  /\ plane'[u] = plane[u] /\ row'[u] = row[u] /\ col'[u] = col[u]
           /\ pc'[u] \in LrInJob <=> pc[u] \in LrInJob
           /\ \A where \in {"get", "check", "filter", "write", "copy", "release", "returned", "failed"} :
                pc'[u] = where <=> pc[u] = where
           /\ pc'[u] \in {"read_below", "asleep_below"} <=> pc[u] \in {"read_below", "asleep_below"}
<1>1. /\ plane'[u] = plane[u] /\ row'[u] = row[u] /\ col'[u] = col[u] /\ LrStirs(u)
  BY DEF LrStep, LrWalks, LrReturns, LrTakes, LrFilters, LrWrites, LrCopies, LrFails, LrOthersStay
<1> QED BY <1>1 DEF LrStirs, Stirs, LrInJob

\* What a step adds to the blocks that are done.
LEMMA LrAdds ==
    ASSUME NEW t \in Workers, LrStep(t)
    PROVE  \/ done' = done
           \/ pc[t] = "filter" /\ done' = done \cup {<<"unit", plane[t], row[t], col[t]>>}
           \/ pc[t] = "copy" /\ done' = done \cup {<<"back", plane[t], row[t]>>}
  BY DEF LrStep, LrWalks, LrReturns, LrTakes, LrFilters, LrWrites, LrCopies, LrFails

\* A step of a thread of loop restoration keeps LrApart.
LEMMA LrApartKept ==
    ASSUME LrShapes, LrApart, NEW t \in Workers, LrStep(t)
    PROVE  LrApart'
<1>1. \A u \in Workers \ {t} :
        plane'[u] = plane[u] /\ row'[u] = row[u] /\ (pc'[u] \in LrInJob <=> pc[u] \in LrInJob)
  BY LrOthers
<1>2. jobs_dequeued \in Nat
  BY LrSizes DEF LrShapes
<1>3. CASE LrTakes(t)
  <2>1. /\ jobs_dequeued' = jobs_dequeued + 1 /\ LrNumber(plane'[t], row'[t]) = jobs_dequeued
        /\ done' = done
    BY <1>3 DEF LrTakes
  <2>2. \A u \in Workers \ {t} : pc'[u] \in LrInJob => LrNumber(plane'[u], row'[u]) < jobs_dequeued
    BY <1>1 DEF LrApart
  <2>3. \A u \in Workers \ {t} : pc'[u] \in LrInJob => <<plane'[t], row'[t]>> # <<plane'[u], row'[u]>>
    BY <1>2, <2>1, <2>2
  <2>4. \A p \in Lr!Planes, r \in Lr!RowIds :
            LrNumber(p, r) < jobs_dequeued => LrNumber(p, r) < jobs_dequeued'
    BY <1>2, <2>1, LrJobs
  <2>5. \A b \in done' : LrNumber(b[2], b[3]) < jobs_dequeued'
    <3>1. \A b \in done : b[2] \in Lr!Planes /\ b[3] \in Lr!RowIds
      BY DEF LrShapes, Lr!Blocks
    <3> QED BY <2>1, <2>4, <3>1 DEF LrApart
  <2>6. \A u \in Workers : pc'[u] \in LrInJob => LrNumber(plane'[u], row'[u]) < jobs_dequeued'
    <3>1. \A u \in Workers \ {t} : plane'[u] \in Lr!Planes /\ row'[u] \in Lr!RowIds
      BY <1>1 DEF LrShapes
    <3>2. LrNumber(plane'[t], row'[t]) < jobs_dequeued'
      BY <1>2, <2>1
    <3> QED BY <2>2, <2>4, <3>1, <3>2
  <2>7. \A u, v \in Workers \ {t} : u # v /\ pc'[u] \in LrInJob /\ pc'[v] \in LrInJob =>
            <<plane'[u], row'[u]>> # <<plane'[v], row'[v]>>
    BY <1>1 DEF LrApart
  <2> QED BY <2>3, <2>5, <2>6, <2>7 DEF LrApart
<1>4. CASE ~LrTakes(t)
  <2>1. /\ plane' = plane /\ row' = row /\ jobs_dequeued' = jobs_dequeued
        /\ pc'[t] \in LrInJob => pc[t] \in LrInJob
    BY <1>4 DEF LrStep, LrWalks, LrRoute, LrReturns, LrFilters, LrWrites, LrCopies, LrFails, LrInJob
  <2>2. \A b \in done' : LrNumber(b[2], b[3]) < jobs_dequeued
    BY LrAdds DEF LrApart, LrInJob
  <2> QED BY <1>1, <2>1, <2>2 DEF LrApart
<1> QED BY <1>3, <1>4

\* A unit is no copy of a row.
LEMMA LrKinds == \A p, r, c, q, s : <<"unit", p, r, c>> # <<"back", q, s>>
<1> SUFFICES ASSUME NEW p, NEW r, NEW c, NEW q, NEW s, <<"unit", p, r, c>> = <<"back", q, s>>
             PROVE  FALSE
  OBVIOUS
<1>1. <<"unit", p, r, c>>[1] = <<"back", q, s>>[1]
  OBVIOUS
<1> QED BY <1>1

\* A step of a thread of loop restoration keeps LrSoFar.
LEMMA LrSoFarKept ==
    ASSUME LrShapes, LrApart, LrSoFar, LrNext, NEW t \in Workers, LrStep(t)
    PROVE  LrSoFar'
<1> DEFINE Of(u) ==
        /\ <<"back", plane[u], row[u]>> \notin done
        /\ \A c \in Lr!ColIds : <<"unit", plane[u], row[u], c>> \in done <=> c < LrPast(u)
        /\ ~Lr!Even(row[u]) => \A q \in Lr!Neighbours(row[u]), c \in Lr!ColIds :
                c < LrPast(u) => <<"unit", plane[u], q, c>> \in done
<1>1. \A u \in Workers : pc[u] \in LrInJob => Of(u)
  BY DEF LrSoFar
<1>2. ASSUME NEW u \in Workers \ {t}, pc'[u] \in LrInJob
      PROVE  Of(u)'
  <2>1. /\ pc[u] \in LrInJob /\ plane'[u] = plane[u] /\ row'[u] = row[u] /\ col'[u] = col[u]
        /\ pc'[u] = "write" <=> pc[u] = "write"
    BY <1>2, LrOthers
  <2>2. LrPast(u)' = LrPast(u)
    BY <2>1 DEF LrPast
  <2>3. pc[t] \in {"filter", "copy"} => <<plane[t], row[t]>> # <<plane[u], row[u]>>
    BY <2>1 DEF LrApart, LrInJob
  <2>4. \A c : <<"unit", plane[u], row[u], c>> \in done' <=> <<"unit", plane[u], row[u], c>> \in done
    BY <2>3, LrAdds, LrKinds
  <2>5. <<"back", plane[u], row[u]>> \in done' <=> <<"back", plane[u], row[u]>> \in done
    BY <2>3, LrAdds, LrKinds
  <2>6. done \subseteq done'
    BY LrAdds
  <2> HIDE DEF LrPast
  <2> QED BY <1>1, <2>1, <2>2, <2>4, <2>5, <2>6
<1>3. ASSUME pc'[t] \in LrInJob
      PROVE  Of(t)'
  <2>1. CASE LrWalks(t)
    <3>1. /\ plane' = plane /\ row' = row /\ col' = col /\ done' = done /\ pc[t] \in LrInJob
          /\ pc[t] # "write" /\ pc'[t] # "write"
      BY <2>1 DEF LrWalks, LrRoute, LrInJob
    <3>2. LrPast(t)' = LrPast(t)
      BY <3>1 DEF LrPast
    <3> HIDE DEF LrPast
    <3> QED BY <1>1, <3>1, <3>2
  <2>2. CASE LrTakes(t)
    <3>1. /\ LrNumber(plane'[t], row'[t]) = jobs_dequeued /\ col'[t] = 0 /\ pc'[t] # "write" /\ done' = done
          /\ \A b \in done : LrNumber(b[2], b[3]) < jobs_dequeued
      BY <2>2 DEF LrTakes, LrApart
    <3>2. LrPast(t)' = 0
      BY <3>1 DEF LrPast
    <3>3. \A b \in done : LrNumber(b[2], b[3]) # LrNumber(plane'[t], row'[t])
      BY <3>1, LrSizes DEF LrShapes
    <3>4. /\ <<"back", plane'[t], row'[t]>> \notin done
          /\ \A c : <<"unit", plane'[t], row'[t], c>> \notin done
      BY <3>3
    <3>5. \A c \in Lr!ColIds : ~(c < 0)
      BY LrSizes DEF Lr!ColIds
    <3> QED BY <3>1, <3>2, <3>4, <3>5
  <2>3. CASE LrFilters(t)
    <3>1. /\ pc[t] = "filter" /\ pc'[t] = "write" /\ plane' = plane /\ row' = row /\ col' = col
          /\ done' = done \cup {<<"unit", plane[t], row[t], col[t]>>}
      BY <2>3 DEF LrFilters
    <3>2. LrPast(t)' = col[t] + 1 /\ LrPast(t) = col[t]
      BY <3>1 DEF LrPast
    <3>3. Of(t) /\ col[t] \in Nat /\ col[t] \in Lr!ColIds /\ row[t] \in Nat
      <4>1. pc[t] \in LrInJob /\ pc[t] \in LrAtUnit
        BY <3>1 DEF LrInJob, LrAtUnit
      <4>2. row[t] \in Lr!RowIds /\ col[t] \in 0..LrCols /\ col[t] < LrCols
        BY <4>1 DEF LrShapes
      <4> HIDE DEF Of
      <4>3. Of(t)
        BY <1>1, <4>1
      <4> QED BY <4>2, <4>3, LrSizes DEF Lr!ColIds, Lr!RowIds
    <3>4. <<"back", plane[t], row[t]>> \notin done'
      BY <3>1, <3>3, LrKinds
    <3>5. \A c \in Lr!ColIds : c < LrPast(t)' <=> c < LrPast(t) \/ c = col[t]
      BY <3>2, <3>3, LrSizes DEF Lr!ColIds
    <3>6. \A c \in Lr!ColIds : <<"unit", plane[t], row[t], c>> \in done' <=> c < LrPast(t)'
      BY <3>1, <3>3, <3>5
    <3>7. ASSUME ~Lr!Even(row[t]), NEW q \in Lr!Neighbours(row[t]), NEW c \in Lr!ColIds, c < LrPast(t)'
          PROVE  <<"unit", plane[t], q, c>> \in done'
      <4>1. CASE c < LrPast(t)
        BY <3>1, <3>3, <3>7, <4>1
      <4>2. CASE c = col[t]
        <5>1. LrSeen(t, row[t] - 1) /\ LrSeen(t, row[t] + 1)
          BY <3>1 DEF LrNext
        <5>2. (q = row[t] - 1 \/ q = row[t] + 1) /\ q \in Lr!RowIds
          BY <3>7 DEF Lr!Neighbours
        <5>3. c \in col[t]..(col[t] + 1)
          BY <3>3, <4>2
        <5> QED BY <3>1, <3>7, <5>1, <5>2, <5>3 DEF LrSeen
      <4> QED BY <3>5, <3>7, <4>1, <4>2
    <3> QED BY <3>1, <3>4, <3>6, <3>7
  <2>4. CASE LrWrites(t)
    <3>1. /\ pc[t] = "write" /\ pc'[t] # "write" /\ plane' = plane /\ row' = row
          /\ col'[t] = col[t] + 1 /\ done' = done
      BY <2>4 DEF LrWrites
    <3>2. LrPast(t)' = LrPast(t) /\ Of(t)
      BY <1>1, <3>1 DEF LrPast, LrInJob
    <3> HIDE DEF LrPast
    <3> QED BY <3>1, <3>2
  <2>5. CASE LrReturns(t) \/ LrCopies(t) \/ LrFails(t)
    BY <1>3, <2>5 DEF LrReturns, LrCopies, LrFails, LrInJob
  <2> QED BY <2>1, <2>2, <2>3, <2>4, <2>5 DEF LrStep
<1> QED BY <1>2, <1>3 DEF LrSoFar

\* A step of a thread of loop restoration keeps LrPublished.
LEMMA LrPublishedKept ==
    ASSUME LrShapes, LrSoFar, LrPublished, NEW t \in Workers, LrStep(t)
    PROVE  LrPublished'
<1>1. SUFFICES ASSUME ~lr_mt_exit', NEW p \in Lr!Planes, NEW r \in Lr!RowIds, NEW c \in Lr!ColIds,
                      c <= cur_sb_col'[<<p, r>>]
               PROVE  <<"unit", p, r, c>> \in done'
  BY DEF LrPublished
<1>2. ~lr_mt_exit /\ ~LrFails(t)
  BY <1>1 DEF LrStep, LrWalks, LrReturns, LrTakes, LrFilters, LrWrites, LrCopies, LrFails
<1>3. done \subseteq done'
  BY LrAdds
<1>4. CASE LrWrites(t)
  <2>1. pc[t] = "write" /\ <<p, r>> \in Lr!Planes \X Lr!RowIds
    BY <1>4 DEF LrWrites
  <2>2. \/ cur_sb_col'[<<p, r>>] = cur_sb_col[<<p, r>>]
        \/ <<p, r>> = <<plane[t], row[t]>> /\ (cur_sb_col'[<<p, r>>] = col[t] \/ col[t] = LrCols - 1)
    BY <1>4, <2>1 DEF LrWrites
  <2>3. CASE cur_sb_col'[<<p, r>>] = cur_sb_col[<<p, r>>]
    BY <1>1, <1>2, <1>3, <2>3 DEF LrPublished
  <2>4. CASE <<p, r>> = <<plane[t], row[t]>> /\ (cur_sb_col'[<<p, r>>] = col[t] \/ col[t] = LrCols - 1)
    <3>1. p = plane[t] /\ r = row[t] /\ c < col[t] + 1
      BY <1>1, <2>4, LrSizes DEF LrShapes, Lr!ColIds
    <3> QED BY <1>3, <2>1, <3>1 DEF LrSoFar, LrPast, LrInJob
  <2> QED BY <2>2, <2>3, <2>4
<1>5. CASE ~LrWrites(t)
  <2>1. cur_sb_col' = cur_sb_col
    BY <1>2, <1>5 DEF LrStep, LrWalks, LrReturns, LrTakes, LrFilters, LrCopies
  <2> QED BY <1>1, <1>2, <1>3, <2>1 DEF LrPublished
<1> QED BY <1>4, <1>5

\* The wait for a row next to an odd one ends when two units there are done.
LEMMA LrWaited ==
    ASSUME LrShapes, LrPublished, ~lr_mt_exit, NEW t \in Workers, NEW q,
           Lr!Even(row[t]) \/ q \notin Lr!RowIds \/ LrHas(t, q)
    PROVE  LrSeen(t, q)
<1> SUFFICES ASSUME q \in Lr!RowIds, LrHas(t, q), NEW c \in Lr!ColIds, c \in col[t]..(col[t] + 1)
             PROVE  <<"unit", plane[t], q, c>> \in done
  BY DEF LrSeen
<1>1. /\ plane[t] \in Lr!Planes /\ col[t] \in Nat /\ c \in Nat
      /\ cur_sb_col[<<plane[t], q>>] \in Int
  BY LrSizes DEF LrShapes, LrCurs, Lr!ColIds
<1>2. col[t] <= cur_sb_col[<<plane[t], q>>] - 1
  BY DEF LrHas, Lr!RowIs, Lr!SyncRange
<1>3. c <= cur_sb_col[<<plane[t], q>>]
  BY <1>1, <1>2
<1> QED BY <1>1, <1>3 DEF LrPublished

\* A step of a thread of loop restoration keeps LrNext.
LEMMA LrNextKept ==
    ASSUME LrShapes, LrExitMeans, LrApart, LrPublished, LrNext, NEW t \in Workers, LrStep(t)
    PROVE  LrNext'
<1> DEFINE Of(u) ==
        /\ ~lr_mt_exit /\ pc[u] \in {"read_below", "asleep_below", "check"} => LrSeen(u, row[u] - 1)
        /\ ~lr_mt_exit /\ pc[u] = "check" => LrSeen(u, row[u] + 1)
        /\ pc[u] = "filter" => LrSeen(u, row[u] - 1) /\ LrSeen(u, row[u] + 1)
<1>1. \A u \in Workers : Of(u)
  BY DEF LrNext
<1>2. done \subseteq done' /\ (~lr_mt_exit' => ~lr_mt_exit)
  BY LrAdds DEF LrStep, LrWalks, LrReturns, LrTakes, LrFilters, LrWrites, LrCopies, LrFails
<1>3. ASSUME NEW u \in Workers, plane'[u] = plane[u], row'[u] = row[u], col'[u] = col[u]
      PROVE  \A q : LrSeen(u, q) => LrSeen(u, q)'
  BY <1>2, <1>3 DEF LrSeen
<1>4. ASSUME NEW u \in Workers \ {t}
      PROVE  Of(u)'
  <2>1. /\ plane'[u] = plane[u] /\ row'[u] = row[u] /\ col'[u] = col[u]
        /\ pc'[u] = "check" <=> pc[u] = "check"
        /\ pc'[u] = "filter" <=> pc[u] = "filter"
        /\ pc'[u] \in {"read_below", "asleep_below"} <=> pc[u] \in {"read_below", "asleep_below"}
    BY LrOthers
  <2>2. \A q : LrSeen(u, q) => LrSeen(u, q)'
    BY <1>3, <2>1
  <2>3. /\ LrSeen(u, row[u] - 1) => LrSeen(u, row[u] - 1)'
        /\ LrSeen(u, row[u] + 1) => LrSeen(u, row[u] + 1)'
    BY <2>1, <2>2 DEF LrSeen
  <2> HIDE DEF LrSeen
  <2> QED BY <1>1, <1>2, <2>1, <2>3
<1>5. Of(t)'
  <2>1. CASE LrWalks(t)
    <3>1. /\ LrRoute(t) /\ plane' = plane /\ row' = row /\ col' = col /\ lr_mt_exit' = lr_mt_exit
          /\ done' = done
      BY <2>1 DEF LrWalks
    <3>2. /\ LrSeen(t, row[t] - 1) => LrSeen(t, row[t] - 1)'
          /\ LrSeen(t, row[t] + 1) => LrSeen(t, row[t] + 1)'
      BY <3>1 DEF LrSeen
    <3>3. ASSUME pc'[t] \in {"read_below", "asleep_below", "check"}, ~lr_mt_exit
          PROVE  LrSeen(t, row[t] - 1)
      <4>1. CASE pc[t] = "read_above"
        <5>1. Lr!Even(row[t]) \/ LrHas(t, row[t] - 1)
          BY <3>1, <3>3, <4>1 DEF LrRoute
        <5> QED BY <3>3, <5>1, LrWaited
      <4>2. CASE pc[t] # "read_above"
        BY <1>1, <3>1, <3>3, <4>2 DEF LrRoute
      <4> QED BY <4>1, <4>2
    <3>4. ASSUME pc'[t] = "check", ~lr_mt_exit
          PROVE  LrSeen(t, row[t] + 1)
      <4>1. Lr!Even(row[t]) \/ row[t] + 1 = LrRows \/ LrHas(t, row[t] + 1)
        BY <3>1, <3>4 DEF LrRoute
      <4>2. row[t] + 1 = LrRows => row[t] + 1 \notin Lr!RowIds
        BY LrSizes DEF Lr!RowIds
      <4> QED BY <3>4, <4>1, <4>2, LrWaited
    <3>5. ASSUME pc'[t] = "filter"
          PROVE  LrSeen(t, row[t] - 1) /\ LrSeen(t, row[t] + 1)
      <4>1. pc[t] = "check" /\ ~(lr_mt_exit /\ NumWorkers > 1)
        BY <3>1, <3>5 DEF LrRoute
      <4>2. ~lr_mt_exit
        <5>1. SUFFICES ASSUME lr_mt_exit PROVE FALSE
          OBVIOUS
        <5>2. NumWorkers = 1
          BY <4>1, <5>1, LrSizes
        <5>3. \A u \in Workers : u = t
          BY <5>2 DEF Workers
        <5> QED BY <4>1, <5>1, <5>3 DEF LrExitMeans
      <4> QED BY <1>1, <4>1, <4>2
    <3> HIDE DEF LrSeen
    <3> QED BY <3>1, <3>2, <3>3, <3>4, <3>5
  <2>2. CASE ~LrWalks(t)
    <3>1. pc'[t] \notin {"read_below", "asleep_below", "check", "filter"}
      BY <2>2 DEF LrStep, LrReturns, LrTakes, LrFilters, LrWrites, LrCopies, LrFails
    <3> QED BY <3>1
  <2> QED BY <2>1, <2>2
<1> QED BY <1>4, <1>5 DEF LrNext

\* A step of a thread of loop restoration keeps LrCovered.
LEMMA LrCoveredKept ==
    ASSUME LrShapes, LrSoFar, LrCovered, LrApart, NEW t \in Workers, LrStep(t), LrShapes'
    PROVE  LrCovered'
<1>1. done \subseteq done' /\ (~lr_mt_exit' => ~lr_mt_exit)
  BY LrAdds DEF LrStep, LrWalks, LrReturns, LrTakes, LrFilters, LrWrites, LrCopies, LrFails
<1>2. ASSUME NEW p \in Lr!Planes, NEW r \in Lr!RowIds, NEW c \in Lr!ColIds, <<"back", p, r>> \in done'
      PROVE  <<"unit", p, r, c>> \in done'
  <2>1. CASE <<"back", p, r>> \in done
    BY <1>1, <2>1 DEF LrCovered
  <2>2. CASE <<"back", p, r>> \notin done
    <3>1. /\ pc[t] = "copy" /\ col[t] = LrCols /\ p = plane[t] /\ r = row[t]
      BY <1>2, <2>2, LrKinds DEF LrStep, LrWalks, LrReturns, LrTakes, LrFilters, LrWrites, LrCopies,
                                 LrFails
    <3>2. c < LrPast(t)
      BY <3>1, LrSizes DEF LrPast, Lr!ColIds
    <3> QED BY <1>1, <3>1, <3>2 DEF LrSoFar, LrInJob
  <2> QED BY <2>1, <2>2
<1>3. ASSUME ~lr_mt_exit', NEW u \in Workers, pc'[u] = "copy"
      PROVE  col'[u] = LrCols
  <2>1. CASE u = t
    BY <1>1, <1>3, <2>1, LrSizes DEF LrStep, LrWalks, LrRoute, LrReturns, LrTakes, LrFilters, LrWrites,
                            LrCopies, LrFails
  <2>2. CASE u # t
    <3>1. pc[u] = "copy" /\ col'[u] = col[u]
      BY <1>3, <2>2, LrOthers
    <3> QED BY <1>1, <1>3, <3>1 DEF LrCovered
  <2> QED BY <2>1, <2>2
<1>4. ASSUME ~lr_mt_exit', NEW p \in Lr!Planes, NEW r \in Lr!RowIds, LrNumber(p, r) < jobs_dequeued'
      PROVE  \/ <<"back", p, r>> \in done'
             \/ \E u \in Workers : pc'[u] \in LrInJob /\ plane'[u] = p /\ row'[u] = r
  <2>1. ~lr_mt_exit /\ ~LrFails(t)
    BY <1>1, <1>4 DEF LrFails
  <2>2. \A u \in Workers \ {t} :
            plane'[u] = plane[u] /\ row'[u] = row[u] /\ (pc'[u] \in LrInJob <=> pc[u] \in LrInJob)
    BY LrOthers
  <2>3. CASE LrTakes(t)
    <3>1. /\ LrNumber(plane'[t], row'[t]) = jobs_dequeued /\ jobs_dequeued' = jobs_dequeued + 1
          /\ pc'[t] = "read_above" /\ pc[t] = "get"
      BY <2>3 DEF LrTakes
    <3>2. plane'[t] \in Lr!Planes /\ row'[t] \in Lr!RowIds /\ jobs_dequeued \in Nat
      BY LrSizes DEF LrShapes
    <3>3. CASE LrNumber(p, r) = jobs_dequeued
      <4>1. plane'[t] = p /\ row'[t] = r
        BY <3>1, <3>2, <3>3, LrJobs
      <4> QED BY <3>1, <4>1 DEF LrInJob
    <3>4. CASE LrNumber(p, r) # jobs_dequeued
      <4>1. LrNumber(p, r) < jobs_dequeued
        BY <1>4, <3>1, <3>2, <3>4, LrJobs
      <4> QED BY <1>1, <2>1, <2>2, <3>1, <4>1 DEF LrCovered, LrInJob
    <3> QED BY <3>3, <3>4
  <2>4. CASE ~LrTakes(t)
    <3>1. plane' = plane /\ row' = row /\ jobs_dequeued' = jobs_dequeued
      BY <2>4 DEF LrStep, LrWalks, LrReturns, LrFilters, LrWrites, LrCopies, LrFails
    <3>2. pc[t] \in LrInJob => pc'[t] \in LrInJob \/ <<"back", plane[t], row[t]>> \in done'
      <4>1. CASE LrCopies(t)
        <5>1. col[t] = LrCols
          BY <2>1, <4>1 DEF LrCovered, LrCopies
        <5> QED BY <4>1, <5>1 DEF LrCopies
      <4>2. CASE ~LrCopies(t)
        BY <2>1, <2>4, <4>2, LrSizes DEF LrStep, LrWalks, LrRoute, LrReturns, LrFilters, LrWrites, LrInJob
      <4> QED BY <4>1, <4>2
    <3> QED BY <1>1, <1>4, <2>1, <2>2, <3>1, <3>2 DEF LrCovered
  <2> QED BY <2>3, <2>4
<1> QED BY <1>2, <1>3, <1>4 DEF LrCovered

\* A step of a thread of loop restoration keeps LrEnds.
LEMMA LrEndsKept ==
    ASSUME LrShapes, LrApart, LrEnds, NEW t \in Workers, LrStep(t)
    PROVE  LrEnds'
<1>1. pc[t] \notin {"returned", "failed"} /\ outcome' = outcome
  BY DEF LrStep, LrWalks, LrRoute, LrReturns, LrTakes, LrFilters, LrWrites, LrCopies, LrFails
<1>2. outcome = "busy"
  BY <1>1 DEF LrEnds
<1>3. ASSUME ~lr_mt_exit', NEW u \in Workers, pc'[u] = "returned"
      PROVE  jobs_dequeued' = Lr!NumJobs
  <2>1. ~lr_mt_exit /\ ~LrFails(t)
    BY <1>3 DEF LrStep, LrWalks, LrReturns, LrTakes, LrFilters, LrWrites, LrCopies, LrFails
  <2>2. CASE u = t
    BY <1>3, <2>1, <2>2 DEF LrStep, LrWalks, LrRoute, LrReturns, LrTakes, LrFilters, LrWrites, LrCopies
  <2>3. CASE u # t
    <3>1. pc[u] = "returned"
      BY <1>3, <2>3, LrOthers
    <3>2. jobs_dequeued = Lr!NumJobs
      BY <2>1, <3>1 DEF LrEnds
    <3>3. ~LrTakes(t)
      BY <3>2, LrSizes DEF LrTakes
    <3>4. jobs_dequeued' = jobs_dequeued
      BY <2>1, <3>3 DEF LrStep, LrWalks, LrReturns, LrFilters, LrWrites, LrCopies
    <3> QED BY <3>2, <3>4
  <2> QED BY <2>2, <2>3
<1> QED BY <1>1, <1>2, <1>3 DEF LrEnds

\* A step of a thread of loop restoration keeps the invariant of the stage.
LEMMA LrStepKept ==
    ASSUME LrInv, NEW t \in Workers, Lr!Step(t) \/ Lr!Throw(t) \/ Lr!Spurious(t)
    PROVE  LrInv'
<1>1. LrShapes' /\ LrStep(t)
  BY LrStepKinds DEF LrInv
<1> QED BY <1>1, LrExitMeansKept, LrApartKept, LrSoFarKept, LrPublishedKept, LrNextKept,
           LrCoveredKept, LrEndsKept DEF LrInv

-----------------------------------------------------------------------------
\* Loop restoration: from frame to frame, and what the invariant says.

\* Loop restoration starts with its invariant.
LEMMA LrStarts ==
    ASSUME Lr!Start, done' = {}
    PROVE  LrInv'
<1>1. /\ pc' = [t \in Workers |-> "get"] /\ plane' = [t \in Workers |-> 0]
      /\ row' = [t \in Workers |-> 0] /\ col' = [t \in Workers |-> 0]
      /\ jobs_dequeued' = 0 /\ lr_mt_exit' = FALSE
      /\ cur_sb_col' = [x \in Lr!Planes \X Lr!RowIds |-> -1]
      /\ released' = [t \in Workers |-> 0] /\ outcome' = "busy" /\ done' = {}
  BY DEF Lr!Start, Lr!Zeros, Lr!Workers, Workers
<1>2. LrShapes'
  <2>1. 0 \in Lr!Planes /\ 0 \in Lr!RowIds /\ 0 \in 0..LrCols /\ 0 \in 0..Lr!NumJobs /\ -1 \in LrCurs
    BY LrSizes DEF LrCurs, Lr!AllCols, Lr!SyncRange
  <2>2. pc' \in [Workers -> Lr!Places]
    BY <1>1 DEF Lr!Places
  <2>3. /\ plane' \in [Workers -> Lr!Planes] /\ row' \in [Workers -> Lr!RowIds]
        /\ col' \in [Workers -> 0..LrCols] /\ released' \in [Workers -> 0..Lr!NumJobs]
        /\ cur_sb_col' \in [Lr!Planes \X Lr!RowIds -> LrCurs]
    BY <1>1, <2>1
  <2> QED BY <1>1, <2>1, <2>2, <2>3 DEF LrShapes, LrInJob, LrAtUnit
<1>3. LrExitMeans' /\ LrApart' /\ LrSoFar' /\ LrNext' /\ LrEnds'
  BY <1>1 DEF LrExitMeans, LrApart, LrSoFar, LrNext, LrEnds, LrInJob
<1>4. LrPublished'
  <2>1. \A p \in Lr!Planes, r \in Lr!RowIds : cur_sb_col'[<<p, r>>] = -1
    BY <1>1
  <2> QED BY <2>1, LrSizes DEF LrPublished, Lr!ColIds
<1>5. LrCovered'
  <2>1. \A p \in Lr!Planes, r \in Lr!RowIds : ~(LrNumber(p, r) < 0)
    BY LrJobs, LrSizes
  <2> QED BY <1>1, <2>1 DEF LrCovered
<1> QED BY <1>2, <1>3, <1>4, <1>5 DEF LrInv

\* When all have returned without an error, everything is done.
LEMMA LrComplete ==
    ASSUME LrInv, \A t \in Workers : pc[t] = "returned"
    PROVE  done = Lr!Blocks
<1>1. ~lr_mt_exit
  BY DEF LrInv, LrExitMeans
<1>2. jobs_dequeued = Lr!NumJobs
  BY <1>1, LrSizes DEF LrInv, LrEnds
<1>3. \A p \in Lr!Planes, r \in Lr!RowIds : LrNumber(p, r) < jobs_dequeued
  BY <1>2, LrJobs, LrSizes
<1>4. ASSUME NEW p \in Lr!Planes, NEW r \in Lr!RowIds
      PROVE  <<"back", p, r>> \in done
  <2>1. \A t \in Workers : pc[t] \notin LrInJob
    BY DEF LrInJob
  <2> QED BY <1>1, <1>3, <2>1 DEF LrInv, LrCovered
<1>5. \A p \in Lr!Planes, r \in Lr!RowIds, c \in Lr!ColIds : <<"unit", p, r, c>> \in done
  BY <1>4 DEF LrInv, LrCovered
<1>6. \A b \in Lr!Blocks :
        \/ \E p \in Lr!Planes, r \in Lr!RowIds, c \in Lr!ColIds : b = <<"unit", p, r, c>>
        \/ \E p \in Lr!Planes, r \in Lr!RowIds : b = <<"back", p, r>>
  BY DEF Lr!Blocks
<1>7. \A b \in Lr!Blocks : b \in done
  BY <1>4, <1>5, <1>6
<1> QED BY <1>7 DEF LrInv, LrShapes

\* Joined, the threads of loop restoration report an error or a complete stage.
LEMMA LrJoins ==
    ASSUME LrInv, Lr!Join
    PROVE  /\ LrInv' /\ done' = done /\ outcome = "busy"
           /\ outcome' = "error" \/ (outcome' = "ok" /\ done = Lr!Blocks)
<1>1. /\ \A t \in Workers : pc[t] \in {"returned", "failed"}
      /\ outcome = "busy"
      /\ outcome' = IF \E t \in Workers : pc[t] = "failed" THEN "error" ELSE "ok"
      /\ plane' = [t \in Workers |-> 0] /\ row' = [t \in Workers |-> 0]
      /\ col' = [t \in Workers |-> 0]
      /\ UNCHANGED <<pc, jobs_dequeued, lr_mt_exit, cur_sb_col, released, done>>
  BY DEF Lr!Join, Lr!Zeros, Lr!Workers, Workers
<1>2. LrShapes'
  <2>1. 0 \in Lr!Planes /\ 0 \in Lr!RowIds /\ 0 \in 0..LrCols
    BY LrSizes
  <2>2. /\ plane' \in [Workers -> Lr!Planes] /\ row' \in [Workers -> Lr!RowIds]
        /\ col' \in [Workers -> 0..LrCols]
    BY <1>1, <2>1
  <2> QED BY <1>1, <2>2 DEF LrInv, LrShapes, LrInJob, LrAtUnit
<1>3. LrExitMeans' /\ LrApart' /\ LrSoFar' /\ LrPublished' /\ LrNext' /\ LrCovered' /\ LrEnds'
  BY <1>1 DEF LrInv, LrExitMeans, LrApart, LrSoFar, LrPublished, LrNext, LrCovered, LrEnds, LrInJob
<1>4. outcome' = "ok" => done = Lr!Blocks
  BY <1>1, LrComplete
<1> QED BY <1>1, <1>2, <1>3, <1>4 DEF LrInv

\* Whoever filters or copies finds what that needs, and does it first.
LEMMA LrInOrder ==
    ASSUME LrInv, NEW t \in Workers, LrStep(t)
    PROVE  \/ done' = done
           \/ \E b \in Lr!Blocks \ done : Lr!Needs(b) \subseteq done /\ done' = done \cup {b}
<1> DEFINE p == plane[t]  r == row[t]  c == col[t]
<1>1. p \in Lr!Planes /\ r \in Lr!RowIds /\ c \in Nat
  BY LrSizes DEF LrInv, LrShapes
<1>2. CASE LrFilters(t)
  <2>1. pc[t] = "filter" /\ done' = done \cup {<<"unit", p, r, c>>}
    BY <1>2 DEF LrFilters
  <2>2. c \in Lr!ColIds
    BY <1>1, <2>1, LrSizes DEF LrInv, LrShapes, LrAtUnit, LrInJob, Lr!ColIds
  <2>3. <<"unit", p, r, c>> \notin done
    <3>1. ~(c < LrPast(t))
      BY <1>1, <2>1 DEF LrPast
    <3> QED BY <2>1, <2>2, <3>1 DEF LrInv, LrSoFar, LrInJob
  <2>4. Lr!Needs(<<"unit", p, r, c>>) \subseteq done
    <3>1. Lr!Needs(<<"unit", p, r, c>>) =
            {"unit"} \X {p} \X (IF Lr!Even(r) THEN {} ELSE Lr!Neighbours(r)) \X
            (Lr!ColIds \cap (c..(c + 1)))
      BY DEF Lr!Needs
    <3>2. ASSUME ~Lr!Even(r), NEW q \in Lr!Neighbours(r), NEW x \in Lr!ColIds \cap (c..(c + 1))
          PROVE  <<"unit", p, q, x>> \in done
      <4>1. (q = r - 1 \/ q = r + 1) /\ q \in Lr!RowIds
        BY DEF Lr!Neighbours
      <4>2. LrSeen(t, r - 1) /\ LrSeen(t, r + 1)
        BY <2>1 DEF LrInv, LrNext
      <4> QED BY <3>2, <4>1, <4>2 DEF LrSeen
    <3> HIDE DEF p, r, c
    <3> QED BY <3>1, <3>2
  <2>5. <<"unit", p, r, c>> \in Lr!Blocks
    BY <1>1, <2>2 DEF Lr!Blocks
  <2> QED BY <2>1, <2>3, <2>4, <2>5
<1>3. CASE LrCopies(t) /\ col[t] = LrCols
  <2>1. pc[t] = "copy" /\ done' = done \cup {<<"back", p, r>>}
    BY <1>3 DEF LrCopies
  <2>2. <<"back", p, r>> \notin done
    BY <2>1 DEF LrInv, LrSoFar, LrInJob
  <2>3. \A x \in Lr!ColIds : x < LrPast(t)
    BY <1>3, <2>1, LrSizes DEF LrPast, Lr!ColIds
  <2>4. Lr!Needs(<<"back", p, r>>) \subseteq done
    <3>1. Lr!Needs(<<"back", p, r>>) =
            {"unit"} \X {p} \X ({r} \cup (IF Lr!Even(r) THEN {} ELSE Lr!Neighbours(r))) \X Lr!ColIds
      BY DEF Lr!Needs
    <3>2. \A x \in Lr!ColIds : <<"unit", p, r, x>> \in done
      BY <2>1, <2>3 DEF LrInv, LrSoFar, LrInJob
    <3>3. ~Lr!Even(r) => \A q \in Lr!Neighbours(r), x \in Lr!ColIds : <<"unit", p, q, x>> \in done
      BY <2>1, <2>3 DEF LrInv, LrSoFar, LrInJob
    <3> HIDE DEF p, r, c
    <3> QED BY <3>1, <3>2, <3>3
  <2>5. <<"back", p, r>> \in Lr!Blocks
    BY <1>1 DEF Lr!Blocks
  <2> QED BY <2>1, <2>2, <2>4, <2>5
<1>4. CASE ~LrFilters(t) /\ ~(LrCopies(t) /\ col[t] = LrCols)
  BY <1>4 DEF LrStep, LrWalks, LrReturns, LrTakes, LrWrites, LrCopies, LrFails
<1> QED BY <1>2, <1>3, <1>4

\* The invariant of loop restoration says what is promised of the stage.
LEMMA LrHolds ==
    ASSUME LrInv
    PROVE  Lr!TypeOK /\ Lr!NoUnitsTouch
<1>1. Lr!TypeOK
  BY DEF LrInv, LrShapes, Lr!TypeOK, LrCurs, Lr!Workers, Workers
<1>2. ASSUME NEW t \in Workers, NEW u \in Workers, pc[t] = "filter", pc[u] = "filter",
             plane[t] = plane[u], row[u] \in Lr!Neighbours(row[t]), ~Lr!Even(row[t])
      PROVE  ~(col[u] <= col[t] + 1)
  <2> SUFFICES ASSUME col[u] <= col[t] + 1 PROVE FALSE
    OBVIOUS
  <2>1. /\ col[u] \in Lr!ColIds /\ col[t] \in Nat /\ col[u] \in Nat
        /\ plane[t] \in Lr!Planes /\ row[t] \in Nat /\ row[u] \in Lr!RowIds
    BY <1>2, LrSizes DEF LrInv, LrShapes, LrAtUnit, LrInJob, Lr!ColIds, Lr!RowIds
  <2>2. <<"unit", plane[u], row[u], col[u]>> \notin done
    <3>1. ~(col[u] < LrPast(u))
      BY <1>2, <2>1 DEF LrPast
    <3> QED BY <1>2, <2>1, <3>1 DEF LrInv, LrSoFar, LrInJob
  <2>3. CASE col[u] < col[t]
    <3>1. col[u] < LrPast(t)
      BY <1>2, <2>3 DEF LrPast
    <3> QED BY <1>2, <2>1, <2>2, <3>1 DEF LrInv, LrSoFar, LrInJob
  <2>4. CASE col[u] \in col[t]..(col[t] + 1)
    <3>1. LrSeen(t, row[t] - 1) /\ LrSeen(t, row[t] + 1)
      BY <1>2 DEF LrInv, LrNext
    <3>2. row[u] = row[t] - 1 \/ row[u] = row[t] + 1
      BY <1>2 DEF Lr!Neighbours
    <3> QED BY <1>2, <2>1, <2>2, <2>4, <3>1, <3>2 DEF LrSeen
  <2> QED BY <2>1, <2>3, <2>4
<1>3. ASSUME NEW t \in Workers, NEW u \in Workers, pc[t] = "filter", pc[u] = "filter",
             plane[t] = plane[u], row[u] \in Lr!Neighbours(row[t])
      PROVE  col[u] \notin (col[t] - 1)..(col[t] + 1)
  <2>1. /\ col[t] \in Nat /\ col[u] \in Nat /\ row[t] \in Nat /\ row[u] \in Nat
        /\ row[t] \in Lr!RowIds
    BY LrSizes DEF LrInv, LrShapes, Lr!RowIds
  <2>2. row[u] = row[t] - 1 \/ row[u] = row[t] + 1
    BY <1>3 DEF Lr!Neighbours
  <2>3. row[t] \in Lr!Neighbours(row[u])
    BY <2>1, <2>2 DEF Lr!Neighbours
  <2>4. Lr!Even(row[t]) => ~Lr!Even(row[u])
    BY <2>1, <2>2 DEF Lr!Even
  <2>5. CASE ~Lr!Even(row[t])
    BY <1>2, <1>3, <2>1, <2>5
  <2>6. CASE ~Lr!Even(row[u])
    <3>1. ~(col[t] <= col[u] + 1)
      BY <1>2, <1>3, <2>3, <2>6
    <3> QED BY <2>1, <3>1
  <2> QED BY <2>4, <2>5, <2>6
<1> QED BY <1>1, <1>3 DEF Lr!NoUnitsTouch, Lr!Workers, Workers

-----------------------------------------------------------------------------
\* The loop filter: the queue.

\* The sizes of the planes and their sets.
LEMMA LfSizes ==
    /\ NumWorkers \in Nat \ {0} /\ LfRows \in Nat \ {0} /\ LfCols \in Nat \ {0}
    /\ LfPlanes \in Nat \ {0} /\ MaxErrors \in Nat /\ LfSyncRange \in {1, 2, 4, 8}
    /\ 0 \in Workers /\ 0 \in Lf!Planes /\ 0 \in Lf!RowIds
    /\ LfRows * LfPlanes \in Nat \ {0}
    /\ Lf!NumJobs = LfRows * LfPlanes + LfRows * LfPlanes /\ Lf!NumJobs \in Nat \ {0}
<1>1. /\ NumWorkers \in Nat \ {0} /\ LfRows \in Nat \ {0} /\ LfCols \in Nat \ {0}
      /\ LfPlanes \in Nat \ {0} /\ MaxErrors \in Nat /\ LfSyncRange \in {1, 2, 4, 8}
  BY FrameMtAssumption DEF Lf!LfSyncAssumption
<1>2. LfRows * LfPlanes \in Nat \ {0} /\ 2 * LfRows * LfPlanes = 2 * (LfRows * LfPlanes)
  BY <1>1
<1>3. Lf!NumJobs = LfRows * LfPlanes + LfRows * LfPlanes /\ Lf!NumJobs \in Nat \ {0}
  BY <1>2 DEF Lf!NumJobs
<1> QED BY <1>1, <1>2, <1>3 DEF Workers, Lf!Planes, Lf!RowIds

LfDirections == {"vert", "horz"}
LfColIds == 0..(LfCols - 1)

\* The place of a row of a plane in the queue.
LfNumber(d, p, r) == (IF d = "vert" THEN 0 ELSE LfRows * LfPlanes) + (r * LfPlanes + p)

\* The remainder of a number below twice the divisor.
LEMMA Halves ==
    ASSUME NEW M \in Nat \ {0}, NEW n \in 0..(M + M - 1)
    PROVE  n % M = IF n < M THEN n ELSE n - M
<1> DEFINE q == n \div M  x == n % M
<1>1. M + M = 2 * M
  OBVIOUS
<1>2. \A k \in 0..(2 * M - 1) : /\ k \div M \in 0..(2 - 1) /\ k % M \in 0..(M - 1)
                                /\ (k \div M) * M + (k % M) = k
  BY Grid
<1>3. q \in {0, 1} /\ x \in 0..(M - 1) /\ q * M + x = n
  BY <1>1, <1>2
<1> HIDE DEF q, x
<1>4. CASE q = 0
  <2>1. x = n /\ n < M
    BY <1>3, <1>4
  <2> QED BY <2>1 DEF x
<1>5. CASE q = 1
  <2>1. M + x = n /\ ~(n < M)
    BY <1>3, <1>5
  <2> QED BY <1>3, <2>1 DEF x
<1> QED BY <1>3, <1>4, <1>5

\* Every job is a direction, a plane and a row, and the reverse.
LEMMA LfJobs ==
    /\ \A n \in 0..(Lf!NumJobs - 1) :
        /\ Lf!Job(n)[1] \in LfDirections /\ Lf!Job(n)[2] \in Lf!Planes /\ Lf!Job(n)[3] \in Lf!RowIds
        /\ LfNumber(Lf!Job(n)[1], Lf!Job(n)[2], Lf!Job(n)[3]) = n
    /\ \A d \in LfDirections, p \in Lf!Planes, r \in Lf!RowIds :
        LfNumber(d, p, r) \in 0..(Lf!NumJobs - 1)
    /\ \A d, e \in LfDirections, p, q \in Lf!Planes, r, s \in Lf!RowIds :
        LfNumber(d, p, r) = LfNumber(e, q, s) => d = e /\ p = q /\ r = s
<1> DEFINE M == LfRows * LfPlanes
<1>1. /\ LfRows \in Nat \ {0} /\ LfPlanes \in Nat \ {0} /\ M \in Nat \ {0}
      /\ Lf!NumJobs = M + M
  BY LfSizes
<1>2. /\ \A k \in 0..(M - 1) : /\ k \div LfPlanes \in 0..(LfRows - 1) /\ k % LfPlanes \in 0..(LfPlanes - 1)
                               /\ (k \div LfPlanes) * LfPlanes + (k % LfPlanes) = k
      /\ \A q \in 0..(LfRows - 1), r \in 0..(LfPlanes - 1) : q * LfPlanes + r \in 0..(M - 1)
      /\ \A q, u \in 0..(LfRows - 1), r, v \in 0..(LfPlanes - 1) :
            q * LfPlanes + r = u * LfPlanes + v => q = u /\ r = v
  BY <1>1, Grid
<1>3. \A n \in 0..(M + M - 1) : n % M = IF n < M THEN n ELSE n - M
  <2> HIDE DEF M
  <2> QED BY <1>1, Halves
<1>4. Lf!Planes = 0..(LfPlanes - 1) /\ Lf!RowIds = 0..(LfRows - 1)
  BY DEF Lf!Planes, Lf!RowIds
<1>5. ASSUME NEW n \in 0..(Lf!NumJobs - 1)
      PROVE  /\ Lf!Job(n)[1] \in LfDirections /\ Lf!Job(n)[2] \in Lf!Planes
             /\ Lf!Job(n)[3] \in Lf!RowIds
             /\ LfNumber(Lf!Job(n)[1], Lf!Job(n)[2], Lf!Job(n)[3]) = n
  <2> DEFINE x == n % M  p == x % LfPlanes  r == x \div LfPlanes
             d == IF n < M THEN "vert" ELSE "horz"
  <2>1. Lf!Job(n) = <<d, p, r>>
    BY DEF Lf!Job
  <2>2. x = (IF n < M THEN n ELSE n - M) /\ x \in 0..(M - 1)
    <3> HIDE DEF M
    <3> QED BY <1>1, <1>3
  <2>3. p \in 0..(LfPlanes - 1) /\ r \in 0..(LfRows - 1) /\ r * LfPlanes + p = x
    BY <1>2, <2>2
  <2> HIDE DEF p, r, x, M
  <2>4. LfNumber(d, p, r) = n
    <3>1. LfNumber(d, p, r) = (IF n < M THEN 0 ELSE M) + x
      BY <2>3 DEF LfNumber, M
    <3> QED BY <1>1, <2>2, <3>1
  <2> QED BY <1>4, <2>1, <2>3, <2>4 DEF LfDirections
<1>6. ASSUME NEW d \in LfDirections, NEW p \in Lf!Planes, NEW r \in Lf!RowIds
      PROVE  /\ r * LfPlanes + p \in 0..(M - 1)
             /\ d = "vert" => LfNumber(d, p, r) = r * LfPlanes + p
             /\ d # "vert" => LfNumber(d, p, r) = M + (r * LfPlanes + p)
  <2>1. r * LfPlanes + p \in 0..(M - 1)
    BY <1>2, <1>4
  <2> DEFINE y == r * LfPlanes + p
  <2>2. LfNumber(d, p, r) = (IF d = "vert" THEN 0 ELSE M) + y
    BY DEF LfNumber
  <2> HIDE DEF y, M
  <2>3. y \in 0..(M - 1)
    BY <2>1 DEF y
  <2>4. /\ d = "vert" => LfNumber(d, p, r) = y
        /\ d # "vert" => LfNumber(d, p, r) = M + y
    BY <1>1, <2>2, <2>3
  <2> QED BY <2>3, <2>4 DEF y
<1>7. ASSUME NEW d \in LfDirections, NEW p \in Lf!Planes, NEW r \in Lf!RowIds
      PROVE  LfNumber(d, p, r) \in 0..(Lf!NumJobs - 1)
  <2> DEFINE y == r * LfPlanes + p
  <2>1. /\ y \in 0..(M - 1)
        /\ LfNumber(d, p, r) = y \/ LfNumber(d, p, r) = M + y
    BY <1>6
  <2> HIDE DEF y, M
  <2> QED BY <1>1, <2>1
<1>8. ASSUME NEW d \in LfDirections, NEW p \in Lf!Planes, NEW r \in Lf!RowIds,
             NEW e \in LfDirections, NEW q \in Lf!Planes, NEW s \in Lf!RowIds,
             LfNumber(d, p, r) = LfNumber(e, q, s)
      PROVE  d = e /\ p = q /\ r = s
  <2> DEFINE y == r * LfPlanes + p  z == s * LfPlanes + q
  <2>1. /\ y \in 0..(M - 1) /\ z \in 0..(M - 1)
        /\ d = "vert" => LfNumber(d, p, r) = y
        /\ d # "vert" => LfNumber(d, p, r) = M + y
        /\ e = "vert" => LfNumber(e, q, s) = z
        /\ e # "vert" => LfNumber(e, q, s) = M + z
    BY <1>6
  <2>2. d = e /\ y = z
    <3> HIDE DEF y, z, M
    <3>1. M \in Nat /\ y \in Nat /\ z \in Nat /\ y < M /\ z < M
      BY <1>1, <2>1
    <3> QED BY <1>8, <2>1, <3>1 DEF LfDirections
  <2> QED BY <1>2, <1>4, <2>2
<1> QED BY <1>5, <1>7, <1>8

-----------------------------------------------------------------------------
\* The loop filter: the invariant.

LfWorking == {"vert", "write", "read_above", "asleep_above", "read_own", "asleep_own", "check", "horz"}
LfReleases == LfRows * LfPlanes
LfCurs == -1..Lf!AllCols
LfDir(t) == IF pc[t] \in {"vert", "write"} THEN "vert" ELSE "horz"

LfShapes ==
    /\ pc \in [Workers -> Lf!Places]
    /\ plane \in [Workers -> Lf!Planes] /\ row \in [Workers -> Lf!RowIds]
    /\ col \in [Workers -> 0..LfCols]
    /\ \A t \in Workers : pc[t] \in LfWorking => col[t] < LfCols
    /\ jobs_dequeued \in 0..Lf!NumJobs /\ lf_mt_exit \in BOOLEAN
    /\ cur_sb_col \in [Lf!Planes \X Lf!RowIds -> LfCurs]
    /\ released \in [Workers -> 0..LfReleases]
    /\ \A t \in Workers : pc[t] = "release" => released[t] < LfReleases
    /\ \A t \in Workers : pc[t] \in {"get", "close"} \cup LfWorking => released[t] = 0
    /\ done \subseteq Lf!Blocks /\ outcome \in {"busy", "ok", "error"}

LfExitMeans == lf_mt_exit <=> \E t \in Workers : pc[t] \in {"release", "failed"}

\* A row that was handed out is one worker's, and nothing is done in another.
LfApart ==
    /\ \A t \in Workers : pc[t] \in LfWorking => LfNumber(LfDir(t), plane[t], row[t]) < jobs_dequeued
    /\ \A t, u \in Workers : t # u /\ pc[t] \in LfWorking /\ pc[u] \in LfWorking =>
            <<LfDir(t), plane[t], row[t]>> # <<LfDir(u), plane[u], row[u]>>
    /\ \A b \in done : LfNumber(b[1], b[2], b[3]) < jobs_dequeued

\* The columns a worker has filtered.
LfPast(t) == IF pc[t] = "write" THEN col[t] + 1 ELSE col[t]
LfSoFar ==
    \A t \in Workers : pc[t] \in LfWorking => \A c \in LfColIds :
        <<LfDir(t), plane[t], row[t], c>> \in done <=> c < LfPast(t)

LfPublished ==
    ~lf_mt_exit => \A p \in Lf!Planes, r \in Lf!RowIds, c \in LfColIds :
        c <= cur_sb_col[<<p, r>>] => <<"vert", p, r, c>> \in done

\* What a worker has seen of a row at the last column it had to look at.
LfBase(t) == col[t] - (col[t] % LfSyncRange)
LfOnTheWay(t) == col[t] % LfSyncRange # 0
LfSeen(t, q) ==
    q \in Lf!RowIds =>
        \A c \in LfColIds : c <= LfBase(t) + LfSyncRange => <<"vert", plane[t], q, c>> \in done
LfLater == {"read_above", "asleep_above", "read_own", "asleep_own"}
LfNext ==
    \A t \in Workers :
        /\ (/\ ~lf_mt_exit
            /\ \/ pc[t] \in {"read_own", "asleep_own", "check"}
               \/ pc[t] \in {"read_above", "asleep_above"} /\ LfOnTheWay(t)) => LfSeen(t, row[t] - 1)
        /\ (/\ ~lf_mt_exit
            /\ pc[t] = "check" \/ (pc[t] \in LfLater /\ LfOnTheWay(t))) => LfSeen(t, row[t])
        /\ pc[t] = "horz" => LfSeen(t, row[t] - 1) /\ LfSeen(t, row[t])

\* Until a worker fails, a row that was handed out is done or somebody's.
LfCovered ==
    \/ lf_mt_exit \/ \E t \in Workers : pc[t] = "close"
    \/ \A d \in LfDirections, p \in Lf!Planes, r \in Lf!RowIds : LfNumber(d, p, r) < jobs_dequeued =>
        \/ \A c \in LfColIds : <<d, p, r, c>> \in done
        \/ \E t \in Workers : pc[t] \in LfWorking /\ LfDir(t) = d /\ plane[t] = p /\ row[t] = r

LfEnds ==
    /\ ~lf_mt_exit /\ (\E t \in Workers : pc[t] = "returned") => jobs_dequeued = Lf!NumJobs
    /\ outcome # "busy" => \A t \in Workers : pc[t] \in {"returned", "failed"}

LfInv ==
    /\ LfShapes /\ LfExitMeans /\ LfApart /\ LfSoFar /\ LfPublished /\ LfNext
    /\ LfCovered /\ LfEnds

-----------------------------------------------------------------------------
\* The loop filter: its steps by their kinds.

LfStirs(u) ==
    \/ Stirs(pc[u], pc'[u], "asleep_above", "read_above")
    \/ Stirs(pc[u], pc'[u], "asleep_own", "read_own")
LfOthersStay(t) ==
    \A u \in Workers \ {t} :
        plane'[u] = plane[u] /\ row'[u] = row[u] /\ col'[u] = col[u] /\ LfStirs(u)

LfHas(t, r) == Lf!RowIs(plane[t], r, col[t])
LfRoute(t) ==
    \/ pc[t] = "read_above" /\ pc'[t] = "read_own" /\ LfHas(t, row[t] - 1)
    \/ pc[t] = "read_above" /\ pc'[t] = "asleep_above"
    \/ pc[t] = "asleep_above" /\ pc'[t] = "read_above"
    \/ pc[t] = "read_own" /\ pc'[t] = "check" /\ LfHas(t, row[t])
    \/ pc[t] = "read_own" /\ pc'[t] = "asleep_own"
    \/ pc[t] = "asleep_own" /\ pc'[t] = "read_own"
    \/ pc[t] = "check" /\ pc'[t] = "get" /\ lf_mt_exit
    \/ pc[t] = "check" /\ pc'[t] = "horz" /\ ~(lf_mt_exit /\ NumWorkers > 1)
    \/ pc[t] \in {"vert", "horz"} /\ pc'[t] = "close"

LfWalks(t) ==
    /\ LfOthersStay(t) /\ LfRoute(t)
    /\ UNCHANGED <<plane, row, col, jobs_dequeued, lf_mt_exit, cur_sb_col, done, outcome>>

LfReturns(t) ==
    /\ LfOthersStay(t) /\ pc[t] = "get" /\ pc'[t] = "returned"
    /\ lf_mt_exit \/ jobs_dequeued = Lf!NumJobs
    /\ UNCHANGED <<plane, row, jobs_dequeued, lf_mt_exit, cur_sb_col, done, outcome>>

LfTakes(t) ==
    /\ LfOthersStay(t) /\ pc[t] = "get" /\ pc'[t] \in {"vert", "read_above"}
    /\ ~lf_mt_exit /\ jobs_dequeued < Lf!NumJobs /\ jobs_dequeued' = jobs_dequeued + 1
    /\ LfNumber(LfDir(t)', plane'[t], row'[t]) = jobs_dequeued /\ col'[t] = 0
    /\ UNCHANGED <<lf_mt_exit, cur_sb_col, done, outcome>>

LfFiltersVert(t) ==
    /\ LfOthersStay(t) /\ pc[t] = "vert" /\ pc'[t] = "write"
    /\ done' = done \cup {<<"vert", plane[t], row[t], col[t]>>}
    /\ UNCHANGED <<plane, row, col, jobs_dequeued, lf_mt_exit, cur_sb_col, outcome>>

LfWrites(t) ==
    /\ LfOthersStay(t) /\ pc[t] = "write" /\ col'[t] = col[t] + 1
    /\ pc'[t] = IF col[t] = LfCols - 1 THEN "get" ELSE "vert"
    /\ \A x \in Lf!Planes \X Lf!RowIds :
        \/ cur_sb_col'[x] = cur_sb_col[x]
        \/ x = <<plane[t], row[t]>> /\ (cur_sb_col'[x] = col[t] \/ col[t] = LfCols - 1)
    /\ UNCHANGED <<plane, row, jobs_dequeued, lf_mt_exit, done, outcome>>

LfFiltersHorz(t) ==
    /\ LfOthersStay(t) /\ pc[t] = "horz" /\ col'[t] = col[t] + 1
    /\ pc'[t] = IF col[t] = LfCols - 1 THEN "get" ELSE "read_above"
    /\ done' = done \cup {<<"horz", plane[t], row[t], col[t]>>}
    /\ UNCHANGED <<plane, row, jobs_dequeued, lf_mt_exit, cur_sb_col, outcome>>

LfFails(t) ==
    /\ LfOthersStay(t) /\ lf_mt_exit'
    /\ \/ pc[t] = "close" /\ pc'[t] = "release"
       \/ pc[t] = "release" /\ pc'[t] \in {"release", "failed"}
    /\ UNCHANGED <<plane, row, col, jobs_dequeued, done, outcome>>

LfStep(t) ==
    \/ LfWalks(t) \/ LfReturns(t) \/ LfTakes(t) \/ LfFiltersVert(t) \/ LfWrites(t)
    \/ LfFiltersHorz(t) \/ LfFails(t)

\* sync_write: the worker goes on, those that wait for the row wake up.
LEMMA LfPublishes ==
    ASSUME LfShapes, NEW t \in Workers, NEW p \in Lf!Planes, NEW r \in Lf!RowIds, NEW cur \in LfCurs,
           NEW w \in Lf!Places, Lf!Publish(t, p, r, cur, w)
    PROVE  /\ pc' \in [Workers -> Lf!Places] /\ pc'[t] = w
           /\ \A u \in Workers \ {t} : LfStirs(u)
           /\ cur_sb_col' \in [Lf!Planes \X Lf!RowIds -> LfCurs]
           /\ \A x \in Lf!Planes \X Lf!RowIds :
                cur_sb_col'[x] = cur_sb_col[x] \/ (x = <<p, r>> /\ cur_sb_col'[x] = cur)
<1>1. /\ pc \in [Workers -> Lf!Places]
      /\ cur_sb_col \in [Lf!Planes \X Lf!RowIds -> LfCurs]
  BY DEF LfShapes
<1>2. /\ cur_sb_col' = [cur_sb_col EXCEPT ![<<p, r>>] =
                            IF cur > cur_sb_col[<<p, r>>] THEN cur ELSE cur_sb_col[<<p, r>>]]
      /\ pc' = [u \in Workers |-> IF u = t THEN w
                                  ELSE IF Lf!Asleep(u, p, r) THEN Lf!Woken(pc[u]) ELSE pc[u]]
  BY DEF Lf!Publish, Lf!Broadcast, Lf!Workers, Workers
<1>3. \A u \in Workers : Lf!Asleep(u, p, r) =>
        /\ pc[u] \in {"asleep_above", "asleep_own"}
        /\ pc[u] = "asleep_above" => Lf!Woken(pc[u]) = "read_above"
        /\ pc[u] = "asleep_own" => Lf!Woken(pc[u]) = "read_own"
  BY DEF Lf!Asleep, Lf!Woken
<1>4. /\ pc'[t] = w
      /\ \A u \in Workers \ {t} : LfStirs(u)
  BY <1>2, <1>3 DEF LfStirs, Stirs
<1>5. pc' \in [Workers -> Lf!Places]
  <2>1. \A u \in Workers : pc'[u] \in Lf!Places
    BY <1>1, <1>4 DEF LfStirs, Stirs, Lf!Places
  <2> QED BY <1>2, <2>1
<1>6. \A x \in Lf!Planes \X Lf!RowIds :
        cur_sb_col'[x] = cur_sb_col[x] \/ (x = <<p, r>> /\ cur_sb_col'[x] = cur)
  BY <1>1, <1>2
<1>7. cur_sb_col' \in [Lf!Planes \X Lf!RowIds -> LfCurs]
  BY <1>1, <1>2, <1>6
<1> QED BY <1>4, <1>5, <1>6, <1>7

\* Every step of a worker is of one of these kinds, and keeps the shapes.
LEMMA LfStepKinds ==
    ASSUME LfShapes, LfExitMeans, NEW t \in Workers,
           Lf!Step(t) \/ Lf!Throw(t) \/ Lf!Spurious(t)
    PROVE  LfShapes' /\ LfStep(t)
<1> DEFINE Rest == UNCHANGED <<plane, row, jobs_dequeued, lf_mt_exit, cur_sb_col, done, released, outcome>>
<1>1. /\ pc \in [Workers -> Lf!Places]
      /\ plane \in [Workers -> Lf!Planes] /\ row \in [Workers -> Lf!RowIds]
      /\ col \in [Workers -> 0..LfCols] /\ jobs_dequeued \in 0..Lf!NumJobs /\ lf_mt_exit \in BOOLEAN
      /\ cur_sb_col \in [Lf!Planes \X Lf!RowIds -> LfCurs]
      /\ released \in [Workers -> 0..LfReleases] /\ done \subseteq Lf!Blocks
      /\ outcome \in {"busy", "ok", "error"}
      /\ \A u \in Workers : pc[u] \in LfWorking => col[u] < LfCols
      /\ LfCols \in Nat \ {0} /\ LfRows \in Nat \ {0} /\ LfPlanes \in Nat \ {0}
      /\ Lf!NumJobs \in Nat \ {0} /\ LfReleases \in Nat \ {0}
  BY LfSizes DEF LfShapes, LfReleases
<1>2. ASSUME NEW w \in Lf!Places, Lf!GoesTo(t, w)
      PROVE  /\ pc' \in [Workers -> Lf!Places] /\ pc'[t] = w
             /\ \A u \in Workers \ {t} : pc'[u] = pc[u] /\ LfStirs(u)
  BY <1>1, <1>2 DEF Lf!GoesTo, LfStirs, Stirs
<1>3. ASSUME NEW w \in {"get", "close"} \cup LfWorking, Lf!GoesTo(t, w), Rest, col' = col,
             pc[t] \in LfWorking
      PROVE  LfShapes' /\ LfOthersStay(t) /\ pc'[t] = w
  <2>1. w \in Lf!Places /\ w # "release"
    BY DEF LfWorking, Lf!Places
  <2>2. /\ pc' \in [Workers -> Lf!Places] /\ pc'[t] = w
        /\ \A u \in Workers \ {t} : pc'[u] = pc[u] /\ LfStirs(u)
    BY <1>2, <1>3, <2>1
  <2> QED BY <1>3, <2>1, <2>2 DEF LfShapes, LfOthersStay
<1>4. CASE Lf!GetJob(t)
  <2>1. /\ pc[t] = "get" /\ col' = [col EXCEPT ![t] = 0]
        /\ UNCHANGED <<lf_mt_exit, cur_sb_col, released, done, outcome>>
    BY <1>4 DEF Lf!GetJob
  <2>2. col' \in [Workers -> 0..LfCols] /\ col'[t] = 0 /\ \A u \in Workers \ {t} : col'[u] = col[u]
    BY <1>1, <2>1
  <2>3. CASE ~lf_mt_exit /\ jobs_dequeued < Lf!NumJobs
    <3> DEFINE d == Lf!Job(jobs_dequeued)[1]  p == Lf!Job(jobs_dequeued)[2]
               r == Lf!Job(jobs_dequeued)[3]  w == Lf!Begin(d)
    <3>1. /\ plane' = [plane EXCEPT ![t] = p] /\ row' = [row EXCEPT ![t] = r]
          /\ jobs_dequeued' = jobs_dequeued + 1 /\ Lf!GoesTo(t, w)
      BY <1>4, <2>3 DEF Lf!GetJob
    <3>2. d \in LfDirections /\ p \in Lf!Planes /\ r \in Lf!RowIds /\ LfNumber(d, p, r) = jobs_dequeued
      <4>1. jobs_dequeued \in 0..(Lf!NumJobs - 1)
        BY <1>1, <2>3
      <4> QED BY <4>1, LfJobs
    <3>3. \/ d = "vert" /\ w = "vert"
          \/ d = "horz" /\ w = "read_above"
      BY <3>2 DEF LfDirections, Lf!Begin
    <3> HIDE DEF d, p, r, w
    <3>4. /\ pc' \in [Workers -> Lf!Places] /\ pc'[t] = w
          /\ \A u \in Workers \ {t} : pc'[u] = pc[u] /\ LfStirs(u)
      BY <1>2, <3>1, <3>3 DEF Lf!Places
    <3>5. /\ plane' \in [Workers -> Lf!Planes] /\ row' \in [Workers -> Lf!RowIds]
          /\ plane'[t] = p /\ row'[t] = r
          /\ \A u \in Workers \ {t} : plane'[u] = plane[u] /\ row'[u] = row[u]
      BY <1>1, <3>1, <3>2
    <3>6. LfShapes'
      <4>1. jobs_dequeued' \in 0..Lf!NumJobs
        BY <1>1, <2>3, <3>1
      <4>2. \A u \in Workers : pc'[u] \in LfWorking => col'[u] < LfCols
        BY <1>1, <2>2, <3>4
      <4> QED BY <1>1, <2>1, <2>2, <3>3, <3>4, <3>5, <4>1, <4>2 DEF LfShapes, LfWorking
    <3>7. LfDir(t)' = d
      BY <3>3, <3>4 DEF LfDir
    <3> QED BY <2>1, <2>2, <2>3, <3>1, <3>2, <3>3, <3>4, <3>5, <3>6, <3>7
            DEF LfStep, LfTakes, LfOthersStay
  <2>4. CASE ~(~lf_mt_exit /\ jobs_dequeued < Lf!NumJobs)
    <3>1. Lf!GoesTo(t, "returned") /\ UNCHANGED <<plane, row, jobs_dequeued>>
      BY <1>4, <2>4 DEF Lf!GetJob
    <3>2. /\ pc' \in [Workers -> Lf!Places] /\ pc'[t] = "returned"
          /\ \A u \in Workers \ {t} : pc'[u] = pc[u] /\ LfStirs(u)
      BY <1>2, <3>1 DEF Lf!Places
    <3>3. lf_mt_exit \/ jobs_dequeued = Lf!NumJobs
      BY <1>1, <2>4
    <3>4. LfShapes'
      BY <1>1, <2>1, <2>2, <3>1, <3>2 DEF LfShapes, LfWorking
    <3> QED BY <2>1, <2>2, <3>1, <3>2, <3>3, <3>4 DEF LfStep, LfReturns, LfOthersStay
  <2> QED BY <2>3, <2>4
<1>5. CASE Lf!ReadAbove(t)
  <2> DEFINE has == LfHas(t, row[t] - 1)  w == IF has THEN "read_own" ELSE "asleep_above"
  <2>1. pc[t] = "read_above" /\ Lf!GoesTo(t, w) /\ Rest /\ col' = col
    BY <1>5 DEF Lf!ReadAbove, LfHas, Lf!place
  <2>2. w \in {"get", "close"} \cup LfWorking /\ pc[t] \in LfWorking
    BY <2>1 DEF LfWorking
  <2>3. LfShapes' /\ LfOthersStay(t) /\ pc'[t] = w
    <3> HIDE DEF w
    <3> QED BY <1>3, <2>1, <2>2
  <2> QED BY <2>1, <2>3 DEF LfStep, LfWalks, LfRoute
<1>6. CASE Lf!ReadOwn(t)
  <2> DEFINE has == LfHas(t, row[t])  w == IF has THEN "check" ELSE "asleep_own"
  <2>1. pc[t] = "read_own" /\ Lf!GoesTo(t, w) /\ Rest /\ col' = col
    BY <1>6 DEF Lf!ReadOwn, LfHas, Lf!place
  <2>2. w \in {"get", "close"} \cup LfWorking /\ pc[t] \in LfWorking
    BY <2>1 DEF LfWorking
  <2>3. LfShapes' /\ LfOthersStay(t) /\ pc'[t] = w
    <3> HIDE DEF w
    <3> QED BY <1>3, <2>1, <2>2
  <2> QED BY <2>1, <2>3 DEF LfStep, LfWalks, LfRoute
<1>7. CASE Lf!CheckExit(t)
  <2> DEFINE w == IF lf_mt_exit /\ NumWorkers > 1 THEN "get" ELSE "horz"
  <2>1. pc[t] = "check" /\ Lf!GoesTo(t, w) /\ Rest /\ col' = col
    BY <1>7 DEF Lf!CheckExit, Lf!place
  <2>2. w \in {"get", "close"} \cup LfWorking /\ pc[t] \in LfWorking
    BY <2>1 DEF LfWorking
  <2>3. LfShapes' /\ LfOthersStay(t) /\ pc'[t] = w
    <3> HIDE DEF w
    <3> QED BY <1>3, <2>1, <2>2
  <2> QED BY <2>1, <2>3 DEF LfStep, LfWalks, LfRoute
<1>8. CASE Lf!FilterVert(t)
  <2>1. /\ pc[t] = "vert" /\ Lf!GoesTo(t, "write")
        /\ done' = done \cup {<<"vert", plane[t], row[t], col[t]>>}
        /\ UNCHANGED <<plane, row, col, jobs_dequeued, lf_mt_exit, cur_sb_col, released, outcome>>
    BY <1>8 DEF Lf!FilterVert, Lf!place
  <2>2. /\ pc' \in [Workers -> Lf!Places] /\ pc'[t] = "write"
        /\ \A u \in Workers \ {t} : pc'[u] = pc[u] /\ LfStirs(u)
    BY <1>2, <2>1 DEF Lf!Places
  <2>3. done' \subseteq Lf!Blocks
    <3>1. col[t] \in 0..(LfCols - 1)
      BY <1>1, <2>1 DEF LfWorking
    <3> QED BY <1>1, <2>1, <3>1 DEF Lf!Blocks
  <2>4. LfShapes'
    BY <1>1, <2>1, <2>2, <2>3 DEF LfShapes, LfWorking
  <2> QED BY <2>1, <2>2, <2>4 DEF LfStep, LfFiltersVert, LfOthersStay
<1>9. CASE Lf!Write(t)
  <2> DEFINE last == col[t] = LfCols - 1  w == IF last THEN "get" ELSE "vert"
             cur == IF last THEN Lf!AllCols ELSE col[t]
  <2>1. /\ pc[t] = "write" /\ col' = [col EXCEPT ![t] = col[t] + 1]
        /\ UNCHANGED <<plane, row, jobs_dequeued, lf_mt_exit, released, done, outcome>>
        /\ \/ Lf!Publish(t, plane[t], row[t], cur, w)
           \/ Lf!GoesTo(t, w) /\ UNCHANGED cur_sb_col
    BY <1>9 DEF Lf!Write, Lf!place
  <2>2. col[t] < LfCols /\ col[t] \in Nat
    BY <1>1, <2>1 DEF LfWorking
  <2>3. /\ col' \in [Workers -> 0..LfCols] /\ col'[t] = col[t] + 1
        /\ \A u \in Workers \ {t} : col'[u] = col[u]
    BY <1>1, <2>1, <2>2
  <2>4. w \in Lf!Places /\ cur \in LfCurs
    BY <1>1, <2>2, LfSizes DEF Lf!Places, LfCurs, Lf!AllCols
  <2>5. /\ pc' \in [Workers -> Lf!Places] /\ pc'[t] = w
        /\ \A u \in Workers \ {t} : LfStirs(u)
        /\ cur_sb_col' \in [Lf!Planes \X Lf!RowIds -> LfCurs]
        /\ \A x \in Lf!Planes \X Lf!RowIds :
            cur_sb_col'[x] = cur_sb_col[x] \/ (x = <<plane[t], row[t]>> /\ cur_sb_col'[x] = cur)
    <3> HIDE DEF w, cur
    <3>1. CASE Lf!Publish(t, plane[t], row[t], cur, w)
      BY <1>1, <2>4, <3>1, LfPublishes
    <3>2. CASE Lf!GoesTo(t, w) /\ UNCHANGED cur_sb_col
      BY <1>1, <1>2, <2>4, <3>2
    <3> QED BY <2>1, <3>1, <3>2
  <2>6. LfShapes'
    <3>1. \A u \in Workers : pc'[u] \in LfWorking => col'[u] < LfCols
      <4>1. pc'[t] \in LfWorking => col'[t] < LfCols
        BY <1>1, <2>2, <2>3, <2>5 DEF LfWorking
      <4>2. \A u \in Workers \ {t} : pc'[u] \in LfWorking => pc[u] \in LfWorking
        BY <2>5 DEF LfWorking, LfStirs, Stirs
      <4> QED BY <1>1, <2>3, <4>1, <4>2
    <3>2. \A u \in Workers : pc'[u] = "release" => pc[u] = "release"
      BY <2>5 DEF LfStirs, Stirs
    <3>3. \A u \in Workers : pc'[u] \in {"get", "close"} \cup LfWorking =>
                                pc[u] \in {"get", "close"} \cup LfWorking
      BY <2>1, <2>5 DEF LfStirs, Stirs, LfWorking
    <3> QED BY <1>1, <2>1, <2>3, <2>5, <3>1, <3>2, <3>3 DEF LfShapes
  <2>7. \A x \in Lf!Planes \X Lf!RowIds :
            \/ cur_sb_col'[x] = cur_sb_col[x]
            \/ x = <<plane[t], row[t]>> /\ (cur_sb_col'[x] = col[t] \/ col[t] = LfCols - 1)
    BY <2>5
  <2> QED BY <2>1, <2>3, <2>5, <2>6, <2>7 DEF LfStep, LfWrites, LfOthersStay
<1>10. CASE Lf!FilterHorz(t)
  <2> DEFINE w == IF col[t] = LfCols - 1 THEN "get" ELSE "read_above"
  <2>1. /\ pc[t] = "horz" /\ Lf!GoesTo(t, w)
        /\ done' = done \cup {<<"horz", plane[t], row[t], col[t]>>}
        /\ col' = [col EXCEPT ![t] = col[t] + 1]
        /\ UNCHANGED <<plane, row, jobs_dequeued, lf_mt_exit, cur_sb_col, released, outcome>>
    BY <1>10 DEF Lf!FilterHorz, Lf!place
  <2>2. w \in Lf!Places /\ w \in {"get"} \cup LfWorking
    BY DEF Lf!Places, LfWorking
  <2>3. /\ pc' \in [Workers -> Lf!Places] /\ pc'[t] = w
        /\ \A u \in Workers \ {t} : pc'[u] = pc[u] /\ LfStirs(u)
    <3> HIDE DEF w
    <3> QED BY <1>2, <2>1, <2>2
  <2>4. col[t] \in 0..(LfCols - 1) /\ done' \subseteq Lf!Blocks
    <3>1. col[t] \in 0..(LfCols - 1)
      BY <1>1, <2>1 DEF LfWorking
    <3> QED BY <1>1, <2>1, <3>1 DEF Lf!Blocks
  <2>5. /\ col' \in [Workers -> 0..LfCols] /\ col'[t] = col[t] + 1
        /\ \A u \in Workers \ {t} : col'[u] = col[u]
    BY <1>1, <2>1, <2>4
  <2>6. LfShapes'
    <3>1. \A u \in Workers : pc'[u] \in LfWorking => col'[u] < LfCols
      <4>1. pc'[t] \in LfWorking => col'[t] < LfCols
        BY <1>1, <2>3, <2>4, <2>5 DEF LfWorking
      <4> QED BY <1>1, <2>3, <2>5, <4>1
    <3>2. pc[t] \in LfWorking /\ pc'[t] # "release"
      BY <2>1, <2>3 DEF LfWorking
    <3> QED BY <1>1, <2>1, <2>3, <2>4, <2>5, <3>1, <3>2 DEF LfShapes
  <2> QED BY <2>1, <2>3, <2>5, <2>6 DEF LfStep, LfFiltersHorz, LfOthersStay
<1>11. CASE Lf!CloseQueue(t)
  <2>1. /\ pc[t] = "close" /\ lf_mt_exit' = TRUE /\ Lf!GoesTo(t, "release")
        /\ UNCHANGED <<plane, row, col, jobs_dequeued, cur_sb_col, released, done, outcome>>
    BY <1>11 DEF Lf!CloseQueue, Lf!place
  <2>2. /\ pc' \in [Workers -> Lf!Places] /\ pc'[t] = "release"
        /\ \A u \in Workers \ {t} : pc'[u] = pc[u] /\ LfStirs(u)
    BY <1>2, <2>1 DEF Lf!Places
  <2>3. released[t] = 0
    BY <2>1 DEF LfShapes
  <2>4. LfShapes'
    BY <1>1, <2>1, <2>2, <2>3 DEF LfShapes, LfWorking
  <2> QED BY <2>1, <2>2, <2>4 DEF LfStep, LfFails, LfOthersStay
<1>12. CASE Lf!Release(t)
  <2> DEFINE n == released[t]  w == IF n + 1 = LfReleases THEN "failed" ELSE "release"
  <2>1. /\ pc[t] = "release" /\ Lf!Publish(t, n % LfPlanes, n \div LfPlanes, Lf!AllCols, w)
        /\ released' = [released EXCEPT ![t] = n + 1]
        /\ UNCHANGED <<plane, row, col, jobs_dequeued, lf_mt_exit, done, outcome>>
    BY <1>12 DEF Lf!Release, Lf!place, LfReleases
  <2>2. n \in 0..(LfReleases - 1)
    BY <1>1, <2>1 DEF LfShapes
  <2>3. w \in Lf!Places /\ Lf!AllCols \in LfCurs
    BY <1>1, LfSizes DEF Lf!Places, LfCurs, Lf!AllCols
  <2>4. /\ pc' \in [Workers -> Lf!Places] /\ pc'[t] = w
        /\ \A u \in Workers \ {t} : LfStirs(u)
        /\ cur_sb_col' \in [Lf!Planes \X Lf!RowIds -> LfCurs]
    <3> DEFINE p == n % LfPlanes  r == n \div LfPlanes  cur == Lf!AllCols
    <3>1. p \in Lf!Planes /\ r \in Lf!RowIds
      <4>1. \A k \in 0..(LfRows * LfPlanes - 1) :
                k \div LfPlanes \in 0..(LfRows - 1) /\ k % LfPlanes \in 0..(LfPlanes - 1)
        BY <1>1, Grid
      <4> QED BY <2>2, <4>1 DEF LfReleases, Lf!Planes, Lf!RowIds
    <3>2. cur \in LfCurs /\ Lf!Publish(t, p, r, cur, w)
      BY <2>1, <2>3
    <3> HIDE DEF n, w, p, r, cur
    <3> QED BY <1>1, <2>3, <3>1, <3>2, LfPublishes
  <2>5. /\ released' \in [Workers -> 0..LfReleases] /\ released'[t] = n + 1
        /\ \A u \in Workers \ {t} : released'[u] = released[u]
    BY <1>1, <2>1, <2>2
  <2>6. LfShapes'
    <3>1. \A u \in Workers : pc'[u] \in LfWorking => pc[u] \in LfWorking
      BY <2>4 DEF LfWorking, LfStirs, Stirs
    <3>2. \A u \in Workers : pc'[u] = "release" => released'[u] < LfReleases
      BY <1>1, <2>2, <2>4, <2>5 DEF LfShapes, LfStirs, Stirs
    <3>3. \A u \in Workers : pc'[u] \in {"get", "close"} \cup LfWorking => released'[u] = 0
      BY <2>4, <2>5 DEF LfShapes, LfStirs, Stirs, LfWorking
    <3> QED BY <1>1, <2>1, <2>4, <2>5, <3>1, <3>2, <3>3 DEF LfShapes
  <2>7. lf_mt_exit
    BY <2>1 DEF LfExitMeans
  <2> QED BY <2>1, <2>4, <2>6, <2>7 DEF LfStep, LfFails, LfOthersStay
<1>13. CASE Lf!Throw(t)
  <2>1. pc[t] \in {"vert", "horz"} /\ Lf!GoesTo(t, "close") /\ Rest /\ col' = col
    BY <1>13 DEF Lf!Throw, Lf!place
  <2>2. LfShapes' /\ LfOthersStay(t) /\ pc'[t] = "close"
    BY <1>3, <2>1 DEF LfWorking
  <2> QED BY <2>1, <2>2 DEF LfStep, LfWalks, LfRoute
<1>14. CASE Lf!Spurious(t)
  <2> DEFINE w == Lf!Woken(pc[t])
  <2>1. /\ pc[t] \in {"asleep_above", "asleep_own"} /\ Lf!GoesTo(t, w) /\ Rest /\ col' = col
    BY <1>14 DEF Lf!Spurious, Lf!place
  <2>2. \/ pc[t] = "asleep_above" /\ w = "read_above"
        \/ pc[t] = "asleep_own" /\ w = "read_own"
    BY <2>1 DEF Lf!Woken
  <2>3. w \in {"get", "close"} \cup LfWorking /\ pc[t] \in LfWorking
    BY <2>1, <2>2 DEF LfWorking
  <2>4. LfShapes' /\ LfOthersStay(t) /\ pc'[t] = w
    <3> HIDE DEF w
    <3> QED BY <1>3, <2>1, <2>3
  <2> QED BY <2>1, <2>2, <2>4 DEF LfStep, LfWalks, LfRoute
<1> QED BY <1>4, <1>5, <1>6, <1>7, <1>8, <1>9, <1>10, <1>11, <1>12, <1>13, <1>14 DEF Lf!Step

-----------------------------------------------------------------------------
\* The loop filter: each part of the invariant is kept.

\* A step of a thread of the loop filter keeps LfExitMeans.
LEMMA LfExitMeansKept ==
    ASSUME LfExitMeans, NEW t \in Workers, LfStep(t)
    PROVE  LfExitMeans'
<1>1. \A u \in Workers \ {t} : pc'[u] \in {"release", "failed"} <=> pc[u] \in {"release", "failed"}
  BY DEF LfStep, LfWalks, LfReturns, LfTakes, LfFiltersVert, LfWrites, LfFiltersHorz, LfFails,
         LfOthersStay, LfStirs, Stirs
<1>2. CASE LfFails(t)
  BY <1>1, <1>2 DEF LfFails, LfExitMeans
<1>3. CASE ~LfFails(t)
  <2>1. /\ lf_mt_exit' = lf_mt_exit
        /\ pc[t] \notin {"release", "failed"} /\ pc'[t] \notin {"release", "failed"}
    BY <1>3 DEF LfStep, LfWalks, LfRoute, LfReturns, LfTakes, LfFiltersVert, LfWrites, LfFiltersHorz
  <2> QED BY <1>1, <2>1 DEF LfExitMeans
<1> QED BY <1>2, <1>3

\* What a step leaves of a worker that does not take it.
LEMMA LfOthers ==
    ASSUME NEW t \in Workers, LfStep(t), NEW u \in Workers \ {t}
    PROVE  /\ plane'[u] = plane[u] /\ row'[u] = row[u] /\ col'[u] = col[u]
           /\ pc'[u] \in LfWorking <=> pc[u] \in LfWorking
           /\ \A where \in {"get", "vert", "write", "check", "horz", "close", "release", "returned",
                            "failed"} : pc'[u] = where <=> pc[u] = where
           /\ pc'[u] \in {"read_above", "asleep_above"} <=> pc[u] \in {"read_above", "asleep_above"}
           /\ pc'[u] \in {"read_own", "asleep_own"} <=> pc[u] \in {"read_own", "asleep_own"}
           /\ LfDir(u)' = LfDir(u)
<1>1. /\ plane'[u] = plane[u] /\ row'[u] = row[u] /\ col'[u] = col[u] /\ LfStirs(u)
  BY DEF LfStep, LfWalks, LfReturns, LfTakes, LfFiltersVert, LfWrites, LfFiltersHorz, LfFails,
         LfOthersStay
<1>2. \A where \in {"get", "vert", "write", "check", "horz", "close", "release", "returned",
                    "failed"} : pc'[u] = where <=> pc[u] = where
  BY <1>1 DEF LfStirs, Stirs
<1>3. LfDir(u)' = LfDir(u)
  BY <1>2 DEF LfDir
<1> QED BY <1>1, <1>2, <1>3 DEF LfStirs, Stirs, LfWorking

\* What a step adds to the blocks that are done.
LEMMA LfAdds ==
    ASSUME NEW t \in Workers, LfStep(t)
    PROVE  \/ done' = done
           \/ /\ pc[t] \in {"vert", "horz"} /\ LfDir(t) = pc[t]
              /\ done' = done \cup {<<LfDir(t), plane[t], row[t], col[t]>>}
  BY DEF LfStep, LfWalks, LfReturns, LfTakes, LfFiltersVert, LfWrites, LfFiltersHorz, LfFails, LfDir

\* Who stays in a job stays in the same one.
LEMMA LfStays ==
    ASSUME NEW t \in Workers, LfStep(t), ~LfTakes(t)
    PROVE  /\ plane' = plane /\ row' = row /\ jobs_dequeued' = jobs_dequeued
           /\ pc'[t] \in LfWorking => pc[t] \in LfWorking /\ LfDir(t)' = LfDir(t)
<1>1. plane' = plane /\ row' = row /\ jobs_dequeued' = jobs_dequeued
  BY DEF LfStep, LfWalks, LfReturns, LfFiltersVert, LfWrites, LfFiltersHorz, LfFails
<1>2. CASE LfWalks(t)
  BY <1>2 DEF LfWalks, LfRoute, LfWorking, LfDir
<1>3. CASE ~LfWalks(t)
  BY <1>3 DEF LfStep, LfReturns, LfFiltersVert, LfWrites, LfFiltersHorz, LfFails, LfWorking, LfDir
<1> QED BY <1>1, <1>2, <1>3

\* A step of a thread of the loop filter keeps LfApart.
LEMMA LfApartKept ==
    ASSUME LfShapes, LfApart, NEW t \in Workers, LfStep(t)
    PROVE  LfApart'
<1>1. \A u \in Workers \ {t} :
        /\ plane'[u] = plane[u] /\ row'[u] = row[u] /\ LfDir(u)' = LfDir(u)
        /\ pc'[u] \in LfWorking <=> pc[u] \in LfWorking
  BY LfOthers
<1>2. jobs_dequeued \in Nat /\ \A u \in Workers : LfDir(u) \in LfDirections
  BY LfSizes DEF LfShapes, LfDir, LfDirections
<1>3. CASE LfTakes(t)
  <2>1. /\ jobs_dequeued' = jobs_dequeued + 1 /\ done' = done
        /\ LfNumber(LfDir(t)', plane'[t], row'[t]) = jobs_dequeued
    BY <1>3 DEF LfTakes
  <2>2. \A u \in Workers \ {t} : pc'[u] \in LfWorking =>
            LfNumber(LfDir(u)', plane'[u], row'[u]) < jobs_dequeued
    BY <1>1 DEF LfApart
  <2>3. \A u \in Workers \ {t} : pc'[u] \in LfWorking =>
            <<LfDir(t)', plane'[t], row'[t]>> # <<LfDir(u)', plane'[u], row'[u]>>
    BY <1>2, <2>1, <2>2
  <2>4. \A d \in LfDirections, p \in Lf!Planes, r \in Lf!RowIds :
            LfNumber(d, p, r) < jobs_dequeued => LfNumber(d, p, r) < jobs_dequeued'
    BY <1>2, <2>1, LfJobs
  <2>5. \A b \in done' : LfNumber(b[1], b[2], b[3]) < jobs_dequeued'
    <3>1. \A b \in done : b[1] \in LfDirections /\ b[2] \in Lf!Planes /\ b[3] \in Lf!RowIds
      BY DEF LfShapes, Lf!Blocks, LfDirections
    <3> QED BY <2>1, <2>4, <3>1 DEF LfApart
  <2>6. \A u \in Workers : pc'[u] \in LfWorking =>
            LfNumber(LfDir(u)', plane'[u], row'[u]) < jobs_dequeued'
    <3>1. \A u \in Workers \ {t} :
            plane'[u] \in Lf!Planes /\ row'[u] \in Lf!RowIds /\ LfDir(u)' \in LfDirections
      BY <1>1, <1>2 DEF LfShapes
    <3>2. LfNumber(LfDir(t)', plane'[t], row'[t]) < jobs_dequeued'
      BY <1>2, <2>1
    <3> QED BY <2>2, <2>4, <3>1, <3>2
  <2>7. \A u, v \in Workers \ {t} : u # v /\ pc'[u] \in LfWorking /\ pc'[v] \in LfWorking =>
            <<LfDir(u)', plane'[u], row'[u]>> # <<LfDir(v)', plane'[v], row'[v]>>
    <3> HIDE DEF LfDir, LfWorking
    <3> QED BY <1>1 DEF LfApart
  <2> QED BY <2>3, <2>5, <2>6, <2>7 DEF LfApart
<1>4. CASE ~LfTakes(t)
  <2>1. /\ plane' = plane /\ row' = row /\ jobs_dequeued' = jobs_dequeued
        /\ pc'[t] \in LfWorking => pc[t] \in LfWorking /\ LfDir(t)' = LfDir(t)
    BY <1>4, LfStays
  <2>2. \A b \in done' : LfNumber(b[1], b[2], b[3]) < jobs_dequeued
    <3>1. pc[t] \in {"vert", "horz"} => pc[t] \in LfWorking
      BY DEF LfWorking
    <3> QED BY <3>1, LfAdds DEF LfApart
  <2> QED BY <1>1, <2>1, <2>2 DEF LfApart
<1> QED BY <1>3, <1>4

\* A step of a thread of the loop filter keeps LfSoFar.
LEMMA LfSoFarKept ==
    ASSUME LfShapes, LfApart, LfSoFar, NEW t \in Workers, LfStep(t)
    PROVE  LfSoFar'
<1> DEFINE Of(u) == \A c \in LfColIds :
                        <<LfDir(u), plane[u], row[u], c>> \in done <=> c < LfPast(u)
<1>1. \A u \in Workers : pc[u] \in LfWorking => Of(u)
  BY DEF LfSoFar
<1>2. ASSUME NEW u \in Workers \ {t}, pc'[u] \in LfWorking
      PROVE  Of(u)'
  <2>1. /\ pc[u] \in LfWorking /\ plane'[u] = plane[u] /\ row'[u] = row[u] /\ col'[u] = col[u]
        /\ LfDir(u)' = LfDir(u) /\ (pc'[u] = "write" <=> pc[u] = "write")
    BY <1>2, LfOthers
  <2>2. LfPast(u)' = LfPast(u)
    BY <2>1 DEF LfPast
  <2>3. pc[t] \in {"vert", "horz"} => <<LfDir(t), plane[t], row[t]>> # <<LfDir(u), plane[u], row[u]>>
    BY <2>1 DEF LfApart, LfWorking
  <2>4. \A c : <<LfDir(u), plane[u], row[u], c>> \in done' <=> <<LfDir(u), plane[u], row[u], c>> \in done
    BY <2>3, LfAdds
  <2> HIDE DEF LfPast, LfDir
  <2> QED BY <1>1, <2>1, <2>2, <2>4
<1>3. ASSUME pc'[t] \in LfWorking
      PROVE  Of(t)'
  <2>1. CASE LfWalks(t)
    <3>1. /\ plane' = plane /\ row' = row /\ col' = col /\ done' = done /\ pc[t] \in LfWorking
          /\ pc[t] # "write" /\ pc'[t] # "write" /\ LfDir(t)' = LfDir(t)
      BY <1>3, <2>1 DEF LfWalks, LfRoute, LfWorking, LfDir
    <3>2. LfPast(t)' = LfPast(t)
      BY <3>1 DEF LfPast
    <3> HIDE DEF LfPast, LfDir
    <3> QED BY <1>1, <3>1, <3>2
  <2>2. CASE LfTakes(t)
    <3>1. /\ LfNumber(LfDir(t)', plane'[t], row'[t]) = jobs_dequeued /\ col'[t] = 0
          /\ pc'[t] # "write" /\ done' = done
          /\ \A b \in done : LfNumber(b[1], b[2], b[3]) < jobs_dequeued
      BY <2>2 DEF LfTakes, LfApart
    <3>2. LfPast(t)' = 0
      BY <3>1 DEF LfPast
    <3>3. \A b \in done : LfNumber(b[1], b[2], b[3]) # LfNumber(LfDir(t)', plane'[t], row'[t])
      BY <3>1, LfSizes DEF LfShapes
    <3>4. \A c : <<LfDir(t)', plane'[t], row'[t], c>> \notin done
      <4> HIDE DEF LfNumber, LfDir
      <4> QED BY <3>3
    <3>5. \A c \in LfColIds : ~(c < 0)
      BY LfSizes DEF LfColIds
    <3> HIDE DEF LfPast, LfDir
    <3> QED BY <3>1, <3>2, <3>4, <3>5
  <2>3. CASE LfFiltersVert(t)
    <3>1. /\ pc[t] = "vert" /\ pc'[t] = "write" /\ plane' = plane /\ row' = row /\ col' = col
          /\ done' = done \cup {<<"vert", plane[t], row[t], col[t]>>}
          /\ LfDir(t) = "vert" /\ LfDir(t)' = "vert"
      BY <2>3 DEF LfFiltersVert, LfDir
    <3>2. LfPast(t)' = col[t] + 1 /\ LfPast(t) = col[t]
      BY <3>1 DEF LfPast
    <3>3. Of(t) /\ col[t] \in LfColIds
      BY <1>1, <3>1, LfSizes DEF LfWorking, LfShapes, LfColIds
    <3>5. \A c \in LfColIds : c < LfPast(t)' <=> c < LfPast(t) \/ c = col[t]
      BY <3>2, <3>3, LfSizes DEF LfColIds
    <3> HIDE DEF LfPast, LfDir
    <3> QED BY <3>1, <3>3, <3>5
  <2>4. CASE LfWrites(t)
    <3>1. /\ pc[t] = "write" /\ pc'[t] = "vert" /\ plane' = plane /\ row' = row
          /\ col'[t] = col[t] + 1 /\ done' = done
      BY <1>3, <2>4 DEF LfWrites, LfWorking
    <3>2. LfPast(t)' = LfPast(t) /\ Of(t) /\ LfDir(t)' = LfDir(t)
      BY <1>1, <3>1 DEF LfPast, LfWorking, LfDir
    <3> HIDE DEF LfPast, LfDir
    <3> QED BY <3>1, <3>2
  <2>5. CASE LfFiltersHorz(t)
    <3>1. /\ pc[t] = "horz" /\ pc'[t] = "read_above" /\ plane' = plane /\ row' = row
          /\ col'[t] = col[t] + 1
          /\ done' = done \cup {<<"horz", plane[t], row[t], col[t]>>}
          /\ LfDir(t) = "horz" /\ LfDir(t)' = "horz"
      BY <1>3, <2>5 DEF LfFiltersHorz, LfDir, LfWorking
    <3>2. LfPast(t)' = col[t] + 1 /\ LfPast(t) = col[t]
      BY <3>1 DEF LfPast
    <3>3. Of(t) /\ col[t] \in LfColIds
      BY <1>1, <3>1, LfSizes DEF LfWorking, LfShapes, LfColIds
    <3>5. \A c \in LfColIds : c < LfPast(t)' <=> c < LfPast(t) \/ c = col[t]
      BY <3>2, <3>3, LfSizes DEF LfColIds
    <3> HIDE DEF LfPast, LfDir
    <3> QED BY <3>1, <3>3, <3>5
  <2>6. CASE LfReturns(t) \/ LfFails(t)
    BY <1>3, <2>6 DEF LfReturns, LfFails, LfWorking
  <2> QED BY <2>1, <2>2, <2>3, <2>4, <2>5, <2>6 DEF LfStep
<1> QED BY <1>2, <1>3 DEF LfSoFar

\* A step of a thread of the loop filter keeps LfPublished.
LEMMA LfPublishedKept ==
    ASSUME LfShapes, LfSoFar, LfPublished, NEW t \in Workers, LfStep(t)
    PROVE  LfPublished'
<1>1. SUFFICES ASSUME ~lf_mt_exit', NEW p \in Lf!Planes, NEW r \in Lf!RowIds, NEW c \in LfColIds,
                      c <= cur_sb_col'[<<p, r>>]
               PROVE  <<"vert", p, r, c>> \in done'
  BY DEF LfPublished
<1>2. ~lf_mt_exit /\ ~LfFails(t)
  BY <1>1 DEF LfStep, LfWalks, LfReturns, LfTakes, LfFiltersVert, LfWrites, LfFiltersHorz, LfFails
<1>3. done \subseteq done'
  BY LfAdds
<1>4. CASE LfWrites(t)
  <2>1. pc[t] = "write" /\ LfDir(t) = "vert" /\ <<p, r>> \in Lf!Planes \X Lf!RowIds
    BY <1>4 DEF LfWrites, LfDir
  <2>2. \/ cur_sb_col'[<<p, r>>] = cur_sb_col[<<p, r>>]
        \/ <<p, r>> = <<plane[t], row[t]>> /\ (cur_sb_col'[<<p, r>>] = col[t] \/ col[t] = LfCols - 1)
    BY <1>4, <2>1 DEF LfWrites
  <2>3. CASE cur_sb_col'[<<p, r>>] = cur_sb_col[<<p, r>>]
    BY <1>1, <1>2, <1>3, <2>3 DEF LfPublished
  <2>4. CASE <<p, r>> = <<plane[t], row[t]>> /\ (cur_sb_col'[<<p, r>>] = col[t] \/ col[t] = LfCols - 1)
    <3>1. p = plane[t] /\ r = row[t] /\ c < col[t] + 1
      BY <1>1, <2>4, LfSizes DEF LfShapes, LfColIds
    <3> QED BY <1>3, <2>1, <3>1 DEF LfSoFar, LfPast, LfWorking
  <2> QED BY <2>2, <2>3, <2>4
<1>5. CASE ~LfWrites(t)
  <2>1. cur_sb_col' = cur_sb_col
    BY <1>2, <1>5 DEF LfStep, LfWalks, LfReturns, LfTakes, LfFiltersVert, LfFiltersHorz
  <2> QED BY <1>1, <1>2, <1>3, <2>1 DEF LfPublished
<1> QED BY <1>4, <1>5

\* The columns between two looks: the last look covers the next column, and
\* stays the last one until the next has to be taken.
LEMMA LfLooks ==
    ASSUME NEW c \in Nat
    PROVE  /\ c - (c % LfSyncRange) \in Nat
           /\ c + 1 <= (c - (c % LfSyncRange)) + LfSyncRange
           /\ (c + 1) % LfSyncRange # 0 =>
                (c + 1) - ((c + 1) % LfSyncRange) = c - (c % LfSyncRange)
<1>1. LfSyncRange \in {1, 2, 4, 8}
  BY LfSizes
<1>2. CASE LfSyncRange = 1
  BY <1>2
<1>3. CASE LfSyncRange = 2
  BY <1>3
<1>4. CASE LfSyncRange = 4
  BY <1>4
<1>5. CASE LfSyncRange = 8
  BY <1>5
<1> QED BY <1>1, <1>2, <1>3, <1>4, <1>5

\* The wait for a row ends when vertical filtering is SyncRange columns ahead.
LEMMA LfWaited ==
    ASSUME LfShapes, LfPublished, ~lf_mt_exit, NEW t \in Workers, NEW q,
           LfHas(t, q), ~LfOnTheWay(t)
    PROVE  LfSeen(t, q)
<1> SUFFICES ASSUME q \in Lf!RowIds, NEW c \in LfColIds, c <= LfBase(t) + LfSyncRange
             PROVE  <<"vert", plane[t], q, c>> \in done
  BY DEF LfSeen
<1>1. /\ plane[t] \in Lf!Planes /\ col[t] \in Nat /\ c \in Nat
      /\ cur_sb_col[<<plane[t], q>>] \in Int /\ LfSyncRange \in Nat
  BY LfSizes DEF LfShapes, LfCurs, LfColIds
<1>2. col[t] <= cur_sb_col[<<plane[t], q>>] - LfSyncRange
  <2>1. ~(q < 0)
    BY LfSizes DEF Lf!RowIds
  <2> QED BY <2>1 DEF LfHas, Lf!RowIs, LfOnTheWay
<1>3. c <= col[t] + LfSyncRange
  BY <1>1 DEF LfBase, LfOnTheWay
<1>4. c <= cur_sb_col[<<plane[t], q>>]
  BY <1>1, <1>2, <1>3
<1> QED BY <1>1, <1>4 DEF LfPublished

\* A step of a thread of the loop filter keeps LfNext.
LEMMA LfNextKept ==
    ASSUME LfShapes, LfExitMeans, LfPublished, LfNext, NEW t \in Workers, LfStep(t)
    PROVE  LfNext'
<1> DEFINE Above(u) == \/ pc[u] \in {"read_own", "asleep_own", "check"}
                       \/ pc[u] \in {"read_above", "asleep_above"} /\ LfOnTheWay(u)
           Own(u) == pc[u] = "check" \/ (pc[u] \in LfLater /\ LfOnTheWay(u))
           Of(u) == /\ ~lf_mt_exit /\ Above(u) => LfSeen(u, row[u] - 1)
                    /\ ~lf_mt_exit /\ Own(u) => LfSeen(u, row[u])
                    /\ pc[u] = "horz" => LfSeen(u, row[u] - 1) /\ LfSeen(u, row[u])
<1>1. \A u \in Workers : Of(u)
  BY DEF LfNext
<1>2. done \subseteq done' /\ (~lf_mt_exit' => ~lf_mt_exit)
  BY LfAdds DEF LfStep, LfWalks, LfReturns, LfTakes, LfFiltersVert, LfWrites, LfFiltersHorz, LfFails
<1>3. ASSUME NEW u \in Workers, plane'[u] = plane[u], row'[u] = row[u], LfBase(u)' = LfBase(u)
      PROVE  /\ LfSeen(u, row[u] - 1) => LfSeen(u, row[u] - 1)'
             /\ LfSeen(u, row[u]) => LfSeen(u, row[u])'
  BY <1>2, <1>3 DEF LfSeen
<1>4. ASSUME NEW u \in Workers \ {t}
      PROVE  Of(u)'
  <2>1. /\ plane'[u] = plane[u] /\ row'[u] = row[u] /\ col'[u] = col[u]
        /\ pc'[u] = "check" <=> pc[u] = "check"
        /\ pc'[u] = "horz" <=> pc[u] = "horz"
        /\ pc'[u] \in {"read_above", "asleep_above"} <=> pc[u] \in {"read_above", "asleep_above"}
        /\ pc'[u] \in {"read_own", "asleep_own"} <=> pc[u] \in {"read_own", "asleep_own"}
    BY LfOthers
  <2>2. LfBase(u)' = LfBase(u) /\ LfOnTheWay(u)' = LfOnTheWay(u)
    BY <2>1 DEF LfBase, LfOnTheWay
  <2>3. (Above(u)' => Above(u)) /\ (Own(u)' => Own(u))
    BY <2>1, <2>2 DEF LfLater
  <2>4. /\ LfSeen(u, row[u] - 1) => LfSeen(u, row[u] - 1)'
        /\ LfSeen(u, row[u]) => LfSeen(u, row[u])'
    BY <1>3, <2>1, <2>2
  <2> HIDE DEF LfSeen, Above, Own
  <2> QED BY <1>1, <1>2, <2>1, <2>3, <2>4
<1>5. Of(t)'
  <2>1. CASE LfWalks(t)
    <3>1. /\ LfRoute(t) /\ plane' = plane /\ row' = row /\ col' = col /\ lf_mt_exit' = lf_mt_exit
      BY <2>1 DEF LfWalks
    <3>2. LfBase(t)' = LfBase(t) /\ LfOnTheWay(t)' = LfOnTheWay(t)
      BY <3>1 DEF LfBase, LfOnTheWay
    <3>3. /\ LfSeen(t, row[t] - 1) => LfSeen(t, row[t] - 1)'
          /\ LfSeen(t, row[t]) => LfSeen(t, row[t])'
      BY <1>3, <3>1, <3>2
    <3>4. ASSUME Above(t)', ~lf_mt_exit
          PROVE  LfSeen(t, row[t] - 1)
      <4>1. CASE pc[t] = "read_above" /\ ~LfOnTheWay(t)
        <5>1. LfHas(t, row[t] - 1)
          BY <3>1, <3>2, <3>4, <4>1 DEF LfRoute
        <5> QED BY <3>4, <4>1, <5>1, LfWaited
      <4>2. CASE ~(pc[t] = "read_above" /\ ~LfOnTheWay(t))
        <5>1. Above(t)
          BY <3>1, <3>2, <3>4, <4>2 DEF LfRoute
        <5> HIDE DEF Above
        <5> QED BY <1>1, <3>4, <5>1
      <4> QED BY <4>1, <4>2
    <3>5. ASSUME Own(t)', ~lf_mt_exit
          PROVE  LfSeen(t, row[t])
      <4>1. CASE pc[t] = "read_own" /\ ~LfOnTheWay(t)
        <5>1. LfHas(t, row[t])
          BY <3>1, <3>2, <3>5, <4>1 DEF LfRoute
        <5> QED BY <3>5, <4>1, <5>1, LfWaited
      <4>2. CASE ~(pc[t] = "read_own" /\ ~LfOnTheWay(t))
        <5>1. Own(t)
          BY <3>1, <3>2, <3>5, <4>2 DEF LfRoute, LfLater
        <5> HIDE DEF Own
        <5> QED BY <1>1, <3>5, <5>1
      <4> QED BY <4>1, <4>2
    <3>6. ASSUME pc'[t] = "horz"
          PROVE  LfSeen(t, row[t] - 1) /\ LfSeen(t, row[t])
      <4>1. pc[t] = "check" /\ ~(lf_mt_exit /\ NumWorkers > 1)
        BY <3>1, <3>6 DEF LfRoute
      <4>2. ~lf_mt_exit
        <5>1. SUFFICES ASSUME lf_mt_exit PROVE FALSE
          OBVIOUS
        <5>2. NumWorkers = 1
          BY <4>1, <5>1, LfSizes
        <5>3. \A u \in Workers : u = t
          BY <5>2 DEF Workers
        <5> QED BY <4>1, <5>1, <5>3 DEF LfExitMeans
      <4> HIDE DEF LfSeen
      <4> QED BY <1>1, <4>1, <4>2
    <3> HIDE DEF LfSeen, Above, Own
    <3> QED BY <3>1, <3>3, <3>4, <3>5, <3>6
  <2>2. CASE LfFiltersHorz(t)
    <3>1. /\ pc[t] = "horz" /\ pc'[t] \in {"get", "read_above"} /\ plane' = plane /\ row' = row
          /\ col'[t] = col[t] + 1
      BY <2>2 DEF LfFiltersHorz
    <3>2. ASSUME LfOnTheWay(t)'
          PROVE  LfSeen(t, row[t] - 1)' /\ LfSeen(t, row[t])'
      <4>1. col[t] \in Nat
        BY LfSizes DEF LfShapes
      <4>2. LfBase(t)' = LfBase(t)
        BY <3>1, <3>2, <4>1, LfLooks DEF LfBase, LfOnTheWay
      <4>3. LfSeen(t, row[t] - 1) /\ LfSeen(t, row[t])
        BY <1>1, <3>1
      <4> HIDE DEF LfSeen
      <4> QED BY <1>3, <3>1, <4>2, <4>3
    <3> HIDE DEF LfSeen
    <3> QED BY <3>1, <3>2
  <2>3. CASE LfTakes(t)
    <3>1. pc'[t] \in {"vert", "read_above"} /\ col'[t] = 0
      BY <2>3 DEF LfTakes
    <3>2. ~LfOnTheWay(t)'
      <4>1. LfSyncRange \in {1, 2, 4, 8}
        BY LfSizes
      <4>2. 0 % LfSyncRange = 0
        BY <4>1
      <4> QED BY <3>1, <4>2 DEF LfOnTheWay
    <3> QED BY <3>1, <3>2
  <2>4. CASE ~LfWalks(t) /\ ~LfFiltersHorz(t) /\ ~LfTakes(t)
    <3>1. pc'[t] \notin LfLater \cup {"check", "horz"}
      BY <2>4 DEF LfStep, LfReturns, LfFiltersVert, LfWrites, LfFails, LfLater
    <3> QED BY <3>1 DEF LfLater
  <2> QED BY <2>1, <2>2, <2>3, <2>4
<1> QED BY <1>4, <1>5 DEF LfNext

\* A step of a thread of the loop filter keeps LfCovered.
LEMMA LfCoveredKept ==
    ASSUME LfShapes, LfExitMeans, LfSoFar, LfCovered, NEW t \in Workers, LfStep(t), LfShapes'
    PROVE  LfCovered'
<1> SUFFICES ASSUME ~lf_mt_exit', \A u \in Workers : pc'[u] # "close",
                    NEW d \in LfDirections, NEW p \in Lf!Planes, NEW r \in Lf!RowIds,
                    LfNumber(d, p, r) < jobs_dequeued'
             PROVE  \/ \A c \in LfColIds : <<d, p, r, c>> \in done'
                    \/ \E u \in Workers : /\ pc'[u] \in LfWorking /\ LfDir(u)' = d
                                          /\ plane'[u] = p /\ row'[u] = r
  BY DEF LfCovered
<1>1. ~lf_mt_exit /\ ~LfFails(t) /\ done \subseteq done'
  BY LfAdds DEF LfStep, LfWalks, LfReturns, LfTakes, LfFiltersVert, LfWrites, LfFiltersHorz, LfFails
<1>2. \A u \in Workers \ {t} :
        /\ plane'[u] = plane[u] /\ row'[u] = row[u] /\ LfDir(u)' = LfDir(u)
        /\ pc'[u] \in LfWorking <=> pc[u] \in LfWorking
        /\ pc[u] # "close"
  BY LfOthers
<1>3. pc[t] # "close"
  BY <1>1 DEF LfStep, LfWalks, LfRoute, LfReturns, LfTakes, LfFiltersVert, LfWrites, LfFiltersHorz
<1>4. \A x \in LfDirections, q \in Lf!Planes, s \in Lf!RowIds : LfNumber(x, q, s) < jobs_dequeued =>
        \/ \A c \in LfColIds : <<x, q, s, c>> \in done
        \/ \E u \in Workers : pc[u] \in LfWorking /\ LfDir(u) = x /\ plane[u] = q /\ row[u] = s
  BY <1>1, <1>2, <1>3 DEF LfCovered
<1>5. CASE LfTakes(t)
  <2>1. /\ LfNumber(LfDir(t)', plane'[t], row'[t]) = jobs_dequeued /\ jobs_dequeued' = jobs_dequeued + 1
        /\ pc'[t] \in LfWorking /\ pc[t] \notin LfWorking
    BY <1>5 DEF LfTakes, LfWorking
  <2>2. CASE LfNumber(d, p, r) = jobs_dequeued
    <3>1. plane'[t] \in Lf!Planes /\ row'[t] \in Lf!RowIds /\ LfDir(t)' \in LfDirections
      BY DEF LfShapes, LfDir, LfDirections
    <3>2. LfDir(t)' = d /\ plane'[t] = p /\ row'[t] = r
      <4> HIDE DEF LfDir, LfNumber
      <4> QED BY <2>1, <2>2, <3>1, LfJobs
    <3> QED BY <2>1, <3>2
  <2>3. CASE LfNumber(d, p, r) # jobs_dequeued
    <3>1. LfNumber(d, p, r) < jobs_dequeued
      <4>1. jobs_dequeued \in Nat
        BY LfSizes DEF LfShapes
      <4>2. LfNumber(d, p, r) \in Nat
        BY LfSizes, LfJobs
      <4> HIDE DEF LfNumber
      <4> QED BY <2>1, <2>3, <4>1, <4>2
    <3> HIDE DEF LfDir, LfWorking
    <3> QED BY <1>1, <1>2, <1>4, <2>1, <3>1
  <2> QED BY <2>2, <2>3
<1>6. CASE ~LfTakes(t)
  <2>1. plane' = plane /\ row' = row /\ jobs_dequeued' = jobs_dequeued
    BY <1>6, LfStays
  <2>2. pc[t] \in LfWorking =>
            \/ pc'[t] \in LfWorking /\ LfDir(t)' = LfDir(t)
            \/ \A c \in LfColIds : <<LfDir(t), plane[t], row[t], c>> \in done'
    <3>1. CASE pc'[t] \in LfWorking
      BY <1>6, <3>1, LfStays
    <3>2. CASE pc'[t] \notin LfWorking /\ pc[t] \in LfWorking
      <4>1. /\ pc[t] \in {"write", "horz"} /\ col[t] = LfCols - 1
            /\ pc[t] = "horz" => /\ LfDir(t) = "horz"
                                 /\ done' = done \cup {<<"horz", plane[t], row[t], col[t]>>}
        BY <1>1, <1>6, <3>2 DEF LfStep, LfWalks, LfRoute, LfReturns, LfFiltersVert, LfWrites,
                                LfFiltersHorz, LfWorking, LfDir
      <4>2. \A c \in LfColIds : c < LfPast(t) \/ (pc[t] = "horz" /\ c = col[t])
        BY <4>1, LfSizes DEF LfPast, LfColIds
      <4>3. \A c \in LfColIds : c < LfPast(t) => <<LfDir(t), plane[t], row[t], c>> \in done
        BY <3>2 DEF LfSoFar
      <4> HIDE DEF LfPast, LfDir
      <4> QED BY <1>1, <4>1, <4>2, <4>3
    <3> QED BY <3>1, <3>2
  <2> HIDE DEF LfDir, LfWorking
  <2> QED BY <1>1, <1>2, <1>4, <2>1, <2>2
<1> QED BY <1>5, <1>6

\* A step of a thread of the loop filter keeps LfEnds.
LEMMA LfEndsKept ==
    ASSUME LfShapes, LfEnds, NEW t \in Workers, LfStep(t)
    PROVE  LfEnds'
<1>1. pc[t] \notin {"returned", "failed"} /\ outcome' = outcome
  BY DEF LfStep, LfWalks, LfRoute, LfReturns, LfTakes, LfFiltersVert, LfWrites, LfFiltersHorz, LfFails
<1>2. outcome = "busy"
  BY <1>1 DEF LfEnds
<1>3. ASSUME ~lf_mt_exit', NEW u \in Workers, pc'[u] = "returned"
      PROVE  jobs_dequeued' = Lf!NumJobs
  <2>1. ~lf_mt_exit /\ ~LfFails(t)
    BY <1>3 DEF LfStep, LfWalks, LfReturns, LfTakes, LfFiltersVert, LfWrites, LfFiltersHorz, LfFails
  <2>2. CASE u = t
    BY <1>3, <2>1, <2>2 DEF LfStep, LfWalks, LfRoute, LfReturns, LfTakes, LfFiltersVert, LfWrites,
                            LfFiltersHorz
  <2>3. CASE u # t
    <3>1. pc[u] = "returned"
      BY <1>3, <2>3, LfOthers
    <3>2. jobs_dequeued = Lf!NumJobs
      BY <2>1, <3>1 DEF LfEnds
    <3>3. ~LfTakes(t)
      BY <3>2, LfSizes DEF LfTakes
    <3> QED BY <3>2, <3>3, LfStays
  <2> QED BY <2>2, <2>3
<1> QED BY <1>1, <1>2, <1>3 DEF LfEnds

\* A step of a thread of the loop filter keeps the invariant of the stage.
LEMMA LfStepKept ==
    ASSUME LfInv, NEW t \in Workers, Lf!Step(t) \/ Lf!Throw(t) \/ Lf!Spurious(t)
    PROVE  LfInv'
<1>1. LfShapes' /\ LfStep(t)
  BY LfStepKinds DEF LfInv
<1> QED BY <1>1, LfExitMeansKept, LfApartKept, LfSoFarKept, LfPublishedKept, LfNextKept,
           LfCoveredKept, LfEndsKept DEF LfInv

-----------------------------------------------------------------------------
\* The loop filter: from frame to frame, and what the invariant says.

\* The loop filter starts with its invariant.
LEMMA LfStarts ==
    ASSUME Lf!Start, done' = {}
    PROVE  LfInv'
<1>1. /\ pc' = [t \in Workers |-> "get"] /\ plane' = [t \in Workers |-> 0]
      /\ row' = [t \in Workers |-> 0] /\ col' = [t \in Workers |-> 0]
      /\ jobs_dequeued' = 0 /\ lf_mt_exit' = FALSE
      /\ cur_sb_col' = [x \in Lf!Planes \X Lf!RowIds |-> -1]
      /\ released' = [t \in Workers |-> 0] /\ outcome' = "busy" /\ done' = {}
  BY DEF Lf!Start, Lf!Zeros, Lf!Workers, Workers
<1>2. LfShapes'
  <2>1. 0 \in Lf!Planes /\ 0 \in Lf!RowIds /\ 0 \in 0..LfCols /\ 0 \in 0..Lf!NumJobs /\ -1 \in LfCurs
        /\ 0 \in 0..LfReleases
    BY LfSizes DEF LfCurs, Lf!AllCols, LfReleases
  <2>2. pc' \in [Workers -> Lf!Places]
    BY <1>1 DEF Lf!Places
  <2>3. /\ plane' \in [Workers -> Lf!Planes] /\ row' \in [Workers -> Lf!RowIds]
        /\ col' \in [Workers -> 0..LfCols] /\ released' \in [Workers -> 0..LfReleases]
        /\ cur_sb_col' \in [Lf!Planes \X Lf!RowIds -> LfCurs]
    BY <1>1, <2>1
  <2> QED BY <1>1, <2>1, <2>2, <2>3 DEF LfShapes, LfWorking
<1>3. LfExitMeans' /\ LfApart' /\ LfSoFar' /\ LfNext' /\ LfEnds'
  BY <1>1 DEF LfExitMeans, LfApart, LfSoFar, LfNext, LfEnds, LfWorking, LfLater
<1>4. LfPublished'
  <2>1. \A p \in Lf!Planes, r \in Lf!RowIds : cur_sb_col'[<<p, r>>] = -1
    BY <1>1
  <2> QED BY <2>1, LfSizes DEF LfPublished, LfColIds
<1>5. LfCovered'
  <2>1. \A d \in LfDirections, p \in Lf!Planes, r \in Lf!RowIds : ~(LfNumber(d, p, r) < 0)
    BY LfJobs, LfSizes
  <2> QED BY <1>1, <2>1 DEF LfCovered
<1> QED BY <1>2, <1>3, <1>4, <1>5 DEF LfInv

\* When all have returned without an error, everything is done.
LEMMA LfComplete ==
    ASSUME LfInv, \A t \in Workers : pc[t] = "returned"
    PROVE  done = Lf!Blocks
<1>1. ~lf_mt_exit
  BY DEF LfInv, LfExitMeans
<1>2. jobs_dequeued = Lf!NumJobs
  BY <1>1, LfSizes DEF LfInv, LfEnds
<1>3. \A d \in LfDirections, p \in Lf!Planes, r \in Lf!RowIds : LfNumber(d, p, r) < jobs_dequeued
  BY <1>2, LfJobs, LfSizes
<1>4. ASSUME NEW d \in LfDirections, NEW p \in Lf!Planes, NEW r \in Lf!RowIds, NEW c \in LfColIds
      PROVE  <<d, p, r, c>> \in done
  <2>1. \A t \in Workers : pc[t] \notin LfWorking /\ pc[t] # "close"
    BY DEF LfWorking
  <2> QED BY <1>1, <1>3, <2>1 DEF LfInv, LfCovered
<1>5. \A b \in Lf!Blocks : b \in done
  BY <1>4 DEF Lf!Blocks, LfColIds, LfDirections
<1> QED BY <1>5 DEF LfInv, LfShapes

\* Joined, the threads of the loop filter report an error or a complete stage.
LEMMA LfJoins ==
    ASSUME LfInv, Lf!Join
    PROVE  /\ LfInv' /\ done' = done /\ outcome = "busy"
           /\ outcome' = "error" \/ (outcome' = "ok" /\ done = Lf!Blocks)
<1>1. /\ \A t \in Workers : pc[t] \in {"returned", "failed"}
      /\ outcome = "busy"
      /\ outcome' = IF \E t \in Workers : pc[t] = "failed" THEN "error" ELSE "ok"
      /\ plane' = [t \in Workers |-> 0] /\ row' = [t \in Workers |-> 0]
      /\ col' = [t \in Workers |-> 0]
      /\ UNCHANGED <<pc, jobs_dequeued, lf_mt_exit, cur_sb_col, released, done>>
  BY DEF Lf!Join, Lf!Zeros, Lf!Workers, Workers
<1>2. LfShapes'
  <2>1. 0 \in Lf!Planes /\ 0 \in Lf!RowIds /\ 0 \in 0..LfCols
    BY LfSizes
  <2>2. /\ plane' \in [Workers -> Lf!Planes] /\ row' \in [Workers -> Lf!RowIds]
        /\ col' \in [Workers -> 0..LfCols]
    BY <1>1, <2>1
  <2> QED BY <1>1, <2>2 DEF LfInv, LfShapes, LfWorking
<1>3. LfExitMeans' /\ LfApart' /\ LfSoFar' /\ LfPublished' /\ LfNext' /\ LfEnds'
  BY <1>1 DEF LfInv, LfExitMeans, LfApart, LfSoFar, LfPublished, LfNext, LfEnds, LfWorking, LfLater
<1>4. LfCovered'
  BY <1>1 DEF LfInv, LfCovered, LfWorking
<1>5. outcome' = "ok" => done = Lf!Blocks
  BY <1>1, LfComplete
<1> QED BY <1>1, <1>2, <1>3, <1>4, <1>5 DEF LfInv

\* Whoever is about to filter a block is the first, and finds what it needs.
LEMMA LfReady ==
    ASSUME LfInv, NEW t \in Workers, pc[t] \in {"vert", "horz"}
    PROVE  LET b == <<pc[t], plane[t], row[t], col[t]>>
           IN b \in Lf!Blocks /\ b \notin done /\ Lf!Needs(b) \subseteq done
<1> DEFINE d == pc[t]  p == plane[t]  r == row[t]  c == col[t]  b == <<d, p, r, c>>
<1>1. /\ p \in Lf!Planes /\ r \in Lf!RowIds /\ c \in LfColIds /\ c \in Nat /\ r \in Nat /\ LfDir(t) = d
  BY LfSizes DEF LfInv, LfShapes, LfWorking, LfColIds, Lf!RowIds, LfDir
<1>2. b \in Lf!Blocks
  BY <1>1 DEF Lf!Blocks, LfColIds
<1>3. b \notin done
  <2>1. ~(c < LfPast(t))
    BY <1>1 DEF LfPast
  <2> QED BY <1>1, <2>1 DEF LfInv, LfSoFar, LfWorking
<1>4. Lf!Needs(b) \subseteq done
  <2>1. CASE d = "vert"
    BY <2>1 DEF Lf!Needs
  <2>2. CASE d = "horz"
    <3>1. LfSeen(t, r - 1) /\ LfSeen(t, r)
      BY <2>2 DEF LfInv, LfNext
    <3>2. \A x \in c..Lf!Min2(LfCols - 1, c + 1) : x \in LfColIds /\ x <= LfBase(t) + LfSyncRange
      <4>1. LfBase(t) \in Nat /\ c + 1 <= LfBase(t) + LfSyncRange /\ LfSyncRange \in Nat
        BY <1>1, LfLooks, LfSizes DEF LfBase
      <4> HIDE DEF LfBase
      <4> QED BY <1>1, <4>1, LfSizes DEF Lf!Min2, LfColIds
    <3>3. \A q \in {r - 1, r} : q >= 0 => q \in Lf!RowIds
      BY <1>1, LfSizes DEF Lf!RowIds
    <3>4. \A q \in {r - 1, r}, x \in c..Lf!Min2(LfCols - 1, c + 1) :
                q >= 0 => <<"vert", p, q, x>> \in done
      BY <3>1, <3>2, <3>3 DEF LfSeen
    <3>5. Lf!Needs(b) = {x \in {"vert"} \X {p} \X {r - 1, r} \X (c..Lf!Min2(LfCols - 1, c + 1)) :
                            x[3] >= 0}
      BY <2>2 DEF Lf!Needs
    <3> HIDE DEF p, r, c, b
    <3> QED BY <3>4, <3>5
  <2> QED BY <2>1, <2>2
<1> QED BY <1>2, <1>3, <1>4

\* A step of the loop filter does at most one block, whose needs are done.
LEMMA LfInOrder ==
    ASSUME LfInv, NEW t \in Workers, LfStep(t)
    PROVE  \/ done' = done
           \/ \E b \in Lf!Blocks \ done : Lf!Needs(b) \subseteq done /\ done' = done \cup {b}
<1> DEFINE b == <<pc[t], plane[t], row[t], col[t]>>
<1>1. done' = done \/ (pc[t] \in {"vert", "horz"} /\ done' = done \cup {b})
  BY LfAdds
<1>2. pc[t] \in {"vert", "horz"} => b \in Lf!Blocks /\ b \notin done /\ Lf!Needs(b) \subseteq done
  BY LfReady
<1> HIDE DEF b
<1> QED BY <1>1, <1>2

\* The invariant of the loop filter says what is promised of the stage.
LEMMA LfHolds ==
    ASSUME LfInv
    PROVE  Lf!TypeOK /\ Lf!FiltersInOrder
<1>1. Lf!TypeOK
  BY DEF LfInv, LfShapes, Lf!TypeOK, LfCurs, LfReleases, Lf!Workers, Workers
<1>2. Lf!FiltersInOrder
  BY LfReady DEF Lf!FiltersInOrder, Lf!Workers, Workers
<1> QED BY <1>1, <1>2

-----------------------------------------------------------------------------
\* The tiles: the invariant.

DecParsing == {"enter", "parse", "signal"}
DecAtBlock == {"read", "asleep", "check", "decode", "write"}
DecCounted == {"parse", "signal", "leave", "error", "release"} \cup Dec!InRow
DecSpoilt == {"error", "corrupt", "release", "failed"}
DecRows(k) == 0..(TileHeights[k] - 1)
DecCols(k) == 0..(TileWidths[k] - 1)

DecShapes ==
    /\ pc \in [Workers -> Dec!Places]
    /\ tile \in [Workers -> Dec!Tiles] /\ row \in [Workers -> Nat] /\ col \in [Workers -> Nat]
    /\ \A t \in Workers :
        /\ row[t] <= TileHeights[tile[t]]
        /\ pc[t] \in DecParsing \cup Dec!InRow \cup {"error", "release"} => row[t] < TileHeights[tile[t]]
        /\ pc[t] \in DecAtBlock => col[t] < TileWidths[tile[t]]
        /\ pc[t] = "row_done" => col[t] = TileWidths[tile[t]]
    /\ tiles_left \subseteq Dec!Tiles
    /\ parse_done \in [Dec!Tiles -> Nat] /\ decode_started \in [Dec!Tiles -> Nat]
    /\ \A k \in Dec!Tiles : decode_started[k] <= parse_done[k] /\ parse_done[k] <= TileHeights[k]
    /\ num_threads_working \in [Dec!Tiles -> Int]
    /\ row_mt_exit \in BOOLEAN
    /\ cur_sb_col \in [Dec!RowIds -> Int]
    /\ \A x \in Dec!RowIds : cur_sb_col[x] >= -1 /\ cur_sb_col[x] <= Dec!AllCols(x[1])
    /\ corrupted \subseteq Workers
    /\ done \subseteq Dec!Blocks /\ outcome \in {"busy", "ok", "error"}

DecExitMeans ==
    /\ row_mt_exit <=> \E t \in Workers : pc[t] \in {"release", "failed"}
    /\ \A t \in Workers : pc[t] \in DecSpoilt => t \in corrupted

\* The threads a tile counts are those at work in it; one that failed while at
\* work is never taken off.
DecAtWork(k) == {t \in Workers : pc[t] \in DecCounted /\ tile[t] = k}
DecLost(k) == {t \in Workers : pc[t] = "failed" /\ tile[t] = k}
DecCounts ==
    \A k \in Dec!Tiles :
        /\ num_threads_working[k] >= 0 /\ num_threads_working[k] <= NumWorkers
        /\ outcome = "busy" =>
            /\ num_threads_working[k] >= Cardinality(DecAtWork(k))
            /\ num_threads_working[k] <= Cardinality(DecAtWork(k) \cup DecLost(k))

\* A tile is parsed by one worker, row after row.
DecParsers ==
    /\ \A k \in tiles_left : parse_done[k] = 0
    /\ \A t \in Workers : pc[t] \in DecParsing =>
            tile[t] \notin tiles_left /\ parse_done[tile[t]] = row[t]
    /\ \A t, u \in Workers :
        t # u /\ pc[t] \in DecParsing /\ pc[u] \in DecParsing => tile[t] # tile[u]

DecParsed ==
    \A k \in Dec!Tiles : \A r \in DecRows(k) :
        <<"parse", k, r>> \in done <=>
            \/ r < parse_done[k]
            \/ \E t \in Workers : pc[t] = "signal" /\ tile[t] = k /\ row[t] = r

\* A row is reconstructed by one worker, and nothing is before it is taken.
DecApart ==
    /\ \A t \in Workers : pc[t] \in Dec!InRow => row[t] < decode_started[tile[t]]
    /\ \A t, u \in Workers : t # u /\ pc[t] \in Dec!InRow /\ pc[u] \in Dec!InRow =>
            <<tile[t], row[t]>> # <<tile[u], row[u]>>
    /\ \A k \in Dec!Tiles : \A r \in DecRows(k) : \A c \in DecCols(k) :
            <<"decode", k, r, c>> \in done => r < decode_started[k]

\* The superblocks of its row that a worker has left behind.
DecPast(t) == IF pc[t] = "write" THEN col[t] + 1 ELSE col[t]
DecSoFar ==
    \A t \in Workers : pc[t] \in Dec!InRow => \A c \in DecCols(tile[t]) :
        /\ <<"decode", tile[t], row[t], c>> \in done => c < DecPast(t)
        /\ c < DecPast(t) /\ (~row_mt_exit \/ pc[t] = "decode") =>
                <<"decode", tile[t], row[t], c>> \in done

DecPublished ==
    ~row_mt_exit => \A k \in Dec!Tiles : \A r \in DecRows(k) : \A c \in DecCols(k) :
        c <= cur_sb_col[<<k, r>>] => <<"decode", k, r, c>> \in done

\* What a worker has seen of the row above its own.
DecSeen(t) ==
    row[t] > 0 => \A c \in DecCols(tile[t]) :
        c <= col[t] + 1 + ExtraDelay => <<"decode", tile[t], row[t] - 1, c>> \in done
DecNext ==
    \A t \in Workers :
        /\ ~row_mt_exit /\ pc[t] = "check" => DecSeen(t)
        /\ pc[t] = "decode" => DecSeen(t)

\* While all data is good, a row that was taken is done or somebody's.
DecCovered ==
    corrupted = {} => \A k \in Dec!Tiles : \A r \in DecRows(k) : r < decode_started[k] =>
        \/ \A c \in DecCols(k) : <<"decode", k, r, c>> \in done
        \/ \E t \in Workers : pc[t] \in Dec!InRow /\ tile[t] = k /\ row[t] = r

DecEnds ==
    /\ corrupted = {} /\ (\E t \in Workers : pc[t] = "returned") =>
            \A k \in Dec!Tiles : decode_started[k] = TileHeights[k]
    /\ outcome # "busy" => \A t \in Workers : pc[t] \in {"returned", "failed"}

DecInv ==
    /\ DecShapes /\ DecExitMeans /\ DecCounts /\ DecParsers /\ DecParsed /\ DecApart /\ DecSoFar
    /\ DecPublished /\ DecNext /\ DecCovered /\ DecEnds

\* The sizes of the tiles and their sets.
LEMMA DecSizes ==
    /\ NumWorkers \in Nat \ {0} /\ MaxErrors \in Nat /\ ExtraDelay \in Nat /\ 0 \in Workers
    /\ Len(TileHeights) \in Nat \ {0} /\ Dec!Tiles = 1..Len(TileHeights) /\ 1 \in Dec!Tiles
    /\ \A k \in Dec!Tiles : TileHeights[k] \in Nat \ {0} /\ TileWidths[k] \in Nat \ {0}
    /\ \A k \in Dec!Tiles, r \in Nat : r < TileHeights[k] <=> r \in DecRows(k)
    /\ \A k \in Dec!Tiles, c \in Nat : c < TileWidths[k] <=> c \in DecCols(k)
    /\ \A k \in Dec!Tiles : 0 \in DecRows(k) /\ 0 \in DecCols(k)
    /\ \A k \in Dec!Tiles : \A r \in DecRows(k) : r \in Nat /\ r < TileHeights[k]
    /\ \A k \in Dec!Tiles : \A c \in DecCols(k) : c \in Nat /\ c < TileWidths[k]
<1>1. /\ NumWorkers \in Nat \ {0} /\ MaxErrors \in Nat /\ ExtraDelay \in Nat
      /\ TileHeights \in Seq(Nat \ {0}) /\ TileHeights # <<>>
      /\ TileWidths \in [DOMAIN TileHeights -> Nat \ {0}]
  BY FrameMtAssumption DEF Dec!DecRowMtAssumption
<1>2. Dec!Tiles = 1..Len(TileHeights) /\ Len(TileHeights) \in Nat \ {0}
  BY <1>1 DEF Dec!Tiles
<1>3. \A k \in Dec!Tiles : TileHeights[k] \in Nat \ {0} /\ TileWidths[k] \in Nat \ {0}
  BY <1>1, <1>2 DEF Dec!Tiles
<1>4. 1 \in Dec!Tiles /\ 0 \in Workers
  BY <1>1, <1>2 DEF Workers
<1>5. /\ \A k \in Dec!Tiles, r \in Nat : r < TileHeights[k] <=> r \in DecRows(k)
      /\ \A k \in Dec!Tiles, c \in Nat : c < TileWidths[k] <=> c \in DecCols(k)
      /\ \A k \in Dec!Tiles : 0 \in DecRows(k) /\ 0 \in DecCols(k)
      /\ \A k \in Dec!Tiles : \A r \in DecRows(k) : r \in Nat /\ r < TileHeights[k]
      /\ \A k \in Dec!Tiles : \A c \in DecCols(k) : c \in Nat /\ c < TileWidths[k]
  BY <1>3 DEF DecRows, DecCols
<1> QED BY <1>1, <1>2, <1>3, <1>4, <1>5

\* Rows and blocks are what their sets say.
LEMMA DecMembers ==
    /\ \A k \in Dec!Tiles : \A r \in DecRows(k) : <<k, r>> \in Dec!RowIds
    /\ \A x \in Dec!RowIds : x[1] \in Dec!Tiles /\ x[2] \in DecRows(x[1]) /\ x = <<x[1], x[2]>>
    /\ \A k \in Dec!Tiles : \A r \in DecRows(k) : <<"parse", k, r>> \in Dec!Blocks
    /\ \A k \in Dec!Tiles : \A r \in DecRows(k) : \A c \in DecCols(k) :
            <<"decode", k, r, c>> \in Dec!Blocks
    /\ \A b \in Dec!Blocks : \E k \in Dec!Tiles : \E r \in DecRows(k) :
            b = <<"parse", k, r>> \/ \E c \in DecCols(k) : b = <<"decode", k, r, c>>
<1>1. \A x : x \in Dec!RowIds <=> \E k \in Dec!Tiles : x \in {k} \X DecRows(k)
  BY DEF Dec!RowIds, DecRows
<1>2. \A k \in Dec!Tiles : \A r \in DecRows(k) : <<k, r>> \in Dec!RowIds
  BY <1>1
<1>3. \A x \in Dec!RowIds : x[1] \in Dec!Tiles /\ x[2] \in DecRows(x[1]) /\ x = <<x[1], x[2]>>
  BY <1>1
<1>4. \A b : b \in Dec!Blocks <=> \E x \in Dec!RowIds :
            \/ b = <<"parse", x[1], x[2]>>
            \/ \E c \in DecCols(x[1]) : b = <<"decode", x[1], x[2], c>>
  BY DEF Dec!Blocks, DecCols
<1>5. \A k \in Dec!Tiles : \A r \in DecRows(k) : <<"parse", k, r>> \in Dec!Blocks
  <2> TAKE k \in Dec!Tiles
  <2> TAKE r \in DecRows(k)
  <2>1. <<k, r>> \in Dec!RowIds /\ <<k, r>>[1] = k /\ <<k, r>>[2] = r
    BY <1>2
  <2> QED BY <1>4, <2>1
<1>6. \A k \in Dec!Tiles : \A r \in DecRows(k) : \A c \in DecCols(k) :
            <<"decode", k, r, c>> \in Dec!Blocks
  <2> TAKE k \in Dec!Tiles
  <2> TAKE r \in DecRows(k)
  <2> TAKE c \in DecCols(k)
  <2>1. <<k, r>> \in Dec!RowIds /\ <<k, r>>[1] = k /\ <<k, r>>[2] = r
    BY <1>2
  <2> QED BY <1>4, <2>1
<1>7. ASSUME NEW b \in Dec!Blocks
      PROVE  \E k \in Dec!Tiles : \E r \in DecRows(k) :
                b = <<"parse", k, r>> \/ \E c \in DecCols(k) : b = <<"decode", k, r, c>>
  <2>1. PICK x \in Dec!RowIds : \/ b = <<"parse", x[1], x[2]>>
                                \/ \E c \in DecCols(x[1]) : b = <<"decode", x[1], x[2], c>>
    BY <1>4
  <2> QED BY <1>3, <2>1
<1> QED BY <1>2, <1>3, <1>5, <1>6, <1>7

\* Parsing a row is no reconstruction.
LEMMA DecKinds == \A k, r, c, j, s : <<"parse", k, r>> # <<"decode", j, s, c>>
<1> SUFFICES ASSUME NEW k, NEW r, NEW c, NEW j, NEW s, <<"parse", k, r>> = <<"decode", j, s, c>>
             PROVE  FALSE
  OBVIOUS
<1>1. <<"parse", k, r>>[1] = <<"decode", j, s, c>>[1]
  OBVIOUS
<1> QED BY <1>1

-----------------------------------------------------------------------------
\* The tiles: their steps by their kinds.

DecStirs(u) == Stirs(pc[u], pc'[u], "waiting", "next_row") \/ Stirs(pc[u], pc'[u], "asleep", "read")
DecOthersStay(t) ==
    \A u \in Workers \ {t} :
        tile'[u] = tile[u] /\ row'[u] = row[u] /\ col'[u] = col[u] /\ DecStirs(u)

DecRoute(t) ==
    \/ pc[t] = "next_tile" /\ pc'[t] = "next_row"
    \/ pc[t] = "next_row" /\ pc'[t] = "returned" /\ (Dec!AllStarted \/ row_mt_exit)
    \/ pc[t] = "next_row" /\ pc'[t] = "waiting"
    \/ pc[t] = "waiting" /\ pc'[t] = "next_row"
    \/ /\ pc[t] = "read" /\ pc'[t] = "check"
       /\ row[t] = 0 \/ Dec!RowIs(tile[t], row[t] - 1, col[t])
    \/ pc[t] = "read" /\ pc'[t] = "asleep"
    \/ pc[t] = "asleep" /\ pc'[t] = "read"
    \/ pc[t] = "check" /\ pc'[t] = "write" /\ row_mt_exit
    \/ pc[t] = "check" /\ pc'[t] = "decode" /\ ~row_mt_exit

DecWalks(t) ==
    /\ DecOthersStay(t) /\ DecRoute(t)
    /\ UNCHANGED <<tile, row, col, tiles_left, parse_done, decode_started, num_threads_working,
                   row_mt_exit, cur_sb_col, corrupted, done, outcome>>

DecTakesTile(t) ==
    /\ DecOthersStay(t) /\ pc[t] = "next_tile" /\ pc'[t] = "enter"
    /\ tile'[t] \in tiles_left /\ row'[t] = 0 /\ tiles_left' = tiles_left \ {tile'[t]}
    /\ UNCHANGED <<parse_done, decode_started, num_threads_working, row_mt_exit, cur_sb_col,
                   corrupted, done, outcome>>

DecEnters(t) ==
    /\ DecOthersStay(t) /\ pc[t] = "enter" /\ pc'[t] = "parse"
    /\ num_threads_working' =
            [num_threads_working EXCEPT ![tile[t]] = num_threads_working[tile[t]] + 1]
    /\ UNCHANGED <<tile, row, col, tiles_left, parse_done, decode_started, row_mt_exit, cur_sb_col,
                   corrupted, done, outcome>>

DecParses(t) ==
    /\ DecOthersStay(t) /\ pc[t] = "parse" /\ pc'[t] = "signal"
    /\ done' = done \cup {<<"parse", tile[t], row[t]>>}
    /\ UNCHANGED <<tile, row, col, tiles_left, parse_done, decode_started, num_threads_working,
                   row_mt_exit, cur_sb_col, corrupted, outcome>>

DecSignals(t) ==
    /\ DecOthersStay(t) /\ pc[t] = "signal" /\ pc'[t] \in {"parse", "leave"}
    /\ parse_done' = [parse_done EXCEPT ![tile[t]] = parse_done[tile[t]] + 1]
    /\ row'[t] = row[t] + 1
    /\ UNCHANGED <<tile, col, tiles_left, decode_started, num_threads_working, row_mt_exit,
                   cur_sb_col, corrupted, done, outcome>>

DecLeaves(t) ==
    /\ DecOthersStay(t)
    /\ \/ pc[t] = "leave" /\ t \in corrupted /\ pc'[t] = "corrupt"
       \/ pc[t] = "leave" /\ pc'[t] = "next_tile"
       \/ pc[t] = "row_done" /\ pc'[t] = "next_row"
    /\ num_threads_working' =
            [num_threads_working EXCEPT ![tile[t]] = num_threads_working[tile[t]] - 1]
    /\ UNCHANGED <<tile, row, col, tiles_left, parse_done, decode_started, row_mt_exit, cur_sb_col,
                   corrupted, done, outcome>>

DecTakesRow(t) ==
    /\ DecOthersStay(t) /\ pc[t] = "next_row" /\ pc'[t] = "read" /\ ~row_mt_exit
    /\ decode_started[tile'[t]] < parse_done[tile'[t]]
    /\ row'[t] = decode_started[tile'[t]] /\ col'[t] = 0
    /\ decode_started' = [decode_started EXCEPT ![tile'[t]] = decode_started[tile'[t]] + 1]
    /\ num_threads_working' =
            [num_threads_working EXCEPT ![tile'[t]] = num_threads_working[tile'[t]] + 1]
    /\ UNCHANGED <<tiles_left, parse_done, row_mt_exit, cur_sb_col, corrupted, done, outcome>>

DecDecodes(t) ==
    /\ DecOthersStay(t) /\ pc[t] = "decode" /\ pc'[t] = "write"
    /\ done' = done \cup {<<"decode", tile[t], row[t], col[t]>>}
    /\ UNCHANGED <<tile, row, col, tiles_left, parse_done, decode_started, num_threads_working,
                   row_mt_exit, cur_sb_col, corrupted, outcome>>

DecWrites(t) ==
    /\ DecOthersStay(t) /\ pc[t] = "write" /\ col'[t] = col[t] + 1
    /\ pc'[t] = IF col[t] = TileWidths[tile[t]] - 1 THEN "row_done" ELSE "read"
    /\ \A x \in Dec!RowIds :
        \/ cur_sb_col'[x] = cur_sb_col[x]
        \/ /\ x = <<tile[t], row[t]>>
           /\ cur_sb_col'[x] = col[t] \/ col[t] = TileWidths[tile[t]] - 1
    /\ UNCHANGED <<tile, row, tiles_left, parse_done, decode_started, num_threads_working,
                   row_mt_exit, corrupted, done, outcome>>

DecFails(t) ==
    /\ DecOthersStay(t)
    /\ \/ pc[t] \in {"parse", "leave"} /\ pc'[t] = "leave"
       \/ pc[t] \in {"parse", "decode"} /\ pc'[t] = "error"
    /\ corrupted' = corrupted \cup {t}
    /\ UNCHANGED <<tile, row, col, tiles_left, parse_done, decode_started, num_threads_working,
                   row_mt_exit, cur_sb_col, done, outcome>>

DecGivesUp(t) ==
    /\ DecOthersStay(t) /\ row_mt_exit'
    /\ \/ pc[t] = "error" /\ pc'[t] = "release"
       \/ pc[t] \in {"corrupt", "release"} /\ pc'[t] = "failed"
    /\ UNCHANGED <<tile, row, col, tiles_left, parse_done, decode_started, num_threads_working,
                   corrupted, done, outcome>>

DecStep(t) ==
    \/ DecWalks(t) \/ DecTakesTile(t) \/ DecEnters(t) \/ DecParses(t) \/ DecSignals(t)
    \/ DecLeaves(t) \/ DecTakesRow(t) \/ DecDecodes(t) \/ DecWrites(t) \/ DecFails(t)
    \/ DecGivesUp(t)

\* The ways in which a worker goes on: alone, or waking others.
LEMMA DecGoes ==
    ASSUME DecShapes, NEW t \in Workers, NEW w \in Dec!Places, Dec!GoesTo(t, w)
    PROVE  pc' \in [Workers -> Dec!Places] /\ pc'[t] = w /\ \A u \in Workers \ {t} : DecStirs(u)
  BY DEF DecShapes, Dec!GoesTo, DecStirs, Stirs

\* A broadcast wakes those who wait for a row and moves nobody else.
LEMMA DecBroadcasts ==
    ASSUME DecShapes, NEW t \in Workers, NEW w \in Dec!Places, Dec!Broadcast(t, w)
    PROVE  pc' \in [Workers -> Dec!Places] /\ pc'[t] = w /\ \A u \in Workers \ {t} : DecStirs(u)
<1>1. pc \in [Workers -> Dec!Places] /\ "next_row" \in Dec!Places
  BY DEF DecShapes, Dec!Places
<1>2. pc' = [u \in Workers |-> IF u = t THEN w ELSE IF pc[u] = "waiting" THEN "next_row" ELSE pc[u]]
  BY DEF Dec!Broadcast, Dec!Workers, Workers
<1> QED BY <1>1, <1>2 DEF DecStirs, Stirs

\* Waking one thread moves nobody else.
LEMMA DecWakes ==
    ASSUME DecShapes, NEW t \in Workers, NEW w \in Dec!Places, NEW u \in Workers, u # t,
           NEW v \in Dec!Places, Stirs(pc[u], v, "waiting", "next_row") \/ Stirs(pc[u], v, "asleep", "read"),
           pc' = [pc EXCEPT ![t] = w, ![u] = v]
    PROVE  pc' \in [Workers -> Dec!Places] /\ pc'[t] = w /\ \A x \in Workers \ {t} : DecStirs(x)
<1>1. pc \in [Workers -> Dec!Places]
  BY DEF DecShapes
<1>2. pc' \in [Workers -> Dec!Places] /\ pc'[t] = w /\ pc'[u] = v
      /\ \A x \in Workers \ {t, u} : pc'[x] = pc[x]
  BY <1>1
<1>3. DecStirs(u)
  BY <1>2 DEF DecStirs
<1>4. \A x \in Workers \ {t, u} : DecStirs(x)
  BY <1>2 DEF DecStirs, Stirs
<1> QED BY <1>2, <1>3, <1>4

\* A signal wakes one of those who wait for a row, or nobody.
LEMMA DecSignalWakes ==
    ASSUME DecShapes, NEW t \in Workers, pc[t] # "waiting", NEW w \in Dec!Places, Dec!Signal(t, w)
    PROVE  pc' \in [Workers -> Dec!Places] /\ pc'[t] = w /\ \A u \in Workers \ {t} : DecStirs(u)
<1>1. CASE Dec!GoesTo(t, w)
  BY <1>1, DecGoes
<1>2. ASSUME NEW u \in Workers, pc[u] = "waiting", pc' = [pc EXCEPT ![t] = w, ![u] = "next_row"]
      PROVE  pc' \in [Workers -> Dec!Places] /\ pc'[t] = w /\ \A x \in Workers \ {t} : DecStirs(x)
  <2>1. u # t /\ Stirs(pc[u], "next_row", "waiting", "next_row") /\ "next_row" \in Dec!Places
    BY <1>2 DEF Stirs, Dec!Places
  <2> QED BY <1>2, <2>1, DecWakes
<1> QED BY <1>1, <1>2 DEF Dec!Signal, Dec!Workers, Workers

\* sync_write: also the columns are published.
LEMMA DecPublishes ==
    ASSUME DecShapes, NEW t \in Workers, pc[t] # "asleep", NEW k \in Dec!Tiles, NEW r \in DecRows(k),
           NEW cur \in Int, cur >= -1, cur <= Dec!AllCols(k), NEW w \in Dec!Places,
           Dec!Publish(t, k, r, cur, w)
    PROVE  /\ pc' \in [Workers -> Dec!Places] /\ pc'[t] = w /\ \A u \in Workers \ {t} : DecStirs(u)
           /\ cur_sb_col' \in [Dec!RowIds -> Int]
           /\ \A x \in Dec!RowIds : cur_sb_col'[x] >= -1 /\ cur_sb_col'[x] <= Dec!AllCols(x[1])
           /\ \A x \in Dec!RowIds :
                cur_sb_col'[x] = cur_sb_col[x] \/ (x = <<k, r>> /\ cur_sb_col'[x] = cur)
<1>1. /\ cur_sb_col \in [Dec!RowIds -> Int]
      /\ \A x \in Dec!RowIds : cur_sb_col[x] >= -1 /\ cur_sb_col[x] <= Dec!AllCols(x[1])
      /\ cur_sb_col' = [cur_sb_col EXCEPT ![<<k, r>>] = cur]
  BY DEF DecShapes, Dec!Publish
<1>2. /\ cur_sb_col' \in [Dec!RowIds -> Int]
      /\ \A x \in Dec!RowIds : IF x = <<k, r>> THEN cur_sb_col'[x] = cur
                                               ELSE cur_sb_col'[x] = cur_sb_col[x]
  BY <1>1
<1>3. \A x \in Dec!RowIds : cur_sb_col'[x] >= -1 /\ cur_sb_col'[x] <= Dec!AllCols(x[1])
  <2> TAKE x \in Dec!RowIds
  <2>1. CASE x = <<k, r>>
    <3>1. x[1] = k /\ cur_sb_col'[x] = cur
      BY <1>2, <2>1
    <3> HIDE DEF Dec!AllCols
    <3> QED BY <3>1
  <2>2. CASE x # <<k, r>>
    BY <1>1, <1>2, <2>2
  <2> QED BY <2>1, <2>2
<1>4. pc' \in [Workers -> Dec!Places] /\ pc'[t] = w /\ \A u \in Workers \ {t} : DecStirs(u)
  <2>1. CASE Dec!GoesTo(t, w)
    BY <2>1, DecGoes
  <2>2. ASSUME NEW u \in Workers, pc[u] = "asleep", pc' = [pc EXCEPT ![t] = w, ![u] = "read"]
        PROVE  pc' \in [Workers -> Dec!Places] /\ pc'[t] = w /\ \A x \in Workers \ {t} : DecStirs(x)
    <3>1. u # t /\ Stirs(pc[u], "read", "asleep", "read") /\ "read" \in Dec!Places
      BY <2>2 DEF Stirs, Dec!Places
    <3> QED BY <2>2, <3>1, DecWakes
  <2> QED BY <2>1, <2>2 DEF Dec!Publish, Dec!Workers, Workers
<1> QED BY <1>2, <1>3, <1>4

\* What a worker's place says of where it is.
DecFits(t) ==
    /\ row[t] <= TileHeights[tile[t]]
    /\ pc[t] \in DecParsing \cup Dec!InRow \cup {"error", "release"} => row[t] < TileHeights[tile[t]]
    /\ pc[t] \in DecAtBlock => col[t] < TileWidths[tile[t]]
    /\ pc[t] = "row_done" => col[t] = TileWidths[tile[t]]

\* A thread that is only stirred still fits its place.
LEMMA DecOthersFit ==
    ASSUME DecShapes, NEW t \in Workers, DecOthersStay(t), DecFits(t)'
    PROVE  \A u \in Workers : DecFits(u)'
<1> SUFFICES ASSUME NEW u \in Workers \ {t} PROVE DecFits(u)'
  OBVIOUS
<1>1. tile'[u] = tile[u] /\ row'[u] = row[u] /\ col'[u] = col[u] /\ DecStirs(u)
  BY DEF DecOthersStay
<1>2. DecFits(u)
  BY DEF DecShapes, DecFits
<1>3. /\ pc'[u] \in DecParsing \cup Dec!InRow \cup {"error", "release"} =>
            pc[u] \in DecParsing \cup Dec!InRow \cup {"error", "release"}
      /\ pc'[u] \in DecAtBlock => pc[u] \in DecAtBlock
      /\ pc'[u] = "row_done" => pc[u] = "row_done"
  BY <1>1 DEF DecStirs, Stirs, DecParsing, Dec!InRow, DecAtBlock
<1> QED BY <1>1, <1>2, <1>3 DEF DecFits

\* A worker that stays where it is.
LEMMA DecRemains ==
    ASSUME DecShapes, NEW t \in Workers, UNCHANGED <<tile, row, col>>,
           pc' \in [Workers -> Dec!Places], \A u \in Workers \ {t} : DecStirs(u),
           pc'[t] \in DecParsing \cup Dec!InRow \cup {"error", "release"} =>
                row[t] < TileHeights[tile[t]],
           pc'[t] \in DecAtBlock => col[t] < TileWidths[tile[t]],
           pc'[t] # "row_done"
    PROVE  DecOthersStay(t) /\ (\A u \in Workers : DecFits(u)')
<1>1. DecOthersStay(t)
  BY DEF DecOthersStay
<1>2. row[t] <= TileHeights[tile[t]]
  BY DEF DecShapes
<1>3. DecFits(t)'
  BY <1>2 DEF DecFits
<1> QED BY <1>1, <1>3, DecOthersFit

\* Every step of a worker is of one of these kinds, and keeps the shapes.
LEMMA DecStepKinds ==
    ASSUME DecShapes, DecExitMeans, DecParsers, NEW t \in Workers,
           Dec!Step(t) \/ Dec!FindCorruption(t) \/ Dec!Throw(t) \/ Dec!Spurious(t)
    PROVE  DecShapes' /\ DecStep(t)
<1> DEFINE k == tile[t]
           Tiled == UNCHANGED <<tiles_left, parse_done, decode_started, num_threads_working>>
           Same == UNCHANGED <<tile, row, col>> /\ Tiled
                   /\ UNCHANGED <<row_mt_exit, cur_sb_col, corrupted, done, outcome>>
           Goes(w) == /\ pc' \in [Workers -> Dec!Places] /\ pc'[t] = w
                      /\ \A u \in Workers \ {t} : DecStirs(u)
           Fit == \A u \in Workers : DecFits(u)'
<1>1. /\ pc \in [Workers -> Dec!Places] /\ tile \in [Workers -> Dec!Tiles]
      /\ row \in [Workers -> Nat] /\ col \in [Workers -> Nat] /\ tiles_left \subseteq Dec!Tiles
      /\ parse_done \in [Dec!Tiles -> Nat] /\ decode_started \in [Dec!Tiles -> Nat]
      /\ num_threads_working \in [Dec!Tiles -> Int] /\ cur_sb_col \in [Dec!RowIds -> Int]
      /\ corrupted \subseteq Workers /\ done \subseteq Dec!Blocks
      /\ k \in Dec!Tiles /\ row[t] \in Nat /\ col[t] \in Nat
      /\ TileHeights[k] \in Nat \ {0} /\ TileWidths[k] \in Nat \ {0} /\ ExtraDelay \in Nat
  BY DecSizes DEF DecShapes
<1>2. /\ row[t] <= TileHeights[k]
      /\ pc[t] \in DecParsing \cup Dec!InRow \cup {"error", "release"} => row[t] < TileHeights[k]
      /\ pc[t] \in DecAtBlock => col[t] < TileWidths[k]
  BY DEF DecShapes
<1>3. ASSUME pc' \in [Workers -> Dec!Places], Fit, Same
      PROVE  DecShapes'
  <2> HIDE DEF k
  <2> QED BY <1>3 DEF DecShapes, DecFits
<1>4. CASE Dec!TakeTile(t)
  <2>1. /\ pc[t] = "next_tile"
        /\ UNCHANGED <<col, parse_done, decode_started, num_threads_working, row_mt_exit, cur_sb_col,
                       corrupted, done, outcome>>
    BY <1>4 DEF Dec!TakeTile
  <2>2. CASE Dec!GoesTo(t, "next_row") /\ UNCHANGED <<tile, row, tiles_left>>
    <3>1. Goes("next_row")
      BY <2>2, DecGoes DEF Dec!Places
    <3>2. DecOthersStay(t) /\ Fit
      BY <2>1, <2>2, <3>1, DecRemains DEF DecParsing, Dec!InRow, DecAtBlock
    <3>3. DecShapes'
      BY <1>3, <2>1, <2>2, <3>1, <3>2
    <3> QED BY <2>1, <2>2, <3>1, <3>2, <3>3 DEF DecStep, DecWalks, DecRoute
  <2>3. ASSUME NEW j \in tiles_left, tiles_left' = tiles_left \ {j}, tile' = [tile EXCEPT ![t] = j],
               row' = [row EXCEPT ![t] = 0], Dec!GoesTo(t, "enter")
        PROVE  DecShapes' /\ DecStep(t)
    <3>1. Goes("enter")
      BY <2>3, DecGoes DEF Dec!Places
    <3>2. /\ tile' \in [Workers -> Dec!Tiles] /\ row' \in [Workers -> Nat]
          /\ tile'[t] = j /\ row'[t] = 0 /\ j \in Dec!Tiles
          /\ \A u \in Workers \ {t} : tile'[u] = tile[u] /\ row'[u] = row[u]
      BY <1>1, <2>3
    <3>3. DecOthersStay(t)
      BY <2>1, <3>1, <3>2 DEF DecOthersStay
    <3>4. DecFits(t)'
      <4>1. TileHeights[j] \in Nat \ {0}
        BY <3>2, DecSizes
      <4> QED BY <3>1, <3>2, <4>1 DEF DecFits, DecAtBlock
    <3>5. Fit
      BY <3>3, <3>4, DecOthersFit
    <3>6. DecShapes'
      <4> HIDE DEF k
      <4> QED BY <1>1, <2>1, <2>3, <3>1, <3>2, <3>5 DEF DecShapes, DecFits
    <3> QED BY <2>1, <2>3, <3>1, <3>2, <3>3, <3>6 DEF DecStep, DecTakesTile
  <2> QED BY <1>4, <2>2, <2>3 DEF Dec!TakeTile
<1>5. CASE Dec!EnterTile(t)
  <2>1. /\ pc[t] = "enter" /\ Dec!GoesTo(t, "parse")
        /\ num_threads_working' = [num_threads_working EXCEPT ![k] = num_threads_working[k] + 1]
        /\ UNCHANGED <<tile, row, col, tiles_left, parse_done, decode_started, row_mt_exit,
                       cur_sb_col, corrupted, done, outcome>>
    BY <1>5 DEF Dec!EnterTile, Dec!place
  <2>2. Goes("parse")
    BY <2>1, DecGoes DEF Dec!Places
  <2>3. DecOthersStay(t) /\ Fit
    BY <1>2, <2>1, <2>2, DecRemains DEF DecParsing, DecAtBlock
  <2>4. num_threads_working' \in [Dec!Tiles -> Int]
    BY <1>1, <2>1
  <2>5. DecShapes'
    <3> HIDE DEF k
    <3> QED BY <2>1, <2>2, <2>3, <2>4 DEF DecShapes, DecFits
  <2> QED BY <2>1, <2>2, <2>3, <2>5 DEF DecStep, DecEnters
<1>6. CASE Dec!ParseRow(t)
  <2>1. /\ pc[t] = "parse" /\ Dec!GoesTo(t, "signal")
        /\ done' = done \cup {<<"parse", k, row[t]>>}
        /\ UNCHANGED <<tile, row, col, tiles_left, parse_done, decode_started, num_threads_working,
                       row_mt_exit, cur_sb_col, corrupted, outcome>>
    BY <1>6 DEF Dec!ParseRow, Dec!place, Dec!tileVars
  <2>2. Goes("signal")
    BY <2>1, DecGoes DEF Dec!Places
  <2>3. DecOthersStay(t) /\ Fit
    BY <1>2, <2>1, <2>2, DecRemains DEF DecParsing, DecAtBlock
  <2>4. done' \subseteq Dec!Blocks
    <3>1. row[t] \in DecRows(k)
      BY <1>1, <1>2, <2>1, DecSizes DEF DecParsing
    <3> QED BY <1>1, <2>1, <3>1, DecMembers
  <2>5. DecShapes'
    <3> HIDE DEF k
    <3> QED BY <2>1, <2>2, <2>3, <2>4 DEF DecShapes, DecFits
  <2> QED BY <2>1, <2>2, <2>3, <2>5 DEF DecStep, DecParses
<1>7. CASE Dec!ParseRowDone(t)
  <2> DEFINE w == IF row[t] + 1 = TileHeights[k] THEN "leave" ELSE "parse"
  <2>1. /\ pc[t] = "signal" /\ Dec!Signal(t, w)
        /\ parse_done' = [parse_done EXCEPT ![k] = parse_done[k] + 1]
        /\ row' = [row EXCEPT ![t] = row[t] + 1]
        /\ UNCHANGED <<tile, col, tiles_left, decode_started, num_threads_working, row_mt_exit,
                       cur_sb_col, corrupted, done, outcome>>
    BY <1>7 DEF Dec!ParseRowDone
  <2>2. w \in Dec!Places /\ w \in {"leave", "parse"} /\ (w = "parse" => row[t] + 1 # TileHeights[k])
    BY DEF Dec!Places
  <2>3. Goes(w)
    <3> HIDE DEF w
    <3> QED BY <2>1, <2>2, DecSignalWakes
  <2>4. /\ row' \in [Workers -> Nat] /\ row'[t] = row[t] + 1
        /\ \A u \in Workers \ {t} : row'[u] = row[u]
    BY <1>1, <2>1
  <2>5. DecOthersStay(t)
    BY <2>1, <2>3, <2>4 DEF DecOthersStay
  <2>6. row[t] < TileHeights[k]
    BY <1>2, <2>1 DEF DecParsing
  <2>7. DecFits(t)'
    <3> HIDE DEF w
    <3>1. row[t] + 1 <= TileHeights[k] /\ (w = "parse" => row[t] + 1 < TileHeights[k])
      BY <1>1, <2>2, <2>6
    <3> QED BY <2>1, <2>2, <2>3, <2>4, <3>1 DEF DecFits, DecAtBlock, DecParsing, Dec!InRow
  <2>8. Fit
    BY <2>5, <2>7, DecOthersFit
  <2>9. parse_done' \in [Dec!Tiles -> Nat] /\ parse_done'[k] = parse_done[k] + 1
        /\ \A j \in Dec!Tiles \ {k} : parse_done'[j] = parse_done[j]
    BY <1>1, <2>1
  <2>10. \A j \in Dec!Tiles : decode_started[j] <= parse_done'[j] /\ parse_done'[j] <= TileHeights[j]
    <3>1. parse_done[k] = row[t]
      BY <2>1 DEF DecParsers, DecParsing
    <3>2. decode_started[k] <= parse_done[k] /\ decode_started[k] \in Nat
      BY <1>1 DEF DecShapes
    <3>3. decode_started[k] <= parse_done'[k] /\ parse_done'[k] <= TileHeights[k]
      BY <1>1, <2>6, <2>9, <3>1, <3>2
    <3> HIDE DEF k
    <3> QED BY <2>9, <3>3 DEF DecShapes
  <2>11. DecShapes'
    <3> HIDE DEF k, w
    <3> QED BY <2>1, <2>3, <2>4, <2>8, <2>9, <2>10 DEF DecShapes, DecFits
  <2>12. pc'[t] \in {"parse", "leave"}
    <3> HIDE DEF w
    <3> QED BY <2>2, <2>3
  <2> QED BY <2>1, <2>4, <2>5, <2>11, <2>12 DEF DecStep, DecSignals
<1>8. CASE Dec!LeaveTile(t) \/ Dec!RowDone(t)
  <2> DEFINE w == IF pc[t] = "row_done" THEN "next_row"
                  ELSE IF t \in corrupted THEN "corrupt" ELSE "next_tile"
  <2>1. /\ pc[t] \in {"leave", "row_done"} /\ Dec!GoesTo(t, w)
        /\ num_threads_working' = [num_threads_working EXCEPT ![k] = num_threads_working[k] - 1]
        /\ UNCHANGED <<tile, row, col, tiles_left, parse_done, decode_started, row_mt_exit,
                       cur_sb_col, corrupted, done, outcome>>
    BY <1>8 DEF Dec!LeaveTile, Dec!RowDone, Dec!place
  <2>2. w \in Dec!Places /\ w \in {"corrupt", "next_tile", "next_row"}
    BY DEF Dec!Places
  <2>3. Goes(w)
    <3> HIDE DEF w
    <3> QED BY <2>1, <2>2, DecGoes
  <2>4. DecOthersStay(t) /\ Fit
    <3> HIDE DEF w
    <3> QED BY <2>1, <2>2, <2>3, DecRemains DEF DecParsing, Dec!InRow, DecAtBlock
  <2>5. num_threads_working' \in [Dec!Tiles -> Int]
    BY <1>1, <2>1
  <2>6. DecShapes'
    <3> HIDE DEF k, w
    <3> QED BY <2>1, <2>3, <2>4, <2>5 DEF DecShapes, DecFits
  <2>7. \/ pc[t] = "leave" /\ t \in corrupted /\ pc'[t] = "corrupt"
        \/ pc[t] = "leave" /\ pc'[t] = "next_tile"
        \/ pc[t] = "row_done" /\ pc'[t] = "next_row"
    BY <2>1, <2>3
  <2> QED BY <2>1, <2>4, <2>6, <2>7 DEF DecStep, DecLeaves
<1>9. CASE Dec!TakeRow(t)
  <2>1. PICK j \in Dec!Chosen :
            /\ tile' = [tile EXCEPT ![t] = j]
            /\ row' = [row EXCEPT ![t] = decode_started[j]]
            /\ decode_started' = [decode_started EXCEPT ![j] = decode_started[j] + 1]
            /\ num_threads_working' = [num_threads_working EXCEPT ![j] = num_threads_working[j] + 1]
    BY <1>9 DEF Dec!TakeRow
  <2>2. /\ pc[t] = "next_row" /\ ~row_mt_exit /\ col' = [col EXCEPT ![t] = 0]
        /\ Dec!Broadcast(t, "read") \/ Dec!GoesTo(t, "read")
        /\ UNCHANGED <<tiles_left, parse_done, row_mt_exit, cur_sb_col, corrupted, done, outcome>>
    BY <1>9 DEF Dec!TakeRow
  <2>3. j \in Dec!Tiles /\ decode_started[j] < parse_done[j]
    <3>1. j \in Dec!Tiles /\ parse_done[j] > decode_started[j]
      BY DEF Dec!Chosen, Dec!Candidates, Dec!Waiting, Dec!RowsParsed
    <3> QED BY <1>1, <3>1
  <2>4. Goes("read")
    BY <2>2, DecGoes, DecBroadcasts DEF Dec!Places
  <2>5. /\ decode_started[j] \in Nat /\ parse_done[j] \in Nat /\ parse_done[j] <= TileHeights[j]
        /\ TileHeights[j] \in Nat \ {0} /\ TileWidths[j] \in Nat \ {0}
    BY <1>1, <2>3, DecSizes DEF DecShapes
  <2>6. /\ tile' \in [Workers -> Dec!Tiles] /\ row' \in [Workers -> Nat] /\ col' \in [Workers -> Nat]
        /\ tile'[t] = j /\ row'[t] = decode_started[j] /\ col'[t] = 0
        /\ \A u \in Workers \ {t} : tile'[u] = tile[u] /\ row'[u] = row[u] /\ col'[u] = col[u]
    BY <1>1, <2>1, <2>2, <2>3, <2>5
  <2>7. DecOthersStay(t)
    BY <2>4, <2>6 DEF DecOthersStay
  <2>8. DecFits(t)'
    BY <2>3, <2>4, <2>5, <2>6 DEF DecFits
  <2>9. Fit
    BY <2>7, <2>8, DecOthersFit
  <2>10. /\ decode_started' \in [Dec!Tiles -> Nat] /\ num_threads_working' \in [Dec!Tiles -> Int]
         /\ \A i \in Dec!Tiles : decode_started'[i] <= parse_done[i]
    <3>1. decode_started[j] + 1 <= parse_done[j]
      BY <2>3, <2>5
    <3> QED BY <1>1, <2>1, <2>3, <3>1 DEF DecShapes
  <2>11. DecShapes'
    <3> HIDE DEF k
    <3> QED BY <2>2, <2>4, <2>6, <2>9, <2>10 DEF DecShapes, DecFits
  <2> QED BY <2>1, <2>2, <2>3, <2>4, <2>6, <2>7, <2>11 DEF DecStep, DecTakesRow
<1>10. CASE Dec!EndOfFrame(t)
  <2>1. pc[t] = "next_row" /\ Same
    BY <1>10 DEF Dec!EndOfFrame, Dec!place, Dec!tileVars
  <2>2. PICK w \in {"returned", "waiting"} :
            Dec!GoesTo(t, w) /\ (w = "returned" => Dec!AllStarted \/ row_mt_exit)
    BY <1>10 DEF Dec!EndOfFrame
  <2>3. Goes(w)
    BY <2>2, DecGoes DEF Dec!Places
  <2>4. DecOthersStay(t) /\ Fit
    BY <2>1, <2>2, <2>3, DecRemains DEF DecParsing, Dec!InRow, DecAtBlock
  <2>5. DecShapes'
    BY <1>3, <2>1, <2>3, <2>4
  <2> QED BY <2>1, <2>2, <2>3, <2>4, <2>5 DEF DecStep, DecWalks, DecRoute
<1>11. CASE Dec!SyncRead(t)
  <2> DEFINE has == row[t] = 0 \/ Dec!RowIs(k, row[t] - 1, col[t])
             w == IF has THEN "check" ELSE "asleep"
  <2>1. pc[t] = "read" /\ Dec!GoesTo(t, w) /\ Same
    BY <1>11 DEF Dec!SyncRead, Dec!place, Dec!tileVars
  <2>2. w \in Dec!Places /\ w \in {"check", "asleep"}
    BY DEF Dec!Places
  <2>3. Goes(w) /\ DecOthersStay(t) /\ Fit
    <3> HIDE DEF w
    <3>1. Goes(w)
      BY <2>1, <2>2, DecGoes
    <3> QED BY <1>2, <2>1, <2>2, <3>1, DecRemains DEF Dec!InRow, DecAtBlock
  <2>4. DecShapes'
    BY <1>3, <2>1, <2>3
  <2> QED BY <2>1, <2>3, <2>4 DEF DecStep, DecWalks, DecRoute
<1>12. CASE Dec!CheckExit(t)
  <2> DEFINE w == IF row_mt_exit THEN "write" ELSE "decode"
  <2>1. pc[t] = "check" /\ Dec!GoesTo(t, w) /\ Same
    BY <1>12 DEF Dec!CheckExit, Dec!place, Dec!tileVars
  <2>2. w \in Dec!Places /\ w \in {"write", "decode"}
    BY DEF Dec!Places
  <2>3. Goes(w) /\ DecOthersStay(t) /\ Fit
    <3> HIDE DEF w
    <3>1. Goes(w)
      BY <2>1, <2>2, DecGoes
    <3> QED BY <1>2, <2>1, <2>2, <3>1, DecRemains DEF Dec!InRow, DecAtBlock
  <2>4. DecShapes'
    BY <1>3, <2>1, <2>3
  <2> QED BY <2>1, <2>3, <2>4 DEF DecStep, DecWalks, DecRoute
<1>13. CASE Dec!Decode(t)
  <2>1. /\ pc[t] = "decode" /\ Dec!GoesTo(t, "write")
        /\ done' = done \cup {<<"decode", k, row[t], col[t]>>}
        /\ UNCHANGED <<tile, row, col, tiles_left, parse_done, decode_started, num_threads_working,
                       row_mt_exit, cur_sb_col, corrupted, outcome>>
    BY <1>13 DEF Dec!Decode, Dec!place, Dec!tileVars
  <2>2. Goes("write")
    BY <2>1, DecGoes DEF Dec!Places
  <2>3. DecOthersStay(t) /\ Fit
    BY <1>2, <2>1, <2>2, DecRemains DEF Dec!InRow, DecAtBlock
  <2>4. done' \subseteq Dec!Blocks
    <3>1. row[t] \in DecRows(k) /\ col[t] \in DecCols(k)
      BY <1>1, <1>2, <2>1, DecSizes DEF Dec!InRow, DecAtBlock
    <3> QED BY <1>1, <2>1, <3>1, DecMembers
  <2>5. DecShapes'
    <3> HIDE DEF k
    <3> QED BY <2>1, <2>2, <2>3, <2>4 DEF DecShapes, DecFits
  <2> QED BY <2>1, <2>2, <2>3, <2>5 DEF DecStep, DecDecodes
<1>14. CASE Dec!SyncWrite(t)
  <2> DEFINE last == col[t] = TileWidths[k] - 1  w == IF last THEN "row_done" ELSE "read"
             cur == IF last THEN Dec!AllCols(k) ELSE col[t]
  <2>1. /\ pc[t] = "write" /\ Dec!Publish(t, k, row[t], cur, w)
        /\ col' = [col EXCEPT ![t] = col[t] + 1]
        /\ UNCHANGED <<tile, row, tiles_left, parse_done, decode_started, num_threads_working,
                       row_mt_exit, corrupted, done, outcome>>
    BY <1>14 DEF Dec!SyncWrite, Dec!tileVars
  <2>2. w \in Dec!Places /\ w \in {"row_done", "read"}
        /\ (w = "row_done" => col[t] = TileWidths[k] - 1) /\ (w = "read" => col[t] # TileWidths[k] - 1)
    BY DEF Dec!Places
  <2>3. /\ col[t] < TileWidths[k] /\ row[t] < TileHeights[k] /\ row[t] \in DecRows(k)
        /\ cur \in Int /\ cur >= -1 /\ cur <= Dec!AllCols(k)
    <3>1. col[t] < TileWidths[k] /\ row[t] < TileHeights[k]
      BY <1>2, <2>1 DEF Dec!InRow, DecAtBlock
    <3>2. row[t] \in DecRows(k)
      <4> HIDE DEF k
      <4> QED BY <1>1, <3>1, DecSizes
    <3>3. cur \in Int /\ cur >= -1 /\ cur <= Dec!AllCols(k)
      <4>1. Dec!AllCols(k) \in Int /\ Dec!AllCols(k) >= TileWidths[k]
        BY <1>1 DEF Dec!AllCols, Dec!SyncRange
      <4> HIDE DEF k, Dec!AllCols
      <4> QED BY <1>1, <3>1, <4>1
    <3> HIDE DEF k, cur
    <3> QED BY <3>1, <3>2, <3>3
  <2>4. /\ Goes(w)
        /\ cur_sb_col' \in [Dec!RowIds -> Int]
        /\ \A x \in Dec!RowIds : cur_sb_col'[x] >= -1 /\ cur_sb_col'[x] <= Dec!AllCols(x[1])
        /\ \A x \in Dec!RowIds :
                cur_sb_col'[x] = cur_sb_col[x] \/ (x = <<k, row[t]>> /\ cur_sb_col'[x] = cur)
    <3>1. k \in Dec!Tiles
      BY <1>1
    <3> HIDE DEF k, w, cur
    <3> QED BY <2>1, <2>2, <2>3, <3>1, DecPublishes
  <2>5. /\ col' \in [Workers -> Nat] /\ col'[t] = col[t] + 1
        /\ \A u \in Workers \ {t} : col'[u] = col[u]
    BY <1>1, <2>1
  <2>6. DecOthersStay(t)
    BY <2>1, <2>4, <2>5 DEF DecOthersStay
  <2>7. DecFits(t)'
    <3>1. (w = "row_done" => col[t] + 1 = TileWidths[k]) /\ (w = "read" => col[t] + 1 < TileWidths[k])
      BY <1>1, <2>2, <2>3
    <3> HIDE DEF w
    <3> QED BY <1>2, <2>1, <2>2, <2>3, <2>4, <2>5, <3>1 DEF DecFits, DecAtBlock
  <2>8. Fit
    BY <2>6, <2>7, DecOthersFit
  <2>9. DecShapes'
    <3> HIDE DEF k, w, cur
    <3> QED BY <2>1, <2>4, <2>5, <2>8 DEF DecShapes, DecFits
  <2>10. \A x \in Dec!RowIds :
            \/ cur_sb_col'[x] = cur_sb_col[x]
            \/ x = <<k, row[t]>> /\ (cur_sb_col'[x] = col[t] \/ col[t] = TileWidths[k] - 1)
    BY <2>4
  <2> QED BY <2>1, <2>4, <2>5, <2>6, <2>9, <2>10 DEF DecStep, DecWrites
<1>15. CASE Dec!FindCorruption(t) \/ Dec!Throw(t)
  <2>1. PICK w \in {"leave", "error"} :
            /\ Dec!GoesTo(t, w)
            /\ w = "leave" => pc[t] \in {"parse", "leave"}
            /\ w = "error" => pc[t] \in {"parse", "decode"}
    BY <1>15 DEF Dec!FindCorruption, Dec!Throw
  <2>2. /\ corrupted' = corrupted \cup {t}
        /\ UNCHANGED <<tile, row, col, tiles_left, parse_done, decode_started, num_threads_working,
                       row_mt_exit, cur_sb_col, done, outcome>>
    BY <1>15 DEF Dec!FindCorruption, Dec!Throw, Dec!place, Dec!tileVars
  <2>3. Goes(w)
    BY <2>1, DecGoes DEF Dec!Places
  <2>4. DecOthersStay(t) /\ Fit
    BY <1>2, <2>1, <2>2, <2>3, DecRemains DEF DecParsing, Dec!InRow, DecAtBlock
  <2>5. DecShapes'
    <3> HIDE DEF k
    <3> QED BY <1>1, <2>2, <2>3, <2>4 DEF DecShapes, DecFits
  <2> QED BY <2>1, <2>2, <2>3, <2>4, <2>5 DEF DecStep, DecFails
<1>16. CASE Dec!RaiseExit(t)
  <2> DEFINE w == IF pc[t] = "error" THEN "release" ELSE "failed"
  <2>1. /\ pc[t] \in {"error", "corrupt"} /\ row_mt_exit' = TRUE /\ Dec!Broadcast(t, w)
        /\ UNCHANGED <<tile, row, col, tiles_left, parse_done, decode_started, num_threads_working,
                       cur_sb_col, corrupted, done, outcome>>
    BY <1>16 DEF Dec!RaiseExit, Dec!place, Dec!tileVars
  <2>2. w \in Dec!Places /\ w \in {"release", "failed"} /\ (w = "release" => pc[t] = "error")
        /\ (w = "failed" => pc[t] # "error")
    BY DEF Dec!Places
  <2>3. Goes(w) /\ DecOthersStay(t) /\ Fit
    <3> HIDE DEF w
    <3>1. Goes(w)
      BY <2>1, <2>2, DecBroadcasts
    <3> QED BY <1>2, <2>1, <2>2, <3>1, DecRemains DEF DecParsing, Dec!InRow, DecAtBlock
  <2>4. DecShapes'
    <3> HIDE DEF k, w
    <3> QED BY <2>1, <2>3 DEF DecShapes, DecFits
  <2>5. \/ pc[t] = "error" /\ pc'[t] = "release"
        \/ pc[t] \in {"corrupt", "release"} /\ pc'[t] = "failed"
    <3> HIDE DEF w
    <3> QED BY <2>1, <2>2, <2>3
  <2> QED BY <2>1, <2>3, <2>4, <2>5 DEF DecStep, DecGivesUp
<1>17. CASE Dec!Release(t)
  <2> DEFINE cur == Dec!AllCols(k)
  <2>1. /\ pc[t] = "release" /\ Dec!Publish(t, k, row[t], cur, "failed")
        /\ UNCHANGED <<tile, row, col, tiles_left, parse_done, decode_started, num_threads_working,
                       row_mt_exit, corrupted, done, outcome>>
    BY <1>17 DEF Dec!Release, Dec!place, Dec!tileVars
  <2>2. row[t] \in DecRows(k) /\ cur \in Int /\ cur >= -1
    <3>1. row[t] < TileHeights[k]
      BY <1>2, <2>1
    <3>2. row[t] \in DecRows(k)
      <4> HIDE DEF k
      <4> QED BY <1>1, <3>1, DecSizes
    <3>3. cur \in Int /\ cur >= -1
      BY <1>1 DEF Dec!AllCols, Dec!SyncRange
    <3> HIDE DEF k, cur
    <3> QED BY <3>2, <3>3
  <2>3. /\ Goes("failed")
        /\ cur_sb_col' \in [Dec!RowIds -> Int]
        /\ \A x \in Dec!RowIds : cur_sb_col'[x] >= -1 /\ cur_sb_col'[x] <= Dec!AllCols(x[1])
    <3>1. k \in Dec!Tiles /\ cur <= Dec!AllCols(k) /\ "failed" \in Dec!Places
      BY <1>1, <2>2 DEF Dec!Places
    <3> HIDE DEF k, cur
    <3> QED BY <2>1, <2>2, <3>1, DecPublishes
  <2>4. DecOthersStay(t) /\ Fit
    BY <2>1, <2>3, DecRemains DEF DecParsing, Dec!InRow, DecAtBlock
  <2>5. DecShapes'
    <3> HIDE DEF k, cur
    <3> QED BY <2>1, <2>3, <2>4 DEF DecShapes, DecFits
  <2>6. row_mt_exit
    BY <2>1 DEF DecExitMeans
  <2> QED BY <2>1, <2>3, <2>4, <2>5, <2>6 DEF DecStep, DecGivesUp
<1>18. CASE Dec!Spurious(t)
  <2> DEFINE w == IF pc[t] = "waiting" THEN "next_row" ELSE "read"
  <2>1. pc[t] \in {"waiting", "asleep"} /\ Dec!GoesTo(t, w) /\ Same
    BY <1>18 DEF Dec!Spurious, Dec!place, Dec!tileVars
  <2>2. w \in Dec!Places /\ w \in {"next_row", "read"} /\ (w = "read" => pc[t] = "asleep")
        /\ (w = "next_row" => pc[t] = "waiting")
    BY <2>1 DEF Dec!Places
  <2>3. Goes(w) /\ DecOthersStay(t) /\ Fit
    <3> HIDE DEF w
    <3>1. Goes(w)
      BY <2>1, <2>2, DecGoes
    <3> QED BY <1>2, <2>1, <2>2, <3>1, DecRemains DEF DecParsing, Dec!InRow, DecAtBlock
  <2>4. DecShapes'
    BY <1>3, <2>1, <2>3
  <2> QED BY <2>1, <2>2, <2>3, <2>4 DEF DecStep, DecWalks, DecRoute
<1> QED BY <1>4, <1>5, <1>6, <1>7, <1>8, <1>9, <1>10, <1>11, <1>12, <1>13, <1>14, <1>15, <1>16,
           <1>17, <1>18 DEF Dec!Step

-----------------------------------------------------------------------------
\* The tiles: each part of the invariant is kept.

\* A step of a thread of the decoder keeps DecExitMeans.
LEMMA DecExitMeansKept ==
    ASSUME DecExitMeans, NEW t \in Workers, DecStep(t)
    PROVE  DecExitMeans'
<1>1. \A u \in Workers \ {t} :
        /\ pc'[u] \in {"release", "failed"} <=> pc[u] \in {"release", "failed"}
        /\ pc'[u] \in DecSpoilt <=> pc[u] \in DecSpoilt
  BY DEF DecStep, DecWalks, DecTakesTile, DecEnters, DecParses, DecSignals, DecLeaves, DecTakesRow,
         DecDecodes, DecWrites, DecFails, DecGivesUp, DecOthersStay, DecStirs, Stirs, DecSpoilt
<1>2. CASE DecGivesUp(t)
  BY <1>1, <1>2 DEF DecGivesUp, DecExitMeans, DecSpoilt
<1>3. CASE ~DecGivesUp(t)
  <2>1. /\ row_mt_exit' = row_mt_exit /\ corrupted \subseteq corrupted'
        /\ pc[t] \notin {"release", "failed"} /\ pc'[t] \notin {"release", "failed"}
    BY <1>3 DEF DecStep, DecWalks, DecRoute, DecTakesTile, DecEnters, DecParses, DecSignals,
                DecLeaves, DecTakesRow, DecDecodes, DecWrites, DecFails
  <2>2. pc'[t] \in DecSpoilt => t \in corrupted'
    BY <1>3 DEF DecStep, DecWalks, DecRoute, DecTakesTile, DecEnters, DecParses, DecSignals,
                DecLeaves, DecTakesRow, DecDecodes, DecWrites, DecFails, DecSpoilt
  <2> QED BY <1>1, <2>1, <2>2 DEF DecExitMeans
<1> QED BY <1>2, <1>3

\* What a step leaves of a worker that does not take it.
LEMMA DecOthers ==
    ASSUME NEW t \in Workers, DecStep(t), NEW u \in Workers \ {t}
    PROVE  /\ tile'[u] = tile[u] /\ row'[u] = row[u] /\ col'[u] = col[u]
           /\ \A where \in Dec!Places \ {"next_row", "waiting", "read", "asleep"} :
                pc'[u] = where <=> pc[u] = where
           /\ pc'[u] \in DecParsing <=> pc[u] \in DecParsing
           /\ pc'[u] \in Dec!InRow <=> pc[u] \in Dec!InRow
           /\ pc'[u] \in DecCounted <=> pc[u] \in DecCounted
           /\ pc'[u] \in {"returned", "failed"} <=> pc[u] \in {"returned", "failed"}
           /\ DecPast(u)' = DecPast(u)
<1>1. tile'[u] = tile[u] /\ row'[u] = row[u] /\ col'[u] = col[u] /\ DecStirs(u)
  BY DEF DecStep, DecWalks, DecTakesTile, DecEnters, DecParses, DecSignals, DecLeaves, DecTakesRow,
         DecDecodes, DecWrites, DecFails, DecGivesUp, DecOthersStay
<1>2. /\ \A where \in Dec!Places \ {"next_row", "waiting", "read", "asleep"} :
                pc'[u] = where <=> pc[u] = where
      /\ pc'[u] = "write" <=> pc[u] = "write"
  BY <1>1 DEF DecStirs, Stirs
<1>3. /\ pc'[u] \in DecParsing <=> pc[u] \in DecParsing
      /\ pc'[u] \in Dec!InRow <=> pc[u] \in Dec!InRow
      /\ pc'[u] \in DecCounted <=> pc[u] \in DecCounted
      /\ pc'[u] \in {"returned", "failed"} <=> pc[u] \in {"returned", "failed"}
  BY <1>1 DEF DecStirs, Stirs, DecParsing, Dec!InRow, DecCounted
<1> QED BY <1>1, <1>2, <1>3 DEF DecPast

\* What a step adds to the blocks that are done.
LEMMA DecAdds ==
    ASSUME NEW t \in Workers, DecStep(t)
    PROVE  \/ done' = done
           \/ DecParses(t) /\ pc[t] = "parse" /\ done' = done \cup {<<"parse", tile[t], row[t]>>}
           \/ DecDecodes(t) /\ pc[t] = "decode" /\ done' = done \cup {<<"decode", tile[t], row[t], col[t]>>}
  BY DEF DecStep, DecWalks, DecTakesTile, DecEnters, DecParses, DecSignals, DecLeaves, DecTakesRow,
         DecDecodes, DecWrites, DecFails, DecGivesUp

\* Who stays in a row stays in the same one.
LEMMA DecStays ==
    ASSUME NEW t \in Workers, DecStep(t), ~DecTakesRow(t)
    PROVE  /\ decode_started' = decode_started
           /\ pc'[t] \in Dec!InRow =>
                pc[t] \in Dec!InRow /\ tile'[t] = tile[t] /\ row'[t] = row[t]
<1>1. CASE DecWalks(t)
  BY <1>1 DEF DecWalks, DecRoute, Dec!InRow
<1>2. CASE ~DecWalks(t)
  BY <1>2 DEF DecStep, DecTakesTile, DecEnters, DecParses, DecSignals, DecLeaves, DecDecodes,
              DecWrites, DecFails, DecGivesUp, Dec!InRow
<1> QED BY <1>1, <1>2

\* A step of a thread of the decoder keeps DecParsers.
LEMMA DecParsersKept ==
    ASSUME DecShapes, DecParsers, NEW t \in Workers, DecStep(t)
    PROVE  DecParsers'
<1>1. \A u \in Workers \ {t} :
        /\ tile'[u] = tile[u] /\ row'[u] = row[u]
        /\ pc'[u] \in DecParsing <=> pc[u] \in DecParsing
  BY DecOthers
<1>2. /\ parse_done \in [Dec!Tiles -> Nat] /\ tiles_left \subseteq Dec!Tiles
      /\ \A u \in Workers : tile[u] \in Dec!Tiles /\ row[u] \in Nat
  BY DEF DecShapes
<1>3. CASE DecTakesTile(t)
  <2>1. /\ tile'[t] \in tiles_left /\ row'[t] = 0 /\ tiles_left' = tiles_left \ {tile'[t]}
        /\ parse_done' = parse_done
    BY <1>3 DEF DecTakesTile
  <2>2. \A u \in Workers \ {t} : pc'[u] \in DecParsing => tile'[u] # tile'[t]
    BY <1>1, <2>1 DEF DecParsers
  <2> QED BY <1>1, <2>1, <2>2 DEF DecParsers
<1>4. CASE DecSignals(t)
  <2>1. /\ pc[t] \in DecParsing /\ tile' = tile /\ tiles_left' = tiles_left /\ row'[t] = row[t] + 1
        /\ parse_done'[tile[t]] = parse_done[tile[t]] + 1
        /\ \A k \in Dec!Tiles \ {tile[t]} : parse_done'[k] = parse_done[k]
    BY <1>2, <1>4 DEF DecSignals, DecParsing
  <2>2. tile[t] \notin tiles_left /\ parse_done[tile[t]] = row[t]
    BY <2>1 DEF DecParsers
  <2>3. \A u \in Workers \ {t} : pc'[u] \in DecParsing => pc[u] \in DecParsing /\ tile[u] # tile[t]
    BY <1>1, <2>1 DEF DecParsers
  <2>4. \A k \in tiles_left' : parse_done'[k] = 0
    BY <1>2, <2>1, <2>2 DEF DecParsers
  <2>5. \A u \in Workers : pc'[u] \in DecParsing =>
            tile'[u] \notin tiles_left' /\ parse_done'[tile'[u]] = row'[u]
    <3>1. \A u \in Workers \ {t} : pc'[u] \in DecParsing =>
            tile'[u] \notin tiles_left' /\ parse_done'[tile'[u]] = row'[u]
      BY <1>1, <1>2, <2>1, <2>3 DEF DecParsers
    <3> QED BY <2>1, <2>2, <3>1
  <2> QED BY <1>1, <2>1, <2>3, <2>4, <2>5 DEF DecParsers
<1>5. CASE ~DecTakesTile(t) /\ ~DecSignals(t)
  <2>1. /\ tiles_left' = tiles_left /\ parse_done' = parse_done
        /\ pc'[t] \in DecParsing => pc[t] \in DecParsing /\ tile'[t] = tile[t] /\ row'[t] = row[t]
    <3>1. CASE DecWalks(t)
      BY <3>1 DEF DecWalks, DecRoute, DecParsing
    <3>2. CASE ~DecWalks(t)
      BY <1>5, <3>2 DEF DecStep, DecEnters, DecParses, DecLeaves, DecTakesRow, DecDecodes,
                        DecWrites, DecFails, DecGivesUp, DecParsing
    <3> QED BY <3>1, <3>2
  <2> QED BY <1>1, <2>1 DEF DecParsers
<1> QED BY <1>3, <1>4, <1>5

\* A step of a thread of the decoder keeps DecParsed.
LEMMA DecParsedKept ==
    ASSUME DecShapes, DecParsers, DecParsed, NEW t \in Workers, DecStep(t)
    PROVE  DecParsed'
<1> SUFFICES ASSUME NEW k \in Dec!Tiles, NEW r \in DecRows(k)
             PROVE  <<"parse", k, r>> \in done' <=>
                        \/ r < parse_done'[k]
                        \/ \E u \in Workers : pc'[u] = "signal" /\ tile'[u] = k /\ row'[u] = r
  BY DEF DecParsed
<1> DEFINE Held == \E u \in Workers : pc[u] = "signal" /\ tile[u] = k /\ row[u] = r
<1>1. <<"parse", k, r>> \in done <=> r < parse_done[k] \/ Held
  BY DEF DecParsed
<1>2. \A u \in Workers \ {t} :
        tile'[u] = tile[u] /\ row'[u] = row[u] /\ (pc'[u] = "signal" <=> pc[u] = "signal")
  BY DecOthers DEF Dec!Places
<1>3. /\ parse_done \in [Dec!Tiles -> Nat] /\ r \in Nat /\ tile[t] \in Dec!Tiles /\ row[t] \in Nat
      /\ pc[t] \in DecParsing => parse_done[tile[t]] = row[t]
  BY DecSizes DEF DecShapes, DecParsers
<1>4. CASE DecParses(t)
  <2>1. /\ pc'[t] = "signal" /\ tile' = tile /\ row' = row /\ parse_done' = parse_done
        /\ done' = done \cup {<<"parse", tile[t], row[t]>>} /\ pc[t] = "parse"
    BY <1>4 DEF DecParses
  <2> QED BY <1>1, <1>2, <2>1
<1>5. CASE DecSignals(t)
  <2>1. /\ pc[t] = "signal" /\ pc[t] \in DecParsing /\ done' = done /\ tile' = tile
        /\ parse_done' = [parse_done EXCEPT ![tile[t]] = parse_done[tile[t]] + 1]
    BY <1>5 DEF DecSignals, DecParsing
  <2>2. CASE tile[t] = k
    <3>1. parse_done'[k] = row[t] + 1 /\ parse_done[k] = row[t]
      BY <1>3, <2>1, <2>2
    <3>2. r < parse_done'[k] <=> r < parse_done[k] \/ r = row[t]
      BY <1>3, <3>1
    <3>3. pc'[t] # "signal"
      BY <1>5 DEF DecSignals
    <3> QED BY <1>1, <1>2, <2>1, <2>2, <3>2, <3>3
  <2>3. CASE tile[t] # k
    <3>1. parse_done'[k] = parse_done[k]
      BY <1>3, <2>1, <2>3
    <3> QED BY <1>1, <1>2, <2>1, <2>3, <3>1
  <2> QED BY <2>2, <2>3
<1>6. CASE ~DecParses(t) /\ ~DecSignals(t)
  <2>1. /\ parse_done' = parse_done /\ pc[t] # "signal" /\ pc'[t] # "signal"
        /\ done' = done \/ done' = done \cup {<<"decode", tile[t], row[t], col[t]>>}
    <3>1. CASE DecWalks(t)
      BY <3>1 DEF DecWalks, DecRoute
    <3>2. CASE ~DecWalks(t)
      BY <1>6, <3>2 DEF DecStep, DecTakesTile, DecEnters, DecLeaves, DecTakesRow, DecDecodes,
                        DecWrites, DecFails, DecGivesUp
    <3> QED BY <3>1, <3>2
  <2>2. <<"parse", k, r>> \in done' <=> <<"parse", k, r>> \in done
    BY <2>1, DecKinds
  <2> QED BY <1>1, <1>2, <2>1, <2>2
<1> QED BY <1>4, <1>5, <1>6

\* A step of a thread of the decoder keeps DecApart.
LEMMA DecApartKept ==
    ASSUME DecShapes, DecApart, NEW t \in Workers, DecStep(t), DecShapes'
    PROVE  DecApart'
<1>1. \A u \in Workers \ {t} :
        /\ tile'[u] = tile[u] /\ row'[u] = row[u]
        /\ pc'[u] \in Dec!InRow <=> pc[u] \in Dec!InRow
  BY DecOthers
<1>2. /\ decode_started \in [Dec!Tiles -> Nat] /\ \A u \in Workers : tile[u] \in Dec!Tiles /\ row[u] \in Nat
      /\ \A k \in Dec!Tiles : \A r \in DecRows(k) : r \in Nat
  BY DecSizes DEF DecShapes
<1>3. CASE DecTakesRow(t)
  <2> DEFINE j == tile'[t]
  <2>1. /\ row'[t] = decode_started[j] /\ done' = done
        /\ decode_started' = [decode_started EXCEPT ![j] = decode_started[j] + 1]
    BY <1>3 DEF DecTakesRow
  <2>2. \A k \in Dec!Tiles, r \in Nat : r < decode_started[k] => r < decode_started'[k]
    <3> HIDE DEF j
    <3> QED BY <1>2, <2>1
  <2>3. \A u \in Workers \ {t} : pc'[u] \in Dec!InRow =>
            row'[u] < decode_started[tile'[u]] /\ tile'[u] \in Dec!Tiles /\ row'[u] \in Nat
    BY <1>1, <1>2 DEF DecApart
  <2>4. \A u \in Workers \ {t} : pc'[u] \in Dec!InRow => <<tile'[t], row'[t]>> # <<tile'[u], row'[u]>>
    <3>1. SUFFICES ASSUME NEW u \in Workers \ {t}, pc'[u] \in Dec!InRow,
                          tile'[u] = tile'[t], row'[u] = row'[t]
                   PROVE  FALSE
      OBVIOUS
    <3>2. row'[u] \in Nat /\ row'[u] < row'[u]
      BY <2>1, <2>3, <3>1
    <3> QED BY <3>2
  <2>5. row'[t] < decode_started'[j]
    <3>1. j \in Dec!Tiles
      BY DEF DecShapes
    <3> HIDE DEF j
    <3> QED BY <1>2, <2>1, <3>1
  <2>6. \A u \in Workers : pc'[u] \in Dec!InRow => row'[u] < decode_started'[tile'[u]]
    BY <2>2, <2>3, <2>5
  <2>7. \A u, v \in Workers \ {t} : u # v /\ pc'[u] \in Dec!InRow /\ pc'[v] \in Dec!InRow =>
            <<tile'[u], row'[u]>> # <<tile'[v], row'[v]>>
    BY <1>1 DEF DecApart
  <2>8. \A k \in Dec!Tiles : \A r \in DecRows(k) : \A c \in DecCols(k) :
            <<"decode", k, r, c>> \in done' => r < decode_started'[k]
    BY <1>2, <2>1, <2>2 DEF DecApart
  <2> QED BY <2>4, <2>6, <2>7, <2>8 DEF DecApart
<1>4. CASE ~DecTakesRow(t)
  <2>1. /\ decode_started' = decode_started
        /\ pc'[t] \in Dec!InRow => pc[t] \in Dec!InRow /\ tile'[t] = tile[t] /\ row'[t] = row[t]
    BY <1>4, DecStays
  <2>2. \A k \in Dec!Tiles : \A r \in DecRows(k) : \A c \in DecCols(k) :
            <<"decode", k, r, c>> \in done' => r < decode_started[k]
    <3>1. pc[t] = "decode" => row[t] < decode_started[tile[t]]
      BY DEF DecApart, Dec!InRow
    <3> QED BY <3>1, DecAdds, DecKinds DEF DecApart
  <2> QED BY <1>1, <2>1, <2>2 DEF DecApart
<1> QED BY <1>3, <1>4

\* A step of a thread of the decoder keeps DecSoFar.
LEMMA DecSoFarKept ==
    ASSUME DecShapes, DecApart, DecSoFar, NEW t \in Workers, DecStep(t), DecShapes'
    PROVE  DecSoFar'
<1> DEFINE Sound(u) == \A c \in DecCols(tile[u]) : <<"decode", tile[u], row[u], c>> \in done => c < DecPast(u)
           Full(u) == \A c \in DecCols(tile[u]) : c < DecPast(u) => <<"decode", tile[u], row[u], c>> \in done
           Of(u) == Sound(u) /\ (~row_mt_exit \/ pc[u] = "decode" => Full(u))
<1>1. \A u \in Workers : pc[u] \in Dec!InRow => Of(u)
  BY DEF DecSoFar
<1>2. ASSUME NEW u \in Workers \ {t}, pc'[u] \in Dec!InRow
      PROVE  Of(u)'
  <2>1. /\ pc[u] \in Dec!InRow /\ tile'[u] = tile[u] /\ row'[u] = row[u] /\ DecPast(u)' = DecPast(u)
        /\ pc'[u] = "decode" <=> pc[u] = "decode"
    BY <1>2, DecOthers DEF Dec!Places
  <2>2. pc[t] = "decode" => <<tile[t], row[t]>> # <<tile[u], row[u]>>
    BY <2>1 DEF DecApart, Dec!InRow
  <2>3. \A c : <<"decode", tile[u], row[u], c>> \in done' <=> <<"decode", tile[u], row[u], c>> \in done
    BY <2>2, DecAdds, DecKinds
  <2>4. ~row_mt_exit' => ~row_mt_exit
    BY DEF DecStep, DecWalks, DecTakesTile, DecEnters, DecParses, DecSignals, DecLeaves, DecTakesRow,
           DecDecodes, DecWrites, DecFails, DecGivesUp
  <2>5. (Sound(u) => Sound(u)') /\ (Full(u) => Full(u)')
    <3> HIDE DEF DecPast
    <3> QED BY <2>1, <2>3
  <2> HIDE DEF Sound, Full
  <2> QED BY <1>1, <2>1, <2>4, <2>5
<1>3. ASSUME pc'[t] \in Dec!InRow
      PROVE  Of(t)'
  <2>0. col[t] \in Nat /\ \A c \in DecCols(tile[t]) : c \in Nat
    BY DecSizes DEF DecShapes
  <2>1. CASE DecWalks(t)
    <3>1. /\ tile' = tile /\ row' = row /\ col' = col /\ done' = done /\ row_mt_exit' = row_mt_exit
          /\ pc[t] \in Dec!InRow
          /\ \/ pc[t] = "check" /\ pc'[t] = "write" /\ row_mt_exit
             \/ pc[t] # "write" /\ pc'[t] # "write" /\ (pc'[t] = "decode" => ~row_mt_exit)
      BY <1>3, <2>1 DEF DecWalks, DecRoute, Dec!InRow
    <3>2. CASE pc[t] = "check" /\ pc'[t] = "write" /\ row_mt_exit
      <4>1. DecPast(t)' = col[t] + 1 /\ DecPast(t) = col[t]
        BY <3>1, <3>2 DEF DecPast
      <4>2. \A c \in DecCols(tile[t]) : c < col[t] => c < col[t] + 1
        BY <2>0
      <4>3. Sound(t)
        BY <1>1, <3>1
      <4> HIDE DEF DecPast
      <4> QED BY <3>1, <3>2, <4>1, <4>2, <4>3
    <3>3. CASE pc[t] # "write" /\ pc'[t] # "write" /\ (pc'[t] = "decode" => ~row_mt_exit)
      <4>1. DecPast(t)' = DecPast(t)
        BY <3>1, <3>3 DEF DecPast
      <4>2. (Sound(t) => Sound(t)') /\ (Full(t) => Full(t)')
        <5> HIDE DEF DecPast
        <5> QED BY <3>1, <4>1
      <4> HIDE DEF Sound, Full
      <4> QED BY <1>1, <3>1, <3>3, <4>2
    <3> QED BY <3>1, <3>2, <3>3
  <2>2. CASE DecTakesRow(t)
    <3> DEFINE j == tile'[t]
    <3>1. row'[t] = decode_started[j] /\ col'[t] = 0 /\ pc'[t] # "write" /\ done' = done
      BY <2>2 DEF DecTakesRow
    <3>2. j \in Dec!Tiles /\ decode_started[j] \in Nat /\ row'[t] \in DecRows(j)
      <4>1. j \in Dec!Tiles /\ row'[t] \in Nat /\ row'[t] < TileHeights[j]
        BY <1>3 DEF DecShapes
      <4> HIDE DEF j
      <4> QED BY <3>1, <4>1, DecSizes DEF DecShapes
    <3>3. \A c \in DecCols(j) : <<"decode", j, row'[t], c>> \notin done
      <4> HIDE DEF j
      <4> QED BY <3>1, <3>2 DEF DecApart
    <3>4. DecPast(t)' = 0 /\ \A c \in DecCols(j) : ~(c < 0)
      BY <3>1, <3>2, DecSizes DEF DecPast
    <3> HIDE DEF DecPast
    <3> QED BY <3>1, <3>3, <3>4
  <2>3. CASE DecDecodes(t)
    <3>1. /\ pc[t] = "decode" /\ pc'[t] = "write" /\ tile' = tile /\ row' = row /\ col' = col
          /\ done' = done \cup {<<"decode", tile[t], row[t], col[t]>>}
      BY <2>3 DEF DecDecodes
    <3>2. DecPast(t)' = col[t] + 1 /\ DecPast(t) = col[t]
      BY <3>1 DEF DecPast
    <3>3. Sound(t) /\ Full(t)
      BY <1>1, <3>1 DEF Dec!InRow
    <3>4. \A c \in DecCols(tile[t]) : c < DecPast(t)' <=> c < DecPast(t) \/ c = col[t]
      <4> HIDE DEF DecPast
      <4> QED BY <2>0, <3>2
    <3> HIDE DEF DecPast
    <3> QED BY <3>1, <3>3, <3>4
  <2>4. CASE DecWrites(t)
    <3>1. /\ pc[t] = "write" /\ pc'[t] \in {"row_done", "read"} /\ tile' = tile /\ row' = row
          /\ col'[t] = col[t] + 1 /\ done' = done /\ row_mt_exit' = row_mt_exit
      BY <2>4 DEF DecWrites
    <3>2. DecPast(t)' = DecPast(t) /\ Of(t)
      BY <1>1, <3>1 DEF DecPast, Dec!InRow
    <3> HIDE DEF DecPast
    <3> QED BY <3>1, <3>2
  <2>5. CASE ~DecWalks(t) /\ ~DecTakesRow(t) /\ ~DecDecodes(t) /\ ~DecWrites(t)
    BY <1>3, <2>5 DEF DecStep, DecTakesTile, DecEnters, DecParses, DecSignals, DecLeaves, DecFails,
                      DecGivesUp, Dec!InRow
  <2> QED BY <2>1, <2>2, <2>3, <2>4, <2>5
<1>4. \A u \in Workers : pc'[u] \in Dec!InRow => Of(u)'
  BY <1>2, <1>3
<1> QED BY <1>4 DEF DecSoFar

\* A step of a thread of the decoder keeps DecPublished.
LEMMA DecPublishedKept ==
    ASSUME DecShapes, DecSoFar, DecPublished, NEW t \in Workers, DecStep(t)
    PROVE  DecPublished'
<1>1. SUFFICES ASSUME ~row_mt_exit', NEW k \in Dec!Tiles, NEW r \in DecRows(k), NEW c \in DecCols(k),
                      c <= cur_sb_col'[<<k, r>>]
               PROVE  <<"decode", k, r, c>> \in done'
  BY DEF DecPublished
<1>2. ~row_mt_exit /\ ~DecGivesUp(t)
  BY <1>1 DEF DecStep, DecWalks, DecTakesTile, DecEnters, DecParses, DecSignals, DecLeaves,
              DecTakesRow, DecDecodes, DecWrites, DecFails, DecGivesUp
<1>3. done \subseteq done'
  BY DecAdds
<1>4. CASE DecWrites(t)
  <2>1. pc[t] = "write" /\ <<k, r>> \in Dec!RowIds
    BY <1>4, DecMembers DEF DecWrites
  <2>2. \/ cur_sb_col'[<<k, r>>] = cur_sb_col[<<k, r>>]
        \/ /\ <<k, r>> = <<tile[t], row[t]>>
           /\ cur_sb_col'[<<k, r>>] = col[t] \/ col[t] = TileWidths[tile[t]] - 1
    BY <1>4, <2>1 DEF DecWrites
  <2>3. CASE cur_sb_col'[<<k, r>>] = cur_sb_col[<<k, r>>]
    BY <1>1, <1>2, <1>3, <2>3 DEF DecPublished
  <2>4. CASE /\ <<k, r>> = <<tile[t], row[t]>>
             /\ cur_sb_col'[<<k, r>>] = col[t] \/ col[t] = TileWidths[tile[t]] - 1
    <3>1. k = tile[t] /\ r = row[t]
      BY <2>4
    <3>2. c \in Nat /\ c < TileWidths[k] /\ TileWidths[k] \in Nat /\ col[t] \in Nat
      BY DecSizes DEF DecShapes
    <3>3. c < col[t] + 1
      BY <1>1, <2>4, <3>1, <3>2
    <3> QED BY <1>2, <1>3, <2>1, <3>1, <3>3 DEF DecSoFar, DecPast, Dec!InRow
  <2> QED BY <2>2, <2>3, <2>4
<1>5. CASE ~DecWrites(t)
  <2>1. cur_sb_col' = cur_sb_col
    BY <1>2, <1>5 DEF DecStep, DecWalks, DecTakesTile, DecEnters, DecParses, DecSignals, DecLeaves,
                      DecTakesRow, DecDecodes, DecFails
  <2> QED BY <1>1, <1>2, <1>3, <2>1 DEF DecPublished
<1> QED BY <1>4, <1>5

\* The wait for the row above ends when it is as far ahead as intra prediction
\* and intra block copy reach.
LEMMA DecNextKept ==
    ASSUME DecShapes, DecPublished, DecNext, NEW t \in Workers, DecStep(t)
    PROVE  DecNext'
<1>1. done \subseteq done' /\ (~row_mt_exit' => ~row_mt_exit)
  BY DecAdds DEF DecStep, DecWalks, DecTakesTile, DecEnters, DecParses, DecSignals, DecLeaves,
                 DecTakesRow, DecDecodes, DecWrites, DecFails, DecGivesUp
<1>2. ASSUME NEW u \in Workers, tile'[u] = tile[u], row'[u] = row[u], col'[u] = col[u], DecSeen(u)
      PROVE  DecSeen(u)'
  BY <1>1, <1>2 DEF DecSeen
<1>3. ASSUME NEW u \in Workers \ {t}
      PROVE  /\ ~row_mt_exit' /\ pc'[u] = "check" => DecSeen(u)'
             /\ pc'[u] = "decode" => DecSeen(u)'
  <2>1. /\ tile'[u] = tile[u] /\ row'[u] = row[u] /\ col'[u] = col[u]
        /\ pc'[u] = "check" <=> pc[u] = "check"
        /\ pc'[u] = "decode" <=> pc[u] = "decode"
    BY DecOthers DEF Dec!Places
  <2> HIDE DEF DecSeen
  <2> QED BY <1>1, <1>2, <2>1 DEF DecNext
<1>4. ASSUME pc'[t] \in {"check", "decode"}, pc'[t] = "check" => ~row_mt_exit'
      PROVE  DecSeen(t)'
  <2>1. DecWalks(t)
    BY <1>4 DEF DecStep, DecTakesTile, DecEnters, DecParses, DecSignals, DecLeaves, DecTakesRow,
                DecDecodes, DecWrites, DecFails, DecGivesUp
  <2>2. /\ tile' = tile /\ row' = row /\ col' = col /\ row_mt_exit' = row_mt_exit
        /\ \/ /\ pc[t] = "read" /\ pc'[t] = "check"
              /\ row[t] = 0 \/ Dec!RowIs(tile[t], row[t] - 1, col[t])
           \/ pc[t] = "check" /\ pc'[t] = "decode" /\ ~row_mt_exit
    BY <1>4, <2>1 DEF DecWalks, DecRoute
  <2>3. CASE pc[t] = "check"
    BY <1>2, <2>2, <2>3 DEF DecNext
  <2>4. CASE pc[t] = "read"
    <3>1. SUFFICES ASSUME row[t] > 0, NEW c \in DecCols(tile[t]), c <= col[t] + 1 + ExtraDelay
                   PROVE  <<"decode", tile[t], row[t] - 1, c>> \in done
      BY <1>2, <2>2 DEF DecSeen
    <3> DEFINE k == tile[t]  r == row[t] - 1
    <3>2. /\ k \in Dec!Tiles /\ row[t] \in Nat /\ col[t] \in Nat /\ c \in Nat /\ ExtraDelay \in Nat
          /\ row[t] <= TileHeights[k] /\ TileHeights[k] \in Nat
      BY DecSizes DEF DecShapes
    <3>3. r \in DecRows(k)
      BY <3>1, <3>2 DEF DecRows
    <3>4. cur_sb_col[<<k, r>>] \in Int
      <4> HIDE DEF k, r
      <4> QED BY <3>2, <3>3, DecMembers DEF DecShapes
    <3>5. col[t] <= cur_sb_col[<<k, r>>] - 1 - ExtraDelay
      BY <2>2, <2>4, <3>1, <3>2 DEF Dec!RowIs, Dec!SyncRange
    <3>6. c <= cur_sb_col[<<k, r>>]
      <4> HIDE DEF k, r
      <4> QED BY <3>1, <3>2, <3>4, <3>5
    <3>7. ~row_mt_exit
      BY <1>4, <2>2, <2>4
    <3> QED BY <3>2, <3>3, <3>6, <3>7 DEF DecPublished
  <2> QED BY <2>2, <2>3, <2>4
<1> QED BY <1>3, <1>4 DEF DecNext

-----------------------------------------------------------------------------
\* The tiles: all rows are taken when the sums of get_next_job_info are equal.

\* A set of natural numbers has a least element.
LEMMA LeastElement ==
    ASSUME NEW T, T \subseteq Nat, T # {}
    PROVE  \E n \in T : \A m \in T : n <= m
<1> DEFINE Upto == {0..m : m \in T}
<1>1. Upto \subseteq FiniteSubsetsOf(Nat)
  <2> SUFFICES ASSUME NEW m \in T PROVE 0..m \in FiniteSubsetsOf(Nat)
    OBVIOUS
  <2>1. 0 \in Int /\ m \in Int /\ 0..m \subseteq Nat
    OBVIOUS
  <2>2. IsFiniteSet(0..m)
    BY <2>1, FS_Interval
  <2> QED BY <2>1, <2>2 DEF FiniteSubsetsOf
<1>2. Upto # {}
  OBVIOUS
<1> HIDE DEF Upto
<1>3. PICK x \in Upto : \A y \in Upto : ~ (<<y, x>> \in StrictSubsetOrdering(Nat))
  BY <1>1, <1>2, FS_StrictSubsetOrderingWellFounded, WFMin
<1>4. PICK a \in T : x = 0..a
  BY DEF Upto
<1>5. ASSUME NEW m \in T, m < a PROVE FALSE
  <2>1. 0..m \in Upto
    BY DEF Upto
  <2>2. a \in 0..a /\ a \notin 0..m /\ 0..m \subseteq 0..a /\ 0..a \subseteq Nat
    BY <1>5
  <2>3. 0..m # 0..a
    BY <2>2
  <2>4. <<0..m, 0..a>> \in StrictSubsetOrdering(Nat)
    BY <2>2, <2>3 DEF StrictSubsetOrdering
  <2> QED BY <1>3, <1>4, <2>1, <2>4
<1> QED BY <1>5

\* The sums of the first elements, as a function with their equation.
Summing(f, n, s) == s = [i \in 0..n |-> IF i = 0 THEN 0 ELSE s[i - 1] + f[i]]

\* The sums of the first elements exist.
LEMMA SummingExists ==
    ASSUME NEW f, NEW N \in Nat
    PROVE  \E s : Summing(f, N, s)
<1> DEFINE Has(n) == \E s : Summing(f, n, s)
           T == {n \in Nat : ~Has(n)}
<1>1. SUFFICES ASSUME ~Has(N) PROVE FALSE
  OBVIOUS
<1>2. PICK n \in T : \A m \in T : n <= m
  <2>1. T \subseteq Nat /\ T # {}
    BY <1>1
  <2> HIDE DEF T
  <2> QED BY <2>1, LeastElement
<1>3. n # 0
  <2>1. Summing(f, 0, [i \in 0..0 |-> 0])
    BY DEF Summing
  <2> HIDE DEF Summing
  <2> QED BY <1>2, <2>1
<1>4. n - 1 \in Nat /\ n - 1 \notin T
  <2> HIDE DEF Has
  <2> QED BY <1>2, <1>3
<1>5. PICK s : Summing(f, n - 1, s)
  BY <1>4
<1> DEFINE u == [i \in 0..n |-> IF i = n THEN s[n - 1] + f[n] ELSE s[i]]
<1>6. ASSUME NEW i \in 0..n
      PROVE  u[i] = IF i = 0 THEN 0 ELSE u[i - 1] + f[i]
  <2>1. CASE i = n
    <3>1. u[n] = s[n - 1] + f[n] /\ u[n - 1] = s[n - 1] /\ i # 0
      BY <1>2, <1>3, <1>4, <2>1
    <3> HIDE DEF u
    <3> QED BY <2>1, <3>1
  <2>2. CASE i # n
    <3>1. i \in 0..(n - 1) /\ u[i] = s[i] /\ (i # 0 => i - 1 \in 0..n /\ i - 1 # n /\ u[i - 1] = s[i - 1])
      BY <1>2, <2>2
    <3>2. s[i] = IF i = 0 THEN 0 ELSE s[i - 1] + f[i]
      BY <1>5, <3>1 DEF Summing
    <3> HIDE DEF u
    <3> QED BY <3>1, <3>2
  <2> QED BY <2>1, <2>2
<1>7. Summing(f, n, u)
  <2>1. u = [i \in 0..n |-> u[i]]
    OBVIOUS
  <2> HIDE DEF u
  <2> QED BY <1>6, <2>1 DEF Summing
<1> HIDE DEF u, Summing
<1> QED BY <1>2, <1>7

\* Of two functions one of which is nowhere above the other, the sums are
\* equal only if the functions are.
LEMMA SummingGrows ==
    ASSUME NEW N \in Nat, NEW f \in [1..N -> Int], NEW g \in [1..N -> Int],
           \A i \in 1..N : f[i] <= g[i],
           NEW s, Summing(f, N, s), NEW u, Summing(g, N, u), s[N] = u[N], NEW k \in 1..N
    PROVE  f[k] = g[k]
<1> DEFINE Ahead(i) == /\ s[i] \in Int /\ u[i] \in Int /\ s[i] <= u[i]
                       /\ i >= k => s[i] + (g[k] - f[k]) <= u[i]
           T == {i \in 0..N : ~Ahead(i)}
<1>1. /\ s[0] = 0 /\ u[0] = 0
      /\ \A i \in 1..N : s[i] = s[i - 1] + f[i] /\ u[i] = u[i - 1] + g[i]
  BY DEF Summing
<1>2. T = {}
  <2>1. SUFFICES ASSUME T # {} PROVE FALSE
    OBVIOUS
  <2>2. PICK n \in T : \A m \in T : n <= m
    <3>1. T \subseteq Nat
      OBVIOUS
    <3> HIDE DEF T
    <3> QED BY <2>1, <3>1, LeastElement
  <2>3. n # 0
    BY <1>1, <2>2
  <2>4. n \in 1..N /\ n - 1 \in 0..N /\ n - 1 \notin T
    <3> HIDE DEF Ahead
    <3> QED BY <2>2, <2>3
  <2>5. Ahead(n - 1)
    BY <2>4
  <2>6. s[n] = s[n - 1] + f[n] /\ u[n] = u[n - 1] + g[n] /\ f[n] <= g[n]
        /\ f[n] \in Int /\ g[n] \in Int /\ f[k] \in Int /\ g[k] \in Int
    BY <1>1, <2>4
  <2>7. s[n] \in Int /\ u[n] \in Int /\ s[n] <= u[n]
    <3>1. \A a, b, c, d \in Int : a <= b /\ c <= d =>
            a + c \in Int /\ b + d \in Int /\ a + c <= b + d
      OBVIOUS
    <3>2. s[n - 1] \in Int /\ u[n - 1] \in Int /\ s[n - 1] <= u[n - 1]
      BY <2>5
    <3>3. s[n - 1] + f[n] \in Int /\ u[n - 1] + g[n] \in Int /\ s[n - 1] + f[n] <= u[n - 1] + g[n]
      <4> HIDE DEF T, Ahead
      <4> QED BY <2>6, <3>1, <3>2, ZenonT(40)
    <3> QED BY <2>6, <3>3, Zenon
  <2>8. n >= k => s[n] + (g[k] - f[k]) <= u[n]
    <3>1. CASE n = k
      BY <2>5, <2>6, <3>1
    <3>2. CASE n - 1 >= k
      BY <2>5, <2>6, <3>2
    <3> QED BY <2>4, <3>1, <3>2
  <2> QED BY <2>2, <2>7, <2>8
<1>3. Ahead(N)
  <2>1. N \in 0..N
    OBVIOUS
  <2> HIDE DEF Ahead
  <2> QED BY <1>2, <2>1
<1>4. f[k] \in Int /\ g[k] \in Int /\ f[k] <= g[k] /\ N >= k
  OBVIOUS
<1> QED BY <1>3, <1>4

\* All rows are started only when each tile has all of its rows started.
LEMMA DecSums ==
    ASSUME DecShapes, Dec!AllStarted, NEW k \in Dec!Tiles
    PROVE  decode_started[k] = TileHeights[k]
<1> DEFINE N == Len(TileHeights)
           S(f) == CHOOSE s : Summing(f, N, s)
<1>1. N \in Nat /\ Dec!Tiles = 1..N
  BY DecSizes
<1>2. /\ decode_started \in [1..N -> Int]
      /\ \A i \in 1..N : decode_started[i] <= TileHeights[i]
  <2>1. decode_started \in [Dec!Tiles -> Nat]
    BY DEF DecShapes
  <2>2. ASSUME NEW i \in Dec!Tiles
        PROVE  decode_started[i] <= TileHeights[i]
    <3>1. decode_started[i] <= parse_done[i] /\ parse_done[i] <= TileHeights[i]
      BY DEF DecShapes
    <3>2. decode_started[i] \in Nat /\ parse_done[i] \in Nat /\ TileHeights[i] \in Nat
      BY DecSizes DEF DecShapes
    <3> QED BY <3>1, <3>2
  <2> QED BY <1>1, <2>1, <2>2
<1>3. TileHeights \in [1..N -> Int]
  BY <1>1, FrameMtAssumption DEF Dec!DecRowMtAssumption
<1>4. Dec!Sum(decode_started) = S(decode_started)[N] /\ Dec!Sum(TileHeights) = S(TileHeights)[N]
  BY DEF Dec!Sum, Summing
<1>5. Summing(decode_started, N, S(decode_started)) /\ Summing(TileHeights, N, S(TileHeights))
  <2>1. (\E s : Summing(decode_started, N, s)) /\ (\E s : Summing(TileHeights, N, s))
    BY <1>1, SummingExists
  <2> HIDE DEF Summing, N
  <2> QED BY <2>1
<1>6. S(decode_started)[N] = S(TileHeights)[N]
  BY <1>4 DEF Dec!AllStarted
<1>7. k \in 1..N
  BY <1>1
<1> HIDE DEF S, N
<1> QED BY <1>1, <1>2, <1>3, <1>5, <1>6, <1>7, SummingGrows, ZenonT(60)

\* A step of a thread of the decoder keeps DecCovered.
LEMMA DecCoveredKept ==
    ASSUME DecShapes, DecExitMeans, DecSoFar, DecCovered, NEW t \in Workers, DecStep(t), DecShapes'
    PROVE  DecCovered'
<1> SUFFICES ASSUME corrupted' = {}, NEW k \in Dec!Tiles, NEW r \in DecRows(k),
                    r < decode_started'[k]
             PROVE  \/ \A c \in DecCols(k) : <<"decode", k, r, c>> \in done'
                    \/ \E u \in Workers : pc'[u] \in Dec!InRow /\ tile'[u] = k /\ row'[u] = r
  BY DEF DecCovered
<1>1. corrupted = {} /\ ~DecFails(t)
  BY DEF DecStep, DecWalks, DecTakesTile, DecEnters, DecParses, DecSignals, DecLeaves, DecTakesRow,
         DecDecodes, DecWrites, DecFails, DecGivesUp
<1>2. ~row_mt_exit
  BY <1>1 DEF DecExitMeans, DecSpoilt
<1>3. done \subseteq done'
  BY DecAdds
<1>4. \A u \in Workers \ {t} :
        /\ tile'[u] = tile[u] /\ row'[u] = row[u]
        /\ pc'[u] \in Dec!InRow <=> pc[u] \in Dec!InRow
  BY DecOthers
<1>5. r < decode_started[k] =>
        \/ \A c \in DecCols(k) : <<"decode", k, r, c>> \in done
        \/ \E u \in Workers : pc[u] \in Dec!InRow /\ tile[u] = k /\ row[u] = r
  BY <1>1 DEF DecCovered
<1>6. CASE DecTakesRow(t)
  <2> DEFINE j == tile'[t]
  <2>1. /\ pc[t] \notin Dec!InRow /\ pc'[t] \in Dec!InRow /\ row'[t] = decode_started[j]
        /\ decode_started' = [decode_started EXCEPT ![j] = decode_started[j] + 1]
    BY <1>6 DEF DecTakesRow, Dec!InRow
  <2>2. r < decode_started[k] \/ (k = j /\ r = decode_started[j])
    <3>1. decode_started \in [Dec!Tiles -> Nat] /\ r \in Nat
      BY DecSizes DEF DecShapes
    <3> HIDE DEF j
    <3>2. CASE k = j
      <4>1. decode_started'[k] = decode_started[k] + 1
        BY <2>1, <3>1, <3>2
      <4> QED BY <3>1, <3>2, <4>1
    <3>3. CASE k # j
      BY <2>1, <3>1, <3>3
    <3> QED BY <3>2, <3>3
  <2> QED BY <1>3, <1>4, <1>5, <2>1, <2>2
<1>7. CASE ~DecTakesRow(t)
  <2>1. decode_started' = decode_started
    BY <1>7, DecStays
  <2>2. pc[t] \in Dec!InRow =>
            \/ pc'[t] \in Dec!InRow /\ tile'[t] = tile[t] /\ row'[t] = row[t]
            \/ \A c \in DecCols(tile[t]) : <<"decode", tile[t], row[t], c>> \in done
    <3>1. CASE pc[t] \in Dec!InRow /\ pc'[t] \in Dec!InRow
      BY <1>7, <3>1, DecStays
    <3>2. CASE pc[t] \in Dec!InRow /\ pc'[t] \notin Dec!InRow
      <4>1. pc[t] = "row_done"
        BY <1>1, <1>7, <3>2 DEF DecStep, DecWalks, DecRoute, DecTakesTile, DecEnters, DecParses,
                                DecSignals, DecLeaves, DecDecodes, DecWrites, DecGivesUp, Dec!InRow
      <4>2. col[t] = TileWidths[tile[t]] /\ tile[t] \in Dec!Tiles
        BY <4>1 DEF DecShapes
      <4>3. \A c \in DecCols(tile[t]) : c < DecPast(t)
        BY <4>1, <4>2, DecSizes DEF DecPast
      <4> HIDE DEF DecPast
      <4> QED BY <1>2, <3>2, <4>3 DEF DecSoFar
    <3> QED BY <3>1, <3>2
  <2> QED BY <1>3, <1>4, <1>5, <2>1, <2>2
<1> QED BY <1>6, <1>7

\* A step of a thread of the decoder keeps DecEnds.
LEMMA DecEndsKept ==
    ASSUME DecShapes, DecExitMeans, DecEnds, NEW t \in Workers, DecStep(t), DecShapes'
    PROVE  DecEnds'
<1>1. outcome' = outcome /\ pc[t] \notin {"returned", "failed"}
  BY DEF DecStep, DecWalks, DecRoute, DecTakesTile, DecEnters, DecParses, DecSignals, DecLeaves,
         DecTakesRow, DecDecodes, DecWrites, DecFails, DecGivesUp
<1>2. ASSUME corrupted' = {}, NEW u \in Workers, pc'[u] = "returned", NEW k \in Dec!Tiles
      PROVE  decode_started'[k] = TileHeights[k]
  <2>1. corrupted = {}
    BY <1>2 DEF DecStep, DecWalks, DecTakesTile, DecEnters, DecParses, DecSignals, DecLeaves,
                DecTakesRow, DecDecodes, DecWrites, DecFails, DecGivesUp
  <2>2. ~row_mt_exit
    BY <2>1 DEF DecExitMeans, DecSpoilt
  <2>3. CASE u = t
    <3>1. DecWalks(t) /\ Dec!AllStarted
      BY <1>2, <2>2, <2>3 DEF DecStep, DecWalks, DecRoute, DecTakesTile, DecEnters, DecParses,
                              DecSignals, DecLeaves, DecTakesRow, DecDecodes, DecWrites, DecFails,
                              DecGivesUp
    <3>2. decode_started' = decode_started
      BY <3>1 DEF DecWalks
    <3> QED BY <3>1, <3>2, DecSums
  <2>4. CASE u # t
    <3>1. pc[u] = "returned"
      BY <1>2, <2>4, DecOthers DEF Dec!Places
    <3>2. \A j \in Dec!Tiles : decode_started[j] = TileHeights[j]
      BY <2>1, <3>1 DEF DecEnds
    <3>3. ~DecTakesRow(t)
      <4>1. SUFFICES ASSUME DecTakesRow(t) PROVE FALSE
        OBVIOUS
      <4>2. decode_started[tile'[t]] < parse_done[tile'[t]] /\ tile'[t] \in Dec!Tiles
        BY <4>1 DEF DecTakesRow, DecShapes
      <4>3. /\ parse_done[tile'[t]] <= TileHeights[tile'[t]]
            /\ parse_done[tile'[t]] \in Nat /\ TileHeights[tile'[t]] \in Nat
        BY <4>2, DecSizes DEF DecShapes
      <4> QED BY <3>2, <4>2, <4>3
    <3> QED BY <3>2, <3>3, DecStays
  <2> QED BY <2>3, <2>4
<1>3. outcome' # "busy" => \A u \in Workers : pc'[u] \in {"returned", "failed"}
  BY <1>1 DEF DecEnds
<1> QED BY <1>2, <1>3 DEF DecEnds

-----------------------------------------------------------------------------
\* The tiles: how many threads work in a tile.

\* The threads at work in a tile are a finite set no larger than all threads.
LEMMA DecTeams ==
    /\ IsFiniteSet(Workers) /\ Cardinality(Workers) = NumWorkers
    /\ \A S \in SUBSET Workers :
            IsFiniteSet(S) /\ Cardinality(S) \in Nat /\ Cardinality(S) <= NumWorkers
<1>1. NumWorkers \in Nat \ {0}
  BY DecSizes
<1>2. IsFiniteSet(Workers) /\ Cardinality(Workers) = NumWorkers
  <2>1. 0 \in Int /\ NumWorkers - 1 \in Int /\ ~(0 > NumWorkers - 1)
        /\ (NumWorkers - 1) - 0 + 1 = NumWorkers
    BY <1>1
  <2> QED BY <2>1, FS_Interval DEF Workers
<1>3. \A S \in SUBSET Workers :
        IsFiniteSet(S) /\ Cardinality(S) \in Nat /\ Cardinality(S) <= NumWorkers
  <2> TAKE S \in SUBSET Workers
  <2>1. IsFiniteSet(S) /\ Cardinality(S) <= Cardinality(Workers)
    BY <1>2, FS_Subset
  <2> QED BY <1>2, <2>1, FS_CardinalityType
<1> QED BY <1>2, <1>3

\* A worker comes to a tile, leaves it, or fails and is not taken off.
LEMMA DecTeamsMove ==
    ASSUME DecShapes, NEW t \in Workers, DecStep(t), DecShapes', NEW k \in Dec!Tiles
    PROVE  LET A == DecAtWork(k)  L == DecLost(k)  n == num_threads_working[k] IN
           \/ A' = A \cup {t} /\ t \notin A \cup L /\ L' = L /\ n' = n + 1
           \/ A' = A \ {t} /\ t \in A /\ t \notin L /\ L' = L /\ n' = n - 1
           \/ A' \subseteq A /\ A \cup L \subseteq A' \cup L' /\ n' = n
<1> DEFINE A == DecAtWork(k)  L == DecLost(k)  n == num_threads_working[k]
           Moves == \/ A' = A \cup {t} /\ t \notin A \cup L /\ L' = L /\ n' = n + 1
                    \/ A' = A \ {t} /\ t \in A /\ t \notin L /\ L' = L /\ n' = n - 1
                    \/ A' \subseteq A /\ A \cup L \subseteq A' \cup L' /\ n' = n
           at == pc[t] \in DecCounted /\ tile[t] = k
           lost == pc[t] = "failed" /\ tile[t] = k
<1> SUFFICES Moves
  OBVIOUS
<1>1. /\ \A u \in Workers \ {t} : (u \in A' <=> u \in A) /\ (u \in L' <=> u \in L)
      /\ t \in A <=> at
      /\ t \in L <=> lost
      /\ t \in A' <=> at'
      /\ t \in L' <=> lost'
      /\ A \subseteq Workers /\ L \subseteq Workers /\ A' \subseteq Workers /\ L' \subseteq Workers
  <2>1. \A u \in Workers \ {t} :
            /\ tile'[u] = tile[u]
            /\ pc'[u] \in DecCounted <=> pc[u] \in DecCounted
            /\ pc'[u] = "failed" <=> pc[u] = "failed"
    BY DecOthers DEF Dec!Places
  <2> QED BY <2>1 DEF DecAtWork, DecLost
<1>2. num_threads_working \in [Dec!Tiles -> Int] /\ tile[t] \in Dec!Tiles /\ tile'[t] \in Dec!Tiles
  BY DEF DecShapes
<1>3. CASE at' /\ ~at /\ ~lost /\ ~lost' /\ n' = n + 1
  <2> HIDE DEF A, L, n, at, lost
  <2>1. A' = A \cup {t} /\ L' = L
    BY <1>1, <1>3
  <2> QED BY <1>1, <1>3, <2>1
<1>4. CASE at /\ ~at' /\ ~lost /\ ~lost' /\ n' = n - 1
  <2> HIDE DEF A, L, n, at, lost
  <2>1. A' = A \ {t} /\ L' = L
    BY <1>1, <1>4
  <2> QED BY <1>1, <1>4, <2>1
<1>5. CASE (at' => at) /\ (at => at' \/ lost') /\ ~lost /\ n' = n
  <2> HIDE DEF A, L, n, at, lost
  <2>1. A' \subseteq A /\ A \cup L \subseteq A' \cup L'
    BY <1>1, <1>5
  <2> QED BY <1>5, <2>1
<1>6. CASE DecEnters(t)
  <2>1. /\ pc[t] = "enter" /\ pc'[t] = "parse" /\ tile' = tile
        /\ num_threads_working' =
                [num_threads_working EXCEPT ![tile[t]] = num_threads_working[tile[t]] + 1]
    BY <1>6 DEF DecEnters
  <2>2. ~at /\ ~lost /\ ~lost' /\ (at' <=> tile[t] = k)
    BY <2>1 DEF DecCounted, Dec!InRow
  <2>3. n' = IF tile[t] = k THEN n + 1 ELSE n
    BY <1>2, <2>1
  <2> HIDE DEF A, L, n, at, lost
  <2> QED BY <1>3, <1>5, <2>2, <2>3
<1>7. CASE DecTakesRow(t)
  <2> DEFINE j == tile'[t]
  <2>1. /\ pc[t] = "next_row" /\ pc'[t] = "read"
        /\ num_threads_working' = [num_threads_working EXCEPT ![j] = num_threads_working[j] + 1]
    BY <1>7 DEF DecTakesRow
  <2>2. ~at /\ ~lost /\ ~lost' /\ (at' <=> j = k)
    BY <2>1 DEF DecCounted, Dec!InRow
  <2>3. n' = IF j = k THEN n + 1 ELSE n
    <3> HIDE DEF j
    <3> QED BY <1>2, <2>1
  <2> HIDE DEF A, L, n, at, lost, j
  <2> QED BY <1>3, <1>5, <2>2, <2>3
<1>8. CASE DecLeaves(t)
  <2>1. /\ pc[t] \in {"leave", "row_done"} /\ pc'[t] \in {"corrupt", "next_tile", "next_row"}
        /\ tile' = tile
        /\ num_threads_working' =
                [num_threads_working EXCEPT ![tile[t]] = num_threads_working[tile[t]] - 1]
    BY <1>8 DEF DecLeaves
  <2>2. (at <=> tile[t] = k) /\ ~lost /\ ~lost' /\ ~at'
    BY <2>1 DEF DecCounted, Dec!InRow
  <2>3. n' = IF tile[t] = k THEN n - 1 ELSE n
    BY <1>2, <2>1
  <2> HIDE DEF A, L, n, at, lost
  <2> QED BY <1>4, <1>5, <2>2, <2>3
<1>9. CASE ~DecEnters(t) /\ ~DecTakesRow(t) /\ ~DecLeaves(t)
  <2>1. num_threads_working' = num_threads_working
    BY <1>9 DEF DecStep, DecWalks, DecTakesTile, DecParses, DecSignals, DecDecodes, DecWrites,
                DecFails, DecGivesUp
  <2>2. /\ pc[t] # "failed"
        /\ \/ pc[t] \notin DecCounted /\ pc'[t] \notin DecCounted
           \/ pc[t] \in DecCounted /\ pc'[t] \in DecCounted \cup {"failed"} /\ tile'[t] = tile[t]
    <3>1. CASE DecWalks(t)
      BY <3>1 DEF DecWalks, DecRoute, DecCounted, Dec!InRow
    <3>2. CASE ~DecWalks(t)
      BY <1>9, <3>2 DEF DecStep, DecTakesTile, DecParses, DecSignals, DecDecodes, DecWrites,
                        DecFails, DecGivesUp, DecCounted, Dec!InRow
    <3> QED BY <3>1, <3>2
  <2>3. (at' => at) /\ (at => at' \/ lost') /\ ~lost /\ n' = n
    BY <2>1, <2>2
  <2> HIDE DEF A, L, n, at, lost
  <2> QED BY <1>5, <2>3
<1> QED BY <1>6, <1>7, <1>8, <1>9

\* A step of a thread of the decoder keeps DecCounts.
LEMMA DecCountsKept ==
    ASSUME DecShapes, DecCounts, DecEnds, NEW t \in Workers, DecStep(t), DecShapes'
    PROVE  DecCounts'
<1> SUFFICES ASSUME NEW k \in Dec!Tiles
             PROVE  /\ num_threads_working'[k] >= 0 /\ num_threads_working'[k] <= NumWorkers
                    /\ num_threads_working'[k] >= Cardinality(DecAtWork(k)')
                    /\ num_threads_working'[k] <= Cardinality(DecAtWork(k)' \cup DecLost(k)')
  BY DEF DecCounts
<1> DEFINE A == DecAtWork(k)  L == DecLost(k)  n == num_threads_working[k]
<1>1. n >= Cardinality(A) /\ n <= Cardinality(A \cup L) /\ n \in Int /\ n' \in Int
  <2>1. outcome = "busy"
    BY DEF DecEnds, DecStep, DecWalks, DecRoute, DecTakesTile, DecEnters, DecParses, DecSignals,
           DecLeaves, DecTakesRow, DecDecodes, DecWrites, DecFails, DecGivesUp
  <2> QED BY <2>1 DEF DecCounts, DecShapes
<1>2. \/ A' = A \cup {t} /\ t \notin A \cup L /\ L' = L /\ n' = n + 1
      \/ A' = A \ {t} /\ t \in A /\ t \notin L /\ L' = L /\ n' = n - 1
      \/ A' \subseteq A /\ A \cup L \subseteq A' \cup L' /\ n' = n
  BY DecTeamsMove
<1>3. A \in SUBSET Workers /\ L \in SUBSET Workers /\ A' \in SUBSET Workers /\ L' \in SUBSET Workers
  BY DEF DecAtWork, DecLost
<1> HIDE DEF A, L, n
<1>4. /\ IsFiniteSet(A) /\ IsFiniteSet(A \cup L) /\ IsFiniteSet(A') /\ IsFiniteSet(A' \cup L')
      /\ Cardinality(A) \in Nat /\ Cardinality(A \cup L) \in Nat
      /\ Cardinality(A') \in Nat /\ Cardinality(A' \cup L') \in Nat
      /\ Cardinality(A' \cup L') <= NumWorkers /\ NumWorkers \in Nat
  <2>1. A \cup L \in SUBSET Workers /\ A' \cup L' \in SUBSET Workers
    BY <1>3
  <2> QED BY <1>3, <2>1, DecTeams, DecSizes
<1>5. n' >= Cardinality(A') /\ n' <= Cardinality(A' \cup L')
  <2>1. CASE A' = A \cup {t} /\ t \notin A \cup L /\ L' = L /\ n' = n + 1
    <3>1. Cardinality(A') = Cardinality(A) + 1
      BY <1>4, <2>1, FS_AddElement
    <3>2. Cardinality(A' \cup L') = Cardinality(A \cup L) + 1
      <4>1. A' \cup L' = (A \cup L) \cup {t}
        BY <2>1
      <4> QED BY <1>4, <2>1, <4>1, FS_AddElement
    <3> QED BY <1>1, <1>4, <2>1, <3>1, <3>2
  <2>2. CASE A' = A \ {t} /\ t \in A /\ t \notin L /\ L' = L /\ n' = n - 1
    <3>1. Cardinality(A') = Cardinality(A) - 1
      BY <1>4, <2>2, FS_RemoveElement
    <3>2. Cardinality(A' \cup L') = Cardinality(A \cup L) - 1
      <4>1. A' \cup L' = (A \cup L) \ {t} /\ t \in A \cup L
        BY <2>2
      <4> QED BY <1>4, <4>1, FS_RemoveElement
    <3> QED BY <1>1, <1>4, <2>2, <3>1, <3>2
  <2>3. CASE A' \subseteq A /\ A \cup L \subseteq A' \cup L' /\ n' = n
    <3>1. Cardinality(A') <= Cardinality(A)
      <4>1. A' \in SUBSET A
        BY <2>3
      <4> QED BY <1>4, <4>1, FS_Subset
    <3>2. Cardinality(A \cup L) <= Cardinality(A' \cup L')
      <4>1. A \cup L \in SUBSET (A' \cup L')
        BY <2>3
      <4> QED BY <1>4, <4>1, FS_Subset
    <3> QED BY <1>1, <1>4, <2>3, <3>1, <3>2
  <2> QED BY <1>2, <2>1, <2>2, <2>3
<1>6. n' >= 0 /\ n' <= NumWorkers
  BY <1>1, <1>4, <1>5
<1> QED BY <1>5, <1>6 DEF A, L, n

\* A step of a thread of the decoder keeps the invariant of the stage.
LEMMA DecStepKept ==
    ASSUME DecInv, NEW t \in Workers,
           Dec!Step(t) \/ Dec!FindCorruption(t) \/ Dec!Throw(t) \/ Dec!Spurious(t)
    PROVE  DecInv'
<1>1. DecShapes' /\ DecStep(t)
  BY DecStepKinds DEF DecInv
<1> QED BY <1>1, DecExitMeansKept, DecCountsKept, DecParsersKept, DecParsedKept, DecApartKept,
           DecSoFarKept, DecPublishedKept, DecNextKept, DecCoveredKept, DecEndsKept DEF DecInv

-----------------------------------------------------------------------------
\* The tiles: from frame to frame, and what the invariant says.

\* Before the first step of a frame.
DecFresh ==
    /\ pc = [t \in Workers |-> "next_tile"]
    /\ tile = [t \in Workers |-> 1] /\ row = [t \in Workers |-> 0] /\ col = [t \in Workers |-> 0]
    /\ tiles_left = Dec!Tiles
    /\ parse_done = [k \in Dec!Tiles |-> 0] /\ decode_started = [k \in Dec!Tiles |-> 0]
    /\ num_threads_working = [k \in Dec!Tiles |-> 0]
    /\ row_mt_exit = FALSE /\ cur_sb_col = [x \in Dec!RowIds |-> -1] /\ corrupted = {}
    /\ outcome = "busy" /\ done = {}

\* A frame that has just been set up satisfies the invariant.
LEMMA DecFreshIs == DecFresh => DecInv
<1> SUFFICES ASSUME DecFresh PROVE DecInv
  OBVIOUS
<1> USE DEF DecFresh
<1>1. DecShapes
  <2>1. pc \in [Workers -> Dec!Places]
    BY DEF Dec!Places
  <2>2. tile \in [Workers -> Dec!Tiles] /\ row \in [Workers -> Nat] /\ col \in [Workers -> Nat]
    BY DecSizes
  <2>3. /\ parse_done \in [Dec!Tiles -> Nat] /\ decode_started \in [Dec!Tiles -> Nat]
        /\ num_threads_working \in [Dec!Tiles -> Int] /\ cur_sb_col \in [Dec!RowIds -> Int]
    OBVIOUS
  <2>4. \A k \in Dec!Tiles : /\ decode_started[k] = 0 /\ parse_done[k] = 0
                             /\ TileHeights[k] \in Nat \ {0} /\ Dec!AllCols(k) \in Nat
    BY DecSizes DEF Dec!AllCols, Dec!SyncRange
  <2>5. \A x \in Dec!RowIds : cur_sb_col[x] >= -1 /\ cur_sb_col[x] <= Dec!AllCols(x[1])
    <3>1. \A x \in Dec!RowIds : Dec!AllCols(x[1]) \in Nat /\ cur_sb_col[x] = -1
      BY <2>4, DecMembers
    <3> HIDE DEF Dec!AllCols
    <3> QED BY <3>1
  <2>6. ASSUME NEW t \in Workers
        PROVE  /\ row[t] <= TileHeights[tile[t]]
               /\ pc[t] \in DecParsing \cup Dec!InRow \cup {"error", "release"} =>
                        row[t] < TileHeights[tile[t]]
               /\ pc[t] \in DecAtBlock => col[t] < TileWidths[tile[t]]
               /\ pc[t] = "row_done" => col[t] = TileWidths[tile[t]]
    <3>1. tile[t] = 1 /\ row[t] = 0 /\ 1 \in Dec!Tiles
      BY DecSizes
    <3>2. row[t] <= TileHeights[tile[t]]
      BY <2>4, <3>1
    <3> QED BY <3>2 DEF DecParsing, Dec!InRow, DecAtBlock
  <2>7. \A k \in Dec!Tiles : decode_started[k] <= parse_done[k] /\ parse_done[k] <= TileHeights[k]
    BY <2>4
  <2> QED BY <2>1, <2>2, <2>3, <2>5, <2>6, <2>7 DEF DecShapes
<1>2. \A t \in Workers : pc[t] = "next_tile"
  OBVIOUS
<1>3. DecExitMeans /\ DecParsers /\ DecApart /\ DecSoFar /\ DecNext /\ DecEnds
  BY <1>2 DEF DecExitMeans, DecParsers, DecApart, DecSoFar, DecNext, DecEnds, DecSpoilt, DecParsing,
              Dec!InRow
<1>4. \A k \in Dec!Tiles : \A r \in DecRows(k) : ~(r < parse_done[k]) /\ ~(r < decode_started[k])
  BY DecSizes
<1>5. DecParsed /\ DecCovered
  BY <1>2, <1>4 DEF DecParsed, DecCovered
<1>6. DecPublished
  <2>1. \A k \in Dec!Tiles : \A r \in DecRows(k) : cur_sb_col[<<k, r>>] = -1
    BY DecMembers
  <2> QED BY <2>1, DecSizes DEF DecPublished
<1>7. DecCounts
  <2> SUFFICES ASSUME NEW k \in Dec!Tiles
               PROVE  /\ num_threads_working[k] >= 0 /\ num_threads_working[k] <= NumWorkers
                      /\ num_threads_working[k] >= Cardinality(DecAtWork(k))
                      /\ num_threads_working[k] <= Cardinality(DecAtWork(k) \cup DecLost(k))
    BY DEF DecCounts
  <2>1. DecAtWork(k) = {} /\ DecAtWork(k) \cup DecLost(k) = {}
    BY <1>2 DEF DecAtWork, DecLost, DecCounted, Dec!InRow
  <2>2. num_threads_working[k] = 0 /\ NumWorkers \in Nat
    BY DecSizes
  <2> QED BY <2>1, <2>2, FS_EmptySet
<1> QED BY <1>1, <1>3, <1>5, <1>6, <1>7 DEF DecInv

\* The decoder starts with its invariant.
LEMMA DecStarts ==
    ASSUME Dec!Start, done' = {}
    PROVE  DecInv'
<1>1. DecFresh'
  BY DEF DecFresh, Dec!Start, Dec!AnyTile, Dec!Zeros, Dec!Workers, Workers
<1>2. DecFresh' => DecInv'
  BY DecFreshIs, PTL
<1> QED BY <1>1, <1>2

\* When all have returned and no data is corrupt, everything is done.
LEMMA DecComplete ==
    ASSUME DecInv, corrupted = {}, \A t \in Workers : pc[t] \in {"returned", "failed"}
    PROVE  done = Dec!Blocks
<1>1. \A t \in Workers : pc[t] = "returned"
  BY DEF DecInv, DecExitMeans, DecSpoilt
<1>2. ASSUME NEW k \in Dec!Tiles
      PROVE  decode_started[k] = TileHeights[k] /\ parse_done[k] = TileHeights[k]
  <2>1. decode_started[k] = TileHeights[k]
    BY <1>1, DecSizes DEF DecInv, DecEnds
  <2>2. /\ decode_started[k] <= parse_done[k] /\ parse_done[k] <= TileHeights[k]
        /\ parse_done[k] \in Nat /\ TileHeights[k] \in Nat
    BY DecSizes DEF DecInv, DecShapes
  <2> QED BY <2>1, <2>2
<1>3. ASSUME NEW k \in Dec!Tiles, NEW r \in DecRows(k)
      PROVE  /\ <<"parse", k, r>> \in done
             /\ \A c \in DecCols(k) : <<"decode", k, r, c>> \in done
  <2>1. r < parse_done[k] /\ r < decode_started[k]
    BY <1>2, DecSizes
  <2>2. \A t \in Workers : pc[t] \notin Dec!InRow
    BY <1>1 DEF Dec!InRow
  <2> QED BY <2>1, <2>2 DEF DecInv, DecParsed, DecCovered
<1>4. ASSUME NEW b \in Dec!Blocks
      PROVE  b \in done
  <2>1. PICK k \in Dec!Tiles : \E r \in DecRows(k) :
            b = <<"parse", k, r>> \/ \E c \in DecCols(k) : b = <<"decode", k, r, c>>
    BY DecMembers
  <2> QED BY <1>3, <2>1
<1> QED BY <1>4 DEF DecInv, DecShapes

\* Joined, the threads of the decoder report an error or a complete stage.
LEMMA DecJoins ==
    ASSUME DecInv, Dec!Join
    PROVE  /\ DecInv' /\ done' = done /\ outcome = "busy"
           /\ outcome' = "error" \/ (outcome' = "ok" /\ done = Dec!Blocks)
<1>1. /\ \A t \in Workers : pc[t] \in {"returned", "failed"}
      /\ outcome = "busy" /\ outcome' = IF corrupted = {} THEN "ok" ELSE "error"
      /\ tile' = [t \in Workers |-> 1] /\ row' = [t \in Workers |-> 0]
      /\ col' = [t \in Workers |-> 0]
      /\ UNCHANGED <<pc, tiles_left, parse_done, decode_started, num_threads_working, row_mt_exit,
                     cur_sb_col, corrupted, done>>
  BY DEF Dec!Join, Dec!AnyTile, Dec!Zeros, Dec!Workers, Workers, Dec!tileVars
<1>2. DecShapes'
  <2>1. /\ tile' \in [Workers -> Dec!Tiles] /\ row' \in [Workers -> Nat] /\ col' \in [Workers -> Nat]
    BY <1>1, DecSizes
  <2>2. \A t \in Workers : row'[t] <= TileHeights[tile'[t]]
    <3>1. TileHeights[1] \in Nat \ {0}
      BY DecSizes
    <3> QED BY <1>1, <3>1
  <2>3. \A t \in Workers : pc'[t] \notin DecParsing \cup Dec!InRow \cup {"error", "release"} \cup DecAtBlock
    BY <1>1 DEF DecParsing, Dec!InRow, DecAtBlock
  <2> QED BY <1>1, <2>1, <2>2, <2>3 DEF DecInv, DecShapes, Dec!InRow
<1>3. DecExitMeans' /\ DecParsers' /\ DecApart' /\ DecSoFar' /\ DecPublished' /\ DecNext' /\ DecEnds'
  BY <1>1 DEF DecInv, DecExitMeans, DecParsers, DecApart, DecSoFar, DecPublished, DecNext, DecEnds,
              DecParsing, Dec!InRow
<1>4. DecParsed' /\ DecCovered'
  BY <1>1 DEF DecInv, DecParsed, DecCovered, Dec!InRow
<1>5. DecCounts'
  BY <1>1 DEF DecInv, DecCounts
<1>6. outcome' = "error" \/ (outcome' = "ok" /\ done = Dec!Blocks)
  BY <1>1, DecComplete
<1> QED BY <1>1, <1>2, <1>3, <1>4, <1>5, <1>6 DEF DecInv

\* A step of the decoder does at most one block, whose needs are done.
LEMMA DecInOrder ==
    ASSUME DecInv, NEW t \in Workers, DecStep(t)
    PROVE  \/ done' = done
           \/ \E b \in Dec!Blocks \ done : Dec!Needs(b) \subseteq done /\ done' = done \cup {b}
<1> DEFINE k == tile[t]  r == row[t]  c == col[t]
<1>1. k \in Dec!Tiles /\ r \in Nat /\ c \in Nat
  BY DEF DecInv, DecShapes
<1>2. CASE pc[t] = "parse" /\ done' = done \cup {<<"parse", k, r>>}
  <2> DEFINE b == <<"parse", k, r>>
  <2>1. r \in DecRows(k) /\ parse_done[k] = r
    <3>1. r < TileHeights[k] /\ parse_done[k] = r
      BY <1>2 DEF DecInv, DecShapes, DecParsers, DecParsing
    <3> HIDE DEF k, r
    <3> QED BY <1>1, <3>1, DecSizes
  <2>2. b \in Dec!Blocks
    BY <1>1, <2>1, DecMembers
  <2>3. b \notin done
    <3>1. ~(r < parse_done[k])
      <4> HIDE DEF k, r
      <4> QED BY <1>1, <2>1
    <3>2. \A u \in Workers : pc[u] = "signal" => tile[u] # k
      BY <1>2 DEF DecInv, DecParsers, DecParsing
    <3> QED BY <1>1, <2>1, <3>1, <3>2 DEF DecInv, DecParsed
  <2>4. Dec!Needs(b) \subseteq done
    <3>1. Dec!Needs(b) = {"parse"} \X {k} \X (0..(r - 1))
      BY DEF Dec!Needs
    <3>2. ASSUME NEW q \in 0..(r - 1)
          PROVE  <<"parse", k, q>> \in done
      <4>1. q \in Nat /\ q < r /\ q < TileHeights[k]
        <5>1. r < TileHeights[k] /\ TileHeights[k] \in Nat
          BY <1>1, <2>1, DecSizes
        <5> HIDE DEF k, r
        <5> QED BY <1>1, <5>1
      <4>2. q \in DecRows(k) /\ q < parse_done[k]
        <5> HIDE DEF k, r
        <5> QED BY <1>1, <2>1, <4>1, DecSizes
      <4> QED BY <1>1, <4>2 DEF DecInv, DecParsed
    <3> HIDE DEF k, r, b
    <3> QED BY <3>1, <3>2
  <2> HIDE DEF b
  <2> QED BY <1>2, <2>2, <2>3, <2>4 DEF b
<1>3. CASE pc[t] = "decode" /\ done' = done \cup {<<"decode", k, r, c>>}
  <2> DEFINE b == <<"decode", k, r, c>>
  <2>1. r \in DecRows(k) /\ c \in DecCols(k)
    <3>1. r < TileHeights[k] /\ c < TileWidths[k]
      BY <1>3 DEF DecInv, DecShapes, Dec!InRow, DecAtBlock
    <3> HIDE DEF k, r, c
    <3> QED BY <1>1, <3>1, DecSizes
  <2>2. b \in Dec!Blocks
    BY <1>1, <2>1, DecMembers
  <2>3. b \notin done
    <3>1. ~(c < DecPast(t))
      BY <1>1, <1>3 DEF DecPast
    <3> QED BY <1>3, <2>1, <3>1 DEF DecInv, DecSoFar, Dec!InRow
  <2>4. <<"parse", k, r>> \in done
    <3>1. r < parse_done[k]
      <4>1. r < decode_started[k] /\ decode_started[k] <= parse_done[k]
        BY <1>1, <1>3 DEF DecInv, DecApart, DecShapes, Dec!InRow
      <4>2. decode_started[k] \in Nat /\ parse_done[k] \in Nat
        BY <1>1 DEF DecInv, DecShapes
      <4> HIDE DEF k, r
      <4> QED BY <1>1, <4>1, <4>2
    <3> QED BY <1>1, <2>1, <3>1 DEF DecInv, DecParsed
  <2>5. ASSUME NEW x \in 0..(c - 1)
        PROVE  <<"decode", k, r, x>> \in done
    <3>1. x \in DecCols(k) /\ x < c
      <4>1. c < TileWidths[k] /\ TileWidths[k] \in Nat
        BY <1>1, <2>1, DecSizes
      <4>2. x \in Nat /\ x < c /\ x < TileWidths[k]
        <5> HIDE DEF k, c
        <5> QED BY <1>1, <4>1
      <4> HIDE DEF k, c
      <4> QED BY <1>1, <4>2, DecSizes
    <3>2. x < DecPast(t)
      BY <1>3, <3>1 DEF DecPast
    <3> QED BY <1>3, <3>1, <3>2 DEF DecInv, DecSoFar, Dec!InRow
  <2>6. ASSUME r # 0, NEW x \in 0..(TileWidths[k] - 1), x <= c + 1 + ExtraDelay
        PROVE  <<"decode", k, r - 1, x>> \in done
    <3>1. DecSeen(t) /\ row[t] > 0
      BY <1>1, <1>3, <2>6 DEF DecInv, DecNext
    <3> QED BY <2>6, <3>1 DEF DecSeen, DecCols
  <2>7. Dec!Needs(b) = {<<"parse", k, r>>} \cup {<<"decode", k, r, x>> : x \in 0..(c - 1)} \cup
            (IF r = 0 THEN {}
             ELSE {<<"decode", k, r - 1, x>> :
                        x \in {y \in 0..(TileWidths[k] - 1) : y <= c + 1 + ExtraDelay}})
    BY DEF Dec!Needs
  <2>8. Dec!Needs(b) \subseteq done
    <3> HIDE DEF k, r, c, b
    <3> QED BY <2>4, <2>5, <2>6, <2>7
  <2> HIDE DEF b
  <2> QED BY <1>3, <2>2, <2>3, <2>8 DEF b
<1> QED BY <1>2, <1>3, DecAdds

\* The invariant of the decoder says what is promised of the stage.
LEMMA DecHolds ==
    ASSUME DecInv
    PROVE  Dec!TypeOK /\ Dec!RowsAreTakenOnce
<1>1. Dec!TypeOK
  <2>1. ASSUME NEW t \in Workers
        PROVE  /\ tile[t] \in Dec!Tiles /\ row[t] \in 0..TileHeights[tile[t]]
               /\ pc[t] \in {"read", "asleep", "check", "decode", "write"} =>
                        col[t] \in 0..(TileWidths[tile[t]] - 1)
    <3>1. /\ tile[t] \in Dec!Tiles /\ row[t] \in Nat /\ row[t] <= TileHeights[tile[t]]
          /\ col[t] \in Nat /\ (pc[t] \in DecAtBlock => col[t] < TileWidths[tile[t]])
      BY DEF DecInv, DecShapes
    <3>2. TileHeights[tile[t]] \in Nat /\ TileWidths[tile[t]] \in Nat
      BY <3>1, DecSizes
    <3> QED BY <3>1, <3>2 DEF DecAtBlock
  <2>2. ASSUME NEW k \in Dec!Tiles
        PROVE  /\ {parse_done[k], decode_started[k]} \subseteq 0..TileHeights[k]
               /\ num_threads_working[k] \in 0..NumWorkers
    <3>1. /\ parse_done[k] \in Nat /\ decode_started[k] \in Nat
          /\ decode_started[k] <= parse_done[k] /\ parse_done[k] <= TileHeights[k]
          /\ num_threads_working[k] \in Int /\ num_threads_working[k] >= 0
          /\ num_threads_working[k] <= NumWorkers
      BY DEF DecInv, DecShapes, DecCounts
    <3>2. TileHeights[k] \in Nat /\ NumWorkers \in Nat
      BY DecSizes
    <3> QED BY <3>1, <3>2
  <2>3. ASSUME NEW x \in Dec!RowIds
        PROVE  cur_sb_col[x] \in -1..Dec!AllCols(x[1])
    <3>1. /\ cur_sb_col[x] \in Int /\ cur_sb_col[x] >= -1 /\ cur_sb_col[x] <= Dec!AllCols(x[1])
      BY DEF DecInv, DecShapes
    <3>2. Dec!AllCols(x[1]) \in Int
      BY DecMembers, DecSizes DEF Dec!AllCols, Dec!SyncRange
    <3> HIDE DEF Dec!AllCols
    <3> QED BY <3>1, <3>2
  <2>4. /\ pc \in [Workers -> Dec!Places] /\ tiles_left \subseteq Dec!Tiles /\ row_mt_exit \in BOOLEAN
        /\ corrupted \subseteq Workers /\ outcome \in {"busy", "ok", "error"}
    BY DEF DecInv, DecShapes
  <2> QED BY <2>1, <2>2, <2>3, <2>4 DEF Dec!TypeOK, Dec!Workers, Workers
<1>2. Dec!RowsAreTakenOnce
  BY DEF DecInv, DecShapes, DecApart, Dec!RowsAreTakenOnce, Dec!Workers, Workers
<1> QED BY <1>1, <1>2

-----------------------------------------------------------------------------
\* A stage at work, seen from outside: it is busy, and does one block at most.

\* A thread of the decoder at work never ends the stage.
LEMMA DecWorks ==
    ASSUME DecInv, NEW t \in Workers,
           Dec!Step(t) \/ Dec!FindCorruption(t) \/ Dec!Throw(t) \/ Dec!Spurious(t)
    PROVE  /\ outcome = "busy" /\ outcome' = outcome
           /\ \/ done' = done
              \/ \E b \in Dec!Blocks \ done : Dec!Needs(b) \subseteq done /\ done' = done \cup {b}
<1>1. DecStep(t)
  BY DecStepKinds DEF DecInv
<1>2. outcome' = outcome /\ pc[t] \notin {"returned", "failed"}
  BY <1>1 DEF DecStep, DecWalks, DecRoute, DecTakesTile, DecEnters, DecParses, DecSignals, DecLeaves,
              DecTakesRow, DecDecodes, DecWrites, DecFails, DecGivesUp
<1> QED BY <1>1, <1>2, DecInOrder DEF DecInv, DecEnds

\* A thread of the loop filter at work never ends the stage.
LEMMA LfWorks ==
    ASSUME LfInv, NEW t \in Workers, Lf!Step(t) \/ Lf!Throw(t) \/ Lf!Spurious(t)
    PROVE  /\ outcome = "busy" /\ outcome' = outcome
           /\ \/ done' = done
              \/ \E b \in Lf!Blocks \ done : Lf!Needs(b) \subseteq done /\ done' = done \cup {b}
<1>1. LfStep(t)
  BY LfStepKinds DEF LfInv
<1>2. outcome' = outcome /\ pc[t] \notin {"returned", "failed"}
  BY <1>1 DEF LfStep, LfWalks, LfRoute, LfReturns, LfTakes, LfFiltersVert, LfWrites, LfFiltersHorz,
              LfFails
<1> QED BY <1>1, <1>2, LfInOrder DEF LfInv, LfEnds

\* A thread of CDEF at work never ends the stage.
LEMMA CdefWorks ==
    ASSUME CdefInv, NEW t \in Workers, Cdef!Step(t) \/ Cdef!Throw(t) \/ Cdef!Spurious(t)
    PROVE  /\ outcome = "busy" /\ outcome' = outcome
           /\ \/ done' = done
              \/ \E b \in CdefBlocks \ done :
                    Cdef!Needs(b) \subseteq done /\ done' = done \cup {b}
<1>1. CdefStep(t)
  BY CdefStepKinds DEF CdefInv
<1>2. outcome' = outcome /\ pc[t] \notin {"returned", "failed"}
  BY <1>1 DEF CdefStep, CdefWalks, CdefRoute, CdefTakes, CdefCopies, CdefSignals, CdefConsumes,
              CdefFilters, CdefFails
<1> QED BY <1>1, <1>2, CdefInOrder DEF CdefInv, CdefEnds

\* A thread of loop restoration at work never ends the stage.
LEMMA LrWorks ==
    ASSUME LrInv, NEW t \in Workers, Lr!Step(t) \/ Lr!Throw(t) \/ Lr!Spurious(t)
    PROVE  /\ outcome = "busy" /\ outcome' = outcome
           /\ \/ done' = done
              \/ \E b \in Lr!Blocks \ done : Lr!Needs(b) \subseteq done /\ done' = done \cup {b}
<1>1. LrStep(t)
  BY LrStepKinds DEF LrInv
<1>2. outcome' = outcome /\ pc[t] \notin {"returned", "failed"}
  BY <1>1 DEF LrStep, LrWalks, LrRoute, LrReturns, LrTakes, LrFilters, LrWrites, LrCopies, LrFails
<1> QED BY <1>1, <1>2, LrInOrder DEF LrInv, LrEnds

-----------------------------------------------------------------------------
\* The system.

IInv ==
    /\ stage \in {"tiles", "lf", "cdef", "lr"}
    /\ stage = "cdef" => CdefInv
    /\ stage # "cdef" => FlagsIdle
    /\ stage = "lr" => LrInv
    /\ stage = "lf" => LfInv
    /\ stage = "tiles" => DecInv

\* The initial states satisfy the invariant.
LEMMA InitIInv == Init => IInv
<1> SUFFICES ASSUME Init PROVE IInv
  OBVIOUS
<1>1. stage = "tiles" /\ Dec!Init /\ nvfb = 0 /\ is_row_done = <<>>
  BY DEF Init
<1>2. DecInv
  <2>1. DecFresh
    BY <1>1 DEF DecFresh, Dec!Init, Dec!AnyTile, Dec!Zeros, Dec!Workers, Workers
  <2> QED BY <2>1, DecFreshIs
<1>3. FlagsIdle
  <2>1. 0..(nvfb - 1) = {} /\ 0..(nvfb - 2) = {} /\ nvfb = 0
    BY <1>1
  <2>2. is_row_done \in [{} -> {0, 1}]
    BY <1>1
  <2> QED BY <2>1, <2>2 DEF FlagsIdle
<1> QED BY <1>1, <1>2, <1>3 DEF IInv

\* The row objects of CDEF outlive the frame: only CDEF touches them.
LEMMA FlagsIdleKept ==
    ASSUME FlagsIdle, UNCHANGED <<nvfb, is_row_done>>
    PROVE  FlagsIdle'
  BY DEF FlagsIdle

\* A thread at work keeps the invariant of its stage and leaves the row objects
\* of CDEF alone unless its stage is CDEF.
LEMMA StepKept ==
    ASSUME IInv, NEW t \in Workers, Step(t) \/ Fault(t)
    PROVE  IInv'
<1>1. CASE /\ stage = "tiles" /\ UNCHANGED OtherThanTiles
           /\ Dec!Step(t) \/ Dec!Throw(t) \/ Dec!FindCorruption(t) \/ Dec!Spurious(t)
  <2>1. stage' = "tiles" /\ UNCHANGED <<nvfb, is_row_done>> /\ FlagsIdle /\ DecInv
    BY <1>1 DEF OtherThanTiles, cdefOnly, IInv
  <2>2. DecInv' /\ FlagsIdle'
    BY <1>1, <2>1, DecStepKept, FlagsIdleKept
  <2> QED BY <2>1, <2>2 DEF IInv
<1>2. CASE /\ stage = "lf" /\ UNCHANGED OtherThanLf
           /\ Lf!Step(t) \/ Lf!Throw(t) \/ Lf!Spurious(t)
  <2>1. stage' = "lf" /\ UNCHANGED <<nvfb, is_row_done>> /\ FlagsIdle /\ LfInv
    BY <1>2 DEF OtherThanLf, cdefOnly, IInv
  <2>2. LfInv' /\ FlagsIdle'
    BY <1>2, <2>1, LfStepKept, FlagsIdleKept
  <2> QED BY <2>1, <2>2 DEF IInv
<1>3. CASE /\ stage = "cdef" /\ UNCHANGED OtherThanCdef
           /\ Cdef!Step(t) \/ Cdef!Throw(t) \/ Cdef!Spurious(t)
  <2>1. stage' = "cdef" /\ CdefInv
    BY <1>3 DEF OtherThanCdef, IInv
  <2>2. CdefInv'
    BY <1>3, <2>1, CdefStepKept
  <2> QED BY <2>1, <2>2 DEF IInv
<1>4. CASE /\ stage = "lr" /\ UNCHANGED OtherThanLr
           /\ Lr!Step(t) \/ Lr!Throw(t) \/ Lr!Spurious(t)
  <2>1. stage' = "lr" /\ UNCHANGED <<nvfb, is_row_done>> /\ FlagsIdle /\ LrInv
    BY <1>4 DEF OtherThanLr, cdefOnly, IInv
  <2>2. LrInv' /\ FlagsIdle'
    BY <1>4, <2>1, LrStepKept, FlagsIdleKept
  <2> QED BY <2>1, <2>2 DEF IInv
<1> QED BY <1>1, <1>2, <1>3, <1>4 DEF Step, Fault

\* The main thread, which joins the workers, keeps it too.
LEMMA JoinKept ==
    ASSUME IInv, Join
    PROVE  IInv'
<1>1. CASE stage = "tiles" /\ Dec!Join /\ UNCHANGED OtherThanTiles
  <2>1. stage' = "tiles" /\ UNCHANGED <<nvfb, is_row_done>> /\ FlagsIdle /\ DecInv
    BY <1>1 DEF OtherThanTiles, cdefOnly, IInv
  <2>2. DecInv' /\ FlagsIdle'
    BY <1>1, <2>1, DecJoins, FlagsIdleKept
  <2> QED BY <2>1, <2>2 DEF IInv
<1>2. CASE stage = "lf" /\ Lf!Join /\ UNCHANGED OtherThanLf
  <2>1. stage' = "lf" /\ UNCHANGED <<nvfb, is_row_done>> /\ FlagsIdle /\ LfInv
    BY <1>2 DEF OtherThanLf, cdefOnly, IInv
  <2>2. LfInv' /\ FlagsIdle'
    BY <1>2, <2>1, LfJoins, FlagsIdleKept
  <2> QED BY <2>1, <2>2 DEF IInv
<1>3. CASE stage = "cdef" /\ Cdef!Join /\ UNCHANGED OtherThanCdef
  <2>1. stage' = "cdef" /\ CdefInv
    BY <1>3 DEF OtherThanCdef, IInv
  <2>2. CdefInv'
    BY <1>3, <2>1, CdefJoins
  <2> QED BY <2>1, <2>2 DEF IInv
<1>4. CASE stage = "lr" /\ Lr!Join /\ UNCHANGED OtherThanLr
  <2>1. stage' = "lr" /\ UNCHANGED <<nvfb, is_row_done>> /\ FlagsIdle /\ LrInv
    BY <1>4 DEF OtherThanLr, cdefOnly, IInv
  <2>2. LrInv' /\ FlagsIdle'
    BY <1>4, <2>1, LrJoins, FlagsIdleKept
  <2> QED BY <2>1, <2>2 DEF IInv
<1> QED BY <1>1, <1>2, <1>3, <1>4 DEF Join

\* A filter starts only after a good stage, and so finds CDEF's flags idle.
LEMMA StartKept ==
    ASSUME IInv, StartLf \/ StartCdef \/ StartLr \/ StartFrame
    PROVE  IInv'
<1>1. outcome = "ok" => FlagsIdle
  BY CdefLeavesIdle DEF IInv
<1>2. CASE StartLf
  <2>1. /\ stage' = "lf" /\ outcome = "ok" /\ done' = {} /\ Lf!Start
        /\ UNCHANGED <<nvfb, is_row_done>>
    BY <1>2 DEF StartLf, Enter, cdefOnly
  <2>2. LfInv' /\ FlagsIdle'
    BY <1>1, <2>1, LfStarts, FlagsIdleKept
  <2> QED BY <2>1, <2>2 DEF IInv
<1>3. CASE StartCdef
  <2>1. stage' = "cdef" /\ outcome = "ok" /\ done' = {} /\ Cdef!Start
    BY <1>3 DEF StartCdef, Enter
  <2>2. CdefInv'
    BY <1>1, <2>1, CdefStarts
  <2> QED BY <2>1, <2>2 DEF IInv
<1>4. CASE StartLr
  <2>1. /\ stage' = "lr" /\ outcome = "ok" /\ done' = {} /\ Lr!Start
        /\ UNCHANGED <<nvfb, is_row_done>>
    BY <1>4 DEF StartLr, Enter, cdefOnly
  <2>2. LrInv' /\ FlagsIdle'
    BY <1>1, <2>1, LrStarts, FlagsIdleKept
  <2> QED BY <2>1, <2>2 DEF IInv
<1>5. CASE StartFrame
  <2>1. /\ stage' = "tiles" /\ outcome # "busy" /\ ~(stage = "cdef" /\ outcome = "error")
        /\ done' = {} /\ Dec!Start /\ UNCHANGED <<nvfb, is_row_done>>
    BY <1>5 DEF StartFrame
  <2>2. FlagsIdle
    <3>1. stage = "cdef" => outcome \in {"busy", "ok", "error"}
      BY DEF IInv, CdefInv, CdefShapes
    <3> QED BY <1>1, <2>1, <3>1 DEF IInv
  <2>3. DecInv' /\ FlagsIdle'
    BY <2>1, <2>2, DecStarts, FlagsIdleKept
  <2> QED BY <2>1, <2>3 DEF IInv
<1> QED BY <1>2, <1>3, <1>4, <1>5

\* And so does a step in which nothing happens.
LEMMA StutterKept ==
    ASSUME IInv, UNCHANGED vars
    PROVE  IInv'
<1> USE DEF vars, tilesOnly, cdefOnly, filterOnly
<1>1. CdefInv => CdefInv'
  BY DEF CdefInv, CdefShapes, CdefExitMeans, CdefApart, CdefDone, CdefCopied, CdefFlags,
         CdefSignalled, CdefCovered, CdefEnds
<1>2. FlagsIdle => FlagsIdle'
  BY DEF FlagsIdle
<1>3. LrInv => LrInv'
  BY DEF LrInv, LrShapes, LrExitMeans, LrApart, LrSoFar, LrPast, LrPublished, LrNext, LrSeen,
         LrCovered, LrEnds
<1>4. LfInv => LfInv'
  BY DEF LfInv, LfShapes, LfExitMeans, LfApart, LfDir, LfSoFar, LfPast, LfPublished, LfNext, LfSeen,
         LfBase, LfOnTheWay, LfCovered, LfEnds
<1>5. ASSUME DecInv PROVE DecInv'
  <2>1. DecShapes' /\ DecExitMeans'
    BY <1>5 DEF DecInv, DecShapes, DecExitMeans
  <2>2. DecCounts'
    <3>1. \A k \in Dec!Tiles : DecAtWork(k)' = DecAtWork(k) /\ DecLost(k)' = DecLost(k)
      BY DEF DecAtWork, DecLost
    <3> QED BY <1>5, <3>1 DEF DecInv, DecCounts
  <2>3. DecParsers' /\ DecParsed' /\ DecApart'
    BY <1>5 DEF DecInv, DecParsers, DecParsed, DecApart
  <2>4. DecSoFar' /\ DecPublished'
    BY <1>5 DEF DecInv, DecSoFar, DecPast, DecPublished
  <2>5. DecNext' /\ DecCovered' /\ DecEnds'
    BY <1>5 DEF DecInv, DecNext, DecSeen, DecCovered, DecEnds
  <2> QED BY <2>1, <2>2, <2>3, <2>4, <2>5 DEF DecInv
<1> QED BY <1>1, <1>2, <1>3, <1>4, <1>5 DEF IInv

\* No step of the decoder breaks the invariant.
LEMMA NextIInv == IInv /\ [Next]_vars => IInv'
  BY StepKept, JoinKept, StartKept, StutterKept DEF Next

\* The invariant of the system.
LEMMA Invariant == Spec => []IInv
  BY InitIInv, NextIInv, PTL DEF Spec

\* What the invariant says of the properties of FrameMt.
LEMMA IInvSays ==
    IInv => TypeOK /\ RowsAreTakenOnce /\ BlocksAreReady /\ FlagsConsumed /\ NoUnitsTouch
  BY CdefHolds, LrHolds, LfHolds, DecHolds
  DEF IInv, TypeOK, RowsAreTakenOnce, BlocksAreReady, FlagsConsumed, NoUnitsTouch

\* Whichever stage is at work, its variables have the shapes of its own module:
\* what one stage leaves in the variables they share, the next one sets up anew.
THEOREM TypeCorrect == Spec => []TypeOK
  BY Invariant, IInvSays, PTL

\* Two workers never reconstruct the same row of a tile, and none takes a row
\* that the entropy decoder has not parsed (get_next_job_info and
\* parse_tile_row_mt under row_mt_mutex_), whatever throws or is found corrupt.
THEOREM TakenOnce == Spec => []RowsAreTakenOnce
  BY Invariant, IInvSays, PTL

\* The loop filter works on a block once in each direction, and horizontally
\* only after the vertical edges around it are filtered (sync_read and sync_write
\* of thread_common.c); CDEF filters a row only after its own lines and those of
\* the row above are copied (cdef_row_mt_sync_read), for every size of frame and
\* number of workers.
THEOREM Ready == Spec => []BlocksAreReady
  BY Invariant, IInvSays, PTL

\* A good frame leaves the flags of CDEF's rows cleared, all but the last one's,
\* which nobody reads: av1_cdef_mt_worker consumes them with no reset between
\* the frames.
THEOREM Consumed == Spec => []FlagsConsumed
  BY Invariant, IInvSays, PTL

\* Two workers never restore units that touch: the lines around a unit, which
\* hold other pixels while it is filtered, are nobody else's at that time
\* (lr_sync_read and lr_sync_write), also while a failed worker releases rows.
THEOREM UnitsApart == Spec => []NoUnitsTouch
  BY Invariant, IInvSays, PTL

-----------------------------------------------------------------------------
\* The stages implement the wavefront.

\* What each block of a stage depends on, by stage.
LEMMA NeedsOfStages ==
    /\ NeedsOf["tiles"] = [b \in Dec!Blocks |-> Dec!Needs(b)]
    /\ NeedsOf["lf"] = [b \in Lf!Blocks |-> Lf!Needs(b)]
    /\ NeedsOf["cdef"] = [b \in CdefBlocks |-> Cdef!Needs(b)]
    /\ NeedsOf["lr"] = [b \in Lr!Blocks |-> Lr!Needs(b)]
  BY DEF NeedsOf, CdefBlocks, CdefRows

\* A block done in its order is a step of the abstract specification.
LEMMA WorkIsEncode ==
    ASSUME stage' = stage, outcome = "busy", outcome' = outcome,
           NEW B, NEW needs, NeedsOf[stage] = needs, DOMAIN needs = B,
           \/ done' = done
           \/ \E b \in B \ done : needs[b] \subseteq done /\ done' = done \cup {b}
    PROVE  [Stage!Next]_Stage!vars
<1>1. NeedsOf[stage]' = NeedsOf[stage]
  OBVIOUS
<1>2. CASE done' = done
  BY <1>1, <1>2 DEF Stage!vars
<1>3. CASE \E b \in B \ done : needs[b] \subseteq done /\ done' = done \cup {b}
  BY <1>1, <1>3 DEF Stage!Next, Stage!Encode, Stage!Blocks
<1> QED BY <1>2, <1>3

\* A thread at work does one block in its order, or nothing the frame sees.
LEMMA StepWorks ==
    ASSUME IInv, NEW t \in Workers, Step(t) \/ Fault(t)
    PROVE  [Stage!Next]_Stage!vars
<1>1. CASE /\ stage = "tiles" /\ UNCHANGED OtherThanTiles
           /\ Dec!Step(t) \/ Dec!Throw(t) \/ Dec!FindCorruption(t) \/ Dec!Spurious(t)
  <2>1. stage' = stage /\ DecInv
    BY <1>1 DEF OtherThanTiles, IInv
  <2> DEFINE needs == [b \in Dec!Blocks |-> Dec!Needs(b)]
  <2>2. NeedsOf[stage] = needs /\ DOMAIN needs = Dec!Blocks
    BY <1>1, NeedsOfStages
  <2>3. /\ outcome = "busy" /\ outcome' = outcome
        /\ \/ done' = done
           \/ \E b \in Dec!Blocks \ done : needs[b] \subseteq done /\ done' = done \cup {b}
    BY <1>1, <2>1, DecWorks
  <2> HIDE DEF needs
  <2> QED BY <2>1, <2>2, <2>3, WorkIsEncode
<1>2. CASE /\ stage = "lf" /\ UNCHANGED OtherThanLf
           /\ Lf!Step(t) \/ Lf!Throw(t) \/ Lf!Spurious(t)
  <2>1. stage' = stage /\ LfInv
    BY <1>2 DEF OtherThanLf, IInv
  <2> DEFINE needs == [b \in Lf!Blocks |-> Lf!Needs(b)]
  <2>2. NeedsOf[stage] = needs /\ DOMAIN needs = Lf!Blocks
    BY <1>2, NeedsOfStages
  <2>3. /\ outcome = "busy" /\ outcome' = outcome
        /\ \/ done' = done
           \/ \E b \in Lf!Blocks \ done : needs[b] \subseteq done /\ done' = done \cup {b}
    BY <1>2, <2>1, LfWorks
  <2> HIDE DEF needs
  <2> QED BY <2>1, <2>2, <2>3, WorkIsEncode
<1>3. CASE /\ stage = "cdef" /\ UNCHANGED OtherThanCdef
           /\ Cdef!Step(t) \/ Cdef!Throw(t) \/ Cdef!Spurious(t)
  <2>1. stage' = stage /\ CdefInv
    BY <1>3 DEF OtherThanCdef, IInv
  <2> DEFINE needs == [b \in CdefBlocks |-> Cdef!Needs(b)]
  <2>2. NeedsOf[stage] = needs /\ DOMAIN needs = CdefBlocks
    BY <1>3, NeedsOfStages
  <2>3. /\ outcome = "busy" /\ outcome' = outcome
        /\ \/ done' = done
           \/ \E b \in CdefBlocks \ done : needs[b] \subseteq done /\ done' = done \cup {b}
    BY <1>3, <2>1, CdefWorks
  <2> HIDE DEF needs
  <2> QED BY <2>1, <2>2, <2>3, WorkIsEncode
<1>4. CASE /\ stage = "lr" /\ UNCHANGED OtherThanLr
           /\ Lr!Step(t) \/ Lr!Throw(t) \/ Lr!Spurious(t)
  <2>1. stage' = stage /\ LrInv
    BY <1>4 DEF OtherThanLr, IInv
  <2> DEFINE needs == [b \in Lr!Blocks |-> Lr!Needs(b)]
  <2>2. NeedsOf[stage] = needs /\ DOMAIN needs = Lr!Blocks
    BY <1>4, NeedsOfStages
  <2>3. /\ outcome = "busy" /\ outcome' = outcome
        /\ \/ done' = done
           \/ \E b \in Lr!Blocks \ done : needs[b] \subseteq done /\ done' = done \cup {b}
    BY <1>4, <2>1, LrWorks
  <2> HIDE DEF needs
  <2> QED BY <2>1, <2>2, <2>3, WorkIsEncode
<1> QED BY <1>1, <1>2, <1>3, <1>4 DEF Step, Fault

\* A stage is joined in error, or with every block done.
LEMMA JoinReports ==
    ASSUME IInv, Join
    PROVE  Stage!Next
<1>1. stage' = stage
  BY DEF Join, OtherThanTiles, OtherThanLf, OtherThanCdef, OtherThanLr
<1>2. /\ done' = done /\ outcome = "busy"
      /\ outcome' = "error" \/ (outcome' = "ok" /\ done = DOMAIN NeedsOf[stage])
  <2>1. CASE stage = "tiles" /\ Dec!Join
    BY <2>1, DecJoins, NeedsOfStages DEF IInv
  <2>2. CASE stage = "lf" /\ Lf!Join
    BY <2>2, LfJoins, NeedsOfStages DEF IInv
  <2>3. CASE stage = "cdef" /\ Cdef!Join
    BY <2>3, CdefJoins, NeedsOfStages DEF IInv
  <2>4. CASE stage = "lr" /\ Lr!Join
    BY <2>4, LrJoins, NeedsOfStages DEF IInv
  <2> QED BY <2>1, <2>2, <2>3, <2>4 DEF Join
<1>3. NeedsOf[stage]' = NeedsOf[stage]
  BY <1>1
<1> QED BY <1>2, <1>3 DEF Stage!Next, Stage!Succeed, Stage!Fail, Stage!Blocks

\* The next stage, of this frame or of the next, starts with nothing done.
LEMMA StartAnew ==
    ASSUME StartLf \/ StartCdef \/ StartLr \/ StartFrame
    PROVE  Stage!NextFrame
<1>1. outcome # "busy" /\ done' = {} /\ outcome' = "busy"
  BY DEF StartLf, StartCdef, StartLr, StartFrame, Enter, Lf!Start, Cdef!Start, Lr!Start, Dec!Start
<1> QED BY <1>1 DEF Stage!NextFrame

\* Frame after frame and stage after stage, whatever fails, the threads of the
\* decoder and of its filters do each block once, in an order that a single
\* thread could have used, and a stage reported good is complete: Wavefront is
\* what av1_decode_tg_tiles_and_wrapup relies on when it goes on to the next.
THEOREM StagesRefineWavefront == Spec => StagesInOrder
<1>1. Init => Stage!Init
  BY DEF Init, Dec!Init, Stage!Init
<1>2. IInv /\ [Next]_vars => [Stage!Next]_Stage!vars
  <2>1. UNCHANGED vars => UNCHANGED Stage!vars
    BY DEF vars, Stage!vars
  <2>2. Stage!NextFrame => Stage!Next
    BY DEF Stage!Next
  <2> QED BY <2>1, <2>2, StepWorks, JoinReports, StartAnew DEF Next
<1> QED BY <1>1, <1>2, Invariant, PTL DEF Spec, StagesInOrder, Stage!Spec

=============================================================================
