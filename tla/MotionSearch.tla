---------------------------- MODULE MotionSearch ----------------------------
(***************************************************************************)
(* predict_inter_mb (src/prediction.c): the two-stage diamond search that  *)
(* chooses the motion vector of one macroblock of a P frame.  One step is  *)
(* one probe of a diamond, or the end of a pass.  The structure-aware SAD  *)
(* of the picture is the parameter Sad: the search sees it only through    *)
(* comparisons of costs.                                                   *)
(***************************************************************************)
EXTENDS Integers

CONSTANTS
    MB,             \* BHEVC_MB_SIZE: side of a macroblock, in luma samples
    FrameW, FrameH, \* luma size of the frame, multiples of MB
    Scenes,         \* the pictures the search may be run on
    Sad(_, _, _)    \* Sad(s, dx, dy): structure_sad16x16 at displacement (dx, dy) in scene s

Regions == {"FLAT", "EDGE", "TEXTURE"}

\* mb->search_range, as edge_classify_mbs sets it with the region type.
SearchRange == [FLAT |-> 4, EDGE |-> 32, TEXTURE |-> 16]

ASSUME SizeAssumption ==
    /\ MB \in Nat \ {0}
    /\ FrameW \in Nat /\ FrameH \in Nat
    /\ FrameW % MB = 0 /\ FrameH % MB = 0

ASSUME SadAssumption == \A s \in Scenes : \A x, y \in -32..32 : Sad(s, x, y) \in Nat

Abs(x) == IF x < 0 THEN -x ELSE x

LargeDiamond == << <<-4, 0>>, <<4, 0>>, <<0, -4>>, <<0, 4>>,
                   <<-3, -3>>, <<3, -3>>, <<-3, 3>>, <<3, 3>> >>
SmallDiamond == << <<-1, 0>>, <<1, 0>>, <<0, -1>>, <<0, 1>>,
                   <<-1, -1>>, <<1, -1>>, <<-1, 1>>, <<1, 1>> >>
LargePasses == 4
SmallPasses == 3

VARIABLES
    mbx, mby,   \* the macroblock, in macroblock units
    region,     \* mba->type
    scene,      \* stands for orig, ref and their edge maps
    phase,      \* "start", the loop the search is in ("large", "small"), or "done"
    pass, d,    \* the loop counters; d is 1-based here
    best,       \* the vector that will be returned
    cx, cy,     \* the centre the next probes are taken around
    best_cost,
    moved

vars == <<mbx, mby, region, scene, phase, pass, d, best, cx, cy, best_cost, moved>>

Columns == {i \in 0..FrameW : (i + 1) * MB <= FrameW}
Rows    == {i \in 0..FrameH : (i + 1) * MB <= FrameH}

range == SearchRange[region]

\* abs(dx) > range || abs(dy) > range fails
WithinRange(dx, dy) == Abs(dx) <= range /\ Abs(dy) <= range

\* A faulty variant: only the corner of the block is tested.
CornerInsideFrame(dx, dy) ==
    /\ mbx * MB + dx >= 0 /\ mbx * MB + dx < FrameW
    /\ mby * MB + dy >= 0 /\ mby * MB + dy < FrameH

\* The reference block at (ox + dx, oy + dy) lies inside the frame.
InsideFrame(dx, dy) ==
    /\ mbx * MB + dx >= 0 /\ mbx * MB + dx + MB <= FrameW
    /\ mby * MB + dy >= 0 /\ mby * MB + dy + MB <= FrameH

\* The first cost, of the zero vector, carries no penalty; (0, 0) has none either way.
Cost(dx, dy) == Sad(scene, dx, dy) + (Abs(dx) + Abs(dy)) * 2

OffsetX == IF phase = "large" THEN LargeDiamond[d][1] * (1 + pass) ELSE SmallDiamond[d][1]
OffsetY == IF phase = "large" THEN LargeDiamond[d][2] * (1 + pass) ELSE SmallDiamond[d][2]
ProbeX == cx + OffsetX
ProbeY == cy + OffsetY

Init ==
    /\ mbx \in Columns /\ mby \in Rows
    /\ region \in Regions
    /\ scene \in Scenes
    /\ phase = "start"
    /\ pass = 0 /\ d = 1
    /\ best = [x |-> 0, y |-> 0]
    /\ cx = 0 /\ cy = 0
    /\ best_cost = Sad(scene, 0, 0)
    /\ moved = FALSE

\* A FLAT macroblock returns the zero vector before anything is compared.
ReturnZero ==
    /\ phase = "start" /\ region = "FLAT"
    /\ phase' = "done"
    /\ UNCHANGED <<mbx, mby, region, scene, pass, d, best, cx, cy, best_cost, moved>>

BeginSearch ==
    /\ phase = "start" /\ region # "FLAT"
    /\ phase' = "large"
    /\ UNCHANGED <<mbx, mby, region, scene, pass, d, best, cx, cy, best_cost, moved>>

Searching == phase \in {"large", "small"} /\ d <= 8

\* A faulty variant: a probe that is refused is tried again.
ProbeOutsideAgain ==
    /\ Searching
    /\ ~(WithinRange(ProbeX, ProbeY) /\ InsideFrame(ProbeX, ProbeY))
    /\ UNCHANGED vars

\* continue: the probe leaves the search window or the frame.
ProbeOutside ==
    /\ Searching
    /\ ~(WithinRange(ProbeX, ProbeY) /\ InsideFrame(ProbeX, ProbeY))
    /\ d' = d + 1
    /\ UNCHANGED <<mbx, mby, region, scene, phase, pass, best, cx, cy, best_cost, moved>>

ProbeWorse ==
    /\ Searching
    /\ WithinRange(ProbeX, ProbeY) /\ InsideFrame(ProbeX, ProbeY)
    /\ Cost(ProbeX, ProbeY) >= best_cost
    /\ d' = d + 1
    /\ UNCHANGED <<mbx, mby, region, scene, phase, pass, best, cx, cy, best_cost, moved>>

\* A faulty variant: the pass does not notice that it moved.
ProbeBetterUnnoticed ==
    /\ Searching
    /\ WithinRange(ProbeX, ProbeY) /\ InsideFrame(ProbeX, ProbeY)
    /\ Cost(ProbeX, ProbeY) < best_cost
    /\ best_cost' = Cost(ProbeX, ProbeY)
    /\ best' = [x |-> ProbeX, y |-> ProbeY]
    /\ cx' = ProbeX /\ cy' = ProbeY
    /\ d' = d + 1
    /\ UNCHANGED <<mbx, mby, region, scene, phase, pass, moved>>

\* The centre moves at once: the remaining probes of the pass are taken around it.
ProbeBetter ==
    /\ Searching
    /\ WithinRange(ProbeX, ProbeY) /\ InsideFrame(ProbeX, ProbeY)
    /\ Cost(ProbeX, ProbeY) < best_cost
    /\ best_cost' = Cost(ProbeX, ProbeY)
    /\ best' = [x |-> ProbeX, y |-> ProbeY]
    /\ cx' = ProbeX /\ cy' = ProbeY
    /\ moved' = TRUE
    /\ d' = d + 1
    /\ UNCHANGED <<mbx, mby, region, scene, phase, pass>>

\* Either loop ends when a pass moved nothing or its passes are used up.
PassesOf(p) == IF p = "large" THEN LargePasses ELSE SmallPasses
LastPass == ~moved \/ pass + 1 = PassesOf(phase)

NextPass ==
    /\ phase \in {"large", "small"} /\ d > 8
    /\ ~LastPass
    /\ pass' = pass + 1 /\ d' = 1 /\ moved' = FALSE
    /\ UNCHANGED <<mbx, mby, region, scene, phase, best, cx, cy, best_cost>>

StartRefinement ==
    /\ phase = "large" /\ d > 8
    /\ LastPass
    /\ phase' = "small"
    /\ pass' = 0 /\ d' = 1 /\ moved' = FALSE
    /\ UNCHANGED <<mbx, mby, region, scene, best, cx, cy, best_cost>>

Finish ==
    /\ phase = "small" /\ d > 8
    /\ LastPass
    /\ phase' = "done"
    /\ UNCHANGED <<mbx, mby, region, scene, pass, d, best, cx, cy, best_cost, moved>>

Next ==
    \/ ReturnZero \/ BeginSearch
    \/ ProbeOutside \/ ProbeWorse \/ ProbeBetter
    \/ NextPass \/ StartRefinement \/ Finish

\* The search is a loop of one thread: it runs until it returns.
Spec == Init /\ [][Next]_vars /\ WF_vars(Next)

-----------------------------------------------------------------------------

TypeOK ==
    /\ mbx \in Columns /\ mby \in Rows
    /\ region \in Regions /\ scene \in Scenes
    /\ phase \in {"start", "large", "small", "done"}
    /\ pass \in 0..3 /\ d \in 1..9
    /\ best \in [x : -32..32, y : -32..32]
    /\ cx \in -32..32 /\ cy \in -32..32
    /\ best_cost \in Nat
    /\ moved \in BOOLEAN

\* decode_mb_inter clips the block position it computes from the vector and
\* encode_mb_inter does not, so the two predict from the same samples only if
\* the clip never bites.
Clip(v, lo, hi) == IF v < lo THEN lo ELSE IF v > hi THEN hi ELSE v
DecoderClipIsIdentity ==
    /\ Clip(mbx * MB + best.x, 0, FrameW - MB) = mbx * MB + best.x
    /\ Clip(mby * MB + best.y, 0, FrameH - MB) = mby * MB + best.y

\* When the refinement ends because a whole pass moved nothing, no vector one
\* sample away that is legal would have been cheaper: the early exit of the
\* loop gives nothing up although the centre moves inside a pass.
LocalMinimum ==
    (phase = "done" /\ region # "FLAT" /\ ~moved) =>
        \A i \in 1..8 :
            LET x == best.x + SmallDiamond[i][1]
                y == best.y + SmallDiamond[i][2]
            IN (WithinRange(x, y) /\ InsideFrame(x, y)) => Cost(x, y) >= best_cost

\* The search always returns.
Returns == <>(phase = "done")

-----------------------------------------------------------------------------
\* What edge_analysis.c says of FLAT macroblocks: they get "QP+6 (1/4 quality)
\* and 4-pixel search range", so a cheaper vector next to zero would be found.
FlatSearchesItsRange ==
    (phase = "done" /\ region = "FLAT") =>
        \A i \in 1..8 :
            LET x == SmallDiamond[i][1]
                y == SmallDiamond[i][2]
            IN InsideFrame(x, y) => Cost(x, y) >= best_cost

=============================================================================
