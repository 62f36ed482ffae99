------------------------------- MODULE EdgeRd -------------------------------
(***************************************************************************)
(* From the quantizer to the mode of a block in a frame that EDGE-AQ       *)
(* segments: the quantizer index of every segment (av1_edge_aq_frame_setup *)
(* of av1/encoder/aq_edge.c with av1_compute_qdelta_by_rate of             *)
(* ratectrl.c), the class of a block (av1_edge_block_score), and the       *)
(* choice of its mode (av1_rd_pick_inter_mode of rdopt.c): a mode is       *)
(* evaluated (handle_inter_mode, whose motion_mode_rd calls                *)
(* adjust_rdcost), adjusted once more and compared with the best so far.   *)
(* On contours adjust_rdcost adds a penalty to the distortion              *)
(* (av1_edge_rd_adjust of edge_rd.c).  The modes are searched with their   *)
(* transforms (do_tx_search); estimated ones are searched again later,     *)
(* without a penalty.                                                      *)
(*                                                                         *)
(* Ratios and densities are in hundredths; rates are in units of           *)
(* distortion, so that RDCOST is a sum.  A mode stands for the best of its *)
(* motion modes and reference vectors.  The penalty before the clamp is    *)
(* any number: the second one is computed from the prediction buffer as    *)
(* handle_inter_mode leaves it (restore_dst_buf), which need not hold the  *)
(* prediction of this mode.                                                *)
(***************************************************************************)
EXTENDS Integers

CONSTANTS
    MaxQ,           \* quantizer indices are 0..MaxQ (MAXQ)
    BitRates,       \* values of av1_rc_bits_per_mb
    Ranges,         \* rc->best_quality and rc->worst_quality, as pairs
    AlphaFrom,      \* the least index av1_edge_rd_alpha gives a weight to
    Counts,         \* numbers of pixels with a gradient above the threshold
    Total,          \* pixels of a block that have a gradient, away from the border
    Rates, Dists,   \* of a mode
    Offsets,        \* dist_offset before the clamp
    NumModes,       \* modes evaluated for the block
    Infinity        \* INT64_MAX: the budget of a block that has none

ASSUME EdgeRdAssumption ==
    /\ MaxQ \in Nat /\ AlphaFrom \in 0..MaxQ /\ Total \in Nat \ {0}
    /\ BitRates \subseteq Nat /\ BitRates # {}
    /\ Ranges \subseteq {r \in (0..MaxQ) \X (0..MaxQ) : r[1] <= r[2]}
    /\ Counts \subseteq 0..Total
    /\ Rates \subseteq Nat /\ Dists \subseteq Nat /\ Offsets \subseteq Nat
    /\ Infinity \in Nat /\ NumModes \in Nat
    /\ \A r \in Rates, d \in Dists, o \in Offsets : r + d + 2 * o < Infinity

\* EDGE_SEG_CONTOUR_COHERENT, _MIXED, _TEXTURE, _NORMAL, _FLAT
Coherent == 0
Mixed == 1
Texture == 2
Normal == 3
Flat == 4
Segments == 0..7

\* edge_rate_ratio, of all MAX_SEGMENTS
RateRatio == [i \in Segments |-> CASE i = Texture -> 85 [] i = Normal -> 92 [] i = Flat -> 105
                                   [] OTHER -> 100]

VARIABLES
    phase,          \* "frame", "block" or "modes"
    bits,           \* bits per macroblock of every index: it does not grow
    range, base,    \* the indices rate control allows, base_qindex
    qindex,         \* base_qindex plus the delta of every segment
    class,          \* segment_id of the block
    tried,
    best,           \* rate and dist of best_mbmode
    rd_cost,        \* its rate and distortion as they are returned
    best_rd,
    lowest          \* history: the least cost a mode was compared with

frameVars == <<bits, range, base, qindex>>
modeVars == <<tried, best, rd_cost, best_rd, lowest>>
vars == <<phase, frameVars, class, modeVars>>

NoMode == [rate |-> 0, dist |-> Infinity]
RDCOST(s) == s.rate + s.dist

Init ==
    /\ phase = "frame"
    /\ bits \in {f \in [0..MaxQ -> BitRates] : \A q \in 1..MaxQ : f[q] <= f[q - 1]}
    /\ range \in Ranges
    /\ base \in range[1]..range[2]
    /\ qindex = [i \in Segments |-> base]
    /\ class = Coherent
    /\ tried = 0
    /\ best = NoMode /\ rd_cost = NoMode /\ best_rd = Infinity /\ lowest = Infinity

-----------------------------------------------------------------------------
\* The frame and the block.

\* A faulty variant: the index below the first that is good enough.
FindQindexBelow(desired) ==
    LET search[w \in (0..MaxQ) \X (0..MaxQ)] ==
            LET mid == (w[1] + w[2]) \div 2
            IN IF w[1] >= w[2] THEN w[1]
               ELSE IF bits[mid] >= desired THEN search[<<mid + 1, w[2]>>] ELSE search[<<w[1], mid>>]
    IN search[range]

\* find_qindex_by_rate
FindQindex(desired) ==
    LET search[w \in (0..MaxQ) \X (0..MaxQ)] ==
            LET mid == (w[1] + w[2]) \div 2
            IN IF w[1] >= w[2] THEN w[1]
               ELSE IF bits[mid] > desired THEN search[<<mid + 1, w[2]>>] ELSE search[<<w[1], mid>>]
    IN search[range]

\* av1_compute_qdelta_by_rate
Target(i) == (RateRatio[i] * bits[base]) \div RateRatio[Texture]

\* A segment of a frame with loss is not made lossless.
SegmentQindex(i) == LET q == FindQindex(Target(i)) IN IF base # 0 /\ q = 0 THEN 1 ELSE q

FrameSetup ==
    /\ phase = "frame"
    /\ qindex' = [i \in Segments |-> SegmentQindex(i)]
    /\ phase' = "block"
    /\ UNCHANGED <<bits, range, base, class, modeVars>>

\* av1_edge_block_score; coherent: the gradients above the threshold point
\* the same way.  At the border of the picture no pixel may have a gradient.
ClassOf(count, total, coherent) ==
    IF total = 0 THEN Normal
    ELSE IF 100 * count > 18 * total THEN (IF coherent THEN Coherent ELSE Mixed)
    ELSE IF 100 * count > 8 * total THEN Texture
    ELSE IF 100 * count > 3 * total THEN Normal ELSE Flat

BlockScore ==
    /\ phase = "block"
    /\ \E total \in {0, Total}, count \in Counts, coherent \in BOOLEAN :
        /\ count <= total
        /\ class' = ClassOf(count, total, coherent)
    /\ phase' = "modes"
    /\ UNCHANGED <<frameVars, modeVars>>

-----------------------------------------------------------------------------
\* The modes.

\* Segments 1 and 2 are taken for those of cyclic refresh, whose index is base.
PenaltyQindex == IF class \in {1, 2} THEN base ELSE qindex[class]
Pays == class <= Mixed /\ PenaltyQindex >= AlphaFrom

\* A faulty variant: no clamp.
ClampedFreely(offset, dist) == offset

Clamped(offset, dist) == IF dist > 0 /\ offset > dist \div 2 THEN dist \div 2 ELSE offset

\* A faulty variant: blocks of every segment pay.
AdjustAnyBlock(s, offset) == [s EXCEPT !.dist = @ + Clamped(offset, s.dist)]

\* adjust_rdcost of an inter mode
Adjust(s, offset) == IF Pays THEN [s EXCEPT !.dist = @ + Clamped(offset, s.dist)] ELSE s

\* update_search_state
Update(mode, stats) ==
    best' = mode /\ rd_cost' = stats /\ best_rd' = RDCOST(stats)

\* "Did this mode help, i.e., is it the new best mode"
Compare(this_rd, mode, stats) ==
    /\ phase = "modes" /\ tried < NumModes /\ tried' = tried + 1
    /\ IF this_rd < best_rd THEN Update(mode, stats) ELSE UNCHANGED <<best, rd_cost, best_rd>>
    /\ lowest' = IF this_rd < lowest THEN this_rd ELSE lowest
    /\ UNCHANGED <<phase, frameVars, class>>

InterMode ==
    \E rate \in Rates, dist \in Dists, first, second \in Offsets :
        LET mode == [rate |-> rate, dist |-> dist]
            once == Adjust(mode, first)
        IN Compare(RDCOST(once), mode, Adjust(once, second))

\* handle_intra_mode: no penalty
IntraMode ==
    \E rate \in Rates, dist \in Dists :
        LET mode == [rate |-> rate, dist |-> dist] IN Compare(RDCOST(mode), mode, mode)

Next == FrameSetup \/ BlockScore \/ InterMode \/ IntraMode
Spec == Init /\ [][Next]_vars

-----------------------------------------------------------------------------

\* find_qindex_by_rate's own comment: "the smallest integer, for which the
\* corresponding bits per mb <= desired_bits_per_mb.  If no such q index is
\* found, returns 'worst_qindex'", for all targets of the frame, and no
\* segment of a frame with loss is lossless.
SegmentsMeetRates ==
    phase = "block" => \A i \in Segments :
        LET good == {q \in range[1]..range[2] : bits[q] <= Target(i)}
            least == IF good = {} THEN range[2] ELSE CHOOSE q \in good : \A p \in good : q <= p
        IN qindex[i] = IF least = 0 /\ base # 0 THEN 1 ELSE least

\* Away from contours, and on contours of a fine quantizer, the mode is the
\* cheapest of all that were tried.
BestOfPlainBlocks == tried > 0 /\ ~Pays => RDCOST(best) = lowest

\* What is returned for the block, and what later modes are compared with, is
\* the cost of the chosen mode: the two never part, and a mode that has any
\* distortion is not charged more than the two halves.
CostOfTheChosen ==
    tried > 0 => /\ best_rd = RDCOST(rd_cost)
                 /\ best.dist > 0 => 4 * rd_cost.dist <= 9 * best.dist

-----------------------------------------------------------------------------
\* What a comment says.

\* edge_rd.c: "Clamp the edge penalty to at most 50% of the original
\* distortion."
PenaltyAtMostHalf == tried > 0 => 2 * rd_cost.dist <= 3 * best.dist

=============================================================================
