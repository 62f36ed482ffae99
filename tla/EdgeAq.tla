------------------------------- MODULE EdgeAq -------------------------------
(***************************************************************************)
(* The segments of EDGE-AQ frames (--aq-mode=4), from the setup inside the *)
(* recode loop (encode_with_recode_loop of av1/encoder/encoder.c,          *)
(* av1_edge_aq_frame_setup) through the choice of a segment per block and  *)
(* the packing of the frame, to a decoder that follows the same frames.    *)
(* The segmentation is state of its own in every place it passes: cm->seg, *)
(* the map enc_seg.map, the buffer of the frame and of its primary         *)
(* reference, and the decoder's copy of those buffers.                     *)
(*                                                                         *)
(* A picture is a row of Units (4x4 units) and a block an interval of it.  *)
(* The quantizer deltas of a refreshed frame are a function of its base    *)
(* quantizer index, so the index stands for them; 0 are cleared features.  *)
(* A pass of the recode loop always packs the frame (do_dummy_pack), and   *)
(* the last pass is the one that is sent: packing it again gives the same. *)
(***************************************************************************)
EXTENDS Integers, FiniteSets

CONSTANTS
    NumUnits,
    MaxSegment,     \* segments are 0..MaxSegment
    BaseQ,          \* base quantizer indices of the recode loop
    Sizes,          \* picture sizes the encoder may switch between
    Slots,          \* ref_frame_map
    MaxRecodes

ASSUME EdgeAqAssumption ==
    /\ NumUnits \in Nat \ {0} /\ MaxSegment \in Nat \ {0}
    /\ BaseQ \subseteq Nat \ {0} /\ BaseQ # {}
    /\ Sizes # {} /\ Slots # {} /\ "none" \notin Slots
    /\ MaxRecodes \in Nat

Units == 1..NumUnits
Segments == 0..MaxSegment
Maps == [Units -> Segments]
ZeroMap == [u \in Units |-> 0]

VARIABLES
    phase,          \* "idle", "setup", "encode", "encoded" or "packed"
    frame,          \* the frame being coded: kind, primary reference, size, slots it refreshes
    loop_count,
    seg,            \* cm->seg
    vaq_refresh,
    enc_map,        \* cpi->enc_seg.map
    blocks,         \* starts of the blocks; per unit the segment it is quantized with and
                    \* whether its block is skipped
    packet,         \* the coded frame
    ref_frames,     \* the encoder's reference buffers
    dec_frames      \* the decoder's

encVars == <<seg, vaq_refresh, enc_map>>
vars == <<phase, frame, loop_count, encVars, blocks, packet, ref_frames, dec_frames>>

\* av1_disable_segmentation, and the memset of a frame without segments
Disabled == [enabled |-> FALSE, update_map |-> FALSE, update_data |-> FALSE, q |-> 0, last_active |-> 0]
NoFrame == [kind |-> "key", primary |-> "none", size |-> 0, refresh |-> {}]
NoBuffer == [size |-> 0, enabled |-> FALSE, q |-> 0, last_active |-> 0, map |-> ZeroMap]
NoBlocks == [starts |-> {1}, id |-> ZeroMap, skip |-> {}]
NoPacket == [seg |-> Disabled, blocks |-> NoBlocks]

\* get_primary_ref_frame_buf
HasPrev == frame.primary # "none"
PrevOf(bufs) == IF HasPrev THEN bufs[frame.primary] ELSE NoBuffer

Init ==
    /\ phase = "idle"
    /\ frame = NoFrame
    /\ loop_count = 0 /\ seg = Disabled /\ vaq_refresh = FALSE
    /\ enc_map = ZeroMap
    /\ blocks = NoBlocks /\ packet = NoPacket
    /\ ref_frames = [s \in Slots |-> NoBuffer] /\ dec_frames = ref_frames

-----------------------------------------------------------------------------
\* A frame is chosen.  "key": a shown key frame.  "refresh": any other frame
\* that av1_edge_aq_frame_setup takes for a refresh (intra-only, error
\* resilient, alt-ref, golden).  "leaf": the rest; one without a primary
\* reference was asked for with AOM_EFLAG_SET_PRIMARY_REF_NONE.
KeyFrame(f) == f.kind = "key" /\ f.primary = "none" /\ f.refresh = Slots
InterFrame(f) == f.kind # "key" /\ \A s \in Slots : ref_frames[s] # NoBuffer

StartFrame ==
    /\ phase = "idle"
    /\ \E f \in [kind : {"key", "refresh", "leaf"}, primary : Slots \cup {"none"},
                 size : Sizes, refresh : {{}, Slots} \cup {{s} : s \in Slots}] :
        /\ KeyFrame(f) \/ InterFrame(f)
        /\ frame' = f
    /\ loop_count' = 0
    /\ phase' = "setup"
    /\ UNCHANGED <<seg, vaq_refresh, enc_map, blocks, packet, ref_frames, dec_frames>>

\* av1_setup_frame, in the first pass only
SetupFrame(s) ==
    IF loop_count # 0 THEN s
    ELSE IF HasPrev THEN [s EXCEPT !.vaq = FALSE]
    ELSE [s EXCEPT !.vaq = FALSE,
                   !.seg = [@ EXCEPT !.q = 0,
                                     !.update_map = s.seg.update_map \/ frame.kind # "key",
                                     !.update_data = s.seg.update_data \/ frame.kind # "key"]]

\* A faulty variant: the map of a primary reference of any size is used.
EdgeSetupAnySize(s, base) ==
    IF frame.kind = "leaf" THEN s
    ELSE [s EXCEPT !.vaq = TRUE,
                   !.seg = [@ EXCEPT !.enabled = TRUE, !.update_map = TRUE, !.update_data = TRUE,
                                     !.q = base]]

\* av1_edge_aq_frame_setup
EdgeSetup(s, base) ==
    IF HasPrev /\ PrevOf(ref_frames).size # frame.size
    THEN [s EXCEPT !.enc_map = ZeroMap,
                   !.seg = [@ EXCEPT !.enabled = FALSE, !.update_map = FALSE, !.update_data = FALSE,
                                     !.q = 0]]
    ELSE IF frame.kind = "leaf" THEN s
    ELSE [s EXCEPT !.vaq = TRUE,
                   !.seg = [@ EXCEPT !.enabled = TRUE, !.update_map = TRUE, !.update_data = TRUE,
                                     !.q = base]]

\* av1_calculate_segdata
LastActive(q) == IF q = 0 THEN 0 ELSE MaxSegment

\* Then the features are taken from the primary reference, or counted
\* anew, or dropped.
Features(s) ==
    LET prev == PrevOf(ref_frames)
    IN CASE ~s.seg.enabled -> [s EXCEPT !.seg = Disabled]
         [] s.seg.enabled /\ ~s.seg.update_data /\ HasPrev ->
                [s EXCEPT !.seg = [@ EXCEPT !.enabled = prev.enabled, !.q = prev.q,
                                            !.last_active = prev.last_active]]
         [] OTHER -> [s EXCEPT !.seg.last_active = LastActive(s.seg.q)]

Lesser(a, b) == IF a < b THEN a ELSE b

\* A faulty variant: the map of an earlier frame is used as it is.
EncoderMapAsItIs(s) == s

\* encode_frame_internal: "Make sure segment_id is no larger than last_active_segid"
EncoderMap(s) ==
    IF s.seg.enabled /\ s.seg.update_map
    THEN [s EXCEPT !.enc_map = [u \in Units |-> Lesser(@[u], s.seg.last_active)]]
    ELSE s

\* cm->last_frame_seg_map, also set there
LastMap == IF PrevOf(ref_frames).enabled THEN PrevOf(ref_frames).map ELSE ZeroMap

Setup(base) ==
    /\ phase = "setup"
    /\ LET s == EncoderMap(Features(EdgeSetup(SetupFrame(
                   [seg |-> seg, vaq |-> vaq_refresh, enc_map |-> enc_map]), base)))
       IN seg' = s.seg /\ vaq_refresh' = s.vaq /\ enc_map' = s.enc_map
    /\ phase' = "encode"
    /\ UNCHANGED <<frame, loop_count, blocks, packet, ref_frames, dec_frames>>

-----------------------------------------------------------------------------
\* Blocks.

Block(starts, u) ==
    LET first == CHOOSE x \in starts : x <= u /\ \A y \in starts : y <= u => y <= x
    IN {v \in Units : v >= first /\ \A y \in starts : y > first => v < y}

\* get_segment_id
Least(map, us) == CHOOSE x \in {map[u] : u \in us} : \A u \in us : x <= map[u]

\* av1_set_offsets, setup_block_rdmult: the score of the block in a frame that
\* refreshes the segments, and what a map says otherwise.
EncodeFrame ==
    /\ phase = "encode"
    /\ \E others \in SUBSET (Units \ {1}), skipped \in SUBSET Units, score \in Maps :
        LET starts == {1} \cup others
            map == IF seg.update_map THEN enc_map ELSE LastMap
            ids == [u \in Units |->
                       IF vaq_refresh THEN Least(score, Block(starts, u))
                       ELSE IF seg.enabled THEN Least(map, Block(starts, u)) ELSE 0]
        IN /\ skipped \subseteq starts
           /\ vaq_refresh \/ score = ZeroMap
           /\ blocks' = [starts |-> starts, id |-> ids,
                         skip |-> {u \in Units : Block(starts, u) \cap skipped # {}}]
    /\ phase' = "encoded"
    /\ UNCHANGED <<frame, loop_count, encVars, packet, ref_frames, dec_frames>>

\* The segments a decoder reads: a skipped block has the one that
\* av1_get_spatial_seg_pred predicts, here that of the unit to its left.
Coded(b) == LET id[u \in 0..NumUnits] == IF u = 0 THEN 0 ELSE IF u \in b.skip THEN id[u - 1] ELSE b.id[u]
            IN [u \in Units |-> id[u]]

\* encode_segmentation, and write_segment_id block by block
Pack ==
    /\ phase = "encoded"
    /\ packet' = [seg |-> seg, blocks |-> blocks]
    /\ enc_map' = IF seg.enabled /\ seg.update_map
                  THEN [u \in Units |-> IF u \in blocks.skip THEN Coded(blocks)[u] ELSE enc_map[u]]
                  ELSE enc_map
    /\ phase' = "packed"
    /\ UNCHANGED <<frame, loop_count, seg, vaq_refresh, blocks, ref_frames, dec_frames>>

\* recode_loop_update_q: the rate was missed, once more with another quantizer
Recode ==
    /\ phase = "packed" /\ loop_count < MaxRecodes
    /\ loop_count' = loop_count + 1
    /\ blocks' = NoBlocks /\ packet' = NoPacket
    /\ phase' = "setup"
    /\ UNCHANGED <<frame, encVars, ref_frames, dec_frames>>

-----------------------------------------------------------------------------
\* The end of the frame.

Keep(bufs, buffer) == [s \in Slots |-> IF s \in frame.refresh THEN buffer ELSE bufs[s]]

\* cm->cur_frame: its map is the one that was written, or that of the primary
\* reference, or what the recycled buffer held.
EncBuffer ==
    [size |-> frame.size, enabled |-> seg.enabled, q |-> seg.q, last_active |-> seg.last_active,
     map |-> IF seg.enabled /\ seg.update_map THEN Coded(blocks)
             ELSE IF seg.enabled /\ PrevOf(ref_frames).enabled THEN LastMap
             ELSE [u \in Units |-> MaxSegment]]

\* setup_segmentation and read_inter_segment_id of the decoder: the flags of a
\* frame without a primary reference are implied, and a map of another size is
\* not used.
DecLastMap == IF PrevOf(dec_frames).size = frame.size THEN PrevOf(dec_frames).map ELSE ZeroMap
DecReadsMap == ~HasPrev \/ packet.seg.update_map
DecMap ==
    IF ~packet.seg.enabled THEN ZeroMap
    ELSE IF DecReadsMap THEN Coded(packet.blocks) ELSE DecLastMap
DecQ == IF ~packet.seg.enabled THEN 0
        ELSE IF ~HasPrev \/ packet.seg.update_data THEN packet.seg.q ELSE PrevOf(dec_frames).q
DecBuffer == [size |-> frame.size, enabled |-> packet.seg.enabled, q |-> DecQ,
              last_active |-> LastActive(DecQ), map |-> DecMap]
\* the segment a block is dequantized with
DecSegment(u) == IF packet.seg.enabled /\ ~DecReadsMap
                 THEN Least(DecLastMap, Block(blocks.starts, u)) ELSE DecMap[u]

\* A faulty variant: the update flags are left as they are.
FinishKeepsFlags ==
    /\ phase = "packed"
    /\ ref_frames' = Keep(ref_frames, EncBuffer) /\ dec_frames' = Keep(dec_frames, DecBuffer)
    /\ frame' = NoFrame /\ loop_count' = 0 /\ blocks' = NoBlocks /\ packet' = NoPacket
    /\ phase' = "idle"
    /\ UNCHANGED encVars

\* encode_frame_to_data_rate after packing (the update flags are one-shot) and
\* the decoder's turn.  refresh is what the frame does to ref_frame_map on
\* both sides.
Finish ==
    /\ phase = "packed"
    /\ ref_frames' = Keep(ref_frames, EncBuffer) /\ dec_frames' = Keep(dec_frames, DecBuffer)
    /\ seg' = [seg EXCEPT !.update_map = FALSE, !.update_data = FALSE]
    /\ frame' = NoFrame /\ loop_count' = 0 /\ blocks' = NoBlocks /\ packet' = NoPacket
    /\ phase' = "idle"
    /\ UNCHANGED <<vaq_refresh, enc_map>>

Next ==
    \/ StartFrame \/ \E base \in BaseQ : Setup(base)
    \/ EncodeFrame \/ Pack \/ Recode \/ Finish

Spec == Init /\ [][Next]_vars

-----------------------------------------------------------------------------

\* assert(x < max) of av1_neg_interleave, and the decoder's "Corrupted
\* segment_ids": no block is written with a segment beyond the last active one,
\* also when the segments come from the map of frames with other segments.
SegmentsFit ==
    phase = "encoded" /\ seg.enabled /\ seg.update_map =>
        \A u \in Units \ blocks.skip : blocks.id[u] <= seg.last_active

\* The decoder ends up with the encoder's segments: it dequantizes every block
\* that has coefficients with the segment it was quantized with, and the
\* buffers later frames take their segments from are the same on both sides.
\* (The map of a buffer without segments is stale in the encoder and zero in
\* the decoder; nobody may notice.)
Visible(b) == [b EXCEPT !.map = IF b.enabled THEN b.map ELSE ZeroMap]
DecoderAgrees ==
    phase = "packed" =>
        /\ Visible(DecBuffer) = Visible(EncBuffer)
        /\ \A u \in Units \ blocks.skip : blocks.id[u] = DecSegment(u)

\* A frame that does not refresh the segments has those of its primary
\* reference, unit by unit and with the quantizers they had there, whatever
\* frames were coded in between.
SegmentsPersist ==
    phase = "encoded" /\ frame.kind = "leaf" /\ HasPrev /\ seg.enabled =>
        LET prev == ref_frames[frame.primary]
        IN /\ seg.q = prev.q
           /\ \A u \in Units : blocks.id[u] = Least(prev.map, Block(blocks.starts, u))

=============================================================================
