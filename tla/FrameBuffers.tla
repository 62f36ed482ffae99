---------------------------- MODULE FrameBuffers ----------------------------
(***************************************************************************)
(* The frame buffers of the libaom decoder and their reference counts:     *)
(* decoder_decode and release_pending_output_frames of av1/av1_dx_iface.c, *)
(* av1_receive_compressed_data and update_frame_buffers of                 *)
(* av1/decoder/decoder.c, the frame header of av1/decoder/decodeframe.c as *)
(* far as it takes and releases buffers, get_free_fb of                    *)
(* av1/common/av1_common_int.h.  An error may occur anywhere in a frame    *)
(* (aom_internal_error jumps to av1_receive_compressed_data).              *)
(*                                                                         *)
(* A buffer's pixels are in memory the application may have supplied       *)
(* (raw_frame_buffer), which is given back when nobody refers to the       *)
(* buffer any more.  The decoder has REF_FRAMES (8) slots, up to           *)
(* MAX_NUM_SPATIAL_LAYERS (4) output frames and FRAME_BUFFERS (16) buffers.*)
(***************************************************************************)
EXTENDS Integers, Sequences, FiniteSets

CONSTANTS NumSlots, MaxLayers, NumBuffers

ASSUME FrameBuffersAssumption ==
    /\ NumSlots \in Nat \ {0} /\ MaxLayers \in Nat \ {0}
    /\ NumBuffers \in Nat /\ NumBuffers >= NumSlots + 1 + MaxLayers

Slots == 0..(NumSlots - 1)
Buffers == 0..(NumBuffers - 1)
NULL == -1

VARIABLES
    output_all_layers,  \* a control of the application, set before the first frame
    phase,              \* "app", "loop" (of decoder_decode), and within a frame
                        \* "header", "refs", "failed", "tiles", "decoded"
    ref_count, raw,     \* of each buffer; those that hold memory of the application
    showable, key,      \* showable_frame and frame_type of the frames in the buffers
    cur_frame, ref_frame_map, output_frames,
    need_resync,
    frame,              \* header: kind, show, refresh (refresh_frame_flags)
    ref_idx,            \* loop over the slots that may have to be filled
    exhausted           \* history: get_free_fb has found no buffer

bufferVars == <<ref_count, raw>>
vars == <<output_all_layers, phase, bufferVars, showable, key, cur_frame, ref_frame_map,
          output_frames, need_resync, frame, ref_idx, exhausted>>

NoHeader == [kind |-> "none", show |-> FALSE, refresh |-> {}]

Init ==
    /\ output_all_layers \in BOOLEAN
    /\ phase = "app"
    /\ ref_count = [b \in Buffers |-> 0] /\ raw = {}
    /\ showable = {} /\ key = {}
    /\ cur_frame = NULL /\ ref_frame_map = [i \in Slots |-> NULL] /\ output_frames = <<>>
    /\ need_resync = TRUE
    /\ frame = NoHeader /\ ref_idx = 0
    /\ exhausted = FALSE

-----------------------------------------------------------------------------
\* Counting.  These operators take and return counts and memory together: m is
\* a record of the two.

Now == [count |-> ref_count, raw |-> raw]
Becomes(m) == ref_count' = m.count /\ raw' = m.raw

\* decrease_ref_count
Decrease(m, b) ==
    IF b = NULL THEN m
    ELSE [count |-> [m.count EXCEPT ![b] = @ - 1],
          raw |-> IF m.count[b] = 1 THEN m.raw \ {b} ELSE m.raw]

\* ... of several holders, one after the other
Times(s, b) == Cardinality({i \in DOMAIN s : s[i] = b})
DecreaseAll(m, s) ==
    [count |-> [b \in Buffers |-> m.count[b] - Times(s, b)],
     raw |-> {b \in m.raw : Times(s, b) = 0 \/ m.count[b] > Times(s, b)}]

Increase(m, b, n) == [m EXCEPT !.count[b] = @ + n]

\* get_free_fb: the first buffer nobody refers to
Free(m) == {b \in Buffers : m.count[b] = 0}
FirstFree(m) == CHOOSE b \in Free(m) : \A c \in Free(m) : b <= c

InFrame == {"header", "refs", "failed", "tiles", "decoded"}

\* At the end of a frame the model forgets what nobody will look at: the header,
\* and what is known of frames that are not in a slot.
FrameOver(map) ==
    /\ frame' = NoHeader /\ ref_idx' = 0
    /\ LET kept == {map[i] : i \in Slots}
       IN showable' = showable \cap kept /\ key' = key \cap kept

-----------------------------------------------------------------------------
\* The application's calls.

\* A faulty variant: the counts alone are set back.
DecodeKeepsMemory ==
    /\ phase = "app"
    /\ ref_count' = DecreaseAll(Now, output_frames).count
    /\ output_frames' = <<>>
    /\ phase' \in {"app", "loop"}
    /\ UNCHANGED <<output_all_layers, raw, showable, key, cur_frame, ref_frame_map, need_resync,
                   frame, ref_idx, exhausted>>

\* decoder_decode: the frames of the last call are released, also when there is
\* nothing to decode
Decode ==
    /\ phase = "app"
    /\ Becomes(DecreaseAll(Now, output_frames))
    /\ output_frames' = <<>>
    /\ phase' \in {"app", "loop"}
    /\ UNCHANGED <<output_all_layers, showable, key, cur_frame, ref_frame_map, need_resync,
                   frame, ref_idx, exhausted>>

\* no more data in the call
EndOfData ==
    /\ phase = "loop" /\ phase' = "app"
    /\ UNCHANGED <<output_all_layers, bufferVars, showable, key, cur_frame, ref_frame_map,
                   output_frames, need_resync, frame, ref_idx, exhausted>>

\* the start of av1_receive_compressed_data: assign_cur_frame_new_fb
StartFrame ==
    /\ phase = "loop"
    /\ IF Free(Now) = {}
       THEN /\ exhausted' = TRUE /\ need_resync' = TRUE /\ phase' = "app"
            /\ UNCHANGED <<bufferVars, cur_frame>>
       ELSE /\ cur_frame' = FirstFree(Now)
            /\ Becomes(Increase(Now, FirstFree(Now), 1))
            /\ phase' = "header"
            /\ UNCHANGED <<need_resync, exhausted>>
    /\ UNCHANGED <<output_all_layers, showable, key, ref_frame_map, output_frames, frame, ref_idx>>

\* The data holds no frame: update_frame_buffers drops the buffer.
NoFrame ==
    /\ phase = "header"
    /\ Becomes(Decrease(Now, cur_frame)) /\ cur_frame' = NULL
    /\ phase' = "loop"
    /\ FrameOver(ref_frame_map)
    /\ UNCHANGED <<output_all_layers, ref_frame_map, output_frames, need_resync, exhausted>>

\* release_current_frame, after an error anywhere in the frame; the hook asks
\* for a resync and decoder_decode returns
Fail ==
    /\ phase \in InFrame
    /\ Becomes(Decrease(Now, cur_frame)) /\ cur_frame' = NULL
    /\ need_resync' = TRUE
    /\ phase' = "app"
    /\ FrameOver(ref_frame_map)
    /\ UNCHANGED <<output_all_layers, ref_frame_map, output_frames, exhausted>>

-----------------------------------------------------------------------------
\* read_uncompressed_header

\* reset_ref_frame_map
Emptied(m) == DecreaseAll(m, ref_frame_map)
NoRefs == [i \in Slots |-> NULL]

\* Show an existing frame: assign_frame_buffer_p, which releases no memory; a key
\* frame is shown this way once and refreshes all slots.  (A frame that must not
\* be shown is an error, after the assignment.)
ShowExisting ==
    /\ phase = "header"
    /\ \E i \in Slots :
        LET b == ref_frame_map[i]
            m == [Now EXCEPT !.count[cur_frame] = @ - 1, !.count[b] = @ + 1]
        IN /\ b # NULL /\ b \in showable
           /\ cur_frame' = b
           /\ IF b \in key
              THEN /\ showable' = showable \ {b}
                   /\ frame' = [kind |-> "key", show |-> TRUE, refresh |-> Slots]
                   /\ need_resync' = FALSE
                   /\ Becomes(IF need_resync THEN Emptied(m) ELSE m)
                   /\ ref_frame_map' = IF need_resync THEN NoRefs ELSE ref_frame_map
              ELSE /\ frame' = [kind |-> "existing", show |-> TRUE, refresh |-> {}]
                   /\ Becomes(m)
                   /\ UNCHANGED <<showable, need_resync, ref_frame_map>>
    /\ phase' = "decoded"
    /\ UNCHANGED <<output_all_layers, key, output_frames, ref_idx, exhausted>>

\* the same, and the frame turns out not to be showable
ShowUnshowable ==
    /\ phase = "header"
    /\ \E i \in Slots :
        LET b == ref_frame_map[i]
        IN /\ b # NULL /\ b \notin showable
           /\ Becomes(Decrease([Now EXCEPT !.count[cur_frame] = @ - 1, !.count[b] = @ + 1], b))
    /\ cur_frame' = NULL
    /\ need_resync' = TRUE
    /\ phase' = "app"
    /\ FrameOver(ref_frame_map)
    /\ UNCHANGED <<output_all_layers, ref_frame_map, output_frames, exhausted>>

\* Refresh flags the header may have.  A shown key frame has all of them, an
\* intra-only frame never has.
Refreshes(kind, show) ==
    CASE kind = "key" /\ show -> {Slots}
      [] kind = "intra" -> SUBSET Slots \ {Slots}
      [] OTHER -> SUBSET Slots

\* The header of a coded frame, up to its refresh flags.  A new sequence starts
\* with a key frame and without references (reset_frame_buffers); after an error
\* a key or an intra-only frame starts without them too.
Header ==
    /\ phase = "header"
    /\ \E kind \in {"key", "intra", "inter"}, show, later, sequence \in BOOLEAN :
        /\ sequence => kind = "key"
        /\ \E refresh \in Refreshes(kind, show) :
            frame' = [kind |-> kind, show |-> show, refresh |-> refresh]
        /\ showable' = IF (IF show THEN kind # "key" ELSE later) THEN showable \cup {cur_frame}
                       ELSE showable \ {cur_frame}
        /\ key' = IF kind = "key" THEN key \cup {cur_frame} ELSE key \ {cur_frame}
        /\ IF sequence \/ (need_resync /\ kind # "inter")
           THEN Becomes(Emptied(Now)) /\ ref_frame_map' = NoRefs
           ELSE UNCHANGED <<bufferVars, ref_frame_map>>
        /\ need_resync' = (need_resync /\ kind = "inter")
    /\ phase' = "refs"
    /\ UNCHANGED <<output_all_layers, cur_frame, output_frames, ref_idx, exhausted>>

\* A faulty variant: the new buffer is looked for before the old one is given up.
FillMissingFirst(i) ==
    IF Free(Now) = {}
    THEN /\ exhausted' = TRUE
         /\ UNCHANGED bufferVars /\ ref_frame_map' = [ref_frame_map EXCEPT ![i] = NULL]
    ELSE /\ Becomes(Decrease([Increase(Now, FirstFree(Now), 1) EXCEPT !.raw = @ \cup {FirstFree(Now)}],
                             ref_frame_map[i]))
         /\ ref_frame_map' = [ref_frame_map EXCEPT ![i] = FirstFree(Now)]
         /\ UNCHANGED exhausted

\* With error resilience the header lists the order hints of all slots: a slot
\* with another frame, or none, gets a grey one; or its memory cannot be had.
FillMissing(i) ==
    LET m == Decrease(Now, ref_frame_map[i])
    IN IF Free(m) = {}
       THEN /\ exhausted' = TRUE /\ Becomes(m)
            /\ ref_frame_map' = [ref_frame_map EXCEPT ![i] = NULL]
       ELSE /\ \/ /\ Becomes([Increase(m, FirstFree(m), 1) EXCEPT !.raw = @ \cup {FirstFree(m)}])
                  /\ ref_frame_map' = [ref_frame_map EXCEPT ![i] = FirstFree(m)]
               \/ /\ Becomes(m)
                  /\ ref_frame_map' = [ref_frame_map EXCEPT ![i] = NULL]
            /\ UNCHANGED exhausted

\* A slot left empty is an error.
MissingRef ==
    /\ phase = "refs"
    /\ frame.kind = "inter" \/ frame.refresh # Slots
    /\ \E i \in ref_idx..(NumSlots - 1) :
        /\ FillMissing(i)
        /\ ref_idx' = i + 1
        /\ phase' = IF ref_frame_map'[i] = NULL THEN "failed" ELSE "refs"
    /\ UNCHANGED <<output_all_layers, showable, key, cur_frame, output_frames, need_resync, frame>>

\* The rest of the header: an inter frame has its references, and none is
\* decoded that waits for a resync; setup_buffer_pool gets memory for the frame.
StartTiles ==
    /\ phase = "refs" /\ ~need_resync
    /\ frame.kind = "inter" => \E i \in Slots : ref_frame_map[i] # NULL
    /\ raw' = raw \cup {cur_frame}
    /\ phase' = "tiles"
    /\ UNCHANGED <<output_all_layers, ref_count, showable, key, cur_frame, ref_frame_map,
                   output_frames, need_resync, frame, ref_idx, exhausted>>

DecodeTiles ==
    /\ phase = "tiles" /\ phase' = "decoded"
    /\ UNCHANGED <<output_all_layers, bufferVars, showable, key, cur_frame, ref_frame_map,
                   output_frames, need_resync, frame, ref_idx, exhausted>>

-----------------------------------------------------------------------------
\* update_frame_buffers

\* A faulty variant: all slots together hold one reference.
RefreshOnce(m) ==
    LET old == DecreaseAll(m, [i \in frame.refresh |-> ref_frame_map[i]])
    IN IF frame.refresh = {} THEN old ELSE Increase(old, cur_frame, 1)

\* Every slot of refresh_frame_flags gives up its frame for the current one.
\* (cur_frame is held throughout, so that the order of the slots does not matter.)
Refresh(m) ==
    Increase(DecreaseAll(m, [i \in frame.refresh |-> ref_frame_map[i]]),
             cur_frame, Cardinality(frame.refresh))

Update ==
    /\ phase = "decoded"
    /\ ref_frame_map' = [i \in Slots |-> IF i \in frame.refresh THEN cur_frame ELSE ref_frame_map[i]]
    /\ LET m == Refresh(Now)
       IN \/ /\ ~frame.show
             /\ Becomes(Decrease(m, cur_frame))
             /\ phase' = "loop" /\ UNCHANGED <<output_frames, need_resync>>
          \/ /\ frame.show /\ output_all_layers /\ Len(output_frames) < MaxLayers
             /\ output_frames' = Append(output_frames, cur_frame)
             /\ Becomes(m)
             /\ phase' = "loop" /\ UNCHANGED need_resync
          \/ \* no room for the frame: it is dropped, and an error
             /\ frame.show /\ output_all_layers /\ Len(output_frames) = MaxLayers
             /\ Becomes(Decrease(m, cur_frame))
             /\ need_resync' = TRUE /\ phase' = "app" /\ UNCHANGED output_frames
          \/ \* the frame replaces an earlier one of the same call
             /\ frame.show /\ ~output_all_layers
             /\ Becomes(DecreaseAll(m, output_frames))
             /\ output_frames' = <<cur_frame>>
             /\ phase' = "loop" /\ UNCHANGED need_resync
    /\ cur_frame' = NULL
    /\ FrameOver(ref_frame_map')
    /\ UNCHANGED <<output_all_layers, exhausted>>

Next ==
    \/ Decode \/ EndOfData \/ StartFrame \/ NoFrame \/ Fail
    \/ ShowExisting \/ ShowUnshowable \/ Header \/ MissingRef \/ StartTiles \/ DecodeTiles
    \/ Update

Spec == Init /\ [][Next]_vars

-----------------------------------------------------------------------------

\* The comment at ref_count: it "is the number of reference-holding variables
\* that are currently referencing this buffer", whatever fails and wherever.
CountsAreHolders ==
    \A b \in Buffers :
        ref_count[b] = Times(ref_frame_map, b) + Times(output_frames, b)
                       + (IF cur_frame = b THEN 1 ELSE 0)

\* "We should never run out of free buffers": one for each slot, each output
\* frame and the frame being decoded are enough.
NeverExhausted == ~exhausted

\* The memory of a buffer is given back with the last reference to it, so that
\* a buffer that get_free_fb hands out has none
\* (assert(!cm->cur_frame->raw_frame_buffer.data)), and a frame is decoded into
\* a buffer that is nobody else's (assert(cm->cur_frame->ref_count == 1)).
MemoryGivenBack ==
    /\ \A b \in raw : ref_count[b] > 0
    /\ phase \in {"header", "refs", "failed", "tiles"} => ref_count[cur_frame] = 1
    /\ phase = "header" => cur_frame \notin raw

=============================================================================
