# A verification project for bhevc

bhevc holds two encoders. `src/src/` is a small standalone codec written for
this repository: a library and a command line tool, `bhevc encode`, `bhevc
decode` and `bhevc metrics`. `src/libaom/` is a copy of libaom, the AV1 codec,
with a handful of new files (`av1/encoder/aq_edge.c`, `edge_rd.c`,
`edge_motion_search.c`, `temporal_events.c`) and hooks that carry the same
edge-aware ideas into AV1. This directory holds TLA+ modules of the parts whose
behaviour is hard to test, the TLC runs that check them on small instances, and
proofs that TLAPS checks for all instances.

Run a model with `tlc -config X.cfg M.tla`, a proof with `tlapm M.tla`.

## 1. Inventory

### The standalone codec (`src/src/`)

| component | state | operations | talks to |
|---|---|---|---|
| bit writer and reader (`bitstream.c`) | `Bitstream`: buffer, capacity, byte and bit position | fixed-width, ue and se codes in both directions, align, byte count | the frame coder on either side |
| frame encoder (`encoder.c`) | `ref`, `rec`, frame number, base QP, the frame's bitstream | `encode_frame`: header, then per macroblock intra, skip or inter | analysis, prediction, transform, bit writer |
| frame decoder (`decoder.c`) | `ref`, `rec`, QP and type of the frame | `decode_frame`: the inverse | bit reader, prediction, transform |
| motion search and intra prediction (`prediction.c`) | of one search: vector, centre, cost, loop counters | `predict_inter_mb`, `predict_intra_blk`, `predict_intra_best` | called by both sides |
| edge analysis (`edge_analysis.c`) | region type, QP offset, search range of each macroblock | `edge_classify_mbs` and the filters below it | read by the encoder |
| transform, quantizer (`transform.c`) | none | `fdct4x4`, `quant4x4` and inverses | both sides |
| command line (`main.c`) | files or pipes, counters | the frame loops of `cmd_encode` and `cmd_decode`, the packet framing | a file or a pipe between two processes |
| buffers and metrics (`frame.c`, `metrics.c`) | none beyond the samples | allocate, copy, PSNR and SSIM | all |

What must be right. The bitstream has no lengths and no markers inside a frame,
so the two sides must consume and produce the same elements on every path.
Prediction runs on both sides and its rounding, its clips and the moment at
which a reconstruction becomes the reference must be the same, or the pictures
drift apart over many frames. The motion search may never leave the frame,
because the encoder reads the reference unclipped and the decoder clips. The
writer drops bits silently when its buffer is full. The two processes may be
joined by a pipe, and the encoder may die with a packet half written.

### libaom as this repository uses it

| component | state | operations | hard because |
|---|---|---|---|
| worker threads (`aom_util/aom_thread.c`) | `status_`, `had_error`, `impl_` with one mutex and one condition variable | `reset`, `launch`, `sync`, `end`, `execute`; `thread_loop` | the hook runs without the mutex; both sides sleep on the same condition variable |
| row-based multithreaded encoding (`av1/encoder/ethread.c`, `encodeframe.c`, `partition_search.c`) | row queue of each tile, columns finished per row, `row_mt_exit`, tiles finished per row, jobs of the loop filter and its columns done | the worker hook, `av1_row_mt_sync_read/write`, `switch_tile_and_get_next_job`, `launch_loop_filter_rows`, the error exit | wavefront between threads, workers that change tiles, a `longjmp` out of the middle of a row, filter jobs given up while others wait for them |
| loop filter, CDEF, restoration threads (`av1/common/thread_common.c`, `cdef.c`, `restoration.c`) | job queues, columns filtered per row and plane, a flag per CDEF row, an exit flag each | job queue, `sync_read/write`, the error exit of each worker function | rows of several workers touch each other's samples; flags that outlive a frame |
| decoder threads (`av1/decoder/decodeframe.c`) | tile queue, rows parsed and started per tile, columns per row, `row_mt_exit` | `row_mt_worker_hook`, `av1_decode_tg_tiles_and_wrapup` | parsing and reconstruction overlap; one condition variable for all tiles; corrupt data anywhere |
| decoder frame buffers (`av1/av1_dx_iface.c`, `decoder.c`, `decodeframe.c`, `av1_common_int.h`) | `ref_count` and memory of each buffer, `ref_frame_map`, `output_frames`, `cur_frame`, `need_resync` | one decoder call per piece of data, one frame header and update per frame, errors by `longjmp` | counting over three kinds of holders, on every error path |
| EDGE-AQ (`aq_edge.c`, `edge_rd.c`, `edge_motion_search.c`, `temporal_events.c`) | segmentation flags, features and map, edge tables, event history | segment setup in the recode loop, class of a block, penalty in the mode loop, search step tables | state set up in one pass of the recode loop and used in another, packing that rewrites it, a decoder that must follow |
| encoder control (`encoder.c`, `encode_strategy.c`, `gop_structure.c`, ...) | GOP, reference buffers, lookahead, rate control | one call per frame | unmodified apart from the hooks above |
| coding tools, APIs, applications and tests | | | vendored, sequential |

What must be right. A call handed to a worker runs exactly once and every call
of the interface returns. No superblock is encoded before those it is predicted
from, also while a failed worker is declaring rows finished that are not; every
frame ends, whoever fails; a frame that is reported good is complete. The same
holds for the decoder's rows and for the three filters: each block once, in an
order a single thread could have used. Segments must fit the features the frame
is coded with and be the same on both sides. A frame buffer's count is the number
of its holders, whatever fails.

`PROJECT.json` lists these components with what is modelled of each, and under
`hazards` each place in the code where one of these things can go wrong, with
the properties that would catch it.

## 2. The modules

| module | models | checked by |
|---|---|---|
| `FrameChannel` | abstract: pictures sent are shown, in order, unaltered, a suffix may be lost when the sender dies | refined by `Codec` |
| `Codec` (`MCCodec`, `CodecProofs`) | `encode_frame`/`cmd_encode` and `decode_frame`/`cmd_decode` as two processes over a pipe | `codec`, TLAPS |
| `BitIO` (`MCBitIO`) | all of `bitstream.c` | `bit_io`, TLAPS (in `LibraryProofs`) |
| `BlockBudget` | the largest block `encode_blk` can emit, against the buffer of `encode_frame` | `block_budget`, TLAPS (in `LibraryProofs`) |
| `MotionSearch` (`MCMotionSearch`) | `predict_inter_mb` | `motion_search`, `flat_search`, TLAPS (in `LibraryProofs`) |
| `AsyncCall` | abstract: a launched call runs once, and its failure is reported | refined by `WorkerThread` |
| `WorkerThread` (`WorkerThreadProofs`) | `aom_thread.c` | `worker_thread`, TLAPS |
| `Wavefront` | abstract: the blocks of a frame are done once each, after those they need; a good frame is complete | refined by `EncRowMt` and, stage by stage, by `FrameMt` |
| `EncRowMt` (`MCEncRowMt`, `EncRowMtProofs`) | the worker hook of row-MT encoding, its sync functions, error exit and the loop filter behind it | `row_mt`, TLAPS |
| `FrameMt` (`MCFrameMt`, `FrameMtProofs`) | a decoder's frames: tiles, loop filter, CDEF, restoration by the same threads | `frame_mt`, TLAPS |
| `DecRowMt`, `LfSync`, `CdefSync`, `LrSync` | the four stages of `FrameMt` | `frame_mt`, TLAPS (in `FrameMtProofs`) |
| `FrameBuffers` (`FrameBuffersProofs`) | the reference counts of the libaom decoder | `frame_buffers`, TLAPS |
| `EdgeAq` (`EdgeAqProofs`) | EDGE-AQ segments from the recode loop to the decoder | `edge_aq`, TLAPS |
| `EdgeRd` (`MCEdgeRd`, `EdgeRdProofs`) | segment quantizers, class of a block, the edge penalty in the mode loop | `edge_rd`, `edge_penalty`, TLAPS |

Operators whose comment begins with "A faulty variant" are deliberate faults:
each is a plausible mistake in the code, defined before the definition it would
replace, and kept to show that some property notices it (`mutants` in
`PROJECT.json`). No specification uses them.

### Codec

The packet of a frame is the sequence of syntax elements, without the bits
(those are `BitIO`). `EncBegin` writes the header, then each macroblock is one
of `EncodeIntra` (`encode_mb_intra`), `EncodeSkip` and `EncodeInter`
(`encode_mb_inter`), and `EncEnd` replaces the reference, counts the frame and
hands the packet to the pipe. On the other side `DecBegin`, `DecodeIntra`,
`DecodeSkip`, `DecodeInter`, `DecEnd` follow `decode_frame`; `DecStop` is the end
of the loop of `cmd_decode`: `-n` frames are decoded, the file ends, or the size
or the payload of a packet comes up short. `EncKill` ends the encoder at any
step; what stdio had not flushed is lost and the last packet may be torn.

The decoder's definitions are not derived from the encoder's: each side is
translated from its own file, so a disagreement would show. The region type,
the mode, the vector and the quantized level are what the picture decides, and
are chosen freely from small sets. A picture has one sample and one coefficient
per macroblock and one plane; predictions, quantizer offsets, clips and the
rounding of the means are the code's.

`recs` is history: what the encoder has reconstructed and the decoder has not
shown yet. With `pending <- recs` the pair is a refinement of `FrameChannel`
(`ChannelSpec`): that one formula says no drift, no frame skipped or repeated,
and nothing shown that was not encoded, also after a kill. `PacketConsumed`,
`SameReference` and `ReferenceDecodedFirst` are what it rests on
and name the side at fault when it fails. `Drains` is liveness.

The command line and the input are a record `setup`, chosen in `Init` from the
constant `Setups` and never changed: the size of the picture, `-q`, `-g`, `-n` and
what the analysis of the input may yield.

### BitIO and BlockBudget

`BitIO` writes up to three elements into a small buffer that may fill up,
aligns, counts the bytes, and reads everything back. Words are `W` bits and
arithmetic wraps; a write past the end is dropped, a read past the end leaves
the value as it is, and `bs_read_ue` reads a bit before it compares its count,
as in the code. The loops of the code are recursive functions over their turns:
`Shifts` are the values a word is shifted to, `WriteBits` and `ReadBits` have one
value per bit, `LeadingZeros` one per turn of the count. `RoundTrip` is stated with
the position as well as the value: codes must be self-delimiting. `BlockBudget` has the real numbers (16
coefficients, residual up to 255, quantizer step 2^(-4/6)) and asks whether a
frame can exceed the `w*h*4` bytes it is given. It builds a block class by class
of coefficient, largest first, with the energy an orthonormal transform leaves,
so the run covers every block; the comments in the module derive the bounds.

### MotionSearch

One action per outcome of a probe (outside the window, not better, better), and
one for each way a pass ends. `Sad` and the set of pictures are constants: the
search sees the picture only through costs, so the theorems hold for any
picture. `DecoderClipIsIdentity` compares the vector with the clip of
`decode_mb_inter`. `LocalMinimum` is not obvious because the centre moves in the
middle of a pass: the early exit is right only because a pass without a move took
all of its probes around one centre.

### WorkerThread

A step is what happens between two operations on the mutex. `reset` creates the
thread with the mutex held (`ResetLock`, `CreateThread`, `ResetDone`), `launch`,
`sync` and `end` are `change_state` with a new status (`ChangeLock`,
`ChangeWait`, `ChangeWake`, `ChangeAssign`, `ChangeNothing`, `ChangeUnlock`), and
the `Worker...` actions are `thread_loop` with its waits, the hook without the
mutex, and the signal afterwards. Wakeups without a signal are a separate action;
a signal wakes one waiter, chosen freely. `synced` is what the owner knows: it
clears `had_error` and launches only when a `sync` told it the worker is idle,
as `launch_workers` does.

### EncRowMt

A step is one critical section or the encoding of one superblock, and rows and
columns are counted in superblocks. `FetchOwnTile` and `FetchOtherTile` are
`get_next_job` and `switch_tile_and_get_next_job` with its three criteria;
`SyncRead`, `CheckExit`, `SyncReadLate`, `Encode` and `Write` are one turn of the
loop of `encode_sb_row`; `RowDone` the end of the row in the hook; `Throw`,
`RaiseExit`, `Release`, `LfClose`, `LfRelease` and `Failed` are
`aom_internal_error` and the branch of the hook that `setjmp` returns to, row by
row, since the other workers run between two of its writes. `Join` is
`sync_enc_workers`. `StartFrame` is the next call of `av1_encode_tiles_row_mt`
with everything it resets.

Behind the encoder (`setup.pipelined`) the same workers filter. `LfGet` hands out
a job, which is a row, a plane and a direction, in the order `enqueue_lf_jobs`
puts them in: first all vertical ones. `LfWait` is the wait of
`launch_loop_filter_rows` for the encoding of the row and the next one; it is
where a job that was taken is given up when another worker has failed. The rest
is `av1_thread_loop_filter_rows`: `LfVert` and `LfWrite` in the vertical
direction; `LfReadAbove`, `LfReadOwn`, `LfCheckExit` and `LfHorz` in the
horizontal one, which waits in `sync_read` for the vertical edges of the row
above (`sync_read(r)`) and of its own row (`sync_read(r + 1)`). A worker asleep
there is not woken by `row_mt_exit`: what frees it is `LfRelease`
(`av1_set_vert_loop_filter_done`), one row and plane at a time, after `LfClose`.
The filter's rows are superblock rows, its columns are 128 pixels wide whatever
the superblock is (`sb_128`), and the release counts columns in superblocks; that
only makes the number it writes larger. Up to two planes have jobs, because U and
V share theirs in this mode.

`TopRightEncoded` is stated for the moment a superblock is about to use its
neighbours. With the late wait (`SyncReadLate`) it excludes frames in which an
error has been raised: there the code looks at `row_mt_exit` before the wait and
not after it, so a worker that a failed one releases may encode a superblock
next to data that was never written (`Spoilt`). The frame is discarded then,
which `OutcomeIsTrue` checks. As in `Codec`, the encoder (workers, where tile
rows and columns start, late wait, the filter) is a record `setup` from the
constant `Setups`.

### FrameMt and its stages

`av1_decode_tg_tiles_and_wrapup` hands one stage after the other to all threads
of the decoder and joins them each time; a filter may be missing from a frame,
and an error in one stage ends the frame. `FrameMt` has one instance of each
stage module and the steps between them (`StartLf`, `StartCdef`, `StartLr`,
`StartFrame`). What the threads keep (place, row, errors, what is released) is
shared; CDEF's row objects alone survive a frame, and they are why the frames are
modelled one after the other.

- `DecRowMt`: `TakeTile` to `LeaveTile` are the first loop of
  `row_mt_worker_hook` (parse whole tiles), `TakeRow` is `get_next_job_info` with
  its choice of a tile and its waits, `SyncRead`, `CheckExit`, `Decode` and
  `SyncWrite` are `decode_tile_sb_row`, `RaiseExit` and `Release` the `setjmp`
  branch, `FindCorruption` data that turns out corrupt without a jump.
- `LfSync`: `GetJob`, `FilterVert` and `Write`; `ReadAbove`, `ReadOwn`,
  `CheckExit`, `FilterHorz`; `CloseQueue` and `Release` after an error. Only every
  `sync_range`-th column is signalled and waited for.
- `CdefSync`: `NextJob`, `CopyLines`, `SyncWrite`, `SyncRead`, `CheckExit`,
  `Filter`. The flag of a row is set by the row and cleared by the one below.
- `LrSync`: even rows first and without waiting, odd rows behind them; `Copy` is
  the copy back at the end of a row.

In each of them a step is a critical section, or the work on one block, and
`Needs` says which blocks a block depends on. `StagesInOrder` says every stage
implements `Wavefront` with these needs. `BlocksAreReady` is the same at the
moment before the work, also while a failed worker is releasing rows.
No filter raises an error today (TODOs at `av1/common/cdef.c:432` and
`av1/common/thread_common.c`); the handlers exist, and the model throws.

### FrameBuffers

An action is a call of the application (`Decode`, which releases the frames of
the last call), the start of a frame, one part of its header (`ShowExisting`,
`ShowUnshowable`, `Header`, `MissingRef`, `StartTiles`), the tiles, or
`update_frame_buffers` (`Update`); `Fail` is a `longjmp` from any place in
between. Counts and memory (`raw`, the application's `raw_frame_buffer`) change
together, except in `assign_frame_buffer_p`, which releases no memory.
`NumBuffers` in the run is the least that suffices: one per slot, one per output
frame and one being decoded. The code has `REF_FRAMES + 1 + 7` buffers for 8
slots, at most 4 output frames, and 1. At the end of a frame the model forgets
whether frames outside the slots were showable, since only slots can be shown.

### EdgeAq and EdgeRd

`EdgeAq` follows the segmentation through every place it is kept: `cm->seg`, the
map `enc_seg.map`, `vaq_refresh`, the buffers of references, the packet, and the
buffers of a decoder. `Setup` is one pass of `encode_with_recode_loop` up to the
encoding: `av1_setup_frame`, `av1_edge_aq_frame_setup`, the features taken from
the primary reference or counted, the map cut to the last active segment.
`EncodeFrame` chooses segments as `av1_set_offsets` does, `Pack` rewrites those of
skipped blocks as `write_segment_id` does, `Recode` goes back, `Finish` sends the
frame and lets the decoder do its part (`Dec...`, translated from
`decodeframe.c` and `decodemv.c`).

`EdgeRd` is one frame and one block of it: `FrameSetup` finds the quantizer of
each segment by bisection over any non-increasing rate function, `BlockScore`
gives the block its class from the density of its gradients, then modes are
evaluated in any order, with the penalty where and as often as
`av1_rd_pick_inter_mode` and what it calls add it. Whether a block pays depends
on the quantizer of the frame or of its segment, because
`cyclic_refresh_segment_id_boosted` takes segments 1 and 2 for its own.

## 3. The runs

| run | instance | what it shows |
|---|---|---|
| `codec` | 2x1 macroblocks, 3 frames, GOP of 2; and 2x2 macroblocks, 2 frames, `-n 2`, base QP above the clip. Samples 0..3, 3 quantizers, one packet in the pipe | I, P and I again with every choice of region, level, mode and vector of either component and both signs; kills everywhere. Channel refinement, no drift, drain |
| `bit_io` | 4-bit words and bytes, 3-byte buffer, all ue values the word has room for and all se values | every triple of elements, crossing byte ends and the end of the buffer |
| `block_budget` | the real constants | no block can overflow the buffer |
| `motion_search` | 64x32 frame, macroblocks of 16, 160 pictures, every macroblock and region | windows that bite at the frame and at the range of 16 and of 32; two competing minima |
| `flat_search` | the same | expected violation, see section 6 |
| `worker_thread` | 3 calls, 2 lives of the thread | all interleavings with spurious wakeups; deadlock is checked |
| `row_mt` | 2 errors, any number of frames. Three encoders without the filter: 3 workers on a tile of 3x3; 2 workers on four tiles of unequal size; 3 workers on 2 rows of 4 with the late wait and an extra delay of 2. Three with it: 2 workers on four tiles of one superblock; 3 workers on a row of 2; 2 workers on a tile of 2 rows of 5 half-size superblocks, two planes, every second column published | the largest contention, changing tiles, thread limits, the reach of intra block copy, one error while another one is being handled, frames after a failed one. For the filter: rows of the frame that are rows of several tiles; a vertical job given up by one worker while a second one waits for it and a third one fails; planes, and columns that are not published |
| `frame_mt` | 3 workers, tiles of 2x2 and 1x1, loop filter of 2x3 with a sync range of 2, CDEF of 3 rows, restoration of 3x2, 1 error, any number of frames | each stage alone and after each other stage, frames with and without each filter, frames after a failed one |
| `frame_buffers` | 2 slots, 2 output frames, 5 buffers; any number of calls | counts, pool, memory; the application's two output modes; deadlock is checked |
| `edge_aq` | 2 units, 2 segments, 2 quantizers, 2 sizes, 2 slots, 1 recode; any number of frames | every order of frames that refresh, inherit or drop segments; deadlock is checked |
| `edge_rd` | 5 quantizer indices, 4 rates per macroblock, 3 ranges, 3 modes | rounding and ends of the bisection, the fix-up of index 0, all orders of paying and not paying modes |
| `edge_penalty` | the same, fewer distortions | expected violation, see section 6 |

Why these bounds are enough to mean something. `codec`: drift needs a P frame
predicted from another frame's reconstruction and a reset of the GOP, hence
three frames with a GOP of two; the pipe holds one packet, so the encoder works
on the next frame while the decoder has the last. Samples have
only four values, and the levels are -1 and 0 so that different quantizers lead
to different samples before the clip at 0 makes them equal. `row_mt`: a wavefront
needs three rows for somebody to be released from above while releasing those
below, and three columns for a superblock with a left, a right and a middle
neighbour; two errors because the exit path must not trip over itself. For the filter, three workers and one row are the least in which somebody waits
for the vertical edges of a job that nobody will do. (That the one who waits does
so for the row above takes a fourth worker and is the same wait on another row;
the two waits themselves, and the release of many rows and planes, are in the
other encoders, and `frame_mt` has three workers on two rows of this filter.) One
superblock of five is left over when two share a filter column, so the release
writes more than the last column does. `frame_mt`:
two rows and three columns are the least with a column that is not signalled;
three rows have an odd row of restoration with two neighbours and a CDEF row that
both waits and is waited for; one tile of the two is exhausted while the other
still has rows, and three workers exceed what the smaller one admits. In
`worker_thread` three calls cover launch after launch, after reset, and after the
end of an earlier thread. `frame_buffers`: with two output frames the queue can be
full, with one, or empty, and two slots may hold the same frame, different ones, a
shown one, or none.

Named bounds: `frames` of a setup, `MaxLag`, `MaxElements`, `MaxCalls`,
`MaxResets`, `MaxErrors`, `MaxRecodes`, `NumModes`. They sit in guards of the
environment (the input, the owner, the failures), never in those of the
component. `frame_mt` has one more: the run ends with a CDEF that failed, because
the flags it leaves would mislead the next frame of the same height (section 6).

Deadlock checking is off (`CHECK_DEADLOCK FALSE`) where the system is meant to
stop: both programs return, a search returns, a script of elements ends, a block
has its mode, `frame_mt` and `row_mt` may end after an error. Liveness properties
say there that it stops in the right place.

### Fairness

- `Codec`: `WF(DecNext)`. The decoder is a loop of one thread whose only waits
  are its reads, and a read returns when there is data or the writer is gone.
  The encoder gets no fairness: it may stop for ever with the pipe open.
- `MotionSearch`: `WF(Next)`, a loop of one thread.
- `WorkerThread`: strong fairness for what the owner does inside a call and for
  what the thread does. Strong, because either may ask for the mutex while the
  other takes it again and again; the operating system's lock hands it over in
  the end. The owner is not obliged to make calls, and spurious wakeups are not
  obliged to occur, so no property is true thanks to them.
- `EncRowMt` and `FrameMt`: weak fairness for each worker's step and for `Join`,
  the threads the operating system runs. Critical sections are single steps
  there, so no mutex can be starved. Errors, spurious wakeups and further frames
  have no fairness.
- `FrameBuffers`, `EdgeAq`, `EdgeRd`, `BitIO`, `BlockBudget`: safety only; each is
  driven by a caller that owes nothing.

## 4. The proofs

| theorem | says |
|---|---|
| `CodecProofs!PacketsAreConsumed` | the decoder consumes exactly what the encoder wrote of each frame, for every picture, quantizer, GOP and choice of modes |
| `CodecProofs!ReferencesAreTheSame` | the two sides predict from the same picture, however many frames |
| `CodecProofs!ReferencesAreDecoded` | a P frame is decoded against a picture that came from the stream |
| `CodecProofs!ImplementsChannel` | `Codec` implements `FrameChannel`, kills and torn packets included |
| `LibraryProofs!TypeCorrect` | the type invariant, for all frame sizes, block sizes and pictures |
| `LibraryProofs!ClipIsIdentity` | the returned vector never leaves the frame: the decoder's clip is the identity |
| `LibraryProofs!StopsAtLocalMinimum` | an early end of the refinement is at a local minimum |
| `LibraryProofs!ReadsBack` | every element that fitted is read back, value and position, for words, bytes and buffers of every size |
| `LibraryProofs!CountsBytes` | the bytes counted are those the bits need, within the buffer |
| `LibraryProofs!KeepsEarlierBits` | no call that writes changes an earlier bit |
| `LibraryProofs!BitInvariant` | the inductive invariant of the bit writer and reader |
| `LibraryProofs!NothingDropped` | no frame is larger than its buffer, whatever the residual and however coarse the classes of coefficients |
| `WorkerThreadProofs!TypeCorrect` | the type invariant, for any number of calls and thread lives |
| `WorkerThreadProofs!StatusLeftAlone` | the status is `WORKING` while the hook runs |
| `WorkerThreadProofs!ExitIsAsked` | a thread ends only for an owner inside `end` |
| `WorkerThreadProofs!OnceOnly` | a launched call runs exactly once |
| `WorkerThreadProofs!Implements` | the worker implements the safety part of `AsyncCall` |
| `EncRowMtProofs!TypeCorrect` | the type invariant, for any workers, tiles and number of frames |
| `EncRowMtProofs!RowsDisjoint` | a row belongs to one worker, however workers change tiles |
| `EncRowMtProofs!TopRightIsThere` | a superblock is encoded after those it is predicted from |
| `EncRowMtProofs!FiltersAreSafe` | a row is loop-filtered after it and the next one are encoded |
| `EncRowMtProofs!OutcomeCorrect` | a frame reported good is complete, encoded and filtered |
| `EncRowMtProofs!ImplementsWavefront` | `EncRowMt` implements `Wavefront`, the filter behind it included |
| `FrameMtProofs!TypeCorrect` | the type invariant of each stage while it is at work |
| `FrameMtProofs!TakenOnce` | a row of a tile is decoded by one thread, once it is parsed |
| `FrameMtProofs!Ready` | the loop filter and CDEF find what a block needs, once for each block |
| `FrameMtProofs!Consumed` | a good frame leaves no CDEF flag to the next one |
| `FrameMtProofs!UnitsApart` | two threads never restore units that touch |
| `FrameMtProofs!StagesRefineWavefront` | every stage of every frame implements `Wavefront` |
| `FrameBuffersProofs!CountsCorrect` | a buffer's count is the number of its holders, whatever fails |
| `FrameBuffersProofs!BuffersSuffice` | a free buffer is always found |
| `FrameBuffersProofs!MemoryCorrect` | memory is given back with the last holder |
| `EdgeAqProofs!TypeCorrect` | flags, maps, buffers and packets keep their types on both sides |
| `EdgeAqProofs!SegmentsInRange` | no segment id beyond the last active one is written |
| `EdgeAqProofs!DecoderFollows` | the decoder ends up with the encoder's segments |
| `EdgeAqProofs!SegmentsKept` | a frame that inherits its segments has those of the frame it names |
| `EdgeRdProofs!SegmentsHaveTheirRates` | the bisection finds the index its comment promises, for every rate function that does not grow |
| `EdgeRdProofs!PlainBlocksGetTheBest` | without a penalty the cheapest mode wins |
| `EdgeRdProofs!CostsAreOfTheChosen` | the cost kept is that of the mode chosen, and the penalties are bounded |

Assumptions. They are the named `ASSUME`s of the modules, and TLC evaluates them
in every run. For the search: the frame is a whole number of macroblocks
(`encoder_init` rounds its size down) and a SAD is a natural number. For `BitIO`: an
element fits a word, with room for the increment of `bs_write_ue`. For `BlockBudget`:
the numbers of the code, samples of at most 8 bits, and classes told apart from one of
the first six on. For `Codec`:
`Mid` is a sample, the quantizer table is one of natural numbers, the six bits of
the header hold every QP (`QpCodes > MaxQp`). For `EncRowMt`: tiles are cut from
the whole frame and none is empty, as `av1_calculate_tile_rows` and `..._cols` do.
For `FrameMt`: tiles, planes and rows are not empty, there is at least one thread, and
the sync range of the loop filter is one of those of `get_sync_range` (1, 2, 4, 8), as
it is for the filter of `EncRowMt`;
its theorems speak, like its run, of frames up to the first failed CDEF (section 3).
For `FrameBuffers`: one buffer for each slot and each output frame and one more.
For `EdgeAq`: base quantizers are not 0 (lossless coding has no segments). For
`EdgeRd`: costs stay below `INT64_MAX`. The bounds of the runs (`MaxErrors`,
`MaxLag`, `MaxRecodes`, ...) are any natural number in the theorems.
The invariants named `IInv`, and `BitInv`, were first checked by TLC on the instances of the runs.
The types of `MotionSearch`, `WorkerThread` and `EdgeAq` are proved only.

The codec. The properties speak of whole frames, so the invariant has to speak
of a frame in the middle. It does so with one relation, `Codes(s, t, pkt, c, a, b,
ref, rec)`: from element `c` on, the packet is cut into the macroblocks `a..b-1`,
each has the length its first elements say, and decoded after `rec` before it and
`ref` it is `rec` at its position; the cut is a function from positions to
elements. `Writing` says this of the macroblocks the encoder has written so far,
`Waiting` of every whole packet in the pipe against the picture the frame before it
left, and `Reading` of what the decoder still has in front of it. Two lemmas carry
the argument: what stands in front of a macroblock does not matter
(`ShiftedMacroblock`), and a macroblock looks only at positions before its own
(`SampleLooksBack`, with `AgreeBefore`). `Counts` ties frame numbers to the length
of the pipe. A killed encoder leaves at most one torn packet, at the end
(`AllWhole`). `ImplementsChannel` then maps the end of a frame on either side to
a send or a receive, and every other step to a stutter.

The search. `DecoderClipIsIdentity` is not inductive: between two probes the
vector returned is a copy of the centre of the diamond, and only a probe that
was tested against the frame becomes the centre. The invariant adds that the
vector and the centre are equal and legal. For the local minimum it adds which
probes of the current pass have been refused, as long as nothing moved: the
first d-1 neighbours of the centre are illegal or not cheaper.

The worker. `RunsExactlyOnce` counts calls, which says nothing of where the
threads are; the inductive invariant `IInv` adds who holds the mutex at each
place (`MutexHeld`), what the owner's place says of `impl_` and of the status it
asks for (`OwnerPlace`), what the thread's place says of the existence of the
thread (`ThreadPlace`), that the hook runs only in status `WORKING`
(`WorkingWhileExecuting`), and that the difference of launched and executed
calls is one exactly from the assignment of `WORKING` to the return of the hook
(`CallCount`). `Implements` maps a worker to "busy" from the launch to the
return of its hook: the owner may not see the effects of a call earlier, because
status and mutex come afterwards.

The encoder's rows. Every part of the invariant says what holds until a worker
fails and what is left of it afterwards. `CountsAreTrue`: the columns a row counts
as finished are encoded, until `row_mt_exit`. `RowSoFar`: of its own row a worker has
encoded what it has passed. `AboveIsReady`: what it waited for stays encoded until it
is used; this is where the two places of the wait differ. `RowsAreCovered` and
`NobodyLeavesWork` say that no row is forgotten when workers change tiles or stop,
for which `ThreadsAreCounted` bounds `num_threads_working` between the workers in a
tile and those plus the ones that failed there: the thread limit of a tile turns a
worker away only if somebody else is in it. `DoneIsOver` compares
`num_tile_cols_done` with the set of tiles whose row is over, so that the loop filter
may take the count for completeness. The proof treats a step by its kind
(`StepKinds`: walks, encodes, writes, ends a row, raises the exit, releases), so that
each part is proved against six kinds and not against all actions.

The filter behind it has a second invariant, `LfInv`, inductive together with the
first. `LfSoFar`: a worker has filtered what it has passed of its job.
`EdgesAreTrue`: a column of vertical edges that is published is filtered, until the
queue is closed. `EdgesAreSeen`: what a worker found published stays filtered until
it is used, also in the columns it passes without looking; once `LfCheckExit` has
let it through, this holds whoever fails, because the queue is closed before the
first row is released. That order is all that keeps a released worker from
filtering next to edges that were never done. `JobsAreCovered` and
`NobodyLeavesJobs` say that no job is lost, and give `FilteringIsTrue`.

The decoder's stages. `IInv` of `FrameMtProofs` is one invariant per stage (`DecInv`,
`LfInv`, `CdefInv`, `LrInv`), each in force while its stage is the current one: all
threads are joined in between and a stage sets up whatever it shares with the others
(`DecStarts`, `LfStarts`, `CdefStarts`, `LrStarts`). Only `FlagsIdle` crosses from one
stage and frame to the next: no flag of CDEF is raised that a row waits for. It is
what `CdefStarts` needs, and a frame that CDEF filters without an error restores it
(`CdefLeavesIdle`).

Within a stage the parts of the invariant are those of `EncRowMt` again. `...SoFar`
says what a worker has done of its own row, `...Published` that the columns a row
announces are done, until a worker fails, `...Seen` and `...Next` that what a worker
waited for is still there when it uses it. `...Covered` says that a job that was
taken is done or somebody's, and with `...Ends` that a good stage is complete. The
loop filter looks at the rows of others only at every `sync_range`-th column, so
`LfSeen` speaks of the last such column (`LfBase`) and holds for the columns in between
(`LfOnTheWay`) without another wait. In `CdefFlags` and `CdefSignalled` the flag of a
row says where two workers are: the row has copied its lines and its worker is past
its signal while the flag is up, and the row below is past its wait once it is
down again.

The decoder has no queue of rows but picks a tile by counts, the number of threads
in it and the rows left, so its progress rests on sums. `DecCounts` bounds
`num_threads_working` between the threads in a tile and those plus the ones that
failed there, by cardinalities. That the sum of the rows started is the sum of the
heights only when each tile is fully started (the test by which threads leave) is
`DecSums`, about a recursive function, proved by the least counterexample as below.

`StagesRefineWavefront` uses that a step of a stage does one block whose needs are
met, or none (`DecWorks` and its like), that a join reports an error or finds
everything done (`DecJoins` and its like), and that a start is the next frame of
`Wavefront`.

The frame buffers. `CountsAreHolders` compares a number with positions in two
sequences and a variable. `Exact` states it of any such four values, and one
lemma per operation of the code (`ref_cnt_fb`, `decrease_ref_count`, the update of
the slots, the release of the output) says how the operation keeps it exact. A
buffer is free because each holder takes at most one buffer and there are fewer
holders than buffers. The invariant adds that the buffer being decoded is one
nobody else holds (`CurrentIsFresh`) and that it has no memory before its header
is read (`HeaderHasNoMemory`).

EDGE-AQ. `DecoderAgrees` compares what two programs compute of one frame, so the
invariant keeps both sets of buffers equal as far as anybody may look
(`Visible`), says that the map of a frame with segments is within its last active
segment, and what each phase of the recode loop has already settled.

The quantizers. The bisection is a recursive function; that it computes `Best` is
proved by way of a least counterexample: the library's theorem that proper
inclusion of finite sets is well-founded gives every set of natural numbers a
least element (`LeastElement`), and the narrowest window with a wrong answer leads
to a narrower one. `EdgeAqProofs` treats the ids of skipped blocks the same way.

The bits. Induction over data is out of the prover's reach as a rule with an
operator for the predicate, so `LibraryProofs` has it over a set: `Turns` (what
holds before a loop and is kept by each turn holds throughout) from
`LeastElement`, and from it `TraceExists`, that a loop over a set of values has a
trace. With these two, each recursive function of `BitIO` is shown to be its loop
(`ShiftsAre`, `WriteLoop`, `ReadLoop`, `CountLoop`) before anything is said about
the result. `Wrote` is what writing comes to: the position moves by the length or
to the end of the buffer, the bits it passes are those asked for, all others are as
before; it needs that the buffer is blank ahead, since the code only sets bits.
`ReadBack` is the other direction: reading the low n bits of v gives v without what
lies above them, which is nothing for a fixed width and the leading one for an
Exp-Golomb code, the one that `ZerosCounted` shows `bs_read_ue` to have consumed.
`ElementWritten` and `ElementRead` put the three codes together. `BitInv` chains the
elements by their ends. Once an element is truncated the buffer is full, so all that
follow are truncated too (an element has at least one bit), and the reader, who may be
anywhere after a truncated element, owes nothing from there on. `BitIOAssumption` is
all that is assumed: elements are such that `v + 1` and `2 * v` do not wrap.

The size of a block. `BudgetInv` pays for the bits: 39204 times the bits of a
coefficient is at most 718955 more than its energy (`CoefPrice`), with equality for
class 10, and a class beyond 11 takes more energy than there is. Sixteen
coefficients and the energy of the block then pay for 320 bits, and 329 would fit.
The run looks at classes from 5 on and grants what is below; the theorem holds for
any such choice, the exact count from class 0 included.

Only model-checked: all liveness (`Returns`, `CallsReturn`, `Drains`,
`FrameEnds`, `StageEnds`, and the fairness of `AsyncCall`), which this prover does
not reach. Every invariant and every action property of the runs is a theorem. The two
runs that expect a violation are counterexamples, which TLC finds.

## 5. What is not modelled

- In the standalone codec: the samples inside a macroblock, chroma, the values
  of the transform (both sides run the same functions on them), the analysis
  that chooses a region type, the choice of the best intra mode, option parsing,
  the metrics. `cmd_decode` takes the size of the picture from `-w` and `-h` and
  not from the file header; the model has one size for both sides. Base QPs that
  do not fit the six bits of the frame header are outside the documented range
  and outside the model.
- `AVxWorker.execute` called by the owner itself, which involves no thread. The
  main thread of a row-MT frame, worker 0, runs the hook that way: in `EncRowMt`
  it is a worker like the others.
- In row-MT encoding: what is inside a superblock, allocation (done before the
  workers start), the variance of `sync_range`, which is 1 in this tree, and the
  jobs of other stages in `ethread.c` (first pass, TPL, temporal filter, global
  motion, tile-only and frame-parallel encoding, packing).
- In the filters: what they do to samples, the allocation of the sync objects,
  filtering of a part of the frame. `EncRowMt` and `LfSync` both have the jobs of
  the loop filter: in `LfSync` they are a stage of their own; in `EncRowMt` a worker
  comes to them from encoding, may give one up, and is released by workers that
  failed while they encoded.
- In the decoder: threads per tile without row-MT, the OBU parser, which is
  data-driven, superres between CDEF and restoration, film grain buffers,
  large-scale tiles, the inspection interface, the reports of the interface
  (`last_show_frame`).
- In EDGE-AQ: the Sobel sums and the edge mismatch (arithmetic on samples),
  temporal prediction of segment ids (`temporal_update`, chosen by cost in
  `av1/encoder/bitstream.c:4174`: a flag may stand for an id equal to the
  previous map's, so it changes how an id is written), the trial encodings of
  superres, encoding without the recode loop (a speed setting), the
  tables of `edge_motion_search.c`, which lengthen or shorten a search, and
  `temporal_events.c`, whose result nothing reads.
- Frame types, reference choice, lookahead and rate control of the encoder: apart
  from the search for a quantizer, numerical heuristics, or unmodified.
- The rest of libaom: see the components with status `not_modelled`, each with
  its reason.

## 6. Findings

With a run:

`flat_search`. `src/src/edge_analysis.c:135` says that "FLAT blocks get QP+6 (1/4
quality) and 4-pixel search range", `edge_classify_mbs` stores that range, and
`src/src/prediction.c:139` repeats it. `predict_inter_mb` returns the zero vector
for a FLAT macroblock before it reads its range (`prediction.c:156`), so the
stored range is never used and a cheaper vector next to zero is not found. The
comment at `prediction.c:142` describes what the code does; one of the two is out
of date.

`edge_penalty`. `av1/encoder/edge_rd.c:236` says "Clamp the edge penalty to at most
50% of the original distortion". The penalty is added at the end of a motion mode
(`rdopt.c:1899`) and once more in the mode loop (`rdopt.c:6394`) to the same
statistics, and the second clamp takes the first penalty for distortion: the sum
may reach 125%. What holds is in `CostOfTheChosen`.

Without a run, met while modelling:

- `av1/common/thread_common.c:1000`: `reset_cdef_job_info` does not clear
  `is_row_done`, and an error leaves flags raised that nobody consumes; the next
  frame of the same height would not wait for the copy of its rows. Latent while
  no CDEF function raises an error.
- `rdopt.c:6397`: a mode is compared with one penalty and remembered with two, so
  on contours a more expensive mode may replace a cheaper one.
- `av1/encoder/aq_edge.h:24` orders the segments by priority, "lower = higher
  priority = lower QP"; the rate ratios give FLAT (1.05) the finest quantizer and
  TEXTURE (0.85) the coarsest.
- `av1/encoder/edge_motion_search.c:57` documents search steps of -2 and +2; the
  table has -1 and +1.
- `edge_rd.c`: with a distortion of zero the penalty is not clamped at all, and
  the comments on its weight disagree with its constants.
- `av1_get_temporal_event` has no caller.

## 7. Plan

Done: `BitIO`, `MotionSearch` and its proofs, `Codec` over `FrameChannel`,
`BlockBudget`, `WorkerThread` over `AsyncCall` and its proofs, `EncRowMt` and
`FrameMt` with its four stages over `Wavefront`, `FrameBuffers`, `EdgeAq`,
`EdgeRd`.

Proofs done: every invariant, every action property and the safety part of every
refinement.

Next, in the model: the lookahead ring and the GOP structure of the encoder
(`lookahead.c`, `gop_structure.c`), the other job queues of `ethread.c` (first pass,
TPL, packing), decoding by tiles only.
