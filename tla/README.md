# A verification project for gr-satnogs

TLA+ models of gr-satnogs, the GNU Radio out-of-tree module of the SatNOGS
project: its decoders, the blocks that frames come from and go to, its rigctl
link and its Doppler correction, with the TLC configurations that model-check
them and proofs for TLAPS. Source paths are relative to the repository (`lib/`,
`include/satnogs/`). `PROJECT.json` lists runs, properties, hazards and theorems
and maps every modelled definition to its lines.

    tlc -config MCAX25Noisy.cfg MCAX25Decoder.tla
    tlapm AX25Decoder_proofs.tla

## 1. Inventory

gr-satnogs turns demodulated bits into frames and frames into files, datagrams
and JSON. The blocks talk in three ways: *stream items* that the GNU Radio
scheduler hands to `work()`, *messages* that it hands to handlers, and *calls*
from a block into an object it owns. One thread per block runs both `work()` and
the handlers, so a message falls between two calls of `work()`, never inside.
A few blocks start threads of their own.

    bits -> frame_decoder.work() -> decoder.decode() -> frame -> "out" port -> sinks
                 ^ "reset" message -> decoder.reset()
    frame -> frame_encoder.work() -> encoder.encode() -> bits
    rigctl TCP client -> tcp_rigctl_msg_source -> "freq" -> doppler_correction_cc

| Component | State it keeps | Operations | What makes it correct |
|---|---|---|---|
| `frame_decoder`, `decoder` contract (`lib/frame_decoder_impl.cc`, `lib/decoder.cc`) | the decoder object, `d_nitems_read` | `work`, `reset` message | at most one frame per call, its sample range inside what was handed over, frames in stream order, nothing of before a reset after it, `work()` makes progress |
| `ax25_decoder` | bits not yet finished with, an index and a start of frame in them, one shift register for flag search, destuffing and alignment, the frame buffer | `decode`, `reset` | every good frame comes out once, as sent, with its sample range; no index wraps; the frame buffer is bounded; a call returns |
| `ax25_encoder`, `ieee802_15_4_encoder` | none between frames | `encode` | what they frame, a receiver reads, whatever was on the line before |
| `ieee802_15_4_variant_decoder` | two shift registers, one counter used for bits and for octets, frame length, descrambler position; consumes part of a call's items | `decode`, `reset` | every frame behind its preamble and sync word comes out as sent; a false preamble is given up in time and not too early; the counter never passes the total |
| `ax100_decoder` modes 5 and 6 | as the two above, with Reed-Solomon and a descrambler that work in place | `decode`, `reset` | same contract; a frame that is given up, on any exit, costs no later one |
| `argos_ldr_decoder` | as `ax25_decoder`, with other exits | `decode`, `reset` | same contract |
| `amsat_duv_decoder` | control symbol register, 8b10b words, Reed-Solomon erasures | `decode`, `reset` | same contract; the search takes bits up again behind a block that fails |
| `cw_decoder`, Morse tree | per channel a state, two moving sums, a node of the tree, a word and a text; a queue of frames | `decode`, `reset` | a text comes out once, as keyed, and is not mixed with the next |
| `morse_debug_source`, `cw_encoder` | a thread and its place in the sentence; the symbol being keyed | thread, `work` | what they key, `cw_decoder` reads |
| `lrpt_sync`, `lrpt_decoder` | a register for each of four phases, the coded frame under construction; whether a packet has started | `work`, message handler | a frame is found in any phase and cut, and passed on whole |
| `doppler_correction_cc`, `doppler_fit` | last frequencies, predicted corrections and an index in them | `work`, frequency and reset messages | correction steps tile the stream; each uses the frequency predicted for it from the latest message |
| `tcp_rigctl_msg_source` | a thread, sockets, a running flag, the frequency last set | server and client thread, destructor | frequencies are published in the order set; who is served is answered; stopping ends |
| `udp_msg_sink`, `udp_msg_source`, `frame_file_sink` | a thread and a socket; the last second and a counter | message handlers, thread | a frame that arrives is recorded, and no file is written over |
| `ber_calculator` | the number of the next frame and of the last one received, four counters | two message handlers | each number counts once, and dropped is what was lost |
| `golay24` | none | `encode12`, `decode24` | three wrong bits are corrected, four refused |
| `whitening` | an LFSR | `scramble`, `descramble`, `reset` | descrambling inverts scrambling, behind losses too where it can |
| `iq_sink`, CRC, `rs_encoder` | file handle; none | `work`; pure functions | every sample is written once |
| signal processing, media files, debug sources, `libfec`, `date.h`, bindings | | | not part of this project |

What is hard to test here: the scheduler cuts a stream anywhere, so each
decoder must carry bits, registers, indices and sample positions over from call
to call; the bits around a flag are read twice; a frame ends on several paths,
and each must leave the object ready for the next; a reset may come in any
state; counters and unsigned differences sit at their limits; and the threads of
the network sources race with their destructors. `PROJECT.json` lists these
under `hazards`, each at its line, with the property that would catch it going
wrong or the reason why there is none yet.

## 2. Modules

| Module | Models |
|---|---|
| `Decoder` | the contract every decoder keeps towards `frame_decoder`: an abstract specification over three variables, items handed over, items read, sample ranges delivered |
| `Bits` | bits and octets |
| `HDLC` | bit order, flags and stuffing as `lib/ax25_encoder.cc` sends them, and from it the frames a bit stream contains: the reference for the HDLC decoders |
| `AX25Decoder` | `lib/ax25_decoder.cc` inside `frame_decoder` |
| `MCAX25Decoder` | its streams for TLC, used by the three `MCAX25*.cfg` |
| `DecoderLemmas` | lemmas the proofs share: least elements, the rest of a stream, pieces of it and their octets, the shift register, sample ranges, recursion over a prefix; of HDLC, that destuffing undoes stuffing and that octets stuffed between two flags are a frame |
| `AX25Decoder_proofs` | the theorems about `AX25Decoder` |
| `IEEE802154Decoder`, `MCIEEE802154Decoder` | `lib/ieee802_15_4_variant_decoder.cc` inside `frame_decoder`; its streams |
| `IEEE802154Decoder_proofs` | the theorems about it |
| `IEEE802154Encoder` | `lib/ieee802_15_4_encoder.cc`; its frames make the streams of `MCIEEE802154Decoder` |
| `ShiftReg` | `lib/shift_reg.cc`, used by the two decoders that search for words |
| `AX100Mode5`, `AX100Mode6` | `lib/ax100_mode5.cc`, `lib/ax100_mode6.cc`, each inside `frame_decoder` |
| `AX100Decoder`, `MCAX100Decoder` | `lib/ax100_decoder.cc`: an instance of each, and the choice between them; their streams |
| `AX100Decoder_proofs` | the theorems about both modes and their composition |
| `ArgosDecoder` | `lib/argos_ldr_decoder.cc` |
| `AmsatDuvDecoder` | `lib/amsat_duv_decoder.cc` |
| `MorseTree`, `MorseKeying` | `lib/morse_tree.cc`; the code table of `lib/morse_debug_source_impl.cc` and the symbol lengths of `lib/cw_encoder_impl.cc` |
| `CWLink` | `morse_debug_source`, `cw_encoder` and `lib/cw_decoder.cc`, `lib/cw_decoder_priv.cc`, composed |
| `FrameDecoder`, `MCFrameDecoder` | `lib/frame_decoder_impl.cc` with one of the last three decoders; their streams |
| `FrameDecoder_proofs` | the theorems about argos, amsat, the queue of cw and the block around them |
| `DopplerFit` | `lib/doppler_fit.cc` as operators on the sequence of its points |
| `DopplerCorrection` | `lib/doppler_correction_cc_impl.cc`; used by the two `MCDoppler*.cfg` directly, for its constants are numbers |
| `DopplerCorrection_proofs` | the theorems about it |
| `RigctlLink` | `lib/tcp_rigctl_msg_source_impl.cc` as a server and as a client, with the programs around them; used by `MCRigctl.cfg` directly |
| `RigctlLink_proofs` | the theorems about it |
| `LRPTReceiver` | `lib/lrpt_sync_impl.cc` and the `lib/lrpt_decoder_impl.cc` behind it |
| `BERLink` | `lib/ber_calculator_impl.cc` at both ends of a link |
| `FrameRecorder` | `lib/udp_msg_sink_impl.cc`, `lib/udp_msg_source_impl.cc`, `lib/frame_file_sink_impl.cc`, composed |
| `Golay24` | `lib/golay24.cc` and a channel |
| `Whitening` | `lib/whitening.cc`, twice, with a channel in between |
| `AX25Encoder` | `lib/ax25_encoder.cc` in `lib/frame_encoder_impl.cc`, the line behind it and what a receiver makes of that |
| `PduBlocks`, `MCPduBlocks` | the choice between the last six; their small instances |
| `PduBlocks_proofs` | the theorems about `BERLink`, `FrameRecorder`, `Whitening` and `AX25Encoder` in it |

Definitions introduced by a comment "Faulty variant" are not part of any
specification. Each changes one operation the way a plausible bug would, and
each property of a passing run is violated when one of them takes the place of
the operation it stands before: this is how the properties are shown to say
something about the code.

### AX25Decoder

`Decode` is the beginning of a call: `work()` hands over items, `decode()` undoes
NRZI and appends the bits to `d_bitstream`. From then on (`pc = "scan"`) each
step is one turn of an inner loop of `_decode()`, one bit in the state the
decoder is in; the branches of `decode_1b`, `enter_sync_state`,
`enter_decoding_state`, `enter_frame_end` and `reset_state` are part of the step
that takes them. A step that returns from `_decode()` goes to `pc = "idle"`.
`Reset` is enabled between two calls only, because work and message handlers of
a block run in one thread.

| Variable | Code |
|---|---|
| `state`, `shiftReg`, `decB`, `prevBit`, `decodedBits` | `d_state`, `d_shift_reg`, `d_dec_b`, `d_prev_bit_nrzi`, `d_decoded_bits` |
| `frame` | `d_frame_buffer[0 .. d_received_bytes - 1]`; octets beyond are never read |
| `bitstream`, `startIdx`, `frameStart`, `nitemsRead` | `d_bitstream`, `d_start_idx`, `d_frame_start`, `d_nitems_read` (indices 0-based) |
| `i` | the loop variable |
| `out` | frames published, with the metadata of `enter_frame_end`; `raw` keeps the octets with their FCS for the properties |
| `rx`, `level`, `calls`, `resets` | history: bits sent, last line level, calls, what each reset came after |

The FCS is a parameter `Fcs`: the properties hold for any function of the octets,
and the runs use a small sum. The G3RUH descrambler is off. `Line` turns a chunk
into line levels relative to the last one, `Meaning` says what a transmitter
means by them: the code's NRZI expression is checked against it.

### IEEE802154Decoder

This decoder keeps no bits: `decode()` does one thing, says how many items it
consumed, and the scheduler hands the rest over again. Hence one action per
outcome of a call (`NoPreamble`, `PreambleFound`, `NoSync`, `SyncFound`,
`SyncOverdue`, `FrameLen`, `PayloadPart`, `PayloadComplete`), the input buffer
`inp`, and a call on any whole number of octets of it
(`set_output_multiple(input_multiple())`). The constructor's arguments are a
variable `conf`, picked in `Init` and never changed, so that one run covers
several. `d_cnt` has two meanings and two images: `cnt` in `SEARCHING_SYNC`,
`Len(pdu)` in `DECODING_PAYLOAD`. `Crc` and `Descramble` are parameters;
`hunted` records the bits that were read in the search for a preamble.

### AX100Decoder

Mode 5 is modelled as IEEE802154Decoder is: a call does one thing. It differs in
the length (three Golay coded octets, collected over several calls), in
Reed-Solomon, and in what it does without a preamble: `search_preamble` marks
the start of the frame and goes on to `search_sync` in the same call
(`NoPreambleGiven`), and every `reset()` leads back there. `PayloadComplete`
stands for the whole end of `decode_payload`, both exits of it.

Mode 6 is modelled as AX25Decoder is: one step is one turn of an inner loop.
Here the descrambler and Reed-Solomon work in place on `d_frame_buffer`, so
`FrameCrcWrong`, which leaves without `reset_state()`, keeps the corrected block
in `frame` and the position of the descrambler in `dsPos`, and goes over the same
bits again from `d_start_idx`. `FrameDropped` joins the three exits that reset.
When the register shows a flag, `FrameDropped`, `FrameCrcWrong` and `FrameEnd`
exclude each other.

The Golay code, Reed-Solomon, CRC and descrambler are parameters (`Golay24` and
`Whitening` model two of them in their own right). `AX100Decoder`
has the variables of both modes; what they share in name (`state`, `frameStart`,
`nitemsRead`, `out`, ...) it shares too, and `mode` says whose they are.

### FrameDecoder: argos, amsat, cw

`frame_decoder` with a decoder that keeps all undecoded input itself. `kind` says
which; the variables of the others stay at their initial values, so that one run
covers all three.

`ArgosDecoder` follows `AX25Decoder`: one step is one turn of an inner loop of
`_decode()`. Argos looks for three flags in a row, has other exits (with the CRC
check on, a frame with a wrong FCS neither resets nor erases: `FrameCrcWrong`), and
only frames with a valid FCS are checked against the line.

`AmsatDuvDecoder` takes one step per turn of the loop of `decode()`: a control
symbol found or not, the words behind it, the end of a block. `Lookup` is the
8b10b table search by least distance. `decode_rs_8` is external: `RsResults` gives
what it may make of a block, with the erasures where libfec takes them to be,
not where the decoder means them. `FrameRejected` puts the search back behind the
control symbol; `calls` and `resets` record where input was cut.

`CWLink` composes three processes. The source's thread sends a character
(`SendChar`), perhaps with dots and dashes swapped, or a space; `work()` of the encoder
keys part of a symbol queue, as much as its output buffer takes; `decode()` of the
decoder takes some windows, and each is a step of the state machine of every
channel. A window is the time of one FFT, and the spectrum is reduced to whether
a carrier stands out. `chan` is `d_decoders`, each with its state, its two moving
sums and its tree; `frames` is `d_frames`, of which a call publishes one. Channel 1
is the link; channel 2 hears a recording, one of which has a carrier while the
noise floor is estimated (`deaf`).

### RigctlLink

The server's thread is a program counter (`server`), the client's another; each has
a destructor that clears `d_running` and waits for the thread. Controllers set
frequencies, quit, or go away. `backlog`, `open`, `toServer` and `toPeer` are the
sockets: lines arrive in order, one `recv()` may return several, and a `send()` to
a closed connection does nothing (the Python that runs a flowgraph ignores
SIGPIPE). `rigctld` puts the program the client is written for in the server's
place. Starting calls that fail end the process and are left out.

### PduBlocks: LRPT, bit errors, recording, Golay, whitening, AX.25 encoder

Six small components that share no state, chosen by `kind`.

- `LRPTReceiver`: each call of `work()` is one action per outcome, on every window
  multiple of the input; the decoder is a second thread that takes `cadu` messages
  later. Viterbi decoding and the CCSDS descrambler are the parameter `Vcdu`.
- `BERLink`: `create_pdu` and `received_pdu` around a link that delivers in order,
  loses, damages, and brings frames of an earlier run.
- `FrameRecorder`: the network is a set, so datagrams are lost, reordered and
  repeated; the receiving flowgraph restarts (which clears `d_filename_prev` and
  `d_counter` and leaves the files), and its clock runs and is set back.
- `Golay24`: the matrix of the source, words as sets of places.
- `Whitening`: a scrambler and a descrambler, bit by bit, each reset at any time,
  with a link that loses and inverts bits.
- `AX25Encoder`: the whole of `encode()` (flags, stuffing, the octet that is filled
  up, scrambler, NRZI). Scrambler and line level start anew for each message, while
  the receiver goes on from what it has received, noise included. The address, control
  and PID octets are a constant; of the packing in octets only the order of the bits is left.

### DopplerCorrection

`Work(n)` begins a call of `work()` on `n` items, at most half a second of them
(`set_max_noutput_items`); each turn of its loop is then one step, `BeginStep`
when no sample of a correction step has been corrected yet and `ContinueStep`
otherwise. The turn that reaches the last item returns: `nitems_written` moves
on. `NewFreq` and `Reset` are the message handlers; they hold the block's
thread, so they fall between two calls, but anywhere inside a correction step.

| Variable | Code |
|---|---|
| `data` | `d_doppler_fit_engine.d_data`; `d_ready` is `IsReady(data)` |
| `predicted`, `corrections`, `corrected` | `d_predicted_freqs`, `d_corrections`, `d_corrected_samples` |
| `nco` | the frequency `d_nco_buff` was computed for |
| `written`, `noutput`, `produced` | `nitems_written(0)`, `noutput_items` (0 between calls), `produced` |
| `steps`, `messages`, `resets`, `zero`, `stepZero` | history: correction steps begun, messages seen, the sample `predicted[0]` stands for |

`new double[]` is not initialised, so `Init` takes any function into `Garbage`.
Frequencies are integers: the code's quotients are integers too, and its doubles
are exact for them. `Modulus` stands for 2^64, the width in which the code
subtracts sample indices; it exceeds every product the runs form. The mutexes
guard against nothing here, handlers and `work()` being one thread.

## 3. Runs

| Run | Shows |
|---|---|
| `ax25_noisy` | CRC check off, error correction on: `NoBitLost`, `Cursors`, `FrameFaithful`, and that the decoder implements `Decoder` |
| `ax25_damaged` | CRC check and error correction on: corrupted, too long and too short frames around good ones, and a reset, lose none (`NoFrameDiscarded`); `DecodeReturns` under fairness |
| `ax25_reset` | finding 1: frames from before a reset come out after it |
| `ieee802154_search` | both frame formats: `FrameFaithful`, `NoFrameMissed`, `ResetForgets`, the contract, and `InputDrained` under fairness |
| `ax100` | both modes: `FrameFaithful`, `NoFrameMissed`, `BufferAccounted` (mode 6), the contract, and `DecodeReturns` under fairness (mode 6) |
| `doppler` | `TypeOK` (with the index inside the table), `StepsCoverSamples`, `TableCurrent`, `AppliedIsPredicted` |
| `doppler_steady` | finding 2: a steady frequency is predicted as another one |
| `decoders` | argos and amsat: `BufferAccounted`, `FrameFaithful`, `NoFrameMissed`; argos: `DecodeReturns` under fairness; cw: `WordsConserved`, `MessagesAsKeyed`, `QueueShort`; all: the contract |
| `argos_flags` | finding 3: a good frame behind five flags is lost |
| `rigctl` | `FreqAsCommanded`, `FreshUnlessLate`, `ClientFollows`; `ServedAnswered` and `ClientStops` under fairness |
| `blocks` | `LrptAsSent`, `FramesAccounted`, `NoFileOverwritten`, `GolayCorrects`, `DescramblerRecovers`, `EncodedReadable`, `EachMessageArrives` |
| `whitening_octets` | finding 4: `descramble()` scrambles |

The strongest of the decoders' properties are `FrameFaithful` (whatever is
published was sent, between the flags, or behind the sync word, its sample range
names) and its converse `NoFrameDiscarded` / `NoFrameMissed` (a good frame is
published whatever comes before it). Both compare the decoder with the whole
history of the line. For the Morse link their counterpart is end to end:
`MessagesAsKeyed` relates what the source keyed to what the far end published,
`WordsConserved` does so around a reset, which may cost the word it comes in and
no other. For rigctl it is that what the server publishes is what the
controllers were told is set (`FreqAsCommanded`), and that the client, which may
read several late answers at once, follows it and never goes back (`ClientFollows`).

**Bounds, AX.25.** Frames of one octet and a two-octet FCS: `MinFrameLen = 3`,
`MaxFrameLen = 4`, so that the limit is one octet away. Frame A has stuffed bits after its
first octet and in its FCS; frame B has one as eighth line bit, which
`enter_decoding_state` treats apart. Four calls, each of any chunk: flags, frames that
share a flag, halves of a frame cut inside an octet, noise that forms flags,
aborts, octets where there is none, a frame with a one too many in front of its closing
flag, and one whose first bit is lost, so that it shares a zero with the flag before it.
`ax25_damaged` has frames with one and with two wrong bits (of which the second cannot be
corrected), one beyond the limit, one too short, and two good ones in one call. Four are
enough to have noise, an opening flag, a cut frame in two calls, or two frames with a
reset between. One reset, anywhere.

**Bounds, IEEE 802.15.4.** Words of eight bits, an alternating preamble and a
sync word whose shifts behind the preamble are two bits or more away from it;
thresholds 1 (variable length) and 0 (fixed length), and a third configuration
without a preamble; one payload octet and two
of CRC; three chunks, among them a damaged frame and noise of two bits that
shifts everything off the octet grid; every cut of the buffer; one reset. The frames are those of
`IEEE802154Encoder`. Behaviours stop at these bounds, so the runs do not check for deadlock.

**Bounds, AX.100.** Blocks of one data octet, one of CRC and one of parity; the
code corrects one octet, the length is two octets of which one may be wrong. Mode 5:
a preamble with threshold 1 and Reed-Solomon, or neither; six chunks (a preamble
word alone, a damaged frame behind one, a frame with a wrong CRC, one of a length
Reed-Solomon rejects, one whose length is beyond repair, two bits of noise); more
items arrive while at most `MaxHeld` = 8 wait, every cut in whole octets. Mode 6:
with and without CRC check, a frame limit one octet above the frame; seven chunks
(flags, halves of a frame cut inside an octet, a frame with a wrong CRC and a
stuffed bit in the eighth place of its header, one beyond repair, two frames
with flags in between, noise). Three chunks, one reset. Streams whose length field
or corrected block is shorter than the CRC and the parity are left out: there the
code's `d_len - 4` and `d_len -= 32` wrap. The burst of mode 6 has an idle flag in front of a
frame whose first octet has a stuffed bit in its eighth place.

**Bounds, Doppler.** A second of three correction steps of two samples, a window
of three points (four, as in the code, in `doppler_steady`), two frequencies,
four messages, one reset, twelve samples. A step can be cut in its middle by a
call, a message or both; the window fills and moves once; the table starts again
behind a message that none follows; the message that moves the window can come
at the same sample as the one before. Two samples suffice to have a
message inside a step, and longer steps differ only in how often it can be cut.

**Bounds, argos.** Frames of one octet and two of FCS, a buffer of five, a stuffed
bit behind the seventh bit; three calls out of seven chunks (three flags, halves
of a frame cut inside an octet, a wrong FCS, two frames with their flags missing
in between, two good frames at once behind four and three flags, an abort and three bits of
noise); with and without CRC check; one reset. Three calls are enough for a wrong
frame whose bits are gone over again in a later call, and for a reset inside a
frame.

**Bounds, amsat.** Blocks of four words, two of them parity; the real control
symbol and the first eight entries of each of the real tables, so that control symbol and words
resemble each other as they do on air. Four calls out of eight chunks: a block cut
inside a word, a control symbol cut after nine bits, either polarity, two wrong
bits, a block of no spacecraft that the search goes back into, noise; one reset.

**Bounds, Morse.** Four windows to a dot, a confidence of 3/5, messages of at
least 2 and at most 3 characters to a word; the sentences "A T", "T" (too short by itself)
and "EEEE" (a word too long), sent twice, with one injected error; one reset. Calls of `work()` of 8
or 24 windows and of `decode()` of 8 or 16 fall inside dots, between symbols and
inside the silence that ends a message. A second channel completes its
message in the same window. The real durations differ in scale only: every
threshold is a multiple of the dot.

**Bounds, rigctl.** Two controllers (one waits while the other is served), one
client, two frequencies (so that a stale one is told from a current one), three
lines, two unread requests (two answers in one `recv()`), both destructors at any
time.

**Bounds, blocks.** LRPT: a sync word of three symbols and a threshold of one bit, frames
of three octets of which one is the register's, two phases, three chunks. Bit errors: two
frames skipped, five sent, two of an earlier run. Recording: two frames, of none, 2, 4 or
5 octets, against limits of 5 (sender) and 3 (receiver); four files, three seconds, one
step back of the clock, one restart: two frames in one second, twice, and a second come
back to. Golay: two messages, every pattern of up to four errors. Whitening: the CCSDS
register of eight stages by octets, a self-synchronising one of three by bits; five bits
through either side, one more than the stages and one lost. AX.25 encoder: one header
octet, messages of 0 or 2 octets, two bursts of noise, three things on the line; with and
without scrambling and NRZI, each with the fewest flags that are enough.

**Fairness.** `ax25_damaged`, `ax100` and `decoders` assume weak fairness of one
action, a turn of an inner loop of the decoder (`Scan`, `Scan6`): inside `work()` the thread
keeps running. `ieee802154_search` assumes `WF_vars(Run)`: the scheduler calls
`work()` while a multiple of its items is in the buffer. `rigctl` assumes weak
fairness of each thread (`ServerStep`, `ClientStep`) and of each controller's
reading of its answers (`Reads`); the client's `recv()` has a timeout
(`SO_RCVTIMEO`), so it is a step that is always possible. Nothing is assumed about
the arrival of items, resets, commands, or destructors.

**Findings.**

1. `ax25_decoder::reset()` clears the state machine and keeps `d_bitstream`;
   `decoder.h` promises "the initial defaults". After a call that returned early
   with one frame, the next frame of that call comes out after the reset.
2. `doppler_fit::L` divides unsigned integers, and where the divisor is the
   smaller index minus the larger it wraps: the factors are not those of
   Lagrange extrapolation, and four equal frequencies predict another one.
3. `argos_ldr_decoder` says that the flag "in most case is repeated multiple times".
   `enter_decoding_state` starts the frame two octets behind the three flags and looks
   into what may be a fourth and a fifth flag: behind five or more the frame is lost.
4. `whitening::descramble()` for octets calls `scramble()`; its comment says that
   it descrambles. For additive whitening the two are the same, for
   self-synchronising they are not.

**Noted while modelling**, without a run of their own. Where a property would be
false for one of these, it says so in its precondition.

- `ax25_decoder` drops a frame whose octets, FCS included, reach
  `d_max_frame_len`; a stuffed bit in the first octet is only looked for in its
  eighth place (`FirstOctetPlain`); call sign and `promisc` are not used.
- `ax25_encoder` with scrambling leaves the last 17 bits of a frame in the scrambler's
  register, so that the postamble needs four flags; with NRZI the first bit is read
  against the level before it, so that the preamble needs two (`IsReadable`). Its output
  buffer has one octet for the stuffed bits of eight (`ax25_encoder.cc:107-113`), where
  one bit in five may be stuffed: messages that are all ones and longer than about 740 octets
  are written past its end. The model has no buffer size.
- `ieee802_15_4_variant_decoder` gives up the sync search
  `2 * preamble + sync + threshold` bits after the first preamble word it sees, so
  four repetitions lose the frame; without a preamble every frame reports
  `sample_start` 0, for `d_frame_start_idx` is only set where a preamble is found (`:228`); the
  register of the sync search starts from zeros, so that a sync word that begins
  with zeros may match before all its bits have come (`Entered`);
  `decode_frame_len` accepts lengths above `max_len`; with
  `CRC_NONE` a length of 0 is never reached by the payload counter: the payload is
  written on and on, no frame comes out, and no property here is about it.
- `ax100_mode5` without a preamble gives up every `d_sync_len + 1` bits and clears
  the register: a sync word that lies in two such windows is missed. Lengths
  below those of CRC and parity wrap.
- `argos_ldr_decoder` drops the bit behind the stuffed zero instead of the zero
  itself (`StuffingHarmless`); without the CRC check a second frame in one call
  takes the place of the first.
- `amsat_duv_decoder` never calls `incr_nitems_read`; after a frame the zeros of the
  cleared register may stand for the leading bits of a control symbol (`MayBeControlAt`);
  when the last bit of a control symbol is the first of a call, the end of its frame
  erases a bit of what follows (`FirstBitErased`), and where it is the last bit there is,
  one past the end of the deque: what that leaves is undefined, the model takes it to be
  empty; erasures are frame positions where libfec wants positions in the padded block, so
  that as many of them as there is parity publish the block uncorrected.
- `cw_encoder` divides by zero for dots shorter than ten samples. A station that
  sends while `cw_decoder` estimates the noise makes its channel deaf, and one that starts
  within five windows after it loses its first dot (`Readable`). A word longer than
  `max_len` is lost; frames still queued when input ends are never published, and
  where calls take more than the silence that ends a message, divided by the number of
  channels, the queue may grow (`QueueShort`).
- The destructor of a rigctl server waits in `accept()` or `recv()` for a peer; one
  peer is served at a time, so behind a polling client no controller ever is;
  lines that one `recv()` joins are read as one and the others are lost; a
  client's "q" stops the server; a client never connects again. Frequencies are numbers
  that come through `strtoll`, `double` and `uint64_t` as they are; negative or very large ones are
  left out, and so is an "F" alone, of which `get_freq_from_buf(buf + 2)` reads octets that
  `recv()` has not written.
- A symbol that follows the sync word is shifted into the matching register of
  `lrpt_sync` only; the others miss it.
- `ber_calculator` accepts the number `d_cnt`, which has not been sent
  (`cnt > d_cnt`). It is to "skip the given number frames at the start of the experiment"
  (`ber_calculator_impl.cc:39`) and passes over those that arrive, but compares the first
  frame that counts with the last one that arrived, skipped or not (`:182-187`): of the frames
  to be skipped, those lost right before it count as dropped. With two frames to skip, both
  lost, two count as dropped when the third arrives. `DroppedWereLost` states which
  numbers count: the lost ones from `d_skip` on and an unbroken row of lost ones right
  in front of it, which the doc would leave out.
- `udp_msg_sink` drops a frame of exactly `d_mtu` octets; an empty datagram ends
  the process of `udp_msg_source`, whose `d_thread` is never assigned. A restart, or
  a clock set back, in the second of the last file lets `frame_file_sink` write
  over it.
- `doppler_correction_cc` reads `d_predicted_freqs` from the first sample on, and
  nothing writes it before the first message.
- Not modelled, read in passing: `crc::append` uses `crc16_ccitt` for
  `CRC16_AUG_CCITT`; `crc_async` throws for `CRC16_AX25` and underflows for PDUs shorter
  than the CRC; `rs_encoder.cc:74` copies in the wrong direction; `iq_sink` writes
  again from the start after a short write.

## 4. Proofs

**Decoder.** `AX25Decoder_proofs` proves, for every value of the constants that satisfies
`ConstantsAssumption` (a frame limit of at least 2, a minimum of at least 3
octets, any set of non-empty chunks, any FCS function, any bounds):

| Theorem | States |
|---|---|
| `TypeCorrect` | `Spec => []TypeOK` |
| `NoBitIsLost` | `Spec => []NoBitLost` |
| `CursorsInRange` | `Spec => []Cursors`: no index leaves the buffer, no `size_t` difference wraps |
| `FrameBufferBounded` | `Spec => []FrameInProgress`: the frame stays below its limit |
| `DeliveredIsBehind` | `Spec => []DeliveredBehind` |
| `Refinement` | `Spec => ImplementsDecoder` |
| `FramesAreFaithful` | `Spec => []FrameFaithful`: what is published stands on the line, stuffed, between the flags its metadata names, from the first octet that is no flag on |
| `NoFrameIsDiscarded` | `Spec => []NoFrameDiscarded`: a good frame is published, whatever comes before it |

All but the last two come from one inductive invariant, `IInv == TypeOK /\ NoBitLost /\ Cursors /\
FrameInProgress /\ DeliveredBehind`. No conjunct is inductive alone: `Cursors`
needs `decodedBits` to be zero whenever the state is `NO_SYNC`, or
`erase(i + 1 - 8)` could be reached before eight bits were seen
(`FrameInProgress`); `DeliveredBehind` needs that an erase of n bits is counted
as n bits (`NoBitLost`) and that n is not negative (`Cursors`). One lemma per
action shows that it keeps `IInv`. `Refinement` then maps every step to `Feed`,
`Advance`, `Deliver` or a stutter of `Decoder`; the order of the frames, which
is what `Deliver` demands, is `DeliveredBehind`.

`FramesAreFaithful` relates a frame built in many calls to the line. `LineInv` says what
every state of the decoder knows of it: in `NO_SYNC` that the register holds the last line
bits (`Searching`), in `IN_SYNC` that behind the marked flag there are whole flags, all of
them idle ones, and `d_decoded_bits` more bits (`AtFlags`), in `DECODING` that the bits in
`d_frame_buffer` and `d_dec_b` are the line bits behind the last of those flags with the
stuffed zeros taken out, and the next octet of the line is no flag (`InFrame`,
`NoFlagExtends`): without that a body could be read as idle flags and anything behind
them. The frame at hand may end in up to six ones of which nobody knows yet whether a
stuffed zero, a flag or an abort follows; `Destuffed` states the stuffing relation for the
bits before them and lets the next bit decide. `OutInv` keeps it for what is published,
also on a longer line (`PublishedExtends`). Both are inductive beside `IInv`, which bounds
the cursors they speak of. `Stuff` is a recursive function of the data: its equation, and
that it does not depend on what follows the bits it is applied to, are derived from the
set of positions up to which it holds, which is all of them (`UpToNat`, `PrefixRecursion`
and `PrefixesAgree` of `DecoderLemmas`).

The property had to be corrected for it. A body that ends in four ones, with a fifth
in front of the closing flag, is accepted: the first zero of the flag passes for the
zero stuffed behind five ones, and the fifth takes its place among the seven bits that
are left out with the flag. `Carries` allows for it, and a stream of `ax25_noisy` has it.

`NoFrameIsDiscarded` follows each flag that may open a frame that must be published
(`Opening`) until it is clear what becomes of it. `NoneForgotten`: the decoder holds on
to it (`Tracked`), or the matter is `Settled`: whatever follows on the line, a due frame
behind this flag has been published. `SearchMisses` says that no such flag began
before the register was cleared, `FrameIsQuiet` that no flag ends inside the frame in
progress; an abort, an overlong frame, a wrong size or FCS settle the flag, since seven
ones, so many octets or these octets cannot be behind it in a due frame.

**Doppler correction.** `DopplerCorrection_proofs` proves, for every value of the
constants that satisfies `DopplerAssumption` (at least one point, one correction
per second and one sample per correction step), whatever frequencies, initial
table and calls:

| Theorem | States |
|---|---|
| `Invariance` | `Spec => []IInv`: the four invariants of the run and `IndexOnTime` |
| `TableIsCurrent` | `Spec => []TableCurrent` |
| `TypeCorrect` | `Spec => []TypeOK`: no read past the table |
| `StepsCover` | `Spec => []StepsCoverSamples` |
| `PredictionApplied` | `Spec => []AppliedIsPredicted` |

Here the conjunction of the properties is inductive. `AppliedIsPredicted` needs
`TableCurrent` (what the entries are) and `IndexOnTime` (which sample entry
`corrections` is for), which needs `StepsCoverSamples`, which needs `TypeOK`.
`L` stays a symbol in the proofs: they are about which prediction is used and
when, not about its value (finding 2). The assumption that a step has a sample is the
code's own: with fewer samples a second than corrections `d_update_period` is 0
and `work()` does not return.

**IEEE 802.15.4.** `IEEE802154Decoder_proofs` proves, for every set of constructor
arguments that `ConfigsAssumption` describes (it is what the constructor checks:
whole octets, thresholds of at most half a word, a length of at least one), any
stream of bits, any CRC function and any descrambler that makes an octet of an
octet (`DataAssumption`):

| Theorem | States |
|---|---|
| `Invariance` | `Spec => []IInv` |
| `FramesAreAsSent` | `Spec => []FrameFaithful`: what is published stands behind a sync word, in the range its metadata names, with the length its first octet gives and the verdict its CRC deserves |
| `ResetsForget` | `Spec => []ResetForgets` |
| `Refinement` | `Spec => ImplementsDecoder` |

`FrameFaithful` compares a frame, built in many calls, with the history of the
line, so the invariant has to say at every step where in the stream each part of
the object comes from. `Searching`: the sync register holds exactly the `cnt` bits
before the read cursor behind zeros (`Entered`), which is why a match puts a
sync word in front of it (`SyncInFront`). `Receiving`: `d_pdu` holds the octets
of the stream behind that word, the length octet descrambled, and `d_len` is what
that octet says. `Fresh`: nothing of an earlier frame is left when the payload
begins; without it an exit that forgets to clear `d_pdu` or the descrambler would
break `Receiving` one frame later. `Published` keeps the frames behind the start of
the next one, `Forgotten` does the same for resets. A stream only grows, so what
was true of a published frame stays true (`AsSentStays`).

**AX.100.** `AX100Decoder_proofs` covers `ax100_decoder` in both modes, for any
stream of bits (`StreamAssumption`: preambles and sync words are bits, a length field
of at least one octet, a frame limit of at least two, calls of mode 6 that bring
something), any Golay code and CRC:

| Theorem | States |
|---|---|
| `Invariance` | `Spec => []Inv` |
| `BufferIsAccounted` | `Spec => []BufferAccounted` |
| `Mode5FramesAreAsSent` | `Spec => [](mode = 5 => Mode5!FrameFaithful)` |
| `Refinement` | `Spec => ImplementsDecoder` |

All four have the hypothesis `CodesInPlace`: `decode_rs_8` returns as many octets as
it was given, or fails, and the descrambler returns an octet. Both work in place in the
code. They matter, as the frame with a wrong CRC stays in `d_frame_buffer`
after both ran over it, and the next turn of the loop appends to it. `Inv`
has a part for each mode. Mode 6 (`Inv6`): `BufferAccounted` needs the types
(`decodedBits` below eight, or an octet would be skipped) and
`DeliveredBehind` for the order of the frames. Mode 5 (`Inv5`): the input is what was
sent and not read (`InputAccounted`), the start of the frame in progress lies
behind everything published (`MarkedBehind`), and fewer octets of the length
are collected than it has (`LengthInProgress`), without which `decode_frame_len`
would consume less than nothing. What the code does at the end of `_decode` on
each of its exits is the lemma `FrameEnds`.

`Mode5FramesAreAsSent` assumes besides that what the Golay decoder takes for a length is a
number, or -1 where it fails (`LengthsAreNumbers`). Its invariant, `Faithful5`, keeps
the history as that of `IEEE802154Decoder` does, for a frame in two coded fields:
`Searching5` says that the register of the sync search holds the bits since
`d_frame_start` behind zeros and that `d_cnt` counts them, which is why the words of
an earlier search cannot be part of a match; `LengthSent` and `PayloadSent` name one
place on the line, the end of the sync word, behind which the octets of the length
and then those of the payload stand; `FramesSent` says it of what is published. The
property speaks of the register, not of as many bits of the line as the word is long: a
search clears the register, so a word that begins with zeros, or one within the
threshold, may match before it has all of its bits.

**Argos, amsat, cw.** `FrameDecoder_proofs` proves, of `frame_decoder` with any of its three
decoders, with `StreamAssumption` (what arrives are bits, code words are octets, a
frame limit of at least two, there is a channel), any FCS function and table of words:

| Theorem | States |
|---|---|
| `Invariance` | `Spec => []Inv` |
| `BufferIsAccounted` | `Spec => []BufferAccounted` |
| `AmsatFramesAreFaithful` | `Spec => [](kind = "amsat" => Amsat!FrameFaithful)` |
| `QueueStaysShort` | `Spec => []QueueShort` |
| `Refinement` | `Spec => ImplementsDecoder` |

For argos the range of a frame must follow those published before it, but frames
that failed the check are published without one, and the status waits for
the next call. `SpansBehind` says of the frames that have a range, counted by
`Nth`, that they end behind the read cursor, and `StatusHasNoRange` that the one
waiting adds none. For amsat the buffer is the rest of the line behind what `Base`
counts as given up (after a block that failed that is one bit, and the words are taken
again). That the words lie behind a control symbol needs to be known from the
register: it is empty, or holds the ten bits in front of the buffer, or a reset
left it as it was (`RegisterOf`; the hazard of the register kept over a reset is
the third case, which `FrameFaithful` allows for). `OpenFrame` says that words and
erasures collected in many calls are those of the line at that place; the
erasures are part of it because they decide which corrections the
Reed-Solomon decoder may return. cw is in neither claim: it has no bits and no ranges.

Of cw, `QueueStaysShort` says that one frame per call is enough. A channel publishes a
text only behind the silence that ends a message, and counts it from zero
again behind each one, so `Ahead` bounds from below in how many windows its next text may
come; no window brings it closer by more than one (`ChannelHears`, for every
state, carrier and symbol), a reset puts it off. `WaitsInTurn` is the inductive
invariant: the channel of the k-th frame waiting is at least k shares ahead of its next
text, a share being what the silence holds for each channel. A call passes on one frame
and takes a share of windows at most, so each frame moves up one place for it; inside the call the
invariant counts the windows that are left and the channels that have had
theirs. A channel with a frame waiting therefore has no other, and there are no more
frames than channels. The precondition is what the code relies on without saying
so: with calls that take a whole silence each, two channels that go on sending short
texts make the queue grow without end.

**Rigctl.** `RigctlLink_proofs` proves, for any number of controllers,
frequencies, lines that may be joined, and interleavings of the threads, with the
sole assumption that the client is no controller (`ClientAssumption`):

| Theorem | States |
|---|---|
| `Invariance` | `Spec => []Inv` |
| `CommandsPublished` | `Spec => []FreqAsCommanded` |
| `NeverStale` | `Spec => []FreshUnlessLate` |
| `ClientFollowsServer` | `Spec => ClientFollows`, an action property |

`FreqAsCommanded` does not say whose answer the one frequency more is that is
published and not acknowledged. The invariant does: one controller at most is owed
an answer to a command carried out, and what is published is what is acknowledged
and that controller's frequency (`Commanded`). That needs one peer to be served at a time
(`OneServed`) and one line between it and the server (`OneLine`).
`ClientFollows` needs that the answers in the client's socket are in order and
not older than what it has published (`AnswersInOrder`), and `FreshUnlessLate` that
a client none of whose answers was late has no older one in its socket (`NoneOld`).

**Bit errors, recording, whitening, AX.25 encoder.** `PduBlocks_proofs` proves, of the
composition, with `ArgumentsAssumption` (the numbers of frames are natural; masks and
seeds are as long as the register; messages, header and FCS are octets):

| Theorem | States |
|---|---|
| `FramesAreAccounted` | `Spec => []FramesAccounted` |
| `NoFileIsOverwritten` | `Spec => []NoFileOverwritten` |
| `DescramblerIsRight` | `Spec => []DescramblerRecovers`, if `BitPerOctet` |
| `EveryMessageArrives` | `Spec => EachMessageArrives`, an action property |

The meter: `BerInv` adds what a step from the link needs: frames
under way have consecutive numbers (`LinkConsecutive`), nothing is counted while
only skipped frames have come (`CountedBehindSkip`), and every number between the
last one received and the first under way was lost (`LostInOrder`), so that the
gap which `received_pdu` counts as dropped is a set of lost numbers, whose
cardinality is that of an interval (`IntervalSize`). `CountedAsFound` says over `d_skip`
which numbers are counted: as received those that came from `d_skip` on, as dropped those
lost from there on and an unbroken row of lost ones right in front of it, which the doc would leave out;
`StillCounted` and `CountedGap` carry this over a step that counts nothing and one that counts.

The recorder: unless the clock was set back or the flowgraph restarted in the
second of the last file, every file's second is at most the clock's, and in that
second the suffixes are at most `d_counter` (`NamesBehind`): the next name is new.

The descrambler, additive: both registers are on one orbit of the LFSR (`AlongOrbit`),
each as far along it as its counter says, and so is every bit under way; after losses the
counters differ, and `DescramblerRecovers` claims nothing. Self-synchronising: scrambler,
link and descrambler are one line of bits, and each undamaged place on it is the parity of
the places before plus the bit it stands for (`OnLine`); a lost or inverted bit damages as
many places as there are stages, and no more. `BitPerOctet` excludes self-synchronising
whitening of octets, where the claim is false: it is finding 4.

The encoder: `EachMessageArrives` says of every step that frames a message that the
receiver then finds a frame with its octets on the stretch of the line that the step
added, for any header, FCS and message, any numbers of flags that `IsReadable` asks for,
with and without scrambler and NRZI, whatever was on the line before. Its invariant is
the types (`EncoderInv`); the work is in operators. A frame is carried along: `HasAt` says
where the flags and the stuffed octets are among the bits put together (`PduLayout`); NRZI is
the parity of the zeros so far (`NrziLevels`); the scrambler is a recursion that reaches back
17 places, solved by `IsFed`, and a bit is the sum of three that leave it
(`ScrambledSum`). So the receiver reads the frame, 17 bits late and from its second
bit on (`FrameReceived`): two opening flags with NRZI, and four closing ones with the
scrambler, are what it takes. That what it reads is one frame is `FrameOnLine` of
`DecoderLemmas`: six ones in a row are nowhere in stuffed bits (`NoSixOnes`), so no
flag begins in them or in the flag before them, and what is taken out of them are the octets
(`StuffingIsUndone`, for every sequence of bits). The latter is also why
`FramesAreFaithful` of the decoder means what it says: a line that carries
octets carries no others.

**What is only model-checked, and why.** The provers at hand cannot instantiate an
induction theorem. A recursion over a prefix of the line can be had from sets, as above,
if the property says of one prefix what follows from the one before; this is done for
`AX25Decoder` and not for the rest:
- `FrameFaithful` of `ArgosDecoder`: it goes over the bits twice, so that a place of
  the line may be in two frames, and with an arbitrary function for the FCS what it reads
  the second time could pass; TLC checks the FCS and streams of the run. Mode 6 of
  `AX100Decoder` compares frames with those that the streams of the run hold.
- `NoFrameMissed` of the other decoders holds of streams like those of the runs, where
  the words of a preamble are not found in what surrounds them, and not of all.
- `EncodedReadable` says besides `EachMessageArrives` that nothing else is a frame with a
  right FCS. With an arbitrary function for the FCS, noise may be one; TLC checks it
  with that of the run.
- `LrptAsSent`, `WordsConserved` and `MessagesAsKeyed`
  are end to end, over folds of what was keyed or sent by another component.
- `GolayCorrects` is exhausted by TLC: it is about one matrix.
- Liveness is out of reach of the proof system: `DecodeReturns`, `InputDrained`,
  `ServedAnswered`, `ClientStops`.

## 5. Plan

Done: all modules of section 2. What is left, in this order:

1. The G3RUH branches of `ax25_decoder` and `ax100_mode6`, composed with `AX25Encoder`.
2. `iq_sink` with short writes; `crc_async` and `rs_encoder` as blocks.

Configurations of one component share a run through a `conf` or `kind` variable.

## 6. Not modelled

- Signal processing (waterfall, APT, SSTV, oscillators, spectrum estimates, the sine
  of `cw_encoder`, the FFT of `cw_decoder`) and media files: floating point throughout.
- Formatting of metadata, JSON and messages; debug sources; `convolutional_deinterleaver`,
  which no block uses; `coarse_doppler_correction_cc`, which has no state but its oscillator.
- `libfec` and `date.h` (vendored: about half of all lines of C and C++), generated
  bindings and flowgraphs.
- CRC and FCS: parameters of the decoder modules; their values are covered by
  the unit tests in `qa_crc.cc`. Reed-Solomon is a parameter or external.
- `iq_sink`, `crc_async`, `rs_encoder`: see the plan.
- The G3RUH branches of `ax25_decoder` and `ax100_mode6`: the descrambler runs
  on the bits before anything that is modelled; its recovery is `DescramblerRecovers`,
  what it recovers from is sent in `AX25Encoder`.
