------------------------------- MODULE CWLink -------------------------------
(***************************************************************************)
(* A Morse link: morse_debug_source -> cw_encoder -> a frame_decoder block *)
(* with cw_decoder.  The thread of the source queues symbols; each work()  *)
(* of the encoder keys part of one; each decode() takes some windows, each *)
(* of them a step of the state machine of every channel (cw_decoder_priv). *)
(*                                                                         *)
(* The spectrum is reduced to whether the carrier of a channel stands out  *)
(* of the noise; a window of the encoder is the time of one FFT.  The link *)
(* is channel 1, the other channels receive a recording.                   *)
(***************************************************************************)
EXTENDS MorseTree, MorseKeying

LOCAL INSTANCE SequencesExt
LOCAL INSTANCE FiniteSetsExt

CONSTANTS
  Sentences,     \* debug_seq, sequences of characters and " "
  InjectErrors,  \* d_inject_errors
  PauseDots,     \* d_seq_pause_ms, in dots
  ConfNum,       \* d_confidence is ConfNum / ConfDen
  ConfDen,
  MinLen,        \* d_min_len
  MaxLen,        \* d_max_len
  DirtyWindows,  \* windows for which d_dirty_samples > 0
  NfWindows,     \* windows for which d_nf_est_remaining > 0
  ChannelsNum,   \* d_channels_num
  Recordings,    \* what the other channels may receive: windows, and the
                 \* messages they carry
  LeadIn,        \* silent windows before the source starts
  WorkSizes,     \* noutput_items of work(), in windows
  DecodeSizes,   \* len of decode(), in windows
  MaxErrors,     \* bound: characters with an injected error
  MaxQueued,     \* bound: symbols queued when a character is sent
  MaxAir,        \* bound: windows between the encoder and the decoder
  MaxSentences,  \* bound: times the sentence is sent
  MaxResets      \* bound: reset messages

VARIABLES
  sentence,   \* what the source keeps sending
  next,       \* the index i of send_debug_msg
  sent,       \* sentences sent
  errors,     \* errors injected
  symbols,    \* messages queued at the encoder
  symbol,     \* d_cw_symbol
  remaining,  \* d_windows_remaining
  air,        \* windows keyed and not decoded yet
  recording,  \* what the other channels receive
  heard,      \* windows decoded
  deaf,       \* channels whose noise floor took in a carrier
  chan,       \* d_decoders
  frames,     \* d_frames
  messages,   \* texts that the messages keyed so far should carry
  pending,    \* what is keyed of the next one
  out,        \* texts published for each channel
  resets      \* for each reset, the words of channel 1 decoded before it

Channels == 1 .. ChannelsNum

source == <<sentence, next, sent, errors, messages, pending>>
encoder == <<symbol, remaining>>
decoder == <<recording, heard, deaf, chan, frames>>
vars == <<source, symbols, encoder, air, decoder, out, resets>>

-----------------------------------------------------------------------------
(* The source *)

\* A word ends, unless nothing of it is there.
WordEnded(text) ==
  IF text = <<>> \/ Last(text) = " " THEN text ELSE Append(text, " ")

-----------------------------------------------------------------------------
(* A channel of the decoder, see cw_decoder_priv.cc *)

DotDuration == DotWindows - DotWindows \div 4
DashDuration == 3 * DotWindows - DotWindows \div 4
ShortPause == 3 * DotWindows - DotWindows \div 4
LongPause == 7 * DotWindows - DotWindows \div 4

\* check_conf_level
Confident(cnt, target) == cnt * ConfDen > target * ConfNum

SumOf(seq) == FoldLeft(LAMBDA acc, x : acc + x, 0, seq)

\* The moving sums are not empty at first.
EmptyChannel ==
  [state |-> "NO_SYNC", width |-> 0, str |-> <<>>, tree |-> EmptyTree, done |-> <<>>,
   movs |-> [k \in 1 .. DotWindows \div 2 |-> 1],
   stdMovs |-> [k \in 1 .. 5 |-> 1]]

\* is_triggered: the sum is above the trigger level and varies little.  The
\* coefficient of variation is squared and multiplied out.
Triggered(ch) ==
  LET mv == Last(ch.stdMovs)
      mu == SumOf(ch.stdMovs)
      x == SumOf([k \in 1 .. 5 |-> ch.stdMovs[k] * ch.stdMovs[k]])
  IN  /\ mv * ConfDen > DotWindows * ConfNum
      /\ ConfDen * ConfDen * (5 * x - mu * mu)
           < (ConfDen - ConfNum) * (ConfDen - ConfNum) * mu * mu

\* received_symbol for all symbols but the end of a message.  What it returns,
\* the text when a word is longer than d_max_len, is used by no caller.
Received(ch, s) ==
  LET t == TreeReceived(ch.tree, IF s = "L_SPACE" THEN "S_SPACE" ELSE s, MaxLen)
      word == t.tree.word
  IN  CASE s = "L_SPACE" /\ word # <<>> ->
             [ch EXCEPT !.str = @ \o word \o <<" ">>, !.tree = EmptyTree]
        [] s # "L_SPACE" /\ ~ t.res /\ Len(word) = MaxLen ->
             [ch EXCEPT !.str = <<>>, !.tree = EmptyTree]
        [] OTHER -> [ch EXCEPT !.tree = t.tree]

Enter(ch, state) == [ch EXCEPT !.state = state, !.width = 0]
Wider(ch) == [ch EXCEPT !.width = @ + 1]

(***************************************************************************)
(* decode(), as the channel behind it, with the text of a message that is  *)
(* complete in "done".                                                     *)
(***************************************************************************)
NoSync(ch, triggered) ==
  CASE triggered -> Enter(ch, "SEARCH_DOT")
    [] ~ triggered /\ ch.width + 1 <= 3 * LongPause -> Wider(ch)
    [] OTHER ->
         IF Len(ch.str) > MinLen
           THEN [Enter(ch, "NO_SYNC") EXCEPT !.str = <<>>, !.tree = EmptyTree,
                                             !.done = ch.str]
           ELSE Enter(ch, "NO_SYNC")

SearchDot(ch, triggered) ==
  CASE triggered ->
         [Wider(ch) EXCEPT !.state =
            IF ch.width + 1 > DotDuration THEN "SEARCH_DASH" ELSE "SEARCH_DOT"]
    [] ~ triggered /\ Confident(ch.width, DotDuration) ->
         Enter(Received(ch, "DOT"), "SEARCH_SPACE")
    [] OTHER -> Enter(ch, "SEARCH_SPACE")

\* Faulty variant: the pause is counted on from the width of the dash.
SearchDashKeepsWidth(ch, triggered) ==
  CASE triggered -> Wider(ch)
    [] OTHER ->
         [Received(ch, IF Confident(ch.width, DashDuration) THEN "DASH" ELSE "DOT")
            EXCEPT !.state = "SEARCH_SPACE"]

SearchDash(ch, triggered) ==
  CASE triggered -> Wider(ch)
    [] ~ triggered /\ 4 * ch.width > 7 * DashDuration -> Enter(ch, "SEARCH_SPACE")
    [] ~ triggered /\ 4 * ch.width <= 7 * DashDuration ->
         Enter(Received(ch, IF Confident(ch.width, DashDuration) THEN "DASH"
                                                                 ELSE "DOT"),
               "SEARCH_SPACE")

SearchSpace(ch, triggered) ==
  CASE triggered ->
         Enter(IF Confident(ch.width, LongPause) THEN Received(ch, "L_SPACE")
               ELSE IF Confident(ch.width, ShortPause) THEN Received(ch, "S_SPACE")
               ELSE ch,
               "SEARCH_DOT")
    [] ~ triggered /\ Confident(ch.width + 1, LongPause) ->
         Enter(Received(ch, "L_SPACE"), "NO_SYNC")
    [] OTHER -> Wider(ch)

Windowed(c, on) ==
  LET movs == Append(Tail(c.movs), 1 + on)
      ch == [c EXCEPT !.movs = movs,
                      !.stdMovs = Append(Tail(c.stdMovs), SumOf(movs))]
  IN  CASE c.state = "NO_SYNC" -> NoSync(ch, Triggered(ch))
        [] c.state = "SEARCH_DOT" -> SearchDot(ch, Triggered(ch))
        [] c.state = "SEARCH_DASH" -> SearchDash(ch, Triggered(ch))
        [] c.state = "SEARCH_SPACE" -> SearchSpace(ch, Triggered(ch))

-----------------------------------------------------------------------------
(* The receiver as a whole *)

IsDirty(n) == n <= DirtyWindows
IsNoiseFloor(n) == n > DirtyWindows /\ n <= DirtyWindows + NfWindows

\* Whether the n-th window since the start has a carrier in this channel.
Carrier(c, n, level) ==
  IF c = 1 THEN level
  ELSE IF n <= Len(recording.windows) THEN recording.windows[n] ELSE 0

\* process_psd, for one channel: its state and what it adds to d_frames.
Heard(acc, c, on) ==
  LET ch == Windowed(acc.chan[c], IF c \in acc.deaf THEN 0 ELSE on)
  IN  [acc EXCEPT
         !.chan[c] = [ch EXCEPT !.done = <<>>],
         !.frames = IF ch.done = <<>> THEN @
                    ELSE Append(@, [channel |-> c, text |-> ch.done])]

\* One turn of the loop of cw_decoder::decode.
Window(acc, level) ==
  LET n == acc.heard + 1
      next1 == [acc EXCEPT !.heard = n]
      On(c) == Carrier(c, n, level)
      upTo[c \in 0 .. ChannelsNum] ==
        IF c = 0 THEN next1 ELSE Heard(upTo[c - 1], c, On(c))
  IN  CASE IsDirty(n) -> next1
        [] IsNoiseFloor(n) ->
             [next1 EXCEPT !.deaf = @ \cup {c \in Channels : On(c) = 1}]
        [] OTHER -> upTo[ChannelsNum]

\* The whole loop, over n windows, with these frames waiting.
Windows(n, waiting) ==
  LET upTo[k \in 0 .. n] ==
        IF k = 0
          THEN [heard |-> heard, deaf |-> deaf, chan |-> chan, frames |-> waiting]
          ELSE Window(upTo[k - 1], air[k])
  IN  upTo[n]

-----------------------------------------------------------------------------
(* Specification *)

Init ==
  /\ sentence \in Sentences
  /\ next = 1
  /\ sent = 0
  /\ errors = 0
  /\ symbols = <<>>
  /\ symbol = "L_SPACE"
  /\ remaining = 0
  /\ air = [k \in 1 .. LeadIn |-> 0]
  /\ recording \in Recordings
  /\ heard = 0
  /\ deaf = {}
  /\ chan = [c \in Channels |-> EmptyChannel]
  /\ frames = <<>>
  /\ messages = <<>>
  /\ pending = <<>>
  /\ out = [c \in Channels |-> <<>>]
  /\ resets = <<>>

\* The body of the loop of send_debug_msg.  The destructor clears d_run, which
\* is looked at before a sentence only: there may always be no next one.
SendChar ==
  /\ next <= Len(sentence)
  /\ sent < MaxSentences
  /\ Len(symbols) <= MaxQueued
  /\ IF sentence[next] = " "
       THEN /\ symbols' = Append(symbols, "L_SPACE")
            /\ pending' = WordEnded(pending)
            /\ UNCHANGED errors
       ELSE \E swapped \in {FALSE, InjectErrors /\ errors < MaxErrors} :
              LET keys == Keys(sentence[next], swapped)
              IN  /\ errors' = errors + IF swapped THEN 1 ELSE 0
                  /\ symbols' = symbols \o Keyed(keys)
                  /\ pending' = pending \o IF swapped THEN CharOf(keys)
                                                      ELSE <<sentence[next]>>
  /\ next' = next + 1
  /\ UNCHANGED <<sentence, sent, messages, encoder, air, decoder, out, resets>>

\* The end of the sentence and the pause behind it.
SendPause ==
  /\ next = Len(sentence) + 1
  /\ Len(symbols) <= MaxQueued
  /\ symbols' = symbols \o <<"L_SPACE">> \o [k \in 1 .. PauseDots |-> "INTRA_SPACE"]
  /\ next' = 1
  /\ sent' = sent + 1
  /\ IF Len(WordEnded(pending)) > MinLen
       THEN messages' = Append(messages, WordEnded(pending)) /\ pending' = <<>>
       ELSE pending' = WordEnded(pending) /\ UNCHANGED messages
  /\ UNCHANGED <<sentence, errors, encoder, air, decoder, out, resets>>

\* cw_encoder_impl::work: the symbol in progress, or the next one.
Work(n) ==
  /\ Len(air) < MaxAir
  /\ IF remaining = 0
       THEN /\ symbols # <<>>
            /\ symbol' = Head(symbols)
            /\ symbols' = Tail(symbols)
       ELSE UNCHANGED <<symbol, symbols>>
  /\ LET left == IF remaining = 0 THEN Duration(symbol') ELSE remaining
         keyed == Min({n, left})
     IN  /\ remaining' = left - keyed
         /\ air' = air \o [k \in 1 .. keyed |-> Level(symbol')]
  /\ UNCHANGED <<source, decoder, out, resets>>

\* Faulty variant: one call passes on one frame and drops the others.
DecodeDropsFrames(n) ==
  /\ Len(air) >= n
  /\ \E acc \in {Windows(n, <<>>)} :
       /\ heard' = acc.heard
       /\ deaf' = acc.deaf
       /\ chan' = acc.chan
       /\ out' = IF acc.frames = <<>> THEN out
                 ELSE [out EXCEPT ![Head(acc.frames).channel] =
                                    Append(@, Head(acc.frames).text)]
  /\ frames' = <<>>
  /\ air' = SubSeq(air, n + 1, Len(air))
  /\ UNCHANGED <<source, symbols, encoder, recording, resets>>

\* Faulty variant: the frame to pass on is looked up before the windows are.
DecodeLate(n) ==
  /\ Len(air) >= n
  /\ \E acc \in {Windows(n, frames)} :
       /\ heard' = acc.heard
       /\ deaf' = acc.deaf
       /\ chan' = acc.chan
       /\ IF frames = <<>>
            THEN frames' = acc.frames /\ UNCHANGED out
            ELSE /\ frames' = Tail(acc.frames)
                 /\ out' = [out EXCEPT ![Head(frames).channel] =
                                         Append(@, Head(frames).text)]
  /\ air' = SubSeq(air, n + 1, Len(air))
  /\ UNCHANGED <<source, symbols, encoder, recording, resets>>

\* cw_decoder::decode, and the frame the block publishes: one for all channels
\* and windows of the call.
Decode(n) ==
  /\ Len(air) >= n
  /\ \E acc \in {Windows(n, frames)} :
       /\ heard' = acc.heard
       /\ deaf' = acc.deaf
       /\ chan' = acc.chan
       /\ IF acc.frames = <<>>
            THEN frames' = <<>> /\ UNCHANGED out
            ELSE /\ frames' = Tail(acc.frames)
                 /\ out' = [out EXCEPT ![Head(acc.frames).channel] =
                                         Append(@, Head(acc.frames).text)]
  /\ air' = SubSeq(air, n + 1, Len(air))
  /\ UNCHANGED <<source, symbols, encoder, recording, resets>>

\* The text that channel c has committed to so far.
Text(c) ==
  FlattenSeq(out[c]) \o FlattenSeq([k \in DOMAIN frames |->
    IF frames[k].channel = c THEN frames[k].text ELSE <<>>]) \o chan[c].str

WordsOf(text) ==
  LET Add(words, c) ==
        IF c = " " THEN Append(words, <<>>)
        ELSE Append(Front(words), Append(Last(words), c))
  IN  Front(FoldLeft(Add, <<<<>>>>, text))

\* A message on the "reset" port.  d_str, d_frames and the noise floor stay.
Reset ==
  /\ Len(resets) < MaxResets
  /\ chan' = [c \in Channels |->
               [chan[c] EXCEPT !.tree = EmptyTree, !.width = 0, !.state = "NO_SYNC"]]
  /\ resets' = Append(resets, Len(WordsOf(Text(1))))
  /\ UNCHANGED <<source, symbols, encoder, air, recording, heard, deaf, frames, out>>

Next ==
  \/ SendChar \/ SendPause
  \/ \E n \in WorkSizes : Work(n)
  \/ \E n \in DecodeSizes : Decode(n)
  \/ Reset

Spec == Init /\ [][Next]_vars

-----------------------------------------------------------------------------
(* Properties *)

\* The station starts when the noise floor is known and the moving sums are
\* filled, and keeps to words that the decoder has room for.
Readable ==
  /\ LeadIn >= DirtyWindows + NfWindows + 5
  /\ \A k \in 1 .. Len(sentence) - MaxLen :
       \E j \in k .. k + MaxLen : sentence[j] = " "

\* Without a reset what is decoded is what was keyed, however the encoder is
\* cut by its output buffer and the decoder by its input.  A reset costs no
\* more than the word it comes in: the words before it, the ones not published
\* yet included, and the words behind it are all there.
WordsConserved ==
  Readable =>
    LET keyed == FlattenSeq(messages) \o pending
        k == resets[1]
        From(words, n) == SubSeq(words, n, Len(words))
        got == WordsOf(Text(1))
        want == WordsOf(keyed)
    IN  IF resets = <<>> THEN IsPrefix(Text(1), keyed)
        ELSE /\ SubSeq(got, 1, k) = SubSeq(want, 1, k)
             /\ \/ IsPrefix(From(got, k + 1), From(want, k + 2))
                \/ IsPrefix(From(got, k + 2), From(want, k + 2))

\* All is sent and keyed, and what is left undecoded is less than a call takes.
Drained ==
  /\ next = 1 /\ symbols = <<>> /\ remaining = 0
  /\ \A n \in DecodeSizes : Len(air) < n

\* Without a reset each message comes out whole, once, in order and apart from
\* the next one, also when another channel completes a message at the same
\* time; one that is too short comes in front of the next.
MessagesAsKeyed ==
  (Readable /\ resets = <<>>) =>
    /\ IsPrefix(out[1], messages)
    /\ (Drained /\ frames = <<>>) => out[1] = messages
    /\ \A c \in Channels \ {1} :
         /\ IsPrefix(out[c], recording.messages)
         /\ heard >= Len(recording.windows) + 4 * LongPause /\ frames = <<>> =>
              out[c] = recording.messages

\* Each call passes on one frame.  With calls so short that one for each channel
\* fits in the silence that ends a message, there is never more than one frame
\* of each other channel waiting.
QueueShort ==
  (\A n \in DecodeSizes : n * ChannelsNum <= 3 * LongPause) =>
    Len(frames) < ChannelsNum
=============================================================================
