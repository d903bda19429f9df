------------------------------ MODULE PduBlocks ------------------------------
(***************************************************************************)
(* The blocks that frames come from and go to, and the codes in them, one  *)
(* at a time: the LRPT receiver, the bit error meter, the recording of     *)
(* frames at another host, the Golay code, the whitening and the AX.25     *)
(* encoder.  They share no state: the variables of the others keep their   *)
(* initial values.                                                         *)
(***************************************************************************)
EXTENDS Integers, Sequences

CONSTANTS
  BlockKinds,
  Asm, Threshold, RegLen, Window, CaduLen, Vcdu(_), LrptChunks, Phases,
  MaxLrptSends, MaxLrptHeld,
  Skip, NFrames, MaxFrames, MaxAliens,
  Payloads, FrameLen(_), SinkMtu, SourceMtu, MaxSent, MaxRecorded, MaxSecond,
  MaxStepsBack, MaxRestarts,
  GolayMessages, MaxErrors,
  WhiteningConfigs, MaxUnderWay, MaxCount,
  Header, EncConfigs, EncPdus, EncCrc(_), LineNoise, MaxOnLine

VARIABLES
  kind,
  frameSync, regs, rotation, codedCadu, inp, cadus, handled, haveMpdu, frames,
  rx, asms, lrptSends,
  cnt, invalCnt, lastAck, dropped, received, finished, link, lost, aliens,
  network, source, messages, second, filenamePrev, counter, files, sentFrames,
  written, stepsBack, restarts, disturbed,
  message, lsbParity, errors,
  config, scrReg, desReg, scrCount, desCount, inReg, underWay, whole, last,
  encConf, onLine, line, framed

Lrpt == INSTANCE LRPTReceiver
Ber == INSTANCE BERLink
Recorder == INSTANCE FrameRecorder
Golay == INSTANCE Golay24
White == INSTANCE Whitening
Encoder == INSTANCE AX25Encoder

\* What the constructors of the blocks are given.
ASSUME ArgumentsAssumption ==
  Ber!Arguments /\ White!Arguments /\ Encoder!Arguments

lrptVars == <<frameSync, regs, rotation, codedCadu, inp, cadus, handled,
              haveMpdu, frames, rx, asms, lrptSends>>
berVars == <<cnt, invalCnt, lastAck, dropped, received, finished, link, lost,
             aliens>>
recorderVars == <<network, source, messages, second, filenamePrev, counter,
                  files, sentFrames, written, stepsBack, restarts, disturbed>>
golayVars == <<message, lsbParity, errors>>
whiteningVars == <<config, scrReg, desReg, scrCount, desCount, inReg, underWay,
                   whole, last>>
encoderVars == <<encConf, onLine, line, framed>>
vars == <<kind, lrptVars, berVars, recorderVars, golayVars, whiteningVars,
          encoderVars>>

OneConfig(configs) == {CHOOSE c \in configs : TRUE}

\* Golay code, whitening and encoder have several initial states, one of them
\* when they are not looked at.
Init ==
  /\ kind \in BlockKinds
  /\ Lrpt!Init /\ Ber!Init /\ Recorder!Init /\ Golay!Init /\ White!Init
  /\ Encoder!Init
  /\ kind # "golay" => message \in OneConfig(GolayMessages) /\ lsbParity
  /\ kind # "white" => config \in OneConfig(WhiteningConfigs)
  /\ kind # "encoder" => encConf \in OneConfig(EncConfigs)

LrptStep ==
  /\ kind = "lrpt"
  /\ Lrpt!Next
  /\ UNCHANGED <<kind, berVars, recorderVars, golayVars, whiteningVars,
                 encoderVars>>

BerStep ==
  /\ kind = "ber"
  /\ Ber!Next
  /\ UNCHANGED <<kind, lrptVars, recorderVars, golayVars, whiteningVars,
                 encoderVars>>

RecorderStep ==
  /\ kind = "recorder"
  /\ Recorder!Next
  /\ UNCHANGED <<kind, lrptVars, berVars, golayVars, whiteningVars, encoderVars>>

GolayStep ==
  /\ kind = "golay"
  /\ Golay!Next
  /\ UNCHANGED <<kind, lrptVars, berVars, recorderVars, whiteningVars,
                 encoderVars>>

WhiteStep ==
  /\ kind = "white"
  /\ White!Next
  /\ UNCHANGED <<kind, lrptVars, berVars, recorderVars, golayVars, encoderVars>>

EncoderStep ==
  /\ kind = "encoder"
  /\ Encoder!Next
  /\ UNCHANGED <<kind, lrptVars, berVars, recorderVars, golayVars, whiteningVars>>

Next ==
  \/ LrptStep \/ BerStep \/ RecorderStep \/ GolayStep \/ WhiteStep \/ EncoderStep

Spec == Init /\ [][Next]_vars

-----------------------------------------------------------------------------
(* Properties, see the modules of the blocks *)

\* A whole coded frame is passed on, its phase undone, however it is cut, and
\* what is in it published when it is valid and a packet has started.
LrptAsSent == kind = "lrpt" => Lrpt!LrptAsSent

\* No frame number counts twice, what counts as dropped was lost, and what
\* counts as received came.
FramesAccounted == kind = "ber" => Ber!FramesAccounted

\* No file is written over, but for the clock or a restart in the same second.
NoFileOverwritten == kind = "recorder" => Recorder!NoFileOverwritten

\* Three wrong bits are corrected, four refused.
GolayCorrects == kind = "golay" => Golay!GolayCorrects

\* Behind losses and resets the descrambler is right again when it can be.
DescramblerRecovers == kind = "white" => White!DescramblerRecovers

\* Each message the AX.25 encoder is given is read as framed, once, in order.
EncodedReadable == kind = "encoder" => Encoder!EncodedReadable

\* Each of them is read from what the encoder makes of it alone.
EachMessageArrives == [][kind = "encoder" => Encoder!MessageArrives]_vars

\* lib/whitening.cc:191: descramble() "Performs data de-scrambling": of the
\* octets it makes what they were, once enough of them came whole.
DescrambleInverts == kind = "white" => White!DescramblerRecovers
=============================================================================
