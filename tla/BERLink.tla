------------------------------- MODULE BERLink -------------------------------
(***************************************************************************)
(* ber_calculator (lib/ber_calculator_impl.cc) at both ends of a link: it  *)
(* sends numbered frames and estimates the frame error rate from those     *)
(* that come back.  The link delivers in order, loses and damages frames;  *)
(* a receiver that was not flushed delivers valid frames of an earlier run *)
(* of the flowgraph.                                                       *)
(***************************************************************************)
EXTENDS Integers, Sequences, FiniteSets

CONSTANTS
  Skip,        \* d_skip
  NFrames,     \* d_nframes, 0: no end
  MaxFrames,   \* bound: frames that are sent
  MaxAliens    \* bound: frames of an earlier run that arrive

\* The arguments and the bounds are natural numbers.
Arguments ==
  Skip \in Nat /\ NFrames \in Nat /\ MaxFrames \in Nat /\ MaxAliens \in Nat

VARIABLES
  cnt,         \* d_cnt
  invalCnt,    \* d_inval_cnt
  lastAck,     \* d_last_ack
  dropped,     \* d_dropped
  received,    \* d_received
  finished,    \* whether the block told the scheduler that it is done
  link,        \* frames under way: number, and whether size and CRC are right
  lost,        \* numbers of the frames that were lost or damaged
  aliens       \* frames of an earlier run that have arrived

berVars == <<cnt, invalCnt, lastAck, dropped, received, finished, link, lost,
             aliens>>

LinkFrames == [cnt : Nat, valid : BOOLEAN]

Init ==
  /\ cnt = 0
  /\ invalCnt = 0
  /\ lastAck = 0
  /\ dropped = 0
  /\ received = 0
  /\ finished = FALSE
  /\ link = <<>>
  /\ lost = {}
  /\ aliens = 0

\* create_pdu
CreatePdu ==
  /\ cnt < MaxFrames
  /\ link' = Append(link, [cnt |-> cnt, valid |-> TRUE])
  /\ cnt' = cnt + 1
  /\ finished' = (finished \/ (NFrames # 0 /\ cnt + 1 = NFrames))
  /\ UNCHANGED <<invalCnt, lastAck, dropped, received, lost, aliens>>

Lose ==
  /\ link # <<>>
  /\ link' = Tail(link)
  /\ lost' = lost \cup {Head(link).cnt}
  /\ UNCHANGED <<cnt, invalCnt, lastAck, dropped, received, finished, aliens>>

\* A wrong size, a wrong CRC, or a number that cannot be.
IsInvalid(frame) == ~ frame.valid \/ frame.cnt < lastAck \/ frame.cnt > cnt

\* Faulty variant of ReceivedPdu: d_last_ack is the number of the frame, not
\* that of the one behind it.
ReceivedPduSameAck(frame) ==
  \/ /\ IsInvalid(frame)
     /\ invalCnt' = invalCnt + 1
     /\ UNCHANGED <<lastAck, dropped, received>>
  \/ /\ ~ IsInvalid(frame)
     /\ frame.cnt < Skip
     /\ lastAck' = frame.cnt
     /\ UNCHANGED <<invalCnt, dropped, received>>
  \/ /\ ~ IsInvalid(frame)
     /\ frame.cnt >= Skip
     /\ dropped' = dropped + (frame.cnt - lastAck)
     /\ lastAck' = frame.cnt
     /\ received' = received + 1
     /\ UNCHANGED invalCnt

\* received_pdu
ReceivedPdu(frame) ==
  \/ /\ IsInvalid(frame)
     /\ invalCnt' = invalCnt + 1
     /\ UNCHANGED <<lastAck, dropped, received>>
  \/ /\ ~ IsInvalid(frame)
     /\ frame.cnt < Skip
     /\ lastAck' = frame.cnt + 1
     /\ UNCHANGED <<invalCnt, dropped, received>>
  \/ /\ ~ IsInvalid(frame)
     /\ frame.cnt >= Skip
     /\ dropped' = dropped + (frame.cnt - lastAck)
     /\ lastAck' = frame.cnt + 1
     /\ received' = received + 1
     /\ UNCHANGED invalCnt

Deliver(valid) ==
  /\ link # <<>>
  /\ link' = Tail(link)
  /\ lost' = IF valid THEN lost ELSE lost \cup {Head(link).cnt}
  /\ ReceivedPdu([Head(link) EXCEPT !.valid = valid])
  /\ UNCHANGED <<cnt, finished, aliens>>

DeliverAlien(c) ==
  /\ aliens < MaxAliens
  /\ aliens' = aliens + 1
  /\ ReceivedPdu([cnt |-> c, valid |-> TRUE])
  /\ UNCHANGED <<cnt, finished, link, lost>>

Next ==
  \/ CreatePdu
  \/ Lose
  \/ \E valid \in BOOLEAN : Deliver(valid)
  \/ \E c \in 0 .. MaxFrames + 1 : DeliverAlien(c)

Spec == Init /\ [][Next]_berVars

-----------------------------------------------------------------------------
(* Properties *)

\* No number counts twice, and none is left out but the first d_skip: the rate
\* d_dropped / d_last_ack is never above one, whatever frames of an earlier run
\* come in between.
NumbersBalance ==
  /\ received + dropped <= lastAck
  /\ lastAck <= received + dropped + Skip
  /\ lastAck <= cnt + 1

\* The frames counted as dropped are those of the numbers up to the last one
\* received that the link lost or damaged: from d_skip on and, although the
\* comment at ber_calculator_impl.cc:39 has all of these skipped, those in front
\* of d_skip that were lost with all between them and it.
DroppedWereLost ==
  aliens = 0 =>
    dropped = Cardinality({k \in lost : k < lastAck /\ k .. (Skip - 1) \subseteq lost})

\* The frames counted as received are those that came, from d_skip on.
ReceivedCame ==
  aliens = 0 => received = Cardinality(Skip .. (lastAck - 1) \ lost)

FramesAccounted == NumbersBalance /\ DroppedWereLost /\ ReceivedCame
=============================================================================
