------------------------------ MODULE Decoder ------------------------------
(***************************************************************************)
(* What every satnogs::decoder promises to the frame_decoder block that    *)
(* drives it (include/satnogs/decoder.h, README "Adding a new Satellite    *)
(* Decoder"), whatever framing it implements:                              *)
(*                                                                         *)
(*  - it is handed stream items and counts the ones it is finished with;   *)
(*    that count never goes back and never passes what it was handed;      *)
(*  - it delivers at most one frame per step, and the sample range it      *)
(*    reports for a frame lies inside the items it was handed;             *)
(*  - frames come out in stream order and share at most Overlap items      *)
(*    (an HDLC flag that closes one frame may open the next).              *)
(*                                                                         *)
(* The concrete decoders implement this specification under refinement     *)
(* mappings stated in their own modules.                                   *)
(***************************************************************************)
EXTENDS Integers, Sequences

CONSTANT Overlap   \* items the ranges of two consecutive frames may share

VARIABLES
  fed,     \* number of items handed to decode() so far
  read,    \* d_nitems_read: the items the decoder is finished with
  spans    \* sample_start and sample_cnt of the frames delivered, in order

contractVars == <<fed, read, spans>>

EndOf(span) == span.start + span.cnt

Init ==
  /\ fed = 0
  /\ read = 0
  /\ spans = <<>>

\* frame_decoder::work hands over more items.
Feed ==
  /\ fed' >= fed
  /\ fed' \in Nat
  /\ UNCHANGED <<read, spans>>

\* The decoder advances over items it does not need any more.
Advance ==
  /\ read' >= read
  /\ read' <= fed
  /\ UNCHANGED <<fed, spans>>

\* The decoder completes one frame, and may advance in the same step.
Deliver ==
  /\ read' >= read
  /\ read' <= fed
  /\ \E span \in {spans'[Len(spans) + 1]} :
       /\ spans' = Append(spans, span)
       /\ span.start >= 0
       /\ span.cnt >= 0
       /\ EndOf(span) <= fed
       /\ spans # <<>> => span.start + Overlap >= EndOf(spans[Len(spans)])
  /\ UNCHANGED fed

Next == Feed \/ Advance \/ Deliver

Spec == Init /\ [][Next]_contractVars
=============================================================================
