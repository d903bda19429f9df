---------------------------- MODULE FrameRecorder ----------------------------
(***************************************************************************)
(* Frames go from one flowgraph to another over UDP and into files there:  *)
(* udp_msg_sink (lib/udp_msg_sink_impl.cc), udp_msg_source                 *)
(* (lib/udp_msg_source_impl.cc, d_type 0) and frame_file_sink              *)
(* (lib/frame_file_sink_impl.cc).  The network loses, reorders and repeats *)
(* datagrams; the receiving flowgraph ends and is started again; its clock *)
(* is set back now and then.                                               *)
(***************************************************************************)
EXTENDS Integers, Sequences, FiniteSets

CONSTANTS
  Payloads,      \* frames: what they hold
  FrameLen(_),   \* the octets of a frame
  SinkMtu,       \* d_mtu of udp_msg_sink
  SourceMtu,     \* d_mtu of udp_msg_source
  MaxSent,       \* bound: frames that are sent
  MaxRecorded,   \* bound: files written
  MaxSecond,     \* bound: seconds of the clock
  MaxStepsBack,  \* bound: times the clock is set back
  MaxRestarts    \* bound: starts of the receiving flowgraph but the first

VARIABLES
  network,       \* datagrams under way or repeated: frame and octets
  source,        \* the thread of udp_msg_source: "running" or "exited"
  messages,      \* messages from udp_msg_source to frame_file_sink
  second,        \* the clock
  filenamePrev,  \* the second in d_filename_prev, -1: none
  counter,       \* d_counter
  files,         \* the files: second and suffix |-> octets of a frame
  sentFrames,    \* frames sent so far
  written,       \* files written so far
  stepsBack,     \* times the clock was set back
  restarts,      \* starts of the receiving flowgraph
  disturbed      \* whether the clock was set back, or the flowgraph started
                 \* again in a second in which it had written a file

recorderVars == <<network, source, messages, second, filenamePrev, counter,
                  files, sentFrames, written, stepsBack, restarts, disturbed>>

Smaller(a, b) == IF a < b THEN a ELSE b

Init ==
  /\ network = {}
  /\ source = "running"
  /\ messages = <<>>
  /\ second = 0
  /\ filenamePrev = -1
  /\ counter = 0
  /\ files = <<>>
  /\ sentFrames = 0
  /\ written = 0
  /\ stepsBack = 0
  /\ restarts = 0
  /\ disturbed = FALSE

\* udp_msg_sink: a frame of d_mtu octets or more is dropped.
Send(payload) ==
  /\ sentFrames < MaxSent
  /\ sentFrames' = sentFrames + 1
  /\ network' = IF FrameLen(payload) < SinkMtu
                  THEN network \cup
                         {[payload |-> payload, len |-> FrameLen(payload)]}
                  ELSE network
  /\ UNCHANGED <<source, messages, second, filenamePrev, counter, files,
                 written, stepsBack, restarts, disturbed>>

Lose(datagram) ==
  /\ datagram \in network
  /\ network' = network \ {datagram}
  /\ UNCHANGED <<source, messages, second, filenamePrev, counter, files,
                 sentFrames, written, stepsBack, restarts, disturbed>>

\* recvfrom() cuts a datagram at d_mtu.  One without octets ends the process.
Accept(datagram) ==
  /\ source = "running"
  /\ datagram \in network
  /\ Len(messages) + written < MaxRecorded
  /\ IF datagram.len = 0
       THEN source' = "exited" /\ messages' = <<>>
       ELSE /\ messages' = Append(messages,
                 [datagram EXCEPT !.len = Smaller(@, SourceMtu)])
            /\ UNCHANGED source
  /\ UNCHANGED <<network, second, filenamePrev, counter, files, sentFrames,
                 written, stepsBack, restarts, disturbed>>

\* msg_handler_frame: a suffix tells files of one second apart.
Suffix == IF filenamePrev = second THEN counter + 1 ELSE 0

\* The files with this one, in place of another of the same name.
Put(name, octets) ==
  [n \in DOMAIN files \cup {name} |-> IF n = name THEN octets ELSE files[n]]

\* Faulty variant of Record: d_filename_prev gets the name with its suffix.
RecordPrevSuffixed ==
  /\ messages # <<>>
  /\ messages' = Tail(messages)
  /\ filenamePrev' = IF Suffix = 0 THEN second ELSE -1
  /\ counter' = Suffix
  /\ files' = Put(<<second, Suffix>>, Head(messages))
  /\ written' = written + 1
  /\ UNCHANGED <<network, source, second, sentFrames, stepsBack, restarts,
                 disturbed>>

Record ==
  /\ messages # <<>>
  /\ messages' = Tail(messages)
  /\ filenamePrev' = second
  /\ counter' = Suffix
  /\ files' = Put(<<second, Suffix>>, Head(messages))
  /\ written' = written + 1
  /\ UNCHANGED <<network, source, second, sentFrames, stepsBack, restarts,
                 disturbed>>

Tick ==
  /\ second < MaxSecond
  /\ second' = second + 1
  /\ UNCHANGED <<network, source, messages, filenamePrev, counter, files,
                 sentFrames, written, stepsBack, restarts, disturbed>>

SetBack ==
  /\ stepsBack < MaxStepsBack
  /\ second > 0
  /\ stepsBack' = stepsBack + 1
  /\ second' = second - 1
  /\ disturbed' = TRUE
  /\ UNCHANGED <<network, source, messages, filenamePrev, counter, files,
                 sentFrames, written, restarts>>

\* The flowgraph is started again, after exit() or by its user.
Restart ==
  /\ restarts < MaxRestarts
  /\ restarts' = restarts + 1
  /\ source' = "running"
  /\ messages' = <<>>
  /\ filenamePrev' = -1
  /\ counter' = 0
  /\ disturbed' = (disturbed \/ filenamePrev = second)
  /\ UNCHANGED <<network, second, files, sentFrames, written, stepsBack>>

Next ==
  \/ \E payload \in Payloads : Send(payload)
  \/ \E datagram \in network : Lose(datagram) \/ Accept(datagram)
  \/ Record
  \/ Tick \/ SetBack
  \/ Restart

Spec == Init /\ [][Next]_recorderVars

-----------------------------------------------------------------------------
(* Properties *)

\* However many frames come in a second, and whatever restarts and pauses there
\* are, no file is written over: unless the clock is set back, or the flowgraph
\* started again in the second of its last file, which forgets the suffix.
NoFileOverwritten == ~ disturbed => Cardinality(DOMAIN files) = written
=============================================================================
