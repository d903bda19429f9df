----------------------------- MODULE RigctlLink -----------------------------
(***************************************************************************)
(* The two modes of tcp_rigctl_msg_source on one TCP port: a block in      *)
(* server mode, to which controllers (a tracking program) and a block in   *)
(* client mode of another flowgraph connect.  Each block has a thread; its *)
(* destructor runs in another one.  In place of the server there may be a  *)
(* rigctld, for which the client is made: it answers as the server does,   *)
(* but its frequency also changes while the client is served.              *)
(*                                                                         *)
(* A connection carries whole lines in order; recv() returns the first of  *)
(* the lines that have arrived, or several at once.  send() to a           *)
(* connection that the other side has closed does nothing.                 *)
(***************************************************************************)
EXTENDS Integers, Sequences, FiniteSets

LOCAL INSTANCE SequencesExt
LOCAL INSTANCE FiniteSetsExt

CONSTANTS
  Controllers,  \* programs that set the frequency
  Client,       \* the block in client mode, not one of them
  Freqs,        \* frequencies that are set, not 0
  MaxCommands,  \* bound: lines that the controllers send
  MaxPending    \* bound: requests of the client that wait unread; more make no
                \* difference but to how many are read at once

ASSUME ClientAssumption == Client \notin Controllers

VARIABLES
  rigctld,      \* whether a rigctld is in place of the server
  server,       \* where its thread is: "start", "loop", "accept", "recv" or
                \* "exited" (with its process)
  running,      \* d_running of the server
  current,      \* the peers whose connection is being served, one at most
  reportedFreq, \* reported_freq
  freqOut,      \* frequencies the server published
  backlog,      \* peers whose connection is not accepted yet
  open,         \* peers whose connection neither side has closed
  toServer,     \* lines under way to the server
  toPeer,       \* lines under way to each peer
  controller,   \* "off", "idle", "await" or "done"
  command,      \* the last line each controller sent
  commands,     \* lines sent by the controllers
  acked,        \* frequencies the controllers know to be set
  client,       \* "start", "request", "recv", "sleep" or "exited"
  clientRunning,\* d_running of the client
  requestedAt,  \* Len(freqOut) when the client sent its last request
  late,         \* whether a recv() of the client has timed out
  published     \* what the client published last

sockets == <<backlog, open, toServer, toPeer>>
serverVars == <<server, running, current, reportedFreq, freqOut>>
controllerVars == <<controller, command, commands, acked>>
clientVars == <<client, clientRunning, requestedAt, late, published>>
vars == <<rigctld, sockets, serverVars, controllerVars, clientVars>>

Peers == Controllers \cup {Client}

-----------------------------------------------------------------------------
(* Sockets, as the C library has them *)

IsListening == server \notin {"start", "exited"}

Connect(p) ==
  /\ backlog' = Append(backlog, p)
  /\ open' = open \cup {p}
  /\ UNCHANGED <<toServer, toPeer>>

SendToServer(p, line) ==
  toServer' = [toServer EXCEPT ![p] = IF p \in open THEN Append(@, line) ELSE @]

\* What a recv() that takes the first n lines leaves.
Behind(lines, n) == SubSeq(lines, n + 1, Len(lines))

-----------------------------------------------------------------------------
(* The server, rigctl_server *)

Line(cmd, freq) == [cmd |-> cmd, freq |-> freq]
Rprt(code) == [rprt |-> code, freq |-> 0, n |-> 0]
\* Faulty variant of FreqLine: the frequency set before the last one.
FreqLineBefore ==
  LET n == IF Len(freqOut) < 2 THEN Len(freqOut) ELSE Len(freqOut) - 1
  IN  [rprt |-> 1, freq |-> IF n = 0 THEN 0 ELSE freqOut[n], n |-> n]

FreqLine == [rprt |-> 1, freq |-> reportedFreq, n |-> Len(freqOut)]

Init ==
  /\ rigctld \in BOOLEAN
  /\ server = "start"
  /\ running = TRUE
  /\ current = {}
  /\ reportedFreq = 0
  /\ freqOut = <<>>
  /\ backlog = <<>>
  /\ open = {}
  /\ toServer = [p \in Peers |-> <<>>]
  /\ toPeer = [p \in Peers |-> <<>>]
  /\ controller = [c \in Controllers |-> "off"]
  /\ command = [c \in Controllers |-> Line("f", 0)]
  /\ commands = 0
  /\ acked = <<>>
  /\ client = "start"
  /\ clientRunning = TRUE
  /\ requestedAt = 0
  /\ late = FALSE
  /\ published = [freq |-> 0, n |-> 0, stale |-> FALSE]

Listen ==
  /\ server = "start"
  /\ server' = "loop"
  /\ UNCHANGED <<rigctld, running, current, reportedFreq, freqOut, sockets,
                 controllerVars, clientVars>>

\* d_running is looked at before accept() blocks.
BeginAccept ==
  /\ server = "loop"
  /\ running
  /\ server' = "accept"
  /\ UNCHANGED <<rigctld, running, current, reportedFreq, freqOut, sockets,
                 controllerVars, clientVars>>

\* exit() ends the process: all of its connections are closed.
Exit ==
  /\ server = "loop"
  /\ ~ running
  /\ server' = "exited"
  /\ backlog' = <<>>
  /\ open' = {}
  /\ toServer' = [p \in Peers |-> <<>>]
  /\ UNCHANGED <<rigctld, running, current, reportedFreq, freqOut, toPeer,
                 controllerVars, clientVars>>

\* One peer is served at a time, the others wait.
Accept ==
  /\ server = "accept"
  /\ backlog # <<>>
  /\ server' = "recv"
  /\ current' = {Head(backlog)}
  /\ backlog' = Tail(backlog)
  /\ UNCHANGED <<rigctld, running, reportedFreq, freqOut, open, toServer,
                 toPeer, controllerVars, clientVars>>

Answer(p, line) ==
  toPeer' = [toPeer EXCEPT ![p] = IF p \in open THEN Append(@, line) ELSE @]

NotSet == UNCHANGED <<reportedFreq, freqOut>>

\* Faulty variant of CarryOut: error_code is not set when there is no number.
CarryOutKeepsCode(p, line) ==
  \/ /\ line.cmd = "F" /\ line.freq # 0
     /\ reportedFreq' = line.freq
     /\ freqOut' = Append(freqOut, line.freq)
     /\ Answer(p, Rprt(0))
     /\ UNCHANGED running
  \/ /\ line.cmd = "F" /\ line.freq = 0
     /\ Answer(p, Rprt(0))
     /\ NotSet /\ UNCHANGED running
  \/ line.cmd = "f" /\ Answer(p, FreqLine) /\ NotSet /\ UNCHANGED running
  \/ line.cmd = "q" /\ Answer(p, Rprt(0)) /\ NotSet /\ running' = FALSE

\* The first of the lines that recv() returns is carried out.
CarryOut(p, line) ==
  \/ /\ line.cmd = "F" /\ line.freq # 0
     /\ reportedFreq' = line.freq
     /\ freqOut' = Append(freqOut, line.freq)
     /\ Answer(p, Rprt(0))
     /\ UNCHANGED running
  \/ /\ line.cmd = "F" /\ line.freq = 0
     /\ Answer(p, Rprt(-11))
     /\ NotSet /\ UNCHANGED running
  \/ line.cmd = "f" /\ Answer(p, FreqLine) /\ NotSet /\ UNCHANGED running
  \/ line.cmd = "q" /\ Answer(p, Rprt(0)) /\ NotSet /\ running' = FALSE
  \/ /\ line.cmd \notin {"F", "f", "q"}
     /\ Answer(p, Rprt(-11))
     /\ NotSet /\ UNCHANGED running

\* Of the n lines that recv() returns those behind the first are lost.
Serve(p, n) ==
  /\ server = "recv"
  /\ current = {p}
  /\ running
  /\ toServer' = [toServer EXCEPT ![p] = Behind(@, n)]
  /\ CarryOut(p, Head(toServer[p]))
  /\ UNCHANGED <<rigctld, server, current, backlog, open, controllerVars,
                 clientVars>>

\* Faulty variant of HangUp: lines that come after d_running is cleared are
\* passed over, and the thread goes on waiting for the peer to go.
HangUpSkipsLines(p) ==
  /\ server = "recv"
  /\ current = {p}
  /\ \/ /\ toServer[p] = <<>> /\ p \notin open
        /\ server' = "loop"
        /\ current' = {}
     \/ /\ toServer[p] # <<>> /\ ~ running
        /\ UNCHANGED <<server, current>>
  /\ toServer' = [toServer EXCEPT ![p] = <<>>]
  /\ UNCHANGED <<rigctld, running, reportedFreq, freqOut, backlog, open, toPeer,
                 controllerVars, clientVars>>

\* The peer is gone, or a line comes after d_running is cleared.
HangUp(p) ==
  /\ server = "recv"
  /\ current = {p}
  /\ \/ toServer[p] = <<>> /\ p \notin open
     \/ toServer[p] # <<>> /\ ~ running
  /\ server' = "loop"
  /\ current' = {}
  /\ open' = open \ {p}
  /\ toServer' = [toServer EXCEPT ![p] = <<>>]
  /\ UNCHANGED <<rigctld, running, reportedFreq, freqOut, backlog, toPeer,
                 controllerVars, clientVars>>

\* The destructor, which then waits for the thread to end.
StopServer ==
  /\ running
  /\ running' = FALSE
  /\ UNCHANGED <<rigctld, server, current, reportedFreq, freqOut, sockets,
                 controllerVars, clientVars>>

\* Somebody turns the rig that a rigctld controls.
Tune(f) ==
  /\ rigctld
  /\ commands < MaxCommands
  /\ commands' = commands + 1
  /\ reportedFreq' = f
  /\ freqOut' = Append(freqOut, f)
  /\ UNCHANGED <<rigctld, server, running, current, sockets, controller,
                 command, acked, clientVars>>

ServerStep ==
  \/ Listen \/ BeginAccept \/ Exit \/ Accept
  \/ \E p \in Peers : \/ \E n \in 1 .. Len(toServer[p]) : Serve(p, n)
                       \/ HangUp(p)

-----------------------------------------------------------------------------
(* The client, rigctl_client *)

ClientAt(from, to) == client = from /\ client' = to

\* A server that does not listen yet, or any more, ends the process.
ClientConnect ==
  /\ \/ IsListening /\ ClientAt("start", "loop") /\ Connect(Client)
     \/ ~ IsListening /\ ClientAt("start", "exited") /\ UNCHANGED sockets
  /\ UNCHANGED <<rigctld, clientRunning, requestedAt, late, published,
                 serverVars, controllerVars>>

\* request_freq_msg
Request ==
  /\ ClientAt("loop", "recv")
  /\ clientRunning
  /\ IF Len(toServer[Client]) < MaxPending
       THEN SendToServer(Client, Line("f", 0)) ELSE UNCHANGED toServer
  /\ requestedAt' = Len(freqOut)
  /\ UNCHANGED <<rigctld, backlog, open, toPeer, clientRunning, late,
                 published, serverVars, controllerVars>>

\* send_quit, and the end of the process
Quit ==
  /\ ClientAt("loop", "exited")
  /\ ~ clientRunning
  /\ SendToServer(Client, Line("q", 0))
  /\ open' = open \ {Client}
  /\ UNCHANGED <<rigctld, backlog, toPeer, clientRunning, requestedAt, late,
                 published, serverVars, controllerVars>>

\* Faulty variant of Recv: the last of the lines is taken, and only the first
\* of them is removed.
RecvLast(n) ==
  LET line == toPeer[Client][n]
  IN  /\ ClientAt("recv", "sleep")
      /\ toPeer' = [toPeer EXCEPT ![Client] = Tail(@)]
      /\ published' = IF line.freq = 0 THEN published
                      ELSE [freq |-> line.freq, n |-> line.n,
                            stale |-> line.n < requestedAt]
      /\ UNCHANGED <<rigctld, backlog, open, toServer, clientRunning,
                     requestedAt, late, serverVars, controllerVars>>

\* The number in the first of the lines is the frequency; 0 is none.
Recv(n) ==
  LET line == Head(toPeer[Client])
  IN  /\ ClientAt("recv", "sleep")
      /\ toPeer' = [toPeer EXCEPT ![Client] = Behind(@, n)]
      /\ published' = IF line.freq = 0 THEN published
                      ELSE [freq |-> line.freq, n |-> line.n,
                            stale |-> line.n < requestedAt]
      /\ UNCHANGED <<rigctld, backlog, open, toServer, clientRunning,
                     requestedAt, late, serverVars, controllerVars>>

\* Faulty variant of RecvNothing: no SO_RCVTIMEO.
RecvNothingUntimed ==
  /\ ClientAt("recv", "sleep")
  /\ toPeer[Client] = <<>>
  /\ Client \notin open
  /\ UNCHANGED <<rigctld, sockets, clientRunning, requestedAt, late, published,
                 serverVars, controllerVars>>

\* recv() fails after two seconds, or returns 0 on a closed connection.
RecvNothing ==
  /\ ClientAt("recv", "sleep")
  /\ toPeer[Client] = <<>>
  /\ late' = (late \/ Client \in open)
  /\ UNCHANGED <<rigctld, sockets, clientRunning, requestedAt, published,
                 serverVars, controllerVars>>

Wake ==
  /\ ClientAt("sleep", "loop")
  /\ UNCHANGED <<rigctld, sockets, clientRunning, requestedAt, late, published,
                 serverVars, controllerVars>>

\* The destructor of the client.
StopClient ==
  /\ clientRunning
  /\ clientRunning' = FALSE
  /\ UNCHANGED <<rigctld, sockets, client, requestedAt, late, published,
                 serverVars, controllerVars>>

ClientStep ==
  \/ ClientConnect \/ Request \/ Quit
  \/ \E n \in 1 .. Len(toPeer[Client]) : Recv(n)
  \/ RecvNothing \/ Wake

-----------------------------------------------------------------------------
(* The controllers: each waits for the answer to a line before the next *)

ControllerAt(c, from, to) ==
  /\ controller[c] = from
  /\ controller' = [controller EXCEPT ![c] = to]

ControllerConnects(c) ==
  /\ ~ rigctld
  /\ IsListening
  /\ ControllerAt(c, "off", "idle")
  /\ Connect(c)
  /\ UNCHANGED <<rigctld, command, commands, acked, serverVars, clientVars>>

Lines ==
  {Line("F", f) : f \in Freqs \cup {0}} \cup
  {Line(cmd, 0) : cmd \in {"f", "q", "x"}}

Commands(c, line) ==
  /\ commands < MaxCommands
  /\ ControllerAt(c, "idle", "await")
  /\ command' = [command EXCEPT ![c] = line]
  /\ commands' = commands + 1
  /\ SendToServer(c, line)
  /\ UNCHANGED <<rigctld, backlog, open, toPeer, acked, serverVars,
                 clientVars>>

HasAnswer(c) ==
  /\ toPeer[c] # <<>>
  /\ ControllerAt(c, "await", "idle")
  /\ toPeer' = [toPeer EXCEPT ![c] = Tail(@)]
  /\ acked' = IF command[c].cmd = "F" /\ Head(toPeer[c]).rprt = 0
                THEN Append(acked, command[c].freq) ELSE acked
  /\ UNCHANGED <<rigctld, backlog, open, toServer, command, commands,
                 serverVars, clientVars>>

FindsClosed(c) ==
  /\ toPeer[c] = <<>>
  /\ c \notin open
  /\ ControllerAt(c, "await", "done")
  /\ UNCHANGED <<rigctld, sockets, command, commands, acked, serverVars,
                 clientVars>>

Closes(c) ==
  /\ ControllerAt(c, "idle", "done")
  /\ open' = open \ {c}
  /\ UNCHANGED <<rigctld, backlog, toServer, toPeer, command, commands, acked,
                 serverVars, clientVars>>

Reads(c) == HasAnswer(c) \/ FindsClosed(c)

Next ==
  \/ ServerStep \/ StopServer
  \/ \E f \in Freqs : Tune(f)
  \/ ClientStep \/ StopClient
  \/ \E c \in Controllers :
       \/ ControllerConnects(c)
       \/ \E line \in Lines : Commands(c, line)
       \/ Reads(c)
       \/ Closes(c)

Spec == Init /\ [][Next]_vars

\* The threads run; a controller reads what it is sent.
FairSpec ==
  /\ Spec
  /\ WF_vars(ServerStep)
  /\ WF_vars(ClientStep)
  /\ \A c \in Controllers : WF_vars(Reads(c))

-----------------------------------------------------------------------------
(* Properties *)

\* What the server publishes are the frequencies the controllers were told are
\* set, in order, and the one whose answer is under way: whoever is served in
\* between, however many lines are read at once and whoever stops when.
FreqAsCommanded ==
  ~ rigctld => /\ IsPrefix(acked, freqOut)
               /\ Len(freqOut) <= Len(acked) + 1

\* What the client publishes was set at the server, and it never goes back to
\* what was set before, although answers come late and several at once.
ClientFollows ==
  [][ /\ published'.n >= published.n
      /\ published'.n > 0 => published'.freq = freqOut[published'.n] ]_published

\* Unless an answer came too late before, what the client publishes was set
\* when it asked for it, or later.
FreshUnlessLate == published.stale => late

\* The line of a controller that is served is answered, or its connection
\* closed, although the client may have the server stopped by its "q".
ServedAnswered ==
  \A c \in Controllers :
    (c \in current /\ controller[c] = "await") ~> controller[c] # "await"

\* The destructor of the client returns, although the server may never answer.
ClientStops == ~ clientRunning ~> client = "exited"
=============================================================================
