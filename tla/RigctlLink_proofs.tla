-------------------------- MODULE RigctlLink_proofs --------------------------
(***************************************************************************)
(* Proofs about the rigctl link for any number of controllers, any         *)
(* frequencies and any bounds: what the server publishes is what the       *)
(* controllers were told, what the client publishes follows it, and is     *)
(* not older than the request unless an answer came too late before.       *)
(***************************************************************************)
EXTENDS RigctlLink, SequenceTheorems, TLAPS

LOCAL INSTANCE SequencesExt

-----------------------------------------------------------------------------
(* The inductive invariant *)

FreqsOrNone == Freqs \cup {0}
Answers == [rprt : Int, freq : FreqsOrNone, n : Nat]

TypeOK ==
  /\ rigctld \in BOOLEAN
  /\ server \in {"start", "loop", "accept", "recv", "exited"}
  /\ running \in BOOLEAN
  /\ current \in SUBSET Peers
  /\ reportedFreq \in FreqsOrNone
  /\ freqOut \in Seq(FreqsOrNone)
  /\ backlog \in Seq(Peers)
  /\ open \in SUBSET Peers
  /\ toServer \in [Peers -> Seq(Lines)]
  /\ toPeer \in [Peers -> Seq(Answers)]
  /\ controller \in [Controllers -> {"off", "idle", "await", "done"}]
  /\ command \in [Controllers -> Lines]
  /\ acked \in Seq(FreqsOrNone)
  /\ client \in {"start", "loop", "recv", "sleep", "exited"}
  /\ clientRunning \in BOOLEAN
  /\ requestedAt \in 0 .. Len(freqOut)
  /\ late \in BOOLEAN
  /\ published \in [freq : FreqsOrNone, n : Nat, stale : BOOLEAN]

\* Nobody is served but by a thread in recv(), and then one peer.
OneServed ==
  current # {} => server = "recv" /\ \E p \in Peers : current = {p}

\* Between a controller and the server there is one line at most: its command,
\* or the answer to it, which it gets while it is being served.
OneLine ==
  \A c \in Controllers :
    /\ controller[c] # "await" => toServer[c] = <<>> /\ toPeer[c] = <<>>
    /\ c \notin open => toServer[c] = <<>>
    /\ toServer[c] # <<>> => toServer[c] = <<command[c]>> /\ toPeer[c] = <<>>
    /\ toPeer[c] # <<>> =>
         /\ Len(toPeer[c]) = 1
         /\ current = {c}
         /\ c \in open

\* A frequency is set and its controller has not read the answer yet.
Unacked(c) ==
  /\ toPeer[c] # <<>>
  /\ command[c].cmd = "F"
  /\ Head(toPeer[c]).rprt = 0

Commanded ==
  ~ rigctld =>
    \/ freqOut = acked /\ \A c \in Controllers : ~ Unacked(c)
    \/ \E c \in Controllers :
         Unacked(c) /\ freqOut = Append(acked, command[c].freq)

\* The client sets nothing.
ClientOnlyAsks ==
  \A k \in 1 .. Len(toServer[Client]) : toServer[Client][k].cmd # "F"

ReportedIsLast ==
  reportedFreq # 0 => freqOut # <<>> /\ freqOut[Len(freqOut)] = reportedFreq

\* The answers under way to the client name what was set at their time, in
\* order, and not before what it has published.
AnswersInOrder ==
  /\ published.n <= Len(freqOut)
  /\ \A k \in 1 .. Len(toPeer[Client]) :
       LET answer == toPeer[Client][k]
       IN  answer.freq # 0 =>
             /\ answer.n \in 1 .. Len(freqOut)
             /\ answer.freq = freqOut[answer.n]
             /\ answer.n >= published.n
             /\ \A j \in 1 .. k : toPeer[Client][j].freq # 0 =>
                                    toPeer[Client][j].n <= answer.n

\* As long as no answer was late there is one request or answer under way at
\* most, and the answer is to the last request.
NoneOld ==
  /\ client = "start" => /\ Client \notin open
                         /\ toServer[Client] = <<>> /\ toPeer[Client] = <<>>
  /\ ~ late =>
       /\ Client \in open =>
            Len(toServer[Client]) + Len(toPeer[Client])
              <= IF client = "recv" THEN 1 ELSE 0
       /\ Len(toPeer[Client]) <= IF client = "recv" THEN 1 ELSE 0
       /\ \A k \in 1 .. Len(toPeer[Client]) :
            toPeer[Client][k].freq # 0 => toPeer[Client][k].n >= requestedAt

Inv ==
  /\ TypeOK
  /\ OneServed
  /\ OneLine
  /\ Commanded
  /\ ClientOnlyAsks
  /\ ReportedIsLast
  /\ AnswersInOrder
  /\ NoneOld
  /\ FreshUnlessLate

-----------------------------------------------------------------------------
(* The initial states *)

LEMMA PeersFacts ==
  /\ Client \in Peers
  /\ \A c \in Controllers : c \in Peers /\ c # Client
BY ClientAssumption DEF Peers

LEMMA InitInv == Init => Inv
<1>. SUFFICES ASSUME Init PROVE Inv
  OBVIOUS
<1>1. TypeOK
  <2>1. <<>> \in Seq(FreqsOrNone) /\ <<>> \in Seq(Lines) /\ <<>> \in Seq(Answers)
        /\ <<>> \in Seq(Peers)
    OBVIOUS
  <2>2. Line("f", 0) \in Lines
    BY DEF Lines
  <2>3. 0 \in FreqsOrNone /\ 0 \in 0 .. Len(<<>>)
    BY DEF FreqsOrNone
  <2>. QED
    BY <2>1, <2>2, <2>3 DEF Init, TypeOK
<1>2. OneServed /\ OneLine
  BY PeersFacts DEF Init, OneServed, OneLine
<1>3. Commanded /\ ClientOnlyAsks /\ ReportedIsLast
  BY PeersFacts DEF Init, Commanded, Unacked, ClientOnlyAsks, ReportedIsLast
<1>4. AnswersInOrder /\ NoneOld /\ FreshUnlessLate
  BY PeersFacts DEF Init, AnswersInOrder, NoneOld, FreshUnlessLate
<1>. QED
  BY <1>1, <1>2, <1>3, <1>4 DEF Inv

-----------------------------------------------------------------------------
(* The steps of the server *)

\* A line sent to the server.
LEMMA SendEffect ==
  ASSUME TypeOK, NEW p \in Peers, NEW line \in Lines, SendToServer(p, line)
  PROVE  /\ toServer' \in [Peers -> Seq(Lines)]
         /\ \A q \in Peers \ {p} : toServer'[q] = toServer[q]
         /\ p \notin open => toServer'[p] = toServer[p]
         /\ p \in open =>
              /\ toServer'[p] = Append(toServer[p], line)
              /\ Len(toServer'[p]) = Len(toServer[p]) + 1
              /\ \A k \in 1 .. Len(toServer[p]) : toServer'[p][k] = toServer[p][k]
              /\ toServer'[p][Len(toServer[p]) + 1] = line
<1>. USE DEF SendToServer
<1>1. toServer \in [Peers -> Seq(Lines)] /\ toServer[p] \in Seq(Lines)
  BY DEF TypeOK
<1>2. /\ Append(toServer[p], line) \in Seq(Lines)
      /\ Len(Append(toServer[p], line)) = Len(toServer[p]) + 1
      /\ \A k \in 1 .. Len(toServer[p]) :
           Append(toServer[p], line)[k] = toServer[p][k]
      /\ Append(toServer[p], line)[Len(toServer[p]) + 1] = line
  BY <1>1, AppendProperties
<1>3. toServer' \in [Peers -> Seq(Lines)]
  BY <1>1, <1>2
<1>. QED
  BY <1>1, <1>2, <1>3

\* An answer sent to a peer.
LEMMA AnswerEffect ==
  ASSUME TypeOK, NEW p \in Peers, NEW line \in Answers, Answer(p, line)
  PROVE  /\ toPeer' \in [Peers -> Seq(Answers)]
         /\ \A q \in Peers \ {p} : toPeer'[q] = toPeer[q]
         /\ p \notin open => toPeer'[p] = toPeer[p]
         /\ p \in open =>
              /\ toPeer'[p] = Append(toPeer[p], line)
              /\ Len(toPeer'[p]) = Len(toPeer[p]) + 1
              /\ \A k \in 1 .. Len(toPeer[p]) : toPeer'[p][k] = toPeer[p][k]
              /\ toPeer'[p][Len(toPeer[p]) + 1] = line
<1>. USE DEF Answer
<1>1. toPeer \in [Peers -> Seq(Answers)] /\ toPeer[p] \in Seq(Answers)
  BY DEF TypeOK
<1>2. /\ Append(toPeer[p], line) \in Seq(Answers)
      /\ Len(Append(toPeer[p], line)) = Len(toPeer[p]) + 1
      /\ \A k \in 1 .. Len(toPeer[p]) : Append(toPeer[p], line)[k] = toPeer[p][k]
      /\ Append(toPeer[p], line)[Len(toPeer[p]) + 1] = line
  BY <1>1, AppendProperties
<1>3. toPeer' \in [Peers -> Seq(Answers)]
  BY <1>1, <1>2
<1>. QED
  BY <1>1, <1>2, <1>3

\* What is left of a sequence behind its first n elements.
LEMMA BehindProperties ==
  ASSUME NEW S, NEW lines \in Seq(S), NEW n \in 1 .. Len(lines)
  PROVE  /\ Behind(lines, n) \in Seq(S)
         /\ Len(Behind(lines, n)) = Len(lines) - n
         /\ \A k \in 1 .. Len(lines) - n : Behind(lines, n)[k] = lines[n + k]
<1>1. Len(lines) \in Nat /\ n + 1 \in Int /\ \A k \in n + 1 .. Len(lines) : lines[k] \in S
  BY LenProperties, ElementOfSeq
<1>2. /\ SubSeq(lines, n + 1, Len(lines)) \in Seq(S)
      /\ Len(SubSeq(lines, n + 1, Len(lines))) =
           IF n + 1 <= Len(lines) THEN Len(lines) - (n + 1) + 1 ELSE 0
      /\ \A k \in 1 .. Len(lines) - (n + 1) + 1 :
           SubSeq(lines, n + 1, Len(lines))[k] = lines[(n + 1) + k - 1]
  BY <1>1, SubSeqProperties
<1>. QED
  BY <1>1, <1>2 DEF Behind

\* One more frequency is set.
LEMMA SetEffect ==
  ASSUME TypeOK, NEW f \in FreqsOrNone, freqOut' = Append(freqOut, f)
  PROVE  /\ freqOut' \in Seq(FreqsOrNone)
         /\ Len(freqOut') = Len(freqOut) + 1
         /\ Len(freqOut) \in Nat
         /\ \A k \in 1 .. Len(freqOut) : freqOut'[k] = freqOut[k]
         /\ freqOut'[Len(freqOut')] = f
         /\ freqOut' # <<>>
         /\ requestedAt \in 0 .. Len(freqOut')
<1>1. freqOut \in Seq(FreqsOrNone) /\ requestedAt \in 0 .. Len(freqOut)
  BY DEF TypeOK
<1>. QED
  BY <1>1, AppendProperties, LenProperties

\* What is on the connection of the client.
LEMMA ClientLines ==
  ASSUME TypeOK
  PROVE  /\ toServer[Client] \in Seq(Lines) /\ Len(toServer[Client]) \in Nat
         /\ toPeer[Client] \in Seq(Answers) /\ Len(toPeer[Client]) \in Nat
         /\ toServer[Client] = <<>> <=> Len(toServer[Client]) = 0
         /\ toPeer[Client] = <<>> <=> Len(toPeer[Client]) = 0
         /\ Len(freqOut) \in Nat
BY PeersFacts, LenProperties, EmptySeq DEF TypeOK

LEMMA ClientAsks == Line("f", 0) \in Lines /\ Line("q", 0) \in Lines
BY DEF Lines

LEMMA ListenInv == Inv /\ Listen => Inv'
<1>. SUFFICES ASSUME Inv, Listen PROVE Inv'
  OBVIOUS
<1>. USE DEF Listen, sockets, controllerVars, clientVars
<1>1. TypeOK'
  BY DEF Inv, TypeOK
<1>2. OneServed' /\ OneLine'
  BY DEF Inv, OneServed, OneLine
<1>3. Commanded' /\ ClientOnlyAsks' /\ ReportedIsLast'
  BY DEF Inv, Commanded, Unacked, ClientOnlyAsks, ReportedIsLast
<1>4. AnswersInOrder' /\ NoneOld' /\ FreshUnlessLate'
  BY DEF Inv, AnswersInOrder, NoneOld, FreshUnlessLate
<1>. QED
  BY <1>1, <1>2, <1>3, <1>4 DEF Inv

LEMMA ExitInv == Inv /\ Exit => Inv'
<1>. SUFFICES ASSUME Inv, Exit PROVE Inv'
  OBVIOUS
<1>. USE PeersFacts DEF Exit, controllerVars, clientVars
<1>1. TypeOK'
  BY DEF Inv, TypeOK
<1>2. OneServed'
  BY DEF Inv, OneServed
<1>3. OneLine'
  BY DEF Inv, OneServed, OneLine
<1>4. Commanded'
  BY DEF Inv, Commanded, Unacked
<1>5. ClientOnlyAsks' /\ ReportedIsLast'
  BY DEF Inv, ClientOnlyAsks, ReportedIsLast
<1>6. AnswersInOrder' /\ NoneOld' /\ FreshUnlessLate'
  BY DEF Inv, AnswersInOrder, NoneOld, FreshUnlessLate
<1>. QED
  BY <1>1, <1>2, <1>3, <1>4, <1>5, <1>6 DEF Inv

LEMMA BeginAcceptInv ==
  ASSUME Inv, BeginAccept
  PROVE  Inv'
<1>. USE PeersFacts DEF BeginAccept, sockets, controllerVars, clientVars
<1>1. TypeOK'
  BY DEF Inv, TypeOK
<1>2. OneServed' /\ OneLine'
  BY DEF Inv, TypeOK, OneServed, OneLine
<1>3. Commanded' /\ ClientOnlyAsks' /\ ReportedIsLast'
  BY DEF Inv, TypeOK, Commanded, Unacked, ClientOnlyAsks, ReportedIsLast
<1>4. AnswersInOrder' /\ NoneOld' /\ FreshUnlessLate'
  BY DEF Inv, TypeOK, AnswersInOrder, NoneOld, FreshUnlessLate
<1>. QED
  BY <1>1, <1>2, <1>3, <1>4 DEF Inv

LEMMA StopServerInv ==
  ASSUME Inv, StopServer
  PROVE  Inv'
<1>. USE PeersFacts DEF StopServer, sockets, controllerVars, clientVars
<1>1. TypeOK'
  BY DEF Inv, TypeOK
<1>2. OneServed' /\ OneLine'
  BY DEF Inv, TypeOK, OneServed, OneLine
<1>3. Commanded' /\ ClientOnlyAsks' /\ ReportedIsLast'
  BY DEF Inv, TypeOK, Commanded, Unacked, ClientOnlyAsks, ReportedIsLast
<1>4. AnswersInOrder' /\ NoneOld' /\ FreshUnlessLate'
  BY DEF Inv, TypeOK, AnswersInOrder, NoneOld, FreshUnlessLate
<1>. QED
  BY <1>1, <1>2, <1>3, <1>4 DEF Inv

LEMMA HangUpInv ==
  ASSUME Inv, NEW p \in Peers, HangUp(p)
  PROVE  Inv'
<1>. USE PeersFacts DEF HangUp, controllerVars, clientVars
<1>1. TypeOK'
  BY DEF Inv, TypeOK
<1>2. OneServed' /\ OneLine'
  BY DEF Inv, TypeOK, OneServed, OneLine
<1>3. Commanded' /\ ClientOnlyAsks' /\ ReportedIsLast'
  BY DEF Inv, TypeOK, Commanded, Unacked, ClientOnlyAsks, ReportedIsLast
<1>4. AnswersInOrder' /\ NoneOld' /\ FreshUnlessLate'
  BY DEF Inv, TypeOK, AnswersInOrder, NoneOld, FreshUnlessLate
<1>. QED
  BY <1>1, <1>2, <1>3, <1>4 DEF Inv

LEMMA AcceptInv ==
  ASSUME Inv, Accept
  PROVE  Inv'
<1>. USE PeersFacts DEF Accept, controllerVars, clientVars
<1>1. TypeOK'
  BY DEF Inv, TypeOK
<1>2. OneServed' /\ OneLine'
  <2>1. Head(backlog) \in Peers
    BY DEF Inv, TypeOK
  <2>2. current = {}
    BY DEF Inv, OneServed
  <2>. QED
    BY <2>1, <2>2 DEF Inv, TypeOK, OneServed, OneLine
<1>3. Commanded' /\ ClientOnlyAsks' /\ ReportedIsLast'
  BY DEF Inv, TypeOK, Commanded, Unacked, ClientOnlyAsks, ReportedIsLast
<1>4. AnswersInOrder' /\ NoneOld' /\ FreshUnlessLate'
  BY DEF Inv, TypeOK, AnswersInOrder, NoneOld, FreshUnlessLate
<1>. QED
  BY <1>1, <1>2, <1>3, <1>4 DEF Inv

LEMMA TuneInv ==
  ASSUME Inv, NEW f \in Freqs, Tune(f)
  PROVE  Inv'
<1>. USE PeersFacts DEF Tune, sockets, clientVars
<1>1. TypeOK'
  <2>1. f \in FreqsOrNone
    BY DEF FreqsOrNone
  <2>. QED
    BY <2>1, SetEffect DEF Inv, TypeOK
<1>2. OneServed' /\ OneLine'
  BY DEF Inv, TypeOK, OneServed, OneLine
<1>3. Commanded' /\ ClientOnlyAsks' /\ ReportedIsLast'
  <2>1. f \in FreqsOrNone
    BY DEF FreqsOrNone
  <2>2. TypeOK
    BY DEF Inv
  <2>3. ReportedIsLast'
    BY <2>1, <2>2, SetEffect DEF ReportedIsLast
  <2>. QED
    BY <2>3 DEF Inv, Commanded, ClientOnlyAsks
<1>4. AnswersInOrder' /\ NoneOld' /\ FreshUnlessLate'
  <2>1. f \in FreqsOrNone
    BY DEF FreqsOrNone
  <2>2. TypeOK
    BY DEF Inv
  <2>3. AnswersInOrder'
    BY <2>1, <2>2, SetEffect DEF Inv, TypeOK, AnswersInOrder
  <2>. QED
    BY <2>3 DEF Inv, NoneOld, FreshUnlessLate
<1>. QED
  BY <1>1, <1>2, <1>3, <1>4 DEF Inv

\* A line that is carried out is answered. Either a frequency is set and the
\* answer is 0, or nothing is set and the answer to "F" is not 0; a frequency
\* in the answer is the last one set.
LEMMA CarryOutEffect ==
  ASSUME TypeOK, NEW p \in Peers, NEW line \in Lines, CarryOut(p, line)
  PROVE  /\ running' \in BOOLEAN
         /\ \E answer \in Answers :
              /\ Answer(p, answer)
              /\ \/ /\ line.cmd = "F" /\ line.freq # 0
                    /\ answer.rprt = 0 /\ answer.freq = 0
                    /\ reportedFreq' = line.freq
                    /\ freqOut' = Append(freqOut, line.freq)
                 \/ /\ NotSet
                    /\ line.cmd = "F" => answer.rprt # 0
                    /\ answer.freq # 0 =>
                         answer.freq = reportedFreq /\ answer.n = Len(freqOut)
<1>. DEFINE Carried(answer) ==
              /\ Answer(p, answer)
              /\ \/ /\ line.cmd = "F" /\ line.freq # 0
                    /\ answer.rprt = 0 /\ answer.freq = 0
                    /\ reportedFreq' = line.freq
                    /\ freqOut' = Append(freqOut, line.freq)
                 \/ /\ NotSet
                    /\ line.cmd = "F" => answer.rprt # 0
                    /\ answer.freq # 0 =>
                         answer.freq = reportedFreq /\ answer.n = Len(freqOut)
<1>1. Rprt(0) \in Answers /\ Rprt(-11) \in Answers
  BY DEF Rprt, Answers, FreqsOrNone
<1>2. FreqLine \in Answers
  BY LenProperties DEF FreqLine, Answers, TypeOK
<1>3. /\ Rprt(0).rprt = 0 /\ Rprt(0).freq = 0
      /\ Rprt(-11).rprt # 0 /\ Rprt(-11).freq = 0
      /\ FreqLine.freq = reportedFreq /\ FreqLine.n = Len(freqOut)
  BY DEF Rprt, FreqLine
<1>4. \/ Carried(Rprt(0)) \/ Carried(Rprt(-11)) \/ Carried(FreqLine)
  <2>1. CASE line.cmd = "F"
    BY <1>3, <2>1 DEF CarryOut
  <2>2. CASE line.cmd # "F"
    BY <1>3, <2>2 DEF CarryOut
  <2>. QED
    BY <2>1, <2>2
<1>5. \E answer \in Answers : Carried(answer)
  BY <1>1, <1>2, <1>4
<1>6. running' \in BOOLEAN
  BY DEF CarryOut, TypeOK
<1>. QED
  BY <1>5, <1>6

\* The lines that recv() takes from the connection of the peer.
LEMMA ServeTakes ==
  ASSUME TypeOK, NEW p \in Peers, NEW n \in 1 .. Len(toServer[p]), Serve(p, n)
  PROVE  /\ Head(toServer[p]) = toServer[p][1] /\ Head(toServer[p]) \in Lines
         /\ Len(toServer[p]) \in Nat /\ n \in Nat /\ 1 <= n /\ n <= Len(toServer[p])
         /\ toServer[p] # <<>>
         /\ toServer' \in [Peers -> Seq(Lines)]
         /\ \A q \in Peers \ {p} : toServer'[q] = toServer[q]
         /\ Len(toServer'[p]) = Len(toServer[p]) - n
         /\ \A k \in 1 .. Len(toServer[p]) - n : toServer'[p][k] = toServer[p][n + k]
<1>1. toServer \in [Peers -> Seq(Lines)] /\ toServer[p] \in Seq(Lines)
  BY DEF TypeOK
<1>2. Len(toServer[p]) \in Nat /\ n \in Nat /\ 1 <= n /\ n <= Len(toServer[p])
  BY <1>1, LenProperties
<1>3. toServer[p] # <<>>
  BY <1>1, <1>2, EmptySeq
<1>4. Head(toServer[p]) = toServer[p][1] /\ Head(toServer[p]) \in Lines
  BY <1>1, <1>3, HeadTailProperties
<1>5. toServer' = [toServer EXCEPT ![p] = Behind(toServer[p], n)]
  BY DEF Serve
<1>6. /\ Behind(toServer[p], n) \in Seq(Lines)
      /\ Len(Behind(toServer[p], n)) = Len(toServer[p]) - n
      /\ \A k \in 1 .. Len(toServer[p]) - n :
           Behind(toServer[p], n)[k] = toServer[p][n + k]
  BY <1>1, BehindProperties
<1>7. /\ toServer' \in [Peers -> Seq(Lines)]
      /\ toServer'[p] = Behind(toServer[p], n)
      /\ \A q \in Peers \ {p} : toServer'[q] = toServer[q]
  BY <1>1, <1>5, <1>6
<1>. QED
  BY <1>2, <1>3, <1>4, <1>6, <1>7

LEMMA ServeTypeOK ==
  ASSUME Inv, NEW p \in Peers, NEW n \in 1 .. Len(toServer[p]), Serve(p, n)
  PROVE  TypeOK' /\ OneServed'
<1>1. TypeOK
  BY DEF Inv
<1>2. Head(toServer[p]) \in Lines /\ toServer' \in [Peers -> Seq(Lines)]
  BY <1>1, ServeTakes
<1>3. CarryOut(p, Head(toServer[p]))
  BY DEF Serve
<1>4. PICK answer \in Answers :
        /\ Answer(p, answer)
        /\ \/ /\ reportedFreq' = Head(toServer[p]).freq
              /\ freqOut' = Append(freqOut, Head(toServer[p]).freq)
           \/ NotSet
  BY <1>1, <1>2, <1>3, CarryOutEffect
<1>5. running' \in BOOLEAN
  BY <1>1, <1>2, <1>3, CarryOutEffect
<1>6. toPeer' \in [Peers -> Seq(Answers)]
  BY <1>1, <1>4, AnswerEffect
<1>7. Head(toServer[p]).freq \in FreqsOrNone
  BY <1>2 DEF Lines, Line, FreqsOrNone
<1>8. /\ reportedFreq' \in FreqsOrNone /\ freqOut' \in Seq(FreqsOrNone)
      /\ requestedAt \in 0 .. Len(freqOut')
  BY <1>1, <1>4, <1>7, SetEffect DEF NotSet, TypeOK
<1>. USE DEF Serve, controllerVars, clientVars
<1>9. requestedAt' = requestedAt
  OBVIOUS
<1>10. TypeOK'
  BY <1>1, <1>2, <1>5, <1>6, <1>8, <1>9 DEF TypeOK
<1>11. OneServed'
  BY DEF Inv, OneServed
<1>. QED
  BY <1>10, <1>11

\* The client is served: it is told the last frequency, and sets none.
LEMMA ServeClientInv ==
  ASSUME Inv, NEW n \in 1 .. Len(toServer[Client]), Serve(Client, n)
  PROVE  Inv'
<1>. DEFINE line == Head(toServer[Client])
            wait == toServer[Client]
            lines == toPeer[Client]
<1>1. TypeOK /\ Client \in Peers
  BY PeersFacts DEF Inv
<1>2. /\ line = wait[1] /\ line \in Lines
      /\ Len(wait) \in Nat /\ n \in Nat /\ 1 <= n /\ n <= Len(wait) /\ wait # <<>>
      /\ \A q \in Peers \ {Client} : toServer'[q] = toServer[q]
      /\ Len(toServer'[Client]) = Len(wait) - n
      /\ \A k \in 1 .. Len(wait) - n : toServer'[Client][k] = wait[n + k]
  BY <1>1, ServeTakes
<1>3. line.cmd # "F"
  BY <1>2 DEF Inv, ClientOnlyAsks
<1>4. CarryOut(Client, line)
  BY DEF Serve
<1>5. PICK answer \in Answers :
        /\ Answer(Client, answer)
        /\ NotSet
        /\ answer.freq # 0 =>
             answer.freq = reportedFreq /\ answer.n = Len(freqOut)
  BY <1>1, <1>2, <1>3, <1>4, CarryOutEffect
<1>6. /\ \A q \in Peers \ {Client} : toPeer'[q] = toPeer[q]
      /\ Client \notin open => toPeer'[Client] = lines
      /\ Client \in open =>
           /\ Len(toPeer'[Client]) = Len(lines) + 1
           /\ \A k \in 1 .. Len(lines) : toPeer'[Client][k] = lines[k]
           /\ toPeer'[Client][Len(lines) + 1] = answer
  BY <1>1, <1>5, AnswerEffect
<1>7. /\ current = {Client} /\ current' = current /\ open' = open
      /\ client' = client /\ late' = late /\ published' = published
      /\ requestedAt' = requestedAt /\ controller' = controller
      /\ command' = command /\ acked' = acked /\ rigctld' = rigctld
      /\ freqOut' = freqOut /\ reportedFreq' = reportedFreq
  BY <1>5 DEF Serve, NotSet, controllerVars, clientVars
<1>8. \A c \in Controllers : toServer'[c] = toServer[c] /\ toPeer'[c] = toPeer[c]
  BY <1>2, <1>6, PeersFacts
<1>9. TypeOK' /\ OneServed'
  BY <1>1, ServeTypeOK
<1>. HIDE DEF line, wait, lines
<1>10. OneLine'
  BY <1>7, <1>8 DEF Inv, OneLine
<1>11. Commanded' /\ ReportedIsLast' /\ FreshUnlessLate'
  BY <1>7, <1>8 DEF Inv, Commanded, Unacked, ReportedIsLast, FreshUnlessLate
<1>12. ClientOnlyAsks'
  <2>1. SUFFICES ASSUME NEW k \in 1 .. Len(toServer'[Client])
                 PROVE  toServer'[Client][k].cmd # "F"
    BY DEF ClientOnlyAsks
  <2>2. k \in 1 .. Len(wait) - n /\ n + k \in 1 .. Len(wait)
    BY <1>2, <2>1
  <2>3. toServer'[Client][k] = wait[n + k]
    BY <1>2, <2>2
  <2>. QED
    BY <2>2, <2>3 DEF Inv, ClientOnlyAsks, wait
<1>13. /\ Len(lines) \in Nat /\ Len(freqOut) \in Nat /\ published.n \in Nat
       /\ requestedAt \in 0 .. Len(freqOut)
       /\ \A k \in 1 .. Len(lines) : lines[k] \in Answers
  BY <1>1, ClientLines, ElementOfSeq DEF TypeOK, lines
<1>14. /\ published.n <= Len(freqOut)
       /\ \A k \in 1 .. Len(lines) : lines[k].freq # 0 =>
             /\ lines[k].n \in 1 .. Len(freqOut)
             /\ lines[k].freq = freqOut[lines[k].n]
             /\ lines[k].n >= published.n
             /\ \A j \in 1 .. k : lines[j].freq # 0 => lines[j].n <= lines[k].n
  BY DEF Inv, AnswersInOrder, lines
<1>15. answer.freq # 0 =>
         /\ answer.n = Len(freqOut) /\ answer.n \in 1 .. Len(freqOut)
         /\ answer.freq = freqOut[answer.n]
  <2>1. reportedFreq # 0 => freqOut # <<>> /\ freqOut[Len(freqOut)] = reportedFreq
    BY DEF Inv, ReportedIsLast
  <2>2. freqOut # <<>> => Len(freqOut) \in 1 .. Len(freqOut)
    BY <1>1, <1>13, EmptySeq DEF TypeOK
  <2>. QED
    BY <1>5, <2>1, <2>2
<1>16. AnswersInOrder'
  <2>1. CASE Client \notin open
    BY <1>6, <1>7, <1>14, <2>1 DEF AnswersInOrder
  <2>2. CASE Client \in open
    <3>1. SUFFICES ASSUME NEW k \in 1 .. Len(lines) + 1,
                          toPeer'[Client][k].freq # 0
                   PROVE  /\ toPeer'[Client][k].n \in 1 .. Len(freqOut)
                          /\ toPeer'[Client][k].freq = freqOut[toPeer'[Client][k].n]
                          /\ toPeer'[Client][k].n >= published.n
                          /\ \A j \in 1 .. k : toPeer'[Client][j].freq # 0 =>
                               toPeer'[Client][j].n <= toPeer'[Client][k].n
      BY <1>6, <1>7, <1>14, <2>2 DEF AnswersInOrder
    <3>2. CASE k \in 1 .. Len(lines)
      <4>1. \A j \in 1 .. k : j \in 1 .. Len(lines) /\ toPeer'[Client][j] = lines[j]
        BY <1>6, <1>13, <2>2, <3>2
      <4>2. toPeer'[Client][k] = lines[k]
        BY <1>6, <2>2, <3>2
      <4>. QED
        BY <1>14, <3>1, <3>2, <4>1, <4>2
    <3>3. CASE k = Len(lines) + 1
      <4>1. toPeer'[Client][k] = answer
        BY <1>6, <2>2, <3>3
      <4>2. \A j \in 1 .. Len(lines) : toPeer'[Client][j].freq # 0 =>
              toPeer'[Client][j].n <= Len(freqOut)
        BY <1>6, <1>14, <1>13, <2>2
      <4>3. \A j \in 1 .. k : j \in 1 .. Len(lines) \/ j = k
        BY <1>13, <3>3
      <4>4. answer.n = Len(freqOut) /\ answer.n \in 1 .. Len(freqOut)
            /\ answer.freq = freqOut[answer.n]
        BY <1>15, <3>1, <4>1
      <4>5. answer.n >= published.n /\ answer.n <= answer.n
        BY <1>13, <1>14, <4>4
      <4>6. \A j \in 1 .. k : toPeer'[Client][j].freq # 0 =>
              toPeer'[Client][j].n <= answer.n
        BY <4>1, <4>2, <4>3, <4>4, <4>5
      <4>. QED
        BY <4>1, <4>4, <4>5, <4>6
    <3>. QED
      BY <1>13, <3>2, <3>3
  <2>. QED
    BY <2>1, <2>2
<1>17. NoneOld'
  <2>1. client # "start"
    BY <1>2 DEF Inv, NoneOld, wait
  <2>2. SUFFICES ASSUME ~ late' PROVE NoneOld'
    BY <1>7, <2>1 DEF NoneOld
  <2>3. ~ late
    BY <1>7, <2>2
  <2>4. /\ Len(lines) <= IF client = "recv" THEN 1 ELSE 0
        /\ Client \in open =>
             Len(wait) + Len(lines) <= IF client = "recv" THEN 1 ELSE 0
        /\ \A k \in 1 .. Len(lines) : lines[k].freq # 0 => lines[k].n >= requestedAt
    BY <2>3 DEF Inv, NoneOld, wait, lines
  <2>5. CASE Client \notin open
    BY <1>6, <1>7, <2>1, <2>4, <2>5 DEF NoneOld
  <2>6. CASE Client \in open
    <3>1. client = "recv" /\ Len(lines) <= 0 /\ Len(wait) <= 1
      BY <1>2, <1>13, <2>4, <2>6
    <3>2. Len(toPeer'[Client]) <= 1 /\ Len(toServer'[Client]) <= 0
      BY <1>2, <1>6, <1>13, <2>6, <3>1
    <3>3. Len(toPeer'[Client]) \in Nat /\ Len(toServer'[Client]) \in Nat
      BY <1>2, <1>6, <1>13, <2>6
    <3>4. \A a, b \in Nat : a <= 0 /\ b <= 1 => a + b <= 1
      OBVIOUS
    <3>5. Len(toServer'[Client]) + Len(toPeer'[Client]) <= 1
      BY <3>2, <3>3, <3>4
    <3>6. ASSUME NEW k \in 1 .. Len(toPeer'[Client]),
                 toPeer'[Client][k].freq # 0
          PROVE  toPeer'[Client][k].n >= requestedAt'
      <4>1. k = Len(lines) + 1
        BY <1>13, <3>1, <3>2, <3>3, <3>6
      <4>2. toPeer'[Client][k] = answer
        BY <1>6, <2>6, <4>1
      <4>. QED
        BY <1>7, <1>13, <1>15, <3>6, <4>2
    <3>7. client' = "recv"
      BY <1>7, <3>1
    <3>. QED
      BY <2>6, <3>2, <3>5, <3>6, <3>7 DEF NoneOld
  <2>. QED
    BY <2>5, <2>6
<1>. QED
  BY <1>9, <1>10, <1>11, <1>12, <1>16, <1>17 DEF Inv

\* A controller is served: nobody else has an answer to read, so what it sets
\* is the one frequency that is not acknowledged.
LEMMA ServeControllerInv ==
  ASSUME Inv, NEW c \in Controllers, NEW n \in 1 .. Len(toServer[c]), Serve(c, n)
  PROVE  Inv'
<1>. DEFINE line == Head(toServer[c])
<1>1. TypeOK /\ c \in Peers /\ c # Client /\ Client \in Peers
  BY PeersFacts DEF Inv
<1>2. /\ line = toServer[c][1] /\ line \in Lines
      /\ Len(toServer[c]) \in Nat /\ n \in Nat /\ 1 <= n /\ n <= Len(toServer[c])
      /\ toServer[c] # <<>>
      /\ toServer' \in [Peers -> Seq(Lines)]
      /\ \A q \in Peers \ {c} : toServer'[q] = toServer[q]
      /\ Len(toServer'[c]) = Len(toServer[c]) - n
  BY <1>1, ServeTakes
<1>3. /\ toServer[c] = <<command[c]>> /\ toPeer[c] = <<>> /\ c \in open
      /\ controller[c] = "await"
  BY <1>2 DEF Inv, OneLine
<1>4. line = command[c]
  BY <1>2, <1>3
<1>5. toServer'[c] = <<>>
  <2>1. Len(toServer[c]) <= 1
    BY <1>3
  <2>2. Len(toServer'[c]) = 0
    BY <1>2, <2>1
  <2>. QED
    BY <1>1, <1>2, <2>2, EmptySeq
<1>6. CarryOut(c, line) /\ line.freq \in FreqsOrNone
  BY <1>2 DEF Serve, Lines, Line, FreqsOrNone
<1>7. PICK answer \in Answers :
        /\ Answer(c, answer)
        /\ \/ /\ line.cmd = "F" /\ line.freq # 0
              /\ answer.rprt = 0 /\ answer.freq = 0
              /\ reportedFreq' = line.freq
              /\ freqOut' = Append(freqOut, line.freq)
           \/ /\ NotSet
              /\ line.cmd = "F" => answer.rprt # 0
              /\ answer.freq # 0 =>
                   answer.freq = reportedFreq /\ answer.n = Len(freqOut)
  BY <1>1, <1>2, <1>6, CarryOutEffect
<1>8. /\ \A q \in Peers \ {c} : toPeer'[q] = toPeer[q]
      /\ toPeer'[c] = <<answer>>
  <2>1. Append(<<>>, answer) = <<answer>>
    OBVIOUS
  <2>. QED
    BY <1>1, <1>3, <1>7, <2>1, AnswerEffect
<1>9. /\ current = {c} /\ current' = current /\ open' = open
      /\ client' = client /\ late' = late /\ published' = published
      /\ requestedAt' = requestedAt /\ controller' = controller
      /\ command' = command /\ acked' = acked /\ rigctld' = rigctld
  BY DEF Serve, controllerVars, clientVars
<1>10. /\ toServer'[Client] = toServer[Client] /\ toPeer'[Client] = toPeer[Client]
       /\ \A d \in Controllers \ {c} :
            toServer'[d] = toServer[d] /\ toPeer'[d] = toPeer[d]
  BY <1>1, <1>2, <1>8, PeersFacts
<1>11. \A d \in Controllers : toPeer[d] = <<>>
  BY <1>3, <1>9 DEF Inv, OneLine
<1>12. TypeOK' /\ OneServed'
  BY <1>1, ServeTypeOK
<1>. HIDE DEF line
<1>13. OneLine'
  <2>1. SUFFICES ASSUME NEW d \in Controllers
          PROVE  /\ controller'[d] # "await" => toServer'[d] = <<>> /\ toPeer'[d] = <<>>
                 /\ d \notin open' => toServer'[d] = <<>>
                 /\ toServer'[d] # <<>> =>
                      toServer'[d] = <<command'[d]>> /\ toPeer'[d] = <<>>
                 /\ toPeer'[d] # <<>> => /\ Len(toPeer'[d]) = 1
                                         /\ current' = {d}
                                         /\ d \in open'
    BY DEF OneLine
  <2>2. CASE d = c
    <3>1. Len(toPeer'[c]) = 1
      BY <1>8
    <3>. QED
      BY <1>3, <1>5, <1>9, <2>2, <3>1
  <2>3. CASE d # c
    BY <1>9, <1>10, <1>11, <2>3 DEF Inv, OneLine
  <2>. QED
    BY <2>2, <2>3
<1>14. Commanded'
  <2>1. \A d \in Controllers : ~ Unacked(d)
    BY <1>11 DEF Unacked
  <2>2. \A d \in Controllers \ {c} : ~ Unacked(d)'
    BY <1>10, <1>11 DEF Unacked
  <2>3. Unacked(c)' <=> line.cmd = "F" /\ answer.rprt = 0
    <3>1. toPeer'[c] # <<>> /\ Head(toPeer'[c]) = answer
      BY <1>8
    <3>. QED
      BY <1>4, <1>9, <3>1 DEF Unacked
  <2>4. ~ rigctld => freqOut = acked
    BY <2>1 DEF Inv, Commanded
  <2>5. CASE NotSet /\ (line.cmd = "F" => answer.rprt # 0)
    BY <1>9, <2>2, <2>3, <2>4, <2>5 DEF Commanded, NotSet
  <2>6. CASE line.cmd = "F" /\ answer.rprt = 0 /\ freqOut' = Append(freqOut, line.freq)
    BY <1>4, <1>9, <2>3, <2>4, <2>6 DEF Commanded
  <2>. QED
    BY <1>7, <2>5, <2>6
<1>15. ClientOnlyAsks'
  BY <1>10 DEF Inv, ClientOnlyAsks
<1>16. /\ Len(freqOut') \in Nat /\ Len(freqOut) \in Nat /\ Len(freqOut) <= Len(freqOut')
       /\ \A k \in 1 .. Len(freqOut) : freqOut'[k] = freqOut[k]
       /\ reportedFreq' # 0 => freqOut' # <<>> /\ freqOut'[Len(freqOut')] = reportedFreq'
  <2>1. Len(freqOut) \in Nat
    BY <1>1, LenProperties DEF TypeOK
  <2>2. CASE NotSet
    BY <2>1, <2>2 DEF Inv, ReportedIsLast, NotSet
  <2>3. CASE reportedFreq' = line.freq /\ freqOut' = Append(freqOut, line.freq)
    <3>1. /\ freqOut' # <<>> /\ Len(freqOut') = Len(freqOut) + 1
          /\ \A k \in 1 .. Len(freqOut) : freqOut'[k] = freqOut[k]
          /\ freqOut'[Len(freqOut')] = line.freq
      BY <1>1, <1>6, <2>3, SetEffect
    <3>. QED
      BY <2>1, <2>3, <3>1
  <2>. QED
    BY <1>7, <2>2, <2>3
<1>17. ReportedIsLast'
  BY <1>16 DEF ReportedIsLast
<1>18. AnswersInOrder'
  <2>1. published.n \in Nat
    BY <1>1 DEF TypeOK
  <2>2. published'.n <= Len(freqOut')
    BY <1>9, <1>16, <2>1 DEF Inv, AnswersInOrder
  <2>3. \A i \in 1 .. Len(freqOut) : i \in 1 .. Len(freqOut') /\ freqOut'[i] = freqOut[i]
    BY <1>16
  <2>. QED
    BY <1>9, <1>10, <2>2, <2>3 DEF Inv, AnswersInOrder
<1>19. NoneOld' /\ FreshUnlessLate'
  BY <1>9, <1>10 DEF Inv, NoneOld, FreshUnlessLate
<1>. QED
  BY <1>12, <1>13, <1>14, <1>15, <1>17, <1>18, <1>19 DEF Inv

-----------------------------------------------------------------------------
(* The steps of the client *)

LEMMA ClientConnectInv ==
  ASSUME Inv, ClientConnect
  PROVE  Inv'
<1>. USE PeersFacts DEF ClientConnect, ClientAt, Connect, sockets, controllerVars, serverVars
<1>1. TypeOK'
  <2>1. CASE IsListening
    <3>1. backlog' = Append(backlog, Client) /\ open' = open \cup {Client}
      BY <2>1
    <3>2. backlog \in Seq(Peers) /\ Client \in Peers
      BY DEF Inv, TypeOK
    <3>3. backlog' \in Seq(Peers)
      BY <3>1, <3>2, AppendProperties
    <3>. QED
      BY <2>1, <3>3 DEF Inv, TypeOK
  <2>2. CASE ~ IsListening
    BY <2>2 DEF Inv, TypeOK
  <2>. QED
    BY <2>1, <2>2
<1>2. OneServed' /\ OneLine'
  BY DEF Inv, TypeOK, OneServed, OneLine
<1>3. Commanded' /\ ClientOnlyAsks' /\ ReportedIsLast'
  BY DEF Inv, TypeOK, Commanded, Unacked, ClientOnlyAsks, ReportedIsLast
<1>4. AnswersInOrder' /\ NoneOld' /\ FreshUnlessLate'
  <2>1. AnswersInOrder' /\ FreshUnlessLate'
    BY DEF Inv, AnswersInOrder, FreshUnlessLate
  <2>2. toServer'[Client] = <<>> /\ toPeer'[Client] = <<>> /\ client' # "start"
        /\ client' # "recv"
    BY DEF Inv, NoneOld
  <2>3. NoneOld'
    BY <2>2 DEF NoneOld
  <2>. QED
    BY <2>1, <2>3
<1>. QED
  BY <1>1, <1>2, <1>3, <1>4 DEF Inv

LEMMA RequestInv ==
  ASSUME Inv, Request
  PROVE  Inv'
<1>. USE PeersFacts DEF Request, ClientAt, SendToServer, controllerVars, serverVars
<1>1. TypeOK'
  <2>1. toServer' \in [Peers -> Seq(Lines)]
    BY SendEffect, ClientAsks DEF Inv, TypeOK
  <2>2. requestedAt' \in 0 .. Len(freqOut')
    BY ClientLines DEF Inv
  <2>. QED
    BY <2>1, <2>2 DEF Inv, TypeOK
<1>2. OneServed' /\ OneLine'
  BY DEF Inv, TypeOK, OneServed, OneLine
<1>3. Commanded' /\ ClientOnlyAsks' /\ ReportedIsLast'
  <2>1. ClientOnlyAsks'
    <3>1. SendToServer(Client, Line("f", 0)) => ClientOnlyAsks'
      BY SendEffect, ClientAsks, ClientLines DEF Inv, ClientOnlyAsks, Line
    <3>. QED
      BY <3>1 DEF Inv, ClientOnlyAsks
  <2>. QED
    BY <2>1 DEF Inv, Commanded, Unacked, ReportedIsLast
<1>4. AnswersInOrder' /\ NoneOld' /\ FreshUnlessLate'
  BY DEF Inv, TypeOK, AnswersInOrder, NoneOld, FreshUnlessLate
<1>. QED
  BY <1>1, <1>2, <1>3, <1>4 DEF Inv

LEMMA QuitInv ==
  ASSUME Inv, Quit
  PROVE  Inv'
<1>. USE PeersFacts DEF Quit, ClientAt, SendToServer, controllerVars, serverVars
<1>1. TypeOK'
  <2>1. toServer' \in [Peers -> Seq(Lines)]
    BY SendEffect, ClientAsks DEF Inv, TypeOK
  <2>. QED
    BY <2>1 DEF Inv, TypeOK
<1>2. OneServed' /\ OneLine'
  BY DEF Inv, TypeOK, OneServed, OneLine
<1>3. Commanded' /\ ClientOnlyAsks' /\ ReportedIsLast'
  <2>1. ClientOnlyAsks'
    <3>1. SendToServer(Client, Line("q", 0)) => ClientOnlyAsks'
      BY SendEffect, ClientAsks, ClientLines DEF Inv, ClientOnlyAsks, Line
    <3>. QED
      BY <3>1 DEF Inv, ClientOnlyAsks
  <2>. QED
    BY <2>1 DEF Inv, Commanded, Unacked, ReportedIsLast
<1>4. AnswersInOrder' /\ NoneOld' /\ FreshUnlessLate'
  BY DEF Inv, TypeOK, AnswersInOrder, NoneOld, FreshUnlessLate
<1>. QED
  BY <1>1, <1>2, <1>3, <1>4 DEF Inv

LEMMA RecvInv ==
  ASSUME Inv, NEW n \in 1 .. Len(toPeer[Client]), Recv(n)
  PROVE  Inv'
<1>. USE PeersFacts DEF Recv, ClientAt, controllerVars, serverVars
<1>1. TypeOK'
  <2>1. toPeer[Client] \in Seq(Answers) /\ Head(toPeer[Client]) \in Answers
    BY ClientLines, HeadTailProperties DEF Inv
  <2>2. toPeer' \in [Peers -> Seq(Answers)]
    BY <2>1, BehindProperties DEF Inv, TypeOK
  <2>3. published' \in [freq : FreqsOrNone, n : Nat, stale : BOOLEAN]
    BY <2>1 DEF Inv, TypeOK, Answers
  <2>. QED
    BY <2>2, <2>3 DEF Inv, TypeOK
<1>2. OneServed' /\ OneLine'
  BY DEF Inv, TypeOK, OneServed, OneLine
<1>3. Commanded' /\ ClientOnlyAsks' /\ ReportedIsLast'
  BY DEF Inv, TypeOK, Commanded, Unacked, ClientOnlyAsks, ReportedIsLast
<1>4. AnswersInOrder' /\ NoneOld' /\ FreshUnlessLate'
  <2>. DEFINE lines == toPeer[Client]
              rest == Behind(lines, n)
  <2>1. /\ lines \in Seq(Answers) /\ Len(lines) \in Nat \ {0}
        /\ Head(lines) = lines[1] /\ lines[1] \in Answers
    BY ClientLines DEF Inv
  <2>2. toPeer'[Client] = rest
    BY DEF Inv, TypeOK
  <2>3. /\ rest \in Seq(Answers) /\ Len(rest) = Len(lines) - n
        /\ \A k \in 1 .. Len(lines) - n : rest[k] = lines[n + k]
    BY <2>1, BehindProperties
  <2>4. \A k \in 1 .. Len(rest) :
          n + k \in 1 .. Len(lines) /\ rest[k] = lines[n + k] /\ rest[k] \in Answers
    <3>1. n \in Nat \ {0} /\ n <= Len(lines)
      BY <2>1
    <3>. HIDE DEF lines, rest
    <3>. QED
      BY <2>1, <2>3, <3>1, ElementOfSeq
  <2>a. n \in Nat \ {0} /\ n <= Len(lines)
    BY <2>1
  <2>. HIDE DEF lines, rest
  <2>5. AnswersInOrder'
    <3>1. published'.n <= Len(freqOut)
      BY <2>1 DEF Inv, AnswersInOrder, lines
    <3>2. ASSUME NEW k \in 1 .. Len(rest), rest[k].freq # 0
          PROVE  /\ rest[k].n \in 1 .. Len(freqOut)
                 /\ rest[k].freq = freqOut[rest[k].n]
                 /\ rest[k].n >= published'.n
                 /\ \A j \in 1 .. k : rest[j].freq # 0 => rest[j].n <= rest[k].n
      <4>1. /\ rest[k].n \in 1 .. Len(freqOut)
            /\ rest[k].freq = freqOut[rest[k].n]
            /\ rest[k].n >= published.n
            /\ \A j \in 1 .. n + k : lines[j].freq # 0 => lines[j].n <= rest[k].n
        BY <2>1, <2>4, <3>2 DEF Inv, AnswersInOrder, lines
      <4>2. rest[k].n >= published'.n
        BY <2>1, <4>1 DEF lines
      <4>3. \A j \in 1 .. k : rest[j] = lines[n + j] /\ n + j \in 1 .. n + k
        <5>1. Len(rest) \in Nat /\ k \in Nat /\ k <= Len(rest)
          BY <2>1, <2>3, <2>a, <3>2
        <5>2. SUFFICES ASSUME NEW j \in 1 .. k
                       PROVE  rest[j] = lines[n + j] /\ n + j \in 1 .. n + k
          OBVIOUS
        <5>3. j \in 1 .. Len(rest)
          BY <5>1
        <5>4. n + j \in 1 .. n + k
          BY <2>a, <5>1
        <5>. QED
          BY <2>4, <5>3, <5>4
      <4>. QED
        BY <4>1, <4>2, <4>3
    <3>. QED
      BY <2>2, <3>1, <3>2 DEF AnswersInOrder
  <2>6. ASSUME ~ late PROVE Len(lines) <= 1 /\ Len(rest) <= 0
    <3>1. Len(lines) <= 1
      BY <2>6 DEF Inv, NoneOld, lines
    <3>2. Len(lines) \in Nat /\ 1 <= Len(lines)
      BY <2>1
    <3>3. n = 1
      BY <2>a, <3>1, <3>2
    <3>. QED
      BY <2>3, <3>1, <3>2, <3>3
  <2>7. FreshUnlessLate'
    <3>1. ~ late /\ lines[1].freq # 0 => lines[1].n >= requestedAt
      BY <2>1 DEF Inv, NoneOld, lines
    <3>2. lines[1].n \in Nat /\ requestedAt \in Nat
      <4>1. lines[1] \in Answers
        BY <2>1, ClientLines DEF Inv, lines
      <4>2. lines[1].n \in Nat
        BY <4>1 DEF Answers
      <4>. QED
        BY <4>2 DEF Inv, TypeOK
    <3>3. published'.stale => published.stale \/ (lines[1].freq # 0 /\ lines[1].n < requestedAt)
      BY <2>1 DEF lines
    <3>. QED
      BY <3>1, <3>2, <3>3 DEF Inv, FreshUnlessLate
  <2>8. NoneOld'
    <3>1. late' = late /\ client' = "sleep" /\ toServer' = toServer /\ open' = open
      OBVIOUS
    <3>2. client' # "start" /\ client' # "recv"
      BY <3>1
    <3>a. SUFFICES ASSUME ~ late' PROVE NoneOld'
      BY <3>2 DEF NoneOld
    <3>3. ~ late
      BY <3>1, <3>a
    <3>4. Len(toPeer'[Client]) <= 0
      BY <2>2, <2>6, <3>3
    <3>5. Client \in open' => Len(toServer'[Client]) <= 0
      <4>. SUFFICES ASSUME Client \in open' PROVE Len(toServer'[Client]) <= 0
        OBVIOUS
      <4>1. Len(toServer[Client]) + Len(lines) <= 1
        BY <3>1, <3>3 DEF Inv, NoneOld, lines
      <4>2. Len(toServer[Client]) \in Nat /\ Len(lines) \in Nat /\ 1 <= Len(lines)
        BY <2>1, ClientLines DEF Inv
      <4>. QED
        BY <3>1, <4>1, <4>2
    <3>6. Client \in open' =>
            Len(toServer'[Client]) + Len(toPeer'[Client])
              <= IF client' = "recv" THEN 1 ELSE 0
      <4>1. Len(toServer'[Client]) \in Nat /\ Len(toPeer'[Client]) \in Nat
        BY <2>2, <2>3, <3>1, ClientLines DEF Inv
      <4>. SUFFICES ASSUME Client \in open'
                    PROVE  Len(toServer'[Client]) + Len(toPeer'[Client]) <= 0
        BY <3>2
      <4>2. Len(toServer'[Client]) <= 0
        BY <3>5
      <4>3. \A a, b \in Nat : a <= 0 /\ b <= 0 => a + b <= 0
        OBVIOUS
      <4>. HIDE DEF Recv
      <4>. QED
        BY <3>4, <4>1, <4>2, <4>3
    <3>7. \A k \in 1 .. Len(toPeer'[Client]) : FALSE
      <4>1. Len(toPeer'[Client]) \in Nat
        BY <2>2, <2>3
      <4>. QED
        BY <3>4, <4>1
    <3>8. Len(toPeer'[Client]) <= IF client' = "recv" THEN 1 ELSE 0
      BY <3>2, <3>4
    <3>. HIDE DEF Recv
    <3>. QED
      BY <3>2, <3>6, <3>7, <3>8 DEF NoneOld
  <2>. QED
    BY <2>5, <2>7, <2>8
<1>. QED
  BY <1>1, <1>2, <1>3, <1>4 DEF Inv

LEMMA RecvNothingInv ==
  ASSUME Inv, RecvNothing
  PROVE  Inv'
<1>. USE PeersFacts DEF RecvNothing, ClientAt, sockets, controllerVars, serverVars
<1>1. TypeOK'
  BY DEF Inv, TypeOK
<1>2. OneServed' /\ OneLine'
  BY DEF Inv, TypeOK, OneServed, OneLine
<1>3. Commanded' /\ ClientOnlyAsks' /\ ReportedIsLast'
  BY DEF Inv, TypeOK, Commanded, Unacked, ClientOnlyAsks, ReportedIsLast
<1>4. AnswersInOrder' /\ NoneOld' /\ FreshUnlessLate'
  <2>1. AnswersInOrder' /\ FreshUnlessLate'
    BY DEF Inv, AnswersInOrder, FreshUnlessLate
  <2>2. ~ late' => ~ late /\ Client \notin open
    OBVIOUS
  <2>3. NoneOld'
    <3>1. toPeer' = toPeer /\ open' = open /\ client' = "sleep"
          /\ Len(toPeer[Client]) = 0
      BY ClientLines DEF Inv
    <3>2. client' # "start" /\ client' # "recv"
      BY <3>1
    <3>3. SUFFICES ASSUME ~ late' PROVE NoneOld'
      BY <3>2 DEF NoneOld
    <3>4. Client \notin open' /\ Len(toPeer'[Client]) = 0
      BY <2>2, <3>1, <3>3
    <3>. HIDE DEF RecvNothing
    <3>. QED
      BY <3>2, <3>4 DEF NoneOld
  <2>. QED
    BY <2>1, <2>3
<1>. QED
  BY <1>1, <1>2, <1>3, <1>4 DEF Inv

LEMMA WakeInv ==
  ASSUME Inv, Wake
  PROVE  Inv'
<1>. USE PeersFacts DEF Wake, ClientAt, sockets, controllerVars, serverVars
<1>1. TypeOK'
  BY DEF Inv, TypeOK
<1>2. OneServed' /\ OneLine'
  BY DEF Inv, TypeOK, OneServed, OneLine
<1>3. Commanded' /\ ClientOnlyAsks' /\ ReportedIsLast'
  BY DEF Inv, TypeOK, Commanded, Unacked, ClientOnlyAsks, ReportedIsLast
<1>4. AnswersInOrder' /\ NoneOld' /\ FreshUnlessLate'
  BY DEF Inv, TypeOK, AnswersInOrder, NoneOld, FreshUnlessLate
<1>. QED
  BY <1>1, <1>2, <1>3, <1>4 DEF Inv

LEMMA StopClientInv ==
  ASSUME Inv, StopClient
  PROVE  Inv'
<1>. USE PeersFacts DEF StopClient, sockets, controllerVars, serverVars
<1>1. TypeOK'
  BY DEF Inv, TypeOK
<1>2. OneServed' /\ OneLine'
  BY DEF Inv, TypeOK, OneServed, OneLine
<1>3. Commanded' /\ ClientOnlyAsks' /\ ReportedIsLast'
  BY DEF Inv, TypeOK, Commanded, Unacked, ClientOnlyAsks, ReportedIsLast
<1>4. AnswersInOrder' /\ NoneOld' /\ FreshUnlessLate'
  BY DEF Inv, TypeOK, AnswersInOrder, NoneOld, FreshUnlessLate
<1>. QED
  BY <1>1, <1>2, <1>3, <1>4 DEF Inv

-----------------------------------------------------------------------------
(* The steps of the controllers *)

LEMMA ControllerConnectsInv ==
  ASSUME Inv, NEW c \in Controllers, ControllerConnects(c)
  PROVE  Inv'
<1>. USE PeersFacts DEF ControllerConnects, ControllerAt, Connect, clientVars, serverVars
<1>1. TypeOK'
  BY DEF Inv, TypeOK
<1>2. OneServed' /\ OneLine'
  BY DEF Inv, TypeOK, OneServed, OneLine
<1>3. Commanded' /\ ClientOnlyAsks' /\ ReportedIsLast'
  BY DEF Inv, TypeOK, Commanded, Unacked, ClientOnlyAsks, ReportedIsLast
<1>4. AnswersInOrder' /\ NoneOld' /\ FreshUnlessLate'
  BY DEF Inv, TypeOK, AnswersInOrder, NoneOld, FreshUnlessLate
<1>. QED
  BY <1>1, <1>2, <1>3, <1>4 DEF Inv

LEMMA CommandsInv ==
  ASSUME Inv, NEW c \in Controllers, NEW line \in Lines, Commands(c, line)
  PROVE  Inv'
<1>. USE PeersFacts DEF Commands, ControllerAt, SendToServer, clientVars, serverVars
<1>1. TypeOK'
  BY DEF Inv, TypeOK
<1>a. /\ toServer[c] = <<>> /\ toPeer[c] = <<>>
      /\ controller' = [controller EXCEPT ![c] = "await"]
      /\ command' = [command EXCEPT ![c] = line]
      /\ command'[c] = line /\ controller'[c] = "await"
      /\ \A d \in Controllers \ {c} : command'[d] = command[d] /\ controller'[d] = controller[d]
  BY DEF Inv, TypeOK, OneLine
<1>b. /\ \A q \in Peers \ {c} : toServer'[q] = toServer[q]
      /\ c \notin open => toServer'[c] = <<>>
      /\ c \in open => toServer'[c] = <<line>>
  <2>1. Append(<<>>, line) = <<line>>
    OBVIOUS
  <2>. QED
    BY <1>a, <2>1 DEF Inv, TypeOK
<1>2. OneServed' /\ OneLine'
  <2>1. OneServed'
    BY DEF Inv, OneServed
  <2>2. ASSUME NEW d \in Controllers
        PROVE  /\ controller'[d] # "await" => toServer'[d] = <<>> /\ toPeer'[d] = <<>>
               /\ d \notin open' => toServer'[d] = <<>>
               /\ toServer'[d] # <<>> => toServer'[d] = <<command'[d]>> /\ toPeer'[d] = <<>>
               /\ toPeer'[d] # <<>> => /\ Len(toPeer'[d]) = 1
                                       /\ current' = {d}
                                       /\ d \in open'
    <3>1. CASE d = c
      BY <1>a, <1>b, <3>1
    <3>2. CASE d # c
      <4>1. /\ toServer'[d] = toServer[d] /\ command'[d] = command[d]
            /\ controller'[d] = controller[d]
        BY <1>a, <1>b, <3>2
      <4>. QED
        BY <4>1 DEF Inv, OneLine
    <3>. QED
      BY <3>1, <3>2
  <2>. HIDE DEF Commands
  <2>. QED
    BY <2>1, <2>2 DEF OneLine
<1>3. Commanded' /\ ClientOnlyAsks' /\ ReportedIsLast'
  <2>1. ClientOnlyAsks' /\ ReportedIsLast'
    BY <1>b DEF Inv, ClientOnlyAsks, ReportedIsLast
  <2>2. \A d \in Controllers : Unacked(d)' <=> Unacked(d)
    BY <1>a DEF Unacked
  <2>3. \A d \in Controllers : Unacked(d) => command'[d] = command[d]
    BY <1>a DEF Unacked
  <2>4. Commanded'
    BY <2>2, <2>3 DEF Inv, Commanded
  <2>. QED
    BY <2>1, <2>4
<1>4. AnswersInOrder' /\ NoneOld' /\ FreshUnlessLate'
  BY DEF Inv, TypeOK, AnswersInOrder, NoneOld, FreshUnlessLate
<1>. QED
  BY <1>1, <1>2, <1>3, <1>4 DEF Inv

LEMMA HasAnswerInv ==
  ASSUME Inv, NEW c \in Controllers, HasAnswer(c)
  PROVE  Inv'
<1>. USE PeersFacts DEF HasAnswer, ControllerAt, clientVars, serverVars
<1>a. /\ controller' = [controller EXCEPT ![c] = "idle"]
      /\ toPeer' = [toPeer EXCEPT ![c] = <<>>]
      /\ toServer[c] = <<>> /\ toPeer'[c] = <<>>
      /\ \A q \in Peers \ {c} : toPeer'[q] = toPeer[q]
      /\ \A d \in Controllers \ {c} : controller'[d] = controller[d]
      /\ \A d \in Controllers \ {c} : toPeer[d] = <<>>
  <2>1. Len(toPeer[c]) = 1 /\ current = {c} /\ toServer[c] = <<>>
    BY DEF Inv, OneLine
  <2>2. toPeer[c] \in Seq(Answers)
    BY DEF Inv, TypeOK
  <2>3. Tail(toPeer[c]) = <<>>
    <3>1. Tail(toPeer[c]) \in Seq(Answers) /\ Len(Tail(toPeer[c])) = Len(toPeer[c]) - 1
      BY <2>2, HeadTailProperties
    <3>2. Len(Tail(toPeer[c])) = 0
      BY <2>1, <3>1
    <3>. QED
      BY <3>1, <3>2, EmptySeq
  <2>4. \A d \in Controllers \ {c} : toPeer[d] = <<>>
    BY <2>1 DEF Inv, OneLine
  <2>. QED
    BY <2>1, <2>3, <2>4 DEF Inv, TypeOK
<1>b. acked' = IF Unacked(c) THEN Append(acked, command[c].freq) ELSE acked
  BY DEF Unacked
<1>c. command[c] \in Lines /\ command[c].freq \in FreqsOrNone
  BY DEF Inv, TypeOK, Lines, Line, FreqsOrNone
<1>1. TypeOK'
  <2>1. acked' \in Seq(FreqsOrNone)
    BY <1>b, <1>c, AppendProperties DEF Inv, TypeOK
  <2>2. toPeer' \in [Peers -> Seq(Answers)]
    BY <1>a DEF Inv, TypeOK
  <2>. QED
    BY <2>1, <2>2 DEF Inv, TypeOK
<1>2. OneServed' /\ OneLine'
  BY <1>a DEF Inv, TypeOK, OneServed, OneLine
<1>3. Commanded' /\ ClientOnlyAsks' /\ ReportedIsLast'
  <2>1. ClientOnlyAsks' /\ ReportedIsLast'
    BY DEF Inv, ClientOnlyAsks, ReportedIsLast
  <2>2. \A d \in Controllers : ~ Unacked(d)'
    BY <1>a DEF Unacked
  <2>3. \A d \in Controllers \ {c} : ~ Unacked(d)
    BY <1>a DEF Unacked
  <2>4. ~ rigctld' => freqOut' = acked'
    BY <1>b, <2>3 DEF Inv, Commanded
  <2>5. Commanded'
    BY <2>2, <2>4 DEF Commanded
  <2>. QED
    BY <2>1, <2>5
<1>4. AnswersInOrder' /\ NoneOld' /\ FreshUnlessLate'
  BY DEF Inv, TypeOK, AnswersInOrder, NoneOld, FreshUnlessLate
<1>. QED
  BY <1>1, <1>2, <1>3, <1>4 DEF Inv

LEMMA FindsClosedInv ==
  ASSUME Inv, NEW c \in Controllers, FindsClosed(c)
  PROVE  Inv'
<1>. USE PeersFacts DEF FindsClosed, ControllerAt, sockets, clientVars, serverVars
<1>1. TypeOK'
  BY DEF Inv, TypeOK
<1>2. OneServed' /\ OneLine'
  BY DEF Inv, TypeOK, OneServed, OneLine
<1>3. Commanded' /\ ClientOnlyAsks' /\ ReportedIsLast'
  BY DEF Inv, TypeOK, Commanded, Unacked, ClientOnlyAsks, ReportedIsLast
<1>4. AnswersInOrder' /\ NoneOld' /\ FreshUnlessLate'
  BY DEF Inv, TypeOK, AnswersInOrder, NoneOld, FreshUnlessLate
<1>. QED
  BY <1>1, <1>2, <1>3, <1>4 DEF Inv

LEMMA ClosesInv ==
  ASSUME Inv, NEW c \in Controllers, Closes(c)
  PROVE  Inv'
<1>. USE PeersFacts DEF Closes, ControllerAt, clientVars, serverVars
<1>1. TypeOK'
  BY DEF Inv, TypeOK
<1>2. OneServed' /\ OneLine'
  BY DEF Inv, TypeOK, OneServed, OneLine
<1>3. Commanded' /\ ClientOnlyAsks' /\ ReportedIsLast'
  BY DEF Inv, TypeOK, Commanded, Unacked, ClientOnlyAsks, ReportedIsLast
<1>4. AnswersInOrder' /\ NoneOld' /\ FreshUnlessLate'
  BY DEF Inv, TypeOK, AnswersInOrder, NoneOld, FreshUnlessLate
<1>. QED
  BY <1>1, <1>2, <1>3, <1>4 DEF Inv

-----------------------------------------------------------------------------
(* The theorems *)

LEMMA StepInv == Inv /\ [Next]_vars => Inv'
<1>. SUFFICES ASSUME Inv, [Next]_vars PROVE Inv'
  OBVIOUS
<1>1. CASE ServerStep
  <2>1. ASSUME NEW p \in Peers, NEW n \in 1 .. Len(toServer[p]), Serve(p, n)
        PROVE  Inv'
    BY <2>1, ServeClientInv, ServeControllerInv DEF Peers
  <2>. QED
    BY <1>1, <2>1, ListenInv, BeginAcceptInv, ExitInv, AcceptInv, HangUpInv
    DEF ServerStep
<1>2. CASE StopServer
  BY <1>2, StopServerInv
<1>3. CASE \E f \in Freqs : Tune(f)
  BY <1>3, TuneInv
<1>4. CASE ClientStep
  BY <1>4, ClientConnectInv, RequestInv, QuitInv, RecvInv, RecvNothingInv, WakeInv
  DEF ClientStep
<1>5. CASE StopClient
  BY <1>5, StopClientInv
<1>6. ASSUME NEW c \in Controllers,
             \/ ControllerConnects(c)
             \/ \E line \in Lines : Commands(c, line)
             \/ Reads(c)
             \/ Closes(c)
      PROVE  Inv'
  BY <1>6, ControllerConnectsInv, CommandsInv, HasAnswerInv, FindsClosedInv, ClosesInv
  DEF Reads
<1>7. CASE UNCHANGED vars
  <2>. USE <1>7 DEF vars, sockets, serverVars, controllerVars, clientVars
  <2>1. TypeOK' /\ OneServed' /\ OneLine'
    BY DEF Inv, TypeOK, OneServed, OneLine
  <2>2. Commanded' /\ ClientOnlyAsks' /\ ReportedIsLast'
    BY DEF Inv, Commanded, Unacked, ClientOnlyAsks, ReportedIsLast
  <2>3. AnswersInOrder' /\ NoneOld' /\ FreshUnlessLate'
    BY DEF Inv, AnswersInOrder, NoneOld, FreshUnlessLate
  <2>. QED
    BY <2>1, <2>2, <2>3 DEF Inv
<1>. QED
  BY <1>1, <1>2, <1>3, <1>4, <1>5, <1>6, <1>7 DEF Next

\* The inductive invariant holds, for any controllers, frequencies and bounds.
THEOREM Invariance == Spec => []Inv
BY InitInv, StepInv, PTL DEF Spec

\* rigctl_server publishes the frequencies that the controllers were told are
\* set, in order, and one at most whose answer is under way.
THEOREM CommandsPublished == Spec => []FreqAsCommanded
<1>1. Inv => FreqAsCommanded
  <2>. SUFFICES ASSUME Inv, ~ rigctld
                PROVE  IsPrefix(acked, freqOut) /\ Len(freqOut) <= Len(acked) + 1
    BY DEF FreqAsCommanded
  <2>1. acked \in Seq(FreqsOrNone) /\ Len(acked) \in Nat
    BY LenProperties DEF Inv, TypeOK
  <2>2. CASE freqOut = acked
    BY <2>1, <2>2 DEF IsPrefix
  <2>3. ASSUME NEW c \in Controllers, freqOut = Append(acked, command[c].freq)
        PROVE  IsPrefix(acked, freqOut) /\ Len(freqOut) <= Len(acked) + 1
    BY <2>1, <2>3, AppendProperties DEF IsPrefix
  <2>. QED
    BY <2>2, <2>3 DEF Inv, Commanded
<1>. QED
  BY <1>1, Invariance, PTL

\* Unless a recv() of rigctl_client has timed out before, the frequency it
\* publishes was set when it asked for it, or later.
THEOREM NeverStale == Spec => []FreshUnlessLate
<1>1. Inv => FreshUnlessLate
  BY DEF Inv
<1>. QED
  BY <1>1, Invariance, PTL

\* The frequencies that rigctl_client publishes were set at the server, and it
\* never goes back to one set before the last it published.
THEOREM ClientFollowsServer == Spec => ClientFollows
<1>. DEFINE Follows == /\ published'.n >= published.n
                       /\ published'.n > 0 => published'.freq = freqOut[published'.n]
<1>1. Inv /\ [Next]_vars => [Follows]_published
  <2>. SUFFICES ASSUME Inv, [Next]_vars, published' # published
                PROVE  Follows
    OBVIOUS
  <2>1. PICK n \in 1 .. Len(toPeer[Client]) : Recv(n)
    BY DEF Next, vars, ServerStep, Listen, BeginAccept, Exit, Accept, Serve, HangUp,
       StopServer, Tune, ClientStep, ClientConnect, Request, Quit, RecvNothing,
       Wake, StopClient, ControllerConnects, Commands, Reads, HasAnswer,
       FindsClosed, Closes, clientVars
  <2>2. /\ toPeer[Client] \in Seq(Answers) /\ Len(toPeer[Client]) \in Nat
        /\ toPeer[Client] # <<>>
    BY <2>1, ClientLines DEF Inv
  <2>3. Head(toPeer[Client]) = toPeer[Client][1] /\ 1 \in 1 .. Len(toPeer[Client])
    BY <2>1, <2>2, HeadTailProperties
  <2>. QED
    BY <2>1, <2>3 DEF Inv, AnswersInOrder, Recv
<1>2. Spec => [][Follows]_published
  BY <1>1, Invariance, PTL DEF Spec
<1>. QED
  BY <1>2 DEF ClientFollows
=============================================================================
