---------------------- MODULE IEEE802154Decoder_proofs ----------------------
(***************************************************************************)
(* Proofs about IEEE802154Decoder for every set of configurations, every   *)
(* CRC, every descrambler and every set of chunks: what is published was   *)
(* sent, a reset forgets, and the decoder implements the contract of the   *)
(* decoders.                                                               *)
(***************************************************************************)
EXTENDS IEEE802154Decoder, SequenceTheorems, DecoderLemmas, TLAPS

LOCAL INSTANCE FiniteSetsExt

-----------------------------------------------------------------------------
(* Octets and registers as functions of the stream *)

\* The k-th octet from this bit of the stream on.
OctetAt(stream, body, k) ==
  OctetOf(SubSeq(stream, body + 8 * (k - 1), body + 8 * k - 1))

\* The first n of them, descrambled.
SentOf(stream, body, n) ==
  [k \in 1 .. n |-> Descramble(k - 1, OctetAt(stream, body, k))]

\* A set of natural numbers that is not empty contains its minimum.
LEMMA MinProperties ==
  ASSUME NEW T, T \subseteq Nat, T # {}
  PROVE  Min(T) \in T /\ \A n \in T : Min(T) <= n
BY LeastNat DEF Min

\* The whole octets of a piece of the stream are those at its place.
LEMMA OctetsOfPiece ==
  ASSUME NEW stream \in Seq(Bit), NEW at \in Nat, NEW bits \in Seq(Bit),
         at + Len(bits) <= Len(stream),
         \A k \in 1 .. Len(bits) : bits[k] = stream[at + k]
  PROVE  /\ Octets(bits) \in Seq(Byte)
         /\ Len(Octets(bits)) = Len(bits) \div 8
         /\ \A k \in 1 .. Len(bits) \div 8 :
              Octets(bits)[k] = OctetAt(stream, at + 1, k)
<1>1. Octets(bits) = Reg!Octets(bits)
  BY DEF Octets, Reg!Octets, OctetOf, Reg!OctetOf
<1>2. ASSUME NEW k \in 1 .. Len(bits) \div 8
      PROVE  OctetAt(stream, at + 1, k) = OctetFrom(stream, at, k)
  <2>1. /\ Len(bits) \div 8 \in Nat
        /\ (at + 1) + 8 * (k - 1) = at + 8 * k - 7 /\ (at + 1) + 8 * k - 1 = at + 8 * k
    BY LenProperties
  <2>. QED
    BY <2>1 DEF OctetAt, OctetFrom, OctetOf, Reg!OctetOf
<1>3. /\ Reg!Octets(bits) \in Seq(Byte)
      /\ Len(Reg!Octets(bits)) = Len(bits) \div 8
      /\ \A k \in 1 .. Len(bits) \div 8 :
           Reg!Octets(bits)[k] = OctetFrom(stream, at, k)
  BY RegOctets DEF Bit, Byte
<1>. QED
  BY <1>1, <1>2, <1>3

\* What arrives behind an octet does not change it.
LEMMA OctetAtStays ==
  ASSUME NEW stream \in Seq(Bit), NEW chunk \in Seq(Bit), NEW body \in Nat,
         NEW k \in Nat, body >= 1, k >= 1, body + 8 * k - 1 <= Len(stream)
  PROVE  OctetAt(stream \o chunk, body, k) = OctetAt(stream, body, k)
<1>1. /\ body + 8 * (k - 1) \in 1 .. Len(stream)
      /\ body + 8 * k - 1 \in 1 .. Len(stream)
  BY LenProperties
<1>2. SubSeq(stream \o chunk, body + 8 * (k - 1), body + 8 * k - 1)
        = SubSeq(stream, body + 8 * (k - 1), body + 8 * k - 1)
  BY <1>1, SubSeqOfConcat1
<1>. QED
  BY <1>2 DEF OctetAt

LEMMA SentOfStays ==
  ASSUME NEW stream \in Seq(Bit), NEW chunk \in Seq(Bit), NEW body \in Nat,
         NEW n \in Nat, body >= 1, body + 8 * n - 1 <= Len(stream)
  PROVE  SentOf(stream \o chunk, body, n) = SentOf(stream, body, n)
<1>1. ASSUME NEW k \in 1 .. n
      PROVE  OctetAt(stream \o chunk, body, k) = OctetAt(stream, body, k)
  <2>1. k \in Nat /\ k >= 1 /\ body + 8 * k - 1 <= Len(stream)
    BY LenProperties
  <2>. QED
    BY <2>1, OctetAtStays
<1>. QED
  BY <1>1 DEF SentOf

\* The octets that the properties speak of, by their places.
LEMMA SentIsSentOf ==
  ASSUME rx \in Seq(Bit), NEW body \in Nat, NEW n \in Nat,
         body >= 1, body + 8 * n - 1 <= Len(rx)
  PROVE  Sent(body, n) = SentOf(rx, body, n)
<1>. DEFINE s == Stretch(body, 8 * n)
<1>1. Len(rx) \in Nat
  BY LenProperties
<1>2. /\ s \in Seq(Bit)
      /\ Len(s) = 8 * n
      /\ \A k \in 1 .. 8 * n : s[k] = rx[(body - 1) + k]
  <2>. DEFINE last == body + 8 * n - 1
  <2>1. /\ last \in Nat /\ body <= last + 1
        /\ last - body + 1 = 8 * n
    OBVIOUS
  <2>. HIDE DEF last
  <2>2. /\ SubSeq(rx, body, last) \in Seq(Bit)
        /\ Len(SubSeq(rx, body, last)) = 8 * n
        /\ \A k \in 1 .. 8 * n : SubSeq(rx, body, last)[k] = rx[body + k - 1]
    <3>1. last <= Len(rx)
      BY DEF last
    <3>. QED
      BY <2>1, <3>1, PieceProperties
  <2>3. \A k \in 1 .. 8 * n : body + k - 1 = (body - 1) + k
    OBVIOUS
  <2>. QED
    BY <2>2, <2>3 DEF Stretch, last
<1>. HIDE DEF s
<1>3. /\ Len(s) \div 8 = n /\ body - 1 \in Nat /\ (body - 1) + 1 = body
      /\ (body - 1) + Len(s) <= Len(rx)
  <2>1. (8 * n) \div 8 = n
    OBVIOUS
  <2>2. Len(s) \div 8 = n
    BY <1>2, <2>1
  <2>3. (body - 1) + 8 * n <= Len(rx)
    BY <1>1
  <2>. QED
    BY <1>2, <2>2, <2>3
<1>4. /\ Octets(s) \in Seq(Byte)
      /\ Len(Octets(s)) = n
      /\ \A k \in 1 .. n : Octets(s)[k] = OctetAt(rx, body, k)
  <2>. DEFINE at == body - 1
  <2>1. /\ at \in Nat /\ at + Len(s) <= Len(rx) /\ at + 1 = body
        /\ \A k \in 1 .. Len(s) : s[k] = rx[at + k]
    BY <1>2, <1>3
  <2>. HIDE DEF at
  <2>2. /\ Octets(s) \in Seq(Byte)
        /\ Len(Octets(s)) = Len(s) \div 8
        /\ \A k \in 1 .. Len(s) \div 8 : Octets(s)[k] = OctetAt(rx, at + 1, k)
    BY <1>2, <2>1, OctetsOfPiece
  <2>. QED
    BY <1>3, <2>1, <2>2
<1>5. \A k \in 1 .. n : 0 + k - 1 = k - 1
  OBVIOUS
<1>6. Descrambled(Octets(s), 0) = SentOf(rx, body, n)
  BY <1>4, <1>5 DEF Descrambled, SentOf
<1>. QED
  BY <1>6 DEF Sent, s

\* The register just cleared.
LEMMA EnteredNone ==
  ASSUME NEW stream, NEW to \in Nat, NEW n \in Nat
  PROVE  Entered(stream, to, to, n) = Zeros(n)
BY DEF Entered, Zeros

\* What arrives later is not in the register yet.
LEMMA EnteredStays ==
  ASSUME NEW stream \in Seq(Bit), NEW chunk \in Seq(Bit),
         NEW from \in Nat, NEW to \in Nat, to <= Len(stream), NEW n \in Nat
  PROVE  Entered(stream \o chunk, from, to, n) = Entered(stream, from, to, n)
BY RegEnteredStays DEF Entered, Reg!Entered, Bit

\* The next k bits of the stream enter.
LEMMA EnteredShifts ==
  ASSUME NEW stream \in Seq(Bit), NEW from \in Nat, NEW to \in Nat,
         NEW in \in Seq(Bit), NEW n \in Nat, NEW k \in 0 .. Len(in),
         from <= to, to + Len(in) <= Len(stream),
         \A j \in 1 .. Len(in) : in[j] = stream[to + j]
  PROVE  Shifted(Entered(stream, from, to, n), in, k)
           = Entered(stream, from, to + k, n)
<1>1. \A t : Entered(stream, from, t, n) = Reg!Entered(stream, from, t, n)
  BY DEF Entered, Reg!Entered
<1>2. \A reg : Shifted(reg, in, k) = Reg!Shifted(reg, in, k)
  BY DEF Shifted, Reg!Shifted
<1>3. Reg!Shifted(Reg!Entered(stream, from, to, n), in, k)
        = Reg!Entered(stream, from, to + k, n)
  <2>1. /\ stream \in Seq({0, 1}) /\ in \in Seq({0, 1}) /\ k \in 0 .. Len(in)
        /\ to + Len(in) <= Len(stream)
        /\ \A j \in 1 .. Len(in) : in[j] = stream[to + j]
    BY DEF Bit
  <2>. QED
    BY <2>1, RegShifts, SMTT(20)
<1>. QED
  BY <1>1, <1>2, <1>3

\* The sync word stays in front, whatever arrives.
LEMMA SyncInFrontStays ==
  ASSUME NEW c, NEW stream \in Seq(Bit), NEW chunk \in Seq(Bit),
         NEW start \in Nat, NEW body \in Nat, body >= 1,
         body - 1 <= Len(stream), Len(c.sync) \in Nat,
         SyncInFront(c, stream, start, body)
  PROVE  SyncInFront(c, stream \o chunk, start, body)
<1>1. PICK from \in start .. body - 2 :
        /\ c.preamble # <<>> => from = start
        /\ body - 1 - from
             <= 2 * Len(c.preamble) + Len(c.sync) + c.syncThrsh + 1
        /\ Distance(Entered(stream, from, body - 1, Len(c.sync)), c.sync)
             <= c.syncThrsh
  BY DEF SyncInFront
<1>2. from \in Nat /\ body - 1 \in Nat
  OBVIOUS
<1>3. Entered(stream \o chunk, from, body - 1, Len(c.sync))
        = Entered(stream, from, body - 1, Len(c.sync))
  BY <1>2, EnteredStays
<1>. QED
  BY <1>1, <1>3 DEF SyncInFront

-----------------------------------------------------------------------------
(***************************************************************************)
(* The inductive invariant.  What is published is read off the octets and  *)
(* the register that the decoder carries from call to call: it is as sent  *)
(* because these agree with the stream at every step, and they do because  *)
(* reset() clears them whenever a frame or a search is over.               *)
(***************************************************************************)

\* The items in the input buffer are those sent and not counted as read.
Accounted ==
  /\ conf \in Configs
  /\ rx \in Seq(Bit)
  /\ nitemsRead \in Nat
  /\ nitemsRead <= Len(rx)
  /\ inp = Rest(rx, nitemsRead)

\* A frame starts behind the preamble that was read.
Started ==
  /\ state \in {"SEARCHING", "SEARCHING_SYNC", "DECODING_GENERIC_FRAME_LEN",
                "DECODING_PAYLOAD"}
  /\ frameStart \in Nat
  /\ frameStart <= nitemsRead

\* Before the payload nothing of another frame is left.
Fresh ==
  state # "DECODING_PAYLOAD" => pdu = <<>> /\ dsPos = 0

\* The register holds the bits since the search for the sync word began.
Searching ==
  /\ state = "SEARCHING" =>
       conf.preamble # <<>> /\ syncReg = Zeros(Len(conf.sync))
  /\ state = "SEARCHING_SYNC" =>
       /\ cnt \in 0 .. nitemsRead - frameStart
       /\ cnt <= SyncLimit
       /\ conf.preamble # <<>> => cnt = nitemsRead - frameStart
       /\ syncReg = Entered(rx, nitemsRead - cnt, nitemsRead, Len(conf.sync))

\* Where the octets in d_pdu begin in the stream.
Body == nitemsRead + 1 - 8 * Len(pdu)

\* d_pdu holds the octets behind the sync word, the length octet descrambled,
\* and d_len is what that says.
Receiving ==
  /\ ~ conf.varLen => len = conf.maxLen + CrcSize
  /\ state = "DECODING_GENERIC_FRAME_LEN" =>
       /\ conf.varLen
       /\ SyncInFront(conf, rx, frameStart, nitemsRead + 1)
  /\ state = "DECODING_PAYLOAD" =>
       /\ dsPos = LengthField
       /\ pdu \in Seq(Byte)
       /\ SyncInFront(conf, rx, frameStart, Body)
       /\ conf.varLen => Len(pdu) >= 1 /\ len = pdu[1] + CrcSize
       /\ \A k \in 1 .. Len(pdu) :
            pdu[k] = IF k <= LengthField
                       THEN Descramble(0, OctetAt(rx, Body, k))
                       ELSE OctetAt(rx, Body, k)

\* IsAsSent, of a configuration and a stream.
AsSent(c, stream, f) ==
  LET field == IF c.varLen THEN 1 ELSE 0
      end == f.start + f.cnt
  IN  \E n \in 1 .. f.cnt \div 8 :
        LET octets == SentOf(stream, end - 8 * n + 1, n)
            body == n - CrcSize
            good == \/ CrcSize = 0
                    \/ Crc(SubSeq(octets, 1, body)) = SubSeq(octets, body + 1, n)
        IN  /\ n = field + CrcSize
                     + (IF c.varLen THEN octets[1] ELSE c.maxLen)
            /\ SyncInFront(c, stream, f.start, end - 8 * n + 1)
            /\ f.crcValid = good
            /\ f.crcValid \/ ~ c.dropInvalid
            /\ f.pdu = SubSeq(octets, field + 1, IF f.crcValid THEN body ELSE n)

\* The frames published lie behind the read cursor and, with a preamble, in
\* front of the frame in progress.
Published ==
  /\ IsSequence(out)
  /\ \A j \in 1 .. Len(out) :
       /\ out[j].start \in Nat
       /\ out[j].cnt \in Nat
       /\ out[j].start + out[j].cnt <= nitemsRead
       /\ conf.preamble # <<>> /\ state # "SEARCHING" =>
            out[j].start + out[j].cnt <= frameStart
       /\ AsSent(conf, rx, out[j])

\* With a preamble, a frame in progress began behind every reset, and so did
\* what was published since.
Forgotten ==
  /\ IsSequence(resets)
  /\ \A r \in 1 .. Len(resets) :
       /\ resets[r].read \in Nat
       /\ resets[r].read <= nitemsRead
       /\ resets[r].published \in Nat
       /\ resets[r].published <= Len(out)
       /\ conf.preamble # <<>> /\ state # "SEARCHING" =>
            resets[r].read <= frameStart
       /\ conf.preamble # <<>> =>
            \A j \in resets[r].published + 1 .. Len(out) :
              out[j].start >= resets[r].read

IInv ==
  /\ Accounted
  /\ Started
  /\ Fresh
  /\ Searching
  /\ Receiving
  /\ Published
  /\ Forgotten

\* What the constructor accepts, of the arguments in use.
LEMMA ConfProperties ==
  ASSUME conf \in Configs
  PROVE  /\ Len(conf.preamble) \in Nat /\ Len(conf.sync) \in Nat
         /\ Len(conf.sync) >= 8
         /\ conf.syncThrsh \in Nat
         /\ conf.maxLen \in Nat
         /\ conf.varLen \in BOOLEAN
         /\ SyncLimit \in Nat
         /\ LengthField \in 0 .. 1
<1>1. /\ conf.preamble \in Seq(Bit) /\ conf.sync \in Seq(Bit)
      /\ Len(conf.sync) >= 8
      /\ conf.syncThrsh \in Nat /\ conf.maxLen \in Nat
      /\ conf.varLen \in BOOLEAN
  BY ConfigsAssumption DEF ConfigsAssumption
<1>2. Len(conf.preamble) \in Nat /\ Len(conf.sync) \in Nat
  BY <1>1, LenProperties
<1>3. SyncLimit \in Nat
  <2>1. \A a, b, c \in Nat : 2 * a + b + c \in Nat
    OBVIOUS
  <2>. QED
    BY <1>1, <1>2, <2>1 DEF SyncLimit
<1>. QED
  BY <1>1, <1>2, <1>3 DEF LengthField

\* What a call of work() is handed is the next items of the stream.
LEMMA InputIsNext ==
  ASSUME Accounted, NEW n \in 1 .. Len(inp) \div 8
  PROVE  LET in == SubSeq(inp, 1, 8 * n)
         IN  /\ in \in Seq(Bit)
             /\ Len(in) = 8 * n
             /\ Len(inp) \in Nat
             /\ 8 * n <= Len(inp)
             /\ nitemsRead + Len(in) <= Len(rx)
             /\ \A k \in 1 .. Len(in) : in[k] = rx[nitemsRead + k]
<1>. DEFINE in == SubSeq(inp, 1, 8 * n)
<1>1. rx \in Seq(Bit) /\ Len(rx) \in Nat /\ nitemsRead \in 0 .. Len(rx)
  BY LenProperties DEF Accounted
<1>2. /\ inp \in Seq(Bit)
      /\ Len(inp) = Len(rx) - nitemsRead
      /\ \A k \in 1 .. Len(rx) - nitemsRead : inp[k] = rx[k + nitemsRead]
  BY <1>1, RestProperties DEF Accounted
<1>3. /\ Len(inp) \in Nat
      /\ 8 * n \in Nat /\ 8 * n <= Len(inp) /\ 8 * n >= 1
  BY <1>1, <1>2
<1>. DEFINE m == 8 * n
<1>4. m \in Nat /\ m <= Len(inp) /\ m - 1 + 1 = m /\ 1 <= m + 1
  BY <1>3
<1>. HIDE DEF m
<1>5. /\ SubSeq(inp, 1, m) \in Seq(Bit)
      /\ Len(SubSeq(inp, 1, m)) = m
      /\ \A k \in 1 .. m : SubSeq(inp, 1, m)[k] = inp[1 + k - 1]
  BY <1>2, <1>4, PieceProperties
<1>6. ASSUME NEW k \in 1 .. m
      PROVE  SubSeq(inp, 1, m)[k] = rx[nitemsRead + k]
  <2>1. 1 + k - 1 = k /\ k \in 1 .. Len(rx) - nitemsRead
        /\ k + nitemsRead = nitemsRead + k
    BY <1>1, <1>2, <1>4
  <2>. QED
    BY <1>2, <1>5, <2>1
<1>7. nitemsRead + m <= Len(rx)
  BY <1>1, <1>2, <1>4
<1>. QED
  BY <1>3, <1>5, <1>6, <1>7 DEF m

\* Consuming items counts them.
LEMMA ConsumeAccounts ==
  ASSUME Accounted, NEW n \in 0 .. Len(inp), Consume(n),
         rx' = rx, conf' = conf
  PROVE  /\ Accounted'
         /\ nitemsRead' = nitemsRead + n
         /\ nitemsRead' \in Nat
         /\ nitemsRead' >= nitemsRead
<1>1. rx \in Seq(Bit) /\ Len(rx) \in Nat /\ nitemsRead \in 0 .. Len(rx)
  BY LenProperties DEF Accounted
<1>2. Len(inp) = Len(rx) - nitemsRead
  BY <1>1, RestProperties DEF Accounted
<1>3. n \in 0 .. Len(rx) - nitemsRead
  BY <1>2
<1>4. nitemsRead' = nitemsRead + n
  BY DEF Consume
<1>5. inp' = Rest(Rest(rx, nitemsRead), n)
  BY DEF Consume, Rest, Accounted
<1>6. inp' = Rest(rx, nitemsRead + n)
  BY <1>1, <1>3, <1>5, RestRest
<1>7. nitemsRead' \in Nat /\ nitemsRead' >= nitemsRead /\ nitemsRead' <= Len(rx)
  BY <1>1, <1>3, <1>4
<1>. QED
  BY <1>4, <1>6, <1>7 DEF Accounted

\* What was published stays as it was sent, whatever arrives.
LEMMA AsSentStays ==
  ASSUME NEW c, NEW stream \in Seq(Bit), NEW chunk \in Seq(Bit), NEW f,
         f.start \in Nat, f.cnt \in Nat, f.start + f.cnt <= Len(stream),
         Len(c.sync) \in Nat, AsSent(c, stream, f)
  PROVE  AsSent(c, stream \o chunk, f)
<1>. DEFINE end == f.start + f.cnt
<1>1. PICK n \in 1 .. f.cnt \div 8 :
        LET octets == SentOf(stream, end - 8 * n + 1, n)
            field == IF c.varLen THEN 1 ELSE 0
            body == n - CrcSize
            good == \/ CrcSize = 0
                    \/ Crc(SubSeq(octets, 1, body)) = SubSeq(octets, body + 1, n)
        IN  /\ n = field + CrcSize
                     + (IF c.varLen THEN octets[1] ELSE c.maxLen)
            /\ SyncInFront(c, stream, f.start, end - 8 * n + 1)
            /\ f.crcValid = good
            /\ f.crcValid \/ ~ c.dropInvalid
            /\ f.pdu = SubSeq(octets, field + 1, IF f.crcValid THEN body ELSE n)
  BY DEF AsSent
<1>. DEFINE first == end - 8 * n + 1
<1>2. /\ n \in Nat /\ first \in Nat /\ first >= 1
      /\ first + 8 * n - 1 <= Len(stream)
      /\ first - 1 \in Nat /\ first - 1 <= Len(stream)
      /\ Len(stream) \in Nat
  <2>1. \A k, b \in Nat : k \in 1 .. b \div 8 => k \in Nat /\ 8 * k <= b
    OBVIOUS
  <2>2. PICK a, b, l : a = f.start /\ b = f.cnt /\ l = Len(stream)
    OBVIOUS
  <2>3. /\ n \in Nat /\ a \in Nat /\ b \in Nat /\ l \in Nat
        /\ a + b <= l /\ n \in 1 .. b \div 8 /\ first = (a + b) - 8 * n + 1
    BY <2>2, LenProperties
  <2>. HIDE DEF first
  <2>4. 8 * n <= b
    BY <2>1, <2>3
  <2>5. /\ first \in Nat /\ first >= 1 /\ first + 8 * n - 1 <= l
        /\ first - 1 \in Nat /\ first - 1 <= l
    BY <2>3, <2>4
  <2>. QED
    BY <2>2, <2>3, <2>5
<1>. HIDE DEF first
<1>3. SentOf(stream \o chunk, first, n) = SentOf(stream, first, n)
  BY <1>2, SentOfStays
<1>4. ASSUME SyncInFront(c, stream, f.start, first)
      PROVE  SyncInFront(c, stream \o chunk, f.start, first)
  BY <1>2, <1>4, SyncInFrontStays
<1>. QED
  BY <1>1, <1>3, <1>4 DEF AsSent, first

\* The history of the block stands where out, rx and the arguments do, as
\* long as a frame in progress does not start anew before it.
LEMMA HistoryKept ==
  ASSUME Accounted, Published, Forgotten,
         UNCHANGED <<conf, rx, out, resets>>,
         nitemsRead' \in Nat, nitemsRead' >= nitemsRead,
         \/ conf.preamble = <<>> \/ state' = "SEARCHING"
         \/ state # "SEARCHING" /\ frameStart' = frameStart
         \/ frameStart' \in Nat /\ frameStart' >= nitemsRead
  PROVE  Published' /\ Forgotten'
<1>1. nitemsRead \in Nat
  BY DEF Accounted
<1>2. \A a \in Nat : a <= nitemsRead => a <= nitemsRead'
  BY <1>1
<1>3. \A a \in Nat : a <= nitemsRead => \/ ~ (frameStart' >= nitemsRead)
                                        \/ ~ (frameStart' \in Nat)
                                        \/ a <= frameStart'
  BY <1>1
<1>4. Published'
  <2>. SUFFICES ASSUME NEW j \in 1 .. Len(out)
                PROVE  /\ out[j].start \in Nat
                       /\ out[j].cnt \in Nat
                       /\ out[j].start + out[j].cnt <= nitemsRead'
                       /\ conf.preamble # <<>> /\ state' # "SEARCHING" =>
                            out[j].start + out[j].cnt <= frameStart'
                       /\ AsSent(conf, rx, out[j])
    BY DEF Published
  <2>. DEFINE end == out[j].start + out[j].cnt
  <2>1. /\ out[j].start \in Nat /\ out[j].cnt \in Nat
        /\ end <= nitemsRead
        /\ conf.preamble # <<>> /\ state # "SEARCHING" => end <= frameStart
        /\ AsSent(conf, rx, out[j])
    BY DEF Published
  <2>2. end \in Nat
    BY <2>1
  <2>. HIDE DEF end
  <2>3. end <= nitemsRead'
    BY <1>2, <2>1, <2>2
  <2>4. conf.preamble # <<>> /\ state' # "SEARCHING" => end <= frameStart'
    BY <1>3, <2>1, <2>2
  <2>. QED
    BY <2>1, <2>3, <2>4 DEF end
<1>5. Forgotten'
  <2>. SUFFICES ASSUME NEW r \in 1 .. Len(resets)
                PROVE  /\ resets[r].read \in Nat
                       /\ resets[r].read <= nitemsRead'
                       /\ resets[r].published \in Nat
                       /\ resets[r].published <= Len(out)
                       /\ conf.preamble # <<>> /\ state' # "SEARCHING" =>
                            resets[r].read <= frameStart'
                       /\ conf.preamble # <<>> =>
                            \A j \in resets[r].published + 1 .. Len(out) :
                              out[j].start >= resets[r].read
    BY DEF Forgotten
  <2>1. /\ resets[r].read \in Nat
        /\ resets[r].read <= nitemsRead
        /\ resets[r].published \in Nat
        /\ resets[r].published <= Len(out)
        /\ conf.preamble # <<>> /\ state # "SEARCHING" =>
             resets[r].read <= frameStart
        /\ conf.preamble # <<>> =>
             \A j \in resets[r].published + 1 .. Len(out) :
               out[j].start >= resets[r].read
    BY DEF Forgotten
  <2>2. resets[r].read <= nitemsRead'
    BY <1>2, <2>1
  <2>3. conf.preamble # <<>> /\ state' # "SEARCHING" =>
          resets[r].read <= frameStart'
    BY <1>3, <2>1
  <2>. QED
    BY <2>1, <2>2, <2>3
<1>. QED
  BY <1>4, <1>5

\* reset() leaves nothing of a frame or a search.
LEMMA ResetObjectClears ==
  ASSUME Accounted', Started, ResetObject, conf \in Configs,
         UNCHANGED <<conf, rx, len, frameStart>>,
         ~ conf.varLen => len = conf.maxLen + CrcSize,
         nitemsRead \in Nat, nitemsRead' >= nitemsRead
  PROVE  /\ Started' /\ Fresh' /\ Searching' /\ Receiving'
         /\ conf.preamble = <<>> \/ state' = "SEARCHING"
<1>1. /\ state' = IF conf.preamble # <<>> THEN "SEARCHING" ELSE "SEARCHING_SYNC"
      /\ pdu' = <<>> /\ dsPos' = 0 /\ cnt' = 0
      /\ syncReg' = Zeros(Len(conf.sync))
  BY DEF ResetObject, Hunting
<1>2. /\ nitemsRead' \in Nat /\ frameStart \in Nat /\ frameStart <= nitemsRead'
  BY DEF Accounted, Started
<1>3. Started' /\ Fresh' /\ Receiving'
  BY <1>1, <1>2 DEF Started, Fresh, Receiving
<1>4. Searching'
  <2>1. Len(conf.sync) \in Nat /\ SyncLimit \in Nat /\ SyncLimit' = SyncLimit
    BY ConfProperties DEF SyncLimit
  <2>2. Entered(rx', nitemsRead' - 0, nitemsRead', Len(conf.sync))
          = Zeros(Len(conf.sync))
    <3>1. \A a \in Nat : a - 0 = a
      OBVIOUS
    <3>. QED
      BY <1>2, <2>1, <3>1, EnteredNone
  <2>3. CASE conf.preamble # <<>>
    BY <1>1, <2>3 DEF Searching
  <2>4. CASE conf.preamble = <<>>
    <3>1. state' = "SEARCHING_SYNC"
      BY <1>1, <2>4
    <3>2. cnt' \in 0 .. nitemsRead' - frameStart /\ cnt' <= SyncLimit'
      <4>1. \A a, b, c \in Nat : b <= a => 0 \in 0 .. a - b /\ 0 <= c
        OBVIOUS
      <4>. QED
        BY <1>1, <1>2, <2>1, <4>1
    <3>. QED
      BY <1>1, <2>2, <2>4, <3>1, <3>2 DEF Searching
  <2>. QED
    BY <2>3, <2>4
<1>. QED
  BY <1>1, <1>3, <1>4

\* A frame published when a search or the block starts anew.
LEMMA HistoryAppended ==
  ASSUME Accounted, Published, Forgotten,
         UNCHANGED <<conf, rx, resets>>,
         nitemsRead' \in Nat, nitemsRead' >= nitemsRead,
         NEW f, out' = Append(out, f),
         f.start \in Nat, f.cnt \in Nat, f.start + f.cnt <= nitemsRead',
         AsSent(conf, rx, f), state # "SEARCHING", f.start = frameStart,
         conf.preamble = <<>> \/ state' = "SEARCHING"
  PROVE  Published' /\ Forgotten'
<1>1. nitemsRead \in Nat
  BY DEF Accounted
<1>2. \A a \in Nat : a <= nitemsRead => a <= nitemsRead'
  BY <1>1
<1>3. /\ IsSequence(out')
      /\ Len(out) \in Nat
      /\ Len(out') = Len(out) + 1
      /\ \A j \in 1 .. Len(out) : out'[j] = out[j]
      /\ out'[Len(out) + 1] = f
  BY SequenceAppend DEF Published
<1>4. \A j \in 1 .. Len(out') : j \in 1 .. Len(out) \/ j = Len(out) + 1
  BY <1>3
<1>5. Published'
  <2>. SUFFICES ASSUME NEW j \in 1 .. Len(out')
                PROVE  /\ out'[j].start \in Nat
                       /\ out'[j].cnt \in Nat
                       /\ out'[j].start + out'[j].cnt <= nitemsRead'
                       /\ AsSent(conf, rx, out'[j])
    BY <1>3 DEF Published
  <2>1. CASE j \in 1 .. Len(out)
    <3>. DEFINE end == out[j].start + out[j].cnt
    <3>1. /\ out[j].start \in Nat /\ out[j].cnt \in Nat
          /\ end <= nitemsRead
          /\ AsSent(conf, rx, out[j])
      BY <2>1 DEF Published
    <3>2. PICK a, b : a = out[j].start /\ b = out[j].cnt
      OBVIOUS
    <3>3. a + b \in Nat
      BY <3>1, <3>2
    <3>4. end \in Nat
      BY <3>2, <3>3
    <3>. HIDE DEF end
    <3>5. end <= nitemsRead'
      BY <1>2, <3>1, <3>4
    <3>. QED
      BY <1>3, <2>1, <3>1, <3>5 DEF end
  <2>2. CASE j = Len(out) + 1
    BY <1>3, <2>2
  <2>. QED
    BY <1>4, <2>1, <2>2
<1>6. Forgotten'
  <2>. SUFFICES ASSUME NEW r \in 1 .. Len(resets)
                PROVE  /\ resets[r].read \in Nat
                       /\ resets[r].read <= nitemsRead'
                       /\ resets[r].published \in Nat
                       /\ resets[r].published <= Len(out')
                       /\ conf.preamble # <<>> =>
                            \A j \in resets[r].published + 1 .. Len(out') :
                              out'[j].start >= resets[r].read
    BY DEF Forgotten
  <2>1. /\ resets[r].read \in Nat
        /\ resets[r].read <= nitemsRead
        /\ resets[r].published \in Nat
        /\ resets[r].published <= Len(out)
        /\ conf.preamble # <<>> => resets[r].read <= frameStart
        /\ conf.preamble # <<>> =>
             \A j \in resets[r].published + 1 .. Len(out) :
               out[j].start >= resets[r].read
    BY DEF Forgotten
  <2>2. resets[r].read <= nitemsRead'
    BY <1>2, <2>1
  <2>3. resets[r].published <= Len(out')
    BY <1>3, <2>1
  <2>4. ASSUME conf.preamble # <<>>,
               NEW j \in resets[r].published + 1 .. Len(out')
        PROVE  out'[j].start >= resets[r].read
    <3>1. j \in 1 .. Len(out')
      BY <1>3, <2>1
    <3>2. CASE j \in 1 .. Len(out)
      <4>1. j \in resets[r].published + 1 .. Len(out)
        BY <1>3, <2>1, <3>2
      <4>. QED
        BY <1>3, <2>1, <2>4, <3>2, <4>1
    <3>3. CASE j = Len(out) + 1
      <4>1. out'[j].start = frameStart /\ frameStart \in Nat
        BY <1>3, <3>3
      <4>2. resets[r].read <= frameStart
        BY <2>1, <2>4
      <4>. QED
        BY <2>1, <4>1, <4>2
    <3>. QED
      BY <1>4, <3>1, <3>2, <3>3
  <2>. QED
    BY <2>1, <2>2, <2>3, <2>4
<1>. QED
  BY <1>5, <1>6

-----------------------------------------------------------------------------
(* Every step keeps the invariant *)

LEMMA InitIInv == Init => IInv
<1>. SUFFICES ASSUME Init PROVE IInv
  OBVIOUS
<1>. USE DEF Init
<1>1. <<>> \in Seq(Bit) /\ Len(<<>>) = 0
  BY EmptySeq
<1>2. conf \in Configs
  OBVIOUS
<1>3. Accounted
  <2>1. Rest(<<>>, 0) = <<>>
    BY <1>1, RestNone
  <2>. QED
    BY <1>1, <2>1 DEF Accounted
<1>4. Started /\ Fresh /\ Receiving
  BY DEF Started, Fresh, Receiving, Hunting
<1>5. Searching
  <2>1. Len(conf.sync) \in Nat /\ SyncLimit \in Nat
    BY ConfProperties
  <2>2. Entered(rx, 0 - 0, 0, Len(conf.sync)) = Zeros(Len(conf.sync))
    <3>1. 0 - 0 = 0
      OBVIOUS
    <3>. QED
      BY <2>1, <3>1, EnteredNone
  <2>3. cnt \in 0 .. nitemsRead - frameStart /\ cnt <= SyncLimit
    BY <2>1
  <2>. QED
    BY <2>2, <2>3 DEF Searching, Hunting
<1>6. IsSequence(<<>>)
  BY <1>1, SequenceOver
<1>7. Published /\ Forgotten
  BY <1>1, <1>6 DEF Published, Forgotten
<1>. QED
  BY <1>3, <1>4, <1>5, <1>7 DEF IInv

\* Where the octets of a frame in progress lie.
LEMMA BodyProperties ==
  ASSUME Accounted, Started, Receiving, state = "DECODING_PAYLOAD"
  PROVE  /\ Len(pdu) \in Nat
         /\ Body \in Nat /\ Body >= 1
         /\ frameStart <= Body - 2
         /\ Body + 8 * Len(pdu) - 1 = nitemsRead
<1>1. Len(pdu) \in Nat /\ nitemsRead \in Nat /\ frameStart \in Nat
  BY LenProperties DEF Receiving, Accounted, Started
<1>2. Body \in Int /\ Body + 8 * Len(pdu) - 1 = nitemsRead
  BY <1>1 DEF Body
<1>3. frameStart <= Body - 2
  <2>1. PICK from \in frameStart .. Body - 2 : TRUE
    BY DEF Receiving, SyncInFront
  <2>. QED
    BY <1>1, <1>2, <2>1
<1>. QED
  BY <1>1, <1>2, <1>3

LEMMA SendKeepsIInv ==
  ASSUME IInv, NEW chunk \in Chunks, Send(chunk)
  PROVE  IInv'
<1>1. /\ chunk \in Seq(Bit) /\ rx \in Seq(Bit)
      /\ Len(rx) \in Nat /\ Len(chunk) \in Nat
      /\ nitemsRead \in Nat /\ nitemsRead <= Len(rx)
  BY DataAssumption, LenProperties DEF DataAssumption, IInv, Accounted
<1>2. /\ inp' = inp \o chunk /\ rx' = rx \o chunk
      /\ UNCHANGED <<state, preambleReg, syncReg, cnt, len, pdu, dsPos,
                     frameStart, nitemsRead, conf, resets, hunted, out>>
  BY DEF Send, objectVars
<1>3. rx' \in Seq(Bit) /\ Len(rx') = Len(rx) + Len(chunk)
  BY <1>1, <1>2, ConcatProperties
<1>4. /\ Len(conf.sync) \in Nat
      /\ SyncLimit' = SyncLimit /\ LengthField' = LengthField /\ Body' = Body
  BY <1>2, ConfProperties DEF IInv, Accounted, SyncLimit, LengthField, Body
<1>5. Accounted'
  <2>1. Rest(rx \o chunk, nitemsRead) = Rest(rx, nitemsRead) \o chunk
    BY <1>1, RestConcat
  <2>2. nitemsRead <= Len(rx')
    BY <1>1, <1>3
  <2>. QED
    BY <1>2, <1>3, <2>1, <2>2 DEF IInv, Accounted
<1>6. Started' /\ Fresh'
  BY <1>2 DEF IInv, Started, Fresh
<1>7. Searching'
  <2>1. ASSUME state = "SEARCHING_SYNC"
        PROVE  Entered(rx', nitemsRead - cnt, nitemsRead, Len(conf.sync))
                 = Entered(rx, nitemsRead - cnt, nitemsRead, Len(conf.sync))
    <3>1. cnt \in 0 .. nitemsRead - frameStart /\ frameStart \in Nat
      BY <2>1 DEF IInv, Searching, Started
    <3>2. nitemsRead - cnt \in Nat
      BY <1>1, <3>1
    <3>. QED
      BY <1>1, <1>2, <1>4, <3>2, EnteredStays
  <2>. QED
    BY <1>2, <1>4, <2>1 DEF IInv, Searching
<1>8. Receiving'
  <2>1. ASSUME state = "DECODING_GENERIC_FRAME_LEN"
        PROVE  SyncInFront(conf, rx', frameStart, nitemsRead + 1)
    <3>. DEFINE body == nitemsRead + 1
    <3>1. /\ body \in Nat /\ body >= 1 /\ body - 1 <= Len(rx)
          /\ frameStart \in Nat
      BY <1>1 DEF IInv, Started
    <3>2. SyncInFront(conf, rx, frameStart, body)
      BY <2>1 DEF IInv, Receiving
    <3>. HIDE DEF body
    <3>3. SyncInFront(conf, rx \o chunk, frameStart, body)
      BY <1>1, <1>4, <3>1, <3>2, SyncInFrontStays
    <3>. QED
      BY <1>2, <3>3 DEF body
  <2>2. ASSUME state = "DECODING_PAYLOAD"
        PROVE  /\ SyncInFront(conf, rx', frameStart, Body)
               /\ \A k \in 1 .. Len(pdu) :
                    OctetAt(rx', Body, k) = OctetAt(rx, Body, k)
    <3>1. /\ Len(pdu) \in Nat /\ Body \in Nat /\ Body >= 1
          /\ Body + 8 * Len(pdu) - 1 = nitemsRead
      BY <2>2, BodyProperties DEF IInv
    <3>2. Body - 1 <= Len(rx) /\ frameStart \in Nat
      BY <1>1, <3>1 DEF IInv, Started
    <3>3. SyncInFront(conf, rx, frameStart, Body)
      BY <2>2 DEF IInv, Receiving
    <3>4. SyncInFront(conf, rx \o chunk, frameStart, Body)
      BY <1>1, <1>4, <3>1, <3>2, <3>3, SyncInFrontStays
    <3>5. ASSUME NEW k \in 1 .. Len(pdu)
          PROVE  OctetAt(rx \o chunk, Body, k) = OctetAt(rx, Body, k)
      <4>1. k \in Nat /\ k >= 1 /\ Body + 8 * k - 1 <= Len(rx)
        BY <1>1, <3>1
      <4>. QED
        BY <1>1, <3>1, <4>1, OctetAtStays
    <3>. QED
      BY <1>2, <3>4, <3>5
  <2>3. ~ conf.varLen => len = conf.maxLen + CrcSize
    BY DEF IInv, Receiving
  <2>4. state = "DECODING_GENERIC_FRAME_LEN" => conf.varLen
    BY DEF IInv, Receiving
  <2>5. state = "DECODING_PAYLOAD" =>
          /\ dsPos = LengthField
          /\ pdu \in Seq(Byte)
          /\ conf.varLen => Len(pdu) >= 1 /\ len = pdu[1] + CrcSize
          /\ \A k \in 1 .. Len(pdu) :
               pdu[k] = IF k <= LengthField
                          THEN Descramble(0, OctetAt(rx, Body, k))
                          ELSE OctetAt(rx, Body, k)
    BY DEF IInv, Receiving
  <2>. HIDE DEF Body
  <2>. QED
    BY <1>2, <1>4, <2>1, <2>2, <2>3, <2>4, <2>5 DEF Receiving
<1>9. Published'
  <2>. SUFFICES ASSUME NEW j \in 1 .. Len(out)
                PROVE  AsSent(conf, rx \o chunk, out[j])
    BY <1>2 DEF IInv, Published
  <2>. DEFINE f == out[j]
  <2>1. /\ f.start \in Nat /\ f.cnt \in Nat
        /\ f.start + f.cnt <= nitemsRead
        /\ AsSent(conf, rx, f)
    BY DEF IInv, Published
  <2>. HIDE DEF f
  <2>2. f.start + f.cnt <= Len(rx)
    <3>1. \A a, b \in Nat : a + b <= nitemsRead => a + b <= Len(rx)
      BY <1>1
    <3>. QED
      BY <2>1, <3>1
  <2>3. AsSent(conf, rx \o chunk, f)
    BY <1>1, <1>4, <2>1, <2>2, AsSentStays
  <2>. QED
    BY <2>3 DEF f
<1>10. Forgotten'
  BY <1>2 DEF IInv, Forgotten
<1>. QED
  BY <1>5, <1>6, <1>7, <1>8, <1>9, <1>10 DEF IInv

LEMMA ResetKeepsIInv ==
  ASSUME IInv, Reset
  PROVE  IInv'
<1>1. /\ ResetObject
      /\ resets' = Append(resets, [read |-> nitemsRead, published |-> Len(out)])
      /\ UNCHANGED <<len, frameStart, nitemsRead, inp, conf, rx, out>>
  BY DEF Reset
<1>2. nitemsRead \in Nat /\ nitemsRead' >= nitemsRead
  BY <1>1 DEF IInv, Accounted
<1>3. Accounted'
  BY <1>1 DEF IInv, Accounted
<1>4. /\ Started' /\ Fresh' /\ Searching' /\ Receiving'
      /\ conf.preamble = <<>> \/ state' = "SEARCHING"
  BY <1>1, <1>2, <1>3, ResetObjectClears DEF IInv, Accounted, Receiving
<1>5. Published'
  BY <1>1, <1>4 DEF IInv, Published
<1>6. Forgotten'
  <2>. DEFINE new == [read |-> nitemsRead, published |-> Len(out)]
  <2>1. new.read = nitemsRead /\ new.published = Len(out)
    OBVIOUS
  <2>. HIDE DEF new
  <2>2. /\ IsSequence(resets')
        /\ Len(resets) \in Nat
        /\ Len(resets') = Len(resets) + 1
        /\ \A r \in 1 .. Len(resets) : resets'[r] = resets[r]
        /\ resets'[Len(resets) + 1] = new
    BY <1>1, SequenceAppend DEF IInv, Forgotten, new
  <2>3. Len(out) \in Nat
    BY LenProperties DEF IInv, Published, IsSequence
  <2>. SUFFICES ASSUME NEW r \in 1 .. Len(resets')
                PROVE  /\ resets'[r].read \in Nat
                       /\ resets'[r].read <= nitemsRead
                       /\ resets'[r].published \in Nat
                       /\ resets'[r].published <= Len(out)
                       /\ conf.preamble # <<>> =>
                            \A j \in resets'[r].published + 1 .. Len(out) :
                              out[j].start >= resets'[r].read
    BY <1>1, <1>4, <2>2 DEF Forgotten
  <2>4. CASE r \in 1 .. Len(resets)
    BY <2>2, <2>4 DEF IInv, Forgotten
  <2>5. CASE r = Len(resets) + 1
    <3>1. resets'[r].read = nitemsRead /\ resets'[r].published = Len(out)
      BY <2>1, <2>2, <2>5
    <3>2. Len(out) + 1 .. Len(out) = {}
      BY <2>3
    <3>. QED
      BY <1>2, <2>3, <3>1, <3>2
  <2>. QED
    BY <2>2, <2>4, <2>5
<1>. QED
  BY <1>3, <1>4, <1>5, <1>6 DEF IInv

\* What a call of work() with n octets of the buffer is handed.
Input(n) == SubSeq(inp, 1, 8 * n)

\* What holds of every step of a call that leaves the stream alone.
LEMMA WorkReads ==
  ASSUME IInv, NEW n \in 1 .. Len(inp) \div 8, NEW k \in 0 .. 8 * n,
         Consume(k), UNCHANGED <<conf, rx>>
  PROVE  /\ Input(n) \in Seq(Bit)
         /\ Len(Input(n)) = 8 * n
         /\ nitemsRead + 8 * n <= Len(rx)
         /\ \A j \in 1 .. 8 * n : Input(n)[j] = rx[nitemsRead + j]
         /\ Accounted'
         /\ nitemsRead \in Nat /\ nitemsRead' \in Nat
         /\ nitemsRead' = nitemsRead + k
         /\ nitemsRead' >= nitemsRead
<1>. DEFINE in == Input(n)
<1>1. /\ in \in Seq(Bit)
      /\ Len(in) = 8 * n
      /\ Len(inp) \in Nat
      /\ 8 * n <= Len(inp)
      /\ nitemsRead + Len(in) <= Len(rx)
      /\ \A j \in 1 .. Len(in) : in[j] = rx[nitemsRead + j]
  BY InputIsNext DEF IInv, Input
<1>. HIDE DEF in
<1>2. nitemsRead + 8 * n <= Len(rx) /\ \A j \in 1 .. 8 * n : in[j] = rx[nitemsRead + j]
  BY <1>1
<1>3. k \in 0 .. Len(inp)
  BY <1>1
<1>4. /\ Accounted'
      /\ nitemsRead' = nitemsRead + k
      /\ nitemsRead' \in Nat
      /\ nitemsRead' >= nitemsRead
  BY <1>3, ConsumeAccounts DEF IInv
<1>5. nitemsRead \in Nat
  BY DEF IInv, Accounted
<1>. QED
  BY <1>1, <1>2, <1>4, <1>5 DEF in

LEMMA NoPreambleKeepsIInv ==
  ASSUME IInv, NEW n \in 1 .. Len(inp) \div 8, NoPreamble(Input(n))
  PROVE  IInv'
<1>. DEFINE in == Input(n)
            m == Len(in)
<1>1. /\ state = "SEARCHING" /\ Consume(m)
      /\ UNCHANGED <<state, syncReg, cnt, len, pdu, dsPos, frameStart, conf, rx,
                     resets, out>>
  BY DEF NoPreamble, env
<1>2. m = 8 * n /\ m \in 0 .. 8 * n
  <2>1. Len(Input(n)) = 8 * n
    BY InputIsNext DEF IInv, Input
  <2>. QED
    BY <2>1
<1>. HIDE DEF m
<1>3. /\ Accounted' /\ nitemsRead' >= nitemsRead
      /\ nitemsRead \in Nat /\ nitemsRead' \in Nat
  BY <1>1, <1>2, WorkReads
<1>4. Started'
  <2>1. frameStart \in Nat /\ frameStart <= nitemsRead
    BY DEF IInv, Started
  <2>2. \A a, b, c \in Nat : a <= b /\ c >= b => a <= c
    OBVIOUS
  <2>. QED
    BY <1>1, <1>3, <2>1, <2>2 DEF IInv, Started
<1>5. Fresh' /\ Searching' /\ Receiving'
  BY <1>1 DEF IInv, Fresh, Searching, Receiving
<1>6. Published' /\ Forgotten'
  BY <1>1, <1>3, HistoryKept DEF IInv
<1>. QED
  BY <1>3, <1>4, <1>5, <1>6 DEF IInv

LEMMA PreambleFoundKeepsIInv ==
  ASSUME IInv, NEW n \in 1 .. Len(inp) \div 8, PreambleFound(Input(n))
  PROVE  IInv'
<1>. DEFINE k == Min(PreamblesIn(Input(n)))
<1>1. /\ state = "SEARCHING" /\ state' = "SEARCHING_SYNC" /\ cnt' = 0
      /\ PreamblesIn(Input(n)) # {}
      /\ frameStart' = nitemsRead + k /\ Consume(k)
      /\ UNCHANGED <<syncReg, len, pdu, dsPos, conf, rx, resets, out>>
  BY DEF PreambleFound, env
<1>2. k \in 1 .. 8 * n
  <2>1. Len(Input(n)) = 8 * n
    BY InputIsNext DEF IInv, Input
  <2>2. PreamblesIn(Input(n)) \subseteq 1 .. 8 * n
    BY <2>1 DEF PreamblesIn
  <2>3. PreamblesIn(Input(n)) \subseteq Nat
    BY <2>2
  <2>. QED
    BY <1>1, <2>2, <2>3, MinProperties
<1>. HIDE DEF k
<1>3. /\ Accounted' /\ nitemsRead' >= nitemsRead
      /\ nitemsRead \in Nat /\ nitemsRead' \in Nat
      /\ nitemsRead' = nitemsRead + k
  <2>1. k \in 0 .. 8 * n
    BY <1>2
  <2>. QED
    BY <1>1, <2>1, WorkReads
<1>4. frameStart' = nitemsRead'
  BY <1>1, <1>3
<1>5. Started' /\ Fresh' /\ Receiving'
  BY <1>1, <1>3, <1>4 DEF IInv, Started, Fresh, Receiving
<1>6. Searching'
  <2>1. conf.preamble # <<>> /\ syncReg = Zeros(Len(conf.sync))
    BY <1>1 DEF IInv, Searching
  <2>2. Len(conf.sync) \in Nat /\ SyncLimit \in Nat /\ SyncLimit' = SyncLimit
    BY <1>1, ConfProperties DEF IInv, Accounted, SyncLimit
  <2>3. \A a, b \in Nat : a - 0 = a /\ a - a = 0 /\ 0 \in 0 .. a - a /\ 0 <= b
    OBVIOUS
  <2>4. syncReg' = Entered(rx', nitemsRead' - 0, nitemsRead', Len(conf.sync))
    BY <1>1, <1>3, <2>1, <2>2, <2>3, EnteredNone
  <2>. QED
    BY <1>1, <1>3, <1>4, <2>2, <2>3, <2>4 DEF Searching
<1>7. Published' /\ Forgotten'
  BY <1>1, <1>3, <1>4, HistoryKept DEF IInv
<1>. QED
  BY <1>3, <1>5, <1>6, <1>7 DEF IInv

\* The register after the first k bits that a search is handed.
LEMMA SearchShifts ==
  ASSUME IInv, state = "SEARCHING_SYNC", NEW n \in 1 .. Len(inp) \div 8,
         NEW k \in 0 .. 8 * n
  PROVE  /\ cnt \in Nat /\ cnt <= nitemsRead - frameStart /\ cnt <= SyncLimit
         /\ conf.preamble # <<>> => cnt = nitemsRead - frameStart
         /\ Shifted(syncReg, Input(n), k)
              = Entered(rx, nitemsRead - cnt, nitemsRead + k, Len(conf.sync))
<1>1. /\ nitemsRead \in Nat /\ frameStart \in Nat
      /\ cnt \in 0 .. nitemsRead - frameStart
      /\ cnt <= SyncLimit
      /\ conf.preamble # <<>> => cnt = nitemsRead - frameStart
      /\ syncReg = Entered(rx, nitemsRead - cnt, nitemsRead, Len(conf.sync))
      /\ rx \in Seq(Bit)
  BY DEF IInv, Accounted, Started, Searching
<1>. DEFINE in == Input(n)
            from == nitemsRead - cnt
<1>2. /\ in \in Seq(Bit)
      /\ Len(in) = 8 * n
      /\ nitemsRead + Len(in) <= Len(rx)
      /\ \A j \in 1 .. Len(in) : in[j] = rx[nitemsRead + j]
  BY InputIsNext DEF IInv, Input
<1>3. from \in Nat /\ from <= nitemsRead /\ cnt \in Nat
      /\ cnt <= nitemsRead - frameStart
  BY <1>1
<1>4. k \in 0 .. Len(in) /\ Len(conf.sync) \in Nat
  BY <1>2, ConfProperties DEF IInv, Accounted
<1>. DEFINE w == Len(conf.sync)
            at == nitemsRead
<1>5. w \in Nat /\ at \in Nat /\ from <= at
  BY <1>1, <1>3, <1>4
<1>6. at + Len(in) <= Len(rx) /\ \A j \in 1 .. Len(in) : in[j] = rx[at + j]
  BY <1>2
<1>. HIDE DEF in, from, w, at
<1>7. Shifted(Entered(rx, from, at, w), in, k) = Entered(rx, from, at + k, w)
  <2>1. /\ rx \in Seq(Bit) /\ from \in Nat /\ at \in Nat
        /\ in \in Seq(Bit) /\ w \in Nat /\ k \in 0 .. Len(in)
    BY <1>1, <1>2, <1>3, <1>4, <1>5
  <2>. QED
    BY <1>5, <1>6, <2>1, EnteredShifts
<1>8. Shifted(Entered(rx, from, nitemsRead, Len(conf.sync)), in, k)
        = Entered(rx, from, nitemsRead + k, Len(conf.sync))
  BY <1>7 DEF w, at
<1>. QED
  BY <1>1, <1>3, <1>8 DEF in, from

LEMMA NoSyncKeepsIInv ==
  ASSUME IInv, NEW n \in 1 .. Len(inp) \div 8, NoSync(Input(n))
  PROVE  IInv'
<1>. DEFINE in == Input(n)
            m == Len(in)
<1>1. /\ state = "SEARCHING_SYNC" /\ Consume(m) /\ SyncEnds(in) = {}
      /\ syncReg' = Shifted(syncReg, in, m) /\ cnt' = cnt + m
      /\ UNCHANGED <<state, len, pdu, dsPos, frameStart, conf, rx, resets, out>>
  BY DEF NoSync, env
<1>2. m = 8 * n /\ m \in 0 .. 8 * n /\ m \in 1 .. m /\ m \in Nat
  <2>1. Len(Input(n)) = 8 * n
    BY InputIsNext DEF IInv, Input
  <2>. QED
    BY <2>1
<1>3. ~ (cnt + m > SyncLimit)
  BY <1>1, <1>2 DEF SyncEnds
<1>. HIDE DEF m, in
<1>4. /\ Accounted' /\ nitemsRead' >= nitemsRead
      /\ nitemsRead \in Nat /\ nitemsRead' \in Nat
      /\ nitemsRead' = nitemsRead + m
  BY <1>1, <1>2, WorkReads
<1>5. /\ cnt \in Nat /\ cnt <= nitemsRead - frameStart
      /\ conf.preamble # <<>> => cnt = nitemsRead - frameStart
      /\ syncReg' = Entered(rx, nitemsRead - cnt, nitemsRead + m, Len(conf.sync))
  BY <1>1, <1>2, SearchShifts DEF in
<1>6. frameStart \in Nat /\ frameStart <= nitemsRead /\ SyncLimit \in Nat
  BY ConfProperties DEF IInv, Accounted, Started
<1>7. Started'
  <2>1. \A a, b, c \in Nat : a <= b /\ c >= b => a <= c
    OBVIOUS
  <2>. QED
    BY <1>1, <1>4, <1>6, <2>1 DEF IInv, Started
<1>8. Fresh' /\ Receiving'
  BY <1>1 DEF IInv, Fresh, Receiving
<1>9. Searching'
  <2>1. SyncLimit' = SyncLimit
    BY <1>1 DEF SyncLimit
  <2>2. /\ cnt + m \in 0 .. nitemsRead + m - frameStart
        /\ cnt + m <= SyncLimit
        /\ cnt = nitemsRead - frameStart => cnt + m = nitemsRead + m - frameStart
        /\ nitemsRead + m - (cnt + m) = nitemsRead - cnt
    BY <1>2, <1>3, <1>4, <1>5, <1>6
  <2>3. cnt' = cnt + m /\ nitemsRead' = nitemsRead + m
    BY <1>1, <1>4
  <2>4. /\ cnt' \in 0 .. nitemsRead' - frameStart'
        /\ cnt' <= SyncLimit'
        /\ conf.preamble # <<>> => cnt' = nitemsRead' - frameStart'
    BY <1>1, <1>2, <1>4, <1>5, <1>6, <2>1, <2>2, <2>3
  <2>5. nitemsRead' - cnt' = nitemsRead - cnt
    BY <1>2, <1>4, <1>5, <2>2, <2>3
  <2>6. syncReg' = Entered(rx', nitemsRead' - cnt', nitemsRead', Len(conf'.sync))
    BY <1>1, <1>5, <2>3, <2>5
  <2>. QED
    BY <1>1, <2>4, <2>6 DEF Searching
<1>10. Published' /\ Forgotten'
  BY <1>1, <1>4, HistoryKept DEF IInv
<1>. QED
  BY <1>4, <1>7, <1>8, <1>9, <1>10 DEF IInv

LEMMA SyncFoundKeepsIInv ==
  ASSUME IInv, NEW n \in 1 .. Len(inp) \div 8, SyncFound(Input(n))
  PROVE  IInv'
<1>. DEFINE in == Input(n)
            k == Min(SyncEnds(in))
<1>1. /\ state = "SEARCHING_SYNC" /\ Consume(k) /\ SyncEnds(in) # {}
      /\ IsSyncAt(in, k)
      /\ state' = IF conf.varLen THEN "DECODING_GENERIC_FRAME_LEN"
                                 ELSE "DECODING_PAYLOAD"
      /\ UNCHANGED <<len, pdu, dsPos, frameStart, conf, rx, resets, out>>
  BY DEF SyncFound, env
<1>2. /\ k \in 1 .. 8 * n
      /\ \A j \in SyncEnds(in) : k <= j
  <2>1. Len(in) = 8 * n
    BY InputIsNext DEF IInv, Input
  <2>2. SyncEnds(in) \subseteq 1 .. 8 * n
    BY <2>1 DEF SyncEnds
  <2>3. SyncEnds(in) \subseteq Nat
    BY <2>2
  <2>. QED
    BY <1>1, <2>2, <2>3, MinProperties
<1>. HIDE DEF k
<1>3. /\ Accounted' /\ nitemsRead' >= nitemsRead
      /\ nitemsRead \in Nat /\ nitemsRead' \in Nat
      /\ nitemsRead' = nitemsRead + k
      /\ Len(in) = 8 * n
  <2>1. k \in 0 .. 8 * n
    BY <1>2
  <2>. QED
    BY <1>1, <2>1, WorkReads
<1>4. /\ cnt \in Nat /\ cnt <= nitemsRead - frameStart /\ cnt <= SyncLimit
      /\ conf.preamble # <<>> => cnt = nitemsRead - frameStart
      /\ Shifted(syncReg, in, k)
           = Entered(rx, nitemsRead - cnt, nitemsRead + k, Len(conf.sync))
  <2>1. k \in 0 .. 8 * n
    BY <1>2
  <2>. QED
    BY <1>1, <2>1, SearchShifts
<1>5. /\ frameStart \in Nat /\ frameStart <= nitemsRead /\ SyncLimit \in Nat
      /\ LengthField = IF conf.varLen THEN 1 ELSE 0
      /\ LengthField' = LengthField
  BY <1>1, ConfProperties DEF IInv, Accounted, Started, LengthField
<1>6. cnt + k <= SyncLimit + 1
  <2>1. CASE k = 1
    BY <1>4, <1>5, <2>1
  <2>2. CASE k # 1
    <3>1. k - 1 \in 1 .. 8 * n /\ ~ (k <= k - 1)
      BY <1>2, <2>2
    <3>2. ~ (k - 1 \in SyncEnds(in))
      BY <1>2, <3>1
    <3>3. ~ (cnt + (k - 1) > SyncLimit)
      BY <1>3, <3>1, <3>2 DEF SyncEnds
    <3>. QED
      BY <1>2, <1>4, <1>5, <3>3
  <2>. QED
    BY <2>1, <2>2
<1>. HIDE DEF in
<1>7. SyncInFront(conf, rx, frameStart, nitemsRead + k + 1)
  <2>. DEFINE from == nitemsRead - cnt
              body == nitemsRead + k + 1
  <2>1. /\ from \in frameStart .. body - 2
        /\ conf.preamble # <<>> => from = frameStart
        /\ body - 1 - from = cnt + k
        /\ body - 1 = nitemsRead + k
    BY <1>2, <1>3, <1>4, <1>5
  <2>2. Distance(Entered(rx, from, body - 1, Len(conf.sync)), conf.sync)
          <= conf.syncThrsh
    BY <1>1, <1>4, <2>1 DEF IsSyncAt
  <2>3. body - 1 - from
          <= 2 * Len(conf.preamble) + Len(conf.sync) + conf.syncThrsh + 1
    BY <1>6, <2>1 DEF SyncLimit
  <2>. HIDE DEF from, body
  <2>4. SyncInFront(conf, rx, frameStart, body)
    BY <2>1, <2>2, <2>3 DEF SyncInFront
  <2>. QED
    BY <2>4 DEF body
<1>8. Started'
  <2>1. \A a, b, c \in Nat : a <= b /\ c >= b => a <= c
    OBVIOUS
  <2>. QED
    BY <1>1, <1>3, <1>5, <2>1 DEF Started
<1>9. pdu = <<>> /\ dsPos = 0
  BY <1>1 DEF IInv, Fresh
<1>10. Fresh' /\ Searching'
  BY <1>1, <1>9 DEF Fresh, Searching
<1>11. Receiving'
  <2>1. ~ conf.varLen => len = conf.maxLen + CrcSize
    BY DEF IInv, Receiving
  <2>2. <<>> \in Seq(Byte) /\ Len(<<>>) = 0 /\ 1 .. 0 = {}
    BY EmptySeq
  <2>3. Body' = nitemsRead + k + 1
    <3>1. \A a, b \in Nat : a + b + 1 - 8 * 0 = a + b + 1
      OBVIOUS
    <3>2. Body' = nitemsRead + k + 1 - 8 * 0
      BY <1>1, <1>3, <1>9, <2>2 DEF Body
    <3>. QED
      BY <1>2, <1>3, <3>1, <3>2
  <2>4. conf.varLen => SyncInFront(conf, rx, frameStart, nitemsRead' + 1)
    BY <1>3, <1>7
  <2>. HIDE DEF Body
  <2>. QED
    BY <1>1, <1>5, <1>7, <1>9, <2>1, <2>2, <2>3, <2>4 DEF Receiving
<1>12. Published' /\ Forgotten'
  BY <1>1, <1>3, HistoryKept DEF IInv
<1>. QED
  BY <1>3, <1>8, <1>10, <1>11, <1>12 DEF IInv

LEMMA SyncOverdueKeepsIInv ==
  ASSUME IInv, NEW n \in 1 .. Len(inp) \div 8, SyncOverdue(Input(n))
  PROVE  IInv'
<1>. DEFINE in == Input(n)
            k == Min(SyncEnds(in))
<1>1. /\ state = "SEARCHING_SYNC" /\ Consume(k) /\ SyncEnds(in) # {}
      /\ ResetObject
      /\ UNCHANGED <<len, frameStart, conf, rx, resets, out>>
  BY DEF SyncOverdue, env
<1>2. k \in 0 .. 8 * n
  <2>1. Len(in) = 8 * n
    BY InputIsNext DEF IInv, Input
  <2>2. SyncEnds(in) \subseteq 0 .. 8 * n
    BY <2>1 DEF SyncEnds
  <2>3. SyncEnds(in) \subseteq Nat
    BY <2>2
  <2>. QED
    BY <1>1, <2>2, <2>3, MinProperties
<1>. HIDE DEF k
<1>3. /\ Accounted' /\ nitemsRead' >= nitemsRead
      /\ nitemsRead \in Nat /\ nitemsRead' \in Nat
  BY <1>1, <1>2, WorkReads
<1>4. /\ Started' /\ Fresh' /\ Searching' /\ Receiving'
      /\ conf.preamble = <<>> \/ state' = "SEARCHING"
  BY <1>1, <1>3, ResetObjectClears DEF IInv, Accounted, Receiving
<1>5. Published' /\ Forgotten'
  BY <1>1, <1>3, <1>4, HistoryKept DEF IInv
<1>. QED
  BY <1>3, <1>4, <1>5 DEF IInv

LEMMA FrameLenKeepsIInv ==
  ASSUME IInv, NEW n \in 1 .. Len(inp) \div 8, FrameLen(Input(n))
  PROVE  IInv'
<1>. DEFINE in == Input(n)
            octet == OctetAt(rx, nitemsRead + 1, 1)
            length == Descramble(0, octet)
<1>1. /\ state = "DECODING_GENERIC_FRAME_LEN" /\ state' = "DECODING_PAYLOAD"
      /\ len' = Descramble(dsPos, OctetOf(SubSeq(in, 1, 8))) + CrcSize
      /\ pdu' = <<Descramble(dsPos, OctetOf(SubSeq(in, 1, 8)))>>
      /\ dsPos' = dsPos + 1 /\ Consume(8)
      /\ UNCHANGED <<frameStart, conf, rx, resets, out>>
  BY DEF FrameLen, env
<1>2. /\ Accounted' /\ nitemsRead' >= nitemsRead
      /\ nitemsRead \in Nat /\ nitemsRead' \in Nat
      /\ nitemsRead' = nitemsRead + 8
      /\ rx \in Seq(Bit) /\ in \in Seq(Bit) /\ Len(in) = 8 * n
      /\ nitemsRead + 8 * n <= Len(rx)
      /\ \A j \in 1 .. 8 * n : in[j] = rx[nitemsRead + j]
  <2>1. n \in Nat /\ n >= 1 /\ 8 \in 0 .. 8 * n
    OBVIOUS
  <2>2. rx \in Seq(Bit)
    BY DEF IInv, Accounted
  <2>. QED
    BY <1>1, <2>1, <2>2, WorkReads
<1>3. /\ conf.varLen /\ dsPos = 0 /\ LengthField = 1 /\ LengthField' = 1
      /\ frameStart \in Nat /\ frameStart <= nitemsRead
      /\ SyncInFront(conf, rx, frameStart, nitemsRead + 1)
  BY <1>1 DEF IInv, Receiving, Fresh, Started, LengthField
<1>. HIDE DEF in
<1>4. OctetOf(SubSeq(in, 1, 8)) = octet /\ octet \in Byte
  <2>1. /\ nitemsRead + Len(in) <= Len(rx) /\ (8 * n) \div 8 = n
        /\ \A j \in 1 .. Len(in) : in[j] = rx[nitemsRead + j]
    <3>1. (8 * n) \div 8 = n
      OBVIOUS
    <3>. QED
      BY <1>2, <3>1
  <2>2. /\ Octets(in) \in Seq(Byte)
        /\ Len(Octets(in)) = Len(in) \div 8
        /\ \A k \in 1 .. Len(in) \div 8 :
             Octets(in)[k] = OctetAt(rx, nitemsRead + 1, k)
    BY <1>2, <2>1, OctetsOfPiece
  <2>3. Len(in) \div 8 = n /\ 1 \in 1 .. n
    BY <1>2, <2>1
  <2>4. Octets(in)[1] = octet /\ Octets(in)[1] \in Byte
    BY <2>2, <2>3, ElementOfSeq
  <2>5. Octets(in)[1] = OctetOf(SubSeq(in, 8 * 1 - 7, 8 * 1))
    BY <2>3 DEF Octets
  <2>6. 8 * 1 - 7 = 1 /\ 8 * 1 = 8
    OBVIOUS
  <2>. QED
    BY <2>4, <2>5, <2>6
<1>. HIDE DEF octet
<1>5. length \in Byte /\ len' = length + CrcSize /\ pdu' = <<length>>
      /\ dsPos' = 1
  BY <1>1, <1>3, <1>4, DataAssumption DEF DataAssumption
<1>. HIDE DEF length
<1>6. Started' /\ Fresh' /\ Searching'
  <2>1. \A a, b, c \in Nat : a <= b /\ c >= b => a <= c
    OBVIOUS
  <2>. QED
    BY <1>1, <1>2, <1>3, <2>1 DEF Started, Fresh, Searching
<1>7. Receiving'
  <2>1. pdu' \in Seq(Byte) /\ Len(pdu') = 1 /\ pdu'[1] = length
    BY <1>5
  <2>2. Body' = nitemsRead + 1
    <3>1. Body' = nitemsRead + 8 + 1 - 8 * 1
      BY <1>2, <2>1 DEF Body
    <3>. QED
      BY <1>2, <3>1
  <2>3. \A k \in 1 .. 1 : k = 1 /\ k <= 1
    OBVIOUS
  <2>4. pdu'[1] = Descramble(0, OctetAt(rx', Body', 1))
    BY <1>1, <2>1, <2>2 DEF length, octet
  <2>5. \A k \in 1 .. Len(pdu') :
          pdu'[k] = IF k <= LengthField'
                      THEN Descramble(0, OctetAt(rx', Body', k))
                      ELSE OctetAt(rx', Body', k)
    BY <1>3, <2>1, <2>3, <2>4
  <2>6. SyncInFront(conf', rx', frameStart', Body')
    BY <1>1, <1>3, <2>2
  <2>7. Len(pdu') >= 1
    BY <2>1
  <2>. HIDE DEF Body
  <2>. QED
    BY <1>1, <1>3, <1>5, <2>1, <2>5, <2>6, <2>7 DEF Receiving
<1>8. Published' /\ Forgotten'
  BY <1>1, <1>2, HistoryKept DEF IInv
<1>. QED
  BY <1>2, <1>6, <1>7, <1>8 DEF IInv

\* The octets read next go behind those in d_pdu.
LEMMA PduGrows ==
  ASSUME IInv, state = "DECODING_PAYLOAD",
         NEW piece \in Seq(Bit), nitemsRead + Len(piece) <= Len(rx),
         \A j \in 1 .. Len(piece) : piece[j] = rx[nitemsRead + j]
  PROVE  LET all == pdu \o Octets(piece)
             total == Len(pdu) + Len(piece) \div 8
         IN  /\ all \in Seq(Byte)
             /\ Len(all) = total
             /\ Len(pdu) >= 1 => all[1] = pdu[1]
             /\ \A k \in 1 .. total :
                  all[k] = IF k <= LengthField
                             THEN Descramble(0, OctetAt(rx, Body, k))
                             ELSE OctetAt(rx, Body, k)
<1>. DEFINE new == Octets(piece)
            all == pdu \o new
            m == Len(piece) \div 8
<1>1. /\ rx \in Seq(Bit) /\ nitemsRead \in Nat /\ Len(piece) \in Nat
      /\ m \in Nat
  <2>1. Len(piece) \in Nat
    BY LenProperties
  <2>. QED
    BY <2>1 DEF IInv, Accounted
<1>2. /\ new \in Seq(Byte)
      /\ Len(new) = m
      /\ \A k \in 1 .. m : new[k] = OctetAt(rx, nitemsRead + 1, k)
  BY <1>1, OctetsOfPiece
<1>3. /\ Len(pdu) \in Nat /\ Body \in Nat
      /\ Body + 8 * Len(pdu) - 1 = nitemsRead
      /\ pdu \in Seq(Byte)
      /\ conf.varLen => Len(pdu) >= 1
      /\ \A k \in 1 .. Len(pdu) :
           pdu[k] = IF k <= LengthField
                      THEN Descramble(0, OctetAt(rx, Body, k))
                      ELSE OctetAt(rx, Body, k)
  BY BodyProperties DEF IInv, Receiving
<1>4. LengthField <= Len(pdu) /\ LengthField \in 0 .. 1
  BY <1>3 DEF LengthField
<1>. HIDE DEF new, m, Body, LengthField
<1>5. /\ all \in Seq(Byte)
      /\ Len(all) = Len(pdu) + m
      /\ \A k \in 1 .. Len(pdu) + m :
           all[k] = IF k <= Len(pdu) THEN pdu[k] ELSE new[k - Len(pdu)]
  <2>1. /\ all \in Seq(Byte)
        /\ Len(all) = Len(pdu) + Len(new)
        /\ \A k \in 1 .. Len(pdu) + Len(new) :
             all[k] = IF k <= Len(pdu) THEN pdu[k] ELSE new[k - Len(pdu)]
    <3>1. pdu \in Seq(Byte) /\ new \in Seq(Byte)
      BY <1>2, <1>3
    <3>. QED
      BY ONLY <3>1, ConcatProperties DEF all
  <2>. HIDE DEF all
  <2>. QED
    BY <1>2, <2>1
<1>. HIDE DEF all
<1>6. Len(pdu) >= 1 => all[1] = pdu[1]
  BY <1>1, <1>3, <1>5
<1>7. ASSUME NEW k \in 1 .. Len(pdu) + m
      PROVE  all[k] = IF k <= LengthField
                        THEN Descramble(0, OctetAt(rx, Body, k))
                        ELSE OctetAt(rx, Body, k)
  <2>1. CASE k <= Len(pdu)
    <3>1. k \in 1 .. Len(pdu)
      BY <1>1, <1>3, <2>1
    <3>2. all[k] = pdu[k]
      BY <1>5, <2>1
    <3>. QED
      BY <1>3, <3>1, <3>2
  <2>2. CASE ~ (k <= Len(pdu))
    <3>1. k - Len(pdu) \in 1 .. m /\ ~ (k <= LengthField)
      BY <1>1, <1>3, <1>4, <2>2
    <3>2. all[k] = OctetAt(rx, nitemsRead + 1, k - Len(pdu))
      BY <1>2, <1>5, <2>2, <3>1
    <3>3. /\ nitemsRead + 1 + 8 * (k - Len(pdu) - 1) = Body + 8 * (k - 1)
          /\ nitemsRead + 1 + 8 * (k - Len(pdu)) - 1 = Body + 8 * k - 1
      <4>1. \A a, b, l, j \in Int :
              b + 8 * l - 1 = a =>
                /\ a + 1 + 8 * (j - l - 1) = b + 8 * (j - 1)
                /\ a + 1 + 8 * (j - l) - 1 = b + 8 * j - 1
        OBVIOUS
      <4>2. k \in Int /\ Len(pdu) \in Int /\ Body \in Int /\ nitemsRead \in Int
        BY <1>1, <1>3
      <4>. QED
        BY <1>3, <4>1, <4>2
    <3>4. OctetAt(rx, nitemsRead + 1, k - Len(pdu)) = OctetAt(rx, Body, k)
      BY <3>3 DEF OctetAt
    <3>. QED
      BY <3>1, <3>2, <3>4
  <2>. QED
    BY <2>1, <2>2
<1>. QED
  BY <1>5, <1>6, <1>7 DEF all, new, m

LEMMA PayloadPartKeepsIInv ==
  ASSUME IInv, NEW n \in 1 .. Len(inp) \div 8, PayloadPart(Input(n))
  PROVE  IInv'
<1>. DEFINE in == Input(n)
<1>1. /\ state = "DECODING_PAYLOAD" /\ pdu' = pdu \o Octets(in)
      /\ Consume(8 * (Len(in) \div 8))
      /\ UNCHANGED <<state, len, dsPos, frameStart, conf, rx, resets, out>>
  BY DEF PayloadPart, env
<1>2. Len(in) = 8 * n /\ Len(in) \div 8 = n
  <2>1. Len(in) = 8 * n
    BY InputIsNext DEF IInv, Input
  <2>2. (8 * n) \div 8 = n
    OBVIOUS
  <2>. QED
    BY <2>1, <2>2
<1>3. /\ Accounted' /\ nitemsRead' >= nitemsRead
      /\ nitemsRead \in Nat /\ nitemsRead' \in Nat
      /\ nitemsRead' = nitemsRead + 8 * n
      /\ in \in Seq(Bit)
      /\ nitemsRead + 8 * n <= Len(rx)
      /\ \A j \in 1 .. 8 * n : in[j] = rx[nitemsRead + j]
  <2>1. 8 * n \in 0 .. 8 * n /\ Consume(8 * n)
    BY <1>1, <1>2
  <2>. QED
    BY <1>1, <2>1, WorkReads
<1>. HIDE DEF in
<1>4. /\ pdu' \in Seq(Byte)
      /\ Len(pdu') = Len(pdu) + n
      /\ Len(pdu) >= 1 => pdu'[1] = pdu[1]
      /\ \A k \in 1 .. Len(pdu) + n :
           pdu'[k] = IF k <= LengthField
                       THEN Descramble(0, OctetAt(rx, Body, k))
                       ELSE OctetAt(rx, Body, k)
  <2>1. /\ nitemsRead + Len(in) <= Len(rx)
        /\ \A j \in 1 .. Len(in) : in[j] = rx[nitemsRead + j]
    BY <1>2, <1>3
  <2>2. LET all == pdu \o Octets(in)
            total == Len(pdu) + Len(in) \div 8
        IN  /\ all \in Seq(Byte)
            /\ Len(all) = total
            /\ Len(pdu) >= 1 => all[1] = pdu[1]
            /\ \A k \in 1 .. total :
                 all[k] = IF k <= LengthField
                            THEN Descramble(0, OctetAt(rx, Body, k))
                            ELSE OctetAt(rx, Body, k)
    BY <1>1, <1>3, <2>1, PduGrows
  <2>. HIDE DEF LengthField, Body
  <2>. QED
    BY <1>1, <1>2, <2>2
<1>5. /\ Len(pdu) \in Nat /\ Body \in Nat
      /\ Body + 8 * Len(pdu) - 1 = nitemsRead
      /\ frameStart \in Nat /\ frameStart <= nitemsRead
  BY <1>1, BodyProperties DEF IInv, Started
<1>6. Body' = Body
  <2>1. Body' = nitemsRead + 8 * n + 1 - 8 * (Len(pdu) + n)
    BY <1>3, <1>4 DEF Body
  <2>2. Body = nitemsRead + 1 - 8 * Len(pdu)
    BY DEF Body
  <2>. QED
    BY <1>3, <1>5, <2>1, <2>2
<1>7. Started' /\ Fresh' /\ Searching'
  <2>1. \A a, b, c \in Nat : a <= b /\ c >= b => a <= c
    OBVIOUS
  <2>. QED
    BY <1>1, <1>3, <1>5, <2>1 DEF Started, Fresh, Searching
<1>8. Receiving'
  <2>1. LengthField' = LengthField
    BY <1>1 DEF LengthField
  <2>2. /\ ~ conf.varLen => len = conf.maxLen + CrcSize
        /\ dsPos = LengthField
        /\ SyncInFront(conf, rx, frameStart, Body)
        /\ conf.varLen => Len(pdu) >= 1 /\ len = pdu[1] + CrcSize
    BY <1>1 DEF IInv, Receiving
  <2>3. conf.varLen => Len(pdu') >= 1 /\ len = pdu'[1] + CrcSize
    <3>1. Len(pdu) >= 1 => Len(pdu) + n >= 1
      BY <1>5
    <3>. QED
      BY <1>4, <2>2, <3>1
  <2>4. \A k \in 1 .. Len(pdu') :
          pdu'[k] = IF k <= LengthField
                      THEN Descramble(0, OctetAt(rx, Body, k))
                      ELSE OctetAt(rx, Body, k)
    BY <1>4
  <2>. HIDE DEF Body, LengthField
  <2>. QED
    BY <1>1, <1>4, <1>6, <2>1, <2>2, <2>3, <2>4 DEF Receiving
<1>9. Published' /\ Forgotten'
  BY <1>1, <1>3, HistoryKept DEF IInv
<1>. QED
  BY <1>3, <1>7, <1>8, <1>9 DEF IInv

\* The frame in d_pdu, descrambled, is what was sent.
LEMMA ReceivedIsSent ==
  ASSUME NEW all \in Seq(Byte), NEW body,
         dsPos = LengthField, LengthField \in 0 .. 1, LengthField <= Len(all),
         \A k \in 1 .. Len(all) :
           all[k] = IF k <= LengthField
                      THEN Descramble(0, OctetAt(rx, body, k))
                      ELSE OctetAt(rx, body, k)
  PROVE  /\ Received(all) = SentOf(rx, body, Len(all))
         /\ Len(SentOf(rx, body, Len(all))) = Len(all)
<1>. DEFINE total == Len(all)
            field == LengthField
            S == Byte \cup {Descramble(k - 1, OctetAt(rx, body, k)) : k \in 1 .. total}
            head == SubSeq(all, 1, field)
            tail == SubSeq(all, field + 1, total)
            plain == Descrambled(tail, dsPos)
            goal == SentOf(rx, body, total)
<1>1. total \in Nat /\ field \in Nat /\ field <= 1 /\ field <= total
  BY LenProperties
<1>2. all \in Seq(S)
  BY SeqMonotonic
<1>3. /\ head \in Seq(S)
      /\ Len(head) = field
      /\ \A k \in 1 .. field : head[k] = all[k]
  <2>1. /\ SubSeq(all, 1, field) \in Seq(S)
        /\ Len(SubSeq(all, 1, field)) = field - 1 + 1
        /\ \A k \in 1 .. field - 1 + 1 : SubSeq(all, 1, field)[k] = all[1 + k - 1]
    <3>1. 1 <= field + 1 /\ 1 \in Nat /\ 1 >= 1
      BY <1>1
    <3>. HIDE DEF field, S
    <3>. QED
      BY <1>1, <1>2, <3>1, PieceProperties
  <2>2. field - 1 + 1 = field /\ \A k \in 1 .. field : 1 + k - 1 = k
    BY <1>1
  <2>. QED
    BY <2>1, <2>2
<1>4. /\ tail \in Seq(Byte)
      /\ Len(tail) = total - field
      /\ \A k \in 1 .. total - field : tail[k] = all[field + k]
  <2>. DEFINE at == field + 1
  <2>1. at \in Nat /\ at >= 1 /\ at <= total + 1 /\ total - at + 1 = total - field
        /\ \A k \in 1 .. total - field : at + k - 1 = field + k
    BY <1>1
  <2>. HIDE DEF at, total
  <2>2. /\ SubSeq(all, at, total) \in Seq(Byte)
        /\ Len(SubSeq(all, at, total)) = total - at + 1
        /\ \A k \in 1 .. total - at + 1 :
             SubSeq(all, at, total)[k] = all[at + k - 1]
    <3>1. total <= Len(all)
      BY <1>1 DEF total
    <3>. QED
      BY <1>1, <2>1, <3>1, PieceProperties
  <2>3. /\ Len(SubSeq(all, at, total)) = total - field
        /\ \A k \in 1 .. total - field : SubSeq(all, at, total)[k] = all[field + k]
    BY <2>1, <2>2
  <2>. QED
    BY <2>2, <2>3 DEF at
<1>5. ASSUME NEW k \in 1 .. total - field
      PROVE  /\ Descramble(dsPos + k - 1, tail[k])
                  = Descramble(field + k - 1, OctetAt(rx, body, field + k))
             /\ Descramble(dsPos + k - 1, tail[k]) \in S
  <2>1. field + k \in 1 .. total /\ ~ (field + k <= field)
    BY <1>1
  <2>2. tail[k] = OctetAt(rx, body, field + k)
    BY <1>4, <2>1
  <2>3. dsPos = field
    OBVIOUS
  <2>. QED
    BY <2>1, <2>2, <2>3
<1>6. /\ plain \in Seq(S)
      /\ Len(plain) = total - field
      /\ \A k \in 1 .. total - field :
           plain[k] = Descramble(field + k - 1, OctetAt(rx, body, field + k))
  <2>1. plain = [k \in 1 .. total - field |-> Descramble(dsPos + k - 1, tail[k])]
    BY <1>4 DEF Descrambled
  <2>2. plain \in [1 .. total - field -> S]
    BY <1>5, <2>1
  <2>3. total - field \in Nat
    BY <1>1
  <2>4. plain \in Seq(S) /\ Len(plain) = total - field
    BY <2>2, <2>3, FunctionSequence
  <2>. QED
    BY <1>5, <2>1, <2>4
<1>7. /\ goal \in Seq(S) /\ Len(goal) = total
      /\ \A k \in 1 .. total :
           goal[k] = Descramble(k - 1, OctetAt(rx, body, k))
  <2>1. goal \in [1 .. total -> S]
    BY DEF SentOf
  <2>2. goal \in Seq(S) /\ Len(goal) = total
    BY <1>1, <2>1, FunctionSequence
  <2>. QED
    BY <2>2 DEF SentOf
<1>8. Received(all) = head \o plain
  BY DEF Received
<1>9. \A k \in 1 .. field : all[k] = Descramble(0, OctetAt(rx, body, k))
  BY <1>1
<1>. HIDE DEF total, field, S, head, tail, plain, goal
<1>. DEFINE both == head \o plain
<1>10. /\ both \in Seq(S)
       /\ Len(both) = Len(head) + Len(plain)
       /\ \A k \in 1 .. Len(head) + Len(plain) :
            both[k] = IF k <= Len(head) THEN head[k] ELSE plain[k - Len(head)]
  BY <1>3, <1>6, ConcatProperties
<1>. HIDE DEF both
<1>11. Len(both) = total
  BY <1>1, <1>3, <1>6, <1>10
<1>12. ASSUME NEW k \in 1 .. Len(both)
       PROVE  both[k] = goal[k]
  <2>1. /\ k \in 1 .. total /\ total \in Nat
        /\ both[k] = IF k <= field THEN head[k] ELSE plain[k - field]
        /\ goal[k] = Descramble(k - 1, OctetAt(rx, body, k))
    BY <1>1, <1>3, <1>6, <1>7, <1>10, <1>11
  <2>2. CASE k <= field
    <3>1. k \in 1 .. field /\ k - 1 = 0
      BY <1>1, <2>1, <2>2
    <3>. QED
      BY <1>3, <1>9, <2>1, <2>2, <3>1
  <2>3. CASE ~ (k <= field)
    <3>1. k - field \in 1 .. total - field /\ field + (k - field) = k
          /\ field + (k - field) - 1 = k - 1
      BY <1>1, <2>1, <2>3
    <3>. QED
      BY <1>6, <2>1, <2>3, <3>1
  <2>. QED
    BY <2>2, <2>3
<1>13. both = goal
  BY <1>7, <1>10, <1>11, <1>12, SeqEqual
<1>. QED
  BY <1>7, <1>8, <1>13 DEF both, goal, total

\* A frame that is complete is as sent, and ends where the call stops reading.
LEMMA CompleteIsAsSent ==
  ASSUME IInv, state = "DECODING_PAYLOAD", NEW n \in 1 .. Len(inp) \div 8,
         Missing \in 1 .. n
  PROVE  LET all == pdu \o Octets(SubSeq(Input(n), 1, 8 * Missing))
             f == Metadata(Received(all), nitemsRead + 8 * Missing)
         IN  /\ f.start = frameStart
             /\ f.cnt \in Nat
             /\ f.start + f.cnt = nitemsRead + 8 * Missing
             /\ CheckCrc(Received(all)) \/ ~ conf.dropInvalid
                  => AsSent(conf, rx, f)
<1>. DEFINE m == Missing
            piece == SubSeq(Input(n), 1, 8 * m)
            all == pdu \o Octets(piece)
            total == Len(pdu) + m
            octets == Received(all)
            end == nitemsRead + 8 * m
            f == Metadata(octets, end)
<1>1. /\ Len(pdu) \in Nat /\ Body \in Nat /\ Body >= 1
      /\ frameStart <= Body - 2 /\ frameStart \in Nat
      /\ Body + 8 * Len(pdu) - 1 = nitemsRead
      /\ nitemsRead \in Nat
  BY BodyProperties DEF IInv, Started, Accounted
<1>2. /\ m \in Nat /\ m >= 1 /\ m <= n
  OBVIOUS
<1>3. m = len + LengthField - Len(pdu)
  BY DEF Missing
<1>. HIDE DEF m
<1>4. /\ piece \in Seq(Bit)
      /\ Len(piece) = 8 * m
      /\ \A j \in 1 .. 8 * m : piece[j] = rx[nitemsRead + j]
      /\ nitemsRead + 8 * m <= Len(rx)
  <2>. DEFINE in == Input(n)
              last == 8 * m
  <2>1. /\ in \in Seq(Bit)
        /\ Len(in) = 8 * n
        /\ nitemsRead + Len(in) <= Len(rx)
        /\ \A j \in 1 .. Len(in) : in[j] = rx[nitemsRead + j]
    BY InputIsNext DEF IInv, Input
  <2>. HIDE DEF in
  <2>2. /\ last \in Nat /\ 1 <= last + 1 /\ last <= Len(in)
        /\ last - 1 + 1 = last
        /\ \A j \in 1 .. last : 1 + j - 1 = j /\ j \in 1 .. Len(in)
    BY <1>2, <2>1
  <2>3. nitemsRead + last <= Len(rx)
    <3>1. Len(rx) \in Nat
      BY LenProperties DEF IInv, Accounted
    <3>. QED
      BY <1>1, <1>2, <2>1, <3>1
  <2>. HIDE DEF last
  <2>4. /\ SubSeq(in, 1, last) \in Seq(Bit)
        /\ Len(SubSeq(in, 1, last)) = last - 1 + 1
        /\ \A j \in 1 .. last - 1 + 1 : SubSeq(in, 1, last)[j] = in[1 + j - 1]
    <3>1. 1 \in Nat /\ 1 >= 1
      OBVIOUS
    <3>. QED
      BY <2>1, <2>2, <3>1, PieceProperties
  <2>5. \A j \in 1 .. last : SubSeq(in, 1, last)[j] = rx[nitemsRead + j]
    BY <2>1, <2>2, <2>4
  <2>. QED
    BY <2>2, <2>3, <2>4, <2>5 DEF in, last
<1>5. Len(piece) \div 8 = m
  <2>1. (8 * m) \div 8 = m
    BY <1>2
  <2>. QED
    BY <1>4, <2>1
<1>. HIDE DEF piece
<1>6. /\ all \in Seq(Byte)
      /\ Len(all) = total
      /\ Len(pdu) >= 1 => all[1] = pdu[1]
      /\ \A k \in 1 .. total :
           all[k] = IF k <= LengthField
                      THEN Descramble(0, OctetAt(rx, Body, k))
                      ELSE OctetAt(rx, Body, k)
  <2>1. /\ nitemsRead + Len(piece) <= Len(rx)
        /\ \A j \in 1 .. Len(piece) : piece[j] = rx[nitemsRead + j]
    BY <1>4
  <2>. HIDE DEF LengthField, Body
  <2>2. LET a == pdu \o Octets(piece)
            t == Len(pdu) + Len(piece) \div 8
        IN  /\ a \in Seq(Byte)
            /\ Len(a) = t
            /\ Len(pdu) >= 1 => a[1] = pdu[1]
            /\ \A k \in 1 .. t :
                 a[k] = IF k <= LengthField
                          THEN Descramble(0, OctetAt(rx, Body, k))
                          ELSE OctetAt(rx, Body, k)
    BY <1>4, <2>1, PduGrows
  <2>. QED
    BY <1>5, <2>2
<1>. HIDE DEF all
<1>7. /\ LengthField = IF conf.varLen THEN 1 ELSE 0
      /\ LengthField \in 0 .. 1 /\ dsPos = LengthField
      /\ CrcSize \in Nat
      /\ ~ conf.varLen => len = conf.maxLen + CrcSize
      /\ conf.varLen => Len(pdu) >= 1 /\ len = pdu[1] + CrcSize
      /\ SyncInFront(conf, rx, frameStart, Body)
      /\ conf.maxLen \in Nat
  BY DataAssumption, ConfProperties
  DEF IInv, Receiving, Accounted, LengthField, DataAssumption
<1>8. /\ octets = SentOf(rx, Body, total)
      /\ Len(octets) = total
      /\ total \in Nat /\ total >= 1
  <2>1. total \in Nat /\ total >= 1 /\ LengthField <= total
    BY <1>1, <1>2, <1>7
  <2>. HIDE DEF total, Body, LengthField
  <2>2. LengthField <= Len(all)
    BY <1>6, <2>1
  <2>3. \A k \in 1 .. Len(all) :
          all[k] = IF k <= LengthField
                     THEN Descramble(0, OctetAt(rx, Body, k))
                     ELSE OctetAt(rx, Body, k)
    BY <1>6
  <2>4. /\ Received(all) = SentOf(rx, Body, Len(all))
        /\ Len(SentOf(rx, Body, Len(all))) = Len(all)
    BY <1>6, <1>7, <2>2, <2>3, ReceivedIsSent
  <2>. QED
    BY <1>6, <2>1, <2>4
<1>9. total = LengthField + CrcSize
                + (IF conf.varLen THEN octets[1] ELSE conf.maxLen)
  <2>1. total = len + LengthField
    <3>1. CASE conf.varLen
      <4>1. pdu[1] \in Byte
        <5>1. pdu \in Seq(Byte) /\ 1 \in 1 .. Len(pdu)
          BY <1>1, <1>7, <3>1 DEF IInv, Receiving
        <5>. QED
          BY <5>1, ElementOfSeq
      <4>2. len \in Int
        <5>1. \A a \in 0 .. 255, b \in Nat : a + b \in Int
          OBVIOUS
        <5>. QED
          BY <1>7, <3>1, <4>1, <5>1 DEF Byte
      <4>. QED
        BY <1>1, <1>3, <1>7, <4>2
    <3>2. CASE ~ conf.varLen
      BY <1>1, <1>3, <1>7, <3>2
    <3>. QED
      BY <3>1, <3>2
  <2>2. CASE conf.varLen
    <3>1. octets[1] = Descramble(1 - 1, OctetAt(rx, Body, 1))
      BY <1>8 DEF SentOf
    <3>2. 1 - 1 = 0
      OBVIOUS
    <3>3. pdu[1] = Descramble(0, OctetAt(rx, Body, 1))
      <4>1. 1 \in 1 .. total /\ 1 <= LengthField
        BY <1>7, <1>8, <2>2
      <4>2. all[1] = Descramble(0, OctetAt(rx, Body, 1))
        BY <1>6, <4>1
      <4>. QED
        BY <1>6, <1>7, <2>2, <4>2
    <3>4. octets[1] = pdu[1] /\ pdu[1] \in Byte
      <4>1. pdu \in Seq(Byte) /\ 1 \in 1 .. Len(pdu)
        BY <1>1, <1>7, <2>2 DEF IInv, Receiving
      <4>2. pdu[1] \in Byte
        BY <4>1, ElementOfSeq
      <4>. QED
        BY <3>1, <3>2, <3>3, <4>2
    <3>. HIDE DEF octets, total
    <3>5. \A a \in 0 .. 255, b \in Nat : (a + b) + 1 = 1 + b + a
      OBVIOUS
    <3>6. pdu[1] \in 0 .. 255 /\ total = (pdu[1] + CrcSize) + 1
      BY <1>7, <2>1, <2>2, <3>4 DEF Byte
    <3>. QED
      BY <1>7, <2>2, <3>4, <3>5, <3>6
  <2>3. CASE ~ conf.varLen
    BY <1>7, <2>1, <2>3
  <2>. QED
    BY <2>2, <2>3
<1>10. /\ f.start = frameStart
       /\ f.cnt = end - frameStart
       /\ f.crcValid = CheckCrc(octets)
       /\ f.pdu = SubSeq(octets, LengthField + 1,
                         IF CheckCrc(octets) THEN Len(octets) - CrcSize
                                             ELSE Len(octets))
  BY DEF Metadata
<1>. HIDE DEF f
<1>11. /\ f.cnt \in Nat
       /\ f.start + f.cnt = end
       /\ end - 8 * total + 1 = Body
       /\ total \in 1 .. f.cnt \div 8
  <2>. HIDE DEF octets
  <2>1. /\ end \in Nat /\ frameStart <= end
        /\ Body = end - 8 * total + 1
        /\ 8 * total <= end - frameStart
    <3>1. \A a, b, l, j, s \in Nat :
            b + 8 * l - 1 = a /\ s <= b - 2 =>
              /\ a + 8 * j \in Nat /\ s <= a + 8 * j
              /\ b = a + 8 * j - 8 * (l + j) + 1
              /\ 8 * (l + j) <= a + 8 * j - s
      OBVIOUS
    <3>. HIDE DEF Body
    <3>. QED
      BY <1>1, <1>2, <3>1
  <2>. HIDE DEF end, total, Body
  <2>2. end - frameStart \in Nat /\ frameStart + (end - frameStart) = end
    BY <1>1, <2>1
  <2>3. total <= (end - frameStart) \div 8
    BY <1>1, <1>8, <2>1, <2>2
  <2>. QED
    BY <1>8, <1>10, <2>1, <2>2, <2>3
<1>12. ASSUME CheckCrc(octets) \/ ~ conf.dropInvalid
       PROVE  AsSent(conf, rx, f)
  <2>. DEFINE size == total - CrcSize
              good == \/ CrcSize = 0
                      \/ Crc(SubSeq(octets, 1, size)) = SubSeq(octets, size + 1, total)
  <2>1. CheckCrc(octets) = good
    <3>1. Len(octets) - CrcSize = size /\ size + CrcSize = total
      BY <1>7, <1>8
    <3>2. good \in BOOLEAN
      OBVIOUS
    <3>. HIDE DEF size
    <3>. QED
      BY <3>1 DEF CheckCrc
  <2>2. /\ f.crcValid = good
        /\ f.crcValid \/ ~ conf.dropInvalid
        /\ f.pdu = SubSeq(octets, LengthField + 1,
                          IF f.crcValid THEN size ELSE total)
    BY <1>8, <1>10, <1>12, <2>1
  <2>3. SyncInFront(conf, rx, f.start, Body)
    BY <1>7, <1>10
  <2>. HIDE DEF total, end, Body, LengthField
  <2>. DEFINE last == f.start + f.cnt
              first == last - 8 * total + 1
  <2>4. last = end
    BY <1>11
  <2>. HIDE DEF last
  <2>5. first = Body
    BY <1>11, <2>4
  <2>. HIDE DEF first
  <2>6. octets = SentOf(rx, first, total)
    BY <1>8, <2>5
  <2>7. SyncInFront(conf, rx, f.start, first)
    BY <2>3, <2>5
  <2>. HIDE DEF octets
  <2>8. LET field == IF conf.varLen THEN 1 ELSE 0
        IN  /\ total = field + CrcSize
                        + (IF conf.varLen THEN octets[1] ELSE conf.maxLen)
            /\ SyncInFront(conf, rx, f.start, first)
            /\ f.crcValid = good
            /\ f.crcValid \/ ~ conf.dropInvalid
            /\ f.pdu = SubSeq(octets, field + 1,
                              IF f.crcValid THEN size ELSE total)
    BY <1>7, <1>9, <2>2, <2>7
  <2>9. total \in 1 .. f.cnt \div 8
    BY <1>11
  <2>. QED
    BY <2>6, <2>8, <2>9 DEF AsSent, first, last
<1>. QED
  BY <1>10, <1>11, <1>12 DEF f, end, octets, all, piece, m

LEMMA PayloadCompleteKeepsIInv ==
  ASSUME IInv, NEW n \in 1 .. Len(inp) \div 8, PayloadComplete(Input(n))
  PROVE  IInv'
<1>. DEFINE in == Input(n)
            all == pdu \o Octets(SubSeq(in, 1, 8 * Missing))
            f == Metadata(Received(all), nitemsRead + 8 * Missing)
<1>1. /\ state = "DECODING_PAYLOAD" /\ Missing \in 1 .. Len(in) \div 8
      /\ \/ out' = out
         \/ /\ CheckCrc(Received(all)) \/ ~ conf.dropInvalid
            /\ out' = Append(out, f)
      /\ Consume(8 * Missing) /\ ResetObject
      /\ UNCHANGED <<len, frameStart, conf, rx, resets>>
  BY DEF PayloadComplete, env
<1>2. Missing \in 1 .. n
  <2>1. Len(in) = 8 * n
    BY InputIsNext DEF IInv, Input
  <2>2. (8 * n) \div 8 = n
    OBVIOUS
  <2>. HIDE DEF in
  <2>. QED
    BY <1>1, <2>1, <2>2
<1>3. /\ Accounted' /\ nitemsRead' >= nitemsRead
      /\ nitemsRead \in Nat /\ nitemsRead' \in Nat
      /\ nitemsRead' = nitemsRead + 8 * Missing
  <2>1. 8 * Missing \in 0 .. 8 * n
    BY <1>2
  <2>. QED
    BY <1>1, <2>1, WorkReads
<1>4. /\ f.start = frameStart
      /\ f.cnt \in Nat
      /\ f.start + f.cnt = nitemsRead + 8 * Missing
      /\ CheckCrc(Received(all)) \/ ~ conf.dropInvalid => AsSent(conf, rx, f)
  BY <1>1, <1>2, CompleteIsAsSent
<1>. HIDE DEF f, in
<1>5. /\ Started' /\ Fresh' /\ Searching' /\ Receiving'
      /\ conf.preamble = <<>> \/ state' = "SEARCHING"
  BY <1>1, <1>3, ResetObjectClears DEF IInv, Accounted, Receiving
<1>6. Published' /\ Forgotten'
  <2>1. CASE out' = out
    BY <1>1, <1>3, <1>5, <2>1, HistoryKept DEF IInv
  <2>2. CASE out' = Append(out, f) /\ AsSent(conf, rx, f)
    <3>1. frameStart \in Nat
      BY DEF IInv, Started
    <3>2. f.start + f.cnt <= nitemsRead' /\ f.start \in Nat
      <4>1. nitemsRead' <= nitemsRead'
        BY <1>3
      <4>. QED
        BY <1>3, <1>4, <3>1, <4>1
    <3>. QED
      BY <1>1, <1>3, <1>4, <1>5, <2>2, <3>2, HistoryAppended DEF IInv
  <2>. QED
    BY <1>1, <1>4, <2>1, <2>2
<1>. QED
  BY <1>3, <1>5, <1>6 DEF IInv

LEMMA NextIInv == IInv /\ [Next]_vars => IInv'
<1>. SUFFICES ASSUME IInv, [Next]_vars PROVE IInv'
  OBVIOUS
<1>1. CASE \E chunk \in Chunks : Send(chunk)
  BY <1>1, SendKeepsIInv
<1>2. CASE Reset
  BY <1>2, ResetKeepsIInv
<1>3. CASE Run
  <2>1. PICK n \in 1 .. Len(inp) \div 8 : Work(Input(n))
    BY <1>3 DEF Run, Input
  <2>. QED
    BY <2>1, NoPreambleKeepsIInv, PreambleFoundKeepsIInv, NoSyncKeepsIInv,
       SyncFoundKeepsIInv, SyncOverdueKeepsIInv, FrameLenKeepsIInv,
       PayloadPartKeepsIInv, PayloadCompleteKeepsIInv DEF Work
<1>4. CASE UNCHANGED vars
  <2>. USE <1>4 DEF vars, objectVars, env
  <2>1. Accounted' /\ Started' /\ Fresh'
    BY DEF IInv, Accounted, Started, Fresh
  <2>2. Searching'
    BY DEF IInv, Searching, SyncLimit
  <2>3. Receiving'
    BY DEF IInv, Receiving, Body, LengthField
  <2>4. Published' /\ Forgotten'
    BY DEF IInv, Published, Forgotten
  <2>. QED
    BY <2>1, <2>2, <2>3, <2>4 DEF IInv
<1>. QED
  BY <1>1, <1>2, <1>3, <1>4 DEF Next

-----------------------------------------------------------------------------
(* The theorems *)

\* The inductive invariant holds in every behaviour of the decoder.
THEOREM Invariance == Spec => []IInv
<1>1. Init => IInv
  BY InitIInv
<1>2. IInv /\ [Next]_vars => IInv'
  BY NextIInv
<1>. QED
  BY <1>1, <1>2, PTL DEF Spec

LEMMA AsSentIsAsSent ==
  ASSUME Accounted, NEW f, f.start \in Nat, f.cnt \in Nat,
         f.start + f.cnt <= nitemsRead, AsSent(conf, rx, f)
  PROVE  IsAsSent(f)
<1>. DEFINE end == f.start + f.cnt
<1>1. PICK n \in 1 .. f.cnt \div 8 :
        LET octets == SentOf(rx, end - 8 * n + 1, n)
            field == IF conf.varLen THEN 1 ELSE 0
            body == n - CrcSize
            good == \/ CrcSize = 0
                    \/ Crc(SubSeq(octets, 1, body)) = SubSeq(octets, body + 1, n)
        IN  /\ n = field + CrcSize
                     + (IF conf.varLen THEN octets[1] ELSE conf.maxLen)
            /\ SyncInFront(conf, rx, f.start, end - 8 * n + 1)
            /\ f.crcValid = good
            /\ f.crcValid \/ ~ conf.dropInvalid
            /\ f.pdu = SubSeq(octets, field + 1, IF f.crcValid THEN body ELSE n)
  BY DEF AsSent
<1>. DEFINE first == end - 8 * n + 1
            octets == SentOf(rx, first, n)
<1>2. /\ n \in Nat /\ first \in Nat /\ first >= 1
      /\ first + 8 * n - 1 <= Len(rx)
      /\ rx \in Seq(Bit)
  <2>1. nitemsRead \in Nat /\ nitemsRead <= Len(rx) /\ rx \in Seq(Bit)
    BY DEF Accounted
  <2>2. Len(rx) \in Nat
    BY <2>1, LenProperties
  <2>. QED
    BY <2>1, <2>2
<1>. HIDE DEF first
<1>3. Sent(first, n) = octets
  BY <1>2, SentIsSentOf
<1>4. Len(octets) = n
  <2>1. octets \in [1 .. n -> {octets[k] : k \in 1 .. n}]
    BY DEF SentOf
  <2>. HIDE DEF octets
  <2>. QED
    BY <1>2, <2>1, FunctionSequence
<1>. HIDE DEF octets
<1>5. Total(octets) = (IF conf.varLen THEN 1 ELSE 0) + CrcSize
                        + (IF conf.varLen THEN octets[1] ELSE conf.maxLen)
  BY DEF Total, LengthField
<1>6. /\ n = Total(octets)
      /\ SyncInFront(conf, rx, f.start, first)
      /\ f.crcValid = GoodCrc(octets)
      /\ f.crcValid \/ ~ conf.dropInvalid
      /\ f.pdu = IF f.crcValid
                   THEN Payload(octets)
                   ELSE SubSeq(octets, LengthField + 1, n)
  BY <1>1, <1>4, <1>5 DEF first, octets, GoodCrc, Payload, LengthField
<1>. QED
  BY <1>3, <1>6 DEF IsAsSent, first

\* For every configuration: each frame published is the bits up to its end,
\* descrambled from the start of the whitening, behind a sync word as near and
\* as close to sample_start as the search allows, with the right crc_valid.
THEOREM FramesAreAsSent == Spec => []FrameFaithful
<1>1. IInv => FrameFaithful
  <2>. SUFFICES ASSUME IInv, NEW j \in 1 .. Len(out)
                PROVE  IsAsSent(out[j])
    BY DEF FrameFaithful
  <2>1. /\ out[j].start \in Nat /\ out[j].cnt \in Nat
        /\ out[j].start + out[j].cnt <= nitemsRead
        /\ AsSent(conf, rx, out[j])
    BY DEF IInv, Published
  <2>. QED
    BY <2>1, AsSentIsAsSent DEF IInv
<1>. QED
  BY <1>1, Invariance, PTL

\* With a preamble, nothing that began before a reset is published after it.
THEOREM ResetsForget == Spec => []ResetForgets
<1>1. IInv => ResetForgets
  BY DEF IInv, Forgotten, ResetForgets
<1>. QED
  BY <1>1, Invariance, PTL

-----------------------------------------------------------------------------
(* The refinement *)

Span(f) == [start |-> f.start, cnt |-> f.cnt]

\* A call of decode() moves the read cursor forward over what it was handed,
\* and only a frame that is complete is published.
LEMMA WorkAdvances ==
  ASSUME IInv, NEW n \in 1 .. Len(inp) \div 8, Work(Input(n))
  PROVE  /\ nitemsRead' >= nitemsRead
         /\ UNCHANGED <<conf, rx>>
         /\ out' = out \/ PayloadComplete(Input(n))
<1>. DEFINE in == Input(n)
            top == 8 * n
<1>1. /\ Len(in) = top /\ top \in Nat /\ top >= 8
      /\ top \div 8 \in Nat /\ 8 * (top \div 8) <= top
  <2>1. Len(in) = top
    BY InputIsNext DEF IInv, Input
  <2>. HIDE DEF in
  <2>2. n \in Nat /\ n >= 1
    OBVIOUS
  <2>3. top \in Nat /\ top >= 8
    BY <2>2
  <2>. HIDE DEF top
  <2>. QED
    BY <2>1, <2>3
<1>. HIDE DEF in, top
<1>2. /\ UNCHANGED <<conf, rx>>
      /\ out' = out \/ PayloadComplete(in)
  BY DEF Work, NoPreamble, PreambleFound, NoSync, SyncFound, SyncOverdue,
         FrameLen, PayloadPart, PayloadComplete, env, in
<1>3. \A k \in 0 .. top : nitemsRead' = nitemsRead + k => nitemsRead' >= nitemsRead
  BY <1>1 DEF IInv, Accounted
<1>4. \A T \in SUBSET (1 .. top) : T # {} => Min(T) \in 0 .. top
  <2>. SUFFICES ASSUME NEW T \in SUBSET (1 .. top), T # {}
                PROVE  Min(T) \in 0 .. top
    OBVIOUS
  <2>1. T \subseteq Nat
    BY <1>1
  <2>2. Min(T) \in T
    BY <2>1, MinProperties
  <2>3. Min(T) \in 1 .. top
    BY <2>2
  <2>. QED
    BY <1>1, <2>3
<1>5. Len(in) \in 0 .. top /\ 8 \in 0 .. top /\ 8 * (Len(in) \div 8) \in 0 .. top
  BY <1>1
<1>6. nitemsRead' >= nitemsRead
  <2>1. CASE NoPreamble(in) \/ NoSync(in)
    <3>1. Consume(Len(in))
      BY <2>1 DEF NoPreamble, NoSync
    <3>. QED
      BY <1>3, <1>5, <3>1 DEF Consume
  <2>2. CASE PreambleFound(in)
    <3>1. PreamblesIn(in) \in SUBSET (1 .. top)
      BY <1>1 DEF PreamblesIn
    <3>2. PreamblesIn(in) # {} /\ Consume(Min(PreamblesIn(in)))
      BY <2>2 DEF PreambleFound
    <3>3. Min(PreamblesIn(in)) \in 0 .. top
      BY <1>4, <3>1, <3>2
    <3>. QED
      BY <1>3, <3>2, <3>3 DEF Consume
  <2>3. CASE SyncFound(in) \/ SyncOverdue(in)
    <3>1. SyncEnds(in) \in SUBSET (1 .. top)
      BY <1>1 DEF SyncEnds
    <3>2. SyncEnds(in) # {} /\ Consume(Min(SyncEnds(in)))
      BY <2>3 DEF SyncFound, SyncOverdue
    <3>3. Min(SyncEnds(in)) \in 0 .. top
      BY <1>4, <3>1, <3>2
    <3>. QED
      BY <1>3, <3>2, <3>3 DEF Consume
  <2>4. CASE FrameLen(in)
    <3>1. Consume(8)
      BY <2>4 DEF FrameLen
    <3>. QED
      BY <1>3, <1>5, <3>1 DEF Consume
  <2>5. CASE PayloadPart(in)
    <3>1. Consume(8 * (Len(in) \div 8))
      BY <2>5 DEF PayloadPart
    <3>. QED
      BY <1>3, <1>5, <3>1 DEF Consume
  <2>6. CASE PayloadComplete(in)
    <3>1. Missing \in 1 .. Len(in) \div 8 /\ Consume(8 * Missing)
      BY <2>6 DEF PayloadComplete
    <3>. HIDE DEF Missing
    <3>2. 8 * Missing \in 0 .. top
      <4>1. Missing \in Nat /\ Missing <= top \div 8
        BY <1>1, <3>1
      <4>2. \A a, c, t \in Nat : a <= c /\ 8 * c <= t => 8 * a \in 0 .. t
        OBVIOUS
      <4>. QED
        BY <1>1, <4>1, <4>2
    <3>. QED
      BY <1>3, <3>1, <3>2 DEF Consume
  <2>. QED
    BY <2>1, <2>2, <2>3, <2>4, <2>5, <2>6 DEF Work, in
<1>. QED
  BY <1>2, <1>6 DEF in

\* The ranges are those of the frames, one by one, if there is a preamble.
LEMMA SpansOfFrames ==
  ASSUME IsSequence(out), conf.preamble # <<>>
  PROVE  /\ IsSequence(Spans)
         /\ Len(Spans) = Len(out)
         /\ \A j \in 1 .. Len(out) : Spans[j] = Span(out[j])
<1>1. Len(out) \in Nat
  BY LenProperties DEF IsSequence
<1>. DEFINE S == {Span(out[j]) : j \in 1 .. Len(out)}
<1>2. Spans \in [1 .. Len(out) -> S]
  BY DEF Spans, Span
<1>. HIDE DEF S
<1>3. Spans \in Seq(S) /\ Len(Spans) = Len(out)
  BY <1>1, <1>2, FunctionSequence
<1>4. IsSequence(Spans)
  BY <1>3, SequenceOver
<1>. QED
  BY <1>3, <1>4 DEF Spans, Span

LEMMA SpansWithoutPreamble ==
  ASSUME conf.preamble = <<>>
  PROVE  Spans = <<>>
<1>. DEFINE f == [j \in 1 .. 0 |-> Span(out[j])]
<1>1. Spans = f
  BY DEF Spans, Span
<1>2. f \in [1 .. 0 -> {}]
  OBVIOUS
<1>. HIDE DEF f
<1>3. f \in Seq({}) /\ Len(f) = 0
  BY <1>2, FunctionSequence
<1>. QED
  BY <1>1, <1>3, EmptySeq

LEMMA InitRefines == Init => Contract!Init
<1>. SUFFICES ASSUME Init PROVE Contract!Init
  OBVIOUS
<1>1. Len(rx) = 0 /\ nitemsRead = 0
  BY EmptySeq DEF Init
<1>2. Spans = <<>>
  <2>1. CASE conf.preamble # <<>>
    <3>1. IsSequence(out) /\ Len(out) = 0
      <4>1. out \in Seq({}) /\ Len(out) = 0
        BY EmptySeq DEF Init
      <4>. QED
        BY <4>1, SequenceOver
    <3>2. IsSequence(Spans) /\ Len(Spans) = 0
      BY <2>1, <3>1, SpansOfFrames
    <3>. QED
      BY <3>2, EmptySeq DEF IsSequence
  <2>2. CASE conf.preamble = <<>>
    BY <2>2, SpansWithoutPreamble
  <2>. QED
    BY <2>1, <2>2
<1>. QED
  BY <1>1, <1>2 DEF Contract!Init

\* More frames, more ranges.
LEMMA SpansAppend ==
  ASSUME IsSequence(out), conf.preamble # <<>>, conf' = conf,
         NEW f, out' = Append(out, f)
  PROVE  Spans' = Append(Spans, Span(f))
<1>1. /\ IsSequence(out') /\ Len(out) \in Nat
      /\ Len(out') = Len(out) + 1
      /\ \A j \in 1 .. Len(out) : out'[j] = out[j]
      /\ out'[Len(out) + 1] = f
  BY SequenceAppend
<1>2. /\ IsSequence(Spans)
      /\ Len(Spans) = Len(out)
      /\ \A j \in 1 .. Len(out) : Spans[j] = Span(out[j])
  BY SpansOfFrames
<1>. DEFINE S == {Span(out'[j]) : j \in 1 .. Len(out')}
            g == [j \in 1 .. Len(out') |-> Span(out'[j])]
<1>3. Spans' = g
  BY DEF Spans, Span
<1>4. g \in Seq(S) /\ Len(g) = Len(out')
  <2>1. g \in [1 .. Len(out') -> S] /\ Len(out') \in Nat
    BY <1>1
  <2>. HIDE DEF g, S
  <2>. QED
    BY <2>1, FunctionSequence
<1>5. \A j \in 1 .. Len(out') : g[j] = Span(out'[j])
  OBVIOUS
<1>6. IsSequence(g)
  <2>. HIDE DEF g, S
  <2>. QED
    BY <1>4, SequenceOver
<1>. HIDE DEF g, S
<1>. DEFINE h == Append(Spans, Span(f))
<1>7. /\ IsSequence(h)
      /\ Len(h) = Len(Spans) + 1
      /\ \A j \in 1 .. Len(Spans) : h[j] = Spans[j]
      /\ h[Len(Spans) + 1] = Span(f)
  BY <1>2, SequenceAppend
<1>. HIDE DEF h
<1>8. Len(g) = Len(h)
  BY <1>1, <1>2, <1>4, <1>7
<1>9. ASSUME NEW j \in 1 .. Len(g)
      PROVE  g[j] = h[j]
  <2>1. CASE j \in 1 .. Len(out)
    BY <1>1, <1>2, <1>4, <1>5, <1>7, <2>1
  <2>2. CASE j = Len(out) + 1
    BY <1>1, <1>2, <1>4, <1>5, <1>7, <2>2
  <2>. QED
    BY <1>1, <1>4, <2>1, <2>2
<1>10. g = h
  BY <1>6, <1>7, <1>8, <1>9, SeqEqual DEF IsSequence
<1>. QED
  BY <1>3, <1>10 DEF h

LEMMA SpansKept ==
  ASSUME UNCHANGED <<conf, out>>
  PROVE  Spans' = Spans
BY DEF Spans

\* Every step of the decoder is a step of the contract, or none of it.
LEMMA NextRefines ==
  ASSUME IInv, IInv', [Next]_vars
  PROVE  [Contract!Next]_(Contract!contractVars)
<1>1. /\ nitemsRead \in Nat /\ nitemsRead' \in Nat
      /\ Len(rx) \in Nat /\ Len(rx') \in Nat
      /\ nitemsRead' <= Len(rx')
  BY LenProperties DEF IInv, Accounted
<1>2. CASE \E chunk \in Chunks : Send(chunk)
  <2>1. PICK chunk \in Chunks : Send(chunk)
    BY <1>2
  <2>2. chunk \in Seq(Bit) /\ rx \in Seq(Bit)
    BY DataAssumption DEF DataAssumption, IInv, Accounted
  <2>3. Len(rx \o chunk) = Len(rx) + Len(chunk) /\ Len(chunk) \in Nat
    BY <2>2, ConcatProperties, LenProperties
  <2>4. rx' = rx \o chunk /\ UNCHANGED <<conf, out, nitemsRead>>
    BY <2>1 DEF Send
  <2>5. Len(rx') >= Len(rx)
    BY <1>1, <2>3, <2>4
  <2>6. Spans' = Spans
    BY <2>4, SpansKept
  <2>. QED
    BY <1>1, <2>4, <2>5, <2>6 DEF Contract!Next, Contract!Feed
<1>3. ASSUME nitemsRead' >= nitemsRead, rx' = rx, Spans' = Spans
      PROVE  Contract!Next
  <2>1. nitemsRead' <= Len(rx)
    BY <1>1, <1>3
  <2>. QED
    BY <1>3, <2>1 DEF Contract!Next, Contract!Advance
<1>4. CASE Reset
  <2>1. UNCHANGED <<conf, out, nitemsRead, rx>>
    BY <1>4 DEF Reset
  <2>2. nitemsRead' >= nitemsRead
    BY <1>1, <2>1
  <2>. QED
    BY <1>3, <2>1, <2>2, SpansKept
<1>5. ASSUME NEW n \in 1 .. Len(inp) \div 8, Work(Input(n))
      PROVE  Contract!Next
  <2>1. /\ nitemsRead' >= nitemsRead
        /\ UNCHANGED <<conf, rx>>
        /\ out' = out \/ PayloadComplete(Input(n))
    BY <1>5, WorkAdvances
  <2>2. CASE out' = out
    BY <1>3, <2>1, <2>2, SpansKept
  <2>3. CASE conf.preamble = <<>>
    <3>1. Spans = <<>>
      BY <2>3, SpansWithoutPreamble
    <3>2. Spans' = <<>>
      BY <2>1, <2>3 DEF Spans
    <3>. QED
      BY <1>3, <2>1, <3>1, <3>2
  <2>4. CASE out' # out /\ conf.preamble # <<>>
    <3>1. state = "DECODING_PAYLOAD" /\ \E g : out' = Append(out, g) /\ g.start = frameStart
      BY <2>1, <2>4 DEF PayloadComplete, Metadata
    <3>2. PICK g : out' = Append(out, g) /\ g.start = frameStart
      BY <3>1
    <3>3. IsSequence(out) /\ Len(out) \in Nat
      BY LenProperties DEF IInv, Published, IsSequence
    <3>4. Len(out') = Len(out) + 1 /\ out'[Len(out) + 1] = g
      BY <3>2, <3>3, SequenceAppend
    <3>5. /\ g.start \in Nat /\ g.cnt \in Nat
          /\ g.start + g.cnt <= nitemsRead'
      <4>1. Len(out) + 1 \in 1 .. Len(out')
        BY <3>3, <3>4
      <4>. QED
        BY <3>4, <4>1 DEF IInv, Published
    <3>6. /\ IsSequence(Spans)
          /\ Len(Spans) = Len(out)
          /\ \A j \in 1 .. Len(out) : Spans[j] = Span(out[j])
      BY <2>4, <3>3, SpansOfFrames
    <3>7. Spans' = Append(Spans, Span(g))
      BY <2>1, <2>4, <3>2, <3>3, SpansAppend
    <3>8. Spans'[Len(Spans) + 1] = Span(g)
      BY <3>6, <3>7, SequenceAppend
    <3>9. ASSUME Spans # <<>>
          PROVE  Span(g).start + 0
                   >= Spans[Len(Spans)].start + Spans[Len(Spans)].cnt
      <4>1. Len(out) \in 1 .. Len(out)
        BY <3>3, <3>6, <3>9, EmptySeq DEF IsSequence
      <4>2. /\ Spans[Len(Spans)].start = out[Len(out)].start
            /\ Spans[Len(Spans)].cnt = out[Len(out)].cnt
        <5>1. Spans[Len(Spans)] = Span(out[Len(out)])
          BY <3>6, <4>1
        <5>. QED
          BY <5>1 DEF Span
      <4>3. /\ out[Len(out)].start \in Nat /\ out[Len(out)].cnt \in Nat
            /\ out[Len(out)].start + out[Len(out)].cnt <= frameStart
        BY <2>4, <3>1, <4>1 DEF IInv, Published
      <4>4. frameStart \in Nat /\ Span(g).start = frameStart
        BY <3>2 DEF IInv, Started, Span
      <4>. QED
        BY <4>2, <4>3, <4>4
    <3>10. Span(g).start = g.start /\ Span(g).cnt = g.cnt
      BY DEF Span
    <3>11. /\ Span(g).start >= 0 /\ Span(g).cnt >= 0
           /\ Span(g).start + Span(g).cnt <= Len(rx)
           /\ nitemsRead' <= Len(rx)
      BY <1>1, <2>1, <3>5, <3>10
    <3>. QED
      BY <2>1, <3>7, <3>8, <3>9, <3>11
      DEF Contract!Next, Contract!Deliver, Contract!EndOf
  <2>. QED
    BY <2>2, <2>3, <2>4
<1>6. CASE UNCHANGED vars
  <2>1. UNCHANGED <<conf, out, nitemsRead, rx>>
    BY <1>6 DEF vars, env
  <2>2. Spans' = Spans
    BY <2>1, SpansKept
  <2>. QED
    BY <2>1, <2>2 DEF Contract!contractVars
<1>7. Run => Contract!Next
  <2>. SUFFICES ASSUME Run PROVE Contract!Next
    OBVIOUS
  <2>1. PICK n \in 1 .. Len(inp) \div 8 : Work(Input(n))
    BY DEF Run, Input
  <2>. QED
    BY <1>5, <2>1
<1>. QED
  BY <1>2, <1>4, <1>6, <1>7 DEF Next

\* ieee802_15_4_variant_decoder keeps the contract of the decoders: its read
\* cursor only moves forward over what it was handed, and with a preamble no
\* two of the ranges it reports overlap.
THEOREM Refinement == Spec => ImplementsDecoder
<1>1. Init => Contract!Init
  BY InitRefines
<1>2. IInv /\ IInv' /\ [Next]_vars => [Contract!Next]_(Contract!contractVars)
  BY NextRefines
<1>. QED
  BY <1>1, <1>2, Invariance, PTL DEF Spec, ImplementsDecoder, Contract!Spec
=============================================================================
