------------------------- MODULE PacketStreamProofs -------------------------
(***************************************************************************)
(* Packet::Read keeps the server's packets apart: TypeOK, RoomForReads and *)
(* DeliversPackets of PacketStream, for every payload length, every cut of *)
(* the stream into reads, every size of the first buffer and every number  *)
(* of connections.                                                         *)
(*                                                                         *)
(* The argument: the thread is either Framed, inside the packet that is    *)
(* due and with the bytes it has read of it in their places, or Stranded   *)
(* on a lost connection, short of that packet's end, where no read brings  *)
(* anything.  A parse while Framed is that of the due packet.              *)
(***************************************************************************)
EXTENDS PacketStream, TLAPS

EndIn(s, p) == IF p = 0 THEN 0 ELSE s[p].at + HeadLen + s[p].len

\* The packets lie on the wire one after the other.
Contiguous(s) ==
    /\ \A p \in 1 .. Len(s) : s[p].at = EndIn(s, p - 1)
    /\ \A p, q \in 1 .. Len(s) : p < q => EndIn(s, p) <= s[q].at

\* The next packet, whose first HeadLen bytes are its header.
Begin == End(got)
DueLen == pkts[got + 1].len

\* The bytes 0 .. n - 1 of the buffer are those of the stream after byte b.
Filled(buffer, n, b) == \A i \in 0 .. n - 1 : buffer[i] = b + 1 + i

InHead ==
    /\ pc = "Head" /\ nRead <= HeadLen
    /\ taken = Begin + nRead
    /\ Filled(head, nRead, Begin)
InBody ==
    /\ pc = "Body" /\ got < Len(pkts) /\ nRead <= bodyLen
    /\ bodyLen = DueLen
    /\ taken = Begin + HeadLen + nRead
    /\ Filled(body, nRead, Begin + HeadLen)
AtParse == pc = "Parse" /\ Due
Framed == ~torn /\ (InHead \/ InBody \/ AtParse \/ pc \in {"Reconnect", "Down"})

Stranded ==
    /\ link = "lost" /\ taken = arrives
    /\ got < Len(pkts) => taken < End(got + 1)
    /\ pc # "Body" /\ (pc = "Head" => nRead = 0)

\* The inductive invariant.  The buffer has the bytes it is said to have.
StreamInv ==
    /\ TypeOK
    /\ Contiguous(pkts)
    /\ link = "up" => arrives = Sent
    /\ 0 .. bufLen - 1 \subseteq Allocated
    /\ pc = "Body" => bodyLen <= bufLen
    /\ Framed \/ Stranded

(***************************************************************************)
(* The wire.                                                               *)
(***************************************************************************)
Pkts == [at : Nat, len : Nat, flag : Flags]

\* What Contiguous says of the ends of packets, given their types.
LEMMA Ends ==
    ASSUME NEW s \in Seq(Pkts), Contiguous(s)
    PROVE  /\ Len(s) \in Nat
           /\ \A p \in 1 .. Len(s) : s[p].at \in Nat /\ s[p].len \in Nat /\ s[p].flag \in Flags
           /\ \A p \in 0 .. Len(s) : EndIn(s, p) \in Nat /\ EndIn(s, p) <= EndIn(s, Len(s))
           /\ \A p \in 1 .. Len(s) : EndIn(s, p) = EndIn(s, p - 1) + HeadLen + s[p].len
           /\ \A p, q \in 1 .. Len(s) : s[p].at = s[q].at => p = q
<1>1. Len(s) \in Nat /\ \A p \in 1 .. Len(s) : s[p] \in Pkts
  OBVIOUS
<1>2. \A p \in 1 .. Len(s) : s[p].at \in Nat /\ s[p].len \in Nat /\ s[p].flag \in Flags
  BY <1>1 DEF Pkts
<1>3. \A p \in 1 .. Len(s) : EndIn(s, p) = s[p].at + HeadLen + s[p].len
  BY <1>1 DEF EndIn
<1>4. EndIn(s, 0) = 0
  BY DEF EndIn
<1>5. \A p \in 0 .. Len(s) : EndIn(s, p) \in Nat
  BY <1>1, <1>2, <1>3, <1>4 DEF HeadLen
<1>6. \A p \in 1 .. Len(s) : EndIn(s, p) = EndIn(s, p - 1) + HeadLen + s[p].len
  BY <1>3 DEF Contiguous
<1>7. ASSUME NEW p \in 1 .. Len(s), NEW q \in 1 .. Len(s), p < q
      PROVE  EndIn(s, p) <= s[q].at /\ s[p].at < s[q].at /\ EndIn(s, p) <= EndIn(s, q)
  <2>1. EndIn(s, p) <= s[q].at
    BY <1>7 DEF Contiguous
  <2>2. /\ s[p].at \in Nat /\ s[p].len \in Nat /\ EndIn(s, p) = s[p].at + HeadLen + s[p].len
        /\ s[q].at \in Nat /\ s[q].len \in Nat /\ EndIn(s, q) = s[q].at + HeadLen + s[q].len
    BY <1>2, <1>3
  <2>3. EndIn(s, p) \in Nat /\ EndIn(s, q) \in Nat
    BY <1>1, <1>5
  <2> DEFINE i == s[p].at
             j == s[q].at
  <2>4. /\ i \in Nat /\ j \in Nat /\ s[p].len \in Nat /\ s[q].len \in Nat
        /\ EndIn(s, p) = i + HeadLen + s[p].len /\ EndIn(s, q) = j + HeadLen + s[q].len
        /\ EndIn(s, p) <= j
    BY <2>1, <2>2
  <2> HIDE DEF i, j
  <2>5. i < j
    BY <2>3, <2>4 DEF HeadLen
  <2>6. EndIn(s, p) <= EndIn(s, q)
    BY <2>3, <2>4 DEF HeadLen
  <2>7. QED
    BY <2>1, <2>5, <2>6 DEF i, j
<1>8. ASSUME NEW p \in 1 .. Len(s), NEW q \in 1 .. Len(s), s[p].at = s[q].at
      PROVE  p = q
  <2>1. ~(p < q) /\ ~(q < p)
    BY <1>2, <1>7, <1>8
  <2>2. QED
    BY <1>1, <2>1
<1>9. ASSUME NEW p \in 0 .. Len(s)
      PROVE  EndIn(s, p) <= EndIn(s, Len(s))
  <2>1. CASE p = 0
    BY <1>1, <1>4, <1>5, <2>1
  <2>2. CASE p \in 1 .. Len(s) /\ p < Len(s)
    BY <1>1, <1>7, <2>2
  <2>3. CASE p = Len(s)
    BY <1>5, <2>3
  <2>4. QED
    BY <1>1, <2>1, <2>2, <2>3
<1>10. QED
  BY <1>1, <1>2, <1>5, <1>6, <1>8, <1>9

\* A packet put behind the last one.
Extends(t, s) ==
    /\ t \in Seq(Pkts) /\ Contiguous(t)
    /\ Len(s) < Len(t)
    /\ \A p \in 1 .. Len(s) : t[p] = s[p]
    /\ EndIn(s, Len(s)) <= EndIn(t, Len(t))

LEMMA OneMore ==
    ASSUME NEW s \in Seq(Pkts), Contiguous(s), NEW len \in Nat, NEW flag \in Flags
    PROVE  LET t == Append(s, Packet(EndIn(s, Len(s)), len, flag))
           IN  Extends(t, s) /\ EndIn(t, Len(t)) = EndIn(s, Len(s)) + HeadLen + len
<1> DEFINE last == Packet(EndIn(s, Len(s)), len, flag)
           t == Append(s, last)
<1>1. /\ Len(s) \in Nat
      /\ \A p \in 1 .. Len(s) : s[p].at \in Nat /\ s[p].len \in Nat
      /\ \A p \in 0 .. Len(s) : EndIn(s, p) \in Nat /\ EndIn(s, p) <= EndIn(s, Len(s))
  BY Ends
<1>2. last \in Pkts /\ last.at = EndIn(s, Len(s)) /\ last.len = len
  BY <1>1 DEF Packet, Pkts
<1> HIDE DEF last
<1>3. /\ t \in Seq(Pkts) /\ Len(t) = Len(s) + 1
      /\ \A p \in 1 .. Len(s) : t[p] = s[p]
      /\ t[Len(s) + 1] = last
  BY <1>1, <1>2
<1> HIDE DEF t
<1>4. \A p \in 0 .. Len(s) : EndIn(t, p) = EndIn(s, p)
  BY <1>1, <1>3 DEF EndIn
<1>5. EndIn(t, Len(t)) = EndIn(s, Len(s)) + HeadLen + len
  BY <1>1, <1>2, <1>3 DEF EndIn
<1>6. ASSUME NEW p \in 1 .. Len(t) PROVE t[p].at = EndIn(t, p - 1)
  <2>1. CASE p \in 1 .. Len(s)
    BY <1>1, <1>3, <1>4, <2>1 DEF Contiguous
  <2>2. CASE p = Len(s) + 1
    BY <1>1, <1>2, <1>3, <1>4, <2>2
  <2>3. QED
    BY <1>1, <1>3, <2>1, <2>2
<1>7. ASSUME NEW p \in 1 .. Len(t), NEW q \in 1 .. Len(t), p < q PROVE EndIn(t, p) <= t[q].at
  <2>1. p \in 1 .. Len(s) /\ EndIn(t, p) = EndIn(s, p)
    BY <1>1, <1>3, <1>4, <1>7
  <2>2. CASE q \in 1 .. Len(s)
    BY <1>3, <1>7, <2>1, <2>2 DEF Contiguous
  <2>3. CASE q = Len(s) + 1
    BY <1>1, <1>2, <1>3, <2>1, <2>3
  <2>4. QED
    BY <1>1, <1>3, <2>2, <2>3
<1>8. Contiguous(t)
  BY <1>6, <1>7 DEF Contiguous
<1>9. QED
  BY <1>1, <1>3, <1>5, <1>8 DEF Extends, HeadLen, t, last

LEMMA TwoMore ==
    ASSUME NEW s \in Seq(Pkts), Contiguous(s), NEW m \in Nat, NEW n \in Nat,
           NEW flag \in Flags, NEW first \in Flags
    PROVE  Extends(s \o <<Packet(EndIn(s, Len(s)), m, flag),
                          Packet(EndIn(s, Len(s)) + HeadLen + m, n, first)>>, s)
<1> DEFINE a == Packet(EndIn(s, Len(s)), m, flag)
           b == Packet(EndIn(s, Len(s)) + HeadLen + m, n, first)
           t == Append(s, a)
           u == Append(t, b)
<1>1. Extends(t, s) /\ EndIn(t, Len(t)) = EndIn(s, Len(s)) + HeadLen + m
  BY OneMore
<1>2. t \in Seq(Pkts) /\ Contiguous(t)
  BY <1>1 DEF Extends
<1>3. b = Packet(EndIn(t, Len(t)), n, first)
  BY <1>1
<1>4. Extends(u, t)
  BY <1>2, <1>3, OneMore
<1>5. s \o <<a, b>> = u
  <2>1. a \in Pkts /\ b \in Pkts
    <3>1. EndIn(s, Len(s)) \in Nat
      BY Ends
    <3>2. QED
      BY <3>1 DEF Packet, Pkts, HeadLen
  <2> HIDE DEF a, b
  <2>2. QED
    BY <2>1
<1>6. Extends(u, s)
  <2> HIDE DEF t, u
  <2>1. Len(s) \in Nat /\ Len(t) \in Nat /\ Len(u) \in Nat
    BY <1>2, <1>4 DEF Extends
  <2>2. /\ EndIn(s, Len(s)) \in Nat /\ EndIn(t, Len(t)) \in Nat /\ EndIn(u, Len(u)) \in Nat
    BY <1>2, <1>4, <2>1, Ends DEF Extends
  <2>3. QED
    BY <1>1, <1>4, <2>1, <2>2 DEF Extends
<1>7. QED
  BY <1>5, <1>6

(***************************************************************************)
(* The invariant, over the steps of the server and the network.            *)
(***************************************************************************)
\* What the invariant says of the packet that is due.
LEMMA Facts ==
    ASSUME StreamInv
    PROVE  /\ pkts \in Seq(Pkts) /\ Len(pkts) \in Nat
           /\ got \in 0 .. Len(pkts) /\ got \in Nat
           /\ Begin \in Nat /\ Sent \in Nat /\ Begin <= Sent
           /\ got = Len(pkts) => Begin = Sent
           /\ got < Len(pkts) =>
                /\ got + 1 \in 1 .. Len(pkts)
                /\ DueLen \in Nat /\ pkts[got + 1].at = Begin
                /\ End(got + 1) = Begin + HeadLen + DueLen
                /\ End(got + 1) \in Nat /\ End(got + 1) <= Sent
           /\ taken \in Nat /\ arrives \in Nat /\ taken <= arrives /\ arrives <= Sent
           /\ nRead \in Nat /\ bodyLen \in Nat /\ bufLen \in Nat
<1>1. pkts \in Seq(Pkts) /\ Contiguous(pkts)
  BY DEF StreamInv, TypeOK, Pkts
<1>2. \A p : End(p) = EndIn(pkts, p)
  BY DEF End, EndIn
<1>3. /\ Len(pkts) \in Nat
      /\ \A p \in 0 .. Len(pkts) : End(p) \in Nat /\ End(p) <= Sent
      /\ \A p \in 1 .. Len(pkts) :
            pkts[p].len \in Nat /\ End(p) = End(p - 1) + HeadLen + pkts[p].len
  BY <1>1, <1>2, Ends DEF Sent
<1>4. got \in 0 .. Len(pkts) /\ got \in Nat
  BY <1>3 DEF StreamInv, TypeOK
<1>5. Begin \in Nat /\ Sent \in Nat /\ Begin <= Sent /\ (got = Len(pkts) => Begin = Sent)
  BY <1>3, <1>4 DEF Begin, Sent
<1>6. ASSUME got < Len(pkts)
      PROVE  /\ got + 1 \in 1 .. Len(pkts)
             /\ DueLen \in Nat /\ pkts[got + 1].at = Begin
             /\ End(got + 1) = Begin + HeadLen + DueLen
             /\ End(got + 1) \in Nat /\ End(got + 1) <= Sent
  <2>1. got + 1 \in 1 .. Len(pkts) /\ got + 1 \in 0 .. Len(pkts) /\ (got + 1) - 1 = got
    BY <1>3, <1>4, <1>6
  <2>2. pkts[got + 1].at = Begin
    BY <1>1, <1>2, <2>1 DEF Contiguous, Begin
  <2>3. QED
    BY <1>3, <2>1, <2>2 DEF DueLen, Begin
<1>7. /\ taken \in Nat /\ arrives \in Nat /\ taken <= arrives /\ arrives <= Sent
      /\ nRead \in Nat /\ bodyLen \in Nat /\ bufLen \in Nat
  BY <1>5 DEF StreamInv, TypeOK
<1>8. QED
  BY <1>1, <1>3, <1>4, <1>5, <1>6, <1>7

\* A step that leaves the packets sent as they are leaves their ends.
LEMMA SamePkts == UNCHANGED pkts => Sent' = Sent /\ Slots' = Slots
BY DEF Sent, End, Slots

\* More packets change nothing for the one that is due.
LEMMA GrowKeeps ==
    ASSUME StreamInv, link = "up", Extends(pkts', pkts), arrives' = Sent',
           UNCHANGED <<link, sessions, buffers, taken, pc, nRead, got, torn>>
    PROVE  StreamInv'
<1>1. /\ Len(pkts) \in Nat /\ got \in 0 .. Len(pkts) /\ got \in Nat /\ pkts \in Seq(Pkts)
      /\ taken \in Nat /\ arrives \in Nat /\ taken <= arrives /\ arrives <= Sent
      /\ Sent \in Nat
  BY Facts
<1>2. pkts' \in Seq(Pkts) /\ Contiguous(pkts') /\ Len(pkts') \in Nat
  BY DEF Extends
<1>3. Len(pkts) < Len(pkts') /\ \A p \in 1 .. Len(pkts) : pkts'[p] = pkts[p]
  BY DEF Extends
<1>4. Sent' \in Nat /\ Sent <= Sent'
  <2>1. EndIn(pkts', Len(pkts')) \in Nat
    BY <1>2, Ends
  <2>2. Sent' = EndIn(pkts', Len(pkts')) /\ Sent = EndIn(pkts, Len(pkts))
    BY DEF Sent, End, EndIn
  <2>3. QED
    BY <2>1, <2>2 DEF Extends
<1>5. \A p \in 0 .. Len(pkts) : End(p)' = End(p)
  BY <1>1, <1>3 DEF End
<1>6. Slots \subseteq Slots'
  BY <1>1, <1>4 DEF Slots
<1>7. TypeOK'
  <2>1. arrives' \in taken' .. Sent'
    BY <1>1, <1>4
  <2>2. head' \in [0 .. 3 -> Slots'] /\ body' \in [Allocated' -> Slots']
    BY <1>6 DEF StreamInv, TypeOK, buffers, Allocated
  <2>3. got' \in 0 .. Len(pkts')
    BY <1>1, <1>2, <1>3
  <2>4. QED
    BY <1>2, <2>1, <2>2, <2>3 DEF StreamInv, TypeOK, buffers, Pkts
<1>8. Framed
  BY DEF StreamInv, Stranded
<1>9. Begin' = Begin /\ (got < Len(pkts) => DueLen' = DueLen /\ got' < Len(pkts'))
  BY <1>1, <1>2, <1>3, <1>5 DEF Begin, DueLen
<1>10. Due => Due'
  <2>1. SUFFICES ASSUME Due PROVE Due'
    OBVIOUS
  <2>2. got + 1 \in 1 .. Len(pkts) /\ got + 1 \in 0 .. Len(pkts) /\ got' < Len(pkts')
    BY <1>1, <1>2, <1>3, <2>1 DEF Due
  <2>3. pkts'[got + 1] = pkts[got + 1] /\ End(got + 1)' = End(got + 1)
    BY <1>3, <1>5, <2>2
  <2>4. QED
    BY <2>1, <2>2, <2>3 DEF Due, Holds, buffers
<1>11. Framed'
  BY <1>8, <1>9, <1>10 DEF Framed, InHead, InBody, AtParse, Filled, buffers
<1>12. QED
  BY <1>2, <1>7, <1>11 DEF StreamInv, buffers, Allocated

\* A send puts packets behind the last one.
LEMMA ServerExtends ==
    ASSUME StreamInv, Server
    PROVE  \/ Lose
           \/ /\ link = "up" /\ Extends(pkts', pkts) /\ arrives' = Sent'
              /\ UNCHANGED <<link, sessions, buffers, taken, pc, nRead, got, torn>>
<1>1. pkts \in Seq(Pkts) /\ Contiguous(pkts) /\ Sent = EndIn(pkts, Len(pkts))
  BY Facts DEF StreamInv, Sent, End, EndIn
<1>2. Payloads \subseteq Nat /\ MaxPayload \in Nat
  BY PayloadsAssumption, SizesAssumption DEF PayloadsAssumption, SizesAssumption
<1>3. ASSUME NEW len \in Payloads, NEW flag \in Flags, SendWhole(len, flag)
      PROVE  Extends(pkts', pkts)
  BY <1>1, <1>2, <1>3, OneMore DEF SendWhole
<1>4. ASSUME NEW len \in Payloads, NEW first \in Flags, SendCut(len, first)
      PROVE  Extends(pkts', pkts)
  <2>1. len - MaxPayload \in Nat
    BY <1>2, <1>4 DEF SendCut
  <2>2. QED
    BY <1>1, <1>2, <1>4, <2>1, TwoMore DEF SendCut, Flags
<1>5. QED
  BY <1>3, <1>4 DEF Server, SendWhole, SendCut

LEMMA ServerKeeps ==
    ASSUME StreamInv, Server
    PROVE  StreamInv'
<1>1. CASE Lose
  <2>1. /\ taken \in Nat /\ arrives \in Nat /\ arrives <= Sent /\ Sent \in Nat
    BY Facts
  <2>2. Sent' = Sent /\ Slots' = Slots
    BY <1>1, SamePkts DEF Lose
  <2>3. TypeOK'
    BY <1>1, <2>1, <2>2 DEF Lose, StreamInv, TypeOK, buffers, Allocated
  <2>4. Framed'
    BY <1>1 DEF Lose, StreamInv, Stranded, Framed, InHead, InBody, AtParse, Due, Holds, Filled,
                Begin, DueLen, End, buffers
  <2>5. QED
    BY <1>1, <2>3, <2>4 DEF Lose, StreamInv, buffers, Allocated
<1>2. QED
  BY <1>1, ServerExtends, GrowKeeps

(***************************************************************************)
(* The invariant, over the steps of the process.                           *)
(***************************************************************************)
\* While a read can bring something, the thread is Framed.
LEMMA Brought ==
    ASSUME StreamInv, NEW n \in Nat, NEW m, Brings(n, m)
    PROVE  m \in Nat /\ taken + m <= arrives /\ Framed
<1>1. taken \in Nat /\ arrives \in Nat /\ taken <= arrives
  BY Facts
<1>2. m \in Nat /\ m >= 1 /\ taken + m <= arrives
  BY <1>1 DEF Brings, Least
<1>3. ~Stranded
  BY <1>1, <1>2 DEF Stranded
<1>4. QED
  BY <1>2, <1>3 DEF StreamInv

\* What a read puts into a buffer that holds the n bytes before it.
LEMMA Filling ==
    ASSUME StreamInv, NEW buffer, buffer \in [DOMAIN buffer -> Slots],
           NEW n \in Nat, NEW m \in Nat, taken + m <= arrives
    PROVE  /\ Written(buffer, n, m) \in [DOMAIN buffer -> Slots]
           /\ DOMAIN Written(buffer, n, m) = DOMAIN buffer
           /\ \A b \in Nat :
                 /\ taken = b + n /\ Filled(buffer, n, b)
                 /\ 0 .. n + m - 1 \subseteq DOMAIN buffer
                 => Filled(Written(buffer, n, m), n + m, b)
<1>1. taken \in Nat /\ arrives \in Nat /\ arrives <= Sent /\ Sent \in Nat
  BY Facts
<1>2. \A k \in n .. n + m - 1 : taken + 1 + k - n \in Slots
  BY <1>1 DEF Slots
<1>3. Written(buffer, n, m) \in [DOMAIN buffer -> Slots]
  BY <1>2 DEF Written
<1>4. ASSUME NEW b \in Nat, taken = b + n, Filled(buffer, n, b),
             0 .. n + m - 1 \subseteq DOMAIN buffer, NEW i \in 0 .. (n + m) - 1
      PROVE  Written(buffer, n, m)[i] = b + 1 + i
  <2>1. i \in DOMAIN buffer /\ i \in Nat
    BY <1>4
  <2>2. CASE i \in 0 .. n - 1
    BY <1>4, <2>1, <2>2 DEF Written, Filled
  <2>3. CASE i \in n .. n + m - 1
    BY <1>4, <2>1, <2>3 DEF Written
  <2>4. QED
    BY <1>4, <2>2, <2>3
<1>5. QED
  BY <1>3, <1>4 DEF Filled

\* A whole header is that of the packet that is due, and of no other.
LEMMA HeaderTells ==
    ASSUME StreamInv, InHead, nRead = HeadLen
    PROVE  got < Len(pkts) /\ Length = {DueLen}
<1>1. got < Len(pkts)
  BY Facts DEF InHead, HeadLen
<1>2. /\ got + 1 \in 1 .. Len(pkts) /\ pkts[got + 1].at = Begin /\ Begin \in Nat
      /\ pkts \in Seq(Pkts) /\ Contiguous(pkts)
  BY <1>1, Facts DEF StreamInv
<1>3. head[0] = Begin + 1 /\ \A i \in 0 .. 2 : head[i] = Begin + 1 + i
  BY <1>2 DEF InHead, Filled, HeadLen
<1>4. got + 1 \in Heading
  BY <1>2, <1>3 DEF Heading
<1>5. ASSUME NEW p \in Heading PROVE p = got + 1
  <2>1. p \in 1 .. Len(pkts) /\ head[0] = pkts[p].at + 1 + 0
    BY <1>5 DEF Heading
  <2>2. pkts[p].at \in Nat
    BY <1>2, <2>1, Ends
  <2>3. pkts[p].at = pkts[got + 1].at
    BY <1>2, <1>3, <2>1, <2>2
  <2>4. QED
    BY <1>2, <2>1, <2>3, Ends
<1>6. Heading = {got + 1}
  BY <1>4, <1>5
<1>7. QED
  BY <1>1, <1>6 DEF Length, DueLen

LEMMA ReadHeadKeeps ==
    ASSUME StreamInv, ReadHead
    PROVE  StreamInv'
<1>1. PICK m \in 1 .. HeadLen - nRead :
         /\ Brings(HeadLen - nRead, m)
         /\ head' = Written(head, nRead, m)
         /\ nRead' = nRead + m
         /\ taken' = taken + m
  BY DEF ReadHead
<1>2. /\ taken \in Nat /\ arrives \in Nat /\ nRead \in Nat /\ Begin \in Nat
      /\ HeadLen - nRead \in Nat
  BY Facts DEF ReadHead, HeadLen
<1>3. m \in Nat /\ taken + m <= arrives /\ Framed
  BY <1>1, <1>2, Brought
<1>4. InHead
  BY <1>3 DEF Framed, InHead, InBody, AtParse, ReadHead
<1>5. Sent' = Sent /\ Slots' = Slots /\ Begin' = Begin
  BY SamePkts DEF ReadHead, wire, Begin, End
<1>6. head \in [0 .. 3 -> Slots] /\ DOMAIN head = 0 .. 3
  BY DEF StreamInv, TypeOK
<1>7. head' \in [0 .. 3 -> Slots] /\ Filled(head', nRead + m, Begin)
  <2>1. taken = Begin + nRead /\ Filled(head, nRead, Begin)
    BY <1>4 DEF InHead
  <2>2. 0 .. nRead + m - 1 \subseteq DOMAIN head
    BY <1>1, <1>2, <1>6 DEF HeadLen
  <2>3. QED
    BY <1>1, <1>2, <1>3, <1>6, <2>1, <2>2, Filling
<1>8. nRead' \in Nat /\ nRead' <= HeadLen
  BY <1>1, <1>2 DEF HeadLen
<1>9. TypeOK'
  BY <1>1, <1>2, <1>3, <1>5, <1>7, <1>8
     DEF StreamInv, TypeOK, ReadHead, wire, Allocated
<1>10. InHead'
  BY <1>1, <1>2, <1>4, <1>5, <1>7, <1>8 DEF InHead, ReadHead
<1>11. QED
  BY <1>3, <1>5, <1>9, <1>10 DEF StreamInv, Framed, ReadHead, wire, Allocated

\* ReallocBuf notes no more than it allocates.
LEMMA ReallocKeeps ==
    ASSUME StreamInv, NEW size \in Nat, ReallocBuf(size)
    PROVE  /\ body' \in [Allocated' -> Slots] /\ bufLen' = size
           /\ 0 .. bufLen' - 1 \subseteq Allocated'
<1>1. body \in [Allocated -> Slots]
  BY DEF StreamInv, TypeOK
<1>2. Allocated' = 0 .. size + size \div 2 - 1 /\ bufLen' = size
  BY DEF ReallocBuf, Allocated
<1>3. size \div 2 \in Nat
  OBVIOUS
<1>4. body' \in [Allocated' -> Slots]
  BY <1>1, <1>2 DEF ReallocBuf, Slots
<1>5. QED
  BY <1>2, <1>3, <1>4

LEMMA ReadLengthKeeps ==
    ASSUME StreamInv, ReadLength
    PROVE  StreamInv'
<1>1. InHead /\ ~torn
  BY DEF StreamInv, Framed, Stranded, InHead, InBody, AtParse, ReadLength, HeadLen
<1>2. got < Len(pkts) /\ bodyLen' = DueLen
  BY <1>1, HeaderTells DEF ReadLength
<1>3. DueLen \in Nat /\ bufLen \in Nat /\ Begin \in Nat /\ taken = Begin + HeadLen
  BY <1>1, <1>2, Facts DEF ReadLength, InHead
<1>4. Sent' = Sent /\ Slots' = Slots /\ Begin' = Begin /\ DueLen' = DueLen
  BY SamePkts DEF ReadLength, wire, Begin, DueLen, End
<1>5. /\ body' \in [Allocated' -> Slots] /\ bufLen' \in Nat
      /\ 0 .. bufLen' - 1 \subseteq Allocated' /\ bodyLen' <= bufLen'
  <2>1. CASE bodyLen' > bufLen
    BY <1>2, <1>3, <2>1, ReallocKeeps DEF ReadLength
  <2>2. CASE ~(bodyLen' > bufLen)
    BY <1>2, <1>3, <2>2 DEF ReadLength, StreamInv, TypeOK, Allocated
  <2>3. QED
    BY <2>1, <2>2
<1>6. TypeOK'
  BY <1>2, <1>3, <1>4, <1>5 DEF StreamInv, TypeOK, ReadLength, wire, Pcs
<1>7. InBody'
  BY <1>2, <1>3, <1>4 DEF InBody, Filled, ReadLength, wire
<1>8. QED
  BY <1>1, <1>4, <1>5, <1>6, <1>7 DEF StreamInv, Framed, ReadLength, wire

LEMMA ReadBodyKeeps ==
    ASSUME StreamInv, ReadBody
    PROVE  StreamInv'
<1>1. PICK m \in 1 .. bodyLen - nRead :
         /\ Brings(bodyLen - nRead, m)
         /\ body' = Written(body, nRead, m)
         /\ nRead' = nRead + m
         /\ taken' = taken + m
  BY DEF ReadBody
<1>2. /\ taken \in Nat /\ arrives \in Nat /\ nRead \in Nat /\ Begin \in Nat
      /\ bodyLen \in Nat /\ bufLen \in Nat /\ bodyLen - nRead \in Nat
  BY Facts DEF ReadBody
<1>3. m \in Nat /\ taken + m <= arrives /\ Framed
  BY <1>1, <1>2, Brought
<1>4. InBody
  BY <1>3 DEF Framed, InHead, InBody, AtParse, ReadBody
<1>5. Sent' = Sent /\ Slots' = Slots /\ Begin' = Begin /\ DueLen' = DueLen
  BY SamePkts DEF ReadBody, wire, Begin, DueLen, End
<1>6. body \in [DOMAIN body -> Slots] /\ 0 .. bufLen - 1 \subseteq DOMAIN body
      /\ bodyLen <= bufLen
  BY DEF StreamInv, TypeOK, Allocated, ReadBody
<1>7. /\ body' \in [DOMAIN body -> Slots] /\ DOMAIN body' = DOMAIN body
      /\ Filled(body', nRead + m, Begin + HeadLen)
  <2>1. taken = (Begin + HeadLen) + nRead /\ Filled(body, nRead, Begin + HeadLen)
        /\ Begin + HeadLen \in Nat
    BY <1>2, <1>4 DEF InBody, HeadLen
  <2>2. 0 .. nRead + m - 1 \subseteq DOMAIN body
    BY <1>1, <1>2, <1>6
  <2>3. QED
    BY <1>1, <1>2, <1>3, <1>6, <2>1, <2>2, Filling
<1>8. nRead' \in Nat /\ nRead' <= bodyLen
  BY <1>1, <1>2
<1>9. TypeOK'
  BY <1>1, <1>2, <1>3, <1>5, <1>7, <1>8
     DEF StreamInv, TypeOK, ReadBody, wire, Allocated
<1>10. InBody'
  BY <1>1, <1>2, <1>4, <1>5, <1>7, <1>8 DEF InBody, ReadBody, wire, HeadLen
<1>11. QED
  BY <1>3, <1>5, <1>7, <1>9, <1>10 DEF StreamInv, Framed, ReadBody, wire, Allocated

LEMMA ReadDoneKeeps ==
    ASSUME StreamInv, ReadDone
    PROVE  StreamInv'
<1>1. InBody /\ ~torn /\ nRead = bodyLen
  BY DEF StreamInv, Framed, Stranded, InHead, InBody, AtParse, ReadDone
<1>2. Sent' = Sent /\ Slots' = Slots
  BY SamePkts DEF ReadDone, wire
<1>3. TypeOK'
  BY <1>2 DEF StreamInv, TypeOK, ReadDone, wire, buffers, Allocated, Pcs
<1>4. Due
  BY <1>1, Facts DEF InBody, Due, Holds, Filled, DueLen, HeadLen
<1>5. Due'
  BY <1>4 DEF Due, Holds, End, ReadDone, wire, buffers
<1>6. QED
  BY <1>1, <1>2, <1>3, <1>5
     DEF StreamInv, Framed, AtParse, ReadDone, wire, buffers, Allocated

\* A read that fails leaves the thread short of the end of the packet due.
LEMMA ReadFailsKeeps ==
    ASSUME StreamInv, ReadFails
    PROVE  StreamInv'
<1>1. Sent' = Sent /\ Slots' = Slots
  BY SamePkts DEF ReadFails, wire
<1>2. TypeOK'
  BY <1>1 DEF StreamInv, TypeOK, ReadFails, wire, buffers, Allocated, Pcs
<1>3. link = "lost" /\ taken = arrives
  BY DEF ReadFails, Failing
<1>4. ASSUME got < Len(pkts) PROVE taken < End(got + 1)
  <2>1. /\ DueLen \in Nat /\ End(got + 1) = Begin + HeadLen + DueLen
        /\ Begin \in Nat /\ nRead \in Nat /\ bodyLen \in Nat /\ taken \in Nat
    BY <1>4, Facts
  <2>2. CASE InHead
    BY <2>1, <2>2 DEF InHead, ReadFails, HeadLen
  <2>3. CASE InBody
    BY <2>1, <2>3 DEF InBody, ReadFails, HeadLen
  <2>4. CASE Stranded
    BY <1>4, <2>4 DEF Stranded
  <2>5. QED
    BY <2>2, <2>3, <2>4 DEF StreamInv, Framed, AtParse, ReadFails
<1>5. Stranded'
  BY <1>3, <1>4 DEF Stranded, ReadFails, wire, End
<1>6. QED
  BY <1>1, <1>2, <1>5 DEF StreamInv, ReadFails, wire, buffers, Allocated

\* The end of the thread for want of memory.
LEMMA ReadLengthDiesKeeps ==
    ASSUME StreamInv, ReadLengthDies
    PROVE  StreamInv'
<1>1. Sent' = Sent /\ Slots' = Slots
  BY SamePkts DEF ReadLengthDies, wire
<1>2. TypeOK'
  BY <1>1 DEF StreamInv, TypeOK, ReadLengthDies, wire, buffers, Allocated, Pcs
<1>3. Framed'
  BY DEF StreamInv, Framed, Stranded, ReadLengthDies, HeadLen
<1>4. QED
  BY <1>1, <1>2, <1>3 DEF StreamInv, ReadLengthDies, wire, buffers, Allocated

ParseSteps == ParseNormal \/ ParseEnds \/ ParseDies

\* What the three outcomes of Parse have in common.
LEMMA ParseFacts ==
    ASSUME ParseSteps
    PROVE  /\ pc = "Parse" /\ Noted
           /\ UNCHANGED <<wire, buffers, taken>>
           /\ \/ pc' = "Head" /\ nRead' = 0
              \/ pc' \in {"Reconnect", "Down"} /\ UNCHANGED nRead
BY DEF ParseSteps, ParseNormal, ParseEnds, ParseDies, Parse

\* A packet is noted as parsed exactly if the thread is Framed.
LEMMA NotedFramed ==
    ASSUME StreamInv, ParseSteps
    PROVE  \/ Framed /\ Due /\ got' = got + 1 /\ torn' = FALSE
           \/ Stranded /\ ~Due /\ got' = got /\ torn' \in BOOLEAN /\ (torn => torn')
<1>1. pc = "Parse" /\ Noted
  BY ParseFacts
<1>2. torn \in BOOLEAN /\ (Framed \/ Stranded)
  BY DEF StreamInv, TypeOK
<1>3. CASE Framed
  BY <1>1, <1>3 DEF Framed, InHead, InBody, AtParse, Noted
<1>4. CASE Stranded
  <2>1. ~Due
    <3>1. got < Len(pkts) => taken < End(got + 1) /\ taken \in Nat
      BY <1>4, Facts DEF Stranded
    <3>2. QED
      BY <3>1, Facts DEF Due
  <2>2. QED
    BY <1>1, <1>2, <1>4, <2>1 DEF Noted
<1>5. QED
  BY <1>2, <1>3, <1>4

LEMMA ParseKeeps ==
    ASSUME StreamInv, ParseSteps
    PROVE  StreamInv'
<1>1. /\ pc = "Parse"
      /\ UNCHANGED <<wire, buffers, taken>>
      /\ \/ pc' = "Head" /\ nRead' = 0
         \/ pc' \in {"Reconnect", "Down"} /\ UNCHANGED nRead
  BY ParseFacts
<1>2. Sent' = Sent /\ Slots' = Slots
  BY <1>1, SamePkts DEF wire
<1>3. nRead \in Nat /\ got \in Nat /\ Len(pkts) \in Nat /\ got \in 0 .. Len(pkts)
      /\ taken \in Nat
  BY Facts
<1>4. got' \in 0 .. Len(pkts) /\ torn' \in BOOLEAN
  <2>1. CASE Due /\ got' = got + 1 /\ torn' = FALSE
    <3>1. got < Len(pkts)
      BY <2>1 DEF Due
    <3>2. got' \in 0 .. Len(pkts)
      BY <1>3, <2>1, <3>1
    <3>3. torn' \in BOOLEAN
      BY <2>1
    <3>4. QED
      BY <3>2, <3>3
  <2>2. CASE got' = got /\ torn' \in BOOLEAN
    BY <1>3, <2>2
  <2>3. QED
    BY <2>1, <2>2, NotedFramed
<1>5. TypeOK'
  BY <1>1, <1>2, <1>3, <1>4
     DEF StreamInv, TypeOK, wire, buffers, Allocated, Pcs, HeadLen
<1>6. CASE Due /\ got' = got + 1 /\ torn' = FALSE
  <2>1. taken = End(got + 1)
    BY <1>6 DEF Due
  <2>2. Begin' = taken
    BY <1>1, <1>6, <2>1 DEF Begin, End, wire
  <2>3. QED
    BY <1>1, <1>2, <1>3, <1>5, <1>6, <2>2
       DEF StreamInv, Framed, InHead, Filled, wire, buffers, Allocated, HeadLen
<1>7. CASE Stranded /\ got' = got
  <2>1. Stranded'
    BY <1>1, <1>7 DEF Stranded, End, wire
  <2>2. QED
    BY <1>1, <1>2, <1>5, <2>1 DEF StreamInv, wire, buffers, Allocated
<1>8. QED
  BY <1>6, <1>7, NotedFramed

LEMMA ReconnectKeeps ==
    ASSUME StreamInv, Reconnect
    PROVE  StreamInv'
<1>1. Sent' = Sent /\ Slots' = Slots
  BY SamePkts DEF Reconnect
<1>2. Sent \in Nat /\ Len(pkts) \in Nat
  BY Facts
<1>3. TypeOK'
  <2>1. arrives' \in taken' .. Sent' /\ taken' \in Nat /\ got' \in 0 .. Len(pkts')
    BY <1>1, <1>2 DEF Reconnect
  <2>2. nRead' \in Nat /\ nRead' <= HeadLen /\ sessions' \in Nat
    BY DEF StreamInv, TypeOK, Reconnect, HeadLen
  <2>3. QED
    BY <1>1, <2>1, <2>2 DEF StreamInv, TypeOK, Reconnect, buffers, Allocated, Pcs
<1>4. Begin' = Sent
  BY DEF Reconnect, Begin, Sent, End
<1>5. InHead' /\ ~torn'
  BY <1>2, <1>4 DEF Reconnect, InHead, Filled, HeadLen
<1>6. QED
  BY <1>1, <1>3, <1>5 DEF StreamInv, Framed, Reconnect, buffers, Allocated

(***************************************************************************)
(* The theorems.                                                           *)
(***************************************************************************)
LEMMA StreamInvInit == Init => StreamInv
<1>1. SUFFICES ASSUME Init PROVE StreamInv
  OBVIOUS
<1>2. Len(pkts) = 0 /\ Sent = 0 /\ Begin = 0 /\ pkts \in Seq(Pkts)
  BY <1>1 DEF Init, Sent, Begin, End
<1>3. InitialSize \in Nat
  BY SizesAssumption DEF SizesAssumption
<1>4. TypeOK
  <2>1. arrives \in taken .. Sent /\ taken \in Nat /\ got \in 0 .. Len(pkts)
    BY <1>1, <1>2 DEF Init
  <2>2. nRead \in Nat /\ nRead <= HeadLen /\ sessions \in Nat /\ bodyLen \in Nat
    BY <1>1 DEF Init, HeadLen
  <2>3. head \in [0 .. 3 -> Slots] /\ body \in [Allocated -> Slots]
    BY <1>1 DEF Init, Slots, Allocated
  <2>4. QED
    BY <1>1, <1>2, <1>3, <2>1, <2>2, <2>3 DEF Init, TypeOK, Pkts, Pcs
<1>5. Framed
  BY <1>1, <1>2 DEF Init, Framed, InHead, Filled, HeadLen
<1>6. QED
  BY <1>1, <1>2, <1>4, <1>5 DEF Init, StreamInv, Contiguous, Allocated

LEMMA StreamInvStep == StreamInv /\ [Next]_vars => StreamInv'
<1>1. SUFFICES ASSUME StreamInv, [Next]_vars PROVE StreamInv'
  OBVIOUS
<1>2. CASE UNCHANGED vars
  BY <1>1, <1>2
     DEF vars, wire, buffers, StreamInv, TypeOK, Slots, Sent, End, Allocated, Framed, Stranded,
         InHead, InBody, AtParse, Due, Holds, Filled, Begin, DueLen
<1>3. CASE Server
  BY <1>1, <1>3, ServerKeeps
<1>4. CASE Read
  BY <1>1, <1>4, ReadHeadKeeps, ReadLengthKeeps, ReadLengthDiesKeeps, ReadBodyKeeps,
     ReadDoneKeeps, ReadFailsKeeps DEF Read
<1>5. CASE ParseSteps
  BY <1>1, <1>5, ParseKeeps
<1>6. CASE Reconnect
  BY <1>1, <1>6, ReconnectKeeps
<1>7. QED
  BY <1>1, <1>2, <1>3, <1>4, <1>5, <1>6 DEF Next, Process, ParseSteps

LEMMA StreamInvAlways == Spec => []StreamInv
BY StreamInvInit, StreamInvStep, PTL DEF Spec

\* Every variable of PacketStream has its type.
THEOREM StreamTypeCorrect == Spec => []TypeOK
<1>1. StreamInv => TypeOK
  BY DEF StreamInv
<1>2. QED
  BY <1>1, StreamInvAlways, PTL

\* No read of a body is given more room than ReallocBuf has provided.
THEOREM ReadsHaveRoom == Spec => []RoomForReads
<1>1. StreamInv => RoomForReads
  <2>1. SUFFICES ASSUME StreamInv, pc = "Body" PROVE 0 .. bodyLen - 1 \subseteq Allocated
    BY DEF RoomForReads
  <2>2. bodyLen <= bufLen /\ bodyLen \in Nat /\ bufLen \in Nat
        /\ 0 .. bufLen - 1 \subseteq Allocated
    BY <2>1, Facts DEF StreamInv
  <2>3. QED
    BY <2>2
<1>2. QED
  BY <1>1, StreamInvAlways, PTL

\* Every step of PacketStream is one of the channel, or none.
LEMMA ChannelStep == StreamInv /\ [Next]_vars => [Channel!Next]_Channel!vars
<1>1. SUFFICES ASSUME StreamInv, [Next]_vars PROVE [Channel!Next]_Channel!vars
  OBVIOUS
<1>2. Len(pkts) \in Nat
  BY <1>1, Facts
<1>3. CASE UNCHANGED <<pkts, link, got, torn>>
  BY <1>3 DEF Channel!vars
<1>4. CASE Server
  <2>1. CASE Lose
    BY <2>1 DEF Lose, Channel!Next, Channel!Lose
  <2>2. CASE /\ link = "up" /\ Extends(pkts', pkts)
             /\ UNCHANGED <<link, got, torn>>
    <3>1. Len(pkts') \in Nat /\ Len(pkts') > Len(pkts)
      BY <1>2, <2>2 DEF Extends
    <3>2. QED
      BY <2>2, <3>1 DEF Channel!Next, Channel!Put
  <2>3. QED
    BY <1>1, <1>4, <2>1, <2>2, ServerExtends DEF Server
<1>5. CASE ParseSteps
  <2>1. UNCHANGED <<pkts, link>>
    BY <1>5, ParseFacts DEF wire
  <2>2. CASE Framed /\ Due /\ got' = got + 1 /\ torn' = FALSE
    BY <1>1, <2>1, <2>2
       DEF StreamInv, TypeOK, Framed, Due, Channel!Next, Channel!Take
  <2>3. CASE Stranded /\ got' = got /\ torn' \in BOOLEAN /\ (torn => torn')
    <3>1. torn \in BOOLEAN
      BY <1>1 DEF StreamInv, TypeOK
    <3>2. CASE torn' = torn
      BY <2>1, <2>3, <3>2 DEF Channel!vars
    <3>3. CASE torn' = TRUE
      BY <2>1, <2>3, <3>3 DEF Stranded, Channel!Next, Channel!Tear
    <3>4. QED
      BY <2>3, <3>1, <3>2, <3>3
  <2>4. QED
    BY <1>1, <1>5, <2>2, <2>3, NotedFramed
<1>6. CASE Reconnect
  BY <1>6 DEF Reconnect, Channel!Next, Channel!Reopen
<1>7. QED
  BY <1>1, <1>3, <1>4, <1>5, <1>6
     DEF Next, Process, Read, ReadHead, ReadLength, ReadLengthDies, ReadBody, ReadDone,
         ReadFails, ParseSteps, wire, buffers, vars

\* Packet::Read implements the channel the parser relies on: packets whole, in
\* order, each once, and anything else only on a lost connection.
THEOREM PacketsDelivered == Spec => DeliversPackets
<1>1. Init => Channel!Init
  BY DEF Init, Channel!Init
<1>2. QED
  BY <1>1, ChannelStep, StreamInvAlways, PTL DEF Spec, DeliversPackets, Channel!Spec

\* What is parsed of a lost connection's last packet stays as it is.
THEOREM TornBytesStay == Spec => TornStays
<1> DEFINE A == torn /\ torn' => UNCHANGED <<body, bodyLen>>
<1>1. StreamInv /\ [Next]_vars => [A]_vars
  <2>1. SUFFICES ASSUME StreamInv, [Next]_vars, torn PROVE UNCHANGED <<body, bodyLen>>
    OBVIOUS
  <2>2. ~Framed /\ Stranded
    BY <2>1 DEF StreamInv, Framed
  <2>3. ~ReadLength /\ ~ReadBody
    BY <2>2 DEF Stranded, ReadLength, ReadBody, HeadLen
  <2>4. QED
    BY <2>1, <2>3
       DEF Next, Server, SendWhole, SendCut, Lose, Process, Read, ReadHead, ReadLengthDies,
           ReadDone, ReadFails, ParseNormal, ParseEnds, ParseDies, Reconnect, buffers, vars
<1>2. QED
  BY <1>1, StreamInvAlways, PTL DEF Spec, TornStays
=============================================================================
