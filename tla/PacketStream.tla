---------------------------- MODULE PacketStream ----------------------------
(***************************************************************************)
(* Packet::Read and Packet::Parse on the byte stream of the server's       *)
(* connection: reads that bring part of what was asked for, the buffers    *)
(* that outlive a read, a connection lost inside a packet, and events too  *)
(* long for one packet.                                                    *)
(*                                                                         *)
(* A byte is its place in all that was ever sent: byte 1 is the first, and *)
(* packet p occupies the bytes from pkts[p].at + 1 on, four of header and  *)
(* pkts[p].len of body.  0 is a byte never written.  Every value a byte    *)
(* can have that the code looks at is an attribute of its packet: the      *)
(* length in its header and the flag its body begins with.                 *)
(***************************************************************************)
EXTENDS Integers, Sequences

CONSTANTS
    Payloads,      \* the lengths an event can have, its flag byte included
    MaxPayload,    \* the 0xffffff of the protocol
    Garbage,       \* the lengths three bytes can spell that are no header's
    InitialSize,   \* the 4096 of Packet::Init
    ErrorFixed,    \* the 9 bytes an error packet has at least
    Faults,        \* "loss" of a connection, "memory" that runs out
    MaxPackets,    \* bound: packets the server sends
    MaxSessions    \* bound: connections

ASSUME PayloadsAssumption == Payloads \subseteq Nat \ {0} /\ Garbage \subseteq Nat
ASSUME SizesAssumption ==
    /\ MaxPayload \in Nat \ {0} /\ InitialSize \in Nat \ {0}
    /\ ErrorFixed \in Nat
ASSUME BoundsAssumption == MaxPackets \in Nat /\ MaxSessions \in Nat

HeadLen == 4
Unset == 0
Flags == {"ok", "err", "other"}
Pcs == {"Head", "Length", "Body", "Parse", "Reconnect", "Down"}

VARIABLES
    pkts,       \* the packets sent, over all connections
    link,       \* the connection: "up" or "lost"
    arrives,    \* the last byte that reaches the process
    taken,      \* the last byte read
    pc,
    head,       \* m_szHeadBuf
    body,       \* what m_pBodyBuf points to
    bufLen,     \* m_uBodyBufLen
    bodyLen,    \* m_uBodyLen
    nRead,
    sessions,
    \* History, read by no action.
    got,        \* the last packet parsed, or given up at a reconnect
    torn        \* was something parsed on this connection that is no packet?

wire == <<pkts, link, arrives, sessions>>
buffers == <<head, body, bufLen, bodyLen>>
vars == <<wire, buffers, taken, pc, nRead, got, torn>>

End(p) == IF p = 0 THEN 0 ELSE pkts[p].at + HeadLen + pkts[p].len
Sent == End(Len(pkts))
Allocated == DOMAIN body
Least(a, b) == IF a <= b THEN a ELSE b

Init ==
    /\ pkts = <<>> /\ link = "up" /\ arrives = 0 /\ sessions = 1
    /\ taken = 0 /\ pc = "Head" /\ nRead = 0
    /\ head = [i \in 0 .. 3 |-> Unset]
    /\ body = [i \in 0 .. InitialSize - 1 |-> Unset]
    /\ bufLen = InitialSize /\ bodyLen = 0
    /\ got = 0 /\ torn = FALSE

(***************************************************************************)
(* The server and the network.                                             *)
(***************************************************************************)
\* One more packet on the wire.
Packet(at, len, flag) == [at |-> at, len |-> len, flag |-> flag]

\* An event, an error or an end goes out in one packet.
SendWhole(len, flag) ==
    /\ link = "up"
    /\ len < MaxPayload
    /\ Len(pkts) < MaxPackets
    /\ pkts' = Append(pkts, Packet(Sent, len, flag))
    /\ arrives' = Sent'
    /\ UNCHANGED <<link, sessions, buffers, taken, pc, nRead, got, torn>>

\* A payload of MaxPayload bytes or more is cut.  The second packet has no
\* flag of its own: its first byte is whatever the event has there.
SendCut(len, first) ==
    /\ link = "up"
    /\ len \in MaxPayload .. 2 * MaxPayload - 1
    /\ Len(pkts) + 1 < MaxPackets
    /\ pkts' = pkts \o <<Packet(Sent, MaxPayload, "ok"),
                         Packet(Sent + HeadLen + MaxPayload, len - MaxPayload, first)>>
    /\ arrives' = Sent'
    /\ UNCHANGED <<link, sessions, buffers, taken, pc, nRead, got, torn>>

\* The connection is gone; of what is under way some may still arrive.
Lose ==
    /\ "loss" \in Faults
    /\ link = "up"
    /\ link' = "lost"
    /\ arrives' \in taken .. arrives
    /\ UNCHANGED <<pkts, sessions, buffers, taken, pc, nRead, got, torn>>

Server ==
    \/ \E len \in Payloads :
          \/ \E flag \in Flags : SendWhole(len, flag)
          \/ \E first \in Flags : SendCut(len, first)
    \/ Lose

(***************************************************************************)
(* Packet::Read.                                                           *)
(***************************************************************************)
\* read() of at most n bytes brings m of them, at least one.
Brings(n, m) == m \in 1 .. Least(n, arrives - taken)

\* Nothing comes after byte b.
Failing(b) == link = "lost" /\ b = arrives

\* Some buffer with m bytes of the stream written to it from slot i on.
Written(buffer, i, m) ==
    [k \in DOMAIN buffer |-> IF k \in i .. i + m - 1 THEN taken + 1 + k - i ELSE buffer[k]]

\* Defect: every read writes to the start of the header.
ReadHeadOver ==
    /\ pc = "Head" /\ nRead < HeadLen
    /\ \E m \in 1 .. HeadLen - nRead :
        /\ Brings(HeadLen - nRead, m)
        /\ head' = Written(head, 0, m)
        /\ nRead' = nRead + m
        /\ taken' = taken + m
    /\ UNCHANGED <<wire, body, bufLen, bodyLen, pc, got, torn>>

\* One turn of the header's loop.
ReadHead ==
    /\ pc = "Head" /\ nRead < HeadLen
    /\ \E m \in 1 .. HeadLen - nRead :
        /\ Brings(HeadLen - nRead, m)
        /\ head' = Written(head, nRead, m)
        /\ nRead' = nRead + m
        /\ taken' = taken + m
    /\ UNCHANGED <<wire, body, bufLen, bodyLen, pc, got, torn>>

\* Packets whose length the first three bytes of the header buffer spell.
Heading == {p \in 1 .. Len(pkts) : \A i \in 0 .. 2 : head[i] = pkts[p].at + 1 + i}

\* uint3korr: the length in the header, or what a mixture of bytes amounts to.
Length == IF Heading = {} THEN Garbage ELSE {pkts[p].len : p \in Heading}

\* Defect: the buffer is said to be larger than what was asked for.
ReallocBufNotesMore(size) ==
    /\ body' = [i \in 0 .. size - 1 |-> IF i \in Allocated THEN body[i] ELSE Unset]
    /\ bufLen' = size + size \div 2

\* ReallocBuf asks for half as much again and notes what was asked for.
ReallocBuf(size) ==
    /\ body' = [i \in 0 .. size + size \div 2 - 1 |->
                   IF i \in Allocated THEN body[i] ELSE Unset]
    /\ bufLen' = size

\* Defect: the count of the header's bytes goes on for the body.
ReadLengthCountsOn ==
    /\ pc = "Head" /\ nRead = HeadLen
    /\ bodyLen' \in Length
    /\ IF bodyLen' > bufLen THEN ReallocBuf(bodyLen') ELSE UNCHANGED <<body, bufLen>>
    /\ pc' = "Body"
    /\ UNCHANGED <<wire, taken, head, nRead, got, torn>>

ReadLength ==
    /\ pc = "Head" /\ nRead = HeadLen
    /\ bodyLen' \in Length
    /\ IF bodyLen' > bufLen THEN ReallocBuf(bodyLen') ELSE UNCHANGED <<body, bufLen>>
    /\ pc' = "Body" /\ nRead' = 0
    /\ UNCHANGED <<wire, taken, head, got, torn>>

\* Without memory the buffer is the null pointer; read() refuses it and
\* Parse, which Loop calls all the same, looks at its first byte.
ReadLengthDies ==
    /\ "memory" \in Faults
    /\ pc = "Head" /\ nRead = HeadLen
    /\ \E len \in Length : len > bufLen
    /\ pc' = "Down"
    /\ UNCHANGED <<wire, buffers, taken, nRead, got, torn>>

ReadBody ==
    /\ pc = "Body" /\ nRead < bodyLen
    /\ \E m \in 1 .. bodyLen - nRead :
        /\ Brings(bodyLen - nRead, m)
        /\ body' = Written(body, nRead, m)
        /\ nRead' = nRead + m
        /\ taken' = taken + m
    /\ UNCHANGED <<wire, head, bufLen, bodyLen, pc, got, torn>>

\* Defect: an empty body waits for its first byte.
ReadDoneNotEmpty ==
    /\ pc = "Body" /\ nRead = bodyLen /\ bodyLen > 0
    /\ pc' = "Parse"
    /\ UNCHANGED <<wire, buffers, taken, nRead, got, torn>>

ReadDone ==
    /\ pc = "Body" /\ nRead = bodyLen
    /\ pc' = "Parse"
    /\ UNCHANGED <<wire, buffers, taken, nRead, got, torn>>

\* Defect: what a failing read brought so far is taken for the body.
ReadFailsCutting ==
    /\ \/ pc = "Head" /\ nRead < HeadLen
       \/ pc = "Body" /\ nRead < bodyLen
    /\ Failing(taken)
    /\ pc' = "Parse" /\ bodyLen' = nRead
    /\ UNCHANGED <<wire, head, body, bufLen, taken, nRead, got, torn>>

\* read() reports the end, or an error: Read returns, and Loop parses what
\* the buffers hold.
ReadFails ==
    /\ \/ pc = "Head" /\ nRead < HeadLen
       \/ pc = "Body" /\ nRead < bodyLen
    /\ Failing(taken)
    /\ pc' = "Parse"
    /\ UNCHANGED <<wire, buffers, taken, nRead, got, torn>>

(***************************************************************************)
(* Packet::Parse.                                                          *)
(***************************************************************************)
\* The first byte of the body: the flag of the packet that begins there, or
\* any value if none does.
FlagsRead ==
    LET Beginning == {p \in 1 .. Len(pkts) : pkts[p].len > 0 /\ body[0] = pkts[p].at + HeadLen + 1}
    IN  IF Beginning = {} THEN Flags ELSE {pkts[p].flag : p \in Beginning}

\* Is the body to be parsed that of packet p?
Holds(p) == /\ bodyLen = pkts[p].len
            /\ \A i \in 0 .. bodyLen - 1 : body[i] = pkts[p].at + HeadLen + 1 + i

\* Has just the packet that is due been read?
Due == got < Len(pkts) /\ taken = End(got + 1) /\ Holds(got + 1)

\* Keeping the books: a packet from before, parsed again, is an offence only
\* while the connection holds.
Noted ==
    IF Due
    THEN got' = got + 1 /\ UNCHANGED torn
    ELSE /\ torn' = (torn \/ link = "up" \/ \A p \in 1 .. Len(pkts) : ~Holds(p))
         /\ UNCHANGED got

Parse(flags) == pc = "Parse" /\ FlagsRead \intersect flags # {} /\ Noted

\* An event, also one too short for its header: the loop goes on.
ParseNormal ==
    /\ Parse({"ok"})
    /\ pc' = "Head" /\ nRead' = 0
    /\ UNCHANGED <<wire, buffers, taken>>

\* An error packet, or a first byte that is neither 0x00 nor 0xff.
ParseEnds ==
    /\ Parse(IF bodyLen < ErrorFixed THEN {"other"} ELSE {"err", "other"})
    /\ pc' = "Reconnect"
    /\ UNCHANGED <<wire, buffers, taken, nRead>>

\* An error packet without its fixed part: the length of its text wraps.
ParseDies ==
    /\ Parse({"err"})
    /\ bodyLen < ErrorFixed
    /\ pc' = "Down"
    /\ UNCHANGED <<wire, buffers, taken, nRead>>

\* DisConnect, Connect and a new request; the buffers stay as they are.
Reconnect ==
    /\ pc = "Reconnect"
    /\ sessions < MaxSessions
    /\ sessions' = sessions + 1
    /\ link' = "up"
    /\ arrives' = Sent /\ taken' = Sent
    /\ pc' = "Head" /\ nRead' = 0
    /\ got' = Len(pkts) /\ torn' = FALSE
    /\ UNCHANGED <<pkts, buffers>>

Read == ReadHead \/ ReadLength \/ ReadLengthDies \/ ReadBody \/ ReadDone \/ ReadFails
Process == Read \/ ParseNormal \/ ParseEnds \/ ParseDies \/ Reconnect

Next == Server \/ Process

Spec == Init /\ [][Next]_vars

\* The thread runs whenever read() has something for it.
FairSpec == Spec /\ WF_vars(Process)

(***************************************************************************)
(* Properties.                                                             *)
(***************************************************************************)
Slots == {Unset} \union 1 .. Sent

\* Every variable has its type (packet.h).
TypeOK ==
    /\ pkts \in Seq([at : Nat, len : Nat, flag : Flags])
    /\ link \in {"up", "lost"} /\ sessions \in Nat
    /\ arrives \in taken .. Sent /\ taken \in Nat
    /\ pc \in Pcs
    /\ head \in [0 .. 3 -> Slots]
    /\ body \in [Allocated -> Slots]
    /\ bufLen \in Nat /\ bodyLen \in Nat
    /\ nRead \in Nat
    /\ pc = "Head" => nRead <= HeadLen
    /\ pc = "Body" => nRead <= bodyLen
    /\ got \in 0 .. Len(pkts) /\ torn \in BOOLEAN

\* No read of a body is given more room than there is, in whatever order longer
\* and shorter packets come, and the bodies of lost connections between them
\* (ReallocBuf, packet.cc:288).
RoomForReads == pc = "Body" => 0 .. bodyLen - 1 \subseteq Allocated

\* What Packet::Read returns for is what the server sent: packets whole, in
\* order, each once, over any cutting of the stream into reads and any number
\* of connections, and only a lost connection makes the parser see anything
\* else (Packet::Read, packet.cc:313-358).
Channel == INSTANCE PacketChannel WITH sent <- Len(pkts)
DeliversPackets == Channel!Spec

\* Once bytes that are no packet's were parsed on a connection, it is these
\* bytes that are parsed again until it is given up: what is left of two
\* packets changes no more (process.cc:203, packet.cc:349).
TornStays == [][torn /\ torn' => UNCHANGED <<body, bodyLen>>]_vars

\* While its connection holds, every packet sent is parsed in the end, or the
\* connection is given up for what one before it said (Process::Loop).
PacketsParsed ==
    \A p \in 1 .. MaxPackets :
        p <= Len(pkts) ~> got >= p \/ link = "lost" \/ pc \in {"Reconnect", "Down"}
=============================================================================
