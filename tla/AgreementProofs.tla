--------------------------- MODULE AgreementProofs ---------------------------
(***************************************************************************)
(* The parser's state and what it is used on, for every value of the       *)
(* constants of Subscriber and every fault: checksums are stripped from    *)
(* the events that carry one, rows are decoded with the table map of their *)
(* file, and what is saved names a place in the log.                       *)
(***************************************************************************)
EXTENDS LossProofs

(***************************************************************************)
(* Steps of the environment, and what every step leaves alone.             *)
(***************************************************************************)
\* The server leaves the process alone, and a session as it is or ended.
LEMMA ServerStep ==
    ASSUME TypeInv, Server \/ UNCHANGED vars
    PROVE  /\ UNCHANGED <<pc, memory, saved, history>>
           /\ UNCHANGED <<cs, req, retry, rotName, next, alg, tm, buf>>
           /\ UNCHANGED <<delivered, jumped, orphaned, interrupted>>
           /\ UNCHANGED sess \/ sess'.phase \notin Streaming
           /\ sess.phase = "none" => UNCHANGED sess
<1>1. sess \in [phase : Phases, file : Int, pos : Nat, aware : BOOLEAN]
  BY DEF TypeInv, TypeOK, MasterTypeOK
<1>2. QED
  BY <1>1 DEF Server, MasterNext, Commit, RotateLog, RestartServer, PurgeLog, EndSession,
              vars, masterVars, memory, history, Streaming

\* A file has checksums or not for as long as it exists.
LEMMA CrcStays ==
    ASSUME TypeInv, [Next]_vars, sess.phase \in Streaming
    PROVE  binlog'[sess.file].crc = binlog[sess.file].crc
  BY LogStep DEF TypeInv, SessOK, LogGrows

(***************************************************************************)
(* What a packet tells, by what the session was about to send.             *)
(***************************************************************************)
\* The session's record, field by field.
LEMMA SessFields ==
    ASSUME TypeInv
    PROVE  /\ sess \in [phase : Phases, file : Int, pos : Nat, aware : BOOLEAN]
           /\ sess.file \in Int /\ sess.pos \in Nat /\ sess.aware \in BOOLEAN
           /\ sess.phase \in Streaming =>
                /\ sess.file \in 1 .. Last /\ sess.pos \in 1 .. EndOf(sess.file)
                /\ binlog[sess.file].crc \in BOOLEAN
  BY LogFacts DEF TypeInv, TypeOK, MasterTypeOK, SessOK

LEMMA OpeningSent ==
    ASSUME TypeInv, Receive, SendOpening(buf')
    PROVE  /\ sess.phase = "open" /\ sess'.phase \in {"err", "events", "format"}
           /\ sess'.phase = "events" => sess.pos = 1
           /\ sess'.phase \in {"events", "format"} /\ ~sess.aware => ~binlog[sess.file].crc
           /\ sess'.file = sess.file /\ sess'.pos = sess.pos /\ sess'.aware = sess.aware
           /\ buf'.flag = "ok" /\ buf'.type = "ROTATE" /\ buf'.crc = FALSE
           /\ buf'.file = sess.file /\ buf'.pos = sess.pos
<1> DEFINE phase == PhaseFor(sess.file, IF sess.pos = 1 THEN "events" ELSE "format")
<1>1. /\ sess.phase = "open" /\ sess' = [sess EXCEPT !.phase = phase]
      /\ buf' = Packet("ROTATE", NoTid, sess.file, sess.pos, 0, FALSE)
  BY DEF SendOpening
<1>2. /\ phase \in {"err", "events", "format"} /\ (phase = "events" => sess.pos = 1)
      /\ phase \in {"events", "format"} /\ ~sess.aware => ~binlog[sess.file].crc
  BY DEF PhaseFor
<1> HIDE DEF phase
<1>3. QED
  BY <1>1, <1>2, SessFields DEF Packet

LEMMA FormatSent ==
    ASSUME TypeInv, Receive, SendFormat(buf')
    PROVE  /\ sess.phase = "format" /\ sess'.phase = "events"
           /\ sess'.file = sess.file /\ sess'.pos = sess.pos /\ sess'.aware = sess.aware
           /\ buf'.flag = "ok" /\ buf'.type = "FORMAT" /\ buf'.crc = binlog[sess.file].crc
  BY SessFields DEF SendFormat, Packet

LEMMA EventSent ==
    ASSUME TypeInv, Receive, SendEvent(buf')
    PROVE  LET e == binlog[sess.file].evs[sess.pos]
           IN  /\ sess.phase = "events" /\ sess'.phase = "events"
               /\ sess.file \in 1 .. Last /\ sess.pos \in 1 .. Len(binlog[sess.file].evs)
               /\ sess'.file = sess.file /\ sess'.pos = sess.pos + 1 /\ sess'.aware = sess.aware
               /\ e \in Events
               /\ sess.pos = 1 => e = FirstEvent
               /\ buf'.flag = "ok" /\ buf'.type = e.type
               /\ buf'.crc = binlog[sess.file].crc
               /\ IF e.type = "ROTATE"
                  THEN buf'.file = sess.file + 1 /\ buf'.pos = 1
                  ELSE buf'.file = sess.file /\ buf'.pos = sess.pos /\ buf'.tid = e.tid
                       /\ buf'.logPos = sess.pos + 1
<1> DEFINE e == binlog[sess.file].evs[sess.pos]
<1>1. sess.phase = "events" /\ sess.pos < EndOf(sess.file)
  BY DEF SendEvent
<1>2. sess.file \in 1 .. Last /\ sess.pos \in 1 .. EndOf(sess.file)
  BY <1>1, SessFields DEF Streaming
<1>3. Len(binlog[sess.file].evs) \in Nat
  BY <1>2, Bounds DEF TypeInv, LogOK
<1>4. sess.pos \in 1 .. Len(binlog[sess.file].evs)
  BY <1>1, <1>2, <1>3 DEF EndOf
<1>5. e \in Events /\ (sess.pos = 1 => e = FirstEvent)
  BY <1>2, <1>4, LogFacts DEF TypeInv, LogOK
<1>6. /\ sess' = [sess EXCEPT !.pos = @ + 1]
      /\ buf' = IF e.type = "ROTATE"
                THEN Packet("ROTATE", NoTid, sess.file + 1, 1, sess.pos + 1, binlog[sess.file].crc)
                ELSE Packet(e.type, e.tid, sess.file, sess.pos, sess.pos + 1, binlog[sess.file].crc)
  BY DEF SendEvent
<1>7. sess'.phase = "events" /\ sess'.file = sess.file /\ sess'.pos = sess.pos + 1
      /\ sess'.aware = sess.aware
  BY <1>1, <1>6, SessFields
<1> HIDE DEF e
<1>8. /\ buf'.flag = "ok" /\ buf'.type = e.type /\ buf'.crc = binlog[sess.file].crc
      /\ IF e.type = "ROTATE"
         THEN buf'.file = sess.file + 1 /\ buf'.pos = 1
         ELSE buf'.file = sess.file /\ buf'.pos = sess.pos /\ buf'.tid = e.tid
              /\ buf'.logPos = sess.pos + 1
  BY <1>6 DEF Packet
<1>9. QED
  BY <1>1, <1>2, <1>4, <1>5, <1>7, <1>8 DEF e

LEMMA SwitchSent ==
    ASSUME TypeInv, Receive, SendSwitch(buf')
    PROVE  /\ sess.phase = "events" /\ sess'.phase \in {"err", "events"}
           /\ sess'.phase = "events" /\ ~sess.aware => ~binlog[sess.file + 1].crc
           /\ sess.file \in 1 .. Last /\ sess.file < Last /\ sess.file + 1 \in 1 .. Last
           /\ sess.pos = EndOf(sess.file) /\ sess.pos > 1
           /\ sess'.file = sess.file + 1 /\ sess'.pos = 1 /\ sess'.aware = sess.aware
           /\ buf'.flag = "ok" /\ buf'.type = "ROTATE"
           /\ buf'.crc = (GeneratedCrc /\ binlog[sess.file].crc)
           /\ buf'.file = sess.file + 1 /\ buf'.pos = 1
<1> DEFINE phase == PhaseFor(sess.file + 1, "events")
<1>1. /\ sess.phase = "events" /\ sess.pos = EndOf(sess.file) /\ sess.file < Last
      /\ sess' = [phase |-> phase, file |-> sess.file + 1, pos |-> 1, aware |-> sess.aware]
      /\ buf' = Packet("ROTATE", NoTid, sess.file + 1, 1, 0, GeneratedCrc /\ binlog[sess.file].crc)
  BY DEF SendSwitch
<1>2. phase \in {"err", "events"} /\ (phase = "events" /\ ~sess.aware => ~binlog[sess.file + 1].crc)
  BY DEF PhaseFor
<1> HIDE DEF phase
<1>3. sess.file \in 1 .. Last /\ Last \in Nat
  BY <1>1, SessFields, Bounds DEF Streaming, TypeInv, LogOK
<1>4. Len(binlog[sess.file].evs) \in 1 .. MaxLen + 1
  BY <1>3 DEF TypeInv, LogOK
<1>5. sess.pos > 1
  BY <1>1, <1>4, Bounds DEF EndOf
<1>6. /\ buf'.flag = "ok" /\ buf'.type = "ROTATE" /\ buf'.file = sess.file + 1 /\ buf'.pos = 1
      /\ buf'.crc = (GeneratedCrc /\ binlog[sess.file].crc)
  BY <1>1 DEF Packet
<1>7. sess.file + 1 \in 1 .. Last
  BY <1>1, <1>3
<1>8. QED
  BY <1>1, <1>2, <1>3, <1>5, <1>6, <1>7

LEMMA EndSent ==
    ASSUME TypeInv, Receive, SendEnd(buf')
    PROVE  sess'.phase = "closed" /\ buf'.flag \in {"err", "eof"} /\ buf'.type = "OTHER"
  BY SessFields DEF SendEnd, Bare

\* A packet is one of these, and only the session and the buffer change.
LEMMA Received ==
    ASSUME Receive
    PROVE  /\ \/ SendOpening(buf') \/ SendFormat(buf') \/ SendEvent(buf')
              \/ SendSwitch(buf') \/ SendEnd(buf')
           /\ pc = "Read" /\ pc' = "Parse"
           /\ UNCHANGED <<binlog, cs, req, rotName, alg, tm, saved>>
           /\ UNCHANGED <<delivered, jumped, orphaned, interrupted>>
           /\ Last' = Last /\ \A f : EndOf(f)' = EndOf(f)
  BY DEF Receive, Send, history, Last, EndOf

(***************************************************************************)
(* Checksums.                                                              *)
(***************************************************************************)
\* Before a dump is requested there is no session, no algorithm from an
\* earlier one and no event left in the buffer.
Starting == {"Init", "Checksum", "Request"}
StartOK ==
    /\ pc \in Starting => sess.phase = "none" /\ alg # "CRC32"
    /\ pc \in Starting \union {"Reconnect"} => buf.flag # "ok"

\* Up to the FORMAT event of the session's first file there is no algorithm.
OpeningOK ==
    /\ sess.phase = "open" => pc = "Read"
    /\ sess.phase \in {"open", "format"} => alg # "CRC32"
    /\ sess.phase = "format" /\ pc = "Parse" => ~InBuf({"FORMAT"})

\* The server sends checksums only to a subscriber that knows of them.
AwareOK ==
    /\ sess.phase \in Streaming /\ sess.aware => cs
    /\ sess.phase \in {"format", "events"} /\ ~sess.aware => ~binlog[sess.file].crc

\* Behind a file's FORMAT event the parser goes by that file.
AlgOK ==
    sess.phase = "events" /\ sess.pos > 1 =>
        (IF pc = "Parse" /\ InBuf({"FORMAT"}) THEN buf.crc ELSE StripsCrc)
            = binlog[sess.file].crc

BufCrcOK == InBuf({"ROTATE", "TABLEMAP", "ROWS"}) => StripsCrc = buf.crc

CrcInv == StartOK /\ OpeningOK /\ AwareOK /\ AlgOK /\ BufCrcOK

LEMMA StartStep ==
    ASSUME TypeInv, StartOK, [Next]_vars
    PROVE  StartOK'
<1>1. CASE Server \/ UNCHANGED vars
  BY <1>1, ServerStep DEF StartOK
<1>2. CASE Startup \/ Reconnecting
  BY <1>2 DEF StartOK, Starting, Startup, StartPosition, StartChecksum, StartFails,
     Reconnecting, ReconnectAtLatest, ReconnectAtSaved, Reconnected, ReconnectDies,
     ReconnectFails, masterVars, memory, NoSession
<1>3. CASE Reading
  BY <1>3 DEF StartOK, Starting, Reading, Request, RequestLost, Receive, ReceiveNothing
<1>4. CASE Handling
  BY <1>4 DEF StartOK, Starting, Handling, ParseOtherFlag, ParseError, ParseShort, ParseRotate,
     ParseFormat, ParseTablemap, ParseOther, ParseRowOrphan, ParseRowUnmatched,
     ParseRowMatched, DeliverRows, Parsing, memory
<1>5. CASE Crash \/ Restart
  BY <1>5 DEF StartOK, Starting, Crash, Restart, FreshMemory, Unset, Bare, NoSession
<1>6. QED
  BY <1>1, <1>2, <1>3, <1>4, <1>5 DEF Next, Process

\* Steps that end the session or read no packet from one.
LEMMA OpeningStep ==
    ASSUME TypeInv, StartOK, OpeningOK, [Next]_vars
    PROVE  OpeningOK'
<1>1. sess \in [phase : Phases, file : Int, pos : Nat, aware : BOOLEAN]
  BY DEF TypeInv, TypeOK, MasterTypeOK
<1>2. CASE Server \/ UNCHANGED vars
  BY <1>2, ServerStep DEF OpeningOK, InBuf, Streaming
<1>3. CASE Startup \/ Request
  BY <1>3 DEF OpeningOK, StartOK, Starting, Startup, StartPosition, StartChecksum, StartFails,
     Request, OpenSession, masterVars, memory
<1>4. CASE Receive
  BY <1>1, <1>4 DEF OpeningOK, Receive, Send, SendOpening, SendFormat, SendEvent, SendSwitch,
     SendEnd, PhaseFor, Packet, InBuf
<1>5. CASE Handling
  BY <1>5 DEF OpeningOK, Handling, ParseOtherFlag, ParseError, ParseShort, ParseRotate,
     ParseFormat, ParseTablemap, ParseOther, ParseRowOrphan, ParseRowUnmatched,
     ParseRowMatched, DeliverRows, Parsing, masterVars, memory, InBuf
<1>6. CASE RequestLost \/ ReceiveNothing \/ Reconnecting \/ Crash \/ Restart
  BY <1>1, <1>6 DEF OpeningOK, RequestLost, ReceiveNothing, Reconnecting, ReconnectAtLatest,
     ReconnectAtSaved, Reconnected, ReconnectDies, ReconnectFails, Crash, Restart, masterVars,
     NoSession
<1>7. QED
  BY <1>2, <1>3, <1>4, <1>5, <1>6 DEF Next, Process, Reading

LEMMA AwareStep ==
    ASSUME TypeInv, StartOK, AwareOK, [Next]_vars
    PROVE  AwareOK'
<1>1. /\ sess \in [phase : Phases, file : Int, pos : Nat, aware : BOOLEAN]
      /\ sess.phase \in Streaming => binlog'[sess.file].crc = binlog[sess.file].crc
  BY CrcStays DEF TypeInv, TypeOK, MasterTypeOK
<1>2. CASE Server \/ UNCHANGED vars
  BY <1>1, <1>2, ServerStep DEF AwareOK, Streaming
<1>3. CASE Startup
  BY <1>3 DEF AwareOK, StartOK, Starting, Startup, StartPosition, StartChecksum, StartFails,
     masterVars, memory, Streaming
<1>4. CASE Request
  <2>1. PICK aware \in BOOLEAN :
           OpenSession(req.file, req.pos, aware) /\ (aware = cs \/ aware = FALSE)
    BY <1>4 DEF Request, TypeInv, TypeOK
  <2>2. sess'.aware = aware /\ sess'.phase \in {"open", "err"}
    BY <2>1 DEF OpenSession
  <2>3. UNCHANGED cs
    BY <1>4 DEF Request, memory
  <2>4. QED
    BY <2>1, <2>2, <2>3 DEF AwareOK
<1>5. CASE Receive
  <2>1. CASE SendOpening(buf')
    BY <1>5, <2>1, OpeningSent, Received DEF AwareOK, Streaming
  <2>2. CASE SendFormat(buf')
    BY <1>5, <2>2, FormatSent, Received DEF AwareOK, Streaming
  <2>3. CASE SendEvent(buf')
    BY <1>5, <2>3, EventSent, Received DEF AwareOK, Streaming
  <2>4. CASE SendSwitch(buf')
    BY <1>5, <2>4, SwitchSent, Received DEF AwareOK, Streaming
  <2>5. CASE SendEnd(buf')
    BY <1>5, <2>5, EndSent DEF AwareOK, Streaming
  <2>6. QED
    BY <1>5, <2>1, <2>2, <2>3, <2>4, <2>5, Received
<1>6. CASE Handling
  BY <1>6 DEF AwareOK, Handling, ParseOtherFlag, ParseError, ParseShort, ParseRotate,
     ParseFormat, ParseTablemap, ParseOther, ParseRowOrphan, ParseRowUnmatched,
     ParseRowMatched, DeliverRows, masterVars, memory
<1>7. CASE RequestLost \/ ReceiveNothing \/ Reconnecting \/ Crash \/ Restart
  BY <1>1, <1>7 DEF AwareOK, RequestLost, ReceiveNothing, Reconnecting, ReconnectAtLatest,
     ReconnectAtSaved, Reconnected, ReconnectDies, ReconnectFails, Crash, Restart, masterVars,
     NoSession, Streaming
<1>8. QED
  BY <1>2, <1>3, <1>4, <1>5, <1>6, <1>7 DEF Next, Process, Reading

\* What ParseFormatEvent makes of the algorithm is right for the file.
LEMMA FormatSetsAlg ==
    ASSUME TypeInv, ParseFormat
    PROVE  StripsCrc' = (cs /\ buf.crc)
  BY DEF ParseFormat, StripsCrc, TypeInv, TypeOK, Packets

LEMMA AlgStep ==
    ASSUME TypeInv, StartOK, AwareOK, AlgOK, [Next]_vars
    PROVE  AlgOK'
<1>1. CASE Server \/ UNCHANGED vars
  <2>1. SUFFICES ASSUME sess'.phase = "events" PROVE AlgOK'
    BY DEF AlgOK
  <2>2. UNCHANGED sess /\ binlog'[sess.file].crc = binlog[sess.file].crc
    BY <1>1, <2>1, ServerStep, CrcStays DEF Streaming
  <2>3. QED
    BY <1>1, <2>2, ServerStep DEF AlgOK, InBuf, StripsCrc
<1>2. CASE Startup
  BY <1>2 DEF AlgOK, StartOK, Starting, Startup, StartPosition, StartChecksum, StartFails,
     masterVars, memory
<1>3. CASE Receive
  <2>1. UNCHANGED StripsCrc
    BY <1>3, Received DEF StripsCrc
  <2>2. CASE SendOpening(buf')
    BY <1>3, <2>2, OpeningSent DEF AlgOK
  <2>3. CASE SendFormat(buf')
    BY <1>3, <2>3, FormatSent, Received DEF AlgOK, InBuf
  <2>4. CASE SendEvent(buf')
    <3>1. sess.pos = 1 => buf'.type = "FORMAT"
      BY <1>3, <2>4, EventSent DEF FirstEvent, Event
    <3>2. sess.pos # 1 => sess.pos > 1 /\ StripsCrc = binlog[sess.file].crc
      BY <1>3, <2>4, EventSent, Received, SessFields DEF AlgOK
    <3>3. QED
      BY <1>3, <2>1, <2>4, <3>1, <3>2, EventSent, Received DEF AlgOK, InBuf
  <2>5. CASE SendSwitch(buf')
    BY <1>3, <2>5, SwitchSent DEF AlgOK
  <2>6. CASE SendEnd(buf')
    BY <1>3, <2>6, EndSent DEF AlgOK
  <2>7. QED
    BY <1>3, <2>2, <2>3, <2>4, <2>5, <2>6, Received
<1>4. CASE ParseFormat
  <2>1. /\ UNCHANGED <<sess, binlog>> /\ pc' = "Read"
        /\ pc = "Parse" /\ InBuf({"FORMAT"})
    BY <1>4 DEF ParseFormat, Parsing, InBuf, masterVars
  <2>2. ASSUME sess.phase = "events", sess.pos > 1
        PROVE  StripsCrc' = binlog[sess.file].crc
    <3>1. buf.crc = binlog[sess.file].crc
      BY <2>1, <2>2 DEF AlgOK
    <3>2. binlog[sess.file].crc \in BOOLEAN /\ (binlog[sess.file].crc => cs) /\ cs \in BOOLEAN
      BY <2>2, SessFields DEF AwareOK, Streaming, TypeInv, TypeOK
    <3>3. QED
      BY <1>4, <3>1, <3>2, FormatSetsAlg
  <2>3. QED
    BY <2>1, <2>2 DEF AlgOK
<1>5. CASE Handling /\ ~ParseFormat
  <2>1. UNCHANGED <<sess, binlog, StripsCrc>> /\ pc' # "Parse"
    BY <1>5 DEF Handling, ParseOtherFlag, ParseError, ParseShort, ParseRotate, ParseTablemap,
       ParseOther, ParseRowOrphan, ParseRowUnmatched, ParseRowMatched, DeliverRows,
       masterVars, memory, StripsCrc
  <2>2. ~(pc = "Parse" /\ InBuf({"FORMAT"}))
    BY <1>5 DEF Handling, ParseOtherFlag, ParseError, ParseShort, ParseRotate, ParseTablemap,
       ParseOther, ParseRowOrphan, ParseRowUnmatched, ParseRowMatched, DeliverRows, Parsing,
       InBuf
  <2>3. QED
    BY <2>1, <2>2 DEF AlgOK
<1>6. CASE Request \/ RequestLost \/ ReceiveNothing \/ Reconnecting \/ Crash \/ Restart
  <2>1. CASE Request
    BY <2>1 DEF Request, OpenSession, AlgOK
  <2>2. CASE RequestLost \/ ReceiveNothing \/ Reconnecting \/ Crash \/ Restart
    BY <2>2, SessFields DEF RequestLost, ReceiveNothing, Reconnecting, ReconnectAtLatest,
       ReconnectAtSaved, Reconnected, ReconnectDies, ReconnectFails, Crash, Restart,
       masterVars, NoSession, AlgOK
  <2>3. QED
    BY <1>6, <2>1, <2>2
<1>7. QED
  BY <1>1, <1>2, <1>3, <1>4, <1>5, <1>6 DEF Next, Process, Reading

LEMMA BufCrcStep ==
    ASSUME GeneratedCrc, TypeInv, CrcInv, [Next]_vars
    PROVE  BufCrcOK'
<1>1. CASE Receive
  <2>1. UNCHANGED StripsCrc /\ ~(pc = "Parse")
    BY <1>1, Received DEF StripsCrc
  <2>2. CASE SendOpening(buf')
    <3>1. ~StripsCrc
      BY <1>1, <2>2, OpeningSent DEF CrcInv, OpeningOK, StripsCrc, TypeInv, TypeOK, Algs
    <3>2. QED
      BY <1>1, <2>1, <2>2, <3>1, OpeningSent DEF BufCrcOK, StripsCrc
  <2>3. CASE SendFormat(buf')
    BY <1>1, <2>3, FormatSent DEF BufCrcOK, InBuf
  <2>4. CASE SendEvent(buf')
    <3>1. sess.pos = 1 => buf'.type = "FORMAT"
      BY <1>1, <2>4, EventSent DEF FirstEvent, Event
    <3>2. sess.pos # 1 => StripsCrc = binlog[sess.file].crc
      BY <1>1, <2>1, <2>4, EventSent, SessFields DEF CrcInv, AlgOK
    <3>3. QED
      BY <1>1, <2>1, <2>4, <3>1, <3>2, EventSent DEF BufCrcOK, InBuf
  <2>5. CASE SendSwitch(buf')
    <3>1. StripsCrc = binlog[sess.file].crc /\ binlog[sess.file].crc \in BOOLEAN
      BY <1>1, <2>1, <2>5, SwitchSent, SessFields DEF CrcInv, AlgOK, Streaming
    <3>2. buf'.crc = (GeneratedCrc /\ binlog[sess.file].crc)
      BY <1>1, <2>5, SwitchSent
    <3>3. QED
      BY <2>1, <3>1, <3>2 DEF BufCrcOK
  <2>6. CASE SendEnd(buf')
    BY <1>1, <2>6, EndSent DEF BufCrcOK, InBuf
  <2>7. QED
    BY <1>1, <2>2, <2>3, <2>4, <2>5, <2>6, Received
<1>2. CASE buf'.type = "SHORT"
  BY <1>2 DEF BufCrcOK, InBuf
<1>3. CASE UNCHANGED <<buf, cs, alg>>
  BY <1>3 DEF CrcInv, BufCrcOK, InBuf, StripsCrc
<1>4. CASE ParseFormat
  BY <1>4 DEF ParseFormat, Parsing, BufCrcOK, InBuf
<1>5. CASE UNCHANGED buf /\ pc \in Starting \union {"Reconnect"}
  BY <1>5 DEF CrcInv, StartOK, BufCrcOK, InBuf
<1>6. CASE Startup \/ Reconnecting
  BY <1>5, <1>6 DEF Startup, StartPosition, StartChecksum, StartFails, Reconnecting,
     ReconnectAtLatest, ReconnectAtSaved, ReconnectDies, ReconnectFails, memory, Starting
<1>7. CASE Server \/ UNCHANGED vars
  BY <1>3, <1>7, ServerStep DEF CrcInv
<1>8. CASE Request \/ RequestLost \/ ReceiveNothing \/ Crash
  BY <1>2, <1>3, <1>8, BufferNotRead DEF Request, RequestLost, ReceiveNothing, Crash, memory
<1>9. CASE Handling /\ ~ParseFormat
  BY <1>3, <1>9 DEF Handling, ParseOtherFlag, ParseError, ParseShort, ParseRotate,
     ParseTablemap, ParseOther, ParseRowOrphan, ParseRowUnmatched, ParseRowMatched,
     DeliverRows, memory
<1>10. CASE Restart
  BY <1>2, <1>10 DEF Restart, FreshMemory, Unset, Bare
<1>11. QED
  BY <1>1, <1>4, <1>6, <1>7, <1>8, <1>9, <1>10 DEF Next, Process, Reading

LEMMA CrcInvInit == Init => CrcInv
  BY DEF Init, MasterInit, NoSession, Unset, Bare, CrcInv, StartOK, OpeningOK, AwareOK, AlgOK,
         BufCrcOK, InBuf, Streaming, Starting

LEMMA CrcInvStep == GeneratedCrc /\ TypeInv /\ CrcInv /\ [Next]_vars => CrcInv'
<1>1. SUFFICES ASSUME GeneratedCrc, TypeInv, CrcInv, [Next]_vars PROVE CrcInv'
  OBVIOUS
<1>2. QED
  BY <1>1, StartStep, OpeningStep, AwareStep, AlgStep, BufCrcStep DEF CrcInv

\* What a handler strips is what the server put there: whenever an event with
\* a payload is parsed, its last four bytes are taken for a checksum if and
\* only if they are one, over reconnects, restarts, rotations and servers that
\* turn checksums on and off, under every fault (packet.cc:118, 160, 191).
\* The server's own ROTATE between two files must carry one like the others.
THEOREM CrcAgrees == ASSUME GeneratedCrc PROVE Spec => []CrcAgreement
<1>1. CrcInv => CrcAgreement
  BY DEF CrcInv, BufCrcOK, CrcAgreement, Parsing, InBuf
<1>2. TypeInv /\ CrcInv /\ [Next]_vars => TypeInv' /\ CrcInv'
  BY TypeInvStep, CrcInvStep
<1>3. QED
  BY TypeInvInit, CrcInvInit, <1>1, <1>2, PTL DEF Spec

(***************************************************************************)
(* Table maps.                                                             *)
(***************************************************************************)
\* Metas are those of the table the id stands for.
MetaOK == \A t \in Tids : tm[t].meta = tm[t].def

LEMMA MetaStep ==
    ASSUME LossInv, MetaOK, [Next]_vars
    PROVE  MetaOK'
<1>1. tm \in [Tids -> Maps]
  BY DEF LossInv, TypeInv, TypeOK
<1>2. CASE ParseFormat \/ Restart
  BY <1>2 DEF ParseFormat, Restart, FreshMemory, NoMaps, MetaOK
<1>3. CASE ParseTablemap
  <2>1. tm' = WithTablemap(buf.tid, TableOf[buf.file][buf.tid])
    BY <1>3 DEF ParseTablemap
  <2>2. Agrees(buf.file)
    BY <1>3 DEF ParseTablemap, Parsing, LossInv, AllMapsOK, BufMapsOK, InBuf
  <2>3. QED
    BY <1>1, <2>1, <2>2 DEF WithTablemap, Agrees, MetaOK
<1>4. CASE UNCHANGED tm
  BY <1>4 DEF MetaOK
<1>5. QED
  BY <1>2, <1>3, <1>4
     DEF Next, Server, Process, Startup, Reading, Handling, Reconnecting, StartPosition,
         StartChecksum, StartFails, Request, RequestLost, Receive, ReceiveNothing,
         ParseOtherFlag, ParseError, ParseShort, ParseRotate, ParseOther, ParseRowOrphan,
         ParseRowUnmatched, ParseRowMatched, DeliverRows, ReconnectAtLatest,
         ReconnectAtSaved, ReconnectDies, ReconnectFails, Crash, memory, vars

\* The id of a row event is a table id.
LEMMA RowsId ==
    ASSUME LossInv, InBuf({"ROWS"})
    PROVE  buf.tid \in Tids
<1>1. EventAt(At(buf)) = Event("ROWS", buf.tid) /\ IsEvent(At(buf))
  BY EndOfRows DEF IsEvent, At
<1>2. EventAt(At(buf)) \in Events
  BY <1>1, LogFacts DEF LossInv, TypeInv, IsEvent, EventAt
<1>3. QED
  BY <1>1, <1>2, EventFacts DEF Event

\* Rows are decoded with a table map of their own file, definition and metas,
\* though ids stand for other tables in every file and a map for a known id
\* does not replace its metas, under every fault (packet.cc:141-148,
\* event.cc:155).
THEOREM MetasAgree == Spec => []MetaAgreement
<1>1. ASSUME LossInv, MetaOK PROVE MetaAgreement
  <2>1. SUFFICES ASSUME Parsing("ok", {"ROWS"}), tm[buf.tid].def # NoTable
                 PROVE  tm[buf.tid] = [def |-> TableOf[buf.file][buf.tid],
                                       meta |-> TableOf[buf.file][buf.tid]]
    BY DEF MetaAgreement
  <2>2. InBuf({"ROWS"})
    BY <2>1 DEF Parsing, InBuf
  <2>3. buf.tid \in Tids /\ Agrees(buf.file)
    BY <1>1, <2>2, RowsId DEF LossInv, AllMapsOK, BufMapsOK, InBuf
  <2>4. tm[buf.tid] \in Maps
    BY <1>1, <2>3 DEF LossInv, TypeInv, TypeOK
  <2>5. tm[buf.tid].def = TableOf[buf.file][buf.tid] /\ tm[buf.tid].meta = tm[buf.tid].def
    BY <1>1, <2>1, <2>3 DEF Agrees, MetaOK
  <2>6. QED
    BY <2>4, <2>5 DEF Maps
<1>2. Init => MetaOK
  BY DEF Init, MetaOK, NoMaps
<1>3. LossInv /\ MetaOK /\ [Next]_vars => LossInv' /\ MetaOK'
  BY LossInvStep, MetaStep
<1>4. QED
  BY LossInvInit, <1>1, <1>2, <1>3, PTL DEF Spec

(***************************************************************************)
(* Positions.                                                              *)
(***************************************************************************)
InLog(p) == p.file \in 1 .. Last /\ p.pos \in 1 .. EndOf(p.file)

\* A ROTATE leads to a place in the log, and so does what is saved.
PlaceOK ==
    /\ rotName # Garbled
    /\ InBuf({"ROTATE"}) => InLog(At(buf))
    /\ SavedServable

\* A place in the log stays one.
LEMMA InLogStays ==
    ASSUME TypeInv, [Next]_vars, NEW p, InLog(p)
    PROVE  p.file \in 1 .. Last' /\ p.pos \in 1 .. EndOf(p.file)'
<1>1. LogOK /\ LogOK' /\ LogGrows
  BY LogStep DEF TypeInv
<1>2. p.file \in 1 .. Last /\ p.file \in 1 .. Last'
  BY <1>1, Bounds DEF InLog, LogOK, LogGrows, Last
<1>3. /\ Len(binlog[p.file].evs) \in 1 .. MaxLen + 1
      /\ Len(binlog'[p.file].evs) \in 1 .. MaxLen + 1
      /\ Len(binlog[p.file].evs) <= Len(binlog'[p.file].evs)
  BY <1>1, <1>2 DEF LogOK, LogGrows
<1>4. QED
  BY <1>2, <1>3, Bounds DEF InLog, EndOf

\* A file starts with a place.
LEMMA FirstPlace ==
    ASSUME TypeInv, NEW f \in 1 .. Last
    PROVE  1 \in 1 .. EndOf(f)
  BY Bounds DEF TypeInv, LogOK, EndOf

LEMMA RotatePlace ==
    ASSUME LossInv, PlaceOK, [Next]_vars
    PROVE  InBuf({"ROTATE"})' => InLog(At(buf))'
<1>1. TypeInv /\ RotatesLast
  BY DEF LossInv
<1>2. CASE UNCHANGED buf
  <2>1. ASSUME InBuf({"ROTATE"}) PROVE InLog(At(buf))'
    <3>1. InLog(At(buf))
      BY <2>1 DEF PlaceOK
    <3>2. PICK p : p = At(buf)
      OBVIOUS
    <3>3. p.file \in 1 .. Last' /\ p.pos \in 1 .. EndOf(p.file)'
      BY <1>1, <3>1, <3>2, InLogStays
    <3>4. QED
      BY <1>2, <3>2, <3>3 DEF InLog, At
  <2>2. QED
    BY <1>2, <2>1 DEF InBuf
<1>3. CASE buf'.type = "SHORT"
  BY <1>3 DEF InBuf
<1>4. CASE Receive
  <2>1. SUFFICES ASSUME buf'.type = "ROTATE", buf'.flag = "ok"
                 PROVE  buf'.file \in 1 .. Last /\ buf'.pos \in 1 .. EndOf(buf'.file)
    BY <1>4, Received DEF InBuf, InLog, At
  <2>2. CASE SendOpening(buf')
    BY <1>1, <1>4, <2>2, OpeningSent, SessFields DEF Streaming
  <2>3. CASE SendFormat(buf')
    BY <1>1, <1>4, <2>1, <2>3, FormatSent
  <2>4. CASE SendEvent(buf')
    <3>1. /\ sess.file \in 1 .. Last /\ sess.pos \in 1 .. Len(binlog[sess.file].evs)
          /\ binlog[sess.file].evs[sess.pos].type = "ROTATE"
          /\ buf'.file = sess.file + 1 /\ buf'.pos = 1
      BY <1>1, <1>4, <2>1, <2>4, EventSent
    <3>2. sess.file < Last /\ Last \in Nat
      BY <1>1, <3>1, Bounds DEF RotatesLast, TypeInv, LogOK
    <3>3. QED
      BY <1>1, <3>1, <3>2, FirstPlace
  <2>5. CASE SendSwitch(buf')
    BY <1>1, <1>4, <2>5, SwitchSent, FirstPlace
  <2>6. CASE SendEnd(buf')
    BY <1>1, <1>4, <2>1, <2>6, EndSent
  <2>7. QED
    BY <1>4, <2>2, <2>3, <2>4, <2>5, <2>6, Received
<1>5. QED
  BY <1>2, <1>3, <1>4, BufferKept, BufferNotRead

LEMMA NameSet ==
    ASSUME LossInv, CrcInv, PlaceOK, [Next]_vars
    PROVE  rotName' # Garbled
<1>1. CASE ParseRotate
  <2>1. InBuf({"ROTATE"}) /\ rotName' = (IF StripsCrc = buf.crc THEN buf.file ELSE Garbled)
    BY <1>1 DEF ParseRotate, Parsing, InBuf
  <2>2. rotName' = buf.file
    BY <2>1 DEF CrcInv, BufCrcOK, InBuf
  <2>3. QED
    BY <2>1, <2>2 DEF PlaceOK, InLog, At, Garbled
<1>2. CASE Restart
  BY <1>2 DEF Restart, FreshMemory, Garbled
<1>3. CASE UNCHANGED rotName
  BY <1>3 DEF PlaceOK
<1>4. QED
  BY <1>1, <1>2, <1>3
     DEF Next, Server, Process, Startup, Reading, Handling, Reconnecting, StartPosition,
         StartChecksum, StartFails, Request, RequestLost, Receive, ReceiveNothing,
         ParseOtherFlag, ParseError, ParseShort, ParseFormat, ParseTablemap, ParseOther,
         ParseRowOrphan, ParseRowUnmatched, ParseRowMatched, DeliverRows,
         ReconnectAtLatest, ReconnectAtSaved, ReconnectDies, ReconnectFails, Crash,
         memory, vars

\* What a handler saves, if it saves: where a ROTATE leads, or the end of the
\* row event in the buffer.
LEMMA SavedOnly ==
    ASSUME LossInv, CrcInv, PlaceOK, [Next]_vars
    PROVE  \/ UNCHANGED saved
           \/ ParseRotate /\ InBuf({"ROTATE"}) /\ saved' = At(buf)
           \/ ParseRowMatched /\ InBuf({"ROWS"}) /\ saved' = Pos(buf.file, buf.pos + 1)
<1>1. CASE ParseRotate
  <2>1. InBuf({"ROTATE"}) /\ rotName' = (IF StripsCrc = buf.crc THEN buf.file ELSE Garbled)
        /\ next' = [file |-> rotName', pos |-> buf.pos] /\ saved' \in {saved, next'}
    BY <1>1 DEF ParseRotate, Parsing, InBuf, SaveNextReqPos
  <2>2. rotName' = buf.file
    BY <2>1 DEF CrcInv, BufCrcOK, InBuf
  <2>3. QED
    BY <1>1, <2>1, <2>2 DEF At
<1>2. CASE ParseRowMatched
  <2>1. InBuf({"ROWS"}) /\ saved' \in {saved, NextAfter}
    BY <1>2 DEF ParseRowMatched, Parsing, InBuf, SaveNextReqPos
  <2>2. buf.logPos = buf.pos + 1 /\ rotName = buf.file /\ buf.pos \in Nat
    BY <2>1 DEF LossInv, TypeInv, TypeOK, Packets, NamesOK, BufNameOK, PlaceOK
  <2>3. QED
    BY <1>2, <2>1, <2>2 DEF NextAfter, Pos
<1>3. QED
  BY <1>1, <1>2
     DEF Next, Server, Process, Startup, Reading, Handling, Reconnecting, StartPosition,
         StartChecksum, StartFails, Request, RequestLost, Receive, ReceiveNothing,
         ParseOtherFlag, ParseError, ParseShort, ParseFormat, ParseTablemap, ParseOther,
         ParseRowOrphan, ParseRowUnmatched, DeliverRows, ReconnectAtLatest,
         ReconnectAtSaved, ReconnectDies, ReconnectFails, Crash, Restart, memory, vars

LEMMA ServableStep ==
    ASSUME LossInv, CrcInv, PlaceOK, [Next]_vars
    PROVE  SavedServable'
<1>1. TypeInv
  BY DEF LossInv
<1>2. \A p : InLog(p) => p.file \in 1 .. Last' /\ p.pos \in 1 .. EndOf(p.file)'
  BY <1>1, InLogStays
<1>3. SUFFICES saved' = saved \/ InLog(saved')
  BY <1>2 DEF PlaceOK, SavedServable, InLog, EndOf, Last
<1>4. CASE InBuf({"ROTATE"}) /\ saved' = At(buf)
  BY <1>4 DEF PlaceOK
<1>5. CASE InBuf({"ROWS"}) /\ saved' = Pos(buf.file, buf.pos + 1)
  <2>1. buf.file \in 1 .. Last /\ buf.pos \in 1 .. Len(binlog[buf.file].evs)
    BY <1>5, EndOfRows
  <2>2. Len(binlog[buf.file].evs) \in 1 .. MaxLen + 1
    BY <1>1, <2>1 DEF TypeInv, LogOK
  <2>3. QED
    BY <1>5, <2>1, <2>2, Bounds DEF InLog, Pos, EndOf
<1>6. QED
  BY <1>4, <1>5, SavedOnly

PlaceInv == LossInv /\ CrcInv /\ PlaceOK

LEMMA PlaceInvInit == Init => PlaceInv
<1>1. SUFFICES ASSUME Init PROVE PlaceOK
  BY LossInvInit, CrcInvInit DEF PlaceInv
<1>2. QED
  BY <1>1 DEF Init, PlaceOK, Garbled, InBuf, Unset, Bare, SavedServable

LEMMA PlaceInvStep == ASSUME GeneratedCrc, PlaceInv, [Next]_vars PROVE PlaceInv'
<1>1. LossInv' /\ CrcInv'
  BY LossInvStep, CrcInvStep DEF PlaceInv, LossInv
<1>2. PlaceOK'
  BY RotatePlace, NameSet, ServableStep DEF PlaceInv, PlaceOK
<1>3. QED
  BY <1>1, <1>2 DEF PlaceInv

\* The position in Redis is always an event boundary of a file the server
\* wrote, whatever failed on the way, so that a reconnect has something to ask
\* for: no name is ever cut short or has checksum bytes in it, and no position
\* is paired with another file's name (packet.cc:124-131, 203-209).
THEOREM SavedAlwaysServable == ASSUME GeneratedCrc PROVE Spec => []SavedServable
<1>1. PlaceInv => SavedServable
  BY DEF PlaceInv, PlaceOK
<1>2. PlaceInv /\ [Next]_vars => PlaceInv'
  BY PlaceInvStep
<1>3. QED
  BY PlaceInvInit, <1>1, <1>2, PTL DEF Spec
=============================================================================
