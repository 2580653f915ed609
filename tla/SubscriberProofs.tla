-------------------------- MODULE SubscriberProofs --------------------------
(***************************************************************************)
(* Theorems about Subscriber, for every value of its constants.            *)
(***************************************************************************)
EXTENDS Subscriber, TLAPS

\* The assumptions on the constants, as facts to cite.
LEMMA Bounds ==
    MaxFiles \in Nat /\ MaxFiles > 0 /\ MaxLen \in Nat /\ MaxLen > 0 /\ MaxCuts \in Nat
  BY BoundsAssumption DEF BoundsAssumption

\* A transaction is a sequence of events.
LEMMA TxnTypes == ASSUME NEW txn \in Txns PROVE txn \in Seq(Events) /\ Len(txn) \in Nat
<1>1. txn \in Seq(Events)
  <2>1. txn \in Seq(TxnEvents) /\ TxnEvents \subseteq Events
    BY TxnsAssumption DEF TxnsAssumption, TxnEvents
  <2>2. QED
    BY <2>1
<1>2. QED
  BY <1>1

(***************************************************************************)
(* The log only grows.                                                     *)
(***************************************************************************)
LogOK ==
    /\ binlog \in Seq(LogFiles)
    /\ Last \in 1 .. MaxFiles
    /\ \A f \in 1 .. Last : Len(binlog[f].evs) \in 1 .. MaxLen + 1
    /\ \A f \in 1 .. Last : binlog[f].evs[1] = FirstEvent
    /\ Len(binlog[Last].evs) <= MaxLen

\* What a step of the server does to the log: files and events stay.
LogGrows ==
    /\ Last <= Len(binlog')
    /\ \A f \in 1 .. Last :
          /\ binlog'[f].crc = binlog[f].crc
          /\ Len(binlog[f].evs) <= Len(binlog'[f].evs)
          /\ \A k \in 1 .. Len(binlog[f].evs) : binlog'[f].evs[k] = binlog[f].evs[k]

\* A file that was extended, and one that was added.
LEMMA ExtendedFile ==
    ASSUME LogOK, NEW evs \in Seq(Events)
    PROVE  LET file == Extended(Last, evs)
           IN  /\ file \in LogFiles
               /\ file.crc = binlog[Last].crc
               /\ Len(file.evs) = Len(binlog[Last].evs) + Len(evs)
               /\ \A k \in 1 .. Len(binlog[Last].evs) : file.evs[k] = binlog[Last].evs[k]
<1>1. binlog[Last] \in LogFiles
  BY Bounds DEF LogOK, Last
<1>2. QED
  BY <1>1 DEF Extended, LogFiles

\* A commit extends the last file and keeps every event that was there.
LEMMA CommitGrows ==
    ASSUME LogOK, NEW txn \in Txns, Commit(txn)
    PROVE  LogOK' /\ LogGrows
<1> DEFINE file == Extended(Last, txn)
<1>1. txn \in Seq(Events) /\ Len(txn) \in Nat
  BY TxnTypes
<1>2. /\ file \in LogFiles
      /\ file.crc = binlog[Last].crc
      /\ Len(file.evs) = Len(binlog[Last].evs) + Len(txn)
      /\ \A k \in 1 .. Len(binlog[Last].evs) : file.evs[k] = binlog[Last].evs[k]
  BY <1>1, ExtendedFile
<1> HIDE DEF file
<1>3. Last \in 1 .. Len(binlog) /\ Len(binlog[Last].evs) \in 1 .. MaxLen + 1
  BY Bounds DEF LogOK, Last
<1>4. /\ binlog' = [binlog EXCEPT ![Last] = file]
      /\ Len(binlog[Last].evs) + Len(txn) <= MaxLen
  BY DEF Commit, file
<1>5. /\ binlog' \in Seq(LogFiles)
      /\ Len(binlog') = Len(binlog)
      /\ \A f \in 1 .. Len(binlog) : f # Last => binlog'[f] = binlog[f]
      /\ binlog'[Last] = file
  BY <1>2, <1>3, <1>4 DEF LogOK
<1>6. Last' = Last
  BY <1>5 DEF Last
<1>7. LogGrows
  BY <1>2, <1>3, <1>5, <1>6, Bounds DEF LogGrows, Last
<1>8. LogOK'
  <2>1. Len(binlog'[Last].evs) \in 1 .. MaxLen
    BY <1>1, <1>2, <1>3, <1>4, <1>5, Bounds
  <2>2. \A f \in 1 .. Last : Len(binlog'[f].evs) \in 1 .. MaxLen + 1
    BY <2>1, <1>5, Bounds DEF LogOK, Last
  <2>3. binlog'[Last].evs[1] = FirstEvent
    BY <1>2, <1>3, <1>5 DEF LogOK, Last
  <2>4. \A f \in 1 .. Last : binlog'[f].evs[1] = FirstEvent
    BY <2>3, <1>5 DEF LogOK, Last
  <2>5. QED
    BY <1>5, <1>6, <2>1, <2>2, <2>4 DEF LogOK
<1>9. QED
  BY <1>7, <1>8

\* A new file is added behind a log that may have been extended.
LEMMA AppendGrows ==
    ASSUME LogOK, NEW crc \in Crcs, NEW log,
           log \in Seq(LogFiles), Len(log) = Last,
           \A f \in 1 .. Last :
              /\ log[f].crc = binlog[f].crc
              /\ Len(log[f].evs) \in Len(binlog[f].evs) .. MaxLen + 1
              /\ \A k \in 1 .. Len(binlog[f].evs) : log[f].evs[k] = binlog[f].evs[k],
           Last < MaxFiles, binlog' = Append(log, NewFile(crc))
    PROVE  LogOK' /\ LogGrows
<1>1. /\ NewFile(crc) \in LogFiles
      /\ NewFile(crc).evs[1] = FirstEvent
      /\ Len(NewFile(crc).evs) = 1
  <2>1. FirstEvent \in Events
    BY DEF FirstEvent, Event, Events
  <2>2. <<FirstEvent>> \in Seq(Events)
    BY <2>1
  <2>3. crc \in BOOLEAN
    BY CrcAssumption DEF CrcAssumption
  <2>4. QED
    BY <2>2, <2>3 DEF NewFile, LogFiles
<1> DEFINE new == NewFile(crc)
<1> HIDE DEF new
<1>2. /\ binlog' \in Seq(LogFiles)
      /\ Len(binlog') = Last + 1
      /\ \A f \in 1 .. Last : binlog'[f] = log[f]
      /\ binlog'[Last + 1] = new
  BY <1>1 DEF new
<1>3. Last' = Last + 1 /\ Last \in Nat \ {0}
  BY <1>2, Bounds DEF Last, LogOK
<1>4. LogGrows
  BY <1>2, <1>3, Bounds DEF LogGrows, LogOK
<1>5. LogOK'
  <2>1. \A f \in 1 .. Last : Len(log[f].evs) \in 1 .. MaxLen + 1
    BY <1>3, Bounds DEF LogOK
  <2>2. \A f \in 1 .. Last : log[f].evs[1] = FirstEvent
    <3>1. \A f \in 1 .. Last : 1 \in 1 .. Len(binlog[f].evs)
      BY Bounds DEF LogOK
    <3>2. QED
      BY <3>1 DEF LogOK
  <2>3. \A f \in 1 .. Last' : f = Last' \/ f \in 1 .. Last
    BY <1>3
  <2>4. Len(new.evs) \in 1 .. MaxLen /\ Len(new.evs) \in 1 .. MaxLen + 1
    BY <1>1, Bounds DEF new
  <2>9. new.evs[1] = FirstEvent
    BY <1>1 DEF new
  <2>5. \A f \in 1 .. Last' : Len(binlog'[f].evs) \in 1 .. MaxLen + 1
    BY <1>2, <1>3, <2>1, <2>3, <2>4
  <2>6. \A f \in 1 .. Last' : binlog'[f].evs[1] = FirstEvent
    BY <1>2, <1>3, <2>2, <2>3, <2>9
  <2>7. Len(binlog'[Last'].evs) <= MaxLen
    BY <1>2, <1>3, <2>4
  <2>8. QED
    BY <1>2, <1>3, <2>5, <2>6, <2>7, Bounds DEF LogOK
<1>6. QED
  BY <1>4, <1>5

\* A rotation ends the last file with a ROTATE and adds a file.
LEMMA RotateGrows ==
    ASSUME LogOK, NEW crc \in Crcs, RotateLog(crc)
    PROVE  LogOK' /\ LogGrows
<1> DEFINE rotate == Event("ROTATE", NoTid)
           file == Extended(Last, <<rotate>>)
           log == [binlog EXCEPT ![Last] = file]
<1>1. <<rotate>> \in Seq(Events) /\ Len(<<rotate>>) = 1
  <2>1. rotate \in Events
    BY DEF Event, Events
  <2>2. QED
    BY <2>1
<1>2. /\ file \in LogFiles
      /\ file.crc = binlog[Last].crc
      /\ Len(file.evs) = Len(binlog[Last].evs) + 1
      /\ \A k \in 1 .. Len(binlog[Last].evs) : file.evs[k] = binlog[Last].evs[k]
  BY <1>1, ExtendedFile
<1>3. Last \in 1 .. Len(binlog) /\ Len(binlog[Last].evs) \in 1 .. MaxLen
  BY Bounds DEF LogOK, Last
<1>4. Last < MaxFiles /\ binlog' = Append(log, NewFile(crc))
  BY DEF RotateLog
<1> HIDE DEF file
<1>5. /\ log \in Seq(LogFiles)
      /\ Len(log) = Last
      /\ \A f \in 1 .. Last : f # Last => log[f] = binlog[f]
      /\ log[Last] = file
  BY <1>2, <1>3 DEF LogOK, Last
<1> HIDE DEF log
<1>6. \A f \in 1 .. Last :
         /\ log[f].crc = binlog[f].crc
         /\ Len(log[f].evs) \in Len(binlog[f].evs) .. MaxLen + 1
         /\ \A k \in 1 .. Len(binlog[f].evs) : log[f].evs[k] = binlog[f].evs[k]
  BY <1>2, <1>3, <1>5, Bounds DEF LogOK
<1>7. QED
  BY <1>4, <1>5, <1>6, AppendGrows

\* A server restart adds a file and touches no other.
LEMMA RestartGrows ==
    ASSUME LogOK, NEW crc \in Crcs, RestartServer(crc)
    PROVE  LogOK' /\ LogGrows
<1>1. Last < MaxFiles /\ binlog' = Append(binlog, NewFile(crc))
  BY DEF RestartServer
<1>2. \A f \in 1 .. Last :
         /\ Len(binlog[f].evs) \in Len(binlog[f].evs) .. MaxLen + 1
         /\ \A k \in 1 .. Len(binlog[f].evs) : binlog[f].evs[k] = binlog[f].evs[k]
  BY Bounds DEF LogOK
<1>3. binlog \in Seq(LogFiles) /\ Len(binlog) = Last
  BY DEF LogOK, Last
<1>4. QED
  BY <1>1, <1>2, <1>3, AppendGrows

\* A step that leaves the binlog alone keeps what is known of it.
LEMMA SameLog ==
    ASSUME LogOK, UNCHANGED binlog
    PROVE  LogOK' /\ LogGrows
<1>1. Last' = Last /\ Last \in Nat
  BY Bounds DEF LogOK, Last
<1>2. LogOK'
  BY <1>1 DEF LogOK
<1>3. \A f \in 1 .. Last : Len(binlog[f].evs) \in Nat
  BY Bounds DEF LogOK
<1>4. QED
  BY <1>1, <1>2, <1>3 DEF LogGrows, Last

(***************************************************************************)
(* Types.  The session's cursor is a place in the log, and a table map or  *)
(* row event in the buffer is an event of the log.                         *)
(***************************************************************************)
SessTyped == sess \in [phase : Phases, file : Int, pos : Nat, aware : BOOLEAN]
SessOK ==
    sess.phase \in Streaming => sess.file \in 1 .. Last /\ sess.pos \in 1 .. EndOf(sess.file)

Genuine(p) ==
    p.flag = "ok" /\ p.type \in {"TABLEMAP", "ROWS"} =>
        IsEvent(At(p)) /\ EventAt(At(p)) = Event(p.type, p.tid)
RowsOK == pc = "Rows" => buf.flag = "ok" /\ buf.type = "ROWS"

TypeInv == TypeOK /\ LogOK /\ SessOK /\ Genuine(buf) /\ RowsOK

\* What the type of an event says of its table id.
LEMMA EventFacts ==
    ASSUME NEW e \in Events
    PROVE  /\ e.type \in EventTypes
           /\ e.tid \in Tids \union {NoTid}
           /\ e.type \in {"TABLEMAP", "ROWS"} => e.tid \in Tids
           /\ e = Event(e.type, e.tid)
  BY DEF Events, EventTypes, Event

\* A file of the log is one, and is not empty.
LEMMA LogFacts ==
    ASSUME LogOK, NEW f \in 1 .. Last
    PROVE  /\ f \in Files
           /\ binlog[f].crc \in BOOLEAN
           /\ Len(binlog[f].evs) \in 1 .. MaxLen + 1
           /\ EndOf(f) \in Nat
           /\ \A k \in 1 .. Len(binlog[f].evs) : binlog[f].evs[k] \in Events
<1>1. f \in Files /\ f \in 1 .. Len(binlog)
  BY Bounds DEF LogOK, Files, Last
<1>2. binlog[f] \in LogFiles
  BY <1>1 DEF LogOK
<1>3. binlog[f].crc \in BOOLEAN /\ binlog[f].evs \in Seq(Events)
  BY <1>2 DEF LogFiles
<1>4. Len(binlog[f].evs) \in 1 .. MaxLen + 1
  BY DEF LogOK
<1>5. QED
  BY <1>1, <1>3, <1>4, Bounds DEF EndOf

\* An event of the log stays one, and the same.
LEMMA EventStays ==
    ASSUME LogOK, LogGrows, NEW e, e.file \in Int, e.pos \in Int, IsEvent(e)
    PROVE  IsEvent(e)' /\ EventAt(e)' = EventAt(e)
<1>1. e.file \in 1 .. Last /\ e.pos \in 1 .. Len(binlog[e.file].evs)
  BY DEF IsEvent
<1>2. Last \in Nat /\ Last' \in Nat /\ Last <= Last'
  BY Bounds DEF LogOK, LogGrows, Last
<1>3. /\ Len(binlog[e.file].evs) <= Len(binlog'[e.file].evs)
      /\ binlog'[e.file].evs[e.pos] = binlog[e.file].evs[e.pos]
  BY <1>1 DEF LogGrows
<1>4. QED
  BY <1>1, <1>2, <1>3 DEF IsEvent, EventAt

\* What the server sends is a packet, genuine, and leaves the cursor in place.
LEMMA SendTyped ==
    ASSUME LogOK, SessTyped, SessOK, NEW p, Send(p)
    PROVE  p \in Packets /\ Genuine(p) /\ SessTyped' /\ SessOK'
<1>1. CASE SendOpening(p)
  <2>1. sess.file \in 1 .. Last /\ sess.pos \in 1 .. EndOf(sess.file)
    BY <1>1 DEF SendOpening, SessOK, Streaming
  <2>2. p \in Packets /\ Genuine(p)
    BY <1>1, <2>1 DEF SendOpening, Packet, Packets, Genuine, EventTypes, SessTyped
  <2>3. SessTyped' /\ SessOK'
    BY <1>1, <2>1 DEF SendOpening, Send, SessTyped, SessOK, Streaming, Phases, PhaseFor, EndOf, Last
  <2>4. QED
    BY <2>2, <2>3
<1>2. CASE SendFormat(p)
  <2>1. sess.file \in 1 .. Last /\ sess.pos \in 1 .. EndOf(sess.file)
    BY <1>2 DEF SendFormat, SessOK, Streaming
  <2>2. binlog[sess.file].crc \in BOOLEAN
    BY <2>1, LogFacts
  <2>3. p \in Packets /\ Genuine(p)
    BY <1>2, <2>1, <2>2 DEF SendFormat, Packet, Packets, Genuine, EventTypes, SessTyped
  <2>4. SessTyped' /\ SessOK'
    BY <1>2, <2>1 DEF SendFormat, Send, SessTyped, SessOK, Streaming, Phases, EndOf, Last
  <2>5. QED
    BY <2>3, <2>4
<1>3. CASE SendEvent(p)
  <2>1. sess.file \in 1 .. Last /\ sess.pos \in 1 .. Len(binlog[sess.file].evs)
    <3>1. sess.file \in 1 .. Last /\ sess.pos \in 1 .. EndOf(sess.file)
      BY <1>3 DEF SendEvent, SessOK, Streaming
    <3>2. Len(binlog[sess.file].evs) \in Nat
      BY <3>1, LogFacts, Bounds
    <3>3. QED
      BY <1>3, <3>1, <3>2 DEF SendEvent, EndOf
  <2> DEFINE e == binlog[sess.file].evs[sess.pos]
             crc == binlog[sess.file].crc
  <2>2. e \in Events /\ crc \in BOOLEAN
    BY <2>1, LogFacts
  <2>3. /\ e.type \in EventTypes
        /\ e.tid \in Tids \union {NoTid}
        /\ e = Event(e.type, e.tid)
    BY <2>2, EventFacts
  <2>4. \/ p = Packet("ROTATE", NoTid, sess.file + 1, 1, sess.pos + 1, crc)
        \/ p = Packet(e.type, e.tid, sess.file, sess.pos, sess.pos + 1, crc)
    BY <1>3 DEF SendEvent
  <2> HIDE DEF e, crc
  <2>5. sess.file \in Int /\ sess.pos \in Nat
    BY DEF SessTyped
  <2>6. p \in Packets
    BY <2>2, <2>3, <2>4, <2>5 DEF Packet, Packets, EventTypes
  <2>7. Genuine(p)
    <3>1. CASE p = Packet("ROTATE", NoTid, sess.file + 1, 1, sess.pos + 1, crc)
      BY <3>1 DEF Packet, Genuine
    <3>2. CASE p = Packet(e.type, e.tid, sess.file, sess.pos, sess.pos + 1, crc)
      <4>1. At(p) = [file |-> sess.file, pos |-> sess.pos] /\ p.type = e.type /\ p.tid = e.tid
        BY <3>2 DEF Packet, At
      <4>2. IsEvent(At(p)) /\ EventAt(At(p)) = e
        BY <2>1, <4>1 DEF IsEvent, EventAt, e
      <4>3. QED
        BY <2>3, <4>1, <4>2 DEF Genuine
    <3>3. QED
      BY <2>4, <3>1, <3>2
  <2>8. SessTyped' /\ SessOK'
    <3>1. sess' = [sess EXCEPT !.pos = @ + 1] /\ binlog' = binlog
      BY <1>3 DEF SendEvent, Send
    <3>2. SessTyped'
      BY <3>1 DEF SessTyped
    <3>3. sess'.file = sess.file /\ sess'.pos = sess.pos + 1
      BY <3>1 DEF SessTyped
    <3>4. Last' = Last /\ EndOf(sess.file)' = EndOf(sess.file)
      BY <3>1 DEF Last, EndOf
    <3>5. Len(binlog[sess.file].evs) \in Nat
      BY <2>1, LogFacts, Bounds
    <3>6. sess'.pos \in 1 .. EndOf(sess.file)
      BY <2>1, <2>5, <3>3, <3>5 DEF EndOf
    <3>7. QED
      BY <2>1, <3>1, <3>2, <3>3, <3>6 DEF SessOK, Last, EndOf
  <2>9. QED
    BY <2>6, <2>7, <2>8
<1>4. CASE SendSwitch(p)
  <2>1. sess.file \in 1 .. Last /\ sess.file < Last
    BY <1>4 DEF SendSwitch, SessOK, Streaming
  <2>2. Last \in Nat /\ sess.file + 1 \in 1 .. Last
    BY <2>1, Bounds DEF LogOK
  <2>3. binlog[sess.file].crc \in BOOLEAN /\ EndOf(sess.file + 1) \in Nat
        /\ Len(binlog[sess.file + 1].evs) \in 1 .. MaxLen + 1
    BY <2>1, <2>2, LogFacts
  <2> DEFINE crc == GeneratedCrc /\ binlog[sess.file].crc
  <2>4. p \in Packets /\ Genuine(p)
    <3>1. crc \in BOOLEAN
      OBVIOUS
    <3>2. p = Packet("ROTATE", NoTid, sess.file + 1, 1, 0, crc)
      BY <1>4 DEF SendSwitch
    <3>3. sess.file + 1 \in Int
      BY DEF SessTyped
    <3> HIDE DEF crc
    <3>4. p \in Packets
      BY <3>1, <3>2, <3>3 DEF Packet, Packets, EventTypes
    <3>5. QED
      BY <3>2, <3>4 DEF Packet, Genuine
  <2> DEFINE phase == PhaseFor(sess.file + 1, "events")
  <2>5. /\ sess' = [phase |-> phase, file |-> sess.file + 1, pos |-> 1, aware |-> sess.aware]
        /\ binlog' = binlog
    BY <1>4 DEF SendSwitch, Send
  <2>6. phase \in Phases
    BY DEF PhaseFor, Phases
  <2> HIDE DEF phase
  <2>7. SessTyped'
    BY <2>5, <2>6 DEF SessTyped
  <2>8. sess'.file = sess.file + 1 /\ sess'.pos = 1
    BY <2>5 DEF SessTyped
  <2>9. 1 \in 1 .. EndOf(sess.file + 1)
    BY <2>3, Bounds DEF EndOf
  <2>10. SessOK'
    BY <2>2, <2>5, <2>8, <2>9 DEF SessOK, Last, EndOf
  <2>11. QED
    BY <2>4, <2>7, <2>10
<1>5. CASE SendEnd(p)
  <2>1. p \in Packets /\ Genuine(p)
    BY <1>5 DEF SendEnd, Bare, Packet, Packets, Genuine, EventTypes
  <2>2. SessTyped' /\ SessOK'
    BY <1>5 DEF SendEnd, Send, SessTyped, SessOK, Streaming, Phases
  <2>3. QED
    BY <2>1, <2>2
<1>6. QED
  BY <1>1, <1>2, <1>3, <1>4, <1>5 DEF Send

\* Only the server writes to the log.
LEMMA LogStep ==
    ASSUME LogOK, [Next]_vars
    PROVE  LogOK' /\ LogGrows
<1>1. CASE \E txn \in Txns : Commit(txn)
  BY <1>1, CommitGrows
<1>2. CASE \E crc \in Crcs : RotateLog(crc)
  BY <1>2, RotateGrows
<1>3. CASE \E crc \in Crcs : RestartServer(crc)
  BY <1>3, RestartGrows
<1>4. CASE PurgeLog \/ EndSession \/ UNCHANGED vars
  BY <1>4, SameLog DEF PurgeLog, EndSession, vars, masterVars
<1>5. CASE Startup \/ Handling
  BY <1>5, SameLog
     DEF Startup, StartPosition, StartChecksum, StartFails, Handling, ParseOtherFlag,
         ParseError, ParseShort, ParseRotate, ParseFormat, ParseTablemap, ParseOther,
         ParseRowOrphan, ParseRowUnmatched, ParseRowMatched, DeliverRows, masterVars
<1>6. CASE Reading
  BY <1>6, SameLog DEF Reading, Request, RequestLost, Receive, ReceiveNothing, Send, masterVars
<1>7. CASE Reconnecting \/ Crash \/ Restart
  BY <1>7, SameLog
     DEF Reconnecting, ReconnectAtLatest, ReconnectAtSaved, ReconnectDies, ReconnectFails, Crash, Restart
<1>8. QED
  BY <1>1, <1>2, <1>3, <1>4, <1>5, <1>6, <1>7 DEF Next, Server, MasterNext, Process

\* The dump session keeps its type, and its cursor a place in the log.
LEMMA SessStep ==
    ASSUME TypeInv, [Next]_vars
    PROVE  SessTyped' /\ SessOK'
<1>1. SessTyped /\ SessOK /\ LogOK /\ LogOK' /\ LogGrows
  BY LogStep DEF TypeInv, TypeOK, MasterTypeOK, SessTyped
\* A cursor in its place stays there while the log grows.
<1>2. ASSUME NEW f \in 1 .. Last, NEW k \in 1 .. EndOf(f)
      PROVE  f \in 1 .. Last' /\ k \in 1 .. EndOf(f)'
  <2>1. Last \in Nat /\ Last' \in Nat /\ Last <= Last'
    BY <1>1, Bounds DEF LogOK, LogGrows, Last
  <2>2. f \in 1 .. Last'
    BY <2>1
  <2>3. Len(binlog[f].evs) \in Nat
    BY <1>1, LogFacts, Bounds
  <2>4. Len(binlog'[f].evs) \in Nat
    BY <1>1, <2>2, Bounds DEF LogOK
  <2>5. Len(binlog[f].evs) <= Len(binlog'[f].evs)
    BY <1>1 DEF LogGrows
  <2>6. QED
    BY <2>2, <2>3, <2>4, <2>5 DEF EndOf
<1>3. CASE UNCHANGED sess
  <2>1. SessTyped'
    BY <1>1, <1>3 DEF SessTyped
  <2>2. ASSUME sess.phase \in Streaming
        PROVE  sess'.file \in 1 .. Last' /\ sess'.pos \in 1 .. EndOf(sess.file)'
    <3>1. PICK f \in 1 .. Last : f = sess.file
      BY <1>1, <2>2 DEF SessOK
    <3>2. PICK k \in 1 .. EndOf(f) : k = sess.pos
      BY <1>1, <2>2, <3>1 DEF SessOK
    <3>3. f \in 1 .. Last' /\ k \in 1 .. EndOf(f)'
      BY <1>2
    <3>4. QED
      BY <1>3, <3>1, <3>2, <3>3 DEF EndOf
  <2>3. QED
    BY <1>3, <2>1, <2>2 DEF SessOK
<1>4. CASE sess' = NoSession
  BY <1>4 DEF NoSession, SessTyped, SessOK, Streaming, Phases
<1>5. CASE \E ph \in Phases \ Streaming : sess' = [sess EXCEPT !.phase = ph]
  <2>1. PICK ph \in Phases \ Streaming : sess' = [sess EXCEPT !.phase = ph]
    BY <1>5
  <2>2. SessTyped' /\ sess'.phase = ph
    BY <1>1, <2>1 DEF SessTyped
  <2>3. QED
    BY <2>1, <2>2 DEF SessOK
<1>6. CASE Request
  <2>1. PICK aware \in BOOLEAN : OpenSession(req.file, req.pos, aware)
    BY <1>6 DEF Request, TypeInv, TypeOK
  <2>2. req.file \in Int /\ req.pos \in Nat /\ purged \in Nat
    BY DEF TypeInv, TypeOK, MasterTypeOK, Positions
  <2> DEFINE known == req.file \in purged + 1 .. Last /\ req.pos \in 1 .. EndOf(req.file)
             phase == IF known THEN "open" ELSE "err"
  <2>3. sess' = [phase |-> phase, file |-> req.file, pos |-> req.pos, aware |-> aware]
    BY <2>1 DEF OpenSession
  <2>4. phase \in Phases /\ (phase \in Streaming => known)
    BY DEF Phases, Streaming
  <2>5. known => req.file \in 1 .. Last /\ req.pos \in 1 .. EndOf(req.file)
    BY <1>1, <2>2, Bounds DEF LogOK
  <2> HIDE DEF phase, known
  <2>6. SessTyped'
    BY <2>2, <2>3, <2>4 DEF SessTyped
  <2>7. sess'.phase = phase /\ sess'.file = req.file /\ sess'.pos = req.pos
    BY <2>3
  <2>8. QED
    BY <1>2, <2>4, <2>5, <2>6, <2>7 DEF SessOK
<1>7. CASE Receive
  <2>1. Send(buf')
    BY <1>7 DEF Receive
  <2>2. QED
    BY <1>1, <2>1, SendTyped
<1>8. QED
  <2>1. CASE Server
    <3>1. CASE \E txn \in Txns : Commit(txn)
      BY <1>3, <3>1 DEF Commit
    <3>2. CASE \E crc \in Crcs : RotateLog(crc)
      BY <1>3, <3>2 DEF RotateLog
    <3>3. CASE \E crc \in Crcs : RestartServer(crc)
      BY <1>3, <1>5, <3>3 DEF RestartServer, Phases, Streaming
    <3>4. CASE PurgeLog \/ EndSession
      BY <1>3, <1>5, <3>4 DEF PurgeLog, EndSession, Phases, Streaming
    <3>5. QED
      BY <2>1, <3>1, <3>2, <3>3, <3>4 DEF Server, MasterNext
  <2>2. CASE Startup \/ Handling \/ UNCHANGED vars
    BY <1>3, <2>2
       DEF Startup, StartPosition, StartChecksum, StartFails, Handling, ParseOtherFlag,
           ParseError, ParseShort, ParseRotate, ParseFormat, ParseTablemap, ParseOther,
           ParseRowOrphan, ParseRowUnmatched, ParseRowMatched, DeliverRows, masterVars, vars
  <2>3. CASE RequestLost \/ ReceiveNothing
    BY <1>3, <1>5, <2>3 DEF RequestLost, ReceiveNothing, masterVars, Phases, Streaming
  <2>4. CASE Reconnecting \/ Crash \/ Restart
    BY <1>4, <2>4
       DEF Reconnecting, ReconnectAtLatest, ReconnectAtSaved, ReconnectDies, ReconnectFails, Reconnected,
           Crash, Restart
  <2>5. QED
    BY <1>6, <1>7, <2>1, <2>2, <2>3, <2>4 DEF Next, Process, Reading

\* The packet buffer holds a packet, and a row event or table map in it is
\* one of the log.
LEMMA BufStep ==
    ASSUME TypeInv, [Next]_vars
    PROVE  buf' \in Packets /\ Genuine(buf)'
<1>1. /\ SessTyped /\ SessOK /\ LogOK /\ LogOK' /\ LogGrows
      /\ buf \in Packets /\ Genuine(buf)
  BY LogStep DEF TypeInv, TypeOK, MasterTypeOK, SessTyped
<1>2. CASE UNCHANGED buf
  <2>1. At(buf).file \in Int /\ At(buf).pos \in Int
    BY <1>1 DEF Packets, At
  <2>2. IsEvent(At(buf)) => IsEvent(At(buf))' /\ EventAt(At(buf))' = EventAt(At(buf))
    <3>1. SUFFICES ASSUME IsEvent(At(buf))
                   PROVE  IsEvent(At(buf))' /\ EventAt(At(buf))' = EventAt(At(buf))
      OBVIOUS
    <3> DEFINE e == At(buf)
    <3>2. e' = e
      BY <1>2 DEF At
    <3>3. PICK d : d = e
      OBVIOUS
    <3>4. IsEvent(d)' /\ EventAt(d)' = EventAt(d)
      BY <1>1, <2>1, <3>1, <3>3, EventStays
    <3>5. QED
      BY <3>2, <3>3, <3>4 DEF IsEvent, EventAt
  <2>3. QED
    BY <1>1, <1>2, <2>2 DEF Genuine, At
<1>3. CASE \E flag \in {"unset", "ok", "err", "junk"} : buf' = Bare(flag, "SHORT")
  <2>1. PICK flag \in {"unset", "ok", "err", "junk"} : buf' = Bare(flag, "SHORT")
    BY <1>3
  <2>2. buf' \in Packets
    BY <2>1 DEF Bare, Packets
  <2>3. buf'.type = "SHORT"
    BY <2>1 DEF Bare
  <2>4. QED
    BY <2>2, <2>3 DEF Genuine
<1>4. CASE Receive
  <2>1. PICK p : p = buf'
    OBVIOUS
  <2>2. Send(p)
    BY <1>4, <2>1 DEF Receive
  <2>3. p \in Packets /\ Genuine(p)
    BY <1>1, <2>2, SendTyped
  <2>4. UNCHANGED binlog
    BY <2>2 DEF Send
  <2>5. Genuine(p)'
    BY <2>3, <2>4 DEF Genuine, IsEvent, EventAt, Last
  <2>6. QED
    BY <2>1, <2>3, <2>5 DEF Genuine, At, IsEvent, EventAt, Last
<1>5. QED
  <2>1. CASE ReceiveNothing
    BY <1>2, <1>3, <2>1 DEF ReceiveNothing
  <2>2. CASE Restart
    BY <1>3, <2>2 DEF Restart, FreshMemory, Unset
  <2>3. CASE Server \/ Startup \/ Handling \/ UNCHANGED vars
    BY <1>2, <2>3
       DEF Startup, StartPosition, StartChecksum, StartFails, Handling, ParseOtherFlag,
           ParseError, ParseShort, ParseRotate, ParseFormat, ParseTablemap, ParseOther,
           ParseRowOrphan, ParseRowUnmatched, ParseRowMatched, DeliverRows, memory, vars,
           Server
  <2>4. CASE Request \/ RequestLost \/ Reconnecting \/ Crash
    BY <1>2, <2>4
       DEF Request, RequestLost, Reconnecting, ReconnectAtLatest, ReconnectAtSaved,
           ReconnectDies, ReconnectFails, Crash, memory
  <2>5. QED
    BY <1>4, <2>1, <2>2, <2>3, <2>4 DEF Next, Process, Reading

(***************************************************************************)
(* The variables of the process.                                           *)
(***************************************************************************)
MemoryTyped ==
    /\ pc \in Pcs
    /\ cs \in BOOLEAN
    /\ req \in Positions /\ next \in Positions /\ saved \in Positions
    /\ retry \in 0 .. RetryLimit + 1
    /\ rotName \in Int
    /\ alg \in Algs
    /\ tm \in [Tids -> Maps]
HistoryTyped ==
    /\ delivered \subseteq EventIds /\ jumped \subseteq EventIds
    /\ orphaned \subseteq EventIds /\ interrupted \subseteq EventIds

\* A step that leaves the process's memory alone keeps its types.
LEMMA SameMemory ==
    ASSUME MemoryTyped, UNCHANGED <<cs, req, next, saved, retry, rotName, alg, tm>>, pc' \in Pcs
    PROVE  MemoryTyped'
  BY DEF MemoryTyped

\* Positions the handlers compute, and what they save.
LEMMA Computed ==
    ASSUME MemoryTyped, LogOK, buf \in Packets
    PROVE  /\ Latest \in Positions
           /\ NextAfter \in Positions
           /\ \A p \in Positions : SaveNextReqPos(p) => saved' \in Positions
<1>1. Last \in 1 .. Last
  BY Bounds DEF LogOK
<1>2. Latest \in Positions
  BY <1>1, LogFacts, Bounds DEF Latest, Positions, LogOK
<1>3. NextAfter \in Positions
  BY DEF NextAfter, MemoryTyped, Positions, Packets
<1>4. \A p \in Positions : SaveNextReqPos(p) => saved' \in Positions
  BY DEF SaveNextReqPos, MemoryTyped
<1>5. QED
  BY <1>2, <1>3, <1>4

\* The process's memory and the stored position keep their types, and rows
\* are handed out only with a row event in the buffer.
LEMMA MemoryStep ==
    ASSUME TypeInv, [Next]_vars
    PROVE  MemoryTyped'
<1>1. /\ MemoryTyped /\ LogOK /\ buf \in Packets /\ buf' \in Packets /\ Genuine(buf)
      /\ MasterTypeOK
  BY BufStep DEF TypeInv, TypeOK, MemoryTyped
<1>2. /\ Latest \in Positions
      /\ NextAfter \in Positions
      /\ \A p \in Positions : SaveNextReqPos(p) => saved' \in Positions
  BY <1>1, Computed
<1>3. CASE \/ Server \/ UNCHANGED vars
           \/ StartFails \/ Request \/ RequestLost \/ Receive \/ ReceiveNothing
           \/ ParseOtherFlag \/ ParseError \/ ParseShort \/ DeliverRows
           \/ ReconnectDies \/ ReconnectFails \/ Crash
  <2>1. UNCHANGED <<cs, req, next, saved, retry, rotName, alg, tm>>
    BY <1>3 DEF Server, vars, memory, StartFails, Request, RequestLost, Receive,
                ReceiveNothing, ParseOtherFlag, ParseError, ParseShort, DeliverRows,
                ReconnectDies, ReconnectFails, Crash
  <2>2. pc' \in Pcs
    BY <1>1, <1>3
       DEF Server, vars, StartFails, Request, RequestLost, Receive, ReceiveNothing,
           ParseOtherFlag, ParseError, ParseShort, DeliverRows, ReconnectDies, ReconnectFails, Crash,
           Pcs, MemoryTyped
  <2>3. QED
    BY <1>1, <2>1, <2>2, SameMemory
<1>4. CASE StartPosition
  <2>1. req' \in Positions
    BY <1>2, <1>4 DEF StartPosition, JumpToLatest, NoPos, Positions
  <2>2. QED
    BY <1>1, <1>4, <2>1 DEF StartPosition, MemoryTyped, Pcs
<1>5. CASE StartChecksum
  <2>1. Last \in 1 .. Last
    BY <1>1, Bounds DEF LogOK
  <2>2. cs' \in BOOLEAN
    BY <1>1, <1>5, <2>1, LogFacts DEF StartChecksum
  <2>3. QED
    BY <1>1, <1>5, <2>2 DEF StartChecksum, MemoryTyped, Pcs
<1>6. CASE ParseRotate
  <2>1. rotName' \in Int /\ buf.pos \in Nat
    BY <1>1, <1>6 DEF ParseRotate, Packets, Garbled
  <2>2. next' \in Positions
    BY <1>6, <2>1 DEF ParseRotate, Positions
  <2>3. saved' \in Positions
    <3>1. PICK p \in Positions : p = next'
      BY <2>2
    <3>2. SaveNextReqPos(p)
      BY <1>6, <3>1 DEF ParseRotate, SaveNextReqPos
    <3>3. QED
      BY <1>2, <3>2
  <2>4. QED
    BY <1>1, <1>6, <2>1, <2>2, <2>3 DEF ParseRotate, MemoryTyped, Pcs
<1>7. CASE ParseFormat
  <2>1. NoMaps \in [Tids -> Maps]
    BY DEF NoMaps, Maps
  <2>2. alg' \in Algs
    BY <1>1, <1>7 DEF ParseFormat, Algs, MemoryTyped
  <2>3. QED
    BY <1>1, <1>2, <1>7, <2>1, <2>2 DEF ParseFormat, MemoryTyped, Pcs
<1>8. CASE ParseTablemap
  <2>1. IsEvent(At(buf)) /\ EventAt(At(buf)) = Event("TABLEMAP", buf.tid)
    BY <1>1, <1>8 DEF ParseTablemap, Parsing, Genuine
  <2>2. buf.file \in 1 .. Last /\ buf.pos \in 1 .. Len(binlog[buf.file].evs)
        /\ binlog[buf.file].evs[buf.pos] = Event("TABLEMAP", buf.tid)
    BY <2>1 DEF IsEvent, EventAt, At
  <2>3. buf.file \in Files /\ Event("TABLEMAP", buf.tid) \in Events
    BY <1>1, <2>2, LogFacts
  <2>4. buf.tid \in Tids
    BY <2>3 DEF Events, Event
  <2>5. TableOf[buf.file][buf.tid] \in Tables
    BY <2>3, <2>4, TableOfAssumption DEF TableOfAssumption
  <2>6. tm' \in [Tids -> Maps]
    BY <1>1, <1>8, <2>5 DEF ParseTablemap, WithTablemap, Maps, MemoryTyped
  <2>7. QED
    BY <1>1, <1>2, <1>8, <2>6 DEF ParseTablemap, MemoryTyped, Pcs
<1>9. CASE ParseOther \/ ParseRowOrphan \/ ParseRowUnmatched
  BY <1>1, <1>2, <1>9 DEF ParseOther, ParseRowOrphan, ParseRowUnmatched, MemoryTyped, Pcs
<1>10. CASE ParseRowMatched
  <2>1. saved' \in Positions
    BY <1>2, <1>10 DEF ParseRowMatched
  <2>2. QED
    BY <1>1, <1>2, <1>10, <2>1 DEF ParseRowMatched, MemoryTyped, Pcs
<1>11. CASE ReconnectAtLatest \/ ReconnectAtSaved
  <2>1. req' \in Positions
    BY <1>1, <1>2, <1>11
       DEF ReconnectAtLatest, ReconnectAtSaved, JumpToLatest, ReadNextReqPos, MemoryTyped
  <2>2. retry' \in 0 .. RetryLimit + 1 /\ alg' \in Algs /\ pc' \in Pcs
    BY <1>1, <1>11, RetryAssumption
       DEF ReconnectAtLatest, ReconnectAtSaved, Reconnected, MemoryTyped, Algs, Pcs,
           RetryAssumption
  <2>3. QED
    BY <1>1, <1>11, <2>1, <2>2 DEF ReconnectAtLatest, ReconnectAtSaved, MemoryTyped
<1>12. CASE Restart
  <2>1. NoPos \in Positions /\ NoMaps \in [Tids -> Maps]
    BY DEF NoPos, Positions, NoMaps, Maps
  <2>2. 0 \in 0 .. RetryLimit + 1
    BY RetryAssumption DEF RetryAssumption
  <2>3. /\ req' = NoPos /\ next' = NoPos /\ saved' = saved /\ tm' = NoMaps
        /\ retry' = 0 /\ cs' = FALSE /\ rotName' = 0 /\ alg' = "OFF" /\ pc' = "Init"
    BY <1>12 DEF Restart, FreshMemory
  <2>4. saved \in Positions
    BY <1>1 DEF MemoryTyped
  <2>5. cs' \in BOOLEAN
    BY <2>3
  <2>6. rotName' \in Int /\ retry' \in 0 .. RetryLimit + 1
    BY <2>2, <2>3
  <2>7. /\ req' \in Positions /\ next' \in Positions /\ saved' \in Positions
        /\ tm' \in [Tids -> Maps] /\ pc' \in Pcs /\ alg' \in Algs
    BY <2>1, <2>3, <2>4 DEF Pcs, Algs
  <2>8. QED
    BY <2>5, <2>6, <2>7 DEF MemoryTyped
<1>13. QED
  BY <1>3, <1>4, <1>5, <1>6, <1>7, <1>8, <1>9, <1>10, <1>11, <1>12
     DEF Next, Process, Startup, Reading, Handling, Reconnecting

\* The history variables hold events of the log's bounds.
LEMMA HistoryStep ==
    ASSUME TypeInv, [Next]_vars
    PROVE  HistoryTyped' /\ RowsOK'
<1>1. HistoryTyped /\ RowsOK /\ LogOK /\ Genuine(buf)
  BY DEF TypeInv, TypeOK, HistoryTyped
<1>2. MatchingRows \subseteq EventIds /\ \A p : LeftBehind(p) \subseteq EventIds
  BY DEF MatchingRows, LeftBehind
<1>3. pc = "Rows" => At(buf) \in EventIds
  <2>1. SUFFICES ASSUME pc = "Rows" PROVE At(buf) \in EventIds
    OBVIOUS
  <2>2. buf.file \in 1 .. Last /\ buf.pos \in 1 .. Len(binlog[buf.file].evs)
    BY <1>1, <2>1 DEF RowsOK, Genuine, IsEvent, At
  <2>3. buf.file \in Files /\ Len(binlog[buf.file].evs) \in 1 .. MaxLen + 1
    BY <1>1, <2>2, LogFacts
  <2>4. QED
    BY <2>2, <2>3, Bounds DEF At, EventIds
<1>4. HistoryTyped'
  <2>1. CASE UNCHANGED history
    BY <1>1, <2>1 DEF history, HistoryTyped
  <2>2. CASE \/ StartPosition \/ ParseRowOrphan \/ DeliverRows
             \/ ReconnectAtLatest \/ Crash
    BY <1>1, <1>2, <1>3, <2>2
       DEF StartPosition, JumpToLatest, ParseRowOrphan, DeliverRows,
           ReconnectAtLatest, Crash, HistoryTyped
  <2>3. QED
    BY <2>1, <2>2
       DEF Next, Server, Process, Startup, Reading, Handling, Reconnecting, StartChecksum,
           StartFails, Request, RequestLost, Receive, ReceiveNothing, ParseOtherFlag,
           ParseError, ParseShort, ParseRotate, ParseFormat, ParseTablemap, ParseOther,
           ParseRowUnmatched, ParseRowMatched, ReconnectAtSaved, ReconnectDies, ReconnectFails, Restart,
           vars
<1>5. RowsOK'
  <2>1. CASE pc' # "Rows"
    BY <2>1 DEF RowsOK
  <2>2. CASE UNCHANGED <<pc, buf>>
    BY <1>1, <2>2 DEF RowsOK
  <2>3. CASE ParseRowMatched
    BY <2>3 DEF ParseRowMatched, Parsing, RowsOK
  <2>4. QED
    BY <2>1, <2>2, <2>3
       DEF Next, Server, Process, Startup, Reading, Handling, Reconnecting, StartPosition,
           StartChecksum, StartFails, Request, RequestLost, Receive, ReceiveNothing,
           ParseOtherFlag, ParseError, ParseShort, ParseRotate, ParseFormat, ParseTablemap,
           ParseOther, ParseRowOrphan, ParseRowUnmatched, DeliverRows, ReconnectAtLatest,
           ReconnectAtSaved, Reconnected, ReconnectDies, ReconnectFails, Crash, Restart, vars, memory
<1>6. QED
  BY <1>4, <1>5

\* The inductive invariant holds at the start.
LEMMA TypeInvInit == Init => TypeInv
<1>1. SUFFICES ASSUME Init PROVE TypeInv
  OBVIOUS
<1>2. PICK crc \in Crcs : binlog = <<NewFile(crc)>>
  BY <1>1 DEF Init, MasterInit
<1>3. FirstEvent \in Events /\ crc \in BOOLEAN
  BY CrcAssumption DEF FirstEvent, Event, Events, CrcAssumption
<1>4. <<FirstEvent>> \in Seq(Events)
  BY <1>3
<1>5. /\ NewFile(crc) \in LogFiles
      /\ NewFile(crc).evs[1] = FirstEvent
      /\ Len(NewFile(crc).evs) = 1
  BY <1>3, <1>4 DEF NewFile, LogFiles
<1> DEFINE new == NewFile(crc)
<1> HIDE DEF new
<1>6. /\ binlog \in Seq(LogFiles)
      /\ Len(binlog) = 1
      /\ binlog[1] = new
  BY <1>2, <1>5 DEF new
<1>7. LogOK
  <2>1. Last = 1 /\ 1 \in 1 .. MaxFiles /\ 1 \in 1 .. MaxLen + 1 /\ 1 <= MaxLen
    BY <1>6, Bounds DEF Last
  <2>2. \A f \in 1 .. Last : f = 1
    BY <2>1
  <2>3. Len(binlog[1].evs) = 1 /\ binlog[1].evs[1] = FirstEvent
    BY <1>5, <1>6 DEF new
  <2>4. QED
    BY <1>6, <2>1, <2>2, <2>3 DEF LogOK
<1>8. SessTyped /\ SessOK
  BY <1>1 DEF Init, MasterInit, NoSession, SessTyped, SessOK, Phases, Streaming
<1>9. MasterTypeOK
  BY <1>1, <1>7, <1>8, Bounds DEF Init, MasterInit, MasterTypeOK, SessTyped, LogOK, Files
<1>10. NoPos \in Positions /\ NoMaps \in [Tids -> Maps]
  BY DEF NoPos, Positions, NoMaps, Maps
<1>11. MemoryTyped
  <2>1. 0 \in 0 .. RetryLimit + 1
    BY RetryAssumption DEF RetryAssumption
  <2>2. /\ req = NoPos /\ next = NoPos /\ saved = NoPos /\ tm = NoMaps
        /\ retry = 0 /\ cs = FALSE /\ rotName = 0 /\ alg = "OFF" /\ pc = "Init"
    BY <1>1 DEF Init
  <2>3. cs \in BOOLEAN
    BY <2>2
  <2>4. rotName \in Int /\ retry \in 0 .. RetryLimit + 1
    BY <2>1, <2>2
  <2>5. /\ req \in Positions /\ next \in Positions /\ saved \in Positions
        /\ tm \in [Tids -> Maps] /\ pc \in Pcs /\ alg \in Algs
    BY <1>10, <2>2 DEF Pcs, Algs
  <2>6. QED
    BY <2>3, <2>4, <2>5 DEF MemoryTyped
<1>12. buf \in Packets /\ buf.type = "SHORT"
  BY <1>1 DEF Init, Unset, Bare, Packets
<1>13. HistoryTyped /\ RowsOK
  BY <1>1 DEF Init, HistoryTyped, RowsOK
<1>14. QED
  BY <1>7, <1>8, <1>9, <1>11, <1>12, <1>13
     DEF TypeInv, TypeOK, MemoryTyped, HistoryTyped, Genuine

\* Every step keeps the inductive invariant.
LEMMA TypeInvStep == TypeInv /\ [Next]_vars => TypeInv'
<1>1. SUFFICES ASSUME TypeInv, [Next]_vars PROVE TypeInv'
  OBVIOUS
<1>2. LogOK' /\ SessTyped' /\ SessOK' /\ buf' \in Packets /\ Genuine(buf)'
  BY <1>1, LogStep, SessStep, BufStep DEF TypeInv
<1>3. MemoryTyped' /\ HistoryTyped' /\ RowsOK'
  BY <1>1, MemoryStep, HistoryStep
<1>4. purged' \in Nat /\ cuts' \in Nat
  <2>1. purged \in Nat /\ cuts \in Nat
    BY <1>1 DEF TypeInv, TypeOK, MasterTypeOK
  <2>2. /\ purged' = purged \/ purged' = purged + 1
        /\ cuts' = cuts \/ cuts' = cuts + 1
    BY <1>1
       DEF Next, Server, MasterNext, Commit, RotateLog, RestartServer, PurgeLog, EndSession,
           Process, Startup, Reading, Handling, Reconnecting, StartPosition, StartChecksum,
           StartFails, Request, RequestLost, Receive, Send, ReceiveNothing, ParseOtherFlag,
           ParseError, ParseShort, ParseRotate, ParseFormat, ParseTablemap, ParseOther,
           ParseRowOrphan, ParseRowUnmatched, ParseRowMatched, DeliverRows,
           ReconnectAtLatest, ReconnectAtSaved, ReconnectDies, ReconnectFails, Crash, Restart, vars,
           masterVars
  <2>3. QED
    BY <2>1, <2>2
<1>5. MasterTypeOK'
  BY <1>2, <1>4 DEF MasterTypeOK, LogOK, SessTyped, Files
<1>6. QED
  BY <1>2, <1>3, <1>5 DEF TypeInv, TypeOK, MemoryTyped, HistoryTyped

\* Every variable keeps its type, for any number of files, events, sessions
\* and tables: in particular a table map or row event in the packet buffer is
\* one the server wrote, and a session's cursor is a place in its log.
THEOREM TypeCorrect == Spec => []TypeOK
<1>1. TypeInv => TypeOK
  BY DEF TypeInv
<1>2. QED
  BY TypeInvInit, TypeInvStep, <1>1, PTL DEF Spec
=============================================================================
