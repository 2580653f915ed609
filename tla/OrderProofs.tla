----------------------------- MODULE OrderProofs -----------------------------
(***************************************************************************)
(* What a step of Subscriber may do, for every value of its constants:     *)
(* which row events it may drop for want of a table map, where it may move *)
(* the saved position, and in which order it hands rows out.               *)
(***************************************************************************)
EXTENDS AgreementProofs

(***************************************************************************)
(* The log: each file starts with its FORMAT event and has no other, and a *)
(* row event comes behind a map for its id.                                *)
(***************************************************************************)
MapFor(e, tid) == e.type = "TABLEMAP" /\ e.tid = tid
WellFormed(evs) ==
    \A k \in 1 .. Len(evs) :
        /\ evs[k].type = "FORMAT" => k = 1
        /\ evs[k].type = "ROWS" => \E j \in 1 .. k - 1 : MapFor(evs[j], evs[k].tid)
FilesOK == \A f \in 1 .. Last : WellFormed(binlog[f].evs)

\* A transaction without FORMAT events whose maps come first may follow.
LEMMA ExtendedWellFormed ==
    ASSUME NEW old \in Seq(Events), NEW new \in Seq(Events), WellFormed(old),
           \A k \in 1 .. Len(new) :
              /\ new[k].type # "FORMAT"
              /\ new[k].type = "ROWS" => \E j \in 1 .. k - 1 : MapFor(new[j], new[k].tid)
    PROVE  WellFormed(old \o new)
<1> DEFINE all == old \o new
<1>1. /\ Len(old) \in Nat /\ Len(new) \in Nat /\ Len(all) = Len(old) + Len(new)
      /\ \A k \in 1 .. Len(old) : all[k] = old[k]
      /\ \A k \in 1 .. Len(new) : all[Len(old) + k] = new[k]
      /\ \A k \in 1 .. Len(all) : k \in 1 .. Len(old) \/ k - Len(old) \in 1 .. Len(new)
  OBVIOUS
<1> HIDE DEF all
<1>2. SUFFICES ASSUME NEW k \in 1 .. Len(all)
               PROVE  /\ all[k].type = "FORMAT" => k = 1
                      /\ all[k].type = "ROWS" => \E j \in 1 .. k - 1 : MapFor(all[j], all[k].tid)
  BY DEF WellFormed, all
<1>3. CASE k \in 1 .. Len(old)
  <2>1. all[k] = old[k] /\ \A j \in 1 .. k - 1 : all[j] = old[j]
    BY <1>1, <1>3
  <2>2. QED
    BY <1>3, <2>1 DEF WellFormed
<1>4. CASE k - Len(old) \in 1 .. Len(new)
  <2> DEFINE i == k - Len(old)
  <2>1. all[k] = new[i] /\ new[i].type # "FORMAT"
    BY <1>1, <1>4
  <2>2. ASSUME all[k].type = "ROWS"
        PROVE  \E j \in 1 .. k - 1 : MapFor(all[j], all[k].tid)
    <3>1. PICK j \in 1 .. i - 1 : MapFor(new[j], new[i].tid)
      BY <1>4, <2>1, <2>2
    <3>2. Len(old) + j \in 1 .. k - 1 /\ all[Len(old) + j] = new[j]
      BY <1>1, <1>4, <3>1
    <3>3. QED
      BY <2>1, <3>1, <3>2
  <2>3. QED
    BY <2>1, <2>2
<1>5. QED
  BY <1>1, <1>3, <1>4

LEMMA FilesStep ==
    ASSUME LogOK, FilesOK, [Next]_vars
    PROVE  FilesOK'
<1>1. Last \in Nat \ {0} /\ Last = Len(binlog) /\ binlog \in Seq(LogFiles)
  BY Bounds DEF LogOK, Last
<1>2. binlog[Last].evs \in Seq(Events) /\ WellFormed(binlog[Last].evs)
  <2>1. binlog[Last] \in LogFiles /\ Last \in 1 .. Last
    BY <1>1
  <2>2. QED
    BY <2>1 DEF LogFiles, FilesOK
<1>3. CASE \E txn \in Txns : Commit(txn)
  <2>1. PICK txn \in Txns : Commit(txn)
    BY <1>3
  <2> DEFINE file == Extended(Last, txn)
  <2>2. binlog' = [binlog EXCEPT ![Last] = file]
    BY <2>1 DEF Commit
  <2>3. txn \in Seq(Events) /\ \A k \in 1 .. Len(txn) : txn[k].type # "FORMAT"
    <3>1. txn \in Seq(TxnEvents)
      BY TxnsAssumption DEF TxnsAssumption
    <3>2. QED
      BY <3>1, TxnTypes DEF TxnEvents
  <2>4. \A k \in 1 .. Len(txn) :
           txn[k].type = "ROWS" => \E j \in 1 .. k - 1 : MapFor(txn[j], txn[k].tid)
    BY MapsFirstAssumption DEF MapsFirstAssumption, MapFor
  <2>5. WellFormed(file.evs)
    BY <1>2, <2>3, <2>4, ExtendedWellFormed DEF Extended
  <2> HIDE DEF file
  <2>6. QED
    BY <1>1, <2>2, <2>5 DEF FilesOK, Last
<1>4. \A crc \in Crcs : WellFormed(NewFile(crc).evs)
  BY DEF NewFile, FirstEvent, Event, WellFormed
<1>5. CASE \E crc \in Crcs : RotateLog(crc)
  <2>1. PICK crc \in Crcs : RotateLog(crc)
    BY <1>5
  <2> DEFINE rotate == Event("ROTATE", NoTid)
             file == Extended(Last, <<rotate>>)
             new == NewFile(crc)
  <2>2. binlog' = Append([binlog EXCEPT ![Last] = file], new)
    BY <2>1 DEF RotateLog
  <2>3. /\ <<rotate>> \in Seq(Events)
        /\ \A k \in 1 .. Len(<<rotate>>) : <<rotate>>[k].type \notin {"FORMAT", "ROWS"}
    BY DEF Event, Events
  <2>4. WellFormed(file.evs)
    <3>1. file.evs = binlog[Last].evs \o <<rotate>>
      BY DEF Extended
    <3> HIDE DEF file, rotate
    <3>2. QED
      BY <1>2, <2>3, <3>1, ExtendedWellFormed
  <2>5. WellFormed(new.evs)
    BY <1>4
  <2> HIDE DEF file, new, rotate
  <2>6. QED
    BY <1>1, <2>2, <2>4, <2>5 DEF FilesOK, Last
<1>6. CASE \E crc \in Crcs : RestartServer(crc)
  <2>1. PICK crc \in Crcs : RestartServer(crc)
    BY <1>6
  <2> DEFINE new == NewFile(crc)
  <2>2. binlog' = Append(binlog, new)
    BY <2>1 DEF RestartServer
  <2>3. WellFormed(new.evs)
    BY <1>4
  <2> HIDE DEF new
  <2>4. QED
    BY <1>1, <2>2, <2>3 DEF FilesOK, Last
<1>7. CASE UNCHANGED binlog
  BY <1>7 DEF FilesOK, Last
<1>8. QED
  BY <1>3, <1>5, <1>6, <1>7
     DEF Next, Server, MasterNext, Process, Startup, Reading, Handling, Reconnecting,
         StartPosition, StartChecksum, StartFails, Request, RequestLost, Receive, Send,
         ReceiveNothing, ParseOtherFlag, ParseError, ParseShort, ParseRotate, ParseFormat,
         ParseTablemap, ParseOther, ParseRowOrphan, ParseRowUnmatched, ParseRowMatched,
         DeliverRows, ReconnectAtLatest, ReconnectAtSaved, ReconnectDies, ReconnectFails,
         Crash, Restart, PurgeLog, EndSession, masterVars, vars

(***************************************************************************)
(* Requests.  A dump starts where it was requested.                        *)
(***************************************************************************)
RequestedOK ==
    /\ sess.phase \in Streaming => req.pos >= 1
    /\ sess.phase \in {"open", "format"} => sess.file = req.file /\ sess.pos = req.pos

\* The requested position changes only between two sessions, when the buffer
\* holds no event.
LEMMA NewRequest ==
    ASSUME StartOK, [Next]_vars
    PROVE  UNCHANGED req \/ (sess'.phase \notin Streaming /\ buf'.flag # "ok")
<1>1. CASE StartPosition \/ ReconnectAtLatest \/ ReconnectAtSaved \/ Restart
  BY <1>1 DEF StartPosition, ReconnectAtLatest, ReconnectAtSaved, Reconnected, Restart,
     FreshMemory, Unset, Bare, NoSession, Streaming, masterVars, StartOK, Starting
<1>2. CASE ~(StartPosition \/ ReconnectAtLatest \/ ReconnectAtSaved \/ Restart)
  BY <1>2
     DEF Next, Server, Process, Startup, Reading, Handling, Reconnecting, StartChecksum,
         StartFails, Request, RequestLost, Receive, ReceiveNothing, ParseOtherFlag, ParseError,
         ParseShort, ParseRotate, ParseFormat, ParseTablemap, ParseOther, ParseRowOrphan,
         ParseRowUnmatched, ParseRowMatched, DeliverRows, ReconnectDies, ReconnectFails, Crash,
         memory, vars
<1>3. QED
  BY <1>1, <1>2

\* A session that streams was opened by this step, sent a packet or stayed.
LEMMA SessionStays ==
    ASSUME TypeInv, [Next]_vars
    PROVE  Request \/ Receive \/ UNCHANGED sess \/ sess'.phase \notin Streaming
<1>1. CASE Server \/ UNCHANGED vars
  BY <1>1, ServerStep
<1>2. CASE RequestLost \/ ReceiveNothing \/ Reconnecting \/ Crash \/ Restart
  BY <1>2, SessFields
     DEF RequestLost, ReceiveNothing, masterVars, Reconnecting, ReconnectAtLatest,
         ReconnectAtSaved, Reconnected, ReconnectDies, ReconnectFails, Crash, Restart,
         NoSession, Streaming
<1>3. CASE Startup \/ Handling
  BY <1>3
     DEF Startup, StartPosition, StartChecksum, StartFails, Handling, ParseOtherFlag,
         ParseError, ParseShort, ParseRotate, ParseFormat, ParseTablemap, ParseOther,
         ParseRowOrphan, ParseRowUnmatched, ParseRowMatched, DeliverRows, masterVars
<1>4. QED
  BY <1>1, <1>2, <1>3 DEF Next, Process, Reading

LEMMA Opened ==
    ASSUME TypeInv, Request
    PROVE  /\ sess'.file = req.file /\ sess'.pos = req.pos /\ sess'.phase \in {"open", "err"}
           /\ sess'.phase = "open" => req.file \in 1 .. Last /\ req.pos \in 1 .. EndOf(req.file)
           /\ At(sess)' = req
           /\ UNCHANGED <<binlog, req, tm, buf, saved>> /\ pc = "Request" /\ pc' = "Read"
<1>1. PICK aware : OpenSession(req.file, req.pos, aware)
  BY DEF Request
<1>2. /\ sess'.file = req.file /\ sess'.pos = req.pos /\ sess'.phase \in {"open", "err"}
      /\ sess'.phase = "open" => req.file \in purged + 1 .. Last
                                 /\ req.pos \in 1 .. EndOf(req.file)
  BY <1>1 DEF OpenSession
<1>3. req.file \in purged + 1 .. Last => req.file \in 1 .. Last
  BY Bounds DEF TypeInv, LogOK, TypeOK, MasterTypeOK
<1>4. At(sess)' = req
  BY <1>2 DEF TypeInv, TypeOK, Positions, At
<1>5. QED
  BY <1>2, <1>3, <1>4 DEF Request, memory

LEMMA RequestedStep ==
    ASSUME TypeInv, StartOK, RequestedOK, [Next]_vars
    PROVE  RequestedOK'
<1>1. CASE sess'.phase \notin Streaming
  BY <1>1 DEF RequestedOK, Streaming
<1>2. CASE UNCHANGED <<sess, req>>
  BY <1>2 DEF RequestedOK
<1>3. CASE Request
  BY <1>3, Opened DEF RequestedOK, Streaming
<1>4. CASE Receive
  <2>1. UNCHANGED req
    BY <1>4, Received
  <2>2. CASE SendOpening(buf')
    BY <1>4, <2>1, <2>2, OpeningSent DEF RequestedOK, Streaming
  <2>3. CASE SendFormat(buf')
    BY <1>4, <2>1, <2>3, FormatSent DEF RequestedOK, Streaming
  <2>4. CASE SendEvent(buf')
    BY <1>4, <2>1, <2>4, EventSent DEF RequestedOK, Streaming
  <2>5. CASE SendSwitch(buf')
    BY <1>4, <2>1, <2>5, SwitchSent DEF RequestedOK, Streaming
  <2>6. CASE SendEnd(buf')
    BY <1>1, <1>4, <2>6, EndSent DEF Streaming
  <2>7. QED
    BY <1>4, <2>2, <2>3, <2>4, <2>5, <2>6, Received
<1>5. QED
  BY <1>1, <1>2, <1>3, <1>4, SessionStays, NewRequest

(***************************************************************************)
(* Table maps: those the session has sent since it was requested are known.*)
(***************************************************************************)
FirstRead == IF req.file = sess.file THEN req.pos ELSE 1
SeenOK ==
    sess.phase \in Streaming =>
        \A k \in FirstRead .. sess.pos - 1 :
            LET e == binlog[sess.file].evs[k]
            IN  e.type = "TABLEMAP" =>
                  /\ ~(pc = "Parse" /\ InBuf({"FORMAT"}))
                  /\ \/ tm[e.tid].def # NoTable
                     \/ pc = "Parse" /\ InBuf({"TABLEMAP"}) /\ At(buf) = Pos(sess.file, k)

\* A row event without a map has none between the requested position and it.
BufMapOK ==
    InBuf({"ROWS"}) /\ tm[buf.tid].def = NoTable =>
        /\ req.file = buf.file /\ req.pos >= 1
        /\ \A k \in req.pos .. buf.pos - 1 : ~MapFor(binlog[buf.file].evs[k], buf.tid)

OrphanInv == LossInv /\ StartOK /\ FilesOK /\ RequestedOK /\ SeenOK /\ BufMapOK

\* What the session has sent of its file is in the log for good.
LEMMA SeenStays ==
    ASSUME TypeInv, RequestedOK, [Next]_vars, sess.phase \in Streaming
    PROVE  \A k \in FirstRead .. sess.pos - 1 :
              /\ k \in 1 .. Len(binlog[sess.file].evs)
              /\ binlog[sess.file].evs[k] \in Events
              /\ binlog'[sess.file].evs[k] = binlog[sess.file].evs[k]
<1>1. /\ sess.file \in 1 .. Last /\ sess.pos \in 1 .. EndOf(sess.file)
      /\ FirstRead \in Nat /\ FirstRead >= 1
  BY SessFields DEF FirstRead, RequestedOK, TypeInv, TypeOK, Positions
<1>2. Len(binlog[sess.file].evs) \in Nat
  BY <1>1, Bounds DEF TypeInv, LogOK
<1>3. \A k \in FirstRead .. sess.pos - 1 : k \in 1 .. Len(binlog[sess.file].evs)
  BY <1>1, <1>2 DEF EndOf
<1>4. QED
  BY <1>1, <1>3, LogStep, LogFacts DEF TypeInv, LogGrows

\* The packet received last is the newest event seen.
LEMMA ReceiveSeen ==
    ASSUME OrphanInv, Receive, sess'.phase \in Streaming
    PROVE  SeenOK'
<1>1. TypeInv
  BY DEF OrphanInv, LossInv
<1>2. /\ UNCHANGED <<binlog, req, tm>> /\ pc = "Read" /\ pc' = "Parse"
  BY Received
<1>3. SUFFICES ASSUME NEW k \in FirstRead' .. sess'.pos - 1,
                      binlog[sess'.file].evs[k].type = "TABLEMAP"
               PROVE  /\ ~InBuf({"FORMAT"})'
                      /\ \/ tm[binlog[sess'.file].evs[k].tid].def # NoTable
                         \/ InBuf({"TABLEMAP"})' /\ At(buf)' = Pos(sess'.file, k)
  BY <1>2 DEF SeenOK
<1>4. CASE SendOpening(buf') \/ SendFormat(buf')
  <2>1. sess'.file = req.file /\ sess'.pos = req.pos
    BY <1>1, <1>4, OpeningSent, FormatSent DEF OrphanInv, RequestedOK
  <2>2. FirstRead' = req.pos /\ req.pos \in Nat
    BY <1>1, <1>2, <2>1 DEF FirstRead, TypeInv, TypeOK, Positions
  <2>3. QED
    BY <1>3, <2>1, <2>2
<1>5. CASE SendEvent(buf')
  <2> DEFINE e == binlog[sess.file].evs[sess.pos]
  <2>1. /\ sess.phase \in Streaming /\ sess'.file = sess.file /\ sess'.pos = sess.pos + 1
        /\ sess.file \in 1 .. Last /\ sess.pos \in 1 .. Len(binlog[sess.file].evs)
        /\ buf'.type = e.type /\ buf'.flag = "ok"
        /\ e.type = "TABLEMAP" => buf'.file = sess.file /\ buf'.pos = sess.pos
        /\ sess.pos = 1 => e = FirstEvent
    BY <1>1, <1>5, EventSent DEF Streaming
  <2>2. FirstRead' = FirstRead /\ FirstRead \in Nat /\ FirstRead >= 1
    BY <1>1, <1>2, <2>1 DEF FirstRead, OrphanInv, RequestedOK, TypeInv, TypeOK, Positions
  <2>3. e.type = "FORMAT" => sess.pos = 1
    BY <2>1 DEF OrphanInv, FilesOK, WellFormed
  <2>4. ~InBuf({"FORMAT"})'
    BY <1>3, <2>1, <2>2, <2>3 DEF InBuf, FirstEvent, Event
  <2>5. CASE k = sess.pos
    BY <1>3, <2>1, <2>4, <2>5 DEF InBuf, At, Pos
  <2>6. CASE k \in FirstRead .. sess.pos - 1
    <3>1. tm[binlog[sess.file].evs[k].tid].def # NoTable
      BY <1>2, <1>3, <2>1, <2>6 DEF OrphanInv, SeenOK
    <3>2. QED
      BY <2>1, <2>4, <3>1
  <2>7. QED
    BY <1>3, <2>1, <2>2, <2>5, <2>6
<1>6. CASE SendSwitch(buf')
  <2>1. sess'.pos = 1 /\ sess.phase \in Streaming
    BY <1>1, <1>6, SwitchSent DEF Streaming
  <2>2. FirstRead' \in Nat /\ FirstRead' >= 1
    BY <1>1, <1>2, <2>1 DEF FirstRead, OrphanInv, RequestedOK, TypeInv, TypeOK, Positions
  <2>3. QED
    BY <1>3, <2>1, <2>2
<1>7. CASE SendEnd(buf')
  BY <1>1, <1>7, EndSent DEF Streaming
<1>8. QED
  BY <1>4, <1>5, <1>6, <1>7, Received

\* A handler learns the map in the buffer, and forgets maps only with the
\* FORMAT event of a file none of whose maps has been seen.
LEMMA HandlingSeen ==
    ASSUME OrphanInv, Handling, sess.phase \in Streaming
    PROVE  SeenOK'
<1>1. TypeInv
  BY DEF OrphanInv, LossInv
<1>2. UNCHANGED <<sess, binlog, req, buf>> /\ pc' # "Parse"
  BY DEF Handling, ParseOtherFlag, ParseError, ParseShort, ParseRotate, ParseFormat,
     ParseTablemap, ParseOther, ParseRowOrphan, ParseRowUnmatched, ParseRowMatched,
     DeliverRows, masterVars, memory
<1>3. SUFFICES ASSUME NEW k \in FirstRead .. sess.pos - 1,
                      binlog[sess.file].evs[k].type = "TABLEMAP"
               PROVE  tm'[binlog[sess.file].evs[k].tid].def # NoTable
  BY <1>2 DEF SeenOK, FirstRead
<1> DEFINE e == binlog[sess.file].evs[k]
<1>4. /\ ~(pc = "Parse" /\ InBuf({"FORMAT"}))
      /\ \/ tm[e.tid].def # NoTable
         \/ pc = "Parse" /\ InBuf({"TABLEMAP"}) /\ At(buf) = Pos(sess.file, k)
  BY <1>3 DEF OrphanInv, SeenOK
<1>5. e.tid \in Tids /\ tm \in [Tids -> Maps]
  <2>1. [Next]_vars
    BY DEF Next, Process
  <2>2. e \in Events
    BY <1>1, <1>3, <2>1, SeenStays DEF OrphanInv
  <2>3. QED
    BY <1>1, <1>3, <2>2, EventFacts DEF TypeInv, TypeOK
<1> HIDE DEF e
<1>6. CASE ParseFormat
  BY <1>4, <1>6 DEF ParseFormat, Parsing, InBuf
<1>7. CASE ParseTablemap
  <2> DEFINE table == TableOf[buf.file][buf.tid]
  <2>1. InBuf({"TABLEMAP"}) /\ tm' = WithTablemap(buf.tid, table)
    BY <1>7 DEF ParseTablemap, Parsing, InBuf
  <2>2. IsEvent(At(buf)) /\ EventAt(At(buf)) = Event("TABLEMAP", buf.tid)
    BY <1>1, <2>1 DEF TypeInv, Genuine, InBuf
  <2>3. buf.file \in Files /\ buf.tid \in Tids
    <3>1. buf.file \in 1 .. Last /\ buf.pos \in 1 .. Len(binlog[buf.file].evs)
      BY <2>2 DEF IsEvent, At
    <3>2. Event("TABLEMAP", buf.tid) \in Events
      BY <1>1, <2>2, <3>1, LogFacts DEF EventAt, At, TypeInv
    <3>3. QED
      BY <1>1, <3>1, <3>2, LogFacts, EventFacts DEF Event, TypeInv
  <2>4. table # NoTable
    BY <2>3, TableOfAssumption, MatchedAssumption DEF TableOfAssumption, MatchedAssumption
  <2> HIDE DEF table
  <2>5. CASE e.tid = buf.tid
    BY <1>5, <2>1, <2>4, <2>5 DEF WithTablemap, e
  <2>6. CASE e.tid # buf.tid
    <3>1. tm[e.tid].def # NoTable
      <4>1. ASSUME At(buf) = Pos(sess.file, k) PROVE e = Event("TABLEMAP", buf.tid)
        BY <2>2, <4>1 DEF EventAt, Pos, e
      <4>2. QED
        BY <1>4, <2>6, <4>1 DEF Event
    <3>2. QED
      BY <1>5, <2>1, <2>6, <3>1 DEF WithTablemap, e
  <2>7. QED
    BY <2>5, <2>6
<1>8. CASE UNCHANGED tm /\ ~(pc = "Parse" /\ InBuf({"TABLEMAP"}))
  BY <1>4, <1>8 DEF e
<1>9. QED
  BY <1>6, <1>7, <1>8
     DEF Handling, ParseOtherFlag, ParseError, ParseShort, ParseRotate, ParseOther,
         ParseRowOrphan, ParseRowUnmatched, ParseRowMatched, DeliverRows, Parsing, InBuf,
         memory

LEMMA SeenStep ==
    ASSUME OrphanInv, [Next]_vars
    PROVE  SeenOK'
<1>1. TypeInv /\ StartOK /\ RequestedOK /\ SeenOK
  BY DEF OrphanInv, LossInv
<1>2. CASE sess'.phase \notin Streaming
  BY <1>2 DEF SeenOK
<1>3. CASE Receive
  BY <1>2, <1>3, ReceiveSeen
<1>4. CASE Request
  <2>1. FirstRead' = sess'.pos /\ sess'.pos \in Nat
    BY <1>1, <1>4, Opened DEF FirstRead, TypeInv, TypeOK, Positions
  <2>2. QED
    BY <2>1 DEF SeenOK
<1>5. CASE Handling
  BY <1>1, <1>2, <1>5, HandlingSeen, SessionStays
     DEF Handling, ParseOtherFlag, ParseError, ParseShort, ParseRotate, ParseFormat,
         ParseTablemap, ParseOther, ParseRowOrphan, ParseRowUnmatched, ParseRowMatched,
         DeliverRows, masterVars
<1>6. CASE UNCHANGED <<sess, req, tm>> /\ sess.phase \in Streaming
           /\ (UNCHANGED <<pc, buf>> \/ (pc # "Parse" /\ pc' # "Parse"))
  <2>1. \A k \in FirstRead .. sess.pos - 1 : binlog'[sess.file].evs[k] = binlog[sess.file].evs[k]
    BY <1>1, <1>6, SeenStays
  <2>2. FirstRead' = FirstRead
    BY <1>6 DEF FirstRead
  <2>3. QED
    BY <1>1, <1>6, <2>1, <2>2 DEF SeenOK, InBuf, At
<1>7. CASE Server \/ UNCHANGED vars
  <2>1. UNCHANGED <<pc, req, tm, buf>> /\ (UNCHANGED sess \/ sess'.phase \notin Streaming)
    BY <1>1, <1>7, ServerStep
  <2>2. CASE UNCHANGED sess /\ sess.phase \in Streaming
    BY <1>6, <2>1, <2>2
  <2>3. QED
    BY <1>2, <2>1, <2>2
<1>8. CASE Startup
  BY <1>2, <1>8, <1>1
     DEF Startup, StartPosition, StartChecksum, StartFails, StartOK, Starting, Streaming,
         masterVars
<1>9. CASE RequestLost \/ ReceiveNothing \/ Reconnecting \/ Crash \/ Restart
  BY <1>1, <1>2, <1>9, SessFields
     DEF RequestLost, ReceiveNothing, masterVars, Reconnecting, ReconnectAtLatest,
         ReconnectAtSaved, Reconnected, ReconnectDies, ReconnectFails, Crash, Restart,
         NoSession, Streaming
<1>10. QED
  BY <1>3, <1>4, <1>5, <1>7, <1>8, <1>9 DEF Next, Process, Reading

\* A row event that arrives has a map before it, which is known if the
\* session has sent it.
LEMMA ReceiveMapped ==
    ASSUME OrphanInv, Receive
    PROVE  BufMapOK'
<1>1. TypeInv
  BY DEF OrphanInv, LossInv
<1>2. /\ UNCHANGED <<binlog, req, tm>> /\ pc = "Read"
  BY Received
<1>3. SUFFICES ASSUME buf'.flag = "ok", buf'.type = "ROWS", tm[buf'.tid].def = NoTable
               PROVE  /\ req.file = buf'.file /\ req.pos >= 1
                      /\ \A k \in req.pos .. buf'.pos - 1 :
                            ~MapFor(binlog[buf'.file].evs[k], buf'.tid)
  BY <1>2 DEF BufMapOK, InBuf
<1>4. SendEvent(buf')
  BY <1>1, <1>3, Received, OpeningSent, FormatSent, SwitchSent, EndSent
<1> DEFINE evs == binlog[sess.file].evs
<1>5. /\ sess.phase \in Streaming /\ sess.file \in 1 .. Last /\ sess.pos \in 1 .. Len(evs)
      /\ buf'.file = sess.file /\ buf'.pos = sess.pos
      /\ evs[sess.pos].type = "ROWS" /\ evs[sess.pos].tid = buf'.tid
  BY <1>1, <1>3, <1>4, EventSent DEF Streaming
<1>6. \A k \in FirstRead .. sess.pos - 1 : ~MapFor(evs[k], buf'.tid)
  BY <1>2, <1>3, <1>5 DEF OrphanInv, SeenOK, MapFor
<1>7. PICK j \in 1 .. sess.pos - 1 : MapFor(evs[j], buf'.tid)
  BY <1>5 DEF OrphanInv, FilesOK, WellFormed
<1>8. req.file = sess.file /\ FirstRead = req.pos
  BY <1>6, <1>7 DEF FirstRead
<1>9. QED
  BY <1>5, <1>6, <1>8 DEF OrphanInv, RequestedOK

LEMMA BufMapStep ==
    ASSUME OrphanInv, [Next]_vars
    PROVE  BufMapOK'
<1>1. TypeInv /\ LogOK /\ LogGrows /\ StartOK /\ BufMapOK
  BY LogStep DEF OrphanInv, LossInv, TypeInv
<1>2. CASE Receive
  BY <1>2, ReceiveMapped
<1>3. CASE ~InBuf({"ROWS"})'
  BY <1>3 DEF BufMapOK
<1>4. CASE UNCHANGED <<buf, tm, req>>
  <2>1. SUFFICES ASSUME InBuf({"ROWS"}), tm[buf.tid].def = NoTable
                 PROVE  BufMapOK'
    BY <1>4 DEF BufMapOK, InBuf
  <2>2. buf.file \in 1 .. Last /\ buf.pos \in 1 .. Len(binlog[buf.file].evs)
    BY <2>1, EndOfRows DEF OrphanInv
  <2>3. req.pos >= 1 /\ req.pos \in Nat /\ Len(binlog[buf.file].evs) \in Nat
    BY <1>1, <2>1, <2>2, Bounds DEF BufMapOK, TypeInv, TypeOK, Positions, LogOK
  <2>4. \A k \in req.pos .. buf.pos - 1 : binlog'[buf.file].evs[k] = binlog[buf.file].evs[k]
    BY <1>1, <2>2, <2>3 DEF LogGrows
  <2>5. QED
    BY <1>1, <1>4, <2>4 DEF BufMapOK, InBuf
<1>5. CASE UNCHANGED <<buf, req>> /\ ~UNCHANGED tm
  <2>1. ParseFormat \/ ParseTablemap \/ Restart
    BY <1>5
       DEF Next, Server, Process, Startup, Reading, Handling, Reconnecting, StartPosition,
           StartChecksum, StartFails, Request, RequestLost, Receive, ReceiveNothing,
           ParseOtherFlag, ParseError, ParseShort, ParseRotate, ParseOther, ParseRowOrphan,
           ParseRowUnmatched, ParseRowMatched, DeliverRows, ReconnectAtLatest,
           ReconnectAtSaved, ReconnectDies, ReconnectFails, Crash, memory, vars
  <2>2. QED
    BY <1>3, <1>5, <2>1
       DEF ParseFormat, ParseTablemap, Restart, FreshMemory, Unset, Bare, Parsing, InBuf
<1>6. CASE ~UNCHANGED req
  BY <1>1, <1>3, <1>6, NewRequest DEF InBuf
<1>7. CASE ReceiveNothing \/ Restart
  <2>1. CASE Restart
    BY <1>3, <2>1 DEF Restart, FreshMemory, Unset, Bare, InBuf
  <2>2. CASE ReceiveNothing
    BY <1>3, <1>4, <2>2, BufferNotRead DEF ReceiveNothing, InBuf
  <2>3. QED
    BY <1>7, <2>1, <2>2
<1>8. QED
  BY <1>2, <1>4, <1>5, <1>6, <1>7, BufferKept

LEMMA OrphanInvInit == Init => OrphanInv
<1>1. SUFFICES ASSUME Init PROVE FilesOK /\ RequestedOK /\ SeenOK /\ BufMapOK
  BY LossInvInit, CrcInvInit DEF OrphanInv, CrcInv
<1>2. PICK crc \in Crcs : binlog = <<NewFile(crc)>>
  BY <1>1 DEF Init, MasterInit
<1>3. FilesOK
  <2>1. WellFormed(NewFile(crc).evs)
    BY DEF NewFile, FirstEvent, Event, WellFormed
  <2> DEFINE file == NewFile(crc)
  <2> HIDE DEF file
  <2>2. QED
    BY <1>2, <2>1 DEF FilesOK, Last, file
<1>4. QED
  BY <1>1, <1>3 DEF Init, MasterInit, NoSession, Unset, Bare, InBuf, Streaming, RequestedOK,
     SeenOK, BufMapOK

LEMMA OrphanInvStep == OrphanInv /\ [Next]_vars => OrphanInv'
<1>1. SUFFICES ASSUME OrphanInv, [Next]_vars PROVE OrphanInv'
  OBVIOUS
<1>2. TypeInv /\ LogOK /\ StartOK /\ FilesOK /\ RequestedOK
  BY <1>1 DEF OrphanInv, LossInv, TypeInv
<1>3. QED
  BY <1>1, <1>2, LossInvStep, StartStep, FilesStep, RequestedStep, SeenStep, BufMapStep
     DEF OrphanInv

\* Whatever fails and however often the process reconnects or is killed, a row
\* event is dropped for want of its table map only if the dump was requested
\* at an offset of the same file between the two (packet.cc:195).
THEOREM OrphansOnlyMidStatement == Spec => OrphanOnlyMidStatement
<1>1. ASSUME OrphanInv, [Next]_vars, NEW e \in orphaned' \ orphaned
      PROVE  LET MapsId(k) == binlog[e.file].evs[k] = Event("TABLEMAP", EventAt(e).tid)
             IN  /\ req.file = e.file
                 /\ \E k \in 1 .. req.pos - 1 : MapsId(k)
                 /\ \A k \in req.pos .. e.pos - 1 : ~MapsId(k)
  <2>1. ParseRowOrphan
    BY <1>1
       DEF Next, Server, Process, Startup, Reading, Handling, Reconnecting, StartPosition,
           StartChecksum, StartFails, Request, RequestLost, Receive, ReceiveNothing,
           ParseOtherFlag, ParseError, ParseShort, ParseRotate, ParseFormat, ParseTablemap,
           ParseOther, ParseRowUnmatched, ParseRowMatched, DeliverRows, ReconnectAtLatest,
           ReconnectAtSaved, ReconnectDies, ReconnectFails, Crash, Restart, history, vars
  <2>2. e = At(buf) /\ InBuf({"ROWS"}) /\ tm[buf.tid].def = NoTable
    BY <1>1, <2>1 DEF ParseRowOrphan, Parsing, InBuf
  <2> DEFINE evs == binlog[buf.file].evs
  <2>3. /\ buf.file \in 1 .. Last /\ buf.pos \in 1 .. Len(evs)
        /\ EventAt(e) = Event("ROWS", buf.tid)
        /\ e.file = buf.file /\ e.pos = buf.pos
    BY <1>1, <2>2, EndOfRows DEF OrphanInv, At
  <2>4. /\ req.file = buf.file /\ req.pos >= 1 /\ req.pos \in Nat
        /\ \A k \in req.pos .. buf.pos - 1 : ~MapFor(evs[k], buf.tid)
    BY <1>1, <2>2 DEF OrphanInv, BufMapOK, LossInv, TypeInv, TypeOK, Positions
  <2>5. PICK j \in 1 .. buf.pos - 1 : MapFor(evs[j], buf.tid)
    <3>1. evs[buf.pos].type = "ROWS" /\ evs[buf.pos].tid = buf.tid
      BY <2>3 DEF EventAt, Event
    <3>2. QED
      BY <1>1, <2>3, <3>1 DEF OrphanInv, FilesOK, WellFormed
  <2>6. j \in 1 .. req.pos - 1
    BY <2>3, <2>4, <2>5
  <2>7. evs[j] = Event("TABLEMAP", buf.tid)
    <3>1. Len(evs) \in Nat
      BY <1>1, <2>3, Bounds DEF OrphanInv, LossInv, TypeInv, LogOK
    <3>2. evs[j] \in Events
      BY <1>1, <2>3, <2>5, <3>1, LogFacts DEF OrphanInv, LossInv, TypeInv
    <3>3. QED
      BY <2>5, <3>2, EventFacts DEF MapFor
  <2>8. \A k \in req.pos .. buf.pos - 1 : evs[k] # Event("TABLEMAP", buf.tid)
    BY <2>4 DEF MapFor, Event
  <2>9. EventAt(e).tid = buf.tid
    BY <2>3 DEF Event
  <2> HIDE DEF evs
  <2>10. QED
    BY <2>3, <2>4, <2>6, <2>7, <2>8, <2>9 DEF evs
<1>2. OrphanInv /\ [Next]_vars =>
        [\A e \in orphaned' \ orphaned :
            LET MapsId(k) == binlog[e.file].evs[k] = Event("TABLEMAP", EventAt(e).tid)
            IN  /\ req.file = e.file
                /\ \E k \in 1 .. req.pos - 1 : MapsId(k)
                /\ \A k \in req.pos .. e.pos - 1 : ~MapsId(k)]_vars
  BY <1>1
<1>3. QED
  BY OrphanInvInit, OrphanInvStep, <1>2, PTL DEF Spec, OrphanOnlyMidStatement

(***************************************************************************)
(* The saved position.  What the program may request, and what it may save *)
(* next, is never older than it.                                           *)
(***************************************************************************)
\* Not being before is transitive, for places.
LEMMA NotBefore ==
    ASSUME NEW p, NEW q, NEW r, Place(p), Place(q), Place(r), ~Before(p, q), ~Before(q, r)
    PROVE  ~Before(p, r)
  BY DEF Before, Place

\* Where the session goes on: in the next file, behind a ROTATE event.
Reached == IF Turned THEN Pos(sess.file + 1, 1) ELSE At(sess)

\* What the event in the buffer has its handler save.
Saves == {"ROTATE", "ROWS"}
Target == IF buf.type = "ROTATE" THEN At(buf) ELSE Pos(buf.file, buf.pos + 1)

RequestAhead ==
    /\ req.file >= 0
    /\ pc \in {"Checksum", "Request"} => ~Before(req, saved)
OpenAhead == sess.phase = "open" => ~Before(At(sess), saved)
CursorAhead == sess.phase \in Streaming => ~Before(Reached, saved)
BufAhead == InBuf(Saves) => ~Before(Target, saved)
CursorPastBuf ==
    pc = "Parse" /\ sess.phase \in Streaming /\ InBuf(Saves) => ~Before(Reached, Target)

AheadOK == RequestAhead /\ OpenAhead /\ CursorAhead /\ BufAhead /\ CursorPastBuf
OrderInv == PlaceInv /\ AheadOK

\* The positions compared are places.
LEMMA OrderPlaces ==
    ASSUME TypeInv
    PROVE  Place(req) /\ Place(saved) /\ Place(Target) /\ Place(At(sess)) /\ Place(Reached)
  BY Places, SessFields DEF Place, Target, Reached, At, Pos

\* Nothing is saved but the target of the event being handled.
LEMMA TargetSaved ==
    ASSUME PlaceInv, [Next]_vars
    PROVE  \/ UNCHANGED saved
           \/ /\ pc = "Parse" /\ InBuf(Saves) /\ saved' = Target
              /\ UNCHANGED <<binlog, sess, req, buf>> /\ pc' \in {"Read", "Rows"}
<1>1. CASE ParseRotate /\ InBuf({"ROTATE"}) /\ saved' = At(buf)
  BY <1>1 DEF ParseRotate, masterVars, Target, InBuf, Saves, Parsing
<1>2. CASE ParseRowMatched /\ InBuf({"ROWS"}) /\ saved' = Pos(buf.file, buf.pos + 1)
  BY <1>2 DEF ParseRowMatched, masterVars, Target, InBuf, Saves, Parsing
<1>3. QED
  BY <1>1, <1>2, SavedOnly DEF PlaceInv

\* The cursor may take a ROTATE event's turn only by sending it.
LEMMA ReachedStays ==
    ASSUME LossInv, [Next]_vars, UNCHANGED sess, sess.phase \in Streaming,
           NEW p, Place(p), ~Before(Reached, p)
    PROVE  ~Before(Reached', p)
<1>1. TypeInv /\ RotatesLast
  BY DEF LossInv
<1>2. CASE Turned
  BY <1>1, <1>2, TurnedStays DEF Reached
<1>3. CASE ~Turned
  <2>1. ~Before(At(sess), p)
    BY <1>3 DEF Reached
  <2>2. Reached' \in {At(sess), Pos(sess.file + 1, 1)}
    BY DEF Reached, At
  <2>3. QED
    BY <1>1, <2>1, <2>2, SessFields DEF Before, At, Pos, Place
<1>4. QED
  BY <1>2, <1>3

\* What a packet tells to save is where the session is, and not older than
\* what has been saved.
LEMMA ReceiveAhead ==
    ASSUME OrderInv, Receive
    PROVE  CursorAhead' /\ BufAhead' /\ CursorPastBuf' /\ OpenAhead'
<1>1. TypeInv /\ RotatesLast /\ Place(saved)
  BY OrderPlaces DEF OrderInv, PlaceInv, LossInv
<1>2. UNCHANGED <<binlog, saved>> /\ Last' = Last /\ \A f : EndOf(f)' = EndOf(f)
  BY Received
<1>3. /\ sess.file \in Int /\ sess.pos \in Nat
      /\ sess.phase \in Streaming =>
            sess.file \in 1 .. Last /\ sess.pos \in 1 .. EndOf(sess.file)
  BY <1>1, SessFields
<1>4. CASE SendOpening(buf')
  <2>1. /\ sess.phase = "open" /\ sess'.file = sess.file /\ sess'.pos = sess.pos
        /\ sess'.phase # "open"
        /\ Target' = At(sess) /\ At(sess)' = At(sess)
    BY <1>1, <1>4, OpeningSent DEF Target, At
  <2>2. ~Before(At(sess), saved)
    BY <2>1 DEF OrderInv, AheadOK, OpenAhead
  <2>3. Reached' \in {At(sess), Pos(sess.file + 1, 1)}
    BY <2>1 DEF Reached
  <2>4. ~Before(Reached', saved) /\ ~Before(Reached', At(sess))
    BY <1>1, <1>3, <2>2, <2>3 DEF Before, At, Pos, Place
  <2>5. QED
    BY <1>2, <2>1, <2>2, <2>4 DEF CursorAhead, BufAhead, CursorPastBuf, OpenAhead
<1>5. CASE SendFormat(buf')
  <2>1. /\ sess.phase = "format" /\ sess'.phase = "events"
        /\ sess'.file = sess.file /\ sess'.pos = sess.pos /\ buf'.type = "FORMAT"
    BY <1>1, <1>5, FormatSent
  <2>2. Reached' = Reached
    BY <1>2, <2>1 DEF Reached, Turned, At
  <2>3. QED
    BY <1>2, <2>1, <2>2
       DEF OrderInv, AheadOK, CursorAhead, BufAhead, CursorPastBuf, OpenAhead, InBuf, Saves,
           Streaming
<1>6. CASE SendEvent(buf')
  <2> DEFINE e == binlog[sess.file].evs[sess.pos]
  <2>1. /\ sess.phase \in Streaming /\ sess'.phase = "events"
        /\ sess.file \in 1 .. Last /\ sess.pos \in 1 .. Len(binlog[sess.file].evs)
        /\ sess'.file = sess.file /\ sess'.pos = sess.pos + 1
        /\ buf'.type = e.type
        /\ IF e.type = "ROTATE"
           THEN buf'.file = sess.file + 1 /\ buf'.pos = 1
           ELSE buf'.file = sess.file /\ buf'.pos = sess.pos
    BY <1>1, <1>6, EventSent DEF Streaming
  <2>2. Len(binlog[sess.file].evs) \in Nat /\ ~Turned
    BY <1>1, <2>1, Bounds DEF TypeInv, LogOK, Turned, EndOf
  <2>3. ~Before(At(sess), saved)
    BY <2>1, <2>2 DEF OrderInv, AheadOK, CursorAhead, Reached
  <2>4. Target' = IF e.type = "ROTATE" THEN Pos(sess.file + 1, 1)
                                       ELSE Pos(sess.file, sess.pos + 1)
    BY <2>1 DEF Target, At, Pos
  <2>5. e.type = "ROTATE" => Turned'
    <3>1. e.type = "ROTATE" => sess.pos = Len(binlog[sess.file].evs)
      BY <1>1, <2>1 DEF RotatesLast
    <3>2. e.type = "ROTATE" => sess'.pos = EndOf(sess.file)
      BY <2>1, <3>1 DEF EndOf
    <3>3. binlog'[sess'.file].evs[sess'.pos - 1] = e
      BY <1>2, <1>3, <2>1
    <3>4. QED
      BY <1>2, <2>1, <3>2, <3>3 DEF Turned
  <2>6. /\ Reached' \in {Pos(sess.file, sess.pos + 1), Pos(sess.file + 1, 1)}
        /\ e.type = "ROTATE" => Reached' = Pos(sess.file + 1, 1)
    BY <2>1, <2>5 DEF Reached, At, Pos
  <2> HIDE DEF e
  <2>7. /\ ~Before(Target', saved) /\ ~Before(Reached', saved) /\ ~Before(Reached', Target')
    BY <1>1, <1>3, <2>3, <2>4, <2>6 DEF Before, At, Pos, Place
  <2>8. QED
    BY <1>2, <2>1, <2>7 DEF CursorAhead, BufAhead, CursorPastBuf, OpenAhead
<1>7. CASE SendSwitch(buf')
  <2>1. /\ sess.phase \in Streaming /\ sess'.phase # "open"
        /\ sess'.file = sess.file + 1 /\ sess'.pos = 1
        /\ buf'.type = "ROTATE" /\ buf'.file = sess.file + 1 /\ buf'.pos = 1
    BY <1>1, <1>7, SwitchSent DEF Streaming
  <2>2. Target' = Pos(sess.file + 1, 1) /\ At(sess)' = Pos(sess.file + 1, 1)
    BY <2>1 DEF Target, At, Pos
  <2>3. Reached \in {At(sess), Pos(sess.file + 1, 1)} /\ ~Before(Reached, saved)
    BY <2>1 DEF Reached, OrderInv, AheadOK, CursorAhead
  <2>4. Reached' \in {Pos(sess.file + 1, 1), Pos(sess.file + 2, 1)}
    BY <1>3, <2>1, <2>2 DEF Reached
  <2>5. /\ ~Before(Target', saved) /\ ~Before(Reached', saved) /\ ~Before(Reached', Target')
    BY <1>1, <1>3, <2>2, <2>3, <2>4 DEF Before, At, Pos, Place
  <2>6. QED
    BY <1>2, <2>1, <2>5 DEF CursorAhead, BufAhead, CursorPastBuf, OpenAhead
<1>8. CASE SendEnd(buf')
  BY <1>1, <1>8, EndSent DEF CursorAhead, BufAhead, CursorPastBuf, OpenAhead, InBuf, Streaming
<1>9. QED
  BY <1>4, <1>5, <1>6, <1>7, <1>8, Received

\* A dump is requested at the end of the log or where Redis says, unless a
\* query or a Redis command fails.
LEMMA RequestAheadStep ==
    ASSUME {"query", "redis"} \intersect Faults = {}, OrderInv, [Next]_vars
    PROVE  RequestAhead'
<1>1. LossInv /\ TypeInv /\ RequestAhead
  BY DEF OrderInv, PlaceInv, LossInv, AheadOK
<1>2. Latest.file >= 0 /\ saved.file >= 0 /\ ~Before(Latest, saved) /\ ~Before(saved, saved)
  <2>1. ~Before(Latest, saved) /\ Latest.file >= 0 /\ ~Before(saved, saved)
    BY <1>1, Places DEF LossInv, PositionsOK, SavedPassed, Passed, PassedIn, Place, Before
  <2>2. saved.file >= 0
    BY <1>1, Bounds DEF OrderInv, PlaceInv, PlaceOK, SavedServable, NoPos, TypeInv, LogOK
  <2>3. QED
    BY <2>1, <2>2
<1>3. CASE StartPosition
  BY <1>2, <1>3 DEF StartPosition, JumpToLatest, RequestAhead
<1>4. CASE ReconnectAtLatest
  BY <1>2, <1>4 DEF ReconnectAtLatest, JumpToLatest, RequestAhead
<1>5. CASE ReconnectAtSaved
  <2>1. req' = saved \/ (req' = req /\ saved = NoPos)
    BY <1>5 DEF ReconnectAtSaved, ReadNextReqPos
  <2>2. saved = NoPos => ~Before(req, saved)
    BY <1>1, Places DEF Before, NoPos, RequestAhead, Place, TypeInv, TypeOK, Positions
  <2>3. UNCHANGED saved
    BY <1>5 DEF ReconnectAtSaved
  <2>4. QED
    BY <1>1, <1>2, <2>1, <2>2, <2>3 DEF RequestAhead
<1>6. CASE Restart
  BY <1>6 DEF Restart, FreshMemory, NoPos, RequestAhead
<1>7. CASE Server \/ UNCHANGED vars
  BY <1>1, <1>7, ServerStep DEF RequestAhead
<1>8. CASE StartChecksum
  BY <1>1, <1>8 DEF StartChecksum, RequestAhead
<1>9. CASE UNCHANGED req /\ pc' \notin {"Checksum", "Request"}
  BY <1>1, <1>9 DEF RequestAhead
<1>10. CASE StartFails \/ Reading \/ Handling \/ ReconnectDies \/ ReconnectFails \/ Crash
  BY <1>9, <1>10
     DEF StartFails, Reading, Handling, Request, RequestLost, Receive, ReceiveNothing,
         ParseOtherFlag, ParseError, ParseShort, ParseRotate, ParseFormat, ParseTablemap,
         ParseOther, ParseRowOrphan, ParseRowUnmatched, ParseRowMatched, DeliverRows,
         ReconnectDies, ReconnectFails, Crash, memory
<1>11. QED
  BY <1>3, <1>4, <1>5, <1>6, <1>7, <1>8, <1>10 DEF Next, Process, Startup, Reconnecting

\* The session's cursor.
LEMMA CursorAheadStep ==
    ASSUME OrderInv, [Next]_vars
    PROVE  OpenAhead' /\ CursorAhead'
<1>1. LossInv /\ TypeInv /\ PlaceInv
  BY DEF OrderInv, PlaceInv, LossInv
<1>2. Place(saved) /\ Place(Target)
  BY <1>1, OrderPlaces
<1>3. CASE Receive
  BY <1>3, ReceiveAhead
<1>4. CASE sess'.phase \notin Streaming
  BY <1>4 DEF OpenAhead, CursorAhead, Streaming
<1>5. CASE Request
  <2>1. UNCHANGED saved /\ pc = "Request" /\ sess'.file = req.file /\ At(sess)' = req
    BY <1>1, <1>5, Opened
  <2>2. ~Before(req, saved) /\ Place(req)
    BY <1>1, <2>1, Places DEF OrderInv, AheadOK, RequestAhead
  <2>3. Reached' \in {req, Pos(req.file + 1, 1)}
    BY <2>1 DEF Reached
  <2>4. ~Before(Reached', saved)
    BY <1>2, <2>2, <2>3 DEF Before, Pos, Place
  <2>5. QED
    BY <2>1, <2>2, <2>4 DEF OpenAhead, CursorAhead
<1>6. CASE UNCHANGED sess /\ sess.phase \in Streaming
  <2>1. CASE UNCHANGED saved
    <3>1. ~Before(Reached', saved)
      BY <1>1, <1>2, <1>6, ReachedStays DEF OrderInv, AheadOK, CursorAhead
    <3>2. QED
      BY <1>6, <2>1, <3>1 DEF OrderInv, AheadOK, OpenAhead, CursorAhead, At
  <2>2. CASE pc = "Parse" /\ InBuf(Saves) /\ saved' = Target
    <3>1. ~Before(Reached, Target)
      BY <1>6, <2>2 DEF OrderInv, AheadOK, CursorPastBuf
    <3>2. ~Before(Reached', Target)
      BY <1>1, <1>2, <1>6, <3>1, ReachedStays
    <3>3. sess.phase # "open"
      BY <1>1, <2>2 DEF PlaceInv, CrcInv, OpeningOK
    <3>4. QED
      BY <1>6, <2>2, <3>2, <3>3 DEF OpenAhead, CursorAhead
  <2>3. QED
    BY <1>1, <2>1, <2>2, TargetSaved
<1>7. QED
  BY <1>1, <1>3, <1>4, <1>5, <1>6, SessionStays

\* The event in the buffer.
LEMMA BufAheadStep ==
    ASSUME OrderInv, [Next]_vars
    PROVE  BufAhead' /\ CursorPastBuf'
<1>1. LossInv /\ TypeInv /\ PlaceInv
  BY DEF OrderInv, PlaceInv, LossInv
<1>2. Place(saved) /\ Place(Target)
  BY <1>1, OrderPlaces
<1>3. CASE Receive
  BY <1>3, ReceiveAhead
<1>4. CASE ~InBuf(Saves)'
  BY <1>4 DEF BufAhead, CursorPastBuf
<1>5. CASE UNCHANGED buf
  <2>1. ~Before(Target, Target)
    BY <1>2 DEF Before, Place
  <2>2. UNCHANGED saved \/ saved' = Target
    BY <1>1, TargetSaved
  <2>3. Target' = Target /\ InBuf(Saves)' = InBuf(Saves)
    BY <1>5 DEF Target, At, InBuf, Saves
  <2>4. BufAhead'
    BY <2>1, <2>2, <2>3 DEF BufAhead, OrderInv, AheadOK
  <2>5. ASSUME pc' = "Parse", sess'.phase \in Streaming PROVE Server \/ UNCHANGED vars \/ Receive
    BY <2>5
       DEF Next, Process, Startup, Reading, Handling, Reconnecting, StartPosition,
           StartChecksum, StartFails, Request, RequestLost, Receive, ReceiveNothing,
           ParseOtherFlag, ParseError, ParseShort, ParseRotate, ParseFormat, ParseTablemap,
           ParseOther, ParseRowOrphan, ParseRowUnmatched, ParseRowMatched, DeliverRows,
           ReconnectAtLatest, ReconnectAtSaved, Reconnected, ReconnectDies, ReconnectFails,
           Crash, Restart, masterVars, Streaming
  <2>6. ASSUME Server \/ UNCHANGED vars PROVE CursorPastBuf'
    <3>1. SUFFICES ASSUME pc' = "Parse", sess'.phase \in Streaming, InBuf(Saves)
                   PROVE  ~Before(Reached', Target)
      BY <2>3 DEF CursorPastBuf
    <3>2. pc = "Parse" /\ UNCHANGED sess
      BY <1>1, <2>6, <3>1, ServerStep
    <3>3. sess.phase \in Streaming /\ ~Before(Reached, Target)
      BY <3>1, <3>2 DEF OrderInv, AheadOK, CursorPastBuf
    <3>4. QED
      BY <1>1, <1>2, <3>2, <3>3, ReachedStays
  <2>7. CursorPastBuf'
    BY <1>3, <2>5, <2>6 DEF CursorPastBuf
  <2>8. QED
    BY <2>4, <2>7
<1>6. QED
  BY <1>3, <1>4, <1>5, BufferKept, BufferNotRead DEF InBuf, Saves

LEMMA OrderInvInit == Init => OrderInv
<1>1. SUFFICES ASSUME Init PROVE AheadOK
  BY PlaceInvInit DEF OrderInv
<1>2. QED
  BY <1>1 DEF Init, MasterInit, NoSession, NoPos, Unset, Bare, InBuf, Streaming, AheadOK,
     RequestAhead, OpenAhead, CursorAhead, BufAhead, CursorPastBuf

LEMMA OrderInvStep ==
    ASSUME GeneratedCrc, {"query", "redis"} \intersect Faults = {}, OrderInv, [Next]_vars
    PROVE  OrderInv'
<1>1. PlaceInv'
  BY PlaceInvStep DEF OrderInv
<1>2. QED
  BY <1>1, RequestAheadStep, CursorAheadStep, BufAheadStep DEF OrderInv, AheadOK

\* No step moves the saved position back.
LEMMA SavedForward ==
    ASSUME OrderInv, [Next]_vars
    PROVE  ~Before(saved', saved)
<1>1. PlaceInv /\ TypeInv /\ AheadOK
  BY DEF OrderInv, PlaceInv, LossInv
<1>2. ~Before(saved, saved)
  BY <1>1, OrderPlaces DEF Before, Place
<1>3. QED
  BY <1>1, <1>2, TargetSaved DEF AheadOK, BufAhead

\* As long as queries and Redis commands succeed, the position in Redis never
\* moves back, over every loss of a session or a request, kill, restart and
\* purge: a session's opening ROTATE repeats the position it was requested at,
\* and that is never older than the saved one (packet.cc:129, business.cc:45).
THEOREM SavedNeverMovesBack ==
    ASSUME GeneratedCrc, {"query", "redis"} \intersect Faults = {}
    PROVE  Spec => SavedMonotone
<1>1. OrderInv /\ [Next]_vars => OrderInv'
  BY OrderInvStep
<1>2. OrderInv /\ [Next]_vars => [~Before(saved', saved)]_vars
  BY SavedForward
<1>3. QED
  BY OrderInvInit, <1>1, <1>2, PTL DEF Spec, SavedMonotone

(***************************************************************************)
(* Handing out.  The saved position separates what has been handed out     *)
(* from what the session still sends.                                      *)
(***************************************************************************)
RowsSaved == pc = "Rows" => saved = Target
DeliveredSaved == \A d \in delivered : Before(d, saved)
DeliveredBefore ==
    pc \in {"Parse", "Rows"} /\ InBuf({"ROWS"}) => \A d \in delivered : Before(d, At(buf))
\* The loop never reads from a dead session with an event in the buffer.
NothingStale ==
    pc \in {"Read", "Parse", "Rows"} =>
        sess.phase # "closed" \/ buf.flag # "ok" \/ buf.type = "SHORT"

DeliverInv ==
    OrderInv /\ RowsSaved /\ DeliveredSaved /\ DeliveredBefore /\ NothingStale

LEMMA BeforeToo ==
    ASSUME NEW p, NEW q, NEW r, Place(p), Place(q), Place(r), Before(p, q), ~Before(r, q)
    PROVE  Before(p, r)
  BY DEF Before, Place

\* The position is saved before the rows are parsed.
LEMMA RowsSavedStep ==
    ASSUME "redis" \notin Faults, DeliverInv, [Next]_vars
    PROVE  RowsSaved'
<1>1. PlaceInv /\ LossInv /\ TypeInv
  BY DEF DeliverInv, OrderInv, PlaceInv, LossInv
<1>2. CASE ParseRowMatched
  <2>1. InBuf({"ROWS"}) /\ SaveNextReqPos(NextAfter) /\ UNCHANGED buf
    BY <1>2 DEF ParseRowMatched, Parsing, InBuf
  <2>2. buf.file \in 1 .. Last /\ buf.pos \in Nat
    BY <1>1, <2>1, EndOfRows DEF TypeInv, TypeOK, Packets
  <2>3. buf.logPos = buf.pos + 1 /\ rotName = buf.file
    BY <1>1, <2>1 DEF LossInv, NamesOK, BufNameOK, PlaceInv, PlaceOK
  <2>4. NextAfter = Pos(buf.file, buf.pos + 1)
    BY <2>2, <2>3 DEF NextAfter, Pos
  <2>5. saved' = Pos(buf.file, buf.pos + 1)
    BY <2>1, <2>2, <2>4 DEF SaveNextReqPos, Pos
  <2>6. QED
    BY <2>1, <2>5 DEF RowsSaved, Target, InBuf
<1>3. CASE Server \/ UNCHANGED vars
  BY <1>1, <1>3, ServerStep DEF DeliverInv, RowsSaved, Target, At
<1>4. CASE pc' # "Rows"
  BY <1>4 DEF RowsSaved
<1>5. QED
  BY <1>2, <1>3, <1>4
     DEF Next, Process, Startup, Reading, Handling, Reconnecting, StartPosition,
         StartChecksum, StartFails, Request, RequestLost, Receive, ReceiveNothing,
         ParseOtherFlag, ParseError, ParseShort, ParseRotate, ParseFormat, ParseTablemap,
         ParseOther, ParseRowOrphan, ParseRowUnmatched, DeliverRows, ReconnectAtLatest,
         ReconnectAtSaved, Reconnected, ReconnectDies, ReconnectFails, Crash, Restart

\* What has been handed out, and where the row event in the buffer is.
LEMMA DeliveredPlaces ==
    ASSUME TypeInv
    PROVE  Place(At(buf)) /\ \A d \in delivered : Place(d)
  BY Places DEF TypeInv, TypeOK, EventIds, Files, Place, At

LEMMA OnlyRowsDelivered ==
    ASSUME [Next]_vars
    PROVE  UNCHANGED delivered \/ DeliverRows
  BY DEF Next, Server, Process, Startup, Reading, Handling, Reconnecting, StartPosition,
         StartChecksum, StartFails, Request, RequestLost, Receive, ReceiveNothing,
         ParseOtherFlag, ParseError, ParseShort, ParseRotate, ParseFormat, ParseTablemap,
         ParseOther, ParseRowOrphan, ParseRowUnmatched, ParseRowMatched, ReconnectAtLatest,
         ReconnectAtSaved, ReconnectDies, ReconnectFails, Crash, Restart, history, vars

LEMMA DeliveredSavedStep ==
    ASSUME DeliverInv, [Next]_vars
    PROVE  DeliveredSaved'
<1>1. OrderInv /\ TypeInv
  BY DEF DeliverInv, OrderInv, PlaceInv, LossInv
<1>2. Place(saved) /\ Place(saved') /\ Place(At(buf)) /\ \A d \in delivered : Place(d)
  <2>1. TypeInv'
    BY <1>1, TypeInvStep
  <2>2. Place(saved')
    BY <2>1 DEF TypeInv, TypeOK, Positions, Place
  <2>3. QED
    BY <1>1, <2>2, DeliveredPlaces, OrderPlaces
<1>3. ~Before(saved', saved)
  BY <1>1, SavedForward
<1>4. CASE UNCHANGED delivered
  BY <1>2, <1>3, <1>4, BeforeToo DEF DeliverInv, DeliveredSaved
<1>5. CASE DeliverRows
  <2>1. /\ pc = "Rows" /\ delivered' = delivered \union {At(buf)} /\ UNCHANGED saved
    BY <1>5 DEF DeliverRows
  <2>2. saved = Pos(buf.file, buf.pos + 1)
    BY <1>1, <2>1 DEF DeliverInv, RowsSaved, Target, TypeInv, RowsOK
  <2>3. Before(At(buf), saved)
    BY <1>2, <2>2 DEF Before, At, Pos, Place
  <2>4. QED
    BY <2>1, <2>3 DEF DeliverInv, DeliveredSaved
<1>6. QED
  BY <1>4, <1>5, OnlyRowsDelivered

\* Only a lost connection, of the session or of the request, leaves a session
\* closed.
LEMMA NothingStaleStep ==
    ASSUME "tcp" \notin Faults, DeliverInv, [Next]_vars
    PROVE  NothingStale'
<1>1. TypeInv /\ StartOK /\ NothingStale
  BY DEF DeliverInv, OrderInv, PlaceInv, LossInv, CrcInv
<1>2. sess \in [phase : Phases, file : Int, pos : Nat, aware : BOOLEAN]
  BY <1>1, SessFields
<1>3. CASE Server \/ UNCHANGED vars
  <2>1. UNCHANGED <<pc, buf>>
    BY <1>1, <1>3, ServerStep
  <2>2. UNCHANGED sess \/ sess'.phase = "eof"
    BY <1>2, <1>3
       DEF Server, MasterNext, Commit, RotateLog, RestartServer, PurgeLog, EndSession, vars,
           masterVars
  <2>3. QED
    BY <1>1, <2>1, <2>2 DEF NothingStale
<1>4. CASE Request
  BY <1>1, <1>4, Opened DEF NothingStale
<1>5. CASE RequestLost
  BY <1>1, <1>5 DEF RequestLost, StartOK, Starting, NothingStale, memory
<1>6. CASE Receive
  <2>1. CASE SendEnd(buf')
    BY <1>1, <1>6, <2>1, EndSent DEF NothingStale
  <2>2. CASE ~SendEnd(buf')
    BY <1>1, <1>6, <2>2, Received, OpeningSent, FormatSent, EventSent, SwitchSent
       DEF NothingStale
  <2>3. QED
    BY <2>1, <2>2
<1>7. CASE ReceiveNothing
  <2>1. UNCHANGED sess /\ pc = "Read" /\ (UNCHANGED buf \/ buf'.type = "SHORT")
    BY <1>7, BufferNotRead DEF ReceiveNothing, masterVars
  <2>2. QED
    BY <1>1, <2>1 DEF NothingStale
<1>8. CASE Handling
  BY <1>1, <1>8
     DEF Handling, ParseOtherFlag, ParseError, ParseShort, ParseRotate, ParseFormat,
         ParseTablemap, ParseOther, ParseRowOrphan, ParseRowUnmatched, ParseRowMatched,
         DeliverRows, Parsing, masterVars, memory, NothingStale
<1>9. CASE Startup \/ Reconnecting \/ Crash \/ Restart
  BY <1>9
     DEF Startup, StartPosition, StartChecksum, StartFails, Reconnecting, ReconnectAtLatest,
         ReconnectAtSaved, Reconnected, ReconnectDies, ReconnectFails, Crash, Restart,
         NothingStale
<1>10. QED
  BY <1>3, <1>4, <1>5, <1>6, <1>7, <1>8, <1>9 DEF Next, Process, Reading

LEMMA DeliveredBeforeStep ==
    ASSUME DeliverInv, [Next]_vars
    PROVE  DeliveredBefore'
<1>1. LossInv /\ TypeInv /\ DeliveredBefore /\ NothingStale
  BY DEF DeliverInv, OrderInv, PlaceInv, LossInv
<1>2. CASE Receive
  <2>1. SUFFICES ASSUME buf'.flag = "ok", buf'.type = "ROWS", NEW d \in delivered
                 PROVE  Before(d, At(buf)')
    BY <1>2, Received DEF DeliveredBefore, InBuf
  <2>2. SendEvent(buf')
    BY <1>1, <1>2, <2>1, Received, OpeningSent, FormatSent, SwitchSent, EndSent
  <2>3. /\ sess.phase \in Streaming /\ sess.file \in 1 .. Last
        /\ sess.pos \in 1 .. Len(binlog[sess.file].evs) /\ At(buf)' = At(sess)
    BY <1>1, <1>2, <2>1, <2>2, EventSent DEF Streaming, At
  <2>4. Len(binlog[sess.file].evs) \in Nat
    BY <1>1, <2>3, Bounds DEF TypeInv, LogOK
  <2>5. ~Before(At(sess), saved)
    BY <2>3, <2>4 DEF DeliverInv, OrderInv, AheadOK, CursorAhead, Reached, Turned, EndOf
  <2>6. Before(d, saved) /\ Place(d) /\ Place(saved) /\ Place(At(sess))
    BY <1>1, <2>1, DeliveredPlaces, OrderPlaces DEF DeliverInv, DeliveredSaved
  <2>7. QED
    BY <2>3, <2>5, <2>6, BeforeToo
<1>3. CASE ReceiveNothing
  <2>1. sess.phase = "closed" /\ pc = "Read"
    BY <1>3 DEF ReceiveNothing
  <2>2. ~InBuf({"ROWS"})
    BY <1>1, <2>1 DEF NothingStale, InBuf
  <2>3. ~InBuf({"ROWS"})'
    BY <1>3, <2>2, BufferNotRead DEF InBuf
  <2>4. QED
    BY <2>3 DEF DeliveredBefore
<1>4. CASE Server \/ UNCHANGED vars
  BY <1>1, <1>4, ServerStep DEF DeliveredBefore, InBuf, At
<1>5. CASE ParseRowMatched
  BY <1>1, <1>5 DEF ParseRowMatched, Parsing, history, DeliveredBefore, InBuf, At
<1>6. CASE pc' \notin {"Parse", "Rows"}
  BY <1>6 DEF DeliveredBefore
<1>7. QED
  BY <1>2, <1>3, <1>4, <1>5, <1>6
     DEF Next, Process, Startup, Reading, Handling, Reconnecting, StartPosition,
         StartChecksum, StartFails, Request, RequestLost, ParseOtherFlag, ParseError,
         ParseShort, ParseRotate, ParseFormat, ParseTablemap, ParseOther, ParseRowOrphan,
         ParseRowUnmatched, DeliverRows, ReconnectAtLatest, ReconnectAtSaved, Reconnected,
         ReconnectDies, ReconnectFails, Crash, Restart

LEMMA DeliverInvInit == Init => DeliverInv
<1>1. SUFFICES ASSUME Init PROVE RowsSaved /\ DeliveredSaved /\ DeliveredBefore /\ NothingStale
  BY OrderInvInit DEF DeliverInv
<1>2. QED
  BY <1>1 DEF Init, RowsSaved, DeliveredSaved, DeliveredBefore, NothingStale

LEMMA DeliverInvStep ==
    ASSUME GeneratedCrc, {"query", "redis", "tcp"} \intersect Faults = {}, DeliverInv, [Next]_vars
    PROVE  DeliverInv'
<1>1. OrderInv'
  BY OrderInvStep DEF DeliverInv
<1>2. QED
  BY <1>1, RowsSavedStep, DeliveredSavedStep, DeliveredBeforeStep, NothingStaleStep
     DEF DeliverInv

\* As long as connections, queries and Redis commands keep their word, rows
\* are handed out in log order and never twice, over any sequence of sessions
\* ended by the server, lost requests, kills, restarts and purges: every row
\* event handed out so far lies before the one being handed out, because the
\* position is saved before the rows are parsed (packet.cc:209).
THEOREM DeliversOnlyForward ==
    ASSUME GeneratedCrc, {"query", "redis", "tcp"} \intersect Faults = {}
    PROVE  Spec => DeliversForward
<1>1. DeliverInv /\ [Next]_vars => DeliverInv'
  BY DeliverInvStep
<1>2. DeliverInv => (pc = "Rows" => \A d \in delivered : Before(d, At(buf)))
  BY DEF DeliverInv, DeliveredBefore, OrderInv, PlaceInv, LossInv, TypeInv, RowsOK, InBuf
<1>3. DeliverInv /\ [Next]_vars =>
        [pc = "Rows" /\ pc' = "Read" => \A d \in delivered : Before(d, At(buf))]_vars
  BY <1>2
<1>4. QED
  BY DeliverInvInit, <1>1, <1>3, PTL DEF Spec, DeliversForward
=============================================================================
