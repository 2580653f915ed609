----------------------------- MODULE LossProofs -----------------------------
(***************************************************************************)
(* No row event is lost: NothingLost of Subscriber, for every value of its *)
(* constants and every fault they allow.                                   *)
(*                                                                         *)
(* The argument follows one idea through the program.  A position is       *)
(* passed when every matching row event before it has been accounted for;  *)
(* the positions the program holds, in Redis, in its next request, in the  *)
(* session's cursor and in a ROTATE packet, all are.                       *)
(***************************************************************************)
EXTENDS SubscriberProofs

Pending == MatchingRows \ Accounted

\* Nothing pending lies before p, except what is in but, and p is in the log.
PassedIn(latest, pending, p, but) ==
    /\ ~Before(latest, p)
    /\ \A e \in pending : Before(e, p) => e \in but
Passed(p, but) == PassedIn(Latest, Pending, p, but)

InBuf(types) == buf.flag = "ok" /\ buf.type \in types

\* The row event a saved position, or the cursor, may be ahead of.
BeingHandedOut == IF pc = "Rows" THEN {At(buf)} ELSE {}
BeingHandled == IF pc \in {"Parse", "Rows"} /\ InBuf({"ROWS"}) THEN {At(buf)} ELSE {}

\* Known table ids stand for the tables they have in file f.
Agrees(f) == \A t \in Tids : tm[t].def \in {NoTable, TableOf[f][t]}

\* A ROTATE event is the last of its file, and a file follows it.
RotatesLast ==
    \A f \in 1 .. Last : \A k \in 1 .. Len(binlog[f].evs) :
        binlog[f].evs[k].type = "ROTATE" => k = Len(binlog[f].evs) /\ f < Last

\* The session has sent its file's ROTATE event.
Turned ==
    /\ sess.pos = EndOf(sess.file)
    /\ binlog[sess.file].evs[sess.pos - 1].type = "ROTATE"

ReqPassed == Passed(req, {})
SavedPassed == Passed(saved, BeingHandedOut)
CursorPassed == sess.phase \in Streaming => Passed(At(sess), BeingHandled)
BufPassed == InBuf({"ROWS", "ROTATE"}) => Passed(At(buf), {})

\* The file name the parser goes by is that of the file it is in.
NameOK ==
    sess.phase \in {"format", "events"} /\ ~Turned =>
        (IF pc = "Parse" /\ InBuf({"ROTATE"}) THEN buf.file ELSE rotName)
            \in {sess.file, Garbled}
BufNameOK ==
    InBuf({"ROWS"}) => buf.logPos = buf.pos + 1 /\ rotName \in {buf.file, Garbled}

\* The table maps are those of the file the session and the buffer are in.
MapsOK ==
    sess.phase = "events" /\ sess.pos > 1 =>
        (pc = "Parse" /\ InBuf({"FORMAT"})) \/ Agrees(sess.file)
BufMapsOK ==
    /\ InBuf({"ROWS", "TABLEMAP"}) => Agrees(buf.file)
    /\ pc = "Parse" /\ sess.phase = "events" /\ InBuf({"TABLEMAP"}) => buf.file = sess.file

PositionsOK == ReqPassed /\ SavedPassed /\ CursorPassed /\ BufPassed
NamesOK == NameOK /\ BufNameOK
AllMapsOK == MapsOK /\ BufMapsOK
LossInv == TypeInv /\ RotatesLast /\ PositionsOK /\ NamesOK /\ AllMapsOK

(***************************************************************************)
(* The log: only its last file changes.                                    *)
(***************************************************************************)
LogStays == \A f \in 1 .. Last : f < Last => binlog'[f] = binlog[f]

\* The events of a transaction that extends a file hold no ROTATE.
LEMMA ExtendedHasNoRotate ==
    ASSUME LogOK, RotatesLast, NEW txn \in Txns
    PROVE  LET evs == Extended(Last, txn).evs
           IN  \A k \in 1 .. Len(evs) : evs[k].type # "ROTATE"
<1> DEFINE old == binlog[Last].evs
<1>1. Last \in 1 .. Last /\ Last \in Nat
  BY Bounds DEF LogOK
<1>2. binlog[Last] \in LogFiles
  BY Bounds DEF LogOK, Last
<1>3. old \in Seq(Events)
  BY <1>2 DEF LogFiles
<1>4. \A k \in 1 .. Len(old) : old[k].type # "ROTATE"
  BY <1>1 DEF RotatesLast
<1>5. txn \in Seq(TxnEvents)
  BY TxnsAssumption DEF TxnsAssumption
<1>6. \A k \in 1 .. Len(txn) : txn[k].type # "ROTATE"
  BY <1>5 DEF TxnEvents
<1>7. Extended(Last, txn).evs = old \o txn
  BY DEF Extended
<1> HIDE DEF old
<1>8. \A k \in 1 .. Len(old \o txn) :
         \/ k \in 1 .. Len(old) /\ (old \o txn)[k] = old[k]
         \/ k - Len(old) \in 1 .. Len(txn) /\ (old \o txn)[k] = txn[k - Len(old)]
  BY <1>3, <1>5
<1>9. QED
  BY <1>4, <1>6, <1>7, <1>8

\* A step keeps ROTATE events where they belong, and finished files as they are.
LEMMA LogShape ==
    ASSUME LogOK, RotatesLast, [Next]_vars
    PROVE  RotatesLast' /\ LogStays
<1>1. Last \in Nat \ {0} /\ Last = Len(binlog) /\ binlog \in Seq(LogFiles)
  BY Bounds DEF LogOK, Last
<1>2. CASE \E txn \in Txns : Commit(txn)
  <2>1. PICK txn \in Txns : Commit(txn)
    BY <1>2
  <2> DEFINE file == Extended(Last, txn)
  <2>2. binlog' = [binlog EXCEPT ![Last] = file]
    BY <2>1 DEF Commit
  <2>3. \A k \in 1 .. Len(file.evs) : file.evs[k].type # "ROTATE"
    BY ExtendedHasNoRotate
  <2> HIDE DEF file
  <2>4. /\ Last' = Last
        /\ \A f \in 1 .. Last : f # Last => binlog'[f] = binlog[f]
        /\ binlog'[Last] = file
    BY <1>1, <2>2 DEF Last
  <2>5. RotatesLast'
    BY <1>1, <2>3, <2>4 DEF RotatesLast
  <2>6. QED
    BY <1>1, <2>4, <2>5 DEF LogStays
<1>3. CASE \E crc \in Crcs : RotateLog(crc)
  <2>1. PICK crc \in Crcs : RotateLog(crc)
    BY <1>3
  <2> DEFINE rotate == Event("ROTATE", NoTid)
             old == binlog[Last].evs
             file == Extended(Last, <<rotate>>)
             new == NewFile(crc)
  <2>2. binlog' = Append([binlog EXCEPT ![Last] = file], new)
    BY <2>1 DEF RotateLog
  <2>3. Len(new.evs) = 1 /\ new.evs[1].type = "FORMAT"
    BY DEF NewFile, FirstEvent, Event
  <2>4. old \in Seq(Events)
    <3>1. binlog[Last] \in LogFiles
      BY <1>1
    <3>2. QED
      BY <3>1 DEF LogFiles
  <2>5. \A k \in 1 .. Len(old) : old[k].type # "ROTATE"
    BY <1>1 DEF RotatesLast
  <2>6. file.evs = old \o <<rotate>>
    BY DEF Extended
  <2> HIDE DEF old, file, new, rotate
  <2>7. \A k \in 1 .. Len(file.evs) : file.evs[k].type = "ROTATE" => k = Len(file.evs)
    BY <2>4, <2>5, <2>6
  <2>8. /\ Last' = Last + 1
        /\ \A f \in 1 .. Last : f # Last => binlog'[f] = binlog[f]
        /\ binlog'[Last] = file
        /\ binlog'[Last + 1] = new
    BY <1>1, <2>2 DEF Last
  <2>9. RotatesLast'
    <3>1. SUFFICES ASSUME NEW f \in 1 .. Last', NEW k \in 1 .. Len(binlog'[f].evs),
                          binlog'[f].evs[k].type = "ROTATE"
                   PROVE  k = Len(binlog'[f].evs) /\ f < Last'
      BY DEF RotatesLast
    <3>2. CASE f \in 1 .. Last /\ f # Last
      BY <1>1, <2>8, <3>1, <3>2 DEF RotatesLast
    <3>3. CASE f = Last
      BY <1>1, <2>7, <2>8, <3>1, <3>3
    <3>4. CASE f = Last + 1
      <4>1. binlog'[f] = new
        BY <2>8, <3>4
      <4>2. k = 1
        BY <2>3, <3>1, <4>1
      <4>3. QED
        BY <2>3, <3>1, <4>1, <4>2
    <3>5. QED
      BY <1>1, <2>8, <3>2, <3>3, <3>4
  <2>10. QED
    BY <1>1, <2>8, <2>9 DEF LogStays
<1>4. CASE \E crc \in Crcs : RestartServer(crc)
  <2>1. PICK crc \in Crcs : RestartServer(crc)
    BY <1>4
  <2> DEFINE new == NewFile(crc)
  <2>2. binlog' = Append(binlog, new)
    BY <2>1 DEF RestartServer
  <2>3. Len(new.evs) = 1 /\ new.evs[1].type = "FORMAT"
    BY DEF NewFile, FirstEvent, Event
  <2> HIDE DEF new
  <2>4. /\ Last' = Last + 1
        /\ \A f \in 1 .. Last : binlog'[f] = binlog[f]
        /\ binlog'[Last + 1] = new
    BY <1>1, <2>2 DEF Last
  <2>5. \A k \in 1 .. Len(binlog'[Last + 1].evs) : binlog'[Last + 1].evs[k].type # "ROTATE"
    BY <2>3, <2>4
  <2>6. \A f \in 1 .. Last' : f \in 1 .. Last \/ f = Last + 1
    BY <1>1, <2>4
  <2>7. RotatesLast'
    BY <1>1, <2>4, <2>5, <2>6 DEF RotatesLast
  <2>8. QED
    BY <1>1, <2>4, <2>7 DEF LogStays
<1>5. CASE UNCHANGED binlog
  BY <1>1, <1>5 DEF RotatesLast, LogStays, Last
<1>6. QED
  BY <1>2, <1>3, <1>4, <1>5
     DEF Next, Server, MasterNext, PurgeLog, EndSession, Process, Startup, Reading, Handling,
         Reconnecting, StartPosition, StartChecksum, StartFails, Request, RequestLost, Receive,
         Send, ReceiveNothing, ParseOtherFlag, ParseError, ParseShort, ParseRotate,
         ParseFormat, ParseTablemap, ParseOther, ParseRowOrphan, ParseRowUnmatched,
         ParseRowMatched, DeliverRows, ReconnectAtLatest, ReconnectAtSaved, ReconnectDies,
         ReconnectFails, Crash, Restart, vars, masterVars

(***************************************************************************)
(* Positions that are passed stay passed.                                  *)
(***************************************************************************)
\* Nothing is ever taken off the account.
LEMMA AccountGrows ==
    ASSUME [Next]_vars
    PROVE  Accounted \subseteq Accounted'
<1>1. CASE UNCHANGED history
  BY <1>1 DEF history, Accounted
<1>2. CASE \/ StartPosition \/ ParseRowOrphan \/ DeliverRows
           \/ ReconnectAtLatest \/ Crash
  BY <1>2 DEF StartPosition, JumpToLatest, ParseRowOrphan, DeliverRows,
              ReconnectAtLatest, Crash, history, Accounted
<1>3. QED
  BY <1>1, <1>2
     DEF Next, Server, Process, Startup, Reading, Handling, Reconnecting, StartChecksum,
         StartFails, Request, RequestLost, Receive, ReceiveNothing, ParseOtherFlag, ParseError,
         ParseShort, ParseRotate, ParseFormat, ParseTablemap, ParseOther, ParseRowUnmatched,
         ParseRowMatched, ReconnectAtSaved, ReconnectDies, ReconnectFails, Restart, vars

\* Events and positions are places in a file.
Place(p) == p.file \in Int /\ p.pos \in Int

\* An event becomes pending only by being committed behind the end of the log.
LEMMA PendingStep ==
    ASSUME TypeInv, RotatesLast, [Next]_vars
    PROVE  /\ \A e \in Pending' : e \in Pending \/ ~Before(e, Latest)
           /\ ~Before(Latest', Latest)
           /\ Place(Latest') /\ \A e \in Pending' : Place(e)
<1>1. LogOK /\ LogOK' /\ LogGrows /\ LogStays
  BY LogStep, LogShape DEF TypeInv
<1>2. Accounted \subseteq Accounted'
  BY AccountGrows
<1>3. /\ Last \in Nat /\ Last' \in Nat /\ Last >= 1 /\ Last <= Last'
      /\ Len(binlog[Last].evs) \in Nat /\ Len(binlog'[Last].evs) \in Nat
      /\ Len(binlog[Last].evs) <= Len(binlog'[Last].evs)
  <2>1. Last \in Nat /\ Last' \in Nat /\ Last >= 1 /\ Last <= Last'
    BY <1>1, Bounds DEF LogOK, LogGrows, Last
  <2>2. Last \in 1 .. Last /\ Last \in 1 .. Last'
    BY <2>1
  <2>3. Len(binlog[Last].evs) \in 1 .. MaxLen + 1
    BY <1>1, <2>2 DEF LogOK
  <2>4. Len(binlog'[Last].evs) \in 1 .. MaxLen + 1
    BY <1>1, <2>2 DEF LogOK
  <2>5. Len(binlog[Last].evs) <= Len(binlog'[Last].evs)
    BY <1>1, <2>2 DEF LogGrows
  <2>6. QED
    BY <2>1, <2>3, <2>4, <2>5, Bounds
<1>4. ~Before(Latest', Latest)
  BY <1>3 DEF Before, Latest, EndOf
<1>5. ASSUME NEW e \in Pending', e \notin Pending PROVE ~Before(e, Latest)
  <2>1. /\ e \in EventIds /\ IsEvent(e)'
        /\ EventAt(e)'.type = "ROWS"
        /\ TableOf[e.file][EventAt(e)'.tid] \in Matched
        /\ e \notin Accounted'
    BY <1>5 DEF Pending, MatchingRows
  <2>2. e.file \in Nat /\ e.pos \in Nat /\ e.file >= 1 /\ e.pos >= 1
    BY <2>1, Bounds DEF EventIds, Files
  <2>3. ~IsEvent(e)
    <3>1. SUFFICES ASSUME IsEvent(e) PROVE FALSE
      OBVIOUS
    <3>2. EventAt(e)' = EventAt(e)
      BY <1>1, <2>2, <3>1, EventStays
    <3>3. e \in MatchingRows
      BY <2>1, <3>1, <3>2 DEF MatchingRows
    <3>4. QED
      BY <1>2, <1>5, <2>1, <3>3 DEF Pending
  <2>4. SUFFICES ASSUME Before(e, Latest) PROVE FALSE
    OBVIOUS
  <2>5. CASE e.file < Last
    <3>1. e.file \in 1 .. Last /\ binlog'[e.file] = binlog[e.file]
      BY <1>1, <1>3, <2>2, <2>5 DEF LogStays
    <3>2. QED
      BY <2>1, <2>3, <3>1 DEF IsEvent
  <2>6. CASE e.file = Last /\ e.pos < EndOf(Last)
    BY <1>3, <2>2, <2>3, <2>6 DEF IsEvent, EndOf
  <2>7. QED
    BY <2>4, <2>5, <2>6 DEF Before, Latest
<1>6. Place(Latest')
  <2>1. Last' \in 1 .. Last' /\ Len(binlog'[Last'].evs) \in 1 .. MaxLen + 1
    BY <1>1, <1>3 DEF LogOK
  <2>2. QED
    BY <1>3, <2>1, Bounds DEF Place, Latest, EndOf
<1>7. \A e \in Pending' : Place(e)
  BY Bounds DEF Pending, MatchingRows, EventIds, Files, Place
<1>8. QED
  BY <1>4, <1>5, <1>6, <1>7

\* The positions of the program are places, and events lie in files from 1 on.
LEMMA Places ==
    ASSUME TypeInv
    PROVE  /\ Place(Latest) /\ Place(req) /\ Place(saved) /\ Place(buf) /\ Place(sess)
           /\ Latest.file >= 1 /\ Latest.pos >= 1
           /\ \A e \in Pending : Place(e) /\ e.file >= 1 /\ e.pos >= 1
<1>1. Last \in 1 .. Last /\ Last \in Nat
  BY Bounds DEF TypeInv, LogOK
<1>2. Len(binlog[Last].evs) \in Nat /\ EndOf(Last) \in Nat /\ EndOf(Last) >= 1
  BY <1>1, LogFacts, Bounds DEF TypeInv, EndOf
<1>3. Place(Latest) /\ Latest.file >= 1 /\ Latest.pos >= 1
  BY <1>1, <1>2 DEF Latest, Place
<1>4. Place(req) /\ Place(saved) /\ Place(buf) /\ Place(sess)
  BY DEF TypeInv, TypeOK, MasterTypeOK, Positions, Packets, Place
<1>5. \A e \in Pending : Place(e) /\ e.file >= 1 /\ e.pos >= 1
  BY Bounds DEF Pending, MatchingRows, EventIds, Files, Place
<1>6. QED
  BY <1>3, <1>4, <1>5

\* A position that is passed stays so.
LEMMA PassedStays ==
    ASSUME TypeInv, RotatesLast, [Next]_vars, NEW p, Place(p), NEW but,
           PassedIn(Latest, Pending, p, but)
    PROVE  PassedIn(Latest', Pending', p, but)
<1>1. Place(Latest) /\ Place(Latest') /\ \A e \in Pending' : Place(e)
  BY Places, PendingStep
<1>2. /\ \A e \in Pending' : e \in Pending \/ ~Before(e, Latest)
      /\ ~Before(Latest', Latest)
  BY PendingStep
<1>3. ~Before(Latest', p)
  BY <1>1, <1>2 DEF PassedIn, Before, Place
<1>4. \A e \in Pending' : Before(e, p) => e \in but
  BY <1>1, <1>2 DEF PassedIn, Before, Place
<1>5. QED
  BY <1>3, <1>4 DEF PassedIn

\* Fewer exceptions are stronger.
LEMMA PassedWeaker ==
    ASSUME NEW latest, NEW pending, NEW p, NEW but, PassedIn(latest, pending, p, {})
    PROVE  PassedIn(latest, pending, p, but)
  BY DEF PassedIn

\* What is passed but for an event is passed once the event is accounted for.
LEMMA PassedNow ==
    ASSUME NEW latest, NEW pending, NEW p, NEW b,
           PassedIn(latest, pending, p, {b}), b \notin pending
    PROVE  PassedIn(latest, pending, p, {})
  BY DEF PassedIn

\* A position before the first file is passed.
LEMMA PassedAtStart ==
    ASSUME TypeInv, NEW p, Place(p), p.file < 1
    PROVE  PassedIn(Latest, Pending, p, {})
  BY Places DEF PassedIn, Before, Place

\* A position in the log is passed once what lies before it has been skipped.
LEMMA PassedBySkipping ==
    ASSUME [Next]_vars, UNCHANGED binlog, NEW p, ~Before(Latest, p),
           LeftBehind(p) \subseteq jumped'
    PROVE  PassedIn(Latest', Pending', p, {})
<1>1. Latest' = Latest /\ MatchingRows' = MatchingRows
  BY DEF Latest, EndOf, Last, MatchingRows, IsEvent, EventAt
<1>2. Accounted \subseteq Accounted' /\ jumped' \subseteq Accounted'
  BY AccountGrows DEF Accounted
<1>3. \A e \in Pending' : ~Before(e, p)
  BY <1>1, <1>2 DEF Pending, LeftBehind
<1>4. QED
  BY <1>1, <1>3 DEF PassedIn

(***************************************************************************)
(* How the session's cursor moves through the log.                         *)
(***************************************************************************)
Pos(f, k) == [file |-> f, pos |-> k]

\* A place up to the end of a file is in the log.
LEMMA InTheLog ==
    ASSUME TypeInv, NEW f \in 1 .. Last, NEW k \in 1 .. EndOf(f)
    PROVE  Place(Pos(f, k)) /\ ~Before(Latest, Pos(f, k))
<1>1. Last \in Nat /\ f \in Nat
  BY Bounds DEF TypeInv, LogOK
<1>2. EndOf(f) \in Nat
  BY LogFacts DEF TypeInv
<1>3. QED
  BY <1>1, <1>2 DEF Pos, Place, Before, Latest

\* Past an event nothing is pending but that event, and only a row event is.
LEMMA CursorPastEvent ==
    ASSUME TypeInv, NEW f \in 1 .. Last, NEW k \in 1 .. Len(binlog[f].evs),
           PassedIn(Latest, Pending, Pos(f, k), {})
    PROVE  /\ PassedIn(Latest, Pending, Pos(f, k + 1), {Pos(f, k)})
           /\ binlog[f].evs[k].type # "ROWS" => PassedIn(Latest, Pending, Pos(f, k + 1), {})
<1>1. Len(binlog[f].evs) \in Nat /\ k + 1 \in 1 .. EndOf(f) /\ f \in Int /\ k \in Int
  <2>1. Len(binlog[f].evs) \in 1 .. MaxLen + 1
    BY DEF TypeInv, LogOK
  <2>2. QED
    BY <2>1, Bounds DEF EndOf
<1>2. ~Before(Latest, Pos(f, k + 1))
  BY <1>1, InTheLog
<1>3. \A e \in Pending : Place(e) /\ e \in [file : Files, pos : 1 .. MaxLen + 1]
  BY Places DEF Pending, MatchingRows, EventIds
<1>4. \A e \in Pending : Before(e, Pos(f, k + 1)) => e = Pos(f, k)
  <2>1. SUFFICES ASSUME NEW e \in Pending, Before(e, Pos(f, k + 1)) PROVE e = Pos(f, k)
    OBVIOUS
  <2>2. ~Before(e, Pos(f, k))
    BY DEF PassedIn
  <2>3. e.file = f /\ e.pos = k
    BY <1>1, <1>3, <2>1, <2>2 DEF Before, Pos, Place
  <2>4. QED
    BY <1>3, <2>3 DEF Pos
<1>5. Pos(f, k) \in Pending => binlog[f].evs[k].type = "ROWS"
  BY DEF Pending, MatchingRows, EventAt, Pos
<1>6. QED
  BY <1>2, <1>4, <1>5 DEF PassedIn

\* Between the end of a file and the start of the next one there is nothing.
LEMMA CursorToNextFile ==
    ASSUME TypeInv, NEW f \in 1 .. Last, f < Last,
           PassedIn(Latest, Pending, Pos(f, EndOf(f)), {})
    PROVE  PassedIn(Latest, Pending, Pos(f + 1, 1), {})
<1>1. f + 1 \in 1 .. Last /\ f \in Nat
  BY Bounds DEF TypeInv, LogOK
<1>2. 1 \in 1 .. EndOf(f + 1) /\ EndOf(f) \in Nat /\ Len(binlog[f].evs) \in Nat
  <2>1. Len(binlog[f + 1].evs) \in 1 .. MaxLen + 1 /\ Len(binlog[f].evs) \in 1 .. MaxLen + 1
    BY <1>1 DEF TypeInv, LogOK
  <2>2. QED
    BY <2>1, Bounds DEF EndOf
<1>3. ~Before(Latest, Pos(f + 1, 1))
  BY <1>1, <1>2, InTheLog
<1>4. ASSUME NEW e \in Pending PROVE ~Before(e, Pos(f + 1, 1))
  <2>1. /\ Place(e) /\ e.file >= 1 /\ e.pos >= 1
        /\ e.pos \in 1 .. Len(binlog[e.file].evs)
        /\ ~Before(e, Pos(f, EndOf(f)))
    BY Places DEF Pending, MatchingRows, IsEvent, PassedIn
  <2>2. e.file # f
    BY <1>2, <2>1 DEF Before, Pos, EndOf
  <2>3. QED
    BY <1>1, <2>1, <2>2 DEF Before, Pos, Place
<1>5. QED
  BY <1>3, <1>4 DEF PassedIn

\* Receiving a packet: the buffer and the cursor stay passed, the file name
\* and the table maps stay those of the session's file.
LEMMA ReceiveKeeps ==
    ASSUME LossInv, Receive
    PROVE  PositionsOK' /\ NamesOK' /\ AllMapsOK'
<1>1. /\ pc = "Read" /\ pc' = "Parse" /\ Send(buf')
      /\ UNCHANGED <<binlog, req, rotName, tm, saved, history>>
  BY DEF Receive, Send
<1>2. /\ Latest' = Latest /\ Pending' = Pending /\ Last' = Last
      /\ \A f : EndOf(f)' = EndOf(f)
  BY <1>1 DEF Latest, EndOf, Last, Pending, MatchingRows, IsEvent, EventAt, Accounted, history
<1>3. TypeInv /\ sess.file \in Int /\ sess.pos \in Nat
  BY DEF LossInv, TypeInv, TypeOK, MasterTypeOK
<1>4. ReqPassed' /\ SavedPassed'
  BY <1>1, <1>2
     DEF LossInv, PositionsOK, ReqPassed, SavedPassed, BeingHandedOut, Passed
<1>5. sess.phase \in Streaming =>
        /\ sess.file \in 1 .. Last /\ sess.pos \in 1 .. EndOf(sess.file)
        /\ PassedIn(Latest, Pending, Pos(sess.file, sess.pos), {})
  BY <1>1
     DEF LossInv, TypeInv, SessOK, PositionsOK, CursorPassed, BeingHandled, Passed, At, Pos
<1> SUFFICES CursorPassed' /\ BufPassed' /\ NamesOK' /\ AllMapsOK'
  BY <1>4 DEF PositionsOK
<1>6. CASE SendOpening(buf')
  <2>1. /\ sess.phase = "open"
        /\ buf' = Packet("ROTATE", NoTid, sess.file, sess.pos, 0, FALSE)
        /\ sess' = [sess EXCEPT !.phase =
                        PhaseFor(sess.file, IF sess.pos = 1 THEN "events" ELSE "format")]
    BY <1>6 DEF SendOpening
  <2>2. /\ sess'.file = sess.file /\ sess'.pos = sess.pos
        /\ sess'.phase = "events" => sess.pos = 1
        /\ buf'.type = "ROTATE" /\ buf'.flag = "ok"
        /\ buf'.file = sess.file /\ buf'.pos = sess.pos
    BY <1>3, <2>1 DEF TypeInv, TypeOK, MasterTypeOK, PhaseFor, Packet
  <2>3. PassedIn(Latest', Pending', Pos(sess.file, sess.pos), {})
    BY <1>2, <1>5, <2>1 DEF Streaming
  <2>4. CursorPassed' /\ BufPassed'
    BY <1>1, <2>2, <2>3
       DEF CursorPassed, BufPassed, BeingHandled, InBuf, Passed, At, Pos
  <2>5. NamesOK' /\ AllMapsOK'
    BY <1>1, <2>2 DEF NamesOK, NameOK, BufNameOK, AllMapsOK, MapsOK, BufMapsOK, InBuf
  <2>6. QED
    BY <2>4, <2>5
<1>7. CASE SendFormat(buf')
  <2>1. /\ sess.phase = "format"
        /\ buf' = Packet("FORMAT", NoTid, sess.file, 1, 0, binlog[sess.file].crc)
        /\ sess' = [sess EXCEPT !.phase = "events"]
    BY <1>7 DEF SendFormat
  <2>2. /\ sess'.file = sess.file /\ sess'.pos = sess.pos
        /\ buf'.type = "FORMAT" /\ buf'.flag = "ok"
    BY <1>3, <2>1 DEF TypeInv, TypeOK, MasterTypeOK, Packet
  <2>3. PassedIn(Latest', Pending', Pos(sess.file, sess.pos), {})
    BY <1>2, <1>5, <2>1 DEF Streaming
  <2>4. CursorPassed' /\ BufPassed'
    BY <1>1, <2>2, <2>3
       DEF CursorPassed, BufPassed, BeingHandled, InBuf, Passed, At, Pos
  <2>5. Turned' = Turned
    BY <1>1, <2>2 DEF Turned, EndOf
  <2>6. NamesOK' /\ AllMapsOK'
    BY <1>1, <2>1, <2>2, <2>5
       DEF LossInv, NamesOK, NameOK, BufNameOK, AllMapsOK, MapsOK, BufMapsOK, InBuf
  <2>7. QED
    BY <2>4, <2>6
<1>8. CASE SendEvent(buf')
  <2>1. PICK f \in 1 .. Last, k \in Nat :
           /\ f = sess.file /\ k = sess.pos
           /\ k \in 1 .. Len(binlog[f].evs)
           /\ PassedIn(Latest, Pending, Pos(f, k), {})
    <3>1. sess.phase = "events" /\ sess.pos < EndOf(sess.file)
      BY <1>8 DEF SendEvent
    <3>2. /\ sess.file \in 1 .. Last /\ sess.pos \in 1 .. EndOf(sess.file)
          /\ PassedIn(Latest, Pending, Pos(sess.file, sess.pos), {})
      BY <1>5, <3>1 DEF Streaming
    <3>3. Len(binlog[sess.file].evs) \in Nat
      BY <3>2, Bounds DEF LossInv, TypeInv, LogOK
    <3>4. sess.pos \in 1 .. Len(binlog[sess.file].evs)
      BY <3>1, <3>2, <3>3 DEF EndOf
    <3>5. QED
      BY <3>2, <3>4
  <2> DEFINE e == binlog[f].evs[k]
             crc == binlog[f].crc
  <2>2. /\ sess.phase = "events" /\ k < EndOf(f)
        /\ sess' = [sess EXCEPT !.pos = @ + 1]
        /\ buf' = IF e.type = "ROTATE"
                  THEN Packet("ROTATE", NoTid, f + 1, 1, k + 1, crc)
                  ELSE Packet(e.type, e.tid, f, k, k + 1, crc)
    BY <1>8, <2>1 DEF SendEvent
  <2>3. sess'.file = f /\ sess'.pos = k + 1 /\ sess'.phase = "events"
    BY <1>3, <2>1, <2>2 DEF TypeInv, TypeOK, MasterTypeOK
  <2>4. /\ PassedIn(Latest, Pending, Pos(f, k + 1), {Pos(f, k)})
        /\ e.type # "ROWS" => PassedIn(Latest, Pending, Pos(f, k + 1), {})
    BY <1>3, <2>1, CursorPastEvent
  <2>5. e.type # "FORMAT" => Agrees(f)
    <3>1. CASE k = 1
      BY <3>1 DEF LossInv, TypeInv, LogOK, FirstEvent, Event
    <3>2. CASE k # 1
      BY <1>1, <2>1, <2>2, <3>2 DEF LossInv, AllMapsOK, MapsOK
    <3>3. QED
      BY <3>1, <3>2
  <2>6. rotName \in {f, Garbled}
    BY <1>1, <2>1, <2>2 DEF LossInv, NamesOK, NameOK, Turned
  <2>7. CASE e.type = "ROTATE"
    <3>1. k = Len(binlog[f].evs) /\ f < Last
      BY <2>1, <2>7 DEF LossInv, RotatesLast
    <3>2. PassedIn(Latest, Pending, Pos(f + 1, 1), {})
      BY <1>3, <2>4, <2>7, <3>1, CursorToNextFile DEF EndOf
    <3>3. /\ buf'.type = "ROTATE" /\ buf'.flag = "ok"
          /\ buf'.file = f + 1 /\ buf'.pos = 1
      BY <2>2, <2>7 DEF Packet
    <3>4. CursorPassed' /\ BufPassed'
      BY <1>1, <1>2, <2>3, <2>4, <2>7, <3>2, <3>3
         DEF CursorPassed, BufPassed, BeingHandled, InBuf, Passed, At, Pos
    <3>5. Turned'
      <4>1. k + 1 - 1 = k
        OBVIOUS
      <4>2. QED
        BY <1>1, <2>3, <2>7, <3>1, <4>1 DEF Turned, EndOf
    <3>6. NamesOK' /\ AllMapsOK'
      BY <1>1, <2>3, <2>5, <2>7, <3>3, <3>5
         DEF NamesOK, NameOK, BufNameOK, AllMapsOK, MapsOK, BufMapsOK, InBuf, Agrees
    <3>7. QED
      BY <3>4, <3>6
  <2>8. CASE e.type # "ROTATE"
    <3>1. /\ buf'.type = e.type /\ buf'.flag = "ok"
          /\ buf'.file = f /\ buf'.pos = k /\ buf'.logPos = k + 1
      BY <2>2, <2>8 DEF Packet
    <3> HIDE DEF e
    <3>2. CursorPassed' /\ BufPassed'
      BY <1>1, <1>2, <2>1, <2>3, <2>4, <2>8, <3>1
         DEF CursorPassed, BufPassed, BeingHandled, InBuf, Passed, At, Pos
    <3>3. NamesOK' /\ AllMapsOK'
      BY <1>1, <2>3, <2>5, <2>6, <2>8, <3>1
         DEF NamesOK, NameOK, BufNameOK, AllMapsOK, MapsOK, BufMapsOK, InBuf, Agrees
    <3>4. QED
      BY <3>2, <3>3
  <2>9. QED
    BY <2>7, <2>8
<1>9. CASE SendSwitch(buf')
  <2>1. PICK f \in 1 .. Last :
           /\ f = sess.file /\ f < Last
           /\ PassedIn(Latest, Pending, Pos(f, EndOf(f)), {})
    BY <1>5, <1>9 DEF SendSwitch, Streaming
  <2>2. PassedIn(Latest, Pending, Pos(f + 1, 1), {})
    BY <1>3, <2>1, CursorToNextFile
  <2>3. /\ sess'.file = f + 1 /\ sess'.pos = 1
        /\ buf'.type = "ROTATE" /\ buf'.flag = "ok" /\ buf'.file = f + 1 /\ buf'.pos = 1
    BY <1>9, <2>1 DEF SendSwitch, Packet
  <2>4. CursorPassed' /\ BufPassed'
    BY <1>1, <1>2, <2>2, <2>3
       DEF CursorPassed, BufPassed, BeingHandled, InBuf, Passed, At, Pos
  <2>5. NamesOK' /\ AllMapsOK'
    BY <1>1, <2>3 DEF NamesOK, NameOK, BufNameOK, AllMapsOK, MapsOK, BufMapsOK, InBuf
  <2>6. QED
    BY <2>4, <2>5
<1>10. CASE SendEnd(buf')
  <2>1. buf'.flag # "ok" /\ sess'.phase = "closed"
    BY <1>3, <1>10 DEF SendEnd, Bare, TypeInv, TypeOK, MasterTypeOK
  <2>2. QED
    BY <2>1
       DEF CursorPassed, BufPassed, NamesOK, NameOK, BufNameOK, AllMapsOK, MapsOK, BufMapsOK,
           InBuf, Streaming
<1>11. QED
  BY <1>1, <1>6, <1>7, <1>8, <1>9, <1>10 DEF Send

(***************************************************************************)
(* Each part of the invariant, over every step.                            *)
(***************************************************************************)
\* What was passed before a step is passed after it.
LEMMA Kept ==
    ASSUME LossInv, [Next]_vars
    PROVE  /\ PassedIn(Latest', Pending', req, {})
           /\ PassedIn(Latest', Pending', saved, BeingHandedOut)
           /\ sess.phase \in Streaming => PassedIn(Latest', Pending', At(sess), BeingHandled)
           /\ InBuf({"ROWS", "ROTATE"}) => PassedIn(Latest', Pending', At(buf), {})
<1>1. TypeInv /\ RotatesLast
  BY DEF LossInv
<1>2. Place(req) /\ Place(saved) /\ Place(At(sess)) /\ Place(At(buf))
  BY <1>1, Places DEF Place, At
<1>3. PassedIn(Latest', Pending', req, {})
  BY <1>1, <1>2, PassedStays DEF LossInv, PositionsOK, ReqPassed, Passed
<1>4. PassedIn(Latest', Pending', saved, BeingHandedOut)
  BY <1>1, <1>2, PassedStays DEF LossInv, PositionsOK, SavedPassed, Passed
<1>5. sess.phase \in Streaming => PassedIn(Latest', Pending', At(sess), BeingHandled)
  BY <1>1, <1>2, PassedStays DEF LossInv, PositionsOK, CursorPassed, Passed
<1>6. InBuf({"ROWS", "ROTATE"}) => PassedIn(Latest', Pending', At(buf), {})
  BY <1>1, <1>2, PassedStays DEF LossInv, PositionsOK, BufPassed, Passed
<1>7. QED
  BY <1>3, <1>4, <1>5, <1>6

\* A jump to the end of the log skips what lies before it.
LEMMA JumpPassed ==
    ASSUME LossInv, [Next]_vars, JumpToLatest, UNCHANGED binlog
    PROVE  ReqPassed'
<1>1. ~Before(Latest, Latest)
  BY Places DEF LossInv, Before, Place
<1>2. PassedIn(Latest', Pending', Latest, {})
  BY <1>1, PassedBySkipping DEF JumpToLatest
<1>3. QED
  BY <1>2 DEF JumpToLatest, ReqPassed, Passed

\* The position the next dump starts at.
LEMMA ReqStep ==
    ASSUME LossInv, [Next]_vars
    PROVE  ReqPassed'
<1>1. TypeInv /\ RotatesLast
  BY DEF LossInv
<1>2. /\ PassedIn(Latest', Pending', req, {})
      /\ PassedIn(Latest', Pending', saved, BeingHandedOut)
  BY Kept
<1>3. \A p : Place(p) /\ p.file < 1 => PassedIn(Latest', Pending', p, {})
  BY <1>1, PassedAtStart, PassedStays
<1>4. CASE UNCHANGED req
  BY <1>2, <1>4 DEF ReqPassed, Passed
<1>5. CASE StartPosition
  <2>1. CASE JumpToLatest
    BY <1>5, <2>1, JumpPassed DEF StartPosition, masterVars
  <2>2. CASE req' = NoPos
    <3>1. Place(req') /\ req'.file < 1
      BY <2>2 DEF NoPos, Place
    <3>2. QED
      BY <1>3, <3>1 DEF ReqPassed, Passed
  <2>3. QED
    BY <1>5, <2>1, <2>2 DEF StartPosition
<1>6. CASE ReconnectAtLatest
  BY <1>4, <1>6, JumpPassed DEF ReconnectAtLatest
<1>7. CASE ReconnectAtSaved
  <2>1. BeingHandedOut = {} /\ req' \in {req, saved}
    BY <1>7 DEF ReconnectAtSaved, ReadNextReqPos, BeingHandedOut
  <2>2. QED
    BY <1>2, <2>1 DEF ReqPassed, Passed
<1>8. CASE Restart
  <2>1. Place(req') /\ req'.file < 1
    BY <1>8 DEF Restart, FreshMemory, NoPos, Place
  <2>2. QED
    BY <1>3, <2>1 DEF ReqPassed, Passed
<1>9. QED
  BY <1>4, <1>5, <1>6, <1>7, <1>8
     DEF Next, Server, Process, Startup, Reading, Handling, Reconnecting, StartChecksum,
         StartFails, Request, RequestLost, Receive, ReceiveNothing, ParseOtherFlag, ParseError,
         ParseShort, ParseRotate, ParseFormat, ParseTablemap, ParseOther, ParseRowOrphan,
         ParseRowUnmatched, ParseRowMatched, DeliverRows, ReconnectDies, ReconnectFails, Crash,
         memory, vars

\* A row event in the buffer is one of the log, and its end is passed but for it.
LEMMA EndOfRows ==
    ASSUME LossInv, InBuf({"ROWS"})
    PROVE  /\ buf.file \in 1 .. Last /\ buf.pos \in 1 .. Len(binlog[buf.file].evs)
           /\ EventAt(At(buf)) = Event("ROWS", buf.tid)
           /\ PassedIn(Latest, Pending, Pos(buf.file, buf.pos + 1), {At(buf)})
<1>1. /\ buf.file \in 1 .. Last /\ buf.pos \in 1 .. Len(binlog[buf.file].evs)
      /\ EventAt(At(buf)) = Event("ROWS", buf.tid)
  BY DEF LossInv, TypeInv, Genuine, InBuf, IsEvent, At
<1>2. PassedIn(Latest, Pending, At(buf), {})
  BY DEF LossInv, PositionsOK, BufPassed, InBuf, Passed
<1>3. At(buf) = Pos(buf.file, buf.pos)
  BY DEF At, Pos
<1>4. PICK f \in 1 .. Last, k \in Nat : /\ f = buf.file /\ k = buf.pos
                                       /\ k \in 1 .. Len(binlog[f].evs)
  <2>1. buf.pos \in Nat
    BY DEF LossInv, TypeInv, TypeOK, Packets
  <2>2. QED
    BY <1>1, <2>1
<1>5. PassedIn(Latest, Pending, Pos(f, k + 1), {Pos(f, k)})
  BY <1>2, <1>3, <1>4, CursorPastEvent DEF LossInv
<1>6. QED
  BY <1>1, <1>3, <1>4, <1>5

\* A row event that was handed out, or caught by a kill, is pending no more.
LEMMA AccountedNow ==
    ASSUME DeliverRows \/ (Crash /\ pc = "Rows")
    PROVE  At(buf) \notin Pending'
  BY DEF DeliverRows, Crash, Pending, Accounted

\* The position in Redis.
LEMMA SavedStep ==
    ASSUME LossInv, [Next]_vars
    PROVE  SavedPassed'
<1>1. TypeInv /\ RotatesLast
  BY DEF LossInv
<1>2. /\ PassedIn(Latest', Pending', saved, BeingHandedOut)
      /\ InBuf({"ROWS", "ROTATE"}) => PassedIn(Latest', Pending', At(buf), {})
  BY Kept
<1>3. \A p : Place(p) /\ p.file < 1 => PassedIn(Latest', Pending', p, {})
  BY <1>1, PassedAtStart, PassedStays
<1>4. CASE pc # "Rows" /\ UNCHANGED saved
  <2>1. PassedIn(Latest', Pending', saved', {})
    BY <1>2, <1>4 DEF BeingHandedOut
  <2>2. QED
    BY <2>1, PassedWeaker DEF SavedPassed, Passed
<1>5. CASE UNCHANGED <<pc, buf, saved>>
  BY <1>2, <1>5 DEF SavedPassed, Passed, BeingHandedOut, At
<1>6. CASE pc = "Rows" /\ (DeliverRows \/ Crash)
  <2>1. saved' = saved /\ pc' # "Rows"
    BY <1>6 DEF DeliverRows, Crash
  <2>2. PassedIn(Latest', Pending', saved, {At(buf)})
    BY <1>2, <1>6 DEF BeingHandedOut
  <2>3. PassedIn(Latest', Pending', saved, {})
    BY <1>6, <2>2, AccountedNow, PassedNow
  <2>4. QED
    BY <2>1, <2>3 DEF SavedPassed, BeingHandedOut, Passed
<1>7. CASE ParseRotate
  <2>1. /\ InBuf({"ROTATE"}) /\ pc' # "Rows" /\ BeingHandedOut = {}
        /\ saved' \in {saved, next'}
        /\ next' = [file |-> rotName', pos |-> buf.pos]
        /\ rotName' \in {buf.file, Garbled}
    BY <1>7 DEF ParseRotate, Parsing, InBuf, SaveNextReqPos, BeingHandedOut
  <2>2. PassedIn(Latest', Pending', saved, {})
    BY <1>2, <2>1
  <2>3. PassedIn(Latest', Pending', next', {})
    <3>1. CASE rotName' = buf.file
      BY <1>2, <2>1, <3>1 DEF InBuf, At
    <3>2. CASE rotName' = Garbled
      <4>1. Place(next') /\ next'.file < 1
        BY <1>1, <2>1, <3>2 DEF Place, Garbled, TypeInv, TypeOK, Packets
      <4>2. QED
        BY <1>3, <4>1
    <3>3. QED
      BY <2>1, <3>1, <3>2
  <2>4. QED
    BY <2>1, <2>2, <2>3 DEF SavedPassed, BeingHandedOut, Passed
<1>8. CASE ParseRowMatched
  <2>1. /\ InBuf({"ROWS"}) /\ pc' = "Rows" /\ buf' = buf /\ BeingHandedOut = {}
        /\ saved' \in {saved, NextAfter}
    BY <1>8 DEF ParseRowMatched, Parsing, InBuf, SaveNextReqPos, BeingHandedOut
  <2>2. /\ NextAfter = Pos(rotName, buf.pos + 1) /\ rotName \in {buf.file, Garbled}
        /\ buf.pos \in Nat /\ buf.file \in Int
    BY <2>1 DEF LossInv, TypeInv, TypeOK, Packets, NamesOK, BufNameOK, NextAfter, Pos, Positions
  <2>3. PassedIn(Latest', Pending', saved, {At(buf)})
    BY <1>2, <2>1, PassedWeaker
  <2>4. PassedIn(Latest', Pending', NextAfter, {At(buf)})
    <3>1. CASE rotName = buf.file
      <4>1. PassedIn(Latest, Pending, NextAfter, {At(buf)})
        BY <2>1, <2>2, <3>1, EndOfRows
      <4>2. Place(NextAfter)
        BY <2>2, <3>1 DEF Place, Pos
      <4>3. QED
        BY <1>1, <4>1, <4>2, PassedStays
    <3>2. CASE rotName = Garbled
      <4>1. Place(NextAfter) /\ NextAfter.file < 1
        BY <2>2, <3>2 DEF Place, Pos, Garbled
      <4>2. QED
        BY <1>3, <4>1, PassedWeaker
    <3>3. QED
      BY <2>2, <3>1, <3>2
  <2>5. QED
    BY <2>1, <2>3, <2>4 DEF SavedPassed, BeingHandedOut, Passed, At
<1>9. CASE Server \/ UNCHANGED vars
  BY <1>5, <1>9 DEF Server, memory, vars
<1>10. CASE Startup \/ Reading \/ Reconnecting \/ Restart
  BY <1>4, <1>10
     DEF Startup, Reading, Reconnecting, StartPosition, StartChecksum, StartFails, Request,
         RequestLost, Receive, ReceiveNothing, ReconnectAtLatest, ReconnectAtSaved,
         ReconnectDies, ReconnectFails, Restart
<1>11. CASE \/ ParseOtherFlag \/ ParseError \/ ParseShort \/ ParseFormat \/ ParseTablemap
            \/ ParseOther \/ ParseRowOrphan \/ ParseRowUnmatched
  BY <1>4, <1>11
     DEF Parsing, ParseOtherFlag, ParseError, ParseShort, ParseFormat, ParseTablemap,
         ParseOther, ParseRowOrphan, ParseRowUnmatched
<1>12. CASE Crash /\ pc # "Rows"
  BY <1>4, <1>12 DEF Crash
<1>13. QED
  BY <1>6, <1>7, <1>8, <1>9, <1>10, <1>11, <1>12 DEF Next, Process, Handling, DeliverRows

\* The cursor of a session that streams.
LEMMA CursorStep ==
    ASSUME LossInv, [Next]_vars
    PROVE  CursorPassed'
<1>1. TypeInv /\ RotatesLast
  BY DEF LossInv
<1>2. sess.phase \in Streaming => PassedIn(Latest', Pending', At(sess), BeingHandled)
  BY Kept
<1>3. CASE sess'.phase \notin Streaming
  BY <1>3 DEF CursorPassed
<1>4. CASE UNCHANGED <<pc, buf, sess>>
  BY <1>2, <1>4 DEF CursorPassed, BeingHandled, InBuf, Passed, At
<1>5. CASE UNCHANGED sess /\ BeingHandled = {}
  BY <1>2, <1>5, PassedWeaker DEF CursorPassed, Passed, At
<1>6. CASE Server \/ UNCHANGED vars
  <2>1. UNCHANGED <<pc, buf>>
    BY <1>6 DEF Server, memory, vars
  <2>2. CASE UNCHANGED sess
    BY <1>4, <2>1, <2>2
  <2>3. CASE \E phase \in Phases \ Streaming : sess' = [sess EXCEPT !.phase = phase]
    <3>1. sess'.phase \notin Streaming
      BY <1>1, <2>3 DEF TypeInv, TypeOK, MasterTypeOK
    <3>2. QED
      BY <1>3, <3>1
  <2>4. QED
    BY <1>6, <2>2, <2>3
       DEF Server, MasterNext, Commit, RotateLog, RestartServer, PurgeLog, EndSession, vars,
           masterVars, Phases, Streaming
<1>7. CASE Request
  <2>1. SUFFICES ASSUME sess'.phase \in Streaming PROVE CursorPassed'
    BY <1>3
  <2>2. PICK aware : OpenSession(req.file, req.pos, aware)
    BY <1>7 DEF Request
  <2>3. sess'.file = req.file /\ sess'.pos = req.pos
    BY <2>2 DEF OpenSession
  <2>4. At(sess)' = req
    BY <1>1, <2>3 DEF TypeInv, TypeOK, Positions, At
  <2>5. QED
    BY <2>4, Kept, PassedWeaker DEF CursorPassed, Passed
<1>8. CASE Receive
  BY <1>8, ReceiveKeeps DEF PositionsOK
<1>9. CASE RequestLost \/ ReceiveNothing \/ Reconnecting \/ Crash \/ Restart
  <2>1. sess'.phase \notin Streaming
    BY <1>1, <1>9
       DEF TypeInv, TypeOK, MasterTypeOK, RequestLost, ReceiveNothing, masterVars, Reconnecting,
           ReconnectAtLatest, ReconnectAtSaved, Reconnected, ReconnectDies, ReconnectFails,
           Crash, Restart, NoSession, Streaming
  <2>2. QED
    BY <1>3, <2>1
<1>10. CASE Startup
  BY <1>5, <1>10 DEF Startup, StartPosition, StartChecksum, StartFails, masterVars, BeingHandled
<1>11. CASE \/ ParseOtherFlag \/ ParseError \/ ParseShort \/ ParseRotate \/ ParseFormat
            \/ ParseTablemap \/ ParseOther
  BY <1>5, <1>11
     DEF ParseOtherFlag, ParseError, ParseShort, ParseRotate, ParseFormat, ParseTablemap,
         ParseOther, Parsing, masterVars, BeingHandled, InBuf
\* A row event: the cursor is ahead of it until it is accounted for.
<1>12. CASE ParseRowOrphan \/ ParseRowUnmatched \/ DeliverRows
  <2>1. /\ UNCHANGED <<binlog, sess, buf>> /\ InBuf({"ROWS"}) /\ BeingHandled = {At(buf)}
    BY <1>1, <1>12
       DEF ParseRowOrphan, ParseRowUnmatched, DeliverRows, Parsing, masterVars, memory,
           BeingHandled, InBuf, TypeInv, RowsOK
  <2>2. At(buf) \notin Pending'
    <3>1. CASE ParseRowOrphan
      <4>1. MatchingRows' = MatchingRows
        BY <2>1 DEF MatchingRows, IsEvent, EventAt, Last
      <4>2. QED
        BY <3>1, <4>1 DEF ParseRowOrphan, Pending, Accounted
    <3>2. CASE ParseRowUnmatched
      <4>1. EventAt(At(buf)) = Event("ROWS", buf.tid) /\ buf.file \in 1 .. Last
            /\ IsEvent(At(buf))
        BY <2>1, EndOfRows DEF IsEvent, At
      <4>2. buf.tid \in Tids
        <5>1. EventAt(At(buf)) \in Events
          BY <1>1, <4>1, LogFacts DEF TypeInv, IsEvent, EventAt
        <5>2. QED
          BY <4>1, <5>1, EventFacts DEF Event
      <4>3. tm[buf.tid].def = TableOf[buf.file][buf.tid]
        BY <2>1, <3>2, <4>2
           DEF LossInv, AllMapsOK, BufMapsOK, Agrees, InBuf, ParseRowUnmatched
      <4>4. At(buf) \notin MatchingRows
        BY <3>2, <4>1, <4>3 DEF MatchingRows, Event, At, ParseRowUnmatched
      <4>5. MatchingRows' = MatchingRows
        BY <2>1 DEF MatchingRows, IsEvent, EventAt, Last
      <4>6. QED
        BY <4>4, <4>5 DEF Pending
    <3>3. CASE DeliverRows
      BY <3>3, AccountedNow
    <3>4. QED
      BY <1>12, <3>1, <3>2, <3>3
  <2>3. sess.phase \in Streaming => PassedIn(Latest', Pending', At(sess), {})
    BY <1>2, <2>1, <2>2, PassedNow
  <2>4. QED
    BY <2>1, <2>3, PassedWeaker DEF CursorPassed, Passed, At
<1>13. CASE ParseRowMatched
  <2>1. UNCHANGED <<sess, buf>> /\ BeingHandled' = BeingHandled
    BY <1>13 DEF ParseRowMatched, Parsing, masterVars, BeingHandled, InBuf, At
  <2>2. QED
    BY <1>2, <2>1 DEF CursorPassed, Passed, At
<1>14. QED
  BY <1>6, <1>7, <1>8, <1>9, <1>10, <1>11, <1>12, <1>13 DEF Next, Process, Reading, Handling

\* The actions of the process that read no packet and restart nothing leave
\* the buffer as it is.
LEMMA BufferKept ==
    ASSUME [Next]_vars
    PROVE  Receive \/ ReceiveNothing \/ Restart \/ UNCHANGED buf
  BY DEF Next, Server, Process, Startup, Reading, Handling, Reconnecting, StartPosition,
         StartChecksum, StartFails, Request, RequestLost, ParseOtherFlag, ParseError,
         ParseShort, ParseRotate, ParseFormat, ParseTablemap, ParseOther, ParseRowOrphan,
         ParseRowUnmatched, ParseRowMatched, DeliverRows, ReconnectAtLatest,
         ReconnectAtSaved, ReconnectDies, ReconnectFails, Crash, memory, vars

\* What ReceiveNothing and Restart leave in the buffer is what was there, or
\* bytes that are no event.
LEMMA BufferNotRead ==
    ASSUME ReceiveNothing \/ Restart
    PROVE  UNCHANGED buf \/ buf'.type = "SHORT"
  BY DEF ReceiveNothing, Restart, FreshMemory, Unset, Bare

\* The event in the buffer, and the name the next position is made with.
LEMMA BufferStep ==
    ASSUME LossInv, [Next]_vars
    PROVE  BufPassed' /\ BufNameOK'
<1>1. CASE Receive
  BY <1>1, ReceiveKeeps DEF PositionsOK, NamesOK
<1>2. CASE buf'.type = "SHORT"
  BY <1>2 DEF BufPassed, BufNameOK, InBuf
<1>3. CASE UNCHANGED buf
  <2>1. BufPassed'
    BY <1>3, Kept DEF BufPassed, Passed, InBuf, At
  <2>2. BufNameOK \/ ~InBuf({"ROWS"})
    BY DEF LossInv, NamesOK
  <2>3. CASE UNCHANGED rotName
    BY <1>3, <2>1, <2>3 DEF LossInv, NamesOK, BufNameOK, InBuf
  <2>4. CASE ParseRotate \/ Restart
    <3>1. ~InBuf({"ROWS"})'
      BY <1>3, <2>4 DEF ParseRotate, Parsing, Restart, FreshMemory, Unset, Bare, InBuf
    <3>2. QED
      BY <2>1, <3>1 DEF BufNameOK
  <2>5. QED
    BY <2>3, <2>4
       DEF Next, Server, Process, Startup, Reading, Handling, Reconnecting, StartPosition,
           StartChecksum, StartFails, Request, RequestLost, Receive, ReceiveNothing,
           ParseOtherFlag, ParseError, ParseShort, ParseFormat, ParseTablemap, ParseOther,
           ParseRowOrphan, ParseRowUnmatched, ParseRowMatched, DeliverRows,
           ReconnectAtLatest, ReconnectAtSaved, ReconnectDies, ReconnectFails, Crash,
           memory, vars
<1>4. QED
  BY <1>1, <1>2, <1>3, BufferKept, BufferNotRead

\* A session that has sent its file's ROTATE event has sent all of the file.
LEMMA TurnedStays ==
    ASSUME TypeInv, RotatesLast, [Next]_vars, Turned, sess.phase \in Streaming, UNCHANGED sess
    PROVE  Turned'
<1>1. sess.file \in 1 .. Last /\ sess.pos \in 1 .. EndOf(sess.file) /\ LogStays
  BY LogShape DEF TypeInv, SessOK
<1>2. Len(binlog[sess.file].evs) \in 1 .. MaxLen + 1
  BY <1>1 DEF TypeInv, LogOK
<1>3. sess.pos - 1 \in 1 .. Len(binlog[sess.file].evs)
  BY <1>2, Bounds DEF Turned, EndOf
<1>4. sess.file < Last
  BY <1>1, <1>3 DEF Turned, RotatesLast
<1>5. binlog'[sess.file] = binlog[sess.file]
  BY <1>1, <1>4 DEF LogStays
<1>6. QED
  BY <1>5 DEF Turned, EndOf

\* A step keeps the session, or leaves it in a phase that sends no events.
LEMMA SessionKept ==
    ASSUME TypeInv, [Next]_vars
    PROVE  Receive \/ UNCHANGED sess \/ sess'.phase \notin {"format", "events"}
<1>1. sess \in [phase : Phases, file : Int, pos : Nat, aware : BOOLEAN]
  BY DEF TypeInv, TypeOK, MasterTypeOK
<1>2. CASE Server \/ UNCHANGED vars
  BY <1>1, <1>2
     DEF Server, MasterNext, Commit, RotateLog, RestartServer, PurgeLog, EndSession, vars,
         masterVars
<1>3. CASE Request
  BY <1>3 DEF Request, OpenSession
<1>4. CASE RequestLost \/ ReceiveNothing \/ Reconnecting \/ Crash \/ Restart
  BY <1>1, <1>4
     DEF RequestLost, ReceiveNothing, masterVars, Reconnecting, ReconnectAtLatest,
         ReconnectAtSaved, Reconnected, ReconnectDies, ReconnectFails, Crash, Restart,
         NoSession
<1>5. CASE Startup \/ Handling
  BY <1>5
     DEF Startup, StartPosition, StartChecksum, StartFails, Handling, ParseOtherFlag,
         ParseError, ParseShort, ParseRotate, ParseFormat, ParseTablemap, ParseOther,
         ParseRowOrphan, ParseRowUnmatched, ParseRowMatched, DeliverRows, masterVars
<1>6. QED
  BY <1>2, <1>3, <1>4, <1>5 DEF Next, Process, Reading

\* The file name the parser goes by.
LEMMA NameStep ==
    ASSUME LossInv, [Next]_vars
    PROVE  NameOK'
<1>1. TypeInv /\ RotatesLast
  BY DEF LossInv
<1>2. CASE Receive
  BY <1>2, ReceiveKeeps DEF NamesOK
<1>3. CASE sess'.phase \notin {"format", "events"}
  BY <1>3 DEF NameOK
<1>4. CASE UNCHANGED sess /\ sess.phase \in {"format", "events"} /\ ~Receive
  <2> DEFINE name == IF pc = "Parse" /\ InBuf({"ROTATE"}) THEN buf.file ELSE rotName
  <2>1. SUFFICES ASSUME ~Turned' PROVE name' \in {sess.file, Garbled}
    BY <1>4 DEF NameOK
  <2>2. ~Turned
    BY <1>1, <1>4, <2>1, TurnedStays DEF Streaming
  <2>3. name \in {sess.file, Garbled}
    BY <1>4, <2>2 DEF LossInv, NamesOK, NameOK
  <2>4. CASE UNCHANGED <<pc, buf, rotName>>
    BY <2>3, <2>4 DEF InBuf
  <2>5. CASE ParseRotate
    BY <2>3, <2>5 DEF ParseRotate, Parsing, InBuf
  <2>6. CASE /\ UNCHANGED rotName /\ pc' # "Parse"
             /\ ~(pc = "Parse" /\ InBuf({"ROTATE"}))
    BY <2>3, <2>6
  <2>7. CASE Server \/ UNCHANGED vars
    BY <2>4, <2>7 DEF Server, memory, vars
  <2>8. CASE Startup \/ Request
    BY <2>6, <2>8 DEF Startup, StartPosition, StartChecksum, StartFails, Request, memory
  <2>9. CASE \/ ParseOtherFlag \/ ParseError \/ ParseShort \/ ParseFormat \/ ParseTablemap
             \/ ParseOther \/ ParseRowOrphan \/ ParseRowUnmatched \/ ParseRowMatched
             \/ DeliverRows
    BY <2>6, <2>9
       DEF ParseOtherFlag, ParseError, ParseShort, ParseFormat, ParseTablemap, ParseOther,
           ParseRowOrphan, ParseRowUnmatched, ParseRowMatched, DeliverRows, Parsing, memory,
           InBuf
  <2>10. ~(RequestLost \/ ReceiveNothing \/ Reconnecting \/ Crash \/ Restart)
    BY <1>1, <1>4
       DEF TypeInv, TypeOK, MasterTypeOK, RequestLost, ReceiveNothing, Reconnecting,
           ReconnectAtLatest, ReconnectAtSaved, Reconnected, ReconnectDies, ReconnectFails,
           Crash, Restart, NoSession
  <2>11. QED
    BY <1>4, <2>5, <2>7, <2>8, <2>9, <2>10 DEF Next, Process, Reading, Handling
<1>5. QED
  BY <1>1, <1>2, <1>3, <1>4, SessionKept

\* The table maps the parser keeps.
LEMMA MapsStep ==
    ASSUME LossInv, [Next]_vars
    PROVE  AllMapsOK'
<1>1. TypeInv /\ RotatesLast /\ tm \in [Tids -> Maps]
  BY DEF LossInv, TypeInv, TypeOK
<1>2. CASE Receive
  BY <1>2, ReceiveKeeps
<1>3. CASE ReceiveNothing
  <2>1. sess'.phase = "closed" /\ UNCHANGED tm
    BY <1>3 DEF ReceiveNothing, masterVars
  <2>2. CASE UNCHANGED buf
    BY <2>1, <2>2 DEF LossInv, AllMapsOK, MapsOK, BufMapsOK, InBuf, Agrees
  <2>3. CASE buf'.type = "SHORT"
    BY <2>1, <2>3 DEF AllMapsOK, MapsOK, BufMapsOK, InBuf
  <2>4. QED
    BY <1>3, <2>2, <2>3, BufferNotRead
<1>4. CASE Restart
  BY <1>4 DEF Restart, NoSession, FreshMemory, Unset, Bare, AllMapsOK, MapsOK, BufMapsOK, InBuf
<1>5. CASE ParseFormat
  <2>1. \A f : Agrees(f)'
    BY <1>5 DEF ParseFormat, NoMaps, Agrees
  <2>2. QED
    BY <1>5, <2>1 DEF ParseFormat, Parsing, AllMapsOK, MapsOK, BufMapsOK, InBuf
<1>6. CASE ParseTablemap
  <2>1. /\ InBuf({"TABLEMAP"}) /\ ~InBuf({"FORMAT"}) /\ pc = "Parse" /\ pc' # "Parse"
        /\ UNCHANGED <<sess, buf>>
        /\ tm' = WithTablemap(buf.tid, TableOf[buf.file][buf.tid])
    BY <1>6 DEF ParseTablemap, Parsing, InBuf, masterVars
  <2>2. Agrees(buf.file)
    BY <2>1 DEF LossInv, AllMapsOK, BufMapsOK, InBuf
  <2>3. Agrees(buf.file)'
    <3>1. \A t \in Tids : tm'[t].def \in {tm[t].def, TableOf[buf.file][t]}
      BY <1>1, <2>1 DEF WithTablemap
    <3>2. QED
      BY <2>1, <2>2, <3>1 DEF Agrees
  <2>4. sess.phase = "events" => sess.file = buf.file
    BY <2>1 DEF LossInv, AllMapsOK, BufMapsOK
  <2>5. QED
    BY <2>1, <2>3, <2>4 DEF AllMapsOK, MapsOK, BufMapsOK, InBuf, Agrees
<1>7. CASE UNCHANGED <<buf, tm>> /\ ~Receive /\ ~ParseFormat
  <2>1. \A f : Agrees(f)' = Agrees(f)
    BY <1>7 DEF Agrees
  <2>2. UNCHANGED sess \/ sess'.phase \notin {"format", "events"}
    BY <1>1, <1>7, SessionKept
  <2>3. pc' = "Parse" => UNCHANGED pc \/ ReceiveNothing
    BY <1>7
       DEF Next, Server, Process, Startup, Reading, Handling, Reconnecting, StartPosition,
           StartChecksum, StartFails, Request, RequestLost, ParseOtherFlag, ParseError,
           ParseShort, ParseRotate, ParseTablemap, ParseOther, ParseRowOrphan,
           ParseRowUnmatched, ParseRowMatched, DeliverRows, ReconnectAtLatest,
           ReconnectAtSaved, Reconnected, ReconnectDies, ReconnectFails, Crash, Restart, vars
  <2>4. BufMapsOK'
    <3>1. CASE ReceiveNothing
      BY <1>3, <3>1 DEF AllMapsOK
    <3>2. CASE ~ReceiveNothing
      BY <1>7, <2>1, <2>2, <2>3, <3>2 DEF LossInv, AllMapsOK, BufMapsOK, InBuf
    <3>3. QED
      BY <3>1, <3>2
  <2>5. pc = "Parse" /\ InBuf({"FORMAT"}) => UNCHANGED pc \/ sess'.phase # "events"
    BY <1>7
       DEF Parsing, InBuf, Next, Server, Process, Startup, Reading, Handling, Reconnecting,
           StartPosition, StartChecksum, StartFails, Request, RequestLost, ReceiveNothing,
           ParseOtherFlag, ParseError, ParseShort, ParseRotate, ParseTablemap, ParseOther,
           ParseRowOrphan, ParseRowUnmatched, ParseRowMatched, DeliverRows,
           ReconnectAtLatest, ReconnectAtSaved, Reconnected, ReconnectDies, ReconnectFails,
           Crash, Restart, NoSession, vars
  <2>6. MapsOK'
    BY <1>7, <2>1, <2>2, <2>5 DEF LossInv, AllMapsOK, MapsOK, InBuf
  <2>7. QED
    BY <2>4, <2>6 DEF AllMapsOK
<1>8. Receive \/ ReceiveNothing \/ Restart \/ ParseFormat \/ ParseTablemap \/ UNCHANGED tm
  BY DEF Next, Server, Process, Startup, Reading, Handling, Reconnecting, StartPosition,
         StartChecksum, StartFails, Request, RequestLost, ParseOtherFlag, ParseError,
         ParseShort, ParseRotate, ParseOther, ParseRowOrphan, ParseRowUnmatched,
         ParseRowMatched, DeliverRows, ReconnectAtLatest, ReconnectAtSaved, ReconnectDies,
         ReconnectFails, Crash, memory, vars
<1>9. QED
  BY <1>2, <1>3, <1>4, <1>5, <1>6, <1>7, <1>8, BufferKept

(***************************************************************************)
(* The theorem.                                                            *)
(***************************************************************************)
\* The inductive invariant holds at the start.
LEMMA LossInvInit == Init => LossInv
<1>1. SUFFICES ASSUME Init PROVE LossInv
  OBVIOUS
<1>2. TypeInv
  BY <1>1, TypeInvInit
<1>3. PICK crc \in Crcs : binlog = <<NewFile(crc)>>
  BY <1>1 DEF Init, MasterInit
<1>4. \A f \in 1 .. Last : Len(binlog[f].evs) = 1 /\ binlog[f].evs[1].type = "FORMAT"
  <2>1. Len(NewFile(crc).evs) = 1 /\ NewFile(crc).evs[1].type = "FORMAT"
    BY DEF NewFile, FirstEvent, Event
  <2> DEFINE new == NewFile(crc)
  <2> HIDE DEF new
  <2>2. Len(binlog) = 1 /\ binlog[1] = new
    BY <1>3 DEF new
  <2>3. QED
    BY <2>1, <2>2 DEF Last, new
<1>5. RotatesLast
  <2>1. SUFFICES ASSUME NEW f \in 1 .. Last, NEW k \in 1 .. Len(binlog[f].evs)
                 PROVE  binlog[f].evs[k].type # "ROTATE"
    BY DEF RotatesLast
  <2>2. Len(binlog[f].evs) = 1 /\ binlog[f].evs[1].type = "FORMAT"
    BY <1>4, <2>1
  <2>3. k = 1
    BY <2>1, <2>2
  <2>4. QED
    BY <2>2, <2>3
<1>6. PassedIn(Latest, Pending, NoPos, {})
  BY <1>2, PassedAtStart DEF NoPos, Place
<1>7. /\ req = NoPos /\ saved = NoPos /\ pc = "Init"
      /\ sess.phase = "none" /\ buf.flag = "unset"
  BY <1>1 DEF Init, MasterInit, NoSession, Unset, Bare
<1>8. PositionsOK
  BY <1>6, <1>7
     DEF PositionsOK, ReqPassed, SavedPassed, CursorPassed, BufPassed, Passed, BeingHandedOut,
         Streaming, InBuf
<1>9. NamesOK /\ AllMapsOK
  BY <1>7 DEF NamesOK, NameOK, BufNameOK, AllMapsOK, MapsOK, BufMapsOK, InBuf
<1>10. QED
  BY <1>2, <1>5, <1>8, <1>9 DEF LossInv

\* Every step keeps the inductive invariant.
LEMMA LossInvStep == LossInv /\ [Next]_vars => LossInv'
<1>1. SUFFICES ASSUME LossInv, [Next]_vars PROVE LossInv'
  OBVIOUS
<1>2. TypeInv' /\ RotatesLast'
  BY <1>1, TypeInvStep, LogShape DEF LossInv, TypeInv
<1>3. PositionsOK' /\ BufNameOK'
  BY <1>1, ReqStep, SavedStep, CursorStep, BufferStep DEF PositionsOK
<1>4. NameOK' /\ AllMapsOK'
  BY <1>1, NameStep, MapsStep
<1>5. QED
  BY <1>2, <1>3, <1>4 DEF LossInv, NamesOK

\* Under every fault the model knows, and for any number of files, events,
\* sessions and tables, the position in Redis never passes a matching row
\* event that nobody accounts for, and rows are handed out only when
\* everything before them is.
THEOREM LossAccounted == Spec => []NothingLost
<1>1. ASSUME LossInv PROVE NothingLost
  <2>1. SUFFICES ASSUME NEW e \in Pending
                 PROVE  /\ Before(e, saved) => pc = "Rows" /\ e = At(buf)
                        /\ pc = "Rows" => ~Before(e, At(buf))
    BY DEF NothingLost, Pending
  <2>2. Before(e, saved) => pc = "Rows" /\ e = At(buf)
    BY <1>1 DEF LossInv, PositionsOK, SavedPassed, BeingHandedOut, Passed, PassedIn
  <2>3. pc = "Rows" => ~Before(e, At(buf))
    BY <1>1
       DEF LossInv, TypeInv, RowsOK, PositionsOK, BufPassed, InBuf, Passed, PassedIn
  <2>4. QED
    BY <2>2, <2>3
<1>2. QED
  BY <1>1, LossInvInit, LossInvStep, PTL DEF Spec
=============================================================================
