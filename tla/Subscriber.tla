----------------------------- MODULE Subscriber -----------------------------
(***************************************************************************)
(* The binlogsub daemon: Process (connect, request, read loop, reconnect), *)
(* Packet and NormalPacket (dispatch and the state the event parsers keep) *)
(* and Business (the position saved in Redis, the rows handed out).        *)
(*                                                                         *)
(* The process is one thread.  Its control point is pc; the server and     *)
(* whoever kills the process move in between.  One action is one call of   *)
(* the loop's body: a read, or the parse of one packet with every state    *)
(* change it makes.  Only the row handler is cut in two, where it has      *)
(* saved the position and not yet handed out the rows.                     *)
(*                                                                         *)
(* Faults names what the environment may do: "eof" and "tcp" end a session *)
(* with and without an EOF packet, "query" fails a query, "send" fails the *)
(* dump request, "connect" a connection attempt, "redis" a Redis command,  *)
(* "hangup" has Redis close every connection a command is sent on, "crash" *)
(* kills the process, "purge" removes old binlog files.                    *)
(***************************************************************************)
EXTENDS Master

CONSTANTS
    Matched,    \* the tables some configured schema matches
    NoTable,    \* stands for an id without a table map
    RetryLimit  \* the 3 of Process::Run

ASSUME MatchedAssumption == Matched \subseteq Tables /\ NoTable \notin Tables
ASSUME RetryAssumption == RetryLimit \in Nat

NoPos == [file |-> 0, pos |-> 0]
Garbled == -1     \* a file name cut short, or with checksum bytes in it
Algs == {"OFF", "CRC32", "UNDEF"}
Maps == [def : Tables \union {NoTable}, meta : Tables \union {NoTable}]
Positions == [file : Int, pos : Nat]
Pcs == {"Init", "Checksum", "Request", "Read", "Parse", "Rows", "Reconnect", "Down"}

VARIABLES
    pc,
    cs,        \* m_bChecksumEnable
    req,       \* m_sBinlogFileName, m_uBinlogPos: where the next dump starts
    retry,     \* nRetryCount
    rotName,   \* cRotateEvent.m_sNextBinlogFilename
    next,      \* sNextBinlogFileName, uNextBinlogPos
    alg,       \* cFormatEvent.m_u8Alg
    tm,        \* mTidToTmEvent: each id's table, and the table its metas describe
    buf,       \* m_szHeadBuf, m_pBodyBuf, m_uBodyLen
    saved,     \* binlogsub_pos_hash in Redis
    \* History, read by no action: what became of the matching row events.
    delivered,    \* handed to IncrProcess
    jumped,       \* lay before a position the process chose to start at
    orphaned,     \* dropped because their table map was not known
    interrupted   \* the process was killed between the save and the rows

memory == <<cs, req, retry, rotName, next, alg, tm, buf>>
history == <<delivered, jumped, orphaned, interrupted>>
vars == <<masterVars, pc, memory, saved, history>>

(***************************************************************************)
(* Row events and what has become of them.                                 *)
(***************************************************************************)
IsEvent(e) == e.file \in 1 .. Last /\ e.pos \in 1 .. Len(binlog[e.file].evs)
EventAt(e) == binlog[e.file].evs[e.pos]
MatchingRows ==
    {e \in EventIds : /\ IsEvent(e)
                      /\ EventAt(e).type = "ROWS"
                      /\ TableOf[e.file][EventAt(e).tid] \in Matched}
Accounted == delivered \union jumped \union orphaned \union interrupted
At(p) == [file |-> p.file, pos |-> p.pos]

\* Row events a start at position p leaves behind.
LeftBehind(p) == {e \in MatchingRows : Before(e, p)} \ Accounted

NoMaps == [t \in Tids |-> [def |-> NoTable, meta |-> NoTable]]

(***************************************************************************)
(* Starting up.                                                            *)
(***************************************************************************)
\* A process that has not run yet.  The packet's body is memory nobody has
\* written to: Unset, resolved where it is read.
Unset == Bare("unset", "SHORT")
FreshMemory ==
    /\ cs' = FALSE /\ req' = NoPos /\ retry' = 0
    /\ rotName' = 0 /\ next' = NoPos
    /\ alg' = "OFF" /\ tm' = NoMaps /\ buf' = Unset

Init ==
    /\ MasterInit
    /\ pc = "Init"
    /\ cs = FALSE /\ req = NoPos /\ retry = 0
    /\ rotName = 0 /\ next = NoPos
    /\ alg = "OFF" /\ tm = NoMaps /\ buf = Unset
    /\ saved = NoPos
    /\ delivered = {} /\ jumped = {} /\ orphaned = {}
    /\ interrupted = {}

\* Start at the server's current end of log; the rows before it are skipped.
JumpToLatest ==
    /\ req' = Latest
    /\ jumped' = jumped \union LeftBehind(Latest)

\* GetNowBinlogPos succeeds, or fails and leaves the empty name and the
\* offset 0 of the constructor: Init ignores its result.
StartPosition ==
    /\ pc = "Init"
    /\ \/ JumpToLatest
       \/ "query" \in Faults /\ req' = NoPos /\ UNCHANGED jumped
    /\ pc' = "Checksum"
    /\ UNCHANGED <<masterVars, cs, retry, rotName, next, alg, tm, buf, saved,
                   delivered, orphaned, interrupted>>

\* CheckIsChecksumEnable reads the global variable once; a failure counts as
\* no checksums.
StartChecksum ==
    /\ pc = "Checksum"
    /\ \/ cs' = binlog[Last].crc
       \/ "query" \in Faults /\ cs' = FALSE
    /\ pc' = "Request"
    /\ UNCHANGED <<masterVars, req, retry, rotName, next, alg, tm, buf, saved, history>>

StartFails ==
    /\ pc = "Init"
    /\ "connect" \in Faults
    /\ pc' = "Down"
    /\ UNCHANGED <<masterVars, memory, saved, history>>

(***************************************************************************)
(* The dump request and the read loop.                                     *)
(***************************************************************************)
\* ReqBinlog announces checksums iff m_bChecksumEnable, then sends the dump
\* command.
Request ==
    /\ pc = "Request"
    /\ \E aware \in {cs} \union (IF "query" \in Faults THEN {FALSE} ELSE {}) :
           OpenSession(req.file, req.pos, aware)
    /\ pc' = "Read"
    /\ UNCHANGED <<binlog, purged, cuts, memory, saved, history>>

\* The request is lost with its connection; Run ignores ReqBinlog's result.
RequestLost ==
    /\ pc = "Request"
    /\ "send" \in Faults
    /\ cuts < MaxCuts
    /\ cuts' = cuts + 1
    /\ sess' = [sess EXCEPT !.phase = "closed"]
    /\ pc' = "Read"
    /\ UNCHANGED <<binlog, purged, memory, saved, history>>

Receive ==
    /\ pc = "Read"
    /\ Send(buf')
    /\ pc' = "Parse"
    /\ UNCHANGED <<cs, req, retry, rotName, next, alg, tm, saved, history>>

\* On a connection that is gone read() returns 0 or -1.  Loop ignores it and
\* parses the buffer as it is: the previous packet, or bytes never written.
ReceiveNothing ==
    /\ pc = "Read"
    /\ sess.phase = "closed"
    /\ buf' \in IF buf = Unset
                THEN {Bare("ok", "SHORT"), Bare("err", "SHORT"), Bare("junk", "SHORT")}
                ELSE {buf}
    /\ pc' = "Parse"
    /\ UNCHANGED <<masterVars, cs, req, retry, rotName, next, alg, tm, saved, history>>

(***************************************************************************)
(* Parsing one packet.                                                     *)
(***************************************************************************)
\* SaveNextReqPos.  A Redis command that fails may or may not have stored
\* the position; its result is ignored.
SaveNextReqPos(p) ==
    IF p.file = 0 \/ p.pos = 0
    THEN UNCHANGED saved
    ELSE saved' \in {p} \union (IF "redis" \in Faults THEN {saved} ELSE {})

\* Defect: an algorithm not yet known counts as one.
StripsCrcIfUndefined == cs /\ alg # "OFF"

\* Does a handler take the last four bytes of the body for a checksum?
StripsCrc == cs /\ alg \notin {"OFF", "UNDEF"}

\* Every event with a log position moves the next position to its end.
NextAfter ==
    IF buf.logPos = 0 THEN next ELSE [file |-> rotName, pos |-> buf.logPos]

\* A table map of file f: the first one for an id since the last FORMAT event
\* fixes the metas (m_vMeta is only ever appended to), each one the table.
WithTablemap(t, table) ==
    [tm EXCEPT ![t] = [def |-> table,
                       meta |-> IF tm[t].def = NoTable THEN table ELSE tm[t].meta]]

Parsing(flag, types) == pc = "Parse" /\ buf.flag = flag /\ buf.type \in types

\* A first byte other than 0x00 and 0xff ends the loop, the EOF packet's too.
ParseOtherFlag ==
    /\ pc = "Parse"
    /\ buf.flag \notin {"ok", "err"}
    /\ pc' = "Reconnect"
    /\ UNCHANGED <<masterVars, memory, saved, history>>

\* An error packet ends the loop; one shorter than its fixed part makes the
\* length of its text wrap around, which kills the process.
ParseError ==
    /\ pc = "Parse"
    /\ buf.flag = "err"
    /\ pc' = IF buf.type = "SHORT" THEN "Down" ELSE "Reconnect"
    /\ UNCHANGED <<masterVars, memory, saved, history>>

\* A body shorter than an event header is refused; Packet::Parse ignores that.
ParseShort ==
    /\ Parsing("ok", {"SHORT"})
    /\ pc' = "Read"
    /\ UNCHANGED <<masterVars, memory, saved, history>>

\* ParseRotateEvent: the payload becomes the next position, which is saved.
ParseRotate ==
    /\ Parsing("ok", {"ROTATE"})
    /\ rotName' = IF StripsCrc = buf.crc THEN buf.file ELSE Garbled
    /\ next' = [file |-> rotName', pos |-> buf.pos]
    /\ SaveNextReqPos(next')
    /\ pc' = "Read"
    /\ UNCHANGED <<masterVars, cs, req, retry, alg, tm, buf, history>>

\* Defect: the table maps outlive their file.
ParseFormatKeepsMaps ==
    /\ Parsing("ok", {"FORMAT"})
    /\ next' = NextAfter
    /\ alg' = IF ~cs THEN alg ELSE IF buf.crc THEN "CRC32" ELSE "OFF"
    /\ pc' = "Read"
    /\ UNCHANGED <<masterVars, cs, req, retry, rotName, tm, buf, saved, history>>

\* ParseFormatEvent: a new file, so the table maps are void; its checksum
\* algorithm is read only if checksums were announced.
ParseFormat ==
    /\ Parsing("ok", {"FORMAT"})
    /\ next' = NextAfter
    /\ tm' = NoMaps
    /\ alg' = IF ~cs THEN alg ELSE IF buf.crc THEN "CRC32" ELSE "OFF"
    /\ pc' = "Read"
    /\ UNCHANGED <<masterVars, cs, req, retry, rotName, buf, saved, history>>

ParseTablemap ==
    /\ Parsing("ok", {"TABLEMAP"})
    /\ next' = NextAfter
    /\ tm' = WithTablemap(buf.tid, TableOf[buf.file][buf.tid])
    /\ pc' = "Read"
    /\ UNCHANGED <<masterVars, cs, req, retry, rotName, alg, buf, saved, history>>

ParseOther ==
    /\ Parsing("ok", {"OTHER"})
    /\ next' = NextAfter
    /\ pc' = "Read"
    /\ UNCHANGED <<masterVars, cs, req, retry, rotName, alg, tm, buf, saved, history>>

\* ParseRowEvent, no table map for the id: the event is dropped.
ParseRowOrphan ==
    /\ Parsing("ok", {"ROWS"})
    /\ tm[buf.tid].def = NoTable
    /\ next' = NextAfter
    /\ orphaned' = orphaned \union ({At(buf)} \intersect MatchingRows)
    /\ pc' = "Read"
    /\ UNCHANGED <<masterVars, cs, req, retry, rotName, alg, tm, buf, saved,
                   delivered, jumped, interrupted>>

\* ParseRowEvent, a table no schema matches: nothing is saved.
ParseRowUnmatched ==
    /\ Parsing("ok", {"ROWS"})
    /\ tm[buf.tid].def \notin Matched \union {NoTable}
    /\ next' = NextAfter
    /\ pc' = "Read"
    /\ UNCHANGED <<masterVars, cs, req, retry, rotName, alg, tm, buf, saved, history>>

\* Defect: a row event saves no position.
ParseRowMatchedUnsaved ==
    /\ Parsing("ok", {"ROWS"})
    /\ tm[buf.tid].def \in Matched
    /\ next' = NextAfter
    /\ pc' = "Rows"
    /\ UNCHANGED <<masterVars, cs, req, retry, rotName, alg, tm, buf, saved, history>>

\* Defect: a table map serves one row event only.
ParseRowMatchedDropsMap ==
    /\ Parsing("ok", {"ROWS"})
    /\ tm[buf.tid].def \in Matched
    /\ next' = NextAfter
    /\ SaveNextReqPos(NextAfter)
    /\ tm' = [tm EXCEPT ![buf.tid] = [def |-> NoTable, meta |-> NoTable]]
    /\ pc' = "Rows"
    /\ UNCHANGED <<masterVars, cs, req, retry, rotName, alg, buf, history>>

\* ParseRowEvent, a matched table: the end of the event is saved first, the
\* rows are parsed and handed out after that (DeliverRows).
ParseRowMatched ==
    /\ Parsing("ok", {"ROWS"})
    /\ tm[buf.tid].def \in Matched
    /\ next' = NextAfter
    /\ SaveNextReqPos(NextAfter)
    /\ pc' = "Rows"
    /\ UNCHANGED <<masterVars, cs, req, retry, rotName, alg, tm, buf, history>>

DeliverRows ==
    /\ pc = "Rows"
    /\ delivered' = delivered \union {At(buf)}
    /\ pc' = "Read"
    /\ UNCHANGED <<masterVars, memory, saved, jumped, orphaned, interrupted>>

(***************************************************************************)
(* Reconnecting, dying and starting again.                                 *)
(***************************************************************************)
\* Defects: the algorithm survives a reconnect; the counter is never reset;
\* the counter never grows.
ReconnectedKeepsAlg(count) ==
    sess' = NoSession /\ retry' = count /\ alg' = alg /\ pc' = "Request"
ReconnectedCountsOn(count) ==
    sess' = NoSession /\ retry' = retry + 1 /\ alg' = "UNDEF" /\ pc' = "Request"
ReconnectedForgets(count) ==
    sess' = NoSession /\ retry' = 0 /\ alg' = "UNDEF" /\ pc' = "Request"

\* The part of Run's loop after a successful Connect: the old
\* session is gone, the counter is set, the checksum algorithm forgotten.
Reconnected(count) ==
    /\ sess' = NoSession
    /\ retry' = count
    /\ alg' = "UNDEF"
    /\ pc' = "Request"

\* Every (RetryLimit + 2)-th reconnect starts at the end of the log.  If that
\* query fails, the requested position stays.
ReconnectAtLatest ==
    /\ pc = "Reconnect"
    /\ retry > RetryLimit
    /\ JumpToLatest \/ ("query" \in Faults /\ UNCHANGED <<req, jumped>>)
    /\ Reconnected(0)
    /\ UNCHANGED <<binlog, purged, cuts, cs, rotName, next, tm, buf, saved,
                   delivered, orphaned, interrupted>>

\* Defects: with nothing stored the end of the log is as good; the stored
\* position is never read back.
ReadNextReqPosOrLatest ==
    req' \in (IF saved = NoPos THEN {Latest} ELSE {saved})
             \union (IF "redis" \in Faults THEN {Latest} ELSE {})
ReadNextReqPosIgnored == UNCHANGED req

\* ReadNextReqPos: nothing stored, or a command that fails, leaves the
\* requested position as it was.
ReadNextReqPos ==
    req' \in (IF saved = NoPos THEN {req} ELSE {saved})
             \union (IF "redis" \in Faults THEN {req} ELSE {})

ReconnectAtSaved ==
    /\ pc = "Reconnect"
    /\ retry <= RetryLimit
    /\ ReadNextReqPos
    /\ Reconnected(retry + 1)
    /\ UNCHANGED <<binlog, purged, cuts, cs, rotName, next, tm, buf, saved, history>>

\* RedisCmdWithReply reports success without a reply when Redis hangs up on
\* every try (see RedisClient); ReadNextReqPos follows the null pointer.
ReconnectDies ==
    /\ pc = "Reconnect"
    /\ retry <= RetryLimit
    /\ "hangup" \in Faults
    /\ sess' = NoSession
    /\ pc' = "Down"
    /\ UNCHANGED <<binlog, purged, cuts, memory, saved, history>>

\* A Connect that fails ends the process.
ReconnectFails ==
    /\ pc = "Reconnect"
    /\ "connect" \in Faults
    /\ sess' = NoSession
    /\ pc' = "Down"
    /\ UNCHANGED <<binlog, purged, cuts, memory, saved, history>>

\* SIGTERM, SIGINT or anything worse, between any two steps.
Crash ==
    /\ "crash" \in Faults
    /\ pc # "Down"
    /\ interrupted' = IF pc = "Rows" THEN interrupted \union ({At(buf)} \ Accounted)
                      ELSE interrupted
    /\ sess' = NoSession
    /\ pc' = "Down"
    /\ UNCHANGED <<binlog, purged, cuts, memory, saved, delivered, jumped, orphaned>>

\* Someone starts the process again: only Redis remembers anything.
Restart ==
    /\ pc = "Down"
    /\ FreshMemory
    /\ sess' = NoSession
    /\ pc' = "Init"
    /\ UNCHANGED <<binlog, purged, cuts, saved, history>>

Startup == StartPosition \/ StartChecksum \/ StartFails
Reading == Request \/ RequestLost \/ Receive \/ ReceiveNothing
Handling ==
    \/ ParseOtherFlag \/ ParseError \/ ParseShort
    \/ ParseRotate \/ ParseFormat \/ ParseTablemap \/ ParseOther
    \/ ParseRowOrphan \/ ParseRowUnmatched \/ ParseRowMatched
    \/ DeliverRows
Reconnecting == ReconnectAtLatest \/ ReconnectAtSaved \/ ReconnectDies \/ ReconnectFails
Process == Startup \/ Reading \/ Handling \/ Reconnecting

Server == MasterNext /\ UNCHANGED <<pc, memory, saved, history>>

Next == Server \/ Process \/ Crash \/ Restart

Spec == Init /\ [][Next]_vars

\* The thread never sleeps for long: what it can do, it does.  The server
\* sends what a session is due; a person restarts the process, or not.
FairSpec == Spec /\ WF_vars(Process)

(***************************************************************************)
(* Properties.                                                             *)
(***************************************************************************)
\* Every variable has its type (process.h, packet.h, event.h, business.h).
TypeOK ==
    /\ MasterTypeOK
    /\ pc \in Pcs
    /\ cs \in BOOLEAN
    /\ req \in Positions /\ next \in Positions /\ saved \in Positions
    /\ retry \in 0 .. RetryLimit + 1
    /\ rotName \in Int
    /\ alg \in Algs
    /\ tm \in [Tids -> Maps]
    /\ buf \in Packets
    /\ delivered \subseteq EventIds /\ jumped \subseteq EventIds
    /\ orphaned \subseteq EventIds /\ interrupted \subseteq EventIds

\* The position in Redis never passes a matching row event nobody accounts
\* for, nor does the event being handed out: each one before it was handed
\* out, or was skipped by a start at the end of the log, dropped for want of
\* its table map, or caught between save and hand-out by a kill
\* (ParseRowEvent saves first, packet.cc:209, and parses after, 213).
NothingLost ==
    \A e \in MatchingRows \ Accounted :
        /\ Before(e, saved) => pc = "Rows" /\ e = At(buf)
        /\ pc = "Rows" => ~Before(e, At(buf))

\* While Redis, queries and the connection keep their word, rows are handed out in log
\* order and never twice, over any sequence of reconnects, kills and starts:
\* the position is saved before the rows are parsed (packet.cc:209).
DeliversForward ==
    [][pc = "Rows" /\ pc' = "Read" => \A d \in delivered : Before(d, At(buf))]_vars

\* While Redis and queries keep their word the saved position never moves back: the ROTATE
\* a session opens with saves the position just requested (packet.cc:129), and
\* that must be no older than the one in Redis.
SavedMonotone == [][~Before(saved', saved)]_vars

\* A handler strips a checksum exactly from the events that carry one, over
\* reconnects, file switches and a server that turns checksums on or off:
\* what ResetContext and ParseFormatEvent are for (packet.cc:118, 160, 191).
CrcAgreement ==
    Parsing("ok", {"ROTATE", "TABLEMAP", "ROWS"}) => StripsCrc = buf.crc

\* Rows are decoded with the table map of the file they are in, metas too,
\* though ids are handed out anew in every file (packet.cc:141-148) and a
\* known id's metas are not replaced (event.cc:155).
MetaAgreement ==
    Parsing("ok", {"ROWS"}) /\ tm[buf.tid].def # NoTable =>
        LET table == TableOf[buf.file][buf.tid]
        IN  tm[buf.tid] = [def |-> table, meta |-> table]

\* What Redis holds always names an event boundary of a file the server
\* wrote, so that a reconnect has something to ask for (business.cc:45).
SavedServable ==
    saved = NoPos \/ (saved.file \in 1 .. Last /\ saved.pos \in 1 .. EndOf(saved.file))

\* A row event is dropped for want of its table map only if the dump was
\* requested between the two: the last map for the id lies before the
\* requested offset of the same file, and none came after (packet.cc:195).
OrphanOnlyMidStatement ==
    [][\A e \in orphaned' \ orphaned :
          LET MapsId(k) == binlog[e.file].evs[k] = Event("TABLEMAP", EventAt(e).tid)
          IN  /\ req.file = e.file
              /\ \E k \in 1 .. req.pos - 1 : MapsId(k)
              /\ \A k \in req.pos .. e.pos - 1 : ~MapsId(k)]_vars

\* Every matching row event the server commits is accounted for in the end,
\* whatever EOF packets, purges and failing Redis commands
\* come in between (Process::Run, process.cc:166-191).
Settles ==
    \A e \in EventIds : e \in MatchingRows ~> e \in Accounted

\* No row of a matched table is dropped for want of its table map: a map
\* stays valid until its file has been parsed (packet.cc:141).
NoOrphans == orphaned = {}

\* A reconnect asks for the position stored in Redis (business.cc:45).
ReconnectResumes ==
    [][pc = "Reconnect" /\ pc' = "Request" /\ saved # NoPos => req' = saved]_vars
=============================================================================
