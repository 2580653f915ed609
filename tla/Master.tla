------------------------------- MODULE Master -------------------------------
(***************************************************************************)
(* The MySQL server, as far as binlogsub can tell: the binlog files it     *)
(* writes, and the dump session it runs for one subscriber.  The server is *)
(* not under src/; every definition here is modelled from how the code in  *)
(* src/ talks to it (ReqBinlog, Packet::Read, the four event parsers).     *)
(*                                                                         *)
(* Offsets count events: the event with index k of a file starts at offset *)
(* k, and its header's log position is k + 1.  Offset 1 is the 4 of a real *)
(* file.  A file name is its number; 0 is the empty string.                *)
(***************************************************************************)
EXTENDS Integers, Sequences, FiniteSets

CONSTANTS
    Tids,          \* table ids the server hands out
    Tables,        \* the server's tables
    TableOf,       \* TableOf[f][t]: the table that id t stands for in file f
    Txns,          \* the groups of events a commit may append
    Crcs,          \* the values binlog_checksum takes: subset of BOOLEAN
    GeneratedCrc,  \* does the ROTATE sent between two files carry a checksum?
    Faults,        \* what may go wrong, see Subscriber
    MaxFiles,      \* bound: binlog files
    MaxLen,        \* bound: events of a file, not counting its last ROTATE
    MaxCuts        \* bound: sessions the server ends

NoTid == 0
Files == 1 .. MaxFiles
EventTypes == {"FORMAT", "TABLEMAP", "ROWS", "ROTATE", "OTHER"}
Events == [type : {"TABLEMAP", "ROWS"}, tid : Tids]
          \union [type : {"FORMAT", "ROTATE", "OTHER"}, tid : {NoTid}]
TxnEvents == {e \in Events : e.type \notin {"FORMAT", "ROTATE"}}
LogFiles == [crc : BOOLEAN, evs : Seq(Events)]
EventIds == [file : Files, pos : 1 .. MaxLen + 1]
Phases == {"none", "open", "format", "events", "err", "eof", "closed"}
Streaming == {"open", "format", "events"}

Packets == [flag : {"ok", "err", "eof", "unset", "junk"},
            type : EventTypes \union {"SHORT"},
            tid : Tids \union {NoTid},
            file : Int, pos : Nat, logPos : Nat, crc : BOOLEAN]

ASSUME TidsAssumption == Tids \subseteq Nat \ {NoTid}
ASSUME TableOfAssumption == TableOf \in [Files -> [Tids -> Tables]]
ASSUME TxnsAssumption == Txns \subseteq Seq(TxnEvents)
\* A statement's row events come behind the maps of its tables.
ASSUME MapsFirstAssumption ==
    \A txn \in Txns : \A k \in 1 .. Len(txn) :
        txn[k].type = "ROWS" =>
            \E j \in 1 .. k - 1 : txn[j].type = "TABLEMAP" /\ txn[j].tid = txn[k].tid
ASSUME CrcAssumption == Crcs \subseteq BOOLEAN /\ GeneratedCrc \in BOOLEAN
ASSUME BoundsAssumption ==
    MaxFiles \in Nat \ {0} /\ MaxLen \in Nat \ {0} /\ MaxCuts \in Nat

VARIABLES
    binlog,  \* the files written so far: has a checksum per event or not, events
    purged,  \* how many of the oldest files are gone
    sess,    \* the subscriber's dump session
    cuts     \* sessions the server ended so far

masterVars == <<binlog, purged, sess, cuts>>

Event(type, tid) == [type |-> type, tid |-> tid]
FirstEvent == Event("FORMAT", NoTid)
NewFile(crc) == [crc |-> crc, evs |-> <<FirstEvent>>]
Extended(f, evs) == [crc |-> binlog[f].crc, evs |-> binlog[f].evs \o evs]
NoSession == [phase |-> "none", file |-> 0, pos |-> 0, aware |-> FALSE]

Last == Len(binlog)
EndOf(f) == Len(binlog[f].evs) + 1
Latest == [file |-> Last, pos |-> EndOf(Last)]

Before(p, q) == p.file < q.file \/ (p.file = q.file /\ p.pos < q.pos)

MasterInit ==
    /\ \E crc \in Crcs : binlog = <<NewFile(crc)>>
    /\ purged = 0
    /\ sess = NoSession
    /\ cuts = 0

(***************************************************************************)
(* The log.                                                                *)
(***************************************************************************)
\* A transaction reaches the log as one group.
Commit(txn) ==
    /\ Len(binlog[Last].evs) + Len(txn) <= MaxLen
    /\ binlog' = [binlog EXCEPT ![Last] = Extended(Last, txn)]
    /\ UNCHANGED <<purged, sess, cuts>>

\* FLUSH LOGS, a full file or SET GLOBAL binlog_checksum: the old file ends
\* with a ROTATE event, the new one may differ in its checksums.
RotateLog(crc) ==
    /\ Last < MaxFiles
    /\ binlog' = Append([binlog EXCEPT ![Last] = Extended(Last, <<Event("ROTATE", NoTid)>>)],
                        NewFile(crc))
    /\ UNCHANGED <<purged, sess, cuts>>

\* A server that crashed and came back opens a new file; the old one has no
\* ROTATE, and every connection is gone.
RestartServer(crc) ==
    /\ Last < MaxFiles
    /\ sess.phase # "none" => "tcp" \in Faults
    /\ binlog' = Append(binlog, NewFile(crc))
    /\ sess' = IF sess.phase = "none" THEN sess ELSE [sess EXCEPT !.phase = "closed"]
    /\ UNCHANGED <<purged, cuts>>

\* PURGE BINARY LOGS spares the last file and the one being dumped.
PurgeLog ==
    /\ "purge" \in Faults
    /\ purged + 1 < Last
    /\ sess.phase \in Streaming => sess.file > purged + 1
    /\ purged' = purged + 1
    /\ UNCHANGED <<binlog, sess, cuts>>

(***************************************************************************)
(* The dump session.                                                       *)
(***************************************************************************)
\* COM_BINLOG_DUMP: a file or an offset the server does not have is refused,
\* the empty name with the offset 0 as well.
OpenSession(file, pos, aware) ==
    LET known == file \in purged + 1 .. Last /\ pos \in 1 .. EndOf(file)
    IN  sess' = [phase |-> IF known THEN "open" ELSE "err",
                 file |-> file, pos |-> pos, aware |-> aware]

\* The dump thread is killed (EOF packet) or the connection is lost.
EndSession ==
    /\ sess.phase \in Streaming
    /\ cuts < MaxCuts
    /\ \/ "eof" \in Faults /\ sess' = [sess EXCEPT !.phase = "eof"]
       \/ "tcp" \in Faults /\ sess' = [sess EXCEPT !.phase = "closed"]
    /\ cuts' = cuts + 1
    /\ UNCHANGED <<binlog, purged>>

Packet(type, tid, file, pos, logPos, crc) ==
    [flag |-> "ok", type |-> type, tid |-> tid, file |-> file, pos |-> pos,
     logPos |-> logPos, crc |-> crc]

Bare(flag, type) ==
    [flag |-> flag, type |-> type, tid |-> NoTid, file |-> 0, pos |-> 0,
     logPos |-> 0, crc |-> FALSE]

\* The phase in which the events of file f are sent: a subscriber that did
\* not announce checksums is refused a file that has them.
PhaseFor(f, phase) == IF binlog[f].crc /\ ~sess.aware THEN "err" ELSE phase

\* The ROTATE the server makes up to name the file it starts with.
SendOpening(p) ==
    /\ sess.phase = "open"
    /\ p = Packet("ROTATE", NoTid, sess.file, sess.pos, 0, FALSE)
    /\ sess' = [sess EXCEPT !.phase =
                    PhaseFor(sess.file, IF sess.pos = 1 THEN "events" ELSE "format")]

\* A session that starts inside a file first gets the file's FORMAT event,
\* with its log position set to 0.
SendFormat(p) ==
    /\ sess.phase = "format"
    /\ p = Packet("FORMAT", NoTid, sess.file, 1, 0, binlog[sess.file].crc)
    /\ sess' = [sess EXCEPT !.phase = "events"]

\* The next event of the file.  A ROTATE's payload names the next file.
SendEvent(p) ==
    /\ sess.phase = "events"
    /\ sess.pos < EndOf(sess.file)
    /\ LET e == binlog[sess.file].evs[sess.pos]
           crc == binlog[sess.file].crc
       IN  p = IF e.type = "ROTATE"
               THEN Packet("ROTATE", NoTid, sess.file + 1, 1, sess.pos + 1, crc)
               ELSE Packet(e.type, e.tid, sess.file, sess.pos, sess.pos + 1, crc)
    /\ sess' = [sess EXCEPT !.pos = @ + 1]

\* At the end of a file that has a successor, the server makes up a ROTATE
\* to the successor and goes on with that.
SendSwitch(p) ==
    /\ sess.phase = "events"
    /\ sess.pos = EndOf(sess.file)
    /\ sess.file < Last
    /\ p = Packet("ROTATE", NoTid, sess.file + 1, 1, 0,
                  GeneratedCrc /\ binlog[sess.file].crc)
    /\ sess' = [phase |-> PhaseFor(sess.file + 1, "events"),
                file |-> sess.file + 1, pos |-> 1, aware |-> sess.aware]

SendEnd(p) ==
    /\ sess.phase \in {"err", "eof"}
    /\ p = Bare(sess.phase, "OTHER")
    /\ sess' = [sess EXCEPT !.phase = "closed"]

\* The session sends packet p.
Send(p) ==
    /\ SendOpening(p) \/ SendFormat(p) \/ SendEvent(p) \/ SendSwitch(p) \/ SendEnd(p)
    /\ UNCHANGED <<binlog, purged, cuts>>

MasterNext ==
    \/ \E txn \in Txns : Commit(txn)
    \/ \E crc \in Crcs : RotateLog(crc) \/ RestartServer(crc)
    \/ PurgeLog
    \/ EndSession

MasterTypeOK ==
    /\ binlog \in Seq(LogFiles)
    /\ Last \in Files
    /\ purged \in Nat
    /\ sess \in [phase : Phases, file : Int, pos : Nat, aware : BOOLEAN]
    /\ cuts \in Nat
=============================================================================
