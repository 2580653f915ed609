# binlogsub in TLA+

binlogsub is a single-threaded daemon. It connects to a MySQL server as a
replication slave would, requests a binlog dump, parses the packets it is sent,
hands the configured columns of matching rows to a consumer (which prints them),
and keeps the position of the next request in Redis. These modules model its
logic, TLC checks them on small instances, and TLAPS proves theorems about them
for every value of the constants.

## 1. Inventory

| Component | Code | State | Operations | Talks to | Hard, and what makes it correct |
|---|---|---|---|---|---|
| Process | `process.cc` | requested position, checksum flag, retry count | Init, Run, Loop, a signal handler that exits | calls everything below | any order of sessions ending, kills and restarts; no matching row is lost without a stated reason |
| MysqlProcess | `mysqlProcess.cc` | one connection | Connect, DisConnect, two queries, ReqBinlog | MySQL | every query and write can fail and most results are ignored |
| Packet | `packet.cc` | header and body buffer | Read, Parse, ReallocBuf, ResetContext | reads MySQL's socket | a connection lost between or inside packets; the buffer is parsed again |
| NormalPacket and events | `packet.cc`, `event.cc` | next position, last ROTATE's name, checksum algorithm, table maps | one handler per event type | Business | state of one file used for the next; saved position and rows in two steps |
| RowEvent, Row, MemBlock | `event.cc`, `row.cc`, `memblock.cc` | cursor, bitmaps, row | Parse, ParseRow, FilterCopy | Config, Business | bitmaps of present columns against positions in the table; a wrong cursor spoils every later column |
| Column types | `event.cc`, `my_time.cc`, `mydecimal.cc` | none | ReadMeta, ParseColumnValue | | widths of some thirty types at their boundaries |
| Business | `business.cc` | the Redis client | SaveNextReqPos, ReadNextReqPos, IncrProcess | MyRedis | what is stored must be a place a session can start at |
| MyRedis | `myredis.cc` | one connection, two replies | two command calls with three tries each | Redis | retries of what may have been executed; connections left over from an earlier call |
| Config, Schema, Regex | `config.cc`, `schema.cc`, `myregex.cc` | settings, schemas | load, look up, match | | sections and keys in any order, halves of pairs kept over lines, a section stored when the next begins |
| Daemon, pid file | `process.cc` | a file | check, fork, write | other instances | check and write are apart, the file is emptied first and never removed |
| Value texts | `event.cc`, `my_time.cc`, `mydecimal.cc`, `myconvert.h` | none | formatting | | signs and fractions |
| Utilities | `util.cc`, `memblock.cc`, `myconvert.h` | none | Base64, DES, length-encoded integers, bitmaps, byte order | | buffers and forms that change at a boundary |
| Log | `log.cc` | a file | output, a new file each day | | |

One call of `Process::Loop`'s body reads a packet and runs its handler to the end;
nothing in the process runs beside it. The concurrency is between the process,
the server (which commits, rotates, purges, restarts and ends sessions while the
process is anywhere), Redis, and whoever kills and starts the process.

## 2. Modules

| Module | Models | How |
|---|---|---|
| `Master` | the MySQL server (external) | `binlog`: files of events; `sess`: the dump session, which sends one packet at a time in the order the parsers expect: made-up ROTATE, FORMAT, events, made-up ROTATE to the next file |
| `Subscriber` | Process, MysqlProcess, Packet, NormalPacket, events, Business | extends `Master`; `pc` is the control point, one action per exchange or handler |
| `MCSubscriber` | instance for TLC | two files, two table ids that swap their tables from file to file |
| `SubscriberProofs`, `LossProofs` | theorems about `Subscriber`: types; no row event is lost | |
| `AgreementProofs` | more of them: checksums, metas and the saved position agree with the log | extends `LossProofs` |
| `OrderProofs` | and its action properties: rows dropped, the saved position, the order of rows | extends `AgreementProofs` |
| `PacketChannel` | abstract: what a reader of packets promises | packets are taken whole, once and in order, or torn by a lost connection |
| `PacketStream` | Packet::Read, ReallocBuf, the dispatch in Packet::Parse, Loop's way around them | the socket is a sequence of bytes, each named by its place in the stream; one action per `read()` |
| `MCPacketStream`, `PacketStreamProofs` | instance, theorems | |
| `PositionStore` | abstract: what `Subscriber` takes for granted of Redis | a save stores its position or leaves the old one, a read reports what is stored or nothing, a death needs a hang-up |
| `RedisClient` | MyRedis and its two calls from Business | one action per blocking exchange of one try |
| `MCRedisClient`, `RedisProofs` | instance, theorems | |
| `Columns` | column types, metas, widths | what MySQL writes (external) beside what `ReadMeta` and `ParseColumnValue` make of it |
| `Values` | what ParseColumnValue, `my_time.cc` and bin2decimal make of a value's bytes | pure operators; a text is the tuple of the numbers in it |
| `EventHeads` | EventCommHead, FormatEvent, TablemapEvent::Parse, the head of RowEvent::Parse, UnpackLenencInt, MemBlock | what MySQL writes (external) and what the code reads, byte by byte |
| `RowImages` | RowEvent::Parse, ParseRow, Row | one action per column; a value is named by its row, image and column |
| `RowTexts` | the texts of a row | MySQL's encodings (external) around their edges against `Values` |
| `MCRowImages` | instance for TLC | every type and meta with a neighbour that a wrong cursor spoils |
| `RowProofs` | theorems about `RowImages` and the operators it is built from | |
| `ConfigFile` | both passes of Config::Load, Schema | one action per line read; a value is the number of its line |
| `Password` | Base64Decode, DesEcDncrypt | pure operators on character codes and bytes |
| `Startup` | main, Process::Init, Daemon, the pid file, Connect | extends `ConfigFile` and `Password`; several processes, one action per system call that others can see |
| `MCStartup` | instance for TLC | every arrangement of four sections; three starts; passwords around every boundary |
| `StartupProofs` | theorems about the pid file and the loader | |

### Subscriber's state and the code

`req` is `m_sBinlogFileName` and `m_uBinlogPos`; `next` is `sNextBinlogFileName` and
`uNextBinlogPos`; `rotName` is the name in the last ROTATE; `alg` is
`cFormatEvent.m_u8Alg`; `tm` is `mTidToTmEvent`, with the table of a map and the table
its metas describe kept apart because `m_vMeta` is only appended to; `buf` is the packet
buffer, which outlives a failed read; `saved` is `binlogsub_pos_hash`. The history
variables say what became of each matching row event: `delivered` to IncrProcess,
`jumped` over by a start at the end of the log, `orphaned` (no table map), or
`interrupted` (killed between the save at `packet.cc:209` and the parse at 213). No
action reads them.

Offsets count events: event `k` of a file starts at offset `k`, its header's log
position is `k + 1`. A file's name is its number, 0 is the empty string, and `Garbled`
is a name with checksum bytes in it or cut short. The `Faults` constant names what the
environment may do; each run chooses.

Each handler is one action with everything it changes, except the row handler, which
is cut where the position has been saved and the rows have not been handed out, so
that a kill can come in between. A saved position of which Redis says nothing may or
may not be stored (`"redis"`), which is what `PositionStore` allows and `RedisClient`
implements.

### PacketStream's state and the code

`pkts` are the packets the server has sent and where in the stream each begins; `arrives`
is the last byte the network delivers, `taken` the last one read. `head` and `body` are
`m_szHeadBuf` and the memory behind `m_pBodyBuf`: each slot holds the place in the stream
its byte came from. `bufLen` and `bodyLen` are `m_uBodyBufLen` and `m_uBodyLen`; what was
allocated is the domain of `body`, half as much again as what is noted. Three header bytes
that do not come from one packet may mean any length of `Garbage`. An event of the
largest payload or more goes out as two packets (`SendCut`), the second of which begins
with whatever byte the event has there. `got` and `torn` are history.

### RowImages' heads

The FORMAT event, the table map and the head of the row event are bytes, parsed in `Init`; the body is known
by its layout, because what matters there is the cursor. Heads are parsed before the first
step and not in one: they are functions of the event alone, and nothing can come between.

### Startup's state and the code

`IsProcessExist(same)` is what `kill(pid, 0)` makes of the id, `same` being the other
processes of the same user: for somebody else's it fails, and a start that finds such an id
passes as if there were no process. Our starts are taken to be one user's.
`stage` is where each start is between `main` and its first request; `pidfile` is what
`atol` makes of the file (`Empty` is the 0 of an empty file); `conf` is the address it has
loaded, `given` the password it has passed to MySQL. One start loads its configuration at
a time: the loader's variables are that process's own, so that the order of loads does not
matter. `unguarded` is history: has a start passed its check while another was between
its own check and its line in the file, or a daemon gone on without the file?

### Composition

`Subscriber` extends `Master` and takes steps on its session variable. `RedisClient`
implements `PositionStore` under the mapping `call <- IF at \in {"idle", "dead"} THEN at
ELSE op`; `SaveNextReqPos`, `ReadNextReqPos` and `ReconnectDies` of `Subscriber` are that
contract's three outcomes. `DeliverRows` of `Subscriber` stands for the parse that
`RowImages` models; `HandOutDies` there is a kill of the process here (`"crash"`).

`PacketStream` implements `PacketChannel` (`Channel == INSTANCE PacketChannel WITH sent <-
Len(pkts)`). That is the contract `Receive` and `ReceiveNothing` of `Subscriber` are written
against: one packet at a time, and after a lost connection the buffer as it was.
`Subscriber` loses connections between packets only; a packet lost half-way leaves a
body that is neither the old one nor the new, which is `PacketStream`'s `torn`. What such
a body makes of the parser's state is not followed into `Subscriber`; it is parsed again
unchanged until a reconnect (`TornStays`).
`Startup` ends where `Subscriber` begins; `ConnectSkipped` leads to failing queries
(`"query"`) there.

## 3. Runs

`CHECK_DEADLOCK FALSE` stands in every configuration because every model may stop: the
server's log is bounded and an idle subscriber blocks in `read()`; a process that died
stays dead; a parse ends.

| Run | Shows | Bounds |
|---|---|---|
| `sub_clean` | types; nothing lost without a reason; checksums, table maps and metas used with the file they belong to; the stored position servable and monotone; rows handed out in order and once; rows dropped only in the middle of a statement | 2 files of 4 events and a ROTATE, checksums on or off per file, 2 sessions ended, 1 retry before the jump |
| `sub_faults` | the state properties with failing Redis commands, queries, requests, a connection lost unnoticed, EOF packets, kills and restarts, in any combination | 2 files, 1 session ended |
| `sub_live` | every matching row event is accounted for in the end | 2 files of 3 events, 1 session ended, the code's retry limit 3 |
| `redis` | types and the count of tries, the contract, leftover connections, termination | 2 positions, 3 tries, a password |
| `rows` | heads are read as written; every wanted column of every row is handed out from its own place; the body is read to its end; the parse ends; a hand-out dies only of an index or a type that is unknown; the numbers printed for a value are the value's, but for the wrong texts listed below | 537 row events: every type and meta with two neighbours (`v_rows`'s with the column null throughout), all bitmaps of three columns, 7 to 9 columns of nine, tables of 250 to 252 columns and metas of 250 to 258 bytes, ids and extra data of every length, servers with, without and before checksums; some dozens of values per type |
| `stream` | whole packets arrive once, in order, over any cutting into reads; the buffer is never overrun; what a lost connection leaves is parsed unchanged until a reconnect; nothing that was sent is waited for | 3 packets, two of which may be one event, 2 connections, a buffer smaller than some packets |
| `start` | the settings and schemas read are those of the file; at most one daemon unless the check was raced; an empty pid file lets nobody in; passwords arrive as they were meant; every start ends | 2801 files of up to four sections out of seven; 3 starts, 4 process ids; 35 passwords |
| `v_*` | five disagreements, below | |

Why the bounds are enough. Two files show everything that outlives a file (table maps,
algorithm, name), and the ids mean other tables in the second. Four events hold a
statement with two row events, so that a session can end between them, or two
transactions. Two ended sessions with `RetryLimit = 1` reach a resume, a jump and what
follows; the counter itself is compared with the real limit in `sub_live` and `v_retry`.
One positive and one negative position pair distinguishes old from new in `redis`. An
event of `rows` (`EventShape`) has 1 to 4096 columns, MySQL's limit, and at least one of
them in its first image: an INSERT of no column at all under minimal row images has a row of
no bytes, which the loop of `RowEvent::Parse` never sees. In
`rows` the second and third column of each event have a two-byte meta, a length prefix
and a fraction, so a cursor or a meta off by one changes what is handed out; 251 columns
and 251 bytes of metas are the first that one byte cannot count. In `stream` a second
packet is enough to tell what is left of a first one, and a second connection to reach
the reconnect. Four sections hold a schema, two columns and what can stand between them,
or a section, its repetition and a neighbour on either side. Three starts are a daemon, a
second one and one in the foreground; the fourth id is the one left for the fork, or for
a stranger, who appears only while no start to come or fork is short of ids.

Fairness. `FairSpec` of `Subscriber` is weak fairness of the process's own steps: the
thread runs whenever it is not blocked, reads what the server sends, and the server
sends what a session is due (a receive is one action, so its fairness is the server's
too). Nothing makes the server commit or end sessions, nobody has to restart a dead
process. `RedisClient` assumes that every exchange ends (a reply or a closed
connection), `RowImages` that the parse is not suspended forever. `PacketStream` assumes
that the thread goes on while `read()` has bytes for it or an end to report, and nothing
of the network. `Startup` assumes that a process takes its next step; kills and other
processes are nobody's duty.

### Disagreements found

- `v_tcp`: on a lost connection `Packet::Read` returns without a packet, `Loop` ignores
  it (`process.cc:203`) and parses the previous packet again, without end.
- `v_orphan`: the position saved after the first row event of a statement lies behind
  its table map; after a reconnect the second row event finds none and is dropped.
- `v_retry`: the comment at `business.cc:45` says that the stored position is what a
  reconnect asks for; every fifth reconnect asks for the end of the log.
- `v_redis`: `myredis.h:18` says what the calls return; an error or a missing reply can
  return 0.
- `v_rows`: TIME and TIMESTAMP with one or two decimals move the cursor by the wrong
  number of bytes (`my_time.cc:30`, `my_time.cc:143`). In `rows` such columns are always
  null, so that nothing is read behind a value of theirs; their texts are checked there.

More that no run is spent on. `doc/parse_binlog.doc:5` says that ROTATE events have no
checksum; that is true of the one a session opens with, while the one that ends a file has
one and the code strips it, which `CrcAgreement` checks. And some texts are not the values':
unsigned integers and ENUMs of one byte from the upper half are printed negative, the year
0000 as 1900, and the seconds of an old TIME as its hours and minutes. The fraction of a
negative TIME of one or two decimals is printed 2560000 too large: its byte is at least 128
and is read as a signed `char` (`my_time.cc:29`; `char` is signed on x86), so that 0xF6 is
-10, line 51 makes -266 of it, and -00:00:00.1 has the fraction 2660000, where the table at
`my_time.cc:37-43` gives 246 for 0xF6 and so 100000. `TextsTell` states what is printed
(`Printed`), and checks it at every value of `Values`, with the types and metas as they
arrive in the table map.

## 4. Proofs

`SubscriberProofs` proves `TypeCorrect` from the assumptions named in `Master` and
`Subscriber` (table ids are positive, transactions are sequences of events that hold no FORMAT or
ROTATE, bounds are positive). `TypeOK` is not inductive: a handler looks up `TableOf[buf.file][buf.tid]` and
puts `At(buf)` into a set of event names, which is typed only if a table map or row event
in the buffer is one of the log. The invariant `TypeInv` adds `LogOK` (files are event
sequences within their bounds), `SessOK` (a session's cursor is a place in the log),
`Genuine(buf)` (what is in the buffer is in the log) and `RowsOK` (rows are handed out
with a row event in the buffer). That the log only grows (`LogGrows`) keeps `Genuine`.

`LossProofs` proves `LossAccounted`, that is `NothingLost` for every combination of
faults. Call a position passed when it is in the log and every matching row event before
it is accounted for. `NothingLost` says this of the saved position only and is not
inductive: that position comes from the packet buffer and the name in the last ROTATE,
these come from the session, the session from the requested position, and that from
Redis. `LossInv` therefore says it all the way round: of `req`, of `saved` (but for the
row event being handed out), of the session's cursor (but for the row event in the
buffer), and of the place a ROTATE or row event in the buffer names. Three facts tie
these together: the name the parser goes by is that of the session's file or garbled
(`NameOK`, `BufNameOK`; a garbled name precedes every file, so saving it passes nothing);
the table maps are those of the session's file, so that a row event taken for unmatched
is (`MapsOK`, `BufMapsOK`); and a ROTATE event ends its file (`RotatesLast`). A server
step keeps a passed position so (`PassedStays`) because it changes only the last file and
adds events behind the end of the log (`PendingStep`). The parts of `LossInv` were
model-checked on the instances of `sub_clean` and `sub_faults` before they were proved.

`AgreementProofs` proves three agreements between what the parser holds and what the server
wrote. `CrcAgrees` rests on `CrcInv`: up to the FORMAT event of a session's first file there
is no algorithm (`OpeningOK`, `StartOK`: that is what `ResetContext` is for); behind a
file's FORMAT event the parser goes by that file (`AlgOK`), which it can because checksums
are sent only to a subscriber that has announced them (`AwareOK`). `MetasAgree` adds to
`LossInv` that a map's metas are those of its own definition (`MetaOK`): they would not be
if a handler could meet a known id without the FORMAT event that clears the maps in between.
`SavedAlwaysServable` follows a position backwards as `LossInv` does, but asks that it be an
event's boundary (`PlaceOK`): the pair of name and offset that is saved comes from two
events, and it is the checksum agreement that keeps the name whole.

`CrcAgrees` and `SavedAlwaysServable` assume `GeneratedCrc`: the ROTATE the server makes up
between two files carries a checksum when events do. The runs use the same value; without it
the code cuts the name short.

`OrderProofs` proves the three action properties. `OrphansOnlyMidStatement` holds under
every fault. Its invariant `OrphanInv` adds to `LossInv` that a row event stands behind a
map of its id in its own transaction in every file (`FilesOK`, from the assumption
`MapsFirstAssumption` on transactions, which is how MySQL writes them), that the session
began where `req` says (`RequestedOK`), with no event left in the buffer (`StartOK`), and
that every map between there and the cursor has been seen (`SeenOK`, `BufMapOK`): a row
event without a map then has its map before `req`.

`SavedNeverMovesBack` and `DeliversOnlyForward` hold under the faults `sub_clean` has and
more: ends of sessions, EOF packets, failing requests, kills, purges. `OrderInv` says that
everything a position is saved from is the saved position or one after it: the requested position,
the session's cursor, the buffer (`AheadOK`). `DeliverInv` adds that a row event is saved
before its rows are handed out (`RowsSaved`), so that everything delivered lies before the
saved position (`DeliveredSaved`, `DeliveredBefore`) and the buffer is never one already
handed out (`NothingStale`). What they exclude is needed. TLC finds both properties broken
as soon as queries may fail: a jump to the end of the log whose query fails asks again for
the position of the session before, which lies behind the saved one. A Redis that says
nothing of a read has the same effect, and after a lost connection that nobody notices the
last packet is parsed again (`v_tcp`), so its rows are handed out twice.

`RedisProofs` proves `RedisTypeCorrect`, `LeftoverBounded` and `StoreImplemented` for any
positions and any number of tries. The invariant adds to the types that a reply held
while a call returns is what Redis stores, that a return value of 0 without an answer
needs a hang-up in this call, and that a call which connected itself is logged in.

`PacketStreamProofs` proves `StreamTypeCorrect`, `ReadsHaveRoom`, `PacketsDelivered` (the
refinement of `PacketChannel`) and `TornBytesStay` for any payloads, sizes and bounds.
`PacketsDelivered` needs to know that what is parsed without a lost connection is the
packet that is due. `StreamInv` says why: the packets lie one behind the other in the
stream (`Contiguous`); while a connection has not failed, the cursor is inside the packet
after the last one parsed, and the header and the part of the body read so far hold its
bytes (`Framed`); once a read has failed, nothing arrives any more and the buffers stay as
they are (`Stranded`). `ReadsHaveRoom` needs in addition that what is noted of the buffer's
size is never more than what was allocated, which every `ReallocBuf` keeps.

`StartupProofs` proves `OneDaemonAlways` and `EmptyFileAlwaysStays` for any number of
starts and ids, any configuration files and any faults; the one assumption is that ids are
positive (`PidsAssumption`). `OneDaemon` is not inductive: what keeps a second daemon out
is the line in the file, so `PidInv` says (`Guarded`) that either the daemon past its line
is the one the file names, or one alone is on its way from its check to its line, over an
empty file if it has opened it. A process that is named is found by the next check
(`NamedExists`), which needs that it has an id for as long as it lives (`Living`); an id
used again by a stranger only keeps more starts out.

`StartupProofs` also proves `SettingsAlwaysFound`: for files of any length and any sections, a
setting is what stands in the first section of its name, or nothing if that section ends the
file. The invariant says what has been collected since the current section began
(`CollectedFor`) and that the first section of a name is stored, with its own lines, exactly
when another section has followed it (`CommOK`). The hypothesis `AskedInPlace` is needed:
keys of a schema section, or above the first section, are not dropped, and would be found in
the next common section before that section's own. That the least line of a set exists comes
from the well-foundedness of the natural numbers (`LeastOf`), which stands in for induction.

The second pass is `SchemasAlwaysFound`. The loader keeps a half of a pair until the other
half comes, in whichever order, and adds the columns to the last schema it made. `SchemaInv`
therefore compares everything with the lines above the current one: what has been made is what
stands whole above it (`SchemasOK`), in the place it takes among those (`Place` counts them
with `Cardinality`), and a half that is held is that of the last section which is not whole
yet (`HalvesOK`). A line that completes a pair adds the greatest element of its set, so the
places of the others stay (`PlaceAdded`, `PlaceLast`); a schema is whole before the columns
below it because the theorem, like the property, is about files whose pairs are whole. The
hypothesis `KeysAtHome` is needed: what follows a common section is taken for the schema section before it,
and a half said twice stays behind for the next pair. Every file of `start` satisfies it, and
`SchemaInv` was model-checked there before it was proved.

`StartupTypes` gives the types of the loader, the starts and the password for any files and
faults. What `Connect` makes of a password is computed once, in the initial state, by folds,
`FlattenSeq` and `SelectSeq`, which are recursions over the text and out of the provers'
reach; the theorem therefore takes as its hypothesis that the results are texts
(`FinalsAreTexts`). `start` checks just that, through `TypeOK`, for each of its passwords.

`RowProofs` proves the five state properties of `RowImages` for any tables and rows.
`HeadsAreRead` is about bytes: it follows the FORMAT event, the table map and the row event's
head field by field (`Holds(b, p, x)`: the bytes `x` stand in `b` at offset `p`), and shows
that what is read at the cursor is the field that was written and that the cursor then
stands behind it (`FormatRead`, `TablemapRead`, `RowHeadRead`). The limit of 4096 columns is
needed: counts and lengths then fit the forms `UnpackLenencInt` is asked for here.

`RowsAsWritten` and `BodyIsRead` rest on `RowInv`, which is `HeadsInv` (the heads are read),
`PlaceInv` (where the parser is: `uPresentPos` is the number of columns present before
column `i`, and as many cells have been pushed as columns passed) and `ReadInv` (the cursor
is where the server wrote what is taken next, the null bitmap is that of this image, and all
cells so far are those written). `PlaceInv` alone, which gives `RowTypes`, survives a cursor
out of place, so the types hold for tables with columns nobody can decode as well. That the
layout adds up needs facts about sums, ranks in a set and widths which would be inductions:
sums are recursive functions, reached from 0 by the least counterexample (`AllReached`,
`Folding`), and a column's width is compared with the cursor's advance type by type
(`ColumnPassed`). The theorems assume `NoneMisread`: no row has a value in a TIME or TIMESTAMP of
one or two decimals, which `v_rows` shows to be needed. The events of `rows` all satisfy it.
`RowInv` was model-checked on the instance of `rows` before it was proved.

`HandOutAlwaysSafe` needs no such assumption: wherever the cursor has gone, both images of a
row get a place for every column (`SafeInv`), so the assertion of `GetColumnByIndex`, which
looks at the new values for the old ones too, is enough unless a column's type is unknown.

Only model-checked: liveness (`Settles`, `Returns`, `Ends`, `PacketsParsed`, `StartsEnd`),
which the provers do not reach; the texts of values (`TextsTell`) and the decoding of a password
(`PasswordKept`), which are computed by folds over digits, characters and bytes: that such a
fold undoes another one is an induction over data.

## 5. Not modelled, and the plan

Modelled so far: the dump session with everything that can go wrong between packets,
because that is where rows get lost; the client it relies on; the byte stream below it; the
heads, images and texts of row events; the configuration file, the password and the start
of the process.

The plan is carried out: every safety property that a passing run checks is a theorem, except
the two that are about folds. With a prover that can instantiate the induction theorems, what
comes next is what `Base64Decode` and `DesEcDncrypt` return, which would discharge the
hypothesis of `StartupTypes` and prove `PasswordKept`, and then `TextsTell`.

Not modelled, and why:

- The log: it prints, and changes its file when the day of the month of the last write
  is not today's; nothing depends on it.
- Regular expressions: a wrapper of `regcomp` and `regexec`. Which table matches is a constant.
- Texts of FLOAT and DOUBLE (`%f`), of the old DATETIME (14 decimal digits, more than TLC's
  integers hold), of strings, SET and BIT (bytes handed on as they are), and layout: zeros in
  front, colons, dashes.
- Splitting a configuration line at its `=`, blanks in it, and the numbers it spells.
- Numbers of eight bytes among the length-encoded ones: no table has as many columns.
- Joining an event of 16 MB: the code does not, `PacketStream` shows the packets it sees.
- The pipeline commands, `Reconnect`, `RedisCmd`, `KeepAlive` (no caller), and a peer that
  vanishes without closing its connection (no fairness of the code wakes a blocked `read()`).
