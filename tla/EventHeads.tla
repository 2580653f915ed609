----------------------------- MODULE EventHeads -----------------------------
(***************************************************************************)
(* The heads of events, byte by byte: EventCommHead::Parse, FormatEvent,   *)
(* TablemapEvent::Parse, RowEvent::Parse up to the first row,              *)
(* UnpackLenencInt and the bitmaps of MemBlock.  A packet is the sequence  *)
(* of its bytes; offsets count from 0 as the code's do.                    *)
(*                                                                         *)
(* Of an event, head is [tid, postHead, extra, crc, enable]: its table id, *)
(* the length of its post-header, the length of its extra data, what the   *)
(* server knows of checksums, and what the process found out about that    *)
(* when it started; names are those of the database and the table.         *)
(***************************************************************************)
EXTENDS Values

(***************************************************************************)
(* What the server writes.                                                 *)
(***************************************************************************)
BytesBig(n, k) == [j \in 1 .. k |-> (n \div 256 ^ (k - j)) % 256]

\* k bytes hold a number of TLC's; more of them are zeros in front.
Bytes(n, k) ==
    LET short == IF k > 3 THEN BytesBig(n, 3) ELSE BytesBig(n, k)
        top == <<n \div 2 ^ 24>>
    IN  IF k > 3 THEN [j \in 1 .. k - 4 |-> 0] \o top \o short ELSE short

LittleBytes(n, k) == Reverse(Bytes(n, k))

Lenenc(n) ==
    CASE n < 251 -> <<n>>
      [] n >= 251 /\ n < 65536 -> <<252>> \o LittleBytes(n, 2)
      [] OTHER -> <<253>> \o LittleBytes(n, 3)

\* Eight bits to a byte, the first one of least weight.
BitmapOf(set, n) ==
    LET Bit(k) == IF k \in set THEN 1 ELSE 0
    IN  [j \in 1 .. (n + 7) \div 8 |->
            LET k == 8 * (j - 1)
            IN  Bit(k) + 2 * Bit(k + 1) + 4 * Bit(k + 2) + 8 * Bit(k + 3) + 16 * Bit(k + 4)
                + 32 * Bit(k + 5) + 64 * Bit(k + 6) + 128 * Bit(k + 7)]

\* A flag, then the common header: its event type and bytes of no interest.
Packet(type, payload) == <<0, 9, 9, 9, 9, type>> \o [j \in 1 .. 14 |-> 9] \o payload

\* Row events of version 2 have types of their own, whose post-header takes 10
\* bytes; post-headers of 6 bytes are those of old servers, with short table ids.
FORMAT == 15
TABLE_MAP == 19
TypeOf(kind, head) ==
    (IF head.postHead = 10 THEN 30 ELSE 23) + [INSERT |-> 0, UPDATE |-> 1, DEL |-> 2][kind]
PostHead(type, head) ==
    CASE type \in {TABLE_MAP, 23, 24, 25} -> IF head.postHead = 6 THEN 6 ELSE 8
      [] type \in {30, 31, 32} -> 10
      [] OTHER -> 0

\* A server that knows of checksums names its own, and adds one to this event
\* even if it has none.
Crc == <<7, 7, 7, 7>>
FormatBytes(head) ==
    Packet(FORMAT, <<4, 0>> \o [j \in 1 .. 50 |-> 53] \o [j \in 1 .. 4 |-> 9] \o <<19>>
                   \o [type \in 1 .. 35 |-> PostHead(type, head)]
                   \o IF head.crc = "UNKNOWN" THEN <<>>
                      ELSE <<IF head.crc = "CRC32" THEN 1 ELSE 0>> \o Crc)
CrcOf(head) == IF head.crc = "CRC32" THEN Crc ELSE <<>>

IdBytes(head) == LittleBytes(head.tid, IF head.postHead = 6 THEN 4 ELSE 6)
Flags == <<1, 0>>
NameBytes(name) == <<Len(name)>> \o name \o <<0>>

\* The metas of the columns that have one, one behind the other.
MetaBlock(table) ==
    LET Metas[c \in 0 .. Len(table)] ==
            IF c = 0 THEN <<>> ELSE Metas[c - 1] \o MetaBytes(table[c])
    IN  Metas[Len(table)]

TablemapBytes(e) ==
    LET n == Len(e.table)
    IN  Packet(TABLE_MAP,
               IdBytes(e.head) \o Flags \o NameBytes(e.names[1]) \o NameBytes(e.names[2])
               \o Lenenc(n) \o [c \in 1 .. n |-> TypeInMap(e.table[c])]
               \o Lenenc(Len(MetaBlock(e.table))) \o MetaBlock(e.table)
               \o BitmapOf({}, n) \o CrcOf(e.head))

\* A post-header of 10 bytes has the length of the extra data in it, itself
\* included.  Column c has bit c - 1.  The rows follow.
RowHeadBytes(e) ==
    LET n == Len(e.table)
        Present(image) == BitmapOf({c - 1 : c \in e.present[image]}, n)
    IN  Packet(TypeOf(e.kind, e.head),
               IdBytes(e.head) \o Flags
               \o (IF e.head.postHead = 10
                   THEN LittleBytes(e.head.extra + 2, 2) \o [j \in 1 .. e.head.extra |-> 9]
                   ELSE <<>>)
               \o Lenenc(n) \o Present(1)
               \o (IF e.kind = "UPDATE" THEN Present(2) ELSE <<>>))

(***************************************************************************)
(* What the code reads: a value, and the offset behind it.                 *)
(***************************************************************************)
Number(b, p, k) == [value |-> Little(Part(b, p, p + k - 1)), next |-> p + k]

\* Defect: the byte that says how many follow is not counted.
UnpackLenencIntShort(b, p) ==
    CASE b[p + 1] < 251 -> [value |-> b[p + 1], next |-> p + 1]
      [] b[p + 1] = 252 -> [Number(b, p + 1, 2) EXCEPT !.next = p + 2]
      [] b[p + 1] = 253 -> Number(b, p + 1, 3)

\* UnpackLenencInt; bound: no number has eight bytes here.
UnpackLenencInt(b, p) ==
    CASE b[p + 1] < 251 -> [value |-> b[p + 1], next |-> p + 1]
      [] b[p + 1] = 252 -> Number(b, p + 1, 2)
      [] b[p + 1] = 253 -> Number(b, p + 1, 3)

\* EventCommHead::Parse, behind the flag.
CommHead(b) == [type |-> b[6], next |-> 20]

UNDEF == 255

\* FormatEvent::Parse: the algorithm is looked for only if checksums are on.
FormatEvent(b, bChecksumEnable) ==
    LET uPos == CommHead(b).next + 2 + 50 + 4 + 1
        end == IF bChecksumEnable THEN Len(b) - 4 - 1 ELSE Len(b)
    IN  [heads |-> Part(b, uPos, end - 1), alg |-> IF bChecksumEnable THEN b[end + 1] ELSE UNDEF]

GetPostHeadLen(format, type) == format.heads[type]

\* The length of a body the handlers of table maps and rows reckon with.
WithoutCrc(len, format, bChecksumEnable) ==
    IF bChecksumEnable /\ format.alg \notin {0, UNDEF} THEN len - 4 ELSE len

Tableid(b, format) ==
    LET h == CommHead(b)
    IN  Number(b, h.next, IF GetPostHeadLen(format, h.type) = 6 THEN 4 ELSE 6)

\* A name has its length before it and a zero behind.
Name(b, p) == [value |-> Part(b, p + 1, p + b[p + 1]), next |-> p + 1 + b[p + 1] + 1]

\* TablemapEvent::Parse: ReadMeta column by column through the metas.
Tablemap(b, format) ==
    LET id == Tableid(b, format)
        database == Name(b, id.next + 2)
        table == Name(b, database.next)
        count == UnpackLenencInt(b, table.next)
        types == Part(b, count.next, count.next + count.value - 1)
        length == UnpackLenencInt(b, count.next + count.value)
        TakingBefore(c, n) == Cardinality({d \in 1 .. c - 1 : MetaAdvance(types[d]) >= n})
        uMetaPos(c) == TakingBefore(c, 1) + TakingBefore(c, 2)
    IN  [id |-> id.value, names |-> <<database.value, table.value>>, types |-> types,
         metas |-> [c \in 1 .. count.value |->
                       ReadMeta(types[c], b, length.next + uMetaPos(c) + 1)]]

\* RowEvent::Init and RowEvent::Parse before its loop over the rows.
RowHead(b, format) ==
    LET cmd == CommHead(b).type
        ver == IF cmd \in 23 .. 25 THEN 1 ELSE 2
        update == cmd \in {24, 31}
        id == Tableid(b, format)
        flags == Number(b, id.next, 2)
        extra == Number(b, flags.next, 2)
        count == UnpackLenencInt(b, IF ver = 2 THEN extra.next + extra.value - 2
                                ELSE flags.next)
        size == (count.value + 7) \div 8
        second == count.next + size
        first == Part(b, count.next, second - 1)
    IN  [id |-> id.value, count |-> count.value,
         present |-> IF update THEN <<first, Part(b, second, second + size - 1)>>
                     ELSE <<first>>,
         next |-> IF update THEN second + size ELSE second]

\* MemBlock::GetBit and GetBitsetCount.
GetBit(block, k) == (block[k \div 8 + 1] \div 2 ^ (k % 8)) % 2 = 1
GetBitsetCount(block, n) == Cardinality({k \in 0 .. n - 1 : GetBit(block, k)})
=============================================================================
