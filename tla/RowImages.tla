----------------------------- MODULE RowImages -----------------------------
(***************************************************************************)
(* One row event and its table map: their heads, RowEvent::Parse, ParseRow, *)
(* Row and Row::FilterCopy, up to the hand-out of the last row.            *)
(* The heads are bytes; the rest of the body is known by its layout: which *)
(* bytes belong to which null bitmap and which value.  A value is named by *)
(* its row, image and column; what is read anywhere else is Garbage, and a *)
(* bitmap or a length read there may be anything.                          *)
(***************************************************************************)
EXTENDS EventHeads

CONSTANTS
    Events,   \* the row events to parse, see EventShape
    Lengths   \* bound: what a length prefix misread may say

\* table: its columns.  kind: of the event.  present: the columns in the
\* present bitmaps of the two images.  rows: the columns that are null in the
\* two images of each row.  wanted: the configured column indexes, from 0.
\* head and names are those of EventHeads; it is the table of these names that
\* is configured.
MaxTwoBytes == 65535
MaxColumns == 4096

HeadShape(head) ==
    /\ DOMAIN head = {"tid", "postHead", "extra", "crc", "enable"}
    /\ head.tid \in Nat /\ head.postHead \in {6, 8, 10}
    /\ head.extra \in Nat /\ head.extra + 2 <= MaxTwoBytes
    /\ head.crc \in {"CRC32", "NONE", "UNKNOWN"} /\ head.enable \in BOOLEAN
    /\ head.crc = "CRC32" => head.enable
    /\ head.crc = "UNKNOWN" => ~head.enable

EventShape(e) ==
    /\ DOMAIN e = {"table", "kind", "present", "rows", "wanted", "head", "names"}
    /\ Len(e.table) \in Nat \ {0} /\ Len(e.table) <= MaxColumns
    /\ DOMAIN e.table = 1 .. Len(e.table)
    /\ \A c \in DOMAIN e.table : ColumnShape(e.table[c])
    /\ HeadShape(e.head)
    /\ e.names \in Seq(Seq(0 .. 255)) /\ Len(e.names) = 2
    /\ \A n \in 1 .. 2 : Len(e.names[n]) < 256
    /\ e.kind \in {"INSERT", "UPDATE", "DEL"} /\ e.wanted \in Seq(Nat)
    /\ e.present[1] # {}
    /\ Len(e.rows) \in Nat /\ DOMAIN e.rows = 1 .. Len(e.rows)
    /\ \A image \in 1 .. 2 :
          /\ e.present[image] \subseteq 1 .. Len(e.table)
          /\ \A k \in 1 .. Len(e.rows) : e.rows[k][image] \subseteq e.present[image]

ASSUME EventsAssumption == \A e \in Events : EventShape(e)
ASSUME LengthsAssumption == Lengths \subseteq Nat

VARIABLES
    event,    \* the event being parsed
    map,      \* the table map as TablemapEvent has it
    count,    \* m_u64ColumnCount
    bitmaps,  \* m_cPresentBitmap1 and 2
    uBufLen,  \* the length of the body less its checksum; like uPos it
              \* counts from the first row on
    at,
    uPos,
    r,        \* rows begun
    m,        \* image of the row
    i,        \* column
    uPresentPos,
    bits,     \* m_cNullBitmap: the positions that are set
    row,      \* m_vOldColumn and m_vColumn
    handed    \* the filtered rows IncrProcess got

heads == <<event, map, count, bitmaps, uBufLen>>
vars == <<heads, at, uPos, r, m, i, uPresentPos, bits, row, handed>>

(***************************************************************************)
(* What the server wrote.                                                  *)
(***************************************************************************)
Columns == 1 .. Len(event.table)
Images == IF event.kind = "UPDATE" THEN {1, 2} ELSE {1}
Filled(k, image) == event.present[image] \ event.rows[k][image]
BitmapBytes(image) == (Cardinality(event.present[image]) + 7) \div 8

Sums(w) == LET S[k \in 0 .. Len(w)] == IF k = 0 THEN 0 ELSE S[k - 1] + w[k] IN  S

\* Where values end, counted from the first one of the image; where rows end.
ValueEnds(k, image) ==
    Sums([c \in Columns |-> IF c \in Filled(k, image) THEN Width(event.table[c]) ELSE 0])
ImageBytes(k, image) == BitmapBytes(image) + ValueEnds(k, image)[Len(event.table)]
RowBytes(k) == ImageBytes(k, 1) + (IF event.kind = "UPDATE" THEN ImageBytes(k, 2) ELSE 0)
RowEnds == Sums([k \in 1 .. Len(event.rows) |-> RowBytes(k)])

\* Offsets in the body, its first row at 0.
RowStart(k) == RowEnds[k - 1]
ImageStart(k, image) == RowStart(k) + (IF image = 1 THEN 0 ELSE ImageBytes(k, 1))
ValueStart(k, image, c) ==
    ImageStart(k, image) + BitmapBytes(image) + ValueEnds(k, image)[c - 1]
BodyLen == RowEnds[Len(event.rows)]

\* A null bitmap has a bit for each column present.
Rank(image, c) == Cardinality({d \in event.present[image] : d < c})
NullBits(k, image) == {Rank(image, c) : c \in event.rows[k][image]}

Value(k, image, c) == <<k, image, c>>
Empty == <<>>
Garbage == <<0, 0, 0>>

\* An image as it should be handed out: the wanted columns, in that order.
Written(k, image) ==
    [j \in DOMAIN event.wanted |->
        LET c == event.wanted[j] + 1
        IN  IF c \in Filled(k, image) THEN Value(k, image, c) ELSE Empty]

(***************************************************************************)
(* Parsing the rows.                                                       *)
(***************************************************************************)
NewRow == [old |-> <<>>, new |-> <<>>]

\* The heads have been parsed, those of a FORMAT event, a table map and the row
\* event: ParseRowEvent looks for the table map by the row event's id and for
\* the schema by the map's names, and drops the event if there is none.
Init ==
    /\ event \in Events
    /\ LET format == FormatEvent(FormatBytes(event.head), event.head.enable)
           b == RowHeadBytes(event)
           len == Len(b) + BodyLen + Len(CrcOf(event.head))
           h == RowHead(b, format)
       IN  /\ map = Tablemap(TablemapBytes(event), format)
           /\ count = h.count /\ bitmaps = h.present
           /\ uPos = h.next - Len(b)
           /\ uBufLen = WithoutCrc(len, format, event.head.enable) - Len(b)
           /\ at = IF h.id = map.id /\ map.names = event.names THEN "row" ELSE "done"
    /\ r = 0 /\ m = 1 /\ i = 1
    /\ uPresentPos = 0 /\ bits = {}
    /\ row = NewRow /\ handed = <<>>

RowBegins ==
    /\ at = "row"
    /\ uPos < uBufLen
    /\ at' = "image" /\ r' = r + 1 /\ m' = 1 /\ row' = NewRow
    /\ UNCHANGED <<heads, uPos, i, uPresentPos, bits, handed>>

BodyEnds ==
    /\ at = "row"
    /\ uPos >= uBufLen
    /\ at' = "done"
    /\ UNCHANGED <<heads, uPos, r, m, i, uPresentPos, bits, row, handed>>

InPlace(start) == r <= Len(event.rows) /\ uPos = start

PresentCount == GetBitsetCount(bitmaps[m], count)

\* ParseRow takes the null bitmap: one bit for each column present.
ImageBegins ==
    /\ at = "image"
    /\ bits' \in IF InPlace(ImageStart(r, m)) THEN {NullBits(r, m)}
                 ELSE SUBSET (0 .. PresentCount - 1)
    /\ uPos' = uPos + (PresentCount + 7) \div 8
    /\ at' = "column" /\ i' = 1 /\ uPresentPos' = 0
    /\ UNCHANGED <<heads, r, m, row, handed>>

\* Row::PushBack: the first image of an UPDATE is the old one.
Push(value) ==
    row' = IF event.kind = "UPDATE" /\ m = 1
           THEN [row EXCEPT !.old = Append(@, value)]
           ELSE [row EXCEPT !.new = Append(@, value)]

AtColumn == at = "column" /\ i <= count
Present == GetBit(bitmaps[m], i - 1)

\* Defect: a column that is not in the image has a bit of its own.
AbsentColumnCounted ==
    /\ AtColumn
    /\ ~Present
    /\ Push(Empty)
    /\ i' = i + 1 /\ uPresentPos' = uPresentPos + 1
    /\ UNCHANGED <<heads, at, uPos, r, m, bits, handed>>

\* Defect: a column that is not in the image has no place in the row.
AbsentColumnLeftOut ==
    /\ AtColumn
    /\ ~Present
    /\ i' = i + 1
    /\ UNCHANGED <<heads, at, uPos, r, m, uPresentPos, bits, row, handed>>

AbsentColumn ==
    /\ AtColumn
    /\ ~Present
    /\ Push(Empty)
    /\ i' = i + 1
    /\ UNCHANGED <<heads, at, uPos, r, m, uPresentPos, bits, handed>>

\* Defect: a null column does not use up its bit.
NullColumnUncounted ==
    /\ AtColumn
    /\ Present /\ uPresentPos \in bits
    /\ Push(Empty)
    /\ i' = i + 1 /\ uPresentPos' = uPresentPos
    /\ UNCHANGED <<heads, at, uPos, r, m, bits, handed>>

NullColumn ==
    /\ AtColumn
    /\ Present /\ uPresentPos \in bits
    /\ Push(Empty)
    /\ i' = i + 1 /\ uPresentPos' = uPresentPos + 1
    /\ UNCHANGED <<heads, at, uPos, r, m, bits, handed>>

\* How far ParseColumnValue may move the cursor here.
Advances ==
    LET lengths == IF InPlace(ValueStart(r, m, i)) THEN {event.table[i].len} ELSE Lengths
    IN  {Advance(map.types[i], map.metas[i], len) : len \in lengths}

ValueColumn ==
    /\ AtColumn
    /\ Present /\ uPresentPos \notin bits
    /\ \E n \in Advances \ {Unknown} : uPos' = uPos + n
    /\ Push(IF InPlace(ValueStart(r, m, i)) THEN Value(r, m, i) ELSE Garbage)
    /\ i' = i + 1 /\ uPresentPos' = uPresentPos + 1
    /\ UNCHANGED <<heads, at, r, m, bits, handed>>

\* The second image of an UPDATE follows, else the row is complete; Parse
\* does not look at what ParseRow returned.
AfterImage ==
    /\ IF event.kind = "UPDATE" /\ m = 1
       THEN at' = "image" /\ m' = 2
       ELSE at' = "filter" /\ m' = m
    /\ uPresentPos' = 0 /\ bits' = {}
    /\ UNCHANGED <<heads, uPos, r, i, row, handed>>

\* Defect: a column that could not be decoded is tried again.
UnknownColumnAgain ==
    /\ AtColumn
    /\ Present /\ uPresentPos \notin bits
    /\ Unknown \in Advances
    /\ UNCHANGED vars

\* A type ParseColumnValue does not know ends the image where it stands.
UnknownColumn ==
    /\ AtColumn
    /\ Present /\ uPresentPos \notin bits
    /\ Unknown \in Advances
    /\ AfterImage

ImageEnds ==
    /\ at = "column" /\ i > count
    /\ AfterImage

\* FilterCopy: the wanted columns of the new values, of an UPDATE's old values
\* too, and IncrProcess.  The assertion on the index looks at the new values
\* for both; past the end of the old ones there is whatever memory holds.
Filtered(values) ==
    [j \in DOMAIN event.wanted |->
        IF event.wanted[j] < Len(values) THEN values[event.wanted[j] + 1] ELSE Garbage]
Has(values) == \A j \in DOMAIN event.wanted : event.wanted[j] < Len(values)

HandOut ==
    /\ at = "filter"
    /\ Has(row.new)
    /\ handed' = Append(handed,
                        [old |-> IF event.kind = "UPDATE" THEN Filtered(row.old) ELSE Empty,
                         new |-> Filtered(row.new)])
    /\ at' = "row"
    /\ UNCHANGED <<heads, uPos, r, m, i, uPresentPos, bits, row>>

\* The assertion fails, or memory past the end is no string.
HandOutDies ==
    /\ at = "filter"
    /\ ~Has(row.new) \/ (event.kind = "UPDATE" /\ ~Has(row.old))
    /\ at' = "dead"
    /\ UNCHANGED <<heads, uPos, r, m, i, uPresentPos, bits, row, handed>>

Next ==
    \/ RowBegins \/ BodyEnds \/ ImageBegins
    \/ AbsentColumn \/ NullColumn \/ ValueColumn \/ UnknownColumn \/ ImageEnds
    \/ HandOut \/ HandOutDies

Spec == Init /\ [][Next]_vars

\* The parse is one call: nothing but its own steps can hold it up.
FairSpec == Spec /\ WF_vars(Next)

(***************************************************************************)
(* Properties.                                                             *)
(***************************************************************************)
\* Every variable has its type (event.h:134, row.h:41-42, and the locals).
TypeOK ==
    /\ event \in Events
    /\ map.types \in Seq(0 .. 255) /\ Len(map.metas) = Len(map.types)
    /\ count \in Nat /\ \A image \in DOMAIN bitmaps : bitmaps[image] \in Seq(0 .. 255)
    /\ at \in {"row", "image", "column", "filter", "done", "dead"}
    /\ uPos \in Nat /\ uBufLen \in Nat /\ r \in Nat
    /\ m \in Images
    /\ i \in 1 .. Len(event.table) + 1
    /\ uPresentPos \in 0 .. Cardinality(event.present[m])
    /\ bits \subseteq 0 .. Cardinality(event.present[m]) - 1
    /\ Len(row.old) <= Len(event.table) /\ Len(row.new) <= Len(event.table)

\* The heads are read as the server wrote them: the columns and their metas, the
\* present bitmaps and the length of the rows, whatever the form of the post-
\* headers, the table id, the counts and the checksum (event.cc:119-157, 267-314).
HeadsRead ==
    /\ count = Len(event.table) /\ uBufLen = BodyLen
    /\ map.types = [c \in Columns |-> TypeInMap(event.table[c])]
    /\ map.metas = [c \in Columns |-> ReadMeta(map.types[c], MetaBytes(event.table[c]), 1)]
    /\ DOMAIN bitmaps = Images
    /\ \A image \in Images, c \in Columns :
          GetBit(bitmaps[image], c - 1) <=> c \in event.present[image]

\* ParseColumnValue has a case for every column of the table.
Decodable == \A c \in Columns : event.table[c].type # T.GEOMETRY

\* The rows handed out carry the wanted columns of the rows the server wrote,
\* each value from its own row, image and column, over absent and null columns
\* and every type and meta of MySQL 5.6 (event.cc:317-410, row.cc:61-89).
HandedOutAsWritten ==
    Decodable =>
        \A k \in DOMAIN handed :
            /\ k <= Len(event.rows)
            /\ handed[k] = IF event.kind = "UPDATE"
                           THEN [old |-> Written(k, 1), new |-> Written(k, 2)]
                           ELSE [old |-> Empty, new |-> Written(k, 1)]

\* The cursor ends where the body ends and every row has been handed out: no
\* value is taken too long, too short, or past the body (event.cc:317).
WholeBodyRead ==
    Decodable /\ at = "done" => uPos = BodyLen /\ Len(handed) = Len(event.rows)

\* FilterCopy is safe though its assertion looks at the new values only: however
\* few columns an image has, and wherever the cursor is, a hand-out fails only
\* for an index the table does not have or after a column of a type that
\* ParseColumnValue does not know (row.cc:47-89, event.cc:376-410).
HandOutIsSafe ==
    Decodable /\ at = "dead" =>
        \E j \in DOMAIN event.wanted : event.wanted[j] >= Len(event.table)

\* The parse of a body ends, a column it does not know included: each turn of
\* the loop moves the cursor (event.cc:317-368).
Ends == <>(at \in {"done", "dead"})
=============================================================================
