------------------------------- MODULE Columns -------------------------------
(***************************************************************************)
(* Column types, metas and the bytes a value takes: what MySQL writes into *)
(* table maps and row images, and what ReadMeta and ParseColumnValue make  *)
(* of it.  The value itself is left out; what counts is where it ends.     *)
(*                                                                         *)
(* A column is [type, size, len]: its type as the table map has it, what   *)
(* it was declared with (characters, bits, decimals, packed bytes) and the *)
(* length of the data of its values.                                       *)
(***************************************************************************)
EXTENDS Integers, SequencesExt

T == [TINY |-> 1, SHORT |-> 2, LONG |-> 3, FLOAT |-> 4, DOUBLE |-> 5,
      TIMESTAMP |-> 7, LONGLONG |-> 8, INT24 |-> 9, DATE |-> 10, TIME |-> 11,
      DATETIME |-> 12, YEAR |-> 13, NEWDATE |-> 14, VARCHAR |-> 15, BIT |-> 16,
      TIMESTAMP2 |-> 17, DATETIME2 |-> 18, TIME2 |-> 19, NEWDECIMAL |-> 246,
      ENUM |-> 247, SET |-> 248, BLOB |-> 252, STRING |-> 254, GEOMETRY |-> 255]

(***************************************************************************)
(* What the server writes.  Precision and scale of a NEWDECIMAL are packed *)
(* in its size; ENUM and SET are in the table map as STRING.               *)
(***************************************************************************)
TypeInMap(c) == IF c.type \in {T.ENUM, T.SET} THEN T.STRING ELSE c.type

MetaBytes(c) ==
    CASE c.type \in {T.ENUM, T.SET} -> <<c.type, c.size>>
      [] c.type = T.STRING -> <<T.STRING - 16 * (c.size \div 256), c.size % 256>>
      [] c.type = T.NEWDECIMAL -> <<c.size \div 256, c.size % 256>>
      [] c.type = T.VARCHAR -> <<c.size % 256, c.size \div 256>>
      [] c.type = T.BIT -> <<c.size % 8, c.size \div 8>>
      [] c.type \in {T.FLOAT, T.DOUBLE, T.BLOB, T.TIMESTAMP2, T.DATETIME2, T.TIME2,
                     T.GEOMETRY}
           -> <<c.size>>
      [] OTHER -> <<>>

Fixed == {T.TINY, T.YEAR, T.SHORT, T.INT24, T.DATE, T.TIME, T.NEWDATE, T.LONG, T.FLOAT,
          T.TIMESTAMP, T.LONGLONG, T.DOUBLE, T.DATETIME}

\* What columns are declared with; of the rest it does not matter.
Sizes(type) ==
    CASE type = T.STRING -> 0 .. 1023
      [] type = T.VARCHAR -> 0 .. 65535
      [] type \in {T.BLOB, T.GEOMETRY} -> 1 .. 4
      [] type = T.ENUM -> 1 .. 2
      [] type = T.SET -> {1, 2, 3, 4, 8}
      [] type = T.BIT -> 1 .. 64
      [] type = T.NEWDECIMAL ->
             {256 * ps[1] + ps[2] : ps \in {q \in (1 .. 65) \X (0 .. 30) : q[2] <= q[1]}}
      [] type \in {T.TIME2, T.DATETIME2, T.TIMESTAMP2} -> 0 .. 6
      [] OTHER -> 0 .. 255

Variable == {T.STRING, T.VARCHAR, T.BLOB, T.GEOMETRY, T.ENUM, T.SET, T.BIT, T.NEWDECIMAL,
             T.TIME2, T.DATETIME2, T.TIMESTAMP2}

ColumnShape(c) ==
    /\ DOMAIN c = {"type", "size", "len"}
    /\ c.type \in Fixed \union Variable /\ c.size \in Sizes(c.type) /\ c.len \in Nat

\* Bytes of k decimal digits: the fewest that hold them and a sign bit.
DigitBytes(k) == Min({n \in 0 .. 4 : k = 0 \/ (n > 0 /\ (10 ^ k) \div 2 <= 2 ^ (8 * n - 2))})
FourByteGroups(digits) == 4 * (digits \div 9) + DigitBytes(digits % 9)

FixedWidth ==
    [t \in Fixed |->
        CASE t \in {T.TINY, T.YEAR} -> 1
          [] t = T.SHORT -> 2
          [] t \in {T.INT24, T.DATE, T.TIME, T.NEWDATE} -> 3
          [] t \in {T.LONG, T.FLOAT, T.TIMESTAMP} -> 4
          [] t \in {T.LONGLONG, T.DOUBLE, T.DATETIME} -> 8]

\* Bytes of a value of column c.
Width(c) ==
    CASE c.type \in Fixed -> FixedWidth[c.type]
      [] c.type \in {T.STRING, T.VARCHAR} -> c.len + (IF c.size < 256 THEN 1 ELSE 2)
      [] c.type \in {T.ENUM, T.SET} -> c.size
      [] c.type \in {T.BLOB, T.GEOMETRY} -> c.len + c.size
      [] c.type = T.BIT -> (c.size + 7) \div 8
      [] c.type = T.NEWDECIMAL ->
             LET scale == c.size % 256
             IN  FourByteGroups(c.size \div 256 - scale) + FourByteGroups(scale)
      [] c.type = T.TIME2 -> 3 + (c.size + 1) \div 2
      [] c.type = T.TIMESTAMP2 -> 4 + (c.size + 1) \div 2
      [] c.type = T.DATETIME2 -> 5 + (c.size + 1) \div 2

(***************************************************************************)
(* What the code makes of it.                                              *)
(***************************************************************************)
\* ReadMeta's steps through the metas; a type it does not know has none.
MetaAdvance(type) ==
    CASE type \in {T.FLOAT, T.DOUBLE, T.BLOB, T.GEOMETRY, T.TIME2, T.DATETIME2,
                   T.TIMESTAMP2} -> 1
      [] type \in {T.NEWDECIMAL, T.STRING, T.ENUM, T.SET, T.VARCHAR, T.BIT} -> 2
      [] OTHER -> 0

\* ReadMeta: the meta of a column of that type, whose bytes begin at b[p].
ReadMeta(type, b, p) ==
    CASE MetaAdvance(type) = 0 -> 0
      [] MetaAdvance(type) = 1 -> b[p]
      [] type = T.VARCHAR -> b[p] + 256 * b[p + 1]
      [] OTHER -> 256 * b[p] + b[p + 1]

\* A STRING is what its meta says: a long CHAR has the two high bits of its
\* length folded into the type, in the bits of 0x30.  0 stands for unknown.
StringType(meta) ==
    LET byte0 == meta \div 256
        folded == 3 - ((byte0 \div 16) % 4)
    IN  CASE meta < 256 -> [type |-> T.STRING, length |-> meta]
          [] folded # 0 -> [type |-> byte0 + 16 * folded,
                            length |-> (meta % 256) + 256 * folded]
          [] byte0 \in {T.SET, T.ENUM, T.STRING} -> [type |-> byte0, length |-> meta % 256]
          [] OTHER -> [type |-> 0, length |-> 0]

dig2bytes == <<0, 1, 1, 2, 2, 3, 3, 4, 4, 4>>

decimal_bin_size(precision, scale) ==
    LET intg == precision - scale
    IN  4 * (intg \div 9) + dig2bytes[(intg % 9) + 1]
        + 4 * (scale \div 9) + dig2bytes[(scale % 9) + 1]

\* How far the temporal types move the cursor.
TimeAdvance(dec) == CASE dec \in 1 .. 2 -> 3 [] dec \in 3 .. 4 -> 5
                      [] dec \in 5 .. 6 -> 6 [] OTHER -> 3
DatetimeAdvance(dec) == CASE dec \in 1 .. 2 -> 6 [] dec \in 3 .. 4 -> 7
                          [] dec \in 5 .. 6 -> 8 [] OTHER -> 5
TimestampAdvance(dec) == CASE dec \in 1 .. 2 -> 8 [] dec \in 3 .. 4 -> 6
                           [] dec \in 5 .. 6 -> 7 [] OTHER -> 4

\* A length read from the value itself, in n bytes.
Prefixed(n, len) == n + len

Unknown == -1

\* ParseColumnValue: how far it moves the cursor over a value whose length
\* prefix, if it has one, reads len.  Unknown stands for its return of -1.
Advance(type, meta, len) ==
    LET s == IF type = T.STRING THEN StringType(meta) ELSE [type |-> type, length |-> 0]
    IN  CASE s.type \in Fixed -> FixedWidth[s.type]
          [] s.type = T.ENUM -> IF s.length \in 1 .. 2 THEN s.length ELSE Unknown
          [] s.type = T.SET -> s.length
          [] s.type = T.BLOB -> IF meta \in 1 .. 4 THEN Prefixed(meta, len) ELSE Unknown
          [] s.type = T.VARCHAR -> Prefixed(IF meta < 256 THEN 1 ELSE 2, len)
          [] s.type = T.STRING -> Prefixed(IF s.length < 256 THEN 1 ELSE 2, len)
          [] s.type = T.BIT -> (meta \div 256 + 8 * (meta % 256) + 7) \div 8
          [] s.type = T.NEWDECIMAL -> decimal_bin_size(meta \div 256, meta % 256)
          [] s.type = T.TIMESTAMP2 -> TimestampAdvance(meta)
          [] s.type = T.DATETIME2 -> DatetimeAdvance(meta)
          [] s.type = T.TIME2 -> TimeAdvance(meta)
          [] OTHER -> Unknown
=============================================================================
