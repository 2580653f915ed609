------------------------------ MODULE RowProofs ------------------------------
EXTENDS RowImages, FiniteSetTheorems, SequenceTheorems, TLAPS

(***************************************************************************)
(* Columns: every value is passed over by the bytes it takes.              *)
(***************************************************************************)
LEMMA LeastIs ==
    ASSUME NEW S, NEW n \in S, S \subseteq Nat, \A k \in S : n <= k
    PROVE  Min(S) = n
<1>1. \E x \in S : \A k \in S : x <= k
  OBVIOUS
<1>2. Min(S) \in S /\ \A k \in S : Min(S) <= k
  BY <1>1, Zenon DEF Min
<1>3. Min(S) <= n /\ n <= Min(S) /\ n \in Nat /\ Min(S) \in Nat
  BY <1>2
<1>4. QED
  BY <1>3

LEMMA DigitsOfGroup == \A k \in 0 .. 8 : DigitBytes(k) = dig2bytes[k + 1]
<1> DEFINE P(x) == 2 ^ x
           H(k) == (10 ^ k) \div 2
           S(k) == {n \in 0 .. 4 : k = 0 \/ (n > 0 /\ H(k) <= P(8 * n - 2))}
<1>1. P(6) = 64 /\ P(14) = 16384 /\ P(22) = 4194304 /\ P(30) = 1073741824
  BY SMT
<1>2. H(1) = 5 /\ H(2) = 50 /\ H(3) = 500 /\ H(4) = 5000 /\ H(5) = 50000
      /\ H(6) = 500000 /\ H(7) = 5000000 /\ H(8) = 50000000
  BY SMT
<1>3. \A k \in 0 .. 8 : DigitBytes(k) = Min(S(k))
  BY DEF DigitBytes
<1> HIDE DEF P, H
<1>4. \A n \in 1 .. 4 : \/ n = 1 /\ P(8 * n - 2) = P(6)
                        \/ n = 2 /\ P(8 * n - 2) = P(14)
                        \/ n = 3 /\ P(8 * n - 2) = P(22)
                        \/ n = 4 /\ P(8 * n - 2) = P(30)
  <2>1. TAKE n \in 1 .. 4
  <2>2. \/ n = 1 /\ 8 * n - 2 = 6
        \/ n = 2 /\ 8 * n - 2 = 14
        \/ n = 3 /\ 8 * n - 2 = 22
        \/ n = 4 /\ 8 * n - 2 = 30
    OBVIOUS
  <2>3. \A x, y : x = y => P(x) = P(y)
    OBVIOUS
  <2>4. QED
    BY <2>2, <2>3
<1>5. S(0) = 0 .. 4
  BY SMT
<1>6. S(1) = 1 .. 4 /\ S(2) = 1 .. 4
  BY <1>1, <1>2, <1>4, SMT
<1>7. S(3) = 2 .. 4 /\ S(4) = 2 .. 4
  BY <1>1, <1>2, <1>4, SMT
<1>8. S(5) = 3 .. 4 /\ S(6) = 3 .. 4
  BY <1>1, <1>2, <1>4, SMT
<1>9. S(7) = 4 .. 4 /\ S(8) = 4 .. 4
  BY <1>1, <1>2, <1>4, SMT
<1> HIDE DEF S
<1>10. \A n \in 0 .. 4 : Min(n .. 4) = n
  <2>1. TAKE n \in 0 .. 4
  <2>2. n \in n .. 4 /\ n .. 4 \subseteq Nat /\ \A k \in n .. 4 : n <= k
    OBVIOUS
  <2>3. QED
    BY <2>2, LeastIs
<1>11. \A k \in 0 .. 8 : k = 0 \/ k = 1 \/ k = 2 \/ k = 3 \/ k = 4 \/ k = 5 \/ k = 6 \/ k = 7
                         \/ k = 8
  OBVIOUS
<1>12. QED
  BY <1>3, <1>5, <1>6, <1>7, <1>8, <1>9, <1>10, <1>11 DEF dig2bytes

LEMMA TypeNumbers ==
    /\ T.TINY = 1 /\ T.SHORT = 2 /\ T.LONG = 3 /\ T.FLOAT = 4 /\ T.DOUBLE = 5
    /\ T.TIMESTAMP = 7 /\ T.LONGLONG = 8 /\ T.INT24 = 9 /\ T.DATE = 10 /\ T.TIME = 11
    /\ T.DATETIME = 12 /\ T.YEAR = 13 /\ T.NEWDATE = 14 /\ T.VARCHAR = 15 /\ T.BIT = 16
    /\ T.TIMESTAMP2 = 17 /\ T.DATETIME2 = 18 /\ T.TIME2 = 19 /\ T.NEWDECIMAL = 246
    /\ T.ENUM = 247 /\ T.SET = 248 /\ T.BLOB = 252 /\ T.STRING = 254 /\ T.GEOMETRY = 255
BY DEF T

LEMMA FixedNumbers == Fixed = {1, 2, 3, 4, 5, 7, 8, 9, 10, 11, 12, 13, 14}
BY TypeNumbers DEF Fixed

\* The columns by the number of their type.
DecimalSize(n) == \E p \in 1 .. 65, s \in 0 .. 30 : s <= p /\ n = 256 * p + s
ColumnKind(c) ==
    \/ c.type \in Fixed
    \/ c.type = 254 /\ c.size \in 0 .. 1023
    \/ c.type = 15 /\ c.size \in Nat /\ c.size \div 256 \in 0 .. 255
    \/ c.type \in {252, 255} /\ c.size \in 1 .. 4
    \/ c.type = 247 /\ c.size \in 1 .. 2
    \/ c.type = 248 /\ c.size \in {1, 2, 3, 4, 8}
    \/ c.type = 16 /\ c.size \in 1 .. 64
    \/ c.type = 246 /\ DecimalSize(c.size)
    \/ c.type \in {17, 18, 19} /\ c.size \in 0 .. 6

LEMMA ColumnKinds ==
    ASSUME NEW c, ColumnShape(c)
    PROVE  /\ ColumnKind(c) /\ c.len \in Nat
           /\ c.type \in {4, 5} => c.size \in 0 .. 255
<1>1. c.size \in Sizes(c.type) /\ c.len \in Nat /\ c.type \in Fixed \union Variable
  BY DEF ColumnShape
<1>2. \A t \in {4, 5} : \A n \in Sizes(t) : n \in 0 .. 255
  BY TypeNumbers, SMT DEF Sizes
<1>3. \A n \in Sizes(254) : n \in 0 .. 1023
  BY TypeNumbers, SMT DEF Sizes
<1>4. \A n \in Sizes(15) : n \in Nat /\ n \div 256 \in 0 .. 255
  <2> DEFINE W == 0 .. 65535
  <2>1. Sizes(15) = W
    BY TypeNumbers, SMT DEF Sizes
  <2>2. \A n \in W : n \in Nat /\ n \div 256 \in 0 .. 255
    BY SMT
  <2> HIDE DEF W
  <2>3. QED
    BY <2>1, <2>2
<1>5. \A t \in {252, 255} : \A n \in Sizes(t) : n \in 1 .. 4
  BY TypeNumbers, SMT DEF Sizes
<1>6. /\ \A n \in Sizes(247) : n \in 1 .. 2
      /\ \A n \in Sizes(248) : n \in {1, 2, 3, 4, 8}
      /\ \A n \in Sizes(16) : n \in 1 .. 64
  BY TypeNumbers, SMT DEF Sizes
<1>7. \A n \in Sizes(246) : DecimalSize(n)
  <2>1. Sizes(246) =
          {256 * ps[1] + ps[2] : ps \in {q \in (1 .. 65) \X (0 .. 30) : q[2] <= q[1]}}
    BY TypeNumbers, SMT DEF Sizes
  <2>2. QED
    BY <2>1, SMT DEF DecimalSize
<1>8. \A t \in {17, 18, 19} : \A n \in Sizes(t) : n \in 0 .. 6
  BY TypeNumbers, SMT DEF Sizes
<1>9. Variable = {254, 15, 252, 255, 247, 248, 16, 246, 17, 18, 19}
  BY TypeNumbers DEF Variable
<1>10. c.type \in {4, 5} => c.size \in 0 .. 255
  BY <1>1, <1>2
<1>11. ASSUME c.type \in Fixed PROVE ColumnKind(c)
  BY <1>11 DEF ColumnKind
<1>12. ASSUME c.type \in Variable PROVE ColumnKind(c)
  BY <1>1, <1>3, <1>4, <1>5, <1>6, <1>7, <1>8, <1>9, <1>12 DEF ColumnKind
<1>13. c.type \in Fixed \/ c.type \in Variable
  BY <1>1
<1>14. ColumnKind(c)
  BY <1>11, <1>12, <1>13
<1>15. QED
  BY <1>1, <1>10, <1>14

LEMMA FixedInMap ==
    ASSUME NEW c, c.type \in Fixed \ {4, 5}
    PROVE  TypeInMap(c) = c.type /\ MetaBytes(c) = <<>> /\ MetaAdvance(c.type) = 0
BY TypeNumbers, FixedNumbers, SMT DEF TypeInMap, MetaBytes, MetaAdvance

LEMMA OneByteInMap ==
    ASSUME NEW c, c.type \in {4, 5, 252, 255, 17, 18, 19}
    PROVE  TypeInMap(c) = c.type /\ MetaBytes(c) = <<c.size>> /\ MetaAdvance(c.type) = 1
BY TypeNumbers, SMT DEF TypeInMap, MetaBytes, MetaAdvance

LEMMA TwoBytesInMap ==
    ASSUME NEW c, c.type \in {254, 15, 247, 248, 16, 246}
    PROVE  /\ TypeInMap(c) = IF c.type \in {247, 248} THEN 254 ELSE c.type
           /\ MetaBytes(c) =
                IF c.type \in {247, 248} THEN <<c.type, c.size>>
                ELSE IF c.type = 254 THEN <<254 - 16 * (c.size \div 256), c.size % 256>>
                ELSE IF c.type = 246 THEN <<c.size \div 256, c.size % 256>>
                ELSE IF c.type = 15 THEN <<c.size % 256, c.size \div 256>>
                ELSE <<c.size % 8, c.size \div 8>>
           /\ MetaAdvance(TypeInMap(c)) = 2
<1>1. CASE c.type \in {247, 248}
  BY <1>1, TypeNumbers, SMT DEF TypeInMap, MetaBytes, MetaAdvance
<1>2. CASE c.type \in {254, 246, 15, 16}
  BY <1>2, TypeNumbers, SMT DEF TypeInMap, MetaBytes, MetaAdvance
<1>3. QED
  BY <1>1, <1>2

LEMMA MetaBytesShape ==
    ASSUME NEW c, ColumnShape(c)
    PROVE  /\ TypeInMap(c) \in 0 .. 255
           /\ MetaBytes(c) \in Seq(0 .. 255)
           /\ Len(MetaBytes(c)) = MetaAdvance(TypeInMap(c))
           /\ MetaAdvance(TypeInMap(c)) \in 0 .. 2
<1>1. ColumnKind(c) /\ (c.type \in {4, 5} => c.size \in 0 .. 255)
  BY ColumnKinds
<1>2. CASE c.type \in Fixed \ {4, 5}
  <2>1. c.type \in 0 .. 255
    BY <1>2, FixedNumbers
  <2>2. MetaBytes(c) = <<>> /\ TypeInMap(c) = c.type /\ MetaAdvance(TypeInMap(c)) = 0
    BY <1>2, FixedInMap
  <2>3. QED
    BY <2>1, <2>2
<1>3. CASE c.type \in {4, 5, 252, 255, 17, 18, 19}
  <2>1. MetaBytes(c) = <<c.size>> /\ TypeInMap(c) = c.type /\ MetaAdvance(TypeInMap(c)) = 1
    BY <1>3, OneByteInMap
  <2>2. CASE c.type \in {4, 5}
    BY <1>1, <2>1, <2>2
  <2>3. CASE c.type \in {252, 255, 17, 18, 19}
    <3>1. c.size \in 0 .. 255
      BY <1>1, <2>3, FixedNumbers DEF ColumnKind
    <3>2. QED
      BY <2>1, <2>3, <3>1
  <2>4. QED
    BY <1>3, <2>2, <2>3
<1>4. CASE c.type \in {247, 248}
  <2>1. c.size \in 0 .. 255
    BY <1>1, <1>4, FixedNumbers DEF ColumnKind
  <2>2. MetaBytes(c) = <<c.type, c.size>> /\ TypeInMap(c) = 254
    BY <1>4, TwoBytesInMap
  <2>3. QED
    BY <1>4, <2>1, <2>2, TwoBytesInMap
<1>5. CASE c.type = 254
  <2>1. c.size \in 0 .. 1023
    BY <1>1, <1>5, FixedNumbers DEF ColumnKind
  <2>2. MetaBytes(c) = <<254 - 16 * (c.size \div 256), c.size % 256>> /\ TypeInMap(c) = 254
    BY <1>5, TwoBytesInMap
  <2>3. 254 - 16 * (c.size \div 256) \in 0 .. 255 /\ c.size % 256 \in 0 .. 255
    BY <2>1
  <2>4. QED
    BY <1>5, <2>2, <2>3, TwoBytesInMap
<1>6. CASE c.type = 15
  <2>1. c.size \in Nat /\ c.size \div 256 \in 0 .. 255 /\ c.size % 256 \in 0 .. 255
    BY <1>1, <1>6, FixedNumbers DEF ColumnKind
  <2>2. MetaBytes(c) = <<c.size % 256, c.size \div 256>> /\ TypeInMap(c) = 15
    BY <1>6, TwoBytesInMap
  <2>3. QED
    BY <1>6, <2>1, <2>2, TwoBytesInMap
<1>7. CASE c.type = 16
  <2>1. c.size \in 1 .. 64
    BY <1>1, <1>7, FixedNumbers DEF ColumnKind
  <2>2. MetaBytes(c) = <<c.size % 8, c.size \div 8>> /\ TypeInMap(c) = 16
    BY <1>7, TwoBytesInMap
  <2>3. c.size % 8 \in 0 .. 255 /\ c.size \div 8 \in 0 .. 255
    BY <2>1
  <2>4. QED
    BY <1>7, <2>2, <2>3, TwoBytesInMap
<1>8. CASE c.type = 246
  <2>1. DecimalSize(c.size)
    BY <1>1, <1>8, FixedNumbers DEF ColumnKind
  <2>2. PICK p \in 1 .. 65, s \in 0 .. 30 : s <= p /\ c.size = 256 * p + s
    BY <2>1 DEF DecimalSize
  <2>3. MetaBytes(c) = <<c.size \div 256, c.size % 256>> /\ TypeInMap(c) = 246
    BY <1>8, TwoBytesInMap
  <2>4. c.size \div 256 = p /\ c.size % 256 = s
    BY <2>2
  <2>5. QED
    BY <1>8, <2>3, <2>4, TwoBytesInMap
<1>9. QED
  BY <1>1, <1>2, <1>3, <1>4, <1>5, <1>6, <1>7, <1>8, FixedNumbers DEF ColumnKind

\* The meta the code reads for a column.
MetaOf(c) == ReadMeta(TypeInMap(c), MetaBytes(c), 1)

LEMMA MetaOfColumn ==
    ASSUME NEW c, ColumnShape(c)
    PROVE  /\ c.type \in Fixed \ {4, 5} => MetaOf(c) = 0
           /\ c.type \in {4, 5, 252, 255, 17, 18, 19, 15} => MetaOf(c) = c.size
           /\ c.type \in {247, 248} => MetaOf(c) = 256 * c.type + c.size
           /\ c.type = 254 => MetaOf(c) = 256 * (254 - 16 * (c.size \div 256)) + (c.size % 256)
           /\ c.type = 246 => MetaOf(c) = c.size
           /\ c.type = 16 => MetaOf(c) = 256 * (c.size % 8) + c.size \div 8
<1>1. ColumnKind(c)
  BY ColumnKinds
<1>2. CASE c.type \in Fixed \ {4, 5}
  <2>1. TypeInMap(c) = c.type /\ MetaAdvance(TypeInMap(c)) = 0
    BY <1>2, FixedInMap
  <2>2. MetaOf(c) = 0
    BY <1>2, <2>1, TypeNumbers, FixedNumbers DEF MetaOf, ReadMeta
  <2>3. QED
    BY <1>2, <2>2, FixedNumbers
<1>3. CASE c.type \in {4, 5, 252, 255, 17, 18, 19}
  <2>1. MetaBytes(c) = <<c.size>> /\ TypeInMap(c) = c.type /\ MetaAdvance(TypeInMap(c)) = 1
    BY <1>3, OneByteInMap
  <2>2. MetaBytes(c)[1] = c.size
    BY <2>1
  <2>3. MetaOf(c) = c.size
    BY <1>3, <2>1, <2>2, TypeNumbers DEF MetaOf, ReadMeta
  <2>4. QED
    BY <1>3, <2>3, FixedNumbers
<1>4. CASE c.type \in {247, 248}
  <2>1. /\ MetaBytes(c) = <<c.type, c.size>> /\ TypeInMap(c) = 254
        /\ MetaAdvance(TypeInMap(c)) = 2
    BY <1>4, TwoBytesInMap
  <2>2. MetaOf(c) = 256 * c.type + c.size
    BY <2>1, TypeNumbers DEF MetaOf, ReadMeta
  <2>3. QED
    BY <1>4, <2>2, FixedNumbers
<1>5. CASE c.type = 254
  <2>1. /\ MetaBytes(c) = <<254 - 16 * (c.size \div 256), c.size % 256>> /\ TypeInMap(c) = 254
        /\ MetaAdvance(TypeInMap(c)) = 2
    BY <1>5, TwoBytesInMap
  <2>2. MetaOf(c) = 256 * (254 - 16 * (c.size \div 256)) + (c.size % 256)
    BY <2>1, TypeNumbers DEF MetaOf, ReadMeta
  <2>3. QED
    BY <1>5, <2>2, FixedNumbers
<1>6. CASE c.type = 15
  <2>1. c.size \in Nat
    BY <1>1, <1>6, FixedNumbers DEF ColumnKind
  <2>2. /\ MetaBytes(c) = <<c.size % 256, c.size \div 256>> /\ TypeInMap(c) = 15
        /\ MetaAdvance(TypeInMap(c)) = 2
    BY <1>6, TwoBytesInMap
  <2>3. MetaOf(c) = (c.size % 256) + 256 * (c.size \div 256)
    BY <2>2, TypeNumbers DEF MetaOf, ReadMeta
  <2>4. QED
    BY <1>6, <2>1, <2>3, FixedNumbers
<1>7. CASE c.type = 16
  <2>1. /\ MetaBytes(c) = <<c.size % 8, c.size \div 8>> /\ TypeInMap(c) = 16
        /\ MetaAdvance(TypeInMap(c)) = 2
    BY <1>7, TwoBytesInMap
  <2>2. MetaOf(c) = 256 * (c.size % 8) + c.size \div 8
    BY <2>1, TypeNumbers DEF MetaOf, ReadMeta
  <2>3. QED
    BY <1>7, <2>2, FixedNumbers
<1>8. CASE c.type = 246
  <2>1. c.size \in Nat
    BY <1>1, <1>8, FixedNumbers DEF ColumnKind, DecimalSize
  <2>2. /\ MetaBytes(c) = <<c.size \div 256, c.size % 256>> /\ TypeInMap(c) = 246
        /\ MetaAdvance(TypeInMap(c)) = 2
    BY <1>8, TwoBytesInMap
  <2>3. MetaOf(c) = 256 * (c.size \div 256) + (c.size % 256)
    BY <2>2, TypeNumbers DEF MetaOf, ReadMeta
  <2>4. QED
    BY <1>8, <2>1, <2>3, FixedNumbers
<1>9. QED
  BY <1>1, <1>2, <1>3, <1>4, <1>5, <1>6, <1>7, <1>8, FixedNumbers DEF ColumnKind

\* A STRING is recognised by its meta, its length unfolded from the type.
LEMMA StringOfLength ==
    ASSUME NEW c, c.size \in 0 .. 1023, NEW meta,
           meta = 256 * (254 - 16 * (c.size \div 256)) + (c.size % 256)
    PROVE  StringType(meta).type = 254 /\ StringType(meta).length = c.size
<1> DEFINE q == c.size \div 256
           byte0 == 254 - 16 * q
<1>1. q \in 0 .. 3 /\ c.size % 256 \in 0 .. 255 /\ c.size = 256 * q + (c.size % 256)
  OBVIOUS
<1>2. meta = 256 * byte0 + (c.size % 256)
  OBVIOUS
<1> HIDE DEF q
<1>3. q = 0 \/ q = 1 \/ q = 2 \/ q = 3
  BY <1>1
<1>4. byte0 \in 206 .. 254 /\ 3 - ((byte0 \div 16) % 4) = q
  BY <1>3
<1>5. (q = 0 => byte0 = 254) /\ (q # 0 => byte0 \in 206 .. 238)
  BY <1>3
<1>6. byte0 + 16 * q = 254
  BY <1>1
<1> HIDE DEF byte0
<1>7. meta \div 256 = byte0 /\ meta % 256 = c.size % 256 /\ meta >= 256
  BY <1>1, <1>2, <1>4
<1>8. CASE q # 0
  <2>1. StringType(meta) = [type |-> byte0 + 16 * q, length |-> (c.size % 256) + 256 * q]
    BY <1>1, <1>4, <1>5, <1>7, <1>8, TypeNumbers DEF StringType
  <2>2. QED
    BY <2>1, <1>1, <1>6
<1>9. CASE q = 0
  <2>1. StringType(meta) = [type |-> byte0, length |-> c.size % 256]
    BY <1>1, <1>4, <1>5, <1>7, <1>9, TypeNumbers DEF StringType
  <2>2. QED
    BY <2>1, <1>1, <1>5, <1>9
<1>10. QED
  BY <1>8, <1>9

LEMMA StringOfEnumOrSet ==
    ASSUME NEW c, c.type \in {247, 248}, c.size \in 0 .. 255, NEW meta,
           meta = 256 * c.type + c.size
    PROVE  StringType(meta).type = c.type /\ StringType(meta).length = c.size
<1>1. meta \div 256 = c.type /\ meta % 256 = c.size /\ meta >= 256
  OBVIOUS
<1>2. 3 - ((c.type \div 16) % 4) = 0
  OBVIOUS
<1>3. QED
  BY <1>1, <1>2, TypeNumbers DEF StringType

\* Times and timestamps of one or two decimals, the values of which are passed
\* over by a wrong number of bytes.
Misread(c) == c.type \in {T.TIME2, T.TIMESTAMP2} /\ c.size \in 1 .. 2

LEMMA AdvanceIs ==
    ASSUME NEW c, ColumnShape(c), NEW len \in Nat
    PROVE  LET a == Advance(TypeInMap(c), MetaOf(c), len)
           IN  /\ c.type \in Fixed => a = FixedWidth[c.type]
               /\ c.type \in {254, 15} => a = (IF c.size < 256 THEN 1 ELSE 2) + len
               /\ c.type \in {247, 248} => a = c.size
               /\ c.type = 252 => a = c.size + len
               /\ c.type = 16 => a = (c.size + 7) \div 8
               /\ c.type = 246 => a = decimal_bin_size(c.size \div 256, c.size % 256)
               /\ c.type = 17 => a = TimestampAdvance(c.size)
               /\ c.type = 18 => a = DatetimeAdvance(c.size)
               /\ c.type = 19 => a = TimeAdvance(c.size)
               /\ c.type = 255 => a = Unknown
<1> DEFINE a == Advance(TypeInMap(c), MetaOf(c), len)
<1>1. ColumnKind(c)
  BY ColumnKinds
<1>2. CASE c.type \in Fixed
  <2>1. TypeInMap(c) = c.type /\ c.type # 254
    BY <1>2, FixedNumbers, TypeNumbers DEF TypeInMap
  <2>2. a = FixedWidth[c.type]
    BY <1>2, <2>1, TypeNumbers, FixedNumbers DEF Advance
  <2>3. QED
    BY <1>2, <2>2, FixedNumbers
<1>3. CASE c.type = 254
  <2>1. TypeInMap(c) = 254 /\ c.size \in 0 .. 1023
        /\ MetaOf(c) = 256 * (254 - 16 * (c.size \div 256)) + (c.size % 256)
    BY <1>1, <1>3, MetaOfColumn, TwoBytesInMap, FixedNumbers DEF ColumnKind
  <2>2. StringType(MetaOf(c)).type = 254 /\ StringType(MetaOf(c)).length = c.size
    BY <2>1, StringOfLength
  <2>3. a = Prefixed(IF c.size < 256 THEN 1 ELSE 2, len)
    BY <2>1, <2>2, TypeNumbers, FixedNumbers DEF Advance
  <2>4. QED
    BY <1>3, <2>3, FixedNumbers DEF Prefixed
<1>4. CASE c.type \in {247, 248}
  <2>1. TypeInMap(c) = 254 /\ MetaOf(c) = 256 * c.type + c.size
    BY <1>4, MetaOfColumn, TwoBytesInMap
  <2>2. c.size \in 0 .. 255 /\ (c.type = 247 => c.size \in 1 .. 2)
    BY <1>1, <1>4, FixedNumbers DEF ColumnKind
  <2>3. StringType(MetaOf(c)).type = c.type /\ StringType(MetaOf(c)).length = c.size
    BY <1>4, <2>1, <2>2, StringOfEnumOrSet
  <2>4. a = c.size
    BY <1>4, <2>1, <2>2, <2>3, TypeNumbers, FixedNumbers DEF Advance
  <2>5. QED
    BY <1>4, <2>4, FixedNumbers
<1>5. CASE c.type = 15
  <2>1. TypeInMap(c) = 15 /\ MetaOf(c) = c.size
    BY <1>5, MetaOfColumn, TwoBytesInMap
  <2>2. a = Prefixed(IF c.size < 256 THEN 1 ELSE 2, len)
    BY <2>1, TypeNumbers, FixedNumbers DEF Advance
  <2>3. QED
    BY <1>5, <2>2, FixedNumbers DEF Prefixed
<1>6. CASE c.type \in {252, 255}
  <2>1. TypeInMap(c) = c.type /\ MetaOf(c) = c.size /\ c.size \in 1 .. 4
    BY <1>1, <1>6, MetaOfColumn, OneByteInMap, FixedNumbers DEF ColumnKind
  <2>2. c.type = 252 => a = Prefixed(c.size, len)
    BY <2>1, TypeNumbers, FixedNumbers DEF Advance
  <2>3. c.type = 255 => a = Unknown
    BY <2>1, TypeNumbers, FixedNumbers DEF Advance
  <2>4. QED
    BY <1>6, <2>2, <2>3, FixedNumbers DEF Prefixed
<1>7. CASE c.type = 16
  <2>1. TypeInMap(c) = 16 /\ MetaOf(c) = 256 * (c.size % 8) + c.size \div 8
        /\ c.size \in 1 .. 64
    BY <1>1, <1>7, MetaOfColumn, TwoBytesInMap, FixedNumbers DEF ColumnKind
  <2>2. MetaOf(c) \div 256 + 8 * (MetaOf(c) % 256) = c.size
    BY <2>1
  <2>3. a = (MetaOf(c) \div 256 + 8 * (MetaOf(c) % 256) + 7) \div 8
    BY <2>1, TypeNumbers, FixedNumbers DEF Advance
  <2>4. QED
    BY <1>7, <2>2, <2>3, FixedNumbers
<1>8. CASE c.type = 246
  <2>1. TypeInMap(c) = 246 /\ MetaOf(c) = c.size
    BY <1>8, MetaOfColumn, TwoBytesInMap
  <2>2. a = decimal_bin_size(c.size \div 256, c.size % 256)
    BY <2>1, TypeNumbers, FixedNumbers DEF Advance
  <2>3. QED
    BY <1>8, <2>2, FixedNumbers
<1>9. CASE c.type \in {17, 18, 19}
  <2>1. TypeInMap(c) = c.type /\ MetaOf(c) = c.size
    BY <1>9, MetaOfColumn, OneByteInMap
  <2>2. /\ c.type = 17 => a = TimestampAdvance(c.size)
        /\ c.type = 18 => a = DatetimeAdvance(c.size)
        /\ c.type = 19 => a = TimeAdvance(c.size)
    BY <1>9, <2>1, TypeNumbers, FixedNumbers DEF Advance
  <2>3. QED
    BY <1>9, <2>2, FixedNumbers
<1>10. QED
  BY <1>1, <1>2, <1>3, <1>4, <1>5, <1>6, <1>7, <1>8, <1>9, FixedNumbers DEF ColumnKind

LEMMA WidthIs ==
    ASSUME NEW c, ColumnShape(c)
    PROVE  /\ c.type \in Fixed => Width(c) = FixedWidth[c.type]
           /\ c.type \in {254, 15} => Width(c) = c.len + (IF c.size < 256 THEN 1 ELSE 2)
           /\ c.type \in {247, 248} => Width(c) = c.size
           /\ c.type \in {252, 255} => Width(c) = c.len + c.size
           /\ c.type = 16 => Width(c) = (c.size + 7) \div 8
           /\ c.type = 246 => Width(c) =
                  FourByteGroups(c.size \div 256 - (c.size % 256)) + FourByteGroups(c.size % 256)
           /\ c.type = 17 => Width(c) = 4 + (c.size + 1) \div 2
           /\ c.type = 18 => Width(c) = 5 + (c.size + 1) \div 2
           /\ c.type = 19 => Width(c) = 3 + (c.size + 1) \div 2
<1>1. c.type \in Fixed => Width(c) = FixedWidth[c.type]
  BY TypeNumbers, FixedNumbers DEF Width
<1>2. /\ c.type \in {254, 15} => Width(c) = c.len + (IF c.size < 256 THEN 1 ELSE 2)
      /\ c.type \in {247, 248} => Width(c) = c.size
      /\ c.type \in {252, 255} => Width(c) = c.len + c.size
  BY TypeNumbers, FixedNumbers DEF Width
<1>3. /\ c.type = 16 => Width(c) = (c.size + 7) \div 8
      /\ c.type = 246 => Width(c) =
             FourByteGroups(c.size \div 256 - (c.size % 256)) + FourByteGroups(c.size % 256)
  BY TypeNumbers, FixedNumbers DEF Width
<1>4. /\ c.type = 17 => Width(c) = 4 + (c.size + 1) \div 2
      /\ c.type = 18 => Width(c) = 5 + (c.size + 1) \div 2
      /\ c.type = 19 => Width(c) = 3 + (c.size + 1) \div 2
  BY TypeNumbers, FixedNumbers DEF Width
<1>5. QED
  BY <1>1, <1>2, <1>3, <1>4

LEMMA FixedWidths == \A t \in Fixed : FixedWidth[t] \in 1 .. 8
BY TypeNumbers, FixedNumbers DEF FixedWidth

\* A decimal's groups of nine digits have four bytes each, and so have its bytes
\* in the code's table.
LEMMA DecimalBytesAgree ==
    ASSUME NEW p \in 1 .. 65, NEW s \in 0 .. 30, s <= p
    PROVE  /\ decimal_bin_size(p, s) = FourByteGroups(p - s) + FourByteGroups(s)
           /\ decimal_bin_size(p, s) \in Nat
<1>1. p - s \in 0 .. 65 /\ (p - s) % 9 \in 0 .. 8 /\ s % 9 \in 0 .. 8
  OBVIOUS
<1>2. \A k \in 0 .. 8 : dig2bytes[k + 1] \in 0 .. 4
  <2>1. \A k \in 0 .. 8 : k = 0 \/ k = 1 \/ k = 2 \/ k = 3 \/ k = 4 \/ k = 5 \/ k = 6 \/ k = 7
                          \/ k = 8
    OBVIOUS
  <2>2. QED
    BY <2>1 DEF dig2bytes
<1>3. /\ DigitBytes((p - s) % 9) = dig2bytes[((p - s) % 9) + 1]
      /\ DigitBytes(s % 9) = dig2bytes[(s % 9) + 1]
  BY <1>1, DigitsOfGroup
<1>4. dig2bytes[((p - s) % 9) + 1] \in 0 .. 4 /\ dig2bytes[(s % 9) + 1] \in 0 .. 4
  BY <1>1, <1>2
<1>5. (p - s) \div 9 \in Nat /\ s \div 9 \in Nat
  BY <1>1
<1>6. QED
  BY <1>3, <1>4, <1>5 DEF decimal_bin_size, FourByteGroups

LEMMA TimesAgree ==
    ASSUME NEW dec \in 0 .. 6
    PROVE  /\ DatetimeAdvance(dec) = 5 + (dec + 1) \div 2
           /\ dec \notin 1 .. 2 => /\ TimestampAdvance(dec) = 4 + (dec + 1) \div 2
                                   /\ TimeAdvance(dec) = 3 + (dec + 1) \div 2
           /\ TimestampAdvance(dec) \in Nat /\ TimeAdvance(dec) \in Nat
<1>1. dec = 0 \/ dec = 1 \/ dec = 2 \/ dec = 3 \/ dec = 4 \/ dec = 5 \/ dec = 6
  OBVIOUS
<1>2. QED
  BY <1>1 DEF DatetimeAdvance, TimestampAdvance, TimeAdvance

\* ParseColumnValue moves the cursor over a value of column c by its bytes.
LEMMA ColumnPassed ==
    ASSUME NEW c, ColumnShape(c)
    PROVE  /\ Width(c) \in Nat
           /\ c.type # T.GEOMETRY /\ ~Misread(c) =>
                  Advance(TypeInMap(c), MetaOf(c), c.len) = Width(c)
           /\ \A len \in Nat : /\ c.type = T.GEOMETRY =>
                                      Advance(TypeInMap(c), MetaOf(c), len) = Unknown
                               /\ c.type # T.GEOMETRY =>
                                      Advance(TypeInMap(c), MetaOf(c), len) \in Nat
<1> DEFINE a(len) == Advance(TypeInMap(c), MetaOf(c), len)
<1>1. ColumnKind(c) /\ c.len \in Nat
  BY ColumnKinds
<1>2. CASE c.type \in Fixed
  <2>1. FixedWidth[c.type] \in Nat /\ Width(c) = FixedWidth[c.type] /\ c.type # T.GEOMETRY
    BY <1>2, FixedWidths, FixedNumbers, TypeNumbers, WidthIs
  <2>2. \A len \in Nat : a(len) = FixedWidth[c.type]
    BY <1>2, AdvanceIs
  <2>3. QED
    BY <1>1, <2>1, <2>2
<1>3. CASE c.type \in {254, 15}
  <2>1. \A len \in Nat : a(len) = (IF c.size < 256 THEN 1 ELSE 2) + len
    BY <1>3, AdvanceIs
  <2>2. Width(c) = c.len + (IF c.size < 256 THEN 1 ELSE 2)
    BY <1>3, WidthIs
  <2>3. QED
    BY <1>1, <1>3, <2>1, <2>2, TypeNumbers
<1>4. CASE c.type \in {247, 248}
  <2>1. \A len \in Nat : a(len) = c.size
    BY <1>4, AdvanceIs
  <2>2. Width(c) = c.size /\ c.size \in Nat
    BY <1>1, <1>4, WidthIs, FixedNumbers DEF ColumnKind
  <2>3. QED
    BY <1>1, <1>4, <2>1, <2>2, TypeNumbers
<1>5. CASE c.type \in {252, 255}
  <2>1. /\ c.type = 252 => \A len \in Nat : a(len) = c.size + len
        /\ c.type = 255 => \A len \in Nat : a(len) = Unknown
    BY <1>5, AdvanceIs
  <2>2. Width(c) = c.len + c.size /\ c.size \in Nat
    BY <1>1, <1>5, WidthIs, FixedNumbers DEF ColumnKind
  <2>3. QED
    BY <1>1, <1>5, <2>1, <2>2, TypeNumbers
<1>6. CASE c.type = 16
  <2>1. \A len \in Nat : a(len) = (c.size + 7) \div 8
    BY <1>6, AdvanceIs
  <2>2. Width(c) = (c.size + 7) \div 8 /\ c.size \in 1 .. 64
    BY <1>1, <1>6, WidthIs, FixedNumbers DEF ColumnKind
  <2>3. (c.size + 7) \div 8 \in Nat
    BY <2>2
  <2>4. QED
    BY <1>1, <1>6, <2>1, <2>2, <2>3, TypeNumbers
<1>7. CASE c.type = 246
  <2>1. DecimalSize(c.size)
    BY <1>1, <1>7, FixedNumbers DEF ColumnKind
  <2>2. PICK p \in 1 .. 65, s \in 0 .. 30 : s <= p /\ c.size = 256 * p + s
    BY <2>1 DEF DecimalSize
  <2>3. c.size \div 256 = p /\ c.size % 256 = s
    BY <2>2
  <2>4. \A len \in Nat : a(len) = decimal_bin_size(p, s)
    BY <1>7, <2>3, AdvanceIs
  <2>5. Width(c) = FourByteGroups(p - s) + FourByteGroups(s)
    BY <1>7, <2>3, WidthIs
  <2>6. Width(c) = decimal_bin_size(p, s) /\ decimal_bin_size(p, s) \in Nat
    BY <2>2, <2>5, DecimalBytesAgree
  <2>7. QED
    BY <1>1, <1>7, <2>4, <2>6, TypeNumbers
<1>8. CASE c.type \in {17, 18, 19}
  <2>1. c.size \in 0 .. 6
    BY <1>1, <1>8, FixedNumbers DEF ColumnKind
  <2>2. /\ c.type = 17 => Width(c) = 4 + (c.size + 1) \div 2
        /\ c.type = 18 => Width(c) = 5 + (c.size + 1) \div 2
        /\ c.type = 19 => Width(c) = 3 + (c.size + 1) \div 2
    BY WidthIs
  <2>3. \A len \in Nat : /\ c.type = 17 => a(len) = TimestampAdvance(c.size)
                         /\ c.type = 18 => a(len) = DatetimeAdvance(c.size)
                         /\ c.type = 19 => a(len) = TimeAdvance(c.size)
    BY AdvanceIs
  <2>4. (c.size + 1) \div 2 \in Nat
    BY <2>1
  <2>5. /\ DatetimeAdvance(c.size) = 5 + (c.size + 1) \div 2
        /\ c.size \notin 1 .. 2 => /\ TimestampAdvance(c.size) = 4 + (c.size + 1) \div 2
                                   /\ TimeAdvance(c.size) = 3 + (c.size + 1) \div 2
        /\ TimestampAdvance(c.size) \in Nat /\ TimeAdvance(c.size) \in Nat
    BY <2>1, TimesAgree
  <2>6. QED
    BY <1>1, <1>8, <2>2, <2>3, <2>4, <2>5, TypeNumbers DEF Misread
<1>9. QED
  BY <1>1, <1>2, <1>3, <1>4, <1>5, <1>6, <1>7, <1>8, FixedNumbers DEF ColumnKind

(***************************************************************************)
(* Recursive functions over 0 .. n.                                        *)
(***************************************************************************)
LEMMA LeastOf ==
    ASSUME NEW S, S \subseteq Nat, S # {}
    PROVE  \E x \in S : \A y \in S : x <= y
<1>1. PICK x \in S : \A y \in S : ~(<<y, x>> \in OpToRel(<, Nat))
  BY NatLessThanWellFounded, WFMin
<1>2. ASSUME NEW y \in S PROVE x <= y
  <2>1. ~(y < x)
    BY <1>1 DEF OpToRel
  <2>2. QED
    BY <2>1
<1>3. QED
  BY <1>2

\* Induction over 0 .. n: S is the set of the numbers a claim holds for.
LEMMA AllReached ==
    ASSUME NEW n \in Nat, NEW S, 0 \in S, \A k \in 1 .. n : k - 1 \in S => k \in S
    PROVE  \A k \in 0 .. n : k \in S
<1> DEFINE Bad == {k \in 0 .. n : k \notin S}
<1>1. ASSUME Bad # {} PROVE FALSE
  <2>1. PICK j \in Bad : \A k \in Bad : j <= k
    <3>1. Bad \subseteq Nat
      OBVIOUS
    <3> HIDE DEF Bad
    <3>2. QED
      BY <1>1, <3>1, LeastOf
  <2>2. j \in 1 .. n /\ j - 1 \in S
    BY <2>1
  <2>3. QED
    BY <2>1, <2>2
<1>2. QED
  BY <1>1

LEMMA FunctionIsSeq == \A S : \A n \in Nat : \A f \in [1 .. n -> S] : f \in Seq(S)
BY SeqDef

\* R folds the steps from z on: values of S.
IsFold(R, n, S, z, step) ==
    /\ R \in [0 .. n -> S] /\ R[0] = z
    /\ \A k \in 1 .. n : R[k] = step[k][R[k - 1]]

LEMMA Folding ==
    ASSUME NEW n \in Nat, NEW S, NEW z \in S, NEW step \in [1 .. n -> [S -> S]]
    PROVE  \E R : IsFold(R, n, S, z, step)
<1> DEFINE Reached == {j \in 0 .. n : \E R : IsFold(R, j, S, z, step)}
<1>1. 0 \in Reached
  <2>1. IsFold([k \in 0 .. 0 |-> z], 0, S, z, step)
    BY DEF IsFold
  <2>2. QED
    BY <2>1
<1>2. ASSUME NEW j \in 1 .. n, j - 1 \in Reached PROVE j \in Reached
  <2>1. PICK R : IsFold(R, j - 1, S, z, step)
    BY <1>2
  <2>2. /\ R \in [0 .. j - 1 -> S] /\ R[0] = z
        /\ \A k \in 1 .. j - 1 : R[k] = step[k][R[k - 1]]
    BY <2>1 DEF IsFold
  <2> DEFINE Q == [k \in 0 .. j |-> IF k = j THEN step[j][R[j - 1]] ELSE R[k]]
  <2>3. R[j - 1] \in S /\ step[j][R[j - 1]] \in S
    BY <2>2
  <2>4. Q \in [0 .. j -> S] /\ Q[0] = z
    BY <2>2, <2>3
  <2>5. ASSUME NEW k \in 1 .. j PROVE Q[k] = step[k][Q[k - 1]]
    <3>1. Q[k - 1] = R[k - 1]
      OBVIOUS
    <3>2. CASE k = j
      BY <3>1, <3>2
    <3>3. CASE k # j
      <4>1. k \in 1 .. j - 1 /\ Q[k] = R[k]
        BY <3>3
      <4>2. R[k] = step[k][R[k - 1]]
        BY <2>2, <4>1
      <4>3. QED
        BY <3>1, <4>1, <4>2
    <3>4. QED
      BY <3>2, <3>3
  <2> HIDE DEF Q
  <2>6. IsFold(Q, j, S, z, step)
    BY <2>4, <2>5 DEF IsFold
  <2>7. QED
    BY <2>6
<1> HIDE DEF Reached
<1>3. n \in Reached
  <2>1. \A j \in 0 .. n : j \in Reached
    BY <1>1, <1>2, AllReached
  <2>2. QED
    BY <2>1
<1>4. QED
  BY <1>3 DEF Reached

LEMMA SumsIs ==
    ASSUME NEW w \in Seq(Nat)
    PROVE  /\ Sums(w) \in [0 .. Len(w) -> Nat]
           /\ Sums(w)[0] = 0
           /\ \A k \in 1 .. Len(w) : Sums(w)[k] = Sums(w)[k - 1] + w[k]
<1> DEFINE n == Len(w)
           step == [k \in 1 .. n |-> [x \in Nat |-> x + w[k]]]
           Is(S) == S = [k \in 0 .. n |-> IF k = 0 THEN 0 ELSE S[k - 1] + w[k]]
<1>1. n \in Nat /\ step \in [1 .. n -> [Nat -> Nat]] /\ \A k \in 1 .. n : w[k] \in Nat
  OBVIOUS
<1>2. PICK R : IsFold(R, n, Nat, 0, step)
  <2> HIDE DEF step, n
  <2>1. QED
    BY <1>1, Folding
<1> HIDE DEF n
<1>3. R \in [0 .. n -> Nat] /\ R[0] = 0 /\ \A k \in 1 .. n : R[k] = step[k][R[k - 1]]
  BY <1>2 DEF IsFold
<1>4. ASSUME NEW k \in 1 .. n PROVE R[k] = R[k - 1] + w[k]
  <2>1. R[k - 1] \in Nat
    BY <1>1, <1>3
  <2>2. QED
    BY <1>3, <2>1
<1>5. Is(R)
  <2>1. \A k \in 0 .. n : R[k] = IF k = 0 THEN 0 ELSE R[k - 1] + w[k]
    BY <1>1, <1>3, <1>4
  <2>2. QED
    BY <1>3, <2>1
<1>6. Sums(w) = CHOOSE S : Is(S)
  BY DEF Sums, n
<1> HIDE DEF Is
<1>7. Is(Sums(w))
  BY <1>5, <1>6
<1> DEFINE S == Sums(w)
           Typed == {k \in 0 .. n : S[k] \in Nat}
<1>8. S = [k \in 0 .. n |-> IF k = 0 THEN 0 ELSE S[k - 1] + w[k]]
  BY <1>7 DEF Is
<1> HIDE DEF S
<1>9. S[0] = 0 /\ \A k \in 1 .. n : S[k] = S[k - 1] + w[k]
  BY <1>1, <1>8
<1>10. \A k \in 0 .. n : k \in Typed
  <2>1. 0 \in Typed
    BY <1>1, <1>9
  <2>2. ASSUME NEW k \in 1 .. n, k - 1 \in Typed PROVE k \in Typed
    <3>1. S[k - 1] \in Nat /\ k \in 0 .. n /\ w[k] \in Nat /\ S[k] = S[k - 1] + w[k]
      BY <1>1, <1>9, <2>2
    <3>2. QED
      BY <3>1
  <2> HIDE DEF Typed
  <2>3. QED
    BY <1>1, <2>1, <2>2, AllReached
<1>11. QED
  BY <1>8, <1>9, <1>10 DEF S, n

(***************************************************************************)
(* The layout of a row event.                                              *)
(***************************************************************************)
LEMMA EventFacts ==
    ASSUME EventShape(event)
    PROVE  /\ Len(event.table) \in Nat /\ Len(event.table) > 0 /\ Len(event.rows) \in Nat
           /\ DOMAIN event.table = 1 .. Len(event.table)
           /\ DOMAIN event.rows = 1 .. Len(event.rows)
           /\ \A c \in 1 .. Len(event.table) : ColumnShape(event.table[c])
           /\ event.kind \in {"INSERT", "UPDATE", "DEL"} /\ event.wanted \in Seq(Nat)
           /\ event.present[1] # {}
           /\ \A image \in 1 .. 2 :
                 /\ event.present[image] \subseteq 1 .. Len(event.table)
                 /\ \A k \in 1 .. Len(event.rows) :
                       event.rows[k][image] \subseteq event.present[image]
<1>1. Len(event.table) \in Nat \ {0} /\ DOMAIN event.table = 1 .. Len(event.table)
  BY DEF EventShape
<1>2. /\ \A c \in DOMAIN event.table : ColumnShape(event.table[c])
      /\ event.kind \in {"INSERT", "UPDATE", "DEL"} /\ event.wanted \in Seq(Nat)
      /\ event.present[1] # {}
      /\ Len(event.rows) \in Nat /\ DOMAIN event.rows = 1 .. Len(event.rows)
  BY DEF EventShape
<1>3. \A image \in 1 .. 2 :
          /\ event.present[image] \subseteq 1 .. Len(event.table)
          /\ \A k \in 1 .. Len(event.rows) : event.rows[k][image] \subseteq event.present[image]
  BY DEF EventShape
<1>4. QED
  BY <1>1, <1>2, <1>3

Width0(k, image, c) == IF c \in Filled(k, image) THEN Width(event.table[c]) ELSE 0

LEMMA ValuesLaidOut ==
    ASSUME EventShape(event), NEW k \in 1 .. Len(event.rows), NEW image \in 1 .. 2
    PROVE  /\ ValueEnds(k, image) \in [0 .. Len(event.table) -> Nat]
           /\ ValueEnds(k, image)[0] = 0
           /\ \A c \in Columns :
                 ValueEnds(k, image)[c] = ValueEnds(k, image)[c - 1] + Width0(k, image, c)
           /\ BitmapBytes(image) \in Nat /\ (image = 1 => BitmapBytes(image) > 0)
           /\ ImageBytes(k, image) = BitmapBytes(image) + ValueEnds(k, image)[Len(event.table)]
           /\ ImageBytes(k, image) \in Nat
<1> DEFINE n == Len(event.table)
           w == [c \in Columns |-> Width0(k, image, c)]
<1>1. n \in Nat /\ \A c \in 1 .. n : ColumnShape(event.table[c])
  BY EventFacts
<1>2. \A c \in 1 .. n : Width(event.table[c]) \in Nat
  BY <1>1, ColumnPassed
<1>3. w \in Seq(Nat) /\ Len(w) = n /\ DOMAIN w = 1 .. n
  BY <1>1, <1>2 DEF Columns, Width0
<1>4. ValueEnds(k, image) = Sums(w)
  BY DEF ValueEnds, Width0
<1> HIDE DEF w
<1>5. /\ ValueEnds(k, image) \in [0 .. n -> Nat] /\ ValueEnds(k, image)[0] = 0
      /\ \A c \in 1 .. n : ValueEnds(k, image)[c] = ValueEnds(k, image)[c - 1] + w[c]
  BY <1>3, <1>4, SumsIs
<1>6. \A c \in 1 .. n : w[c] = Width0(k, image, c)
  BY DEF w, Columns
<1>7. event.present[image] \subseteq 1 .. n /\ event.present[1] # {}
  BY EventFacts
<1>8. /\ Cardinality(event.present[image]) \in Nat
      /\ image = 1 => Cardinality(event.present[image]) > 0
  <2>1. IsFiniteSet(1 .. n)
    BY <1>1, FS_Interval
  <2>2. IsFiniteSet(event.present[image])
    BY <1>7, <2>1, FS_Subset
  <2>3. QED
    BY <1>7, <2>2, FS_CardinalityType, FS_EmptySet
<1>9. BitmapBytes(image) \in Nat /\ (image = 1 => BitmapBytes(image) > 0)
  BY <1>8 DEF BitmapBytes
<1>10. ValueEnds(k, image)[n] \in Nat
  BY <1>1, <1>5
<1>11. QED
  BY <1>5, <1>6, <1>9, <1>10 DEF ImageBytes, Columns

LEMMA RowsLaidOut ==
    ASSUME EventShape(event)
    PROVE  /\ RowEnds \in [0 .. Len(event.rows) -> Nat]
           /\ RowEnds[0] = 0
           /\ \A k \in 1 .. Len(event.rows) : RowEnds[k] = RowEnds[k - 1] + RowBytes(k)
           /\ \A k \in 1 .. Len(event.rows) : RowBytes(k) \in Nat /\ RowBytes(k) > 0
           /\ BodyLen \in Nat
           /\ \A k \in 0 .. Len(event.rows) - 1 : RowEnds[k] < BodyLen
<1> DEFINE n == Len(event.rows)
           w == [k \in 1 .. n |-> RowBytes(k)]
<1>1. n \in Nat
  BY EventFacts
<1>2. ASSUME NEW k \in 1 .. n PROVE RowBytes(k) \in Nat /\ RowBytes(k) > 0
  <2>1. ImageBytes(k, 1) \in Nat /\ ImageBytes(k, 2) \in Nat /\ ImageBytes(k, 1) > 0
    <3>1. /\ ImageBytes(k, 1) = BitmapBytes(1) + ValueEnds(k, 1)[Len(event.table)]
          /\ BitmapBytes(1) \in Nat /\ BitmapBytes(1) > 0 /\ ImageBytes(k, 1) \in Nat
          /\ ValueEnds(k, 1) \in [0 .. Len(event.table) -> Nat]
      BY ValuesLaidOut
    <3>2. ValueEnds(k, 1)[Len(event.table)] \in Nat
      BY <3>1, EventFacts
    <3>3. ImageBytes(k, 2) \in Nat
      BY ValuesLaidOut
    <3>4. QED
      BY <3>1, <3>2, <3>3
  <2>2. QED
    BY <2>1 DEF RowBytes
<1>3. w \in Seq(Nat) /\ Len(w) = n
  BY <1>1, <1>2
<1>4. RowEnds = Sums(w)
  BY DEF RowEnds
<1>5. \A k \in 1 .. n : w[k] = RowBytes(k)
  OBVIOUS
<1> HIDE DEF w
<1>6. /\ RowEnds \in [0 .. n -> Nat] /\ RowEnds[0] = 0
      /\ \A k \in 1 .. n : RowEnds[k] = RowEnds[k - 1] + RowBytes(k)
  BY <1>3, <1>4, <1>5, SumsIs
<1> HIDE DEF n
<1>7. BodyLen = RowEnds[n] /\ RowEnds[n] \in Nat
  BY <1>1, <1>6 DEF BodyLen, n
<1>8. ASSUME NEW k \in 0 .. n - 1 PROVE RowEnds[k] < RowEnds[n]
  <2> DEFINE Later == {j \in 0 .. n - k - 1 : RowEnds[k] < RowEnds[k + j + 1]}
  <2>1. 0 \in Later
    <3>1. k \in 0 .. n /\ k + 1 \in 1 .. n
      BY <1>1
    <3>2. RowEnds[k] \in Nat /\ RowEnds[k + 1] = RowEnds[k] + RowBytes(k + 1)
      BY <1>6, <3>1
    <3>3. QED
      BY <1>1, <1>2, <3>1, <3>2
  <2>2. ASSUME NEW j \in 1 .. n - k - 1, j - 1 \in Later PROVE j \in Later
    <3>1. k \in 0 .. n /\ k + j \in 1 .. n /\ k + j + 1 \in 1 .. n /\ k + (j - 1) + 1 = k + j
      BY <1>1
    <3>2. RowEnds[k] < RowEnds[k + j]
      BY <2>2, <3>1
    <3>3. RowEnds[k + j + 1] = RowEnds[k + j] + RowBytes(k + j + 1)
      BY <1>1, <1>6, <3>1
    <3>4. RowEnds[k] \in Nat /\ RowEnds[k + j] \in Nat
      BY <1>1, <1>6, <3>1
    <3>5. QED
      BY <1>1, <1>2, <3>1, <3>2, <3>3, <3>4
  <2> HIDE DEF Later
  <2>3. n - k - 1 \in Nat
    BY <1>1
  <2>4. \A j \in 0 .. n - k - 1 : j \in Later
    BY <2>1, <2>2, <2>3, AllReached
  <2>5. n - k - 1 \in Later
    BY <2>3, <2>4
  <2>6. k + (n - k - 1) + 1 = n
    BY <1>1
  <2>7. QED
    BY <2>5, <2>6 DEF Later
<1>9. QED
  BY <1>2, <1>6, <1>7, <1>8 DEF n

(***************************************************************************)
(* The bits of a null bitmap.                                              *)
(***************************************************************************)
RankIn(P, c) == Cardinality({d \in P : d < c})

LEMMA RankIs ==
    ASSUME NEW n \in Nat, NEW P, P \subseteq 1 .. n
    PROVE  /\ IsFiniteSet(P) /\ Cardinality(P) \in Nat
           /\ RankIn(P, 1) = 0
           /\ \A c \in 1 .. n : RankIn(P, c + 1) = RankIn(P, c) + (IF c \in P THEN 1 ELSE 0)
           /\ \A c \in 1 .. n + 1 : RankIn(P, c) \in 0 .. Cardinality(P)
           /\ \A c, d \in 1 .. n + 1 : c <= d => RankIn(P, c) <= RankIn(P, d)
           /\ RankIn(P, n + 1) = Cardinality(P)
<1> DEFINE Below(c) == {d \in P : d < c}
<1>0. \A d \in P : d \in Int /\ 1 <= d /\ d <= n
  OBVIOUS
<1>1. IsFiniteSet(P) /\ Cardinality(P) \in Nat
  <2>1. IsFiniteSet(1 .. n)
    BY FS_Interval
  <2>2. QED
    BY <2>1, FS_Subset, FS_CardinalityType
<1>2. \A c : Below(c) \subseteq P /\ IsFiniteSet(Below(c))
  BY <1>1, FS_Subset
<1>3. RankIn(P, 1) = 0
  <2>1. Below(1) = {}
    <3>1. \A d \in P : ~(d < 1)
      BY <1>0
    <3>2. QED
      BY <3>1
  <2>2. QED
    BY <2>1, FS_EmptySet DEF RankIn
<1>4. ASSUME NEW c \in 1 .. n
      PROVE  RankIn(P, c + 1) = RankIn(P, c) + (IF c \in P THEN 1 ELSE 0)
  <2>1. CASE c \in P
    <3>1. Below(c + 1) = Below(c) \union {c} /\ c \notin Below(c)
      <4>1. \A d \in P : d < c + 1 <=> d < c \/ d = c
        BY <1>0
      <4>2. ~(c < c)
        OBVIOUS
      <4>3. QED
        BY <2>1, <4>1, <4>2
    <3> HIDE DEF Below
    <3>2. Cardinality(Below(c + 1)) = Cardinality(Below(c)) + 1
      BY <1>2, <3>1, FS_AddElement
    <3>3. QED
      BY <2>1, <3>2 DEF RankIn, Below
  <2>2. CASE c \notin P
    <3>1. Below(c + 1) = Below(c)
      <4>1. \A d \in P : d < c + 1 <=> d < c
        BY <1>0, <2>2
      <4>2. QED
        BY <4>1
    <3>2. Cardinality(Below(c)) \in Nat
      BY <1>2, FS_CardinalityType
    <3> HIDE DEF Below
    <3>3. RankIn(P, c + 1) = Cardinality(Below(c)) /\ RankIn(P, c) = Cardinality(Below(c))
      BY <3>1 DEF RankIn, Below
    <3>4. QED
      BY <2>2, <3>2, <3>3
  <2>3. QED
    BY <2>1, <2>2
<1>5. ASSUME NEW c \in 1 .. n + 1 PROVE RankIn(P, c) \in 0 .. Cardinality(P)
  <2>1. Cardinality(Below(c)) \in Nat /\ Cardinality(Below(c)) <= Cardinality(P)
    BY <1>1, <1>2, FS_CardinalityType, FS_Subset
  <2>2. QED
    BY <1>1, <2>1 DEF RankIn
<1>6. ASSUME NEW c \in 1 .. n + 1, NEW d \in 1 .. n + 1, c <= d
      PROVE  RankIn(P, c) <= RankIn(P, d)
  <2>1. Below(c) \subseteq Below(d)
    <3>1. \A e \in P : e < c => e < d
      BY <1>0, <1>6
    <3>2. QED
      BY <3>1
  <2> HIDE DEF Below
  <2>2. Cardinality(Below(c)) <= Cardinality(Below(d))
    BY <1>2, <2>1, FS_Subset
  <2>3. QED
    BY <2>2 DEF RankIn, Below
<1>7. RankIn(P, n + 1) = Cardinality(P)
  <2>1. Below(n + 1) = P
    <3>1. \A d \in P : d < n + 1
      BY <1>0
    <3>2. QED
      BY <3>1
  <2>2. QED
    BY <2>1 DEF RankIn
<1>8. QED
  BY <1>1, <1>3, <1>4, <1>5, <1>6, <1>7

LEMMA RanksDiffer ==
    ASSUME NEW n \in Nat, NEW P, P \subseteq 1 .. n
    PROVE  /\ \A c \in P : RankIn(P, c) \in 0 .. Cardinality(P) - 1
           /\ \A c, d \in P : RankIn(P, c) = RankIn(P, d) => c = d
<1>0. \A d \in P : d \in Int /\ 1 <= d /\ d <= n
  OBVIOUS
<1>1. /\ Cardinality(P) \in Nat
      /\ \A c \in 1 .. n : RankIn(P, c + 1) = RankIn(P, c) + (IF c \in P THEN 1 ELSE 0)
      /\ \A c \in 1 .. n + 1 : RankIn(P, c) \in 0 .. Cardinality(P)
      /\ \A c, d \in 1 .. n + 1 : c <= d => RankIn(P, c) <= RankIn(P, d)
  BY RankIs
<1>2. ASSUME NEW c \in P
      PROVE  /\ RankIn(P, c) \in Int /\ RankIn(P, c) \in 0 .. Cardinality(P) - 1
             /\ RankIn(P, c + 1) = RankIn(P, c) + 1
  <2>1. c \in 1 .. n /\ c + 1 \in 1 .. n + 1 /\ c \in 1 .. n + 1
    BY <1>0
  <2>2. /\ RankIn(P, c + 1) = RankIn(P, c) + 1
        /\ RankIn(P, c) \in 0 .. Cardinality(P) /\ RankIn(P, c + 1) \in 0 .. Cardinality(P)
    BY <1>1, <2>1
  <2>3. QED
    BY <1>1, <2>2
<1>3. ASSUME NEW c \in P, NEW d \in P, c < d PROVE RankIn(P, c) < RankIn(P, d)
  <2>1. c + 1 \in 1 .. n + 1 /\ d \in 1 .. n + 1 /\ c + 1 <= d
    BY <1>0, <1>3
  <2>2. RankIn(P, c + 1) <= RankIn(P, d)
    BY <1>1, <2>1
  <2>3. /\ RankIn(P, c) \in Int /\ RankIn(P, c + 1) = RankIn(P, c) + 1
        /\ RankIn(P, d) \in Int
    BY <1>2
  <2>4. QED
    BY <2>2, <2>3
<1>4. ASSUME NEW c \in P, NEW d \in P, RankIn(P, c) = RankIn(P, d) PROVE c = d
  <2>1. RankIn(P, c) \in Int
    BY <1>2
  <2>2. ~(c < d) /\ ~(d < c)
    BY <1>3, <1>4, <2>1
  <2>3. QED
    BY <1>0, <2>2
<1>5. QED
  BY <1>2, <1>4

\* The count of a present bitmap's bits is that of the columns present.
LEMMA BitsCounted ==
    ASSUME NEW n \in Nat, NEW P, P \subseteq 1 .. n, NEW block,
           \A c \in 1 .. n : GetBit(block, c - 1) <=> c \in P
    PROVE  GetBitsetCount(block, n) = Cardinality(P)
<1> DEFINE B == {k \in 0 .. n - 1 : GetBit(block, k)}
           f == [c \in P |-> c - 1]
<1>1. \A c \in P : c \in Int /\ 1 <= c /\ c <= n
  OBVIOUS
<1>2. \A c \in P : c - 1 \in B
  BY <1>1
<1>3. ASSUME NEW k \in B PROVE k + 1 \in P /\ f[k + 1] = k
  <2>1. k + 1 \in 1 .. n /\ (k + 1) - 1 = k /\ GetBit(block, k)
    OBVIOUS
  <2>2. QED
    BY <2>1
<1>4. \A c, d \in P : f[c] = f[d] => c = d
  BY <1>1
<1>5. f \in [P -> B]
  BY <1>2
<1> HIDE DEF B, f
<1>6. f \in Bijection(P, B)
  BY <1>3, <1>4, <1>5 DEF Bijection, Injection, Surjection, IsInjective
<1>7. IsFiniteSet(P)
  BY RankIs
<1>8. Cardinality(B) = Cardinality(P)
  BY <1>6, <1>7, FS_Bijection DEF ExistsBijection
<1>9. QED
  BY <1>8 DEF B, GetBitsetCount

(***************************************************************************)
(* The invariant.  The heads say what they should.                         *)
(***************************************************************************)
HeadsInv ==
    /\ event \in Events /\ HeadsRead
    /\ map.types \in Seq(0 .. 255) /\ Len(map.metas) = Len(map.types)
    /\ \A image \in Images : bitmaps[image] \in Seq(0 .. 255)

\* The image being read, as far as it has been.
Pushed == IF event.kind = "UPDATE" /\ m = 1 THEN row.old ELSE row.new
Cells == Seq(Seq(Nat))

\* Where the parser is within a row, whatever the cursor reads.
PlaceInv ==
    /\ at \in {"row", "image", "column", "filter", "done", "dead"}
    /\ uPos \in Nat /\ r \in Nat /\ m \in Images /\ i \in 1 .. Len(event.table) + 1
    /\ uPresentPos = IF at = "column" THEN RankIn(event.present[m], i) ELSE 0
    /\ bits \subseteq 0 .. Cardinality(event.present[m]) - 1
    /\ at # "column" => bits = {}
    /\ row \in [old : Cells, new : Cells]
    /\ Len(row.old) <= Len(event.table) /\ Len(row.new) <= Len(event.table)
    /\ at \in {"image", "column", "filter"} => r >= 1
    /\ at = "image" => Len(Pushed) = 0
    /\ at = "column" => Len(Pushed) = i - 1
    /\ at \in {"image", "column"} /\ event.kind = "UPDATE" /\ m = 1 => row.new = <<>>
    /\ handed \in Seq([old : Cells, new : Cells])

\* What is read of an image is what the server wrote.
Cell(k, image, c) == IF c \in Filled(k, image) THEN Value(k, image, c) ELSE Empty
ReadUpTo(values, k, image, n) ==
    Len(values) = n /\ \A c \in 1 .. n : values[c] = Cell(k, image, c)
LastImage == IF event.kind = "UPDATE" THEN 2 ELSE 1
OldRead == event.kind = "UPDATE" => ReadUpTo(row.old, r, 1, Len(event.table))

RowHanded(k) ==
    handed[k] = IF event.kind = "UPDATE"
                THEN [old |-> Written(k, 1), new |-> Written(k, 2)]
                ELSE [old |-> Empty, new |-> Written(k, 1)]

\* While no column is of a type that ends the image, the cursor is where the
\* server wrote what the parser takes next.
ReadInv ==
    /\ r <= Len(event.rows) /\ Len(handed) <= r
    /\ \A k \in 1 .. Len(handed) : RowHanded(k)
    /\ at = "row" => uPos = RowEnds[r] /\ Len(handed) = r
    /\ at = "done" => r = Len(event.rows) /\ uPos = BodyLen /\ Len(handed) = r
    /\ at \in {"image", "column", "filter"} => Len(handed) = r - 1
    /\ at = "image" => uPos = ImageStart(r, m) /\ (m = 2 => OldRead)
    /\ at = "column" =>
          /\ uPos = ValueStart(r, m, i) /\ bits = NullBits(r, m)
          /\ ReadUpTo(Pushed, r, m, i - 1) /\ (m = 2 => OldRead)
    /\ at = "filter" =>
          /\ uPos = RowEnds[r] /\ OldRead
          /\ ReadUpTo(row.new, r, LastImage, Len(event.table))

RowInv == HeadsInv /\ PlaceInv /\ (Decodable => ReadInv)

(***************************************************************************)
(* What no step changes.                                                   *)
(***************************************************************************)
LEMMA LayoutStays ==
    ASSUME event' = event
    PROVE  /\ Columns' = Columns /\ Images' = Images /\ LastImage' = LastImage
           /\ RowEnds' = RowEnds /\ BodyLen' = BodyLen /\ Decodable' = Decodable
           /\ \A k, image : /\ Filled(k, image)' = Filled(k, image)
                            /\ NullBits(k, image)' = NullBits(k, image)
                            /\ ImageStart(k, image)' = ImageStart(k, image)
                            /\ Written(k, image)' = Written(k, image)
           /\ \A k, image, c : /\ ValueStart(k, image, c)' = ValueStart(k, image, c)
                               /\ Cell(k, image, c)' = Cell(k, image, c)
<1>1. Columns' = Columns /\ Images' = Images /\ LastImage' = LastImage
  BY DEF Columns, Images, LastImage
<1>2. \A k, image : Filled(k, image)' = Filled(k, image)
  BY DEF Filled
<1>3. \A k, image : NullBits(k, image)' = NullBits(k, image)
  BY DEF NullBits, Rank
<1>4. \A k, image : ValueEnds(k, image)' = ValueEnds(k, image)
  BY <1>1, <1>2 DEF ValueEnds
<1>5. \A image : BitmapBytes(image)' = BitmapBytes(image)
  BY DEF BitmapBytes
<1>6. \A k, image : ImageBytes(k, image)' = ImageBytes(k, image)
  BY <1>4, <1>5 DEF ImageBytes
<1>7. \A k : RowBytes(k)' = RowBytes(k)
  BY <1>6 DEF RowBytes
<1>8. RowEnds' = RowEnds
  BY <1>7 DEF RowEnds
<1>9. BodyLen' = BodyLen
  BY <1>8 DEF BodyLen
<1>10. \A k, image : ImageStart(k, image)' = ImageStart(k, image)
  BY <1>6, <1>8 DEF ImageStart, RowStart
<1>11. \A k, image, c : ValueStart(k, image, c)' = ValueStart(k, image, c)
  BY <1>4, <1>5, <1>10 DEF ValueStart
<1>12. \A k, image, c : Cell(k, image, c)' = Cell(k, image, c)
  BY <1>2 DEF Cell, Value, Empty
<1>13. \A k, image : Written(k, image)' = Written(k, image)
  BY <1>2 DEF Written, Value, Empty
<1>14. Decodable' = Decodable
  BY <1>1 DEF Decodable
<1>15. QED
  BY <1>1, <1>2, <1>3, <1>8, <1>9, <1>10, <1>11, <1>12, <1>13, <1>14

LEMMA HeadsStay ==
    ASSUME HeadsInv, UNCHANGED heads
    PROVE  HeadsInv'
<1>1. /\ event' = event /\ map' = map /\ count' = count /\ bitmaps' = bitmaps
      /\ uBufLen' = uBufLen
  BY DEF heads
<1>2. Columns' = Columns /\ Images' = Images /\ BodyLen' = BodyLen
  BY <1>1, LayoutStays
<1>3. HeadsRead'
  BY <1>1, <1>2 DEF HeadsInv, HeadsRead
<1>4. QED
  BY <1>1, <1>2, <1>3 DEF HeadsInv

\* What the parser makes of the heads.
LEMMA HeadsTell ==
    ASSUME HeadsInv, m \in Images
    PROVE  /\ EventShape(event) /\ m \in 1 .. 2
           /\ count = Len(event.table) /\ uBufLen = BodyLen
           /\ PresentCount = Cardinality(event.present[m])
           /\ event.present[m] \subseteq 1 .. Len(event.table)
           /\ i \in 1 .. Len(event.table) =>
                  /\ Present <=> i \in event.present[m]
                  /\ map.types[i] = TypeInMap(event.table[i])
                  /\ map.metas[i] = MetaOf(event.table[i])
<1>1. EventShape(event)
  BY EventsAssumption DEF HeadsInv
<1>2. m \in 1 .. 2
  BY DEF Images
<1>3. /\ count = Len(event.table) /\ uBufLen = BodyLen
      /\ map.types = [c \in Columns |-> TypeInMap(event.table[c])]
      /\ map.metas = [c \in Columns |-> ReadMeta(map.types[c], MetaBytes(event.table[c]), 1)]
      /\ \A c \in 1 .. Len(event.table) : GetBit(bitmaps[m], c - 1) <=> c \in event.present[m]
  BY DEF HeadsInv, HeadsRead, Columns
<1>4. Len(event.table) \in Nat /\ event.present[m] \subseteq 1 .. Len(event.table)
  BY <1>1, <1>2, EventFacts
<1>5. PresentCount = Cardinality(event.present[m])
  BY <1>3, <1>4, BitsCounted DEF PresentCount
<1>6. ASSUME i \in 1 .. Len(event.table)
      PROVE  /\ Present <=> i \in event.present[m]
             /\ map.types[i] = TypeInMap(event.table[i])
             /\ map.metas[i] = MetaOf(event.table[i])
  <2>1. i \in Columns
    BY <1>6 DEF Columns
  <2>2. Present <=> i \in event.present[m]
    BY <1>3, <1>6 DEF Present
  <2>3. map.types[i] = TypeInMap(event.table[i])
    BY <1>3, <2>1
  <2>4. map.metas[i] = ReadMeta(map.types[i], MetaBytes(event.table[i]), 1)
    BY <1>3, <2>1
  <2>5. QED
    BY <2>2, <2>3, <2>4 DEF MetaOf
<1>7. QED
  BY <1>1, <1>2, <1>3, <1>4, <1>5, <1>6

(***************************************************************************)
(* Each step keeps the place.                                              *)
(***************************************************************************)
LEMMA Pushes ==
    ASSUME PlaceInv, at = "column", NEW v \in Seq(Nat), Push(v), event' = event, m' = m
    PROVE  /\ row' \in [old : Cells, new : Cells]
           /\ Pushed' = Append(Pushed, v) /\ Pushed \in Cells /\ Len(Pushed) = i - 1
           /\ event.kind = "UPDATE" /\ m = 1 => row'.new = <<>>
           /\ ~(event.kind = "UPDATE" /\ m = 1) => row'.old = row.old
           /\ i <= Len(event.table) /\ Len(event.table) \in Nat =>
                  Len(row'.old) <= Len(event.table) /\ Len(row'.new) <= Len(event.table)
<1> DEFINE Old == event.kind = "UPDATE" /\ m = 1
<1>1. /\ row \in [old : Cells, new : Cells]
      /\ Len(row.old) <= Len(event.table) /\ Len(row.new) <= Len(event.table)
      /\ Len(Pushed) = i - 1
      /\ Old => row.new = <<>>
  BY DEF PlaceInv
<1>2. row.old \in Cells /\ row.new \in Cells
  BY <1>1
<1>3. Pushed \in Cells
  BY <1>2 DEF Pushed
<1>4. /\ Append(Pushed, v) \in Cells /\ Len(Append(Pushed, v)) = Len(Pushed) + 1
      /\ Len(Pushed) \in Nat
  BY <1>3 DEF Cells
<1>5. CASE Old
  <2>1. Pushed = row.old /\ row' = [row EXCEPT !.old = Append(row.old, v)]
    BY <1>5 DEF Pushed, Push
  <2>2. row'.old = Append(row.old, v) /\ row'.new = row.new
    BY <1>1, <2>1
  <2>3. row' \in [old : Cells, new : Cells]
    BY <1>1, <1>4, <2>1
  <2>4. Pushed' = row'.old
    BY <1>5 DEF Pushed
  <2>5. i <= Len(event.table) /\ Len(event.table) \in Nat => Len(row'.old) <= Len(event.table)
    <3>1. Len(row'.old) = Len(Pushed) + 1 /\ Len(Pushed) = i - 1
      BY <1>1, <1>4, <2>1, <2>2
    <3>2. Len(event.table) \in Nat => i \in Int
      BY DEF PlaceInv
    <3>3. QED
      BY <3>1, <3>2
  <2>6. QED
    BY <1>1, <1>3, <1>5, <2>1, <2>2, <2>3, <2>4, <2>5
<1>6. CASE ~Old
  <2>1. Pushed = row.new /\ row' = [row EXCEPT !.new = Append(row.new, v)]
    BY <1>6 DEF Pushed, Push
  <2>2. row'.new = Append(row.new, v) /\ row'.old = row.old
    BY <1>1, <2>1
  <2>3. row' \in [old : Cells, new : Cells]
    BY <1>1, <1>4, <2>1
  <2>4. Pushed' = row'.new
    BY <1>6 DEF Pushed
  <2>5. i <= Len(event.table) /\ Len(event.table) \in Nat => Len(row'.new) <= Len(event.table)
    <3>1. Len(row'.new) = Len(Pushed) + 1 /\ Len(Pushed) = i - 1
      BY <1>1, <1>4, <2>1, <2>2
    <3>2. Len(event.table) \in Nat => i \in Int
      BY DEF PlaceInv
    <3>3. QED
      BY <3>1, <3>2
  <2>6. QED
    BY <1>1, <1>3, <1>6, <2>1, <2>2, <2>3, <2>4, <2>5
<1>7. QED
  BY <1>5, <1>6

\* A column is passed over, whatever stands for it.
LEMMA ColumnKeepsPlace ==
    ASSUME HeadsInv, PlaceInv, AtColumn, NEW v \in Seq(Nat), Push(v), uPos' \in Nat, i' = i + 1,
           uPresentPos' = uPresentPos + (IF Present THEN 1 ELSE 0),
           UNCHANGED <<heads, at, r, m, bits, handed>>
    PROVE  PlaceInv'
<1>1. event' = event /\ at' = at /\ r' = r /\ m' = m /\ bits' = bits /\ handed' = handed
  BY DEF heads
<1>2. at = "column" /\ i <= count /\ m \in Images /\ i \in 1 .. Len(event.table) + 1
  BY DEF AtColumn, PlaceInv
<1>3. /\ EventShape(event) /\ count = Len(event.table) /\ m \in 1 .. 2
      /\ event.present[m] \subseteq 1 .. Len(event.table)
      /\ i \in 1 .. Len(event.table) => (Present <=> i \in event.present[m])
  BY <1>2, HeadsTell
<1>4. Len(event.table) \in Nat
  BY <1>3, EventFacts
<1>5. i \in 1 .. Len(event.table) /\ i' \in 1 .. Len(event.table) + 1
  BY <1>2, <1>3, <1>4
<1>6. uPresentPos' = RankIn(event.present[m], i')
  <2>1. uPresentPos = RankIn(event.present[m], i)
    BY <1>2 DEF PlaceInv
  <2>2. RankIn(event.present[m], i + 1) =
            RankIn(event.present[m], i) + (IF i \in event.present[m] THEN 1 ELSE 0)
    BY <1>3, <1>4, <1>5, RankIs
  <2>3. QED
    BY <1>3, <1>5, <2>1, <2>2
<1>7. /\ row' \in [old : Cells, new : Cells] /\ Pushed' = Append(Pushed, v)
      /\ Pushed \in Cells /\ Len(Pushed) = i - 1
      /\ event.kind = "UPDATE" /\ m = 1 => row'.new = <<>>
      /\ Len(row'.old) <= Len(event.table) /\ Len(row'.new) <= Len(event.table)
  BY <1>1, <1>2, <1>4, <1>5, Pushes
<1>8. Len(Pushed') = i' - 1
  BY <1>5, <1>7 DEF Cells
<1>9. Images' = Images
  BY <1>1, LayoutStays
<1>10. QED
  BY <1>1, <1>2, <1>5, <1>6, <1>7, <1>8, <1>9 DEF PlaceInv

LEMMA AfterImageKeepsPlace ==
    ASSUME HeadsInv, PlaceInv, at = "column", AfterImage
    PROVE  PlaceInv'
<1>1. /\ event' = event /\ uPos' = uPos /\ r' = r /\ i' = i /\ row' = row /\ handed' = handed
      /\ uPresentPos' = 0 /\ bits' = {}
  BY DEF AfterImage, heads
<1>2. Images' = Images
  BY <1>1, LayoutStays
<1>3. CASE event.kind = "UPDATE" /\ m = 1
  <2>1. at' = "image" /\ m' = 2 /\ 2 \in Images
    BY <1>3 DEF AfterImage, Images
  <2>2. row.new = <<>>
    BY <1>3 DEF PlaceInv
  <2>3. Pushed' = row'.new
    BY <2>1 DEF Pushed
  <2>4. Len(Pushed') = 0
    BY <1>1, <2>2, <2>3
  <2>5. QED
    BY <1>1, <1>2, <2>1, <2>4 DEF PlaceInv
<1>4. CASE ~(event.kind = "UPDATE" /\ m = 1)
  <2>1. at' = "filter" /\ m' = m
    BY <1>4 DEF AfterImage
  <2>2. QED
    BY <1>1, <1>2, <2>1 DEF PlaceInv
<1>5. QED
  BY <1>3, <1>4

LEMMA PlaceKept ==
    ASSUME HeadsInv, PlaceInv, [Next]_vars
    PROVE  PlaceInv'
<1>1. m \in Images /\ uPos \in Nat /\ r \in Nat
  BY DEF PlaceInv
<1>2. /\ EventShape(event) /\ m \in 1 .. 2
      /\ PresentCount = Cardinality(event.present[m])
      /\ event.present[m] \subseteq 1 .. Len(event.table)
      /\ count = Len(event.table)
      /\ i \in 1 .. Len(event.table) =>
             /\ map.types[i] = TypeInMap(event.table[i])
             /\ map.metas[i] = MetaOf(event.table[i])
  BY <1>1, HeadsTell
<1>3. /\ Len(event.table) \in Nat /\ Len(event.table) > 0
      /\ \A c \in 1 .. Len(event.table) : ColumnShape(event.table[c])
  BY <1>2, EventFacts
<1>4. Cardinality(event.present[m]) \in Nat /\ RankIn(event.present[m], 1) = 0
  BY <1>2, <1>3, RankIs
<1>5. event' = event => Images' = Images
  BY LayoutStays
<1>6. CASE RowBegins
  <2>1. /\ event' = event /\ uPos' = uPos /\ i' = i /\ uPresentPos' = uPresentPos
        /\ bits' = bits /\ handed' = handed /\ at = "row" /\ at' = "image" /\ r' = r + 1
        /\ m' = 1 /\ row' = NewRow
    BY <1>6 DEF RowBegins, heads
  <2>2. row' = [old |-> <<>>, new |-> <<>>] /\ <<>> \in Cells /\ Len(<<>>) = 0
    BY <2>1 DEF NewRow, Cells
  <2>3. /\ row' \in [old : Cells, new : Cells] /\ Len(row'.old) = 0 /\ Len(row'.new) = 0
        /\ row'.new = <<>>
    BY <2>2
  <2>4. Len(Pushed') = 0
    BY <2>3 DEF Pushed
  <2>5. 1 \in Images /\ r' \in Nat /\ r' >= 1
    BY <1>1, <2>1 DEF Images
  <2>6. bits' = {} /\ uPresentPos' = 0
    BY <2>1 DEF PlaceInv
  <2>7. QED
    BY <1>3, <1>5, <2>1, <2>3, <2>4, <2>5, <2>6 DEF PlaceInv
<1>7. CASE BodyEnds
  <2>1. /\ event' = event /\ uPos' = uPos /\ r' = r /\ m' = m /\ i' = i
        /\ uPresentPos' = uPresentPos /\ bits' = bits /\ row' = row /\ handed' = handed
        /\ at = "row" /\ at' = "done"
    BY <1>7 DEF BodyEnds, heads
  <2>2. QED
    BY <1>5, <2>1 DEF PlaceInv
<1>8. CASE ImageBegins
  <2>1. /\ event' = event /\ r' = r /\ m' = m /\ row' = row /\ handed' = handed
        /\ at = "image" /\ at' = "column" /\ i' = 1 /\ uPresentPos' = 0
        /\ uPos' = uPos + (PresentCount + 7) \div 8
        /\ bits' \in IF InPlace(ImageStart(r, m)) THEN {NullBits(r, m)}
                     ELSE SUBSET (0 .. PresentCount - 1)
    BY <1>8 DEF ImageBegins, heads
  <2>2. uPos' \in Nat
    BY <1>1, <1>2, <1>4, <2>1
  <2>3. bits' \subseteq 0 .. Cardinality(event.present[m]) - 1
    <3>1. CASE InPlace(ImageStart(r, m))
      <4> r \in 1 .. Len(event.rows)
        <5>1. r >= 1 /\ r <= Len(event.rows)
          BY <2>1, <3>1 DEF InPlace, PlaceInv
        <5>2. QED
          BY <1>1, <1>2, <5>1, EventFacts
      <4>1. event.rows[r][m] \subseteq event.present[m]
        BY <1>2, EventFacts
      <4>2. \A c \in event.present[m] :
                RankIn(event.present[m], c) \in 0 .. Cardinality(event.present[m]) - 1
        BY <1>2, <1>3, RanksDiffer
      <4>3. bits' = {RankIn(event.present[m], c) : c \in event.rows[r][m]}
        BY <2>1, <3>1 DEF NullBits, Rank, RankIn
      <4>4. QED
        BY <4>1, <4>2, <4>3
    <3>2. CASE ~InPlace(ImageStart(r, m))
      BY <1>2, <2>1, <3>2
    <3>3. QED
      BY <3>1, <3>2
  <2>4. Pushed' = Pushed
    BY <2>1 DEF Pushed
  <2>5. Len(Pushed) = 0 /\ (event.kind = "UPDATE" /\ m = 1 => row.new = <<>>)
    BY <2>1 DEF PlaceInv
  <2>6. /\ i' \in 1 .. Len(event.table) + 1 /\ Len(Pushed') = i' - 1
        /\ uPresentPos' = RankIn(event'.present[m'], i') /\ m' \in Images'
        /\ bits' \subseteq 0 .. Cardinality(event'.present[m']) - 1
    BY <1>1, <1>3, <1>4, <1>5, <2>1, <2>3, <2>4, <2>5
  <2>7. /\ row' \in [old : Cells, new : Cells] /\ handed' \in Seq([old : Cells, new : Cells])
        /\ Len(row'.old) <= Len(event'.table) /\ Len(row'.new) <= Len(event'.table)
        /\ r' \in Nat /\ r' >= 1
        /\ event'.kind = "UPDATE" /\ m' = 1 => row'.new = <<>>
    BY <2>1, <2>5 DEF PlaceInv
  <2>8. at' = "column" /\ i' \in 1 .. Len(event'.table) + 1
    BY <2>1, <2>6
  <2>9. QED
    BY <2>2, <2>6, <2>7, <2>8 DEF PlaceInv
<1>9. Empty \in Seq(Nat)
  BY DEF Empty
<1>10. CASE AbsentColumn
  <2>1. /\ AtColumn /\ ~Present /\ Push(Empty) /\ i' = i + 1
        /\ uPos' = uPos /\ uPresentPos' = uPresentPos
        /\ UNCHANGED <<heads, at, r, m, bits, handed>>
    BY <1>10 DEF AbsentColumn
  <2>2. uPresentPos \in Nat
    <3>1. i \in 1 .. Len(event.table) + 1 /\ uPresentPos = RankIn(event.present[m], i)
      BY <2>1 DEF AtColumn, PlaceInv
    <3>2. QED
      BY <1>2, <1>3, <1>4, <3>1, RankIs
  <2>3. QED
    BY <1>1, <1>9, <2>1, <2>2, ColumnKeepsPlace
<1>11. CASE NullColumn
  BY <1>1, <1>9, <1>11, ColumnKeepsPlace DEF NullColumn
<1>12. CASE ValueColumn
  <2>1. /\ AtColumn /\ Present /\ i' = i + 1 /\ uPresentPos' = uPresentPos + 1
        /\ UNCHANGED <<heads, at, r, m, bits, handed>>
    BY <1>12 DEF ValueColumn
  <2>2. i \in 1 .. Len(event.table)
    BY <1>2, <1>3, <2>1 DEF AtColumn, PlaceInv
  <2>3. PICK n \in Advances \ {Unknown} : uPos' = uPos + n
    BY <1>12 DEF ValueColumn
  <2>4. PICK len \in Nat : n = Advance(map.types[i], map.metas[i], len)
    <3>1. event.table[i].len \in Nat
      BY <1>3, <2>2 DEF ColumnShape
    <3>2. QED
      BY <2>3, <3>1, LengthsAssumption DEF Advances
  <2>5. n \in Nat
    BY <1>2, <1>3, <2>2, <2>3, <2>4, ColumnPassed
  <2>6. PICK v \in Seq(Nat) : Push(v)
    <3> DEFINE v == IF InPlace(ValueStart(r, m, i)) THEN Value(r, m, i) ELSE Garbage
    <3>1. Push(v)
      BY <1>12 DEF ValueColumn
    <3>2. <<r, m, i>> \in Seq(Nat) /\ <<0, 0, 0>> \in Seq(Nat)
      BY <1>1, <1>2, <1>3, <2>2
    <3>3. v \in Seq(Nat)
      BY <3>2 DEF Value, Garbage
    <3> HIDE DEF v
    <3>4. QED
      BY <3>1, <3>3
  <2>7. uPos' \in Nat
    BY <1>1, <2>3, <2>5
  <2>8. QED
    BY <2>1, <2>6, <2>7, ColumnKeepsPlace
<1>13. CASE UnknownColumn
  BY <1>13, AfterImageKeepsPlace DEF UnknownColumn, AtColumn
<1>14. CASE ImageEnds
  BY <1>14, AfterImageKeepsPlace DEF ImageEnds
<1>15. CASE HandOut
  <2>1. /\ event' = event /\ uPos' = uPos /\ r' = r /\ m' = m /\ i' = i
        /\ uPresentPos' = uPresentPos /\ bits' = bits /\ row' = row
        /\ at = "filter" /\ at' = "row"
        /\ handed' = Append(handed,
                            [old |-> IF event.kind = "UPDATE" THEN Filtered(row.old) ELSE Empty,
                             new |-> Filtered(row.new)])
    BY <1>15 DEF HandOut, heads
  <2>2. event.wanted \in Seq(Nat)
    BY <1>2, EventFacts
  <2>3. ASSUME NEW values \in Cells PROVE Filtered(values) \in Cells
    <3>1. \A j \in DOMAIN event.wanted : event.wanted[j] \in Nat
      BY <2>2
    <3>2. ASSUME NEW w \in Nat, w < Len(values) PROVE values[w + 1] \in Seq(Nat)
      BY <2>3, <3>2 DEF Cells
    <3>3. Garbage \in Seq(Nat)
      BY DEF Garbage
    <3>4. \A j \in DOMAIN event.wanted : Filtered(values)[j] \in Seq(Nat)
      BY <3>1, <3>2, <3>3 DEF Filtered
    <3>5. DOMAIN event.wanted = 1 .. Len(event.wanted) /\ Len(event.wanted) \in Nat
      BY <2>2
    <3>6. Filtered(values) = [j \in 1 .. Len(event.wanted) |-> Filtered(values)[j]]
      BY <3>5 DEF Filtered
    <3>7. Filtered(values) \in [1 .. Len(event.wanted) -> Seq(Nat)]
      BY <3>4, <3>5, <3>6
    <3>8. QED
      BY <3>5, <3>7, FunctionIsSeq DEF Cells
  <2>4. row.old \in Cells /\ row.new \in Cells /\ handed \in Seq([old : Cells, new : Cells])
    BY DEF PlaceInv
  <2>5. Filtered(row.old) \in Cells /\ Filtered(row.new) \in Cells /\ Empty \in Cells
    BY <2>3, <2>4 DEF Cells, Empty
  <2>6. handed' \in Seq([old : Cells, new : Cells])
    BY <2>1, <2>4, <2>5
  <2>7. QED
    BY <1>5, <2>1, <2>6 DEF PlaceInv
<1>16. CASE HandOutDies
  <2>1. /\ event' = event /\ uPos' = uPos /\ r' = r /\ m' = m /\ i' = i
        /\ uPresentPos' = uPresentPos /\ bits' = bits /\ row' = row /\ handed' = handed
        /\ at = "filter" /\ at' = "dead"
    BY <1>16 DEF HandOutDies, heads
  <2>2. QED
    BY <1>5, <2>1 DEF PlaceInv
<1>17. CASE UNCHANGED vars
  <2>1. /\ event' = event /\ uPos' = uPos /\ r' = r /\ m' = m /\ i' = i
        /\ uPresentPos' = uPresentPos /\ bits' = bits /\ row' = row /\ handed' = handed
        /\ at' = at
    BY <1>17 DEF vars, heads
  <2>2. Pushed' = Pushed
    BY <2>1 DEF Pushed
  <2>3. QED
    BY <1>5, <2>1, <2>2 DEF PlaceInv
<1>18. QED
  BY <1>6, <1>7, <1>8, <1>10, <1>11, <1>12, <1>13, <1>14, <1>15, <1>16, <1>17 DEF Next

(***************************************************************************)
(* Each step reads what the server wrote.                                  *)
(***************************************************************************)
LEMMA Places ==
    ASSUME EventShape(event), NEW k \in 1 .. Len(event.rows)
    PROVE  /\ ImageStart(k, 1) = RowEnds[k - 1]
           /\ \A image \in 1 .. 2 :
                 /\ ImageStart(k, image) \in Nat
                 /\ ValueStart(k, image, 1) = ImageStart(k, image) + BitmapBytes(image)
                 /\ \A c \in 1 .. Len(event.table) :
                       /\ ValueStart(k, image, c) \in Nat
                       /\ ValueStart(k, image, c + 1) =
                              ValueStart(k, image, c) + Width0(k, image, c)
           /\ ValueStart(k, 1, Len(event.table) + 1) =
                  IF event.kind = "UPDATE" THEN ImageStart(k, 2) ELSE RowEnds[k]
           /\ event.kind = "UPDATE" =>
                  ValueStart(k, 2, Len(event.table) + 1) = RowEnds[k]
<1> DEFINE n == Len(event.table)
<1>1. n \in Nat /\ Len(event.rows) \in Nat
  BY EventFacts
<1>2. /\ RowEnds[k - 1] \in Nat /\ RowEnds[k] = RowEnds[k - 1] + RowBytes(k)
  <2>1. k - 1 \in 0 .. Len(event.rows)
    BY <1>1
  <2>2. QED
    BY <2>1, RowsLaidOut
<1>3. ASSUME NEW image \in 1 .. 2
      PROVE  /\ ValueEnds(k, image)[0] = 0
             /\ \A c \in 0 .. n : ValueEnds(k, image)[c] \in Nat
             /\ \A c \in 1 .. n :
                   ValueEnds(k, image)[c] = ValueEnds(k, image)[c - 1] + Width0(k, image, c)
             /\ BitmapBytes(image) \in Nat /\ ImageBytes(k, image) \in Nat
             /\ ImageBytes(k, image) = BitmapBytes(image) + ValueEnds(k, image)[n]
  BY ValuesLaidOut DEF Columns
<1>4. /\ ImageStart(k, 1) = RowEnds[k - 1]
      /\ ImageStart(k, 2) = RowEnds[k - 1] + ImageBytes(k, 1)
      /\ ImageStart(k, 1) \in Nat /\ ImageStart(k, 2) \in Nat
  <2>1. ImageBytes(k, 1) \in Nat
    BY <1>3
  <2>2. QED
    BY <1>2, <2>1 DEF ImageStart, RowStart
<1>5. ASSUME NEW image \in 1 .. 2
      PROVE  /\ ImageStart(k, image) \in Nat
             /\ \A c \in 1 .. n + 1 : ValueStart(k, image, c) =
                    ImageStart(k, image) + BitmapBytes(image) + ValueEnds(k, image)[c - 1]
  BY <1>4 DEF ValueStart
<1>6. ASSUME NEW image \in 1 .. 2
      PROVE  /\ ValueStart(k, image, 1) = ImageStart(k, image) + BitmapBytes(image)
             /\ ValueStart(k, image, n + 1) = ImageStart(k, image) + ImageBytes(k, image)
             /\ \A c \in 1 .. n :
                   /\ ValueStart(k, image, c) \in Nat
                   /\ ValueStart(k, image, c + 1) =
                          ValueStart(k, image, c) + Width0(k, image, c)
  <2> DEFINE I == ImageStart(k, image)
             B == BitmapBytes(image)
             V == ValueEnds(k, image)
             W(c) == ValueStart(k, image, c)
             D(c) == Width0(k, image, c)
  <2>1. /\ I \in Nat /\ B \in Nat /\ V[0] = 0 /\ \A c \in 0 .. n : V[c] \in Nat
        /\ \A c \in 1 .. n : V[c] = V[c - 1] + D(c)
        /\ \A c \in 1 .. n + 1 : W(c) = I + B + V[c - 1]
        /\ ImageBytes(k, image) = B + V[n]
    BY <1>3, <1>5
  <2> HIDE DEF I, B, V, W, D, n
  <2>2. W(1) = I + B
    <3>1. 1 \in 1 .. n + 1 /\ 1 - 1 = 0
      BY <1>1
    <3>2. W(1) = I + B + V[1 - 1]
      BY <2>1, <3>1
    <3>3. QED
      BY <2>1, <3>1, <3>2
  <2>3. W(n + 1) = I + ImageBytes(k, image)
    <3>1. n + 1 \in 1 .. n + 1 /\ (n + 1) - 1 = n /\ n \in 0 .. n
      BY <1>1
    <3>2. W(n + 1) = I + B + V[n]
      BY <2>1, <3>1
    <3>3. QED
      BY <2>1, <3>1, <3>2
  <2>4. ASSUME NEW c \in 1 .. n PROVE W(c) \in Nat /\ W(c + 1) = W(c) + D(c)
    <3>1. c \in 1 .. n + 1 /\ c + 1 \in 1 .. n + 1 /\ (c + 1) - 1 = c
          /\ c \in 0 .. n /\ c - 1 \in 0 .. n
      BY <1>1
    <3>2. W(c) = I + B + V[c - 1] /\ W(c + 1) = I + B + V[c]
      BY <2>1, <3>1
    <3>3. V[c] = V[c - 1] + D(c) /\ V[c - 1] \in Nat /\ V[c] \in Nat
      BY <2>1, <3>1
    <3>4. D(c) = V[c] - V[c - 1]
      <4>1. D(c) \in Nat
        BY <1>1, EventFacts, ColumnPassed DEF D, n, Width0
      <4>2. QED
        BY <3>3, <4>1
    <3>5. QED
      BY <2>1, <3>2, <3>3, <3>4
  <2>5. QED
    BY <2>2, <2>3, <2>4 DEF I, B, W, D
<1>7. ValueStart(k, 1, n + 1) = IF event.kind = "UPDATE" THEN ImageStart(k, 2) ELSE RowEnds[k]
  <2>1. ValueStart(k, 1, n + 1) = ImageStart(k, 1) + ImageBytes(k, 1)
        /\ ImageBytes(k, 1) \in Nat
    BY <1>3, <1>6
  <2>2. event.kind # "UPDATE" => RowBytes(k) = ImageBytes(k, 1)
    BY <2>1 DEF RowBytes
  <2>3. QED
    BY <1>2, <1>4, <2>1, <2>2
<1>8. ASSUME event.kind = "UPDATE" PROVE ValueStart(k, 2, n + 1) = RowEnds[k]
  <2>1. ValueStart(k, 2, n + 1) = ImageStart(k, 2) + ImageBytes(k, 2)
        /\ ImageBytes(k, 1) \in Nat /\ ImageBytes(k, 2) \in Nat
    BY <1>3, <1>6
  <2>2. RowBytes(k) = ImageBytes(k, 1) + ImageBytes(k, 2)
    BY <1>8 DEF RowBytes
  <2>3. QED
    BY <1>2, <1>4, <2>1, <2>2
<1>9. QED
  BY <1>4, <1>5, <1>6, <1>7, <1>8

LEMMA NullBitOf ==
    ASSUME EventShape(event), NEW k \in 1 .. Len(event.rows), NEW image \in 1 .. 2,
           NEW c \in event.present[image]
    PROVE  RankIn(event.present[image], c) \in NullBits(k, image) <=> c \in event.rows[k][image]
<1>1. /\ Len(event.table) \in Nat /\ event.present[image] \subseteq 1 .. Len(event.table)
      /\ event.rows[k][image] \subseteq event.present[image]
  BY EventFacts
<1>2. \A d \in event.present[image] :
          RankIn(event.present[image], c) = RankIn(event.present[image], d) => c = d
  BY <1>1, RanksDiffer
<1>3. NullBits(k, image) = {RankIn(event.present[image], d) : d \in event.rows[k][image]}
  BY DEF NullBits, Rank, RankIn
<1>4. QED
  BY <1>1, <1>2, <1>3

LEMMA ReadingStays ==
    ASSUME event' = event
    PROVE  /\ \A values, k, image, n :
                  ReadUpTo(values, k, image, n)' = ReadUpTo(values, k, image, n)
           /\ row' = row /\ r' = r => OldRead' = OldRead
           /\ handed' = handed => \A k : RowHanded(k)' = RowHanded(k)
<1>1. \A values, k, image, n : ReadUpTo(values, k, image, n)' = ReadUpTo(values, k, image, n)
  BY LayoutStays DEF ReadUpTo
<1>2. row' = row /\ r' = r => OldRead' = OldRead
  BY <1>1 DEF OldRead
<1>3. handed' = handed => \A k : RowHanded(k)' = RowHanded(k)
  BY LayoutStays DEF RowHanded, Empty
<1>4. QED
  BY <1>1, <1>2, <1>3

\* A row being read is one of those the server wrote.
LEMMA RowAtHand ==
    ASSUME HeadsInv, PlaceInv, ReadInv, at \in {"image", "column", "filter"}
    PROVE  /\ EventShape(event) /\ r \in 1 .. Len(event.rows) /\ m \in 1 .. 2
           /\ Len(event.table) \in Nat /\ Len(event.table) > 0
           /\ m = 2 <=> event.kind = "UPDATE" /\ m # 1
<1>1. m \in Images /\ r \in Nat /\ r >= 1 /\ r <= Len(event.rows)
  BY DEF PlaceInv, ReadInv
<1>2. EventShape(event) /\ m \in 1 .. 2
  BY <1>1, HeadsTell
<1>3. Len(event.rows) \in Nat /\ Len(event.table) \in Nat /\ Len(event.table) > 0
  BY <1>2, EventFacts
<1>4. QED
  BY <1>1, <1>2, <1>3 DEF Images

LEMMA ColumnIsRead ==
    ASSUME HeadsInv, PlaceInv, ReadInv, AtColumn, Push(Cell(r, m, i)),
           uPos' = uPos + Width0(r, m, i), i' = i + 1,
           UNCHANGED <<heads, at, r, m, bits, handed>>
    PROVE  ReadInv'
<1>1. event' = event /\ at' = at /\ r' = r /\ m' = m /\ bits' = bits /\ handed' = handed
      /\ at = "column"
  BY DEF heads, AtColumn
<1>2. /\ EventShape(event) /\ r \in 1 .. Len(event.rows) /\ m \in 1 .. 2
      /\ Len(event.table) \in Nat
      /\ m = 2 <=> event.kind = "UPDATE" /\ m # 1
  BY <1>1, RowAtHand
<1>3. i \in 1 .. Len(event.table)
  <2>1. i <= count /\ count = Len(event.table) /\ i \in 1 .. Len(event.table) + 1
    BY HeadsTell DEF AtColumn, PlaceInv
  <2>2. QED
    BY <1>2, <2>1
<1>4. /\ uPos = ValueStart(r, m, i) /\ bits = NullBits(r, m)
      /\ ReadUpTo(Pushed, r, m, i - 1) /\ (m = 2 => OldRead)
      /\ r <= Len(event.rows) /\ Len(handed) <= r /\ Len(handed) = r - 1
      /\ \A k \in 1 .. Len(handed) : RowHanded(k)
  BY <1>1 DEF ReadInv
<1>5. uPos' = ValueStart(r, m, i + 1)
  BY <1>2, <1>3, <1>4, Places
<1>6. Cell(r, m, i) \in Seq(Nat)
  <2>1. <<r, m, i>> \in Seq(Nat) /\ <<>> \in Seq(Nat)
    BY <1>2, <1>3
  <2>2. QED
    BY <2>1 DEF Cell, Value, Empty
<1>7. /\ Pushed' = Append(Pushed, Cell(r, m, i)) /\ Pushed \in Cells
      /\ Len(Pushed) = i - 1
      /\ ~(event.kind = "UPDATE" /\ m = 1) => row'.old = row.old
  BY <1>1, <1>6, Pushes
<1>8. ReadUpTo(Pushed', r, m, i)
  <2>1. Pushed \in Seq(Seq(Nat)) /\ Len(Pushed) + 1 = i
    BY <1>3, <1>7 DEF Cells
  <2>2. Len(Pushed') = i /\ Pushed'[i] = Cell(r, m, i)
    BY <1>6, <1>7, <2>1
  <2>3. ASSUME NEW c \in 1 .. i - 1 PROVE Pushed'[c] = Cell(r, m, c)
    <3>1. c \in 1 .. Len(Pushed)
      BY <1>3, <1>7
    <3>2. Pushed'[c] = Pushed[c]
      BY <1>6, <1>7, <2>1, <3>1
    <3>3. QED
      BY <1>4, <3>2 DEF ReadUpTo
  <2>4. \A c \in 1 .. i : c = i \/ c \in 1 .. i - 1
    BY <1>3
  <2>5. QED
    BY <2>2, <2>3, <2>4 DEF ReadUpTo
<1>9. m = 2 => OldRead'
  <2>1. m = 2 => row'.old = row.old /\ ReadUpTo(row.old, r, 1, Len(event.table))
    BY <1>2, <1>4, <1>7 DEF OldRead
  <2>2. m = 2 => ReadUpTo(row'.old, r, 1, Len(event.table))
    BY <2>1
  <2>3. QED
    BY <1>1, <2>2, ReadingStays DEF OldRead
<1>10. /\ ReadUpTo(Pushed, r, m, i - 1)'
       /\ (uPos = ValueStart(r, m, i))' /\ (bits = NullBits(r, m))'
  <2>1. i' - 1 = i
    BY <1>3
  <2>2. ReadUpTo(Pushed, r, m, i - 1)'
    BY <1>1, <1>8, <2>1, ReadingStays
  <2>3. (uPos = ValueStart(r, m, i))' /\ (bits = NullBits(r, m))'
    BY <1>1, <1>4, <1>5, LayoutStays
  <2>4. QED
    BY <2>2, <2>3
<1>11. \A k \in 1 .. Len(handed') : RowHanded(k)'
  BY <1>1, <1>4, ReadingStays
<1>12. QED
  BY <1>1, <1>4, <1>9, <1>10, <1>11 DEF ReadInv

LEMMA ImageIsRead ==
    ASSUME HeadsInv, PlaceInv, ReadInv, ImageEnds
    PROVE  ReadInv'
<1>1. /\ event' = event /\ uPos' = uPos /\ r' = r /\ i' = i /\ row' = row /\ handed' = handed
      /\ at = "column" /\ i > count
  BY DEF ImageEnds, AfterImage, heads
<1>2. /\ EventShape(event) /\ r \in 1 .. Len(event.rows) /\ m \in 1 .. 2
      /\ Len(event.table) \in Nat
      /\ m = 2 <=> event.kind = "UPDATE" /\ m # 1
  BY <1>1, RowAtHand
<1>3. i = Len(event.table) + 1
  <2>1. count = Len(event.table) /\ i \in 1 .. Len(event.table) + 1
    BY HeadsTell DEF PlaceInv
  <2>2. QED
    BY <1>1, <1>2, <2>1
<1>4. /\ uPos = ValueStart(r, m, Len(event.table) + 1)
      /\ ReadUpTo(Pushed, r, m, Len(event.table)) /\ (m = 2 => OldRead)
      /\ r <= Len(event.rows) /\ Len(handed) <= r /\ Len(handed) = r - 1
      /\ \A k \in 1 .. Len(handed) : RowHanded(k)
  <2>1. i - 1 = Len(event.table)
    BY <1>2, <1>3
  <2>2. QED
    BY <1>1, <1>3, <2>1 DEF ReadInv
<1>5. \A k \in 1 .. Len(handed') : RowHanded(k)'
  BY <1>1, <1>4, ReadingStays
<1>6. CASE event.kind = "UPDATE" /\ m = 1
  <2>1. at' = "image" /\ m' = 2
    BY <1>6 DEF ImageEnds, AfterImage
  <2>2. uPos' = ImageStart(r, 2)
    BY <1>1, <1>2, <1>4, <1>6, Places
  <2>3. (uPos = ImageStart(r, m))'
    BY <1>1, <2>1, <2>2, LayoutStays
  <2>4. OldRead
    BY <1>4, <1>6 DEF OldRead, Pushed
  <2>5. OldRead'
    BY <1>1, <2>4, ReadingStays
  <2>6. QED
    BY <1>1, <1>4, <1>5, <2>1, <2>3, <2>5 DEF ReadInv
<1>7. CASE ~(event.kind = "UPDATE" /\ m = 1)
  <2>1. at' = "filter" /\ m' = m
    BY <1>7 DEF ImageEnds, AfterImage
  <2>2. m = LastImage
    BY <1>2, <1>7 DEF LastImage
  <2>3. uPos' = RowEnds[r]
    BY <1>1, <1>2, <1>4, <1>7, Places
  <2>4. (uPos = RowEnds[r])'
    BY <1>1, <2>3, LayoutStays
  <2>5. ReadUpTo(row.new, r, LastImage, Len(event.table)) /\ OldRead
    BY <1>2, <1>4, <1>7, <2>2 DEF Pushed, OldRead
  <2>6. ReadUpTo(row.new, r, LastImage, Len(event.table))'
    BY <1>1, <2>5, ReadingStays, LayoutStays
  <2>7. OldRead'
    BY <1>1, <2>5, ReadingStays
  <2>8. QED
    BY <1>1, <1>4, <1>5, <2>1, <2>4, <2>6, <2>7 DEF ReadInv
<1>8. QED
  BY <1>6, <1>7

\* No event has a value in a column that the code misreads; null is none.
NoneMisread ==
    \A e \in Events : \A k \in 1 .. Len(e.rows), image \in 1 .. 2 :
        \A c \in e.present[image] \ e.rows[k][image] : ~Misread(e.table[c])

LEMMA RowIsHanded ==
    ASSUME HeadsInv, PlaceInv, ReadInv, HandOut
    PROVE  ReadInv'
<1>1. /\ event' = event /\ uPos' = uPos /\ r' = r /\ row' = row
      /\ at = "filter" /\ at' = "row" /\ Has(row.new)
      /\ handed' = Append(handed,
                       [old |-> IF event.kind = "UPDATE" THEN Filtered(row.old) ELSE Empty,
                        new |-> Filtered(row.new)])
  BY DEF HandOut, heads
<1>2. EventShape(event) /\ r \in 1 .. Len(event.rows) /\ Len(event.table) \in Nat
  BY <1>1, RowAtHand
<1>3. /\ uPos = RowEnds[r] /\ OldRead /\ ReadUpTo(row.new, r, LastImage, Len(event.table))
      /\ Len(handed) = r - 1 /\ r <= Len(event.rows)
      /\ \A k \in 1 .. Len(handed) : RowHanded(k)
  BY <1>1 DEF ReadInv
<1>4. event.wanted \in Seq(Nat)
  BY <1>2, EventFacts
<1>5. ASSUME NEW values, NEW image, ReadUpTo(values, r, image, Len(event.table)), Has(values)
      PROVE  Filtered(values) = Written(r, image)
  <2>1. ASSUME NEW j \in DOMAIN event.wanted
        PROVE  values[event.wanted[j] + 1] = Cell(r, image, event.wanted[j] + 1)
               /\ event.wanted[j] < Len(values)
    <3>1. event.wanted[j] \in Nat /\ event.wanted[j] < Len(values)
      BY <1>4, <1>5 DEF Has
    <3>2. event.wanted[j] + 1 \in 1 .. Len(event.table)
      BY <1>2, <1>5, <3>1 DEF ReadUpTo
    <3>3. QED
      BY <1>5, <3>1, <3>2 DEF ReadUpTo
  <2>2. Filtered(values) = [j \in DOMAIN event.wanted |-> Cell(r, image, event.wanted[j] + 1)]
    BY <2>1 DEF Filtered
  <2>3. Written(r, image) = [j \in DOMAIN event.wanted |-> Cell(r, image, event.wanted[j] + 1)]
    BY DEF Written, Cell
  <2>4. QED
    BY <2>2, <2>3
<1>6. Filtered(row.new) = Written(r, LastImage)
  BY <1>1, <1>3, <1>5
<1>7. event.kind = "UPDATE" => Filtered(row.old) = Written(r, 1)
  <2>1. ASSUME event.kind = "UPDATE" PROVE ReadUpTo(row.old, r, 1, Len(event.table)) /\ Has(row.old)
    <3>1. ReadUpTo(row.old, r, 1, Len(event.table))
      BY <1>3, <2>1 DEF OldRead
    <3>2. Len(row.old) = Len(row.new)
      BY <1>3, <3>1 DEF ReadUpTo
    <3>3. QED
      BY <1>1, <3>1, <3>2 DEF Has
  <2>2. QED
    BY <1>5, <2>1
<1>8. /\ Len(handed') = r
      /\ \A k \in 1 .. Len(handed) : handed'[k] = handed[k]
      /\ handed'[r] = [old |-> IF event.kind = "UPDATE" THEN Filtered(row.old) ELSE Empty,
                       new |-> Filtered(row.new)]
  <2>1. \E S : handed \in Seq(S)
    BY DEF PlaceInv
  <2> DEFINE new == [old |-> IF event.kind = "UPDATE" THEN Filtered(row.old) ELSE Empty,
                     new |-> Filtered(row.new)]
  <2>2. handed' = Append(handed, new)
    BY <1>1
  <2>3. r = Len(handed) + 1 /\ Len(handed) \in Nat
    BY <1>2, <1>3, <2>1
  <2> HIDE DEF new
  <2>4. Len(handed') = r /\ handed'[r] = new
    BY <2>1, <2>2, <2>3
  <2>5. \A k \in 1 .. Len(handed) : handed'[k] = handed[k]
    BY <2>1, <2>2, <2>3
  <2>6. QED
    BY <2>4, <2>5 DEF new
<1>9. ASSUME NEW k \in 1 .. Len(handed') PROVE RowHanded(k)'
  <2>1. CASE k = r
    <3>1. handed'[r] = IF event.kind = "UPDATE"
                       THEN [old |-> Written(r, 1), new |-> Written(r, 2)]
                       ELSE [old |-> Empty, new |-> Written(r, 1)]
      BY <1>6, <1>7, <1>8 DEF LastImage
    <3>2. QED
      BY <1>1, <2>1, <3>1, LayoutStays DEF RowHanded, Empty
  <2>2. CASE k # r
    <3>1. k \in 1 .. Len(handed)
      BY <1>2, <1>3, <1>8, <2>2
    <3>2. RowHanded(k) /\ handed'[k] = handed[k]
      BY <1>3, <1>8, <3>1
    <3>3. QED
      BY <1>1, <3>2, LayoutStays DEF RowHanded, Empty
  <2>3. QED
    BY <2>1, <2>2
<1>10. (uPos = RowEnds[r])'
  BY <1>1, <1>3, LayoutStays
<1>11. Len(handed') <= r' /\ r' <= Len(event'.rows)
  BY <1>1, <1>2, <1>3, <1>8
<1>12. QED
  BY <1>1, <1>8, <1>9, <1>10, <1>11 DEF ReadInv

LEMMA ReadKept ==
    ASSUME NoneMisread, HeadsInv, PlaceInv, ReadInv, Decodable, [Next]_vars
    PROVE  ReadInv'
<1>1. m \in Images /\ event \in Events
  BY DEF PlaceInv, HeadsInv
<1>2. /\ EventShape(event) /\ m \in 1 .. 2
      /\ PresentCount = Cardinality(event.present[m])
      /\ event.present[m] \subseteq 1 .. Len(event.table)
      /\ count = Len(event.table) /\ uBufLen = BodyLen
      /\ i \in 1 .. Len(event.table) =>
             /\ Present <=> i \in event.present[m]
             /\ map.types[i] = TypeInMap(event.table[i])
             /\ map.metas[i] = MetaOf(event.table[i])
  BY <1>1, HeadsTell
<1>3. /\ Len(event.table) \in Nat /\ Len(event.table) > 0 /\ Len(event.rows) \in Nat
      /\ \A c \in 1 .. Len(event.table) : ColumnShape(event.table[c])
      /\ r \in Nat
  BY <1>2, EventFacts DEF PlaceInv
<1>4. ASSUME event' = event, handed' = handed
      PROVE  \A k \in 1 .. Len(handed') : RowHanded(k)'
  BY <1>4, ReadingStays DEF ReadInv
<1>5. ASSUME AtColumn
      PROVE  /\ i \in 1 .. Len(event.table) /\ at = "column"
             /\ r \in 1 .. Len(event.rows)
             /\ uPos = ValueStart(r, m, i) /\ bits = NullBits(r, m) /\ uPos \in Nat
             /\ uPresentPos = RankIn(event.present[m], i)
             /\ event.rows[r][m] \subseteq event.present[m]
  <2>1. at = "column" /\ i <= count /\ i \in 1 .. Len(event.table) + 1
    BY <1>5 DEF AtColumn, PlaceInv
  <2>2. r \in 1 .. Len(event.rows)
    BY <2>1, RowAtHand
  <2>3. event.rows[r][m] \subseteq event.present[m]
    BY <1>2, <2>2, EventFacts
  <2>4. uPos = ValueStart(r, m, i) /\ bits = NullBits(r, m)
    BY <2>1 DEF ReadInv
  <2>5. uPos \in Nat /\ uPresentPos = RankIn(event.present[m], i)
    BY <2>1 DEF PlaceInv
  <2>6. QED
    BY <1>2, <1>3, <2>1, <2>2, <2>3, <2>4, <2>5
<1>6. CASE RowBegins
  <2>1. /\ event' = event /\ uPos' = uPos /\ handed' = handed /\ at = "row" /\ at' = "image"
        /\ r' = r + 1 /\ m' = 1 /\ uPos < uBufLen
    BY <1>6 DEF RowBegins, heads
  <2>2. uPos = RowEnds[r] /\ Len(handed) = r /\ r <= Len(event.rows)
    BY <2>1 DEF ReadInv
  <2>3. r # Len(event.rows)
    BY <1>2, <2>1, <2>2, RowsLaidOut DEF BodyLen
  <2>4. r + 1 \in 1 .. Len(event.rows)
    BY <1>3, <2>2, <2>3
  <2>5. ImageStart(r + 1, 1) = RowEnds[(r + 1) - 1] /\ (r + 1) - 1 = r
    BY <1>2, <1>3, <2>4, Places
  <2>6. (uPos = ImageStart(r, m))'
    BY <2>1, <2>2, <2>5, LayoutStays
  <2>7. Len(handed') = r' - 1 /\ Len(handed') <= r' /\ r' <= Len(event'.rows)
    BY <1>3, <2>1, <2>2, <2>4
  <2>8. QED
    BY <1>4, <2>1, <2>6, <2>7 DEF ReadInv
<1>7. CASE BodyEnds
  <2>1. /\ event' = event /\ uPos' = uPos /\ r' = r /\ handed' = handed /\ at = "row"
        /\ at' = "done" /\ uPos >= uBufLen
    BY <1>7 DEF BodyEnds, heads
  <2>2. uPos = RowEnds[r] /\ Len(handed) = r /\ r <= Len(event.rows)
    BY <2>1 DEF ReadInv
  <2>3. r = Len(event.rows)
    <3>1. /\ BodyLen \in Nat /\ RowEnds[r] \in Nat
          /\ \A k \in 0 .. Len(event.rows) - 1 : RowEnds[k] < BodyLen
      BY <1>2, <1>3, <2>2, RowsLaidOut
    <3>2. r \notin 0 .. Len(event.rows) - 1
      BY <1>2, <2>1, <2>2, <3>1
    <3>3. QED
      BY <1>3, <2>2, <3>2
  <2>4. uPos = BodyLen
    BY <2>2, <2>3 DEF BodyLen
  <2>5. (uPos = BodyLen)'
    BY <2>1, <2>4, LayoutStays
  <2>6. QED
    BY <1>4, <2>1, <2>2, <2>3, <2>5 DEF ReadInv
<1>8. CASE ImageBegins
  <2>1. /\ event' = event /\ r' = r /\ m' = m /\ row' = row /\ handed' = handed
        /\ at = "image" /\ at' = "column" /\ i' = 1
        /\ uPos' = uPos + (PresentCount + 7) \div 8
        /\ bits' \in IF InPlace(ImageStart(r, m)) THEN {NullBits(r, m)}
                     ELSE SUBSET (0 .. PresentCount - 1)
    BY <1>8 DEF ImageBegins, heads
  <2>2. r \in 1 .. Len(event.rows)
    BY <2>1, RowAtHand
  <2>3. /\ uPos = ImageStart(r, m) /\ (m = 2 => OldRead) /\ r <= Len(event.rows)
        /\ Len(handed) <= r /\ Len(handed) = r - 1
    BY <2>1 DEF ReadInv
  <2>4. bits' = NullBits(r, m)
    BY <2>1, <2>3 DEF InPlace
  <2>5. uPos' = ValueStart(r, m, 1)
    BY <1>2, <2>1, <2>2, <2>3, Places DEF BitmapBytes
  <2>6. ReadUpTo(Pushed, r, m, 0)
    <3>1. Len(Pushed) = 0
      BY <2>1 DEF PlaceInv
    <3>2. QED
      BY <3>1 DEF ReadUpTo
  <2>7. Pushed' = Pushed
    BY <2>1 DEF Pushed
  <2>8. ReadUpTo(Pushed, r, m, i - 1)'
    BY <2>1, <2>6, <2>7, ReadingStays
  <2>9. (uPos = ValueStart(r, m, i))' /\ (bits = NullBits(r, m))'
    BY <2>1, <2>4, <2>5, LayoutStays
  <2>10. (m = 2 => OldRead)'
    BY <2>1, <2>3, ReadingStays
  <2>11. QED
    BY <1>4, <2>1, <2>3, <2>8, <2>9, <2>10 DEF ReadInv
<1>9. CASE AbsentColumn
  <2>1. AtColumn /\ ~Present /\ Push(Empty) /\ i' = i + 1 /\ uPos' = uPos
        /\ UNCHANGED <<heads, at, r, m, bits, handed>>
    BY <1>9 DEF AbsentColumn
  <2>2. i \notin Filled(r, m)
    BY <1>2, <1>5, <2>1 DEF Filled
  <2>3. Cell(r, m, i) = Empty /\ Width0(r, m, i) = 0 /\ uPos \in Nat
    BY <1>5, <2>1, <2>2 DEF Cell, Width0
  <2>4. uPos' = uPos + Width0(r, m, i)
    BY <2>1, <2>3
  <2>5. QED
    BY <2>1, <2>3, <2>4, ColumnIsRead
<1>10. CASE NullColumn
  <2>1. AtColumn /\ Present /\ uPresentPos \in bits /\ Push(Empty) /\ i' = i + 1 /\ uPos' = uPos
        /\ UNCHANGED <<heads, at, r, m, bits, handed>>
    BY <1>10 DEF NullColumn
  <2>2. i \in event.rows[r][m]
    BY <1>2, <1>5, <2>1, NullBitOf
  <2>3. i \notin Filled(r, m)
    BY <2>2 DEF Filled
  <2>4. Cell(r, m, i) = Empty /\ Width0(r, m, i) = 0 /\ uPos \in Nat
    BY <1>5, <2>1, <2>3 DEF Cell, Width0
  <2>5. uPos' = uPos + Width0(r, m, i)
    BY <2>1, <2>4
  <2>6. QED
    BY <2>1, <2>4, <2>5, ColumnIsRead
<1>11. ASSUME AtColumn, Present, uPresentPos \notin bits
       PROVE  /\ i \in Filled(r, m) /\ InPlace(ValueStart(r, m, i))
              /\ Advances = {Width(event.table[i])} /\ Width(event.table[i]) \in Nat
  <2>1. /\ i \in 1 .. Len(event.table) /\ r \in 1 .. Len(event.rows)
        /\ uPos = ValueStart(r, m, i) /\ bits = NullBits(r, m)
        /\ uPresentPos = RankIn(event.present[m], i)
    BY <1>5, <1>11
  <2>2. i \in event.present[m]
    BY <1>2, <1>11, <2>1
  <2>3. i \notin event.rows[r][m]
    BY <1>2, <1>11, <2>1, <2>2, NullBitOf
  <2>4. InPlace(ValueStart(r, m, i))
    BY <2>1 DEF InPlace
  <2>5. Advances = {Advance(map.types[i], map.metas[i], event.table[i].len)}
    BY <2>4 DEF Advances
  <2>6. /\ Advance(map.types[i], map.metas[i], event.table[i].len) = Width(event.table[i])
        /\ Width(event.table[i]) \in Nat
    <3>1. ColumnShape(event.table[i]) /\ ~Misread(event.table[i])
      BY <1>1, <1>2, <1>3, <2>1, <2>2, <2>3 DEF NoneMisread
    <3>2. event.table[i].type # T.GEOMETRY
      BY <2>1 DEF Decodable, Columns
    <3>3. QED
      BY <1>2, <2>1, <3>1, <3>2, ColumnPassed
  <2>7. QED
    BY <2>2, <2>3, <2>4, <2>5, <2>6 DEF Filled
<1>12. CASE ValueColumn
  <2>1. /\ AtColumn /\ Present /\ uPresentPos \notin bits /\ i' = i + 1
        /\ UNCHANGED <<heads, at, r, m, bits, handed>>
        /\ \E n \in Advances \ {Unknown} : uPos' = uPos + n
        /\ Push(IF InPlace(ValueStart(r, m, i)) THEN Value(r, m, i) ELSE Garbage)
    BY <1>12 DEF ValueColumn
  <2>2. /\ i \in Filled(r, m) /\ InPlace(ValueStart(r, m, i))
        /\ Advances = {Width(event.table[i])}
    BY <1>11, <2>1
  <2>3. Push(Cell(r, m, i)) /\ uPos' = uPos + Width0(r, m, i)
    BY <2>1, <2>2 DEF Cell, Width0
  <2>4. QED
    BY <2>1, <2>3, ColumnIsRead
<1>13. CASE UnknownColumn
  <2>1. AtColumn /\ Present /\ uPresentPos \notin bits /\ Unknown \in Advances
    BY <1>13 DEF UnknownColumn
  <2>2. Unknown \in Nat
    BY <1>11, <2>1
  <2>3. QED
    BY <2>2 DEF Unknown
<1>14. CASE ImageEnds
  BY <1>14, ImageIsRead
<1>15. CASE HandOut
  BY <1>15, RowIsHanded
<1>16. CASE HandOutDies
  <2>1. /\ event' = event /\ r' = r /\ handed' = handed /\ at = "filter" /\ at' = "dead"
    BY <1>16 DEF HandOutDies, heads
  <2>2. QED
    BY <1>4, <2>1 DEF ReadInv
<1>17. CASE UNCHANGED vars
  <2>1. /\ event' = event /\ uPos' = uPos /\ r' = r /\ m' = m /\ i' = i
        /\ bits' = bits /\ row' = row /\ handed' = handed /\ at' = at
    BY <1>17 DEF vars, heads
  <2>2. Pushed' = Pushed /\ OldRead' = OldRead /\ LastImage' = LastImage
        /\ RowEnds' = RowEnds /\ BodyLen' = BodyLen
    BY <2>1, ReadingStays, LayoutStays DEF Pushed
  <2>3. /\ ImageStart(r, m)' = ImageStart(r, m) /\ ValueStart(r, m, i)' = ValueStart(r, m, i)
        /\ NullBits(r, m)' = NullBits(r, m)
        /\ ReadUpTo(Pushed, r, m, i - 1)' = ReadUpTo(Pushed, r, m, i - 1)
        /\ ReadUpTo(row.new, r, LastImage, Len(event.table))' =
               ReadUpTo(row.new, r, LastImage, Len(event.table))
    BY <2>1, <2>2, ReadingStays, LayoutStays
  <2>4. QED
    BY <1>4, <2>1, <2>2, <2>3 DEF ReadInv
<1>18. QED
  BY <1>6, <1>7, <1>8, <1>9, <1>10, <1>12, <1>13, <1>14, <1>15, <1>16, <1>17 DEF Next

(***************************************************************************)
(* Reading what was written.                                               *)
(***************************************************************************)
\* The bytes x are in b at offset p.
Holds(b, p, x) ==
    /\ p \in Nat /\ p + Len(x) <= Len(b)
    /\ \A j \in 1 .. Len(x) : b[p + j] = x[j]

LEMMA HeldPart ==
    ASSUME NEW b \in Seq(Nat), NEW x \in Seq(Nat), NEW p \in Nat, Holds(b, p, x)
    PROVE  Part(b, p, p + Len(x) - 1) = x
<1> DEFINE n == Len(x)
           y == Part(b, p, p + n - 1)
<1>1. n \in Nat /\ Len(b) \in Nat /\ p + n <= Len(b) /\ \A j \in 1 .. n : b[p + j] = x[j]
  BY DEF Holds
<1> HIDE DEF n
<1>2. y = SubSeq(b, p + 1, p + n)
  <2>1. (p + n - 1) + 1 = p + n
    BY <1>1
  <2>2. QED
    BY <2>1 DEF Part
<1>3. /\ Len(SubSeq(b, p + 1, p + n)) = n /\ SubSeq(b, p + 1, p + n) \in Seq(Nat)
      /\ \A j \in 1 .. n : SubSeq(b, p + 1, p + n)[j] = b[p + j]
  <2>1. \A j \in p + 1 .. p + n : b[j] \in Nat
    BY <1>1
  <2>2. /\ SubSeq(b, p + 1, p + n) \in Seq(Nat)
        /\ Len(SubSeq(b, p + 1, p + n)) =
               IF p + 1 <= p + n THEN (p + n) - (p + 1) + 1 ELSE 0
        /\ \A j \in 1 .. (p + n) - (p + 1) + 1 :
               SubSeq(b, p + 1, p + n)[j] = b[(p + 1) + j - 1]
    BY <1>1, <2>1, SubSeqProperties
  <2>3. (p + n) - (p + 1) + 1 = n /\ \A j \in 1 .. n : (p + 1) + j - 1 = p + j
    BY <1>1
  <2>4. Len(SubSeq(b, p + 1, p + n)) = n
    BY <1>1, <2>2
  <2>5. QED
    BY <2>2, <2>3, <2>4
<1>4. Len(x) = n
  BY DEF n
<1>5. QED
  BY <1>1, <1>2, <1>3, <1>4, SeqEqual

LEMMA HeldParts ==
    ASSUME NEW b, NEW x \in Seq(Nat), NEW y \in Seq(Nat), NEW p \in Nat, Holds(b, p, x \o y)
    PROVE  Holds(b, p, x) /\ Holds(b, p + Len(x), y) /\ p + Len(x) \in Nat
<1>1. /\ Len(x) \in Nat /\ Len(y) \in Nat /\ Len(x \o y) = Len(x) + Len(y)
      /\ \A j \in 1 .. Len(x) : (x \o y)[j] = x[j]
      /\ \A j \in 1 .. Len(y) : (x \o y)[Len(x) + j] = y[j]
  OBVIOUS
<1>2. p + (Len(x) + Len(y)) <= Len(b)
      /\ \A j \in 1 .. Len(x) + Len(y) : b[p + j] = (x \o y)[j]
  BY <1>1 DEF Holds
<1>3. \A j \in 1 .. Len(x) : b[p + j] = x[j]
  BY <1>1, <1>2
<1>4. ASSUME NEW j \in 1 .. Len(y) PROVE b[(p + Len(x)) + j] = y[j]
  <2>1. Len(x) + j \in 1 .. Len(x) + Len(y) /\ p + (Len(x) + j) = (p + Len(x)) + j
    BY <1>1
  <2>2. QED
    BY <1>1, <1>2, <2>1
<1>5. p + Len(x) <= Len(b) /\ (p + Len(x)) + Len(y) <= Len(b)
  BY <1>1, <1>2
<1>6. QED
  BY <1>1, <1>3, <1>4, <1>5 DEF Holds

LEMMA HeldWithin ==
    ASSUME NEW b \in Seq(Nat), NEW x \in Seq(Nat), NEW y \in Seq(Nat), NEW p \in Nat, NEW q \in Nat,
           Holds(b, p, x), Holds(x, q, y)
    PROVE  Holds(b, p + q, y)
<1>1. /\ Len(x) \in Nat /\ Len(y) \in Nat /\ Len(b) \in Nat
      /\ p + Len(x) <= Len(b) /\ \A j \in 1 .. Len(x) : b[p + j] = x[j]
      /\ q + Len(y) <= Len(x) /\ \A j \in 1 .. Len(y) : x[q + j] = y[j]
  BY DEF Holds
<1>2. ASSUME NEW j \in 1 .. Len(y) PROVE b[(p + q) + j] = y[j]
  <2>1. q + j \in 1 .. Len(x) /\ p + (q + j) = (p + q) + j
    BY <1>1
  <2>2. QED
    BY <1>1, <2>1
<1>3. QED
  BY <1>1, <1>2 DEF Holds

LEMMA PacketHolds ==
    ASSUME NEW type \in Nat, NEW payload \in Seq(Nat)
    PROVE  LET b == Packet(type, payload)
           IN  /\ b \in Seq(Nat) /\ Len(b) = 20 + Len(payload)
               /\ CommHead(b).type = type /\ CommHead(b).next = 20
               /\ Holds(b, 20, payload)
<1> DEFINE front == <<0, 9, 9, 9, 9, type>>
           rest == [j \in 1 .. 14 |-> 9]
           b == Packet(type, payload)
<1>1. front \in Seq(Nat) /\ Len(front) = 6 /\ front[6] = type
  OBVIOUS
<1>2. rest \in Seq(Nat) /\ Len(rest) = 14
  OBVIOUS
<1> HIDE DEF front, rest
<1>3. b = (front \o rest) \o payload
  BY DEF Packet, front, rest
<1> DEFINE head == front \o rest
<1>4. head \in Seq(Nat) /\ Len(head) = 20 /\ head[6] = type
  <2>1. /\ head \in Seq(Nat) /\ Len(head) = Len(front) + Len(rest)
        /\ \A j \in 1 .. Len(front) + Len(rest) :
               head[j] = IF j <= Len(front) THEN front[j] ELSE rest[j - Len(front)]
    BY <1>1, <1>2, ConcatProperties
  <2> HIDE DEF head
  <2>2. QED
    BY <1>1, <1>2, <2>1
<1> HIDE DEF head
<1>5. /\ b \in Seq(Nat) /\ Len(b) = 20 + Len(payload) /\ b[6] = type
      /\ \A j \in 1 .. Len(payload) : b[20 + j] = payload[j]
  <2>1. b = head \o payload
    BY <1>3 DEF head
  <2> HIDE DEF b
  <2>2. /\ b \in Seq(Nat) /\ Len(b) = Len(head) + Len(payload)
        /\ \A j \in 1 .. Len(head) + Len(payload) :
               b[j] = IF j <= Len(head) THEN head[j] ELSE payload[j - Len(head)]
    BY <1>4, <2>1, ConcatProperties
  <2>3. b \in Seq(Nat) /\ Len(b) = 20 + Len(payload) /\ b[6] = type
    BY <1>4, <2>2
  <2>4. ASSUME NEW j \in 1 .. Len(payload) PROVE b[20 + j] = payload[j]
    <3>1. 20 + j \in 1 .. Len(head) + Len(payload) /\ ~(20 + j <= Len(head))
          /\ (20 + j) - Len(head) = j
      BY <1>4
    <3>2. QED
      BY <2>2, <3>1
  <2>5. QED
    BY <2>3, <2>4
<1>6. Holds(b, 20, payload)
  BY <1>5 DEF Holds
<1> HIDE DEF b
<1>7. CommHead(b).type = b[6] /\ CommHead(b).next = 20
  BY DEF CommHead
<1>8. QED
  BY <1>5, <1>6, <1>7 DEF b

(***************************************************************************)
(* Numbers in heads.                                                       *)
(***************************************************************************)
LEMMA Reversed ==
    ASSUME NEW S, NEW x \in Seq(S)
    PROVE  Reverse(x) \in Seq(S) /\ Len(Reverse(x)) = Len(x) /\ Reverse(Reverse(x)) = x
<1> DEFINE n == Len(x)
           y == Reverse(x)
<1>1. n \in Nat /\ \A j \in 1 .. n : x[j] \in S /\ (n - j) + 1 \in 1 .. n
  OBVIOUS
<1>2. y = [j \in 1 .. n |-> x[(n - j) + 1]]
  BY DEF Reverse
<1>3. y \in [1 .. n -> S]
  BY <1>1, <1>2
<1>4. y \in Seq(S) /\ Len(y) = n
  BY <1>1, <1>3, FunctionIsSeq
<1> HIDE DEF y
<1>5. Reverse(y) = [j \in 1 .. n |-> y[(n - j) + 1]]
  BY <1>4 DEF Reverse
<1>6. \A j \in 1 .. n : y[(n - j) + 1] = x[j]
  <2> TAKE j \in 1 .. n
  <2>1. (n - ((n - j) + 1)) + 1 = j /\ (n - j) + 1 \in 1 .. n
    BY <1>1
  <2>2. QED
    BY <1>2, <2>1
<1>7. Reverse(y) = x
  <2>1. Reverse(y) = [j \in 1 .. n |-> x[j]]
    BY <1>5, <1>6
  <2>2. x = [j \in 1 .. n |-> x[j]]
    OBVIOUS
  <2>3. QED
    BY <2>1, <2>2
<1>8. QED
  BY <1>4, <1>7 DEF y

LEMMA BigOfTwo ==
    ASSUME NEW x \in Seq(Nat), Len(x) = 2
    PROVE  Big(x) = 256 * x[1] + x[2]
<1> DEFINE step == [k \in 1 .. 2 |-> [z \in Nat |-> 256 * z + x[k]]]
           Is(P) == P = [k \in 0 .. 2 |-> IF k = 0 THEN 0 ELSE 256 * P[k - 1] + x[k]]
<1>1. x[1] \in Nat /\ x[2] \in Nat /\ \A k \in 1 .. 2 : x[k] \in Nat
  <2>1. \A k \in 1 .. Len(x) : x[k] \in Nat
    BY ElementOfSeq
  <2>2. QED
    BY <2>1
<1>2. step \in [1 .. 2 -> [Nat -> Nat]]
  BY <1>1
<1>3. PICK R : IsFold(R, 2, Nat, 0, step)
  <2> HIDE DEF step
  <2>1. QED
    BY <1>2, Folding
<1>4. R \in [0 .. 2 -> Nat] /\ R[0] = 0 /\ \A k \in 1 .. 2 : R[k] = step[k][R[k - 1]]
  BY <1>3 DEF IsFold
<1>5. Is(R)
  <2>1. ASSUME NEW k \in 1 .. 2 PROVE R[k] = 256 * R[k - 1] + x[k]
    <3>1. R[k - 1] \in Nat
      BY <1>4
    <3>2. QED
      BY <1>4, <3>1
  <2>2. \A k \in 0 .. 2 : R[k] = IF k = 0 THEN 0 ELSE 256 * R[k - 1] + x[k]
    BY <1>4, <2>1
  <2>3. QED
    BY <1>4, <2>2
<1>6. Big(x) = (CHOOSE P : Is(P))[2]
  BY DEF Big
<1> HIDE DEF Is
<1>7. Is(CHOOSE P : Is(P))
  BY <1>5
<1> DEFINE P == CHOOSE Q : Is(Q)
<1>8. P = [k \in 0 .. 2 |-> IF k = 0 THEN 0 ELSE 256 * P[k - 1] + x[k]]
  BY <1>7 DEF Is
<1> HIDE DEF P
<1>9. P[0] = 0 /\ P[1] = 256 * P[0] + x[1] /\ P[2] = 256 * P[1] + x[2]
  BY <1>8
<1>10. P[2] = 256 * x[1] + x[2]
  BY <1>1, <1>9
<1>11. QED
  BY <1>6, <1>10 DEF P

LEMMA TwoBytes ==
    ASSUME NEW n \in Nat, n \div 256 \in 0 .. 255
    PROVE  /\ LittleBytes(n, 2) \in Seq(Nat) /\ Len(LittleBytes(n, 2)) = 2
           /\ Little(LittleBytes(n, 2)) = n
<1> DEFINE w == BytesBig(n, 2)
<1>1. w = [j \in 1 .. 2 |-> (n \div 256 ^ (2 - j)) % 256]
  BY DEF BytesBig
<1>2. 256 ^ (2 - 1) = 256 /\ 256 ^ (2 - 2) = 1
  BY SMT
<1> HIDE DEF w
<1>3. w[1] = (n \div 256) % 256 /\ w[2] = (n \div 1) % 256
  BY <1>1, <1>2
<1>4. w[1] = n \div 256 /\ w[2] = n % 256
  BY <1>3
<1>5. w \in Seq(Nat) /\ Len(w) = 2
  <2>1. \A j \in 1 .. 2 : w[j] \in Nat
    BY <1>4
  <2>2. w \in [1 .. 2 -> Nat]
    BY <1>1, <2>1
  <2>3. w \in Seq(Nat)
    BY <2>2, FunctionIsSeq
  <2>4. DOMAIN w = 1 .. 2
    BY <2>2
  <2>5. QED
    BY <2>3, <2>4
<1>6. LittleBytes(n, 2) = Reverse(w)
  BY DEF LittleBytes, Bytes, w
<1>7. Big(w) = n
  BY <1>4, <1>5, BigOfTwo
<1>8. QED
  BY <1>5, <1>6, <1>7, Reversed DEF Little

LEMMA Joined ==
    ASSUME NEW x \in Seq(Nat), NEW y \in Seq(Nat)
    PROVE  /\ x \o y \in Seq(Nat) /\ Len(x \o y) = Len(x) + Len(y)
           /\ Len(x) \in Nat /\ Len(y) \in Nat
OBVIOUS

LEMMA LenencIs ==
    ASSUME NEW n \in Nat, n \div 256 \in 0 .. 255
    PROVE  /\ n < 251 => Lenenc(n) = <<n>>
           /\ n >= 251 => Lenenc(n) = <<252>> \o LittleBytes(n, 2)
           /\ Lenenc(n) \in Seq(Nat)
           /\ Len(Lenenc(n)) = IF n < 251 THEN 1 ELSE 3
<1>1. n < 251 => Lenenc(n) = <<n>>
  BY SMT DEF Lenenc
<1>2. n >= 251 => Lenenc(n) = <<252>> \o LittleBytes(n, 2)
  <2>1. n < 65536
    BY SMT
  <2>2. QED
    BY <2>1, SMT DEF Lenenc
<1>3. CASE n < 251
  <2>1. <<n>> \in Seq(Nat) /\ Len(<<n>>) = 1
    OBVIOUS
  <2>2. ~(n >= 251)
    BY <1>3
  <2>3. QED
    BY <1>1, <1>3, <2>1, <2>2
<1>4. CASE n >= 251
  <2> DEFINE front == <<252>>
             back == LittleBytes(n, 2)
  <2>1. back \in Seq(Nat) /\ Len(back) = 2
    BY TwoBytes
  <2>2. front \in Seq(Nat) /\ Len(front) = 1
    OBVIOUS
  <2>3. Lenenc(n) = front \o back
    BY <1>2, <1>4
  <2> HIDE DEF front, back
  <2>4. front \o back \in Seq(Nat) /\ Len(front \o back) = Len(front) + Len(back)
    BY <2>1, <2>2, Joined
  <2>5. Lenenc(n) \in Seq(Nat) /\ Len(Lenenc(n)) = 3
    BY <2>1, <2>2, <2>3, <2>4
  <2>6. ~(n < 251)
    BY <1>4
  <2>7. QED
    BY <1>2, <2>5, <2>6
<1>5. QED
  BY <1>3, <1>4

LEMMA NumberHeld ==
    ASSUME NEW b \in Seq(Nat), NEW x \in Seq(Nat), NEW p \in Nat, Holds(b, p, x)
    PROVE  Number(b, p, Len(x)).value = Little(x) /\ Number(b, p, Len(x)).next = p + Len(x)
BY HeldPart DEF Number

LEMMA LenencHeld ==
    ASSUME NEW b \in Seq(Nat), NEW p \in Nat, NEW n \in Nat, n \div 256 \in 0 .. 255,
           Holds(b, p, Lenenc(n))
    PROVE  /\ UnpackLenencInt(b, p).value = n
           /\ UnpackLenencInt(b, p).next = p + Len(Lenenc(n))
<1>1. CASE n < 251
  <2>1. Lenenc(n) = <<n>> /\ Len(Lenenc(n)) = 1
    BY <1>1, LenencIs
  <2>2. b[p + 1] = n
    BY <2>1 DEF Holds
  <2>3. UnpackLenencInt(b, p) = [value |-> n, next |-> p + 1]
    BY <1>1, <2>2 DEF UnpackLenencInt
  <2>4. QED
    BY <2>1, <2>3
<1>2. CASE n >= 251
  <2> DEFINE front == <<252>>
             back == LittleBytes(n, 2)
  <2>1. back \in Seq(Nat) /\ Len(back) = 2 /\ Little(back) = n
    BY TwoBytes
  <2>2. front \in Seq(Nat) /\ Len(front) = 1 /\ front[1] = 252
    OBVIOUS
  <2>3. Holds(b, p, front \o back) /\ Len(Lenenc(n)) = 3
    <3>1. Lenenc(n) = front \o back /\ Len(Lenenc(n)) = IF n < 251 THEN 1 ELSE 3
      BY <1>2, LenencIs
    <3>2. QED
      BY <1>2, <3>1
  <2> HIDE DEF front, back
  <2>4. Holds(b, p, front) /\ Holds(b, p + 1, back)
    BY <2>1, <2>2, <2>3, HeldParts
  <2>5. b[p + 1] = 252
    BY <2>2, <2>4 DEF Holds
  <2>6. UnpackLenencInt(b, p) = Number(b, p + 1, 2)
    BY <2>5 DEF UnpackLenencInt
  <2>7. /\ Number(b, p + 1, 2).value = n /\ Number(b, p + 1, 2).next = (p + 1) + 2
    <3>1. p + 1 \in Nat
      OBVIOUS
    <3>2. /\ Number(b, p + 1, Len(back)).value = Little(back)
          /\ Number(b, p + 1, Len(back)).next = (p + 1) + Len(back)
      BY <2>1, <2>4, <3>1, NumberHeld
    <3>3. QED
      BY <2>1, <3>2
  <2>8. QED
    BY <2>3, <2>6, <2>7
<1>3. QED
  BY <1>1, <1>2

LEMMA IdShape ==
    ASSUME NEW head, HeadShape(head)
    PROVE  /\ IdBytes(head) \in Seq(Nat)
           /\ Len(IdBytes(head)) = IF head.postHead = 6 THEN 4 ELSE 6
<1> DEFINE n == head.tid
           short == BytesBig(n, 3)
           top == <<n \div 2 ^ 24>>
           zeros(k) == [j \in 1 .. k - 4 |-> 0]
<1>1. n \in Nat
  BY DEF HeadShape
<1>2. short \in Seq(Nat) /\ Len(short) = 3
  <2>1. short = [j \in 1 .. 3 |-> (n \div 256 ^ (3 - j)) % 256]
    BY DEF BytesBig
  <2>2. 256 ^ (3 - 1) = 65536 /\ 256 ^ (3 - 2) = 256 /\ 256 ^ (3 - 3) = 1
    BY SMT
  <2> HIDE DEF short
  <2>3. short[1] = (n \div 65536) % 256 /\ short[2] = (n \div 256) % 256
        /\ short[3] = (n \div 1) % 256
    BY <2>1, <2>2, SMT
  <2>4. \A j \in 1 .. 3 : short[j] \in Nat
    BY <1>1, <2>3, SMT
  <2>5. short \in [1 .. 3 -> Nat]
    BY <2>1, <2>4
  <2>6. short \in Seq(Nat)
    BY <2>5, FunctionIsSeq
  <2>7. DOMAIN short = 1 .. 3
    BY <2>5
  <2>8. QED
    BY <2>6, <2>7
<1>3. top \in Seq(Nat) /\ Len(top) = 1
  <2>1. 2 ^ 24 = 16777216
    BY SMT
  <2>2. n \div 2 ^ 24 \in Nat
    BY <1>1, <2>1, SMT
  <2>3. QED
    BY <2>2
<1>4. ASSUME NEW k \in {4, 6} PROVE zeros(k) \in Seq(Nat) /\ Len(zeros(k)) = k - 4
  <2>1. k - 4 \in Nat
    OBVIOUS
  <2>2. zeros(k) \in [1 .. k - 4 -> Nat] /\ DOMAIN zeros(k) = 1 .. k - 4
    OBVIOUS
  <2> HIDE DEF zeros
  <2>3. QED
    BY <2>1, <2>2, FunctionIsSeq
<1>5. ASSUME NEW k \in {4, 6} PROVE Bytes(n, k) = (zeros(k) \o top) \o short
  BY DEF Bytes
<1> HIDE DEF short, top, zeros
<1>6. ASSUME NEW k \in {4, 6} PROVE Bytes(n, k) \in Seq(Nat) /\ Len(Bytes(n, k)) = k
  <2> DEFINE front == zeros(k) \o top
  <2>1. zeros(k) \in Seq(Nat) /\ Len(zeros(k)) = k - 4
    BY <1>4
  <2>2. front \in Seq(Nat) /\ Len(front) = Len(zeros(k)) + Len(top)
    BY <1>3, <2>1, Joined
  <2>3. Bytes(n, k) = front \o short
    BY <1>5
  <2> HIDE DEF front
  <2>4. Bytes(n, k) \in Seq(Nat) /\ Len(Bytes(n, k)) = Len(front) + Len(short)
    BY <1>2, <2>2, <2>3, Joined
  <2>5. QED
    BY <1>2, <1>3, <2>1, <2>2, <2>4
<1>7. ASSUME NEW k \in {4, 6} PROVE LittleBytes(n, k) \in Seq(Nat) /\ Len(LittleBytes(n, k)) = k
  BY <1>6, Reversed DEF LittleBytes
<1>8. IdBytes(head) = LittleBytes(n, IF head.postHead = 6 THEN 4 ELSE 6)
  BY DEF IdBytes
<1>9. QED
  BY <1>7, <1>8

LEMMA BitmapIs ==
    ASSUME NEW n \in Nat, NEW set
    PROVE  /\ BitmapOf(set, n) \in Seq(0 .. 255)
           /\ Len(BitmapOf(set, n)) = (n + 7) \div 8
           /\ \A k \in 0 .. n - 1 : GetBit(BitmapOf(set, n), k) <=> k \in set
<1> DEFINE Bit(k) == IF k \in set THEN 1 ELSE 0
           Byte(k) == Bit(k) + 2 * Bit(k + 1) + 4 * Bit(k + 2) + 8 * Bit(k + 3)
                      + 16 * Bit(k + 4) + 32 * Bit(k + 5) + 64 * Bit(k + 6) + 128 * Bit(k + 7)
           size == (n + 7) \div 8
           block == BitmapOf(set, n)
<1>1. size \in Nat
  OBVIOUS
<1>2. \A k : Bit(k) \in 0 .. 1
  OBVIOUS
<1>3. block = [j \in 1 .. size |-> Byte(8 * (j - 1))]
  BY DEF BitmapOf
<1>4. ASSUME NEW k \in Nat
      PROVE  /\ Byte(k) \in 0 .. 255
             /\ Byte(k) % 2 = Bit(k) /\ (Byte(k) \div 2) % 2 = Bit(k + 1)
             /\ (Byte(k) \div 4) % 2 = Bit(k + 2) /\ (Byte(k) \div 8) % 2 = Bit(k + 3)
             /\ (Byte(k) \div 16) % 2 = Bit(k + 4) /\ (Byte(k) \div 32) % 2 = Bit(k + 5)
             /\ (Byte(k) \div 64) % 2 = Bit(k + 6) /\ (Byte(k) \div 128) % 2 = Bit(k + 7)
  <2>1. /\ Bit(k) \in 0 .. 1 /\ Bit(k + 1) \in 0 .. 1 /\ Bit(k + 2) \in 0 .. 1
        /\ Bit(k + 3) \in 0 .. 1 /\ Bit(k + 4) \in 0 .. 1 /\ Bit(k + 5) \in 0 .. 1
        /\ Bit(k + 6) \in 0 .. 1 /\ Bit(k + 7) \in 0 .. 1
    BY <1>2
  <2> HIDE DEF Bit
  <2>2. QED
    BY <2>1
<1> HIDE DEF Byte
<1>5. block \in [1 .. size -> 0 .. 255] /\ DOMAIN block = 1 .. size
  BY <1>1, <1>3, <1>4
<1>6. block \in Seq(0 .. 255) /\ Len(block) = size
  <2> HIDE DEF block, size
  <2>1. block \in Seq(0 .. 255)
    BY <1>1, <1>5, FunctionIsSeq
  <2>2. QED
    BY <1>1, <1>5, <2>1
<1>7. ASSUME NEW k \in 0 .. n - 1 PROVE GetBit(block, k) <=> k \in set
  <2> DEFINE j == k \div 8 + 1
             t == k % 8
  <2>1. j \in 1 .. size /\ t \in 0 .. 7 /\ k = 8 * (j - 1) + t /\ 8 * (j - 1) \in Nat
    OBVIOUS
  <2>2. block[j] = Byte(8 * (j - 1))
    BY <1>3, <2>1
  <2>3. GetBit(block, k) <=> (block[j] \div 2 ^ t) % 2 = 1
    BY DEF GetBit
  <2>4. 2 ^ 0 = 1 /\ 2 ^ 1 = 2 /\ 2 ^ 2 = 4 /\ 2 ^ 3 = 8 /\ 2 ^ 4 = 16 /\ 2 ^ 5 = 32
        /\ 2 ^ 6 = 64 /\ 2 ^ 7 = 128
    BY SMT
  <2> HIDE DEF j, t, block
  <2>5. (block[j] \div 2 ^ t) % 2 = Bit(8 * (j - 1) + t)
    <3> DEFINE q == 8 * (j - 1)
    <3>1. q \in Nat /\ block[j] = Byte(q)
      BY <2>1, <2>2
    <3> HIDE DEF q, Bit
    <3>2. t = 0 \/ t = 1 \/ t = 2 \/ t = 3 \/ t = 4 \/ t = 5 \/ t = 6 \/ t = 7
      BY <2>1
    <3>3. t = 0 => (block[j] \div 2 ^ t) % 2 = Bit(q + t)
      <4>1. Byte(q) % 2 = Bit(q) /\ Byte(q) \in 0 .. 255
        BY <1>4, <3>1
      <4>2. \A z \in 0 .. 255 : z \div 1 = z
        OBVIOUS
      <4>3. Byte(q) \div 1 = Byte(q) /\ q + 0 = q
        BY <3>1, <4>1, <4>2
      <4>4. QED
        BY <2>4, <3>1, <4>1, <4>3
    <3>4. t = 1 => (block[j] \div 2 ^ t) % 2 = Bit(q + t)
      BY <1>4, <2>4, <3>1
    <3>5. t = 2 => (block[j] \div 2 ^ t) % 2 = Bit(q + t)
      BY <1>4, <2>4, <3>1
    <3>6. t = 3 => (block[j] \div 2 ^ t) % 2 = Bit(q + t)
      BY <1>4, <2>4, <3>1
    <3>7. t = 4 => (block[j] \div 2 ^ t) % 2 = Bit(q + t)
      BY <1>4, <2>4, <3>1
    <3>8. t = 5 => (block[j] \div 2 ^ t) % 2 = Bit(q + t)
      BY <1>4, <2>4, <3>1
    <3>9. t = 6 => (block[j] \div 2 ^ t) % 2 = Bit(q + t)
      BY <1>4, <2>4, <3>1
    <3>10. t = 7 => (block[j] \div 2 ^ t) % 2 = Bit(q + t)
      BY <1>4, <2>4, <3>1
    <3>11. QED
      BY <3>2, <3>3, <3>4, <3>5, <3>6, <3>7, <3>8, <3>9, <3>10 DEF q
  <2>6. QED
    BY <2>1, <2>3, <2>5
<1>8. QED
  BY <1>6, <1>7

(***************************************************************************)
(* The FORMAT event.                                                       *)
(***************************************************************************)
LEMMA PostHeadIs ==
    ASSUME NEW head, HeadShape(head), NEW type
    PROVE  /\ PostHead(type, head) \in Nat
           /\ type \in {19, 23, 24, 25} =>
                  PostHead(type, head) = IF head.postHead = 6 THEN 6 ELSE 8
           /\ type \in {30, 31, 32} => PostHead(type, head) = 10
BY DEF PostHead, TABLE_MAP

LEMMA FormatRead ==
    ASSUME NEW head, HeadShape(head)
    PROVE  LET format == FormatEvent(FormatBytes(head), head.enable)
           IN  /\ \A type \in 1 .. 35 : GetPostHeadLen(format, type) = PostHead(type, head)
               /\ \A len \in Nat :
                      WithoutCrc(len + Len(CrcOf(head)), format, head.enable) = len
<1> DEFINE fifty == [j \in 1 .. 50 |-> 53]
           four == [j \in 1 .. 4 |-> 9]
           lens == [type \in 1 .. 35 |-> PostHead(type, head)]
           last == IF head.crc = "UNKNOWN" THEN <<>>
                   ELSE <<IF head.crc = "CRC32" THEN 1 ELSE 0>> \o Crc
           two == <<4, 0>>
           one == <<19>>
           f1 == two \o fifty
           f2 == f1 \o four
           front == f2 \o one
           fl == front \o lens
           payload == fl \o last
           b == FormatBytes(head)
           format == FormatEvent(b, head.enable)
           end == IF head.enable THEN Len(b) - 4 - 1 ELSE Len(b)
<1>1. /\ fifty \in Seq(Nat) /\ Len(fifty) = 50 /\ four \in Seq(Nat) /\ Len(four) = 4
      /\ two \in Seq(Nat) /\ Len(two) = 2 /\ one \in Seq(Nat) /\ Len(one) = 1
  OBVIOUS
<1>2. lens \in Seq(Nat) /\ Len(lens) = 35 /\ \A type \in 1 .. 35 : lens[type] = PostHead(type, head)
  <2>1. \A type \in 1 .. 35 : PostHead(type, head) \in Nat
    BY PostHeadIs
  <2>2. QED
    BY <2>1
<1>3. /\ head.crc \in {"CRC32", "NONE", "UNKNOWN"} /\ head.enable \in BOOLEAN
      /\ head.crc = "CRC32" => head.enable
      /\ head.crc = "UNKNOWN" => ~head.enable
  BY DEF HeadShape
<1>4. /\ last \in Seq(Nat) /\ Len(last) = IF head.crc = "UNKNOWN" THEN 0 ELSE 5
      /\ head.crc # "UNKNOWN" => last[1] = IF head.crc = "CRC32" THEN 1 ELSE 0
  <2>1. CASE head.crc = "UNKNOWN"
    BY <2>1
  <2>2. CASE head.crc # "UNKNOWN"
    <3> DEFINE flag == IF head.crc = "CRC32" THEN 1 ELSE 0
               first == <<flag>>
    <3>1. flag \in Nat
      OBVIOUS
    <3>2. first \in Seq(Nat) /\ Len(first) = 1 /\ first[1] = flag
      BY <3>1
    <3>3. Crc \in Seq(Nat) /\ Len(Crc) = 4
      BY DEF Crc
    <3>4. last = first \o Crc
      BY <2>2
    <3> HIDE DEF first, last
    <3>5. last \in Seq(Nat) /\ Len(last) = 5 /\ last[1] = first[1]
      <4>1. /\ last \in Seq(Nat) /\ Len(last) = Len(first) + Len(Crc)
            /\ \A j \in 1 .. Len(first) + Len(Crc) :
                   last[j] = IF j <= Len(first) THEN first[j] ELSE Crc[j - Len(first)]
        BY <3>2, <3>3, <3>4, ConcatProperties
      <4>2. QED
        BY <3>2, <3>3, <4>1
    <3>6. QED
      BY <2>2, <3>2, <3>5
  <2>3. QED
    BY <2>1, <2>2
<1>5. b = Packet(FORMAT, payload) /\ FORMAT = 15
  BY DEF FormatBytes, FORMAT
<1> HIDE DEF two, one, fifty, four, lens, last
<1>6. f1 \in Seq(Nat) /\ Len(f1) = 52
  <2>1. f1 \in Seq(Nat) /\ Len(f1) = Len(two) + Len(fifty)
    BY <1>1, Joined
  <2>2. QED
    BY <1>1, <2>1
<1> HIDE DEF f1
<1>7. f2 \in Seq(Nat) /\ Len(f2) = 56
  <2>1. f2 \in Seq(Nat) /\ Len(f2) = Len(f1) + Len(four)
    BY <1>1, <1>6, Joined
  <2>2. QED
    BY <1>1, <1>6, <2>1
<1> HIDE DEF f2
<1>8. front \in Seq(Nat) /\ Len(front) = 57
  <2>1. front \in Seq(Nat) /\ Len(front) = Len(f2) + Len(one)
    BY <1>1, <1>7, Joined
  <2>2. QED
    BY <1>1, <1>7, <2>1
<1> HIDE DEF front
<1>9. fl \in Seq(Nat) /\ Len(fl) = 92
  <2>1. fl \in Seq(Nat) /\ Len(fl) = Len(front) + Len(lens)
    BY <1>2, <1>8, Joined
  <2>2. QED
    BY <1>2, <1>8, <2>1
<1> HIDE DEF fl
<1>10. payload \in Seq(Nat) /\ Len(payload) = 92 + Len(last) /\ Len(last) \in Nat
  <2>1. payload \in Seq(Nat) /\ Len(payload) = Len(fl) + Len(last)
    BY <1>4, <1>9, Joined
  <2>2. QED
    BY <1>4, <1>9, <2>1
<1> HIDE DEF payload
<1>11. /\ b \in Seq(Nat) /\ Len(b) = 112 + Len(last) /\ CommHead(b).next = 20
       /\ Holds(b, 20, payload)
  <2>1. /\ Packet(15, payload) \in Seq(Nat)
        /\ Len(Packet(15, payload)) = 20 + Len(payload)
        /\ CommHead(Packet(15, payload)).next = 20 /\ Holds(Packet(15, payload), 20, payload)
    BY <1>10, PacketHolds
  <2>2. QED
    BY <1>4, <1>5, <1>10, <2>1
<1> HIDE DEF b
<1>12. Holds(b, 77, lens) /\ Holds(b, 112, last)
  <2>1. fl \in Seq(Nat) /\ Len(fl) = 92
    BY <1>9
  <2>2. payload = fl \o last
    BY DEF payload
  <2>3. Holds(b, 20, fl) /\ Holds(b, 20 + Len(fl), last)
    BY <1>4, <1>11, <2>1, <2>2, HeldParts
  <2>4. Holds(b, 20, front \o lens)
    BY <2>3 DEF fl
  <2>5. Holds(b, 20 + Len(front), lens)
    BY <1>2, <1>8, <2>4, HeldParts
  <2>6. 20 + Len(fl) = 112 /\ 20 + Len(front) = 77
    BY <1>8, <2>1
  <2>7. QED
    BY <2>3, <2>5, <2>6
<1>13. end \in Nat /\ end >= 112 /\ (head.enable => end = 112) /\ end <= Len(b)
  <2>1. CASE head.enable
    <3>1. Len(last) = 5
      BY <1>3, <1>4, <2>1
    <3>2. end = Len(b) - 4 - 1
      BY <2>1
    <3>3. QED
      BY <1>11, <3>1, <3>2
  <2>2. CASE ~head.enable
    <3>1. end = Len(b)
      BY <2>2
    <3>2. QED
      BY <1>10, <1>11, <2>2, <3>1
  <2>3. QED
    BY <2>1, <2>2
<1> HIDE DEF end
<1>14. /\ format.heads = SubSeq(b, 78, end)
       /\ format.alg = IF head.enable THEN b[end + 1] ELSE UNDEF
  <2>1. /\ format.heads = Part(b, CommHead(b).next + 2 + 50 + 4 + 1, end - 1)
        /\ format.alg = IF head.enable THEN b[end + 1] ELSE UNDEF
    BY DEF FormatEvent, end
  <2>2. Part(b, 77, end - 1) = SubSeq(b, 77 + 1, (end - 1) + 1)
    BY DEF Part
  <2>3. CommHead(b).next + 2 + 50 + 4 + 1 = 77 /\ (end - 1) + 1 = end
    BY <1>11, <1>13
  <2>4. QED
    BY <2>1, <2>2, <2>3
<1> HIDE DEF format
<1>15. ASSUME NEW type \in 1 .. 35 PROVE GetPostHeadLen(format, type) = PostHead(type, head)
  <2>1. \A j \in 78 .. end : b[j] \in Nat
    BY <1>11, <1>13
  <2>2. \A j \in 1 .. end - 78 + 1 : SubSeq(b, 78, end)[j] = b[78 + j - 1]
    BY <1>13, <2>1, SubSeqProperties
  <2>3. type \in 1 .. end - 78 + 1 /\ 78 + type - 1 = 77 + type
    BY <1>13
  <2>4. b[77 + type] = lens[type]
    BY <1>2, <1>12 DEF Holds
  <2>5. QED
    BY <1>2, <1>14, <2>2, <2>3, <2>4 DEF GetPostHeadLen
<1>16. ASSUME NEW len \in Nat
       PROVE  WithoutCrc(len + Len(CrcOf(head)), format, head.enable) = len
  <2>1. head.enable => format.alg = IF head.crc = "CRC32" THEN 1 ELSE 0
    <3>1. head.enable => b[112 + 1] = last[1]
      BY <1>3, <1>4, <1>12 DEF Holds
    <3>2. QED
      BY <1>3, <1>4, <1>13, <1>14, <3>1
  <2>2. Len(CrcOf(head)) = IF head.crc = "CRC32" THEN 4 ELSE 0
    BY DEF CrcOf, Crc
  <2>3. CASE head.crc = "CRC32"
    <3>1. head.enable /\ format.alg = 1 /\ Len(CrcOf(head)) = 4
      BY <1>3, <2>1, <2>2, <2>3
    <3>2. WithoutCrc(len + 4, format, head.enable) = (len + 4) - 4
      BY <3>1 DEF WithoutCrc, UNDEF
    <3>3. len + Len(CrcOf(head)) = len + 4 /\ (len + 4) - 4 = len
      BY <3>1
    <3>4. QED
      BY <3>2, <3>3
  <2>4. CASE head.crc # "CRC32"
    <3>1. (head.enable => format.alg = 0) /\ Len(CrcOf(head)) = 0
      BY <2>1, <2>2, <2>4
    <3>2. WithoutCrc(len + 0, format, head.enable) = len + 0
      BY <3>1 DEF WithoutCrc, UNDEF
    <3>3. QED
      BY <3>1, <3>2
  <2>5. head.crc = "CRC32" \/ head.crc # "CRC32"
    OBVIOUS
  <2>6. QED
    BY <2>3, <2>4, <2>5
<1>17. QED
  BY <1>15, <1>16 DEF format, b

(***************************************************************************)
(* The metas of a table map.                                               *)
(***************************************************************************)
LEMMA HeldInJoin ==
    ASSUME NEW x \in Seq(Nat), NEW y \in Seq(Nat)
    PROVE  Holds(x \o y, 0, x) /\ Holds(x \o y, Len(x), y)
<1>1. x \o y \in Seq(Nat) /\ Len(x \o y) \in Nat /\ Len(x) \in Nat
  BY Joined
<1>2. Holds(x \o y, 0, x \o y)
  <2> DEFINE b == x \o y
  <2>1. b \in Seq(Nat) /\ Len(b) \in Nat
    BY <1>1
  <2> HIDE DEF b
  <2>2. Holds(b, 0, b)
    BY <2>1 DEF Holds
  <2>3. QED
    BY <2>2 DEF b
<1>3. Holds(x \o y, 0, x) /\ Holds(x \o y, 0 + Len(x), y)
  BY <1>2, HeldParts
<1>4. 0 + Len(x) = Len(x)
  BY <1>1
<1>5. QED
  BY <1>3, <1>4

WithMeta(table, k) == {d \in 1 .. Len(table) : MetaAdvance(TypeInMap(table[d])) >= k}
MetaAt(table, c) == RankIn(WithMeta(table, 1), c) + RankIn(WithMeta(table, 2), c)

LEMMA MetaAtNext ==
    ASSUME NEW table, Len(table) \in Nat, \A c \in 1 .. Len(table) : ColumnShape(table[c])
    PROVE  /\ MetaAt(table, 1) = 0
           /\ \A c \in 1 .. Len(table) :
                 MetaAt(table, c + 1) = MetaAt(table, c) + Len(MetaBytes(table[c]))
           /\ \A c \in 1 .. Len(table) + 1 : MetaAt(table, c) \in Nat
<1> DEFINE n == Len(table)
<1>1. ASSUME NEW k \in 1 .. 2
      PROVE  /\ RankIn(WithMeta(table, k), 1) = 0
             /\ \A c \in 1 .. n : RankIn(WithMeta(table, k), c + 1) =
                    RankIn(WithMeta(table, k), c) + (IF c \in WithMeta(table, k) THEN 1 ELSE 0)
             /\ \A c \in 1 .. n + 1 : RankIn(WithMeta(table, k), c) \in Nat
  <2> DEFINE W == WithMeta(table, k)
  <2>1. W \subseteq 1 .. n
    BY DEF WithMeta
  <2> HIDE DEF W, n
  <2>2. n \in Nat
    BY DEF n
  <2>3. /\ RankIn(W, 1) = 0 /\ Cardinality(W) \in Nat
        /\ \A c \in 1 .. n : RankIn(W, c + 1) = RankIn(W, c) + (IF c \in W THEN 1 ELSE 0)
        /\ \A c \in 1 .. n + 1 : RankIn(W, c) \in 0 .. Cardinality(W)
    BY <2>1, <2>2, RankIs
  <2>4. \A c \in 1 .. n + 1 : RankIn(W, c) \in Nat
    BY <2>3
  <2>5. QED
    BY <2>3, <2>4 DEF W, n
<1>2. MetaAt(table, 1) = 0
  BY <1>1 DEF MetaAt
<1>3. ASSUME NEW c \in 1 .. n
      PROVE  MetaAt(table, c + 1) = MetaAt(table, c) + Len(MetaBytes(table[c]))
  <2> DEFINE a == MetaAdvance(TypeInMap(table[c]))
             r1 == RankIn(WithMeta(table, 1), c)
             r2 == RankIn(WithMeta(table, 2), c)
  <2>1. a \in 0 .. 2 /\ Len(MetaBytes(table[c])) = a
    BY MetaBytesShape
  <2>2. (c \in WithMeta(table, 1) <=> a >= 1) /\ (c \in WithMeta(table, 2) <=> a >= 2)
    BY DEF WithMeta
  <2>3. c \in 1 .. n + 1
    OBVIOUS
  <2>4. /\ r1 \in Nat /\ r2 \in Nat
        /\ RankIn(WithMeta(table, 1), c + 1) = r1 + (IF a >= 1 THEN 1 ELSE 0)
        /\ RankIn(WithMeta(table, 2), c + 1) = r2 + (IF a >= 2 THEN 1 ELSE 0)
    BY <1>1, <2>2, <2>3
  <2> HIDE DEF a, r1, r2
  <2>5. MetaAt(table, c + 1) = (r1 + (IF a >= 1 THEN 1 ELSE 0)) + (r2 + (IF a >= 2 THEN 1 ELSE 0))
        /\ MetaAt(table, c) = r1 + r2
    BY <2>4 DEF MetaAt, r1, r2
  <2>6. a = 0 \/ a = 1 \/ a = 2
    BY <2>1
  <2>7. QED
    BY <2>1, <2>4, <2>5, <2>6
<1>4. \A c \in 1 .. n + 1 : MetaAt(table, c) \in Nat
  BY <1>1 DEF MetaAt
<1>5. QED
  BY <1>2, <1>3, <1>4

LEMMA MetaBlockHolds ==
    ASSUME NEW table, Len(table) \in Nat, \A c \in 1 .. Len(table) : ColumnShape(table[c])
    PROVE  /\ MetaBlock(table) \in Seq(Nat)
           /\ Len(MetaBlock(table)) \in Nat /\ Len(MetaBlock(table)) <= 2 * Len(table)
           /\ \A c \in 1 .. Len(table) :
                 Holds(MetaBlock(table), MetaAt(table, c), MetaBytes(table[c]))
<1> DEFINE n == Len(table)
           S == Seq(Nat)
           x(c) == MetaBytes(table[c])
           step == [c \in 1 .. n |-> [y \in S |-> y \o x(c)]]
           Is(M) == M = [c \in 0 .. n |-> IF c = 0 THEN <<>> ELSE M[c - 1] \o x(c)]
<1>1. ASSUME NEW c \in 1 .. n PROVE x(c) \in S /\ Len(x(c)) \in 0 .. 2
  <2>1. MetaBytes(table[c]) \in Seq(0 .. 255) /\ Len(MetaBytes(table[c])) \in 0 .. 2
    BY MetaBytesShape
  <2>2. 0 .. 255 \subseteq Nat
    OBVIOUS
  <2>3. QED
    BY <2>1, <2>2, SeqMonotonic
<1> HIDE DEF x
<1>2. step \in [1 .. n -> [S -> S]]
  <2>1. ASSUME NEW c \in 1 .. n, NEW y \in S PROVE y \o x(c) \in S
    BY <1>1, Joined
  <2>2. QED
    BY <2>1
<1>3. PICK R : IsFold(R, n, S, <<>>, step)
  <2>1. <<>> \in S
    OBVIOUS
  <2> HIDE DEF step, S
  <2>2. QED
    BY <1>2, <2>1, Folding
<1>4. /\ R \in [0 .. n -> S] /\ R[0] = <<>>
      /\ \A c \in 1 .. n : R[c] = step[c][R[c - 1]]
  BY <1>3 DEF IsFold
<1>5. Is(R)
  <2>1. ASSUME NEW c \in 1 .. n PROVE R[c] = R[c - 1] \o x(c)
    <3>1. c - 1 \in 0 .. n
      OBVIOUS
    <3>2. R[c - 1] \in S
      BY <1>4, <3>1
    <3>3. step[c][R[c - 1]] = R[c - 1] \o x(c)
      BY <3>2
    <3>4. QED
      BY <1>4, <3>3
  <2>2. \A c \in 0 .. n : R[c] = IF c = 0 THEN <<>> ELSE R[c - 1] \o x(c)
    BY <1>4, <2>1
  <2>3. QED
    BY <1>4, <2>2
<1> DEFINE M == CHOOSE Q : Is(Q)
<1>6. MetaBlock(table) = M[n]
  BY DEF MetaBlock, x
<1> HIDE DEF Is
<1>7. Is(M)
  BY <1>5
<1>8. M = [c \in 0 .. n |-> IF c = 0 THEN <<>> ELSE M[c - 1] \o x(c)]
  BY <1>7 DEF Is
<1> HIDE DEF M
<1>9. M[0] = <<>> /\ \A c \in 1 .. n : M[c] = M[c - 1] \o x(c)
  <2>1. \A c \in 0 .. n : M[c] = IF c = 0 THEN <<>> ELSE M[c - 1] \o x(c)
    BY <1>8
  <2>2. 0 \in 0 .. n /\ \A c \in 1 .. n : c \in 0 .. n /\ c # 0
    OBVIOUS
  <2>3. QED
    BY <2>1, <2>2
<1> DEFINE Fine == {k \in 0 .. n : /\ M[k] \in S /\ Len(M[k]) = MetaAt(table, k + 1)
                                   /\ Len(M[k]) <= 2 * k}
<1>10. \A k \in 0 .. n : k \in Fine
  <2>1. 0 \in Fine
    <3>1. M[0] \in S /\ Len(M[0]) = 0
      BY <1>9
    <3>2. MetaAt(table, 0 + 1) = 0
      BY MetaAtNext
    <3>3. QED
      BY <3>1, <3>2
  <2>2. ASSUME NEW k \in 1 .. n, k - 1 \in Fine PROVE k \in Fine
    <3>1. /\ M[k - 1] \in S /\ Len(M[k - 1]) = MetaAt(table, (k - 1) + 1)
          /\ Len(M[k - 1]) <= 2 * (k - 1)
      BY <2>2
    <3>2. M[k] = M[k - 1] \o x(k) /\ x(k) \in S /\ Len(x(k)) \in 0 .. 2
      BY <1>1, <1>9
    <3>3. /\ M[k] \in S /\ Len(M[k]) = Len(M[k - 1]) + Len(x(k)) /\ Len(M[k - 1]) \in Nat
      BY <3>1, <3>2, Joined
    <3>4. MetaAt(table, k + 1) = MetaAt(table, k) + Len(x(k)) /\ (k - 1) + 1 = k
      BY MetaAtNext DEF x
    <3>5. Len(M[k]) <= 2 * k
      <4>1. \A a \in Nat, l \in 0 .. 2 : a <= 2 * (k - 1) => a + l <= 2 * k
        OBVIOUS
      <4>2. QED
        BY <3>1, <3>2, <3>3, <4>1
    <3>6. QED
      BY <3>1, <3>3, <3>4, <3>5
  <2> HIDE DEF Fine
  <2>3. QED
    BY <2>1, <2>2, AllReached
<1>11. \A k \in 0 .. n : M[k] \in Seq(Nat) /\ Len(M[k]) = MetaAt(table, k + 1) /\ Len(M[k]) <= 2 * k
  BY <1>10
<1>12. ASSUME NEW c \in 1 .. n PROVE Holds(M[n], MetaAt(table, c), x(c))
  <2> DEFINE p == MetaAt(table, c)
             Held == {k \in 0 .. n : k >= c => Holds(M[k], p, x(c))}
  <2>1. 0 \in Held
    OBVIOUS
  <2>2. ASSUME NEW k \in 1 .. n, k - 1 \in Held, k >= c PROVE Holds(M[k], p, x(c))
    <3>1. /\ M[k - 1] \in Seq(Nat) /\ Len(M[k - 1]) = MetaAt(table, k)
          /\ M[k] \in Seq(Nat) /\ x(k) \in Seq(Nat) /\ x(c) \in Seq(Nat)
      <4>1. k - 1 \in 0 .. n /\ k \in 0 .. n /\ (k - 1) + 1 = k
        OBVIOUS
      <4>2. QED
        BY <1>1, <1>11, <4>1
    <3>2. M[k] = M[k - 1] \o x(k)
      BY <1>9
    <3>3. Holds(M[k], 0, M[k - 1]) /\ Holds(M[k], Len(M[k - 1]), x(k))
      BY <3>1, <3>2, HeldInJoin
    <3>4. CASE k = c
      BY <3>1, <3>3, <3>4
    <3>5. CASE k # c
      <4>1. Holds(M[k - 1], p, x(c))
        BY <2>2, <3>5
      <4>2. p \in Nat
        BY <4>1 DEF Holds
      <4> HIDE DEF p
      <4>3. Holds(M[k], 0 + p, x(c))
        BY <3>1, <3>3, <4>1, <4>2, HeldWithin
      <4>4. 0 + p = p
        BY <4>2
      <4>5. QED
        BY <4>3, <4>4
    <3>6. QED
      BY <3>4, <3>5
  <2>3. ASSUME NEW k \in 1 .. n, k - 1 \in Held PROVE k \in Held
    BY <2>2, <2>3
  <2> HIDE DEF Held
  <2>4. \A k \in 0 .. n : k \in Held
    BY <2>1, <2>3, AllReached
  <2>5. n \in 0 .. n /\ n >= c
    OBVIOUS
  <2>6. n \in Held
    BY <2>4, <2>5
  <2>7. QED
    BY <2>5, <2>6 DEF Held
<1>13. QED
  <2>1. n \in 0 .. n
    OBVIOUS
  <2>2. M[n] \in Seq(Nat) /\ Len(M[n]) \in Nat /\ Len(M[n]) <= 2 * n
    BY <1>11, <2>1
  <2>3. QED
    BY <1>6, <1>12, <2>2 DEF x

(***************************************************************************)
(* The table map.                                                          *)
(***************************************************************************)
LEMMA NameHeld ==
    ASSUME NEW name \in Seq(0 .. 255), Len(name) < 256
    PROVE  /\ NameBytes(name) \in Seq(Nat)
           /\ \A b \in Seq(Nat), q \in Nat : Holds(b, q, NameBytes(name)) =>
                  /\ Name(b, q).value = name
                  /\ Name(b, q).next = q + Len(NameBytes(name))
<1> DEFINE first == <<Len(name)>>
           last == <<0>>
           front == first \o name
<1>1. name \in Seq(Nat) /\ Len(name) \in Nat
  <2>1. 0 .. 255 \subseteq Nat
    OBVIOUS
  <2>2. name \in Seq(Nat)
    BY <2>1, SeqMonotonic
  <2>3. QED
    BY <2>2
<1>2. /\ first \in Seq(Nat) /\ Len(first) = 1 /\ first[1] = Len(name)
      /\ last \in Seq(Nat) /\ Len(last) = 1
  BY <1>1
<1>3. NameBytes(name) = front \o last
  BY DEF NameBytes
<1> HIDE DEF first, last
<1>4. front \in Seq(Nat) /\ Len(front) = Len(first) + Len(name)
  BY <1>1, <1>2, Joined
<1>5. Len(front) = 1 + Len(name)
  BY <1>2, <1>4
<1> HIDE DEF front
<1>6. front \o last \in Seq(Nat) /\ Len(front \o last) = Len(front) + Len(last)
  BY <1>2, <1>4, Joined
<1>7. Len(NameBytes(name)) = (1 + Len(name)) + 1
  BY <1>2, <1>3, <1>5, <1>6
<1>8. ASSUME NEW b \in Seq(Nat), NEW q \in Nat, Holds(b, q, NameBytes(name))
      PROVE  Name(b, q).value = name /\ Name(b, q).next = q + Len(NameBytes(name))
  <2>1. Holds(b, q, front)
    BY <1>2, <1>3, <1>4, <1>8, HeldParts
  <2>2. Holds(b, q, first) /\ Holds(b, q + Len(first), name)
    <3>1. Holds(b, q, first \o name)
      BY <2>1 DEF front
    <3>2. QED
      BY <1>1, <1>2, <3>1, HeldParts
  <2>3. b[q + 1] = Len(name)
    BY <1>2, <2>2 DEF Holds
  <2>4. Part(b, q + 1, (q + 1) + Len(name) - 1) = name
    <3>1. q + 1 \in Nat /\ Holds(b, q + 1, name)
      BY <1>2, <2>2
    <3>2. QED
      BY <1>1, <3>1, HeldPart
  <2>5. (q + 1) + Len(name) - 1 = q + Len(name)
    BY <1>1
  <2>6. Name(b, q).value = name
    BY <2>3, <2>4, <2>5 DEF Name
  <2>7. Name(b, q).next = q + 1 + Len(name) + 1
    BY <2>3 DEF Name
  <2>8. QED
    BY <1>1, <1>7, <2>6, <2>7
<1>9. QED
  BY <1>3, <1>6, <1>8

LEMMA MetaHeld ==
    ASSUME NEW b \in Seq(Nat), NEW q \in Nat, NEW x \in Seq(Nat), Holds(b, q, x), NEW type,
           Len(x) = MetaAdvance(type), MetaAdvance(type) \in 0 .. 2
    PROVE  ReadMeta(type, b, q + 1) = ReadMeta(type, x, 1)
<1> DEFINE a == MetaAdvance(type)
<1>0. type = T.VARCHAR => a = 2
  BY TypeNumbers, SMT DEF MetaAdvance
<1>1. \A j \in 1 .. a : b[q + j] = x[j]
  BY DEF Holds
<1>2. a = 0 \/ a = 1 \/ a = 2
  OBVIOUS
<1> HIDE DEF a
<1>3. CASE a = 0
  <2>1. \A y, p : ReadMeta(type, y, p) = 0
    BY <1>0, <1>3 DEF ReadMeta, a
  <2>2. QED
    BY <2>1
<1>4. CASE a = 1
  <2>1. b[q + 1] = x[1]
    BY <1>1, <1>4
  <2>2. ReadMeta(type, b, q + 1) = b[q + 1] /\ ReadMeta(type, x, 1) = x[1]
    BY <1>0, <1>4 DEF ReadMeta, a
  <2>3. QED
    BY <2>1, <2>2
<1>5. CASE a = 2
  <2>1. b[q + 1] = x[1] /\ b[(q + 1) + 1] = x[1 + 1]
    <3>1. b[q + 1] = x[1] /\ b[q + 2] = x[2]
      BY <1>1, <1>5
    <3>2. (q + 1) + 1 = q + 2 /\ 1 + 1 = 2
      OBVIOUS
    <3>3. QED
      BY <3>1, <3>2
  <2>2. /\ ReadMeta(type, b, q + 1) =
               IF type = T.VARCHAR THEN b[q + 1] + 256 * b[(q + 1) + 1]
               ELSE 256 * b[q + 1] + b[(q + 1) + 1]
        /\ ReadMeta(type, x, 1) =
               IF type = T.VARCHAR THEN x[1] + 256 * x[1 + 1]
               ELSE 256 * x[1] + x[1 + 1]
    BY <1>5 DEF ReadMeta, a
  <2>3. QED
    BY <2>1, <2>2
<1>6. QED
  BY <1>2, <1>3, <1>4, <1>5

LEMMA SmallCounts ==
    ASSUME EventShape(event)
    PROVE  /\ Len(event.table) \div 256 \in 0 .. 255
           /\ \A l \in Nat : l <= 2 * Len(event.table) => l \div 256 \in 0 .. 255
<1>1. Len(event.table) \in Nat /\ Len(event.table) <= MaxColumns
  BY DEF EventShape
<1>2. QED
  <2>1. \A n \in Nat : n <= 8192 => n \div 256 \in 0 .. 255
    BY SMT
  <2>2. Len(event.table) <= 4096
    BY <1>1 DEF MaxColumns
  <2> DEFINE n == Len(event.table)
  <2>3. n \in Nat /\ n <= 8192 /\ \A l \in Nat : l <= 2 * n => l <= 8192
    BY <1>1, <2>2, SMT
  <2> HIDE DEF n
  <2>4. n \div 256 \in 0 .. 255 /\ \A l \in Nat : l <= 2 * n => l \div 256 \in 0 .. 255
    BY <2>1, <2>3
  <2>5. QED
    BY <2>4 DEF n

LEMMA HeadFacts ==
    ASSUME EventShape(event)
    PROVE  /\ HeadShape(event.head) /\ event.head.postHead \in {6, 8, 10}
           /\ event.head.enable \in BOOLEAN
           /\ \A k \in 1 .. 2 : event.names[k] \in Seq(0 .. 255) /\ Len(event.names[k]) < 256
           /\ event.names = <<event.names[1], event.names[2]>>
           /\ CrcOf(event.head) \in Seq(Nat)
<1>1. HeadShape(event.head)
  BY DEF EventShape
<1>2. event.head.postHead \in {6, 8, 10} /\ event.head.enable \in BOOLEAN
  BY <1>1 DEF HeadShape
<1>3. /\ event.names \in Seq(Seq(0 .. 255)) /\ Len(event.names) = 2
      /\ \A k \in 1 .. 2 : Len(event.names[k]) < 256
  BY DEF EventShape
<1>4. \A k \in 1 .. 2 : event.names[k] \in Seq(0 .. 255)
  BY <1>3, ElementOfSeq
<1>5. event.names = <<event.names[1], event.names[2]>>
  BY <1>3
<1>6. CrcOf(event.head) \in Seq(Nat)
  BY DEF CrcOf, Crc
<1>7. QED
  BY <1>1, <1>2, <1>3, <1>4, <1>5, <1>6

LEMMA TablemapRead ==
    ASSUME EventShape(event), NEW format,
           \A type \in 1 .. 35 : GetPostHeadLen(format, type) = PostHead(type, event.head)
    PROVE  LET t == Tablemap(TablemapBytes(event), format)
           IN  /\ t.id = Little(IdBytes(event.head)) /\ t.names = event.names
               /\ t.types = [c \in 1 .. Len(event.table) |-> TypeInMap(event.table[c])]
               /\ t.metas = [c \in 1 .. Len(event.table) |-> MetaOf(event.table[c])]
<1> DEFINE n == Len(event.table)
           id == IdBytes(event.head)
           name(k) == NameBytes(event.names[k])
           types == [c \in 1 .. n |-> TypeInMap(event.table[c])]
           metas == MetaBlock(event.table)
           bits0 == BitmapOf({}, n)
           crc == CrcOf(event.head)
           a2 == id \o Flags
           a3 == a2 \o name(1)
           a4 == a3 \o name(2)
           a5 == a4 \o Lenenc(n)
           a6 == a5 \o types
           a7 == a6 \o Lenenc(Len(metas))
           a8 == a7 \o metas
           a9 == a8 \o bits0
           payload == a9 \o crc
           b == TablemapBytes(event)
<1>1. /\ n \in Nat /\ \A c \in 1 .. n : ColumnShape(event.table[c])
      /\ HeadShape(event.head) /\ event.head.postHead \in {6, 8, 10}
      /\ \A k \in 1 .. 2 : event.names[k] \in Seq(0 .. 255) /\ Len(event.names[k]) < 256
      /\ event.names = <<event.names[1], event.names[2]>>
      /\ crc \in Seq(Nat)
  BY EventFacts, HeadFacts
<1>2. id \in Seq(Nat) /\ Len(id) = IF event.head.postHead = 6 THEN 4 ELSE 6
  BY <1>1, IdShape
<1>3. ASSUME NEW k \in 1 .. 2
      PROVE  /\ name(k) \in Seq(Nat)
             /\ \A y \in Seq(Nat), q \in Nat : Holds(y, q, name(k)) =>
                    /\ Name(y, q).value = event.names[k]
                    /\ Name(y, q).next = q + Len(name(k))
  BY <1>1, NameHeld
<1>4. /\ types \in Seq(Nat) /\ Len(types) = n
      /\ \A c \in 1 .. n : types[c] = TypeInMap(event.table[c])
  <2>1. ASSUME NEW c \in 1 .. n PROVE TypeInMap(event.table[c]) \in Nat
    <3>1. TypeInMap(event.table[c]) \in 0 .. 255
      BY <1>1, MetaBytesShape
    <3>2. \A y \in 0 .. 255 : y \in Nat
      OBVIOUS
    <3>3. QED
      BY <3>1, <3>2
  <2>2. types \in [1 .. n -> Nat]
    BY <2>1
  <2>3. \A c \in 1 .. n : types[c] = TypeInMap(event.table[c])
    OBVIOUS
  <2> HIDE DEF types
  <2>4. n \in Nat
    BY <1>1
  <2> HIDE DEF n
  <2>5. types \in Seq(Nat) /\ DOMAIN types = 1 .. n
    BY <2>2, <2>4, FunctionIsSeq
  <2>6. Len(types) = n
    BY <2>4, <2>5
  <2>7. QED
    BY <2>3, <2>5, <2>6
<1>5. /\ metas \in Seq(Nat) /\ Len(metas) \in Nat /\ Len(metas) <= 2 * n
      /\ \A c \in 1 .. n : Holds(metas, MetaAt(event.table, c), MetaBytes(event.table[c]))
  BY <1>1, MetaBlockHolds
<1>6. bits0 \in Seq(Nat)
  <2>1. n \in Nat
    BY <1>1
  <2> HIDE DEF n
  <2>2. bits0 \in Seq(0 .. 255)
    BY <2>1, BitmapIs
  <2>3. 0 .. 255 \subseteq Nat
    OBVIOUS
  <2> HIDE DEF bits0
  <2>4. QED
    BY <2>2, <2>3, SeqMonotonic
<1>7. n \div 256 \in 0 .. 255 /\ Len(metas) \div 256 \in 0 .. 255
  BY <1>5, SmallCounts
<1>8. Flags \in Seq(Nat) /\ Len(Flags) = 2
  BY DEF Flags
<1>9. Lenenc(n) \in Seq(Nat) /\ Lenenc(Len(metas)) \in Seq(Nat)
  <2>1. n \in Nat
    BY <1>1
  <2> HIDE DEF n, metas
  <2>2. Lenenc(n) \in Seq(Nat)
    BY <1>7, <2>1, LenencIs
  <2>3. Lenenc(Len(metas)) \in Seq(Nat)
    BY <1>5, <1>7, LenencIs
  <2>4. QED
    BY <2>2, <2>3
<1>10. b = Packet(19, payload)
  BY DEF TablemapBytes, TABLE_MAP
<1>0. name(1) \in Seq(Nat) /\ name(2) \in Seq(Nat)
  <2>1. 1 \in 1 .. 2 /\ 2 \in 1 .. 2
    OBVIOUS
  <2>2. QED
    BY <1>3, <2>1
<1> HIDE DEF n, id, name, types, metas, bits0, crc
<1>11. a2 \in Seq(Nat) /\ Len(a2) = Len(id) + 2
  BY <1>2, <1>8, Joined
<1> HIDE DEF a2
<1>12. a3 \in Seq(Nat) /\ Len(a3) = Len(a2) + Len(name(1))
  BY <1>0, <1>11, Joined
<1> HIDE DEF a3
<1>13. a4 \in Seq(Nat) /\ Len(a4) = Len(a3) + Len(name(2))
  BY <1>0, <1>12, Joined
<1> HIDE DEF a4
<1>14. a5 \in Seq(Nat) /\ Len(a5) = Len(a4) + Len(Lenenc(n))
  BY <1>9, <1>13, Joined
<1> HIDE DEF a5
<1>15. a6 \in Seq(Nat) /\ Len(a6) = Len(a5) + n
  BY <1>4, <1>14, Joined
<1> HIDE DEF a6
<1>16. a7 \in Seq(Nat) /\ Len(a7) = Len(a6) + Len(Lenenc(Len(metas)))
  BY <1>9, <1>15, Joined
<1> HIDE DEF a7
<1>17. a8 \in Seq(Nat) /\ a8 = a7 \o metas
  BY <1>5, <1>16, Joined
<1> HIDE DEF a8
<1>18. a9 \in Seq(Nat) /\ a9 = a8 \o bits0
  BY <1>6, <1>17, Joined
<1> HIDE DEF a9
<1>19. payload \in Seq(Nat) /\ payload = a9 \o crc
  BY <1>1, <1>18, Joined
<1> HIDE DEF payload
<1>20. /\ b \in Seq(Nat) /\ CommHead(b).type = 19 /\ CommHead(b).next = 20
       /\ Holds(b, 20, payload)
  <2>1. /\ Packet(19, payload) \in Seq(Nat) /\ CommHead(Packet(19, payload)).type = 19
        /\ CommHead(Packet(19, payload)).next = 20 /\ Holds(Packet(19, payload), 20, payload)
    BY <1>19, PacketHolds
  <2>2. QED
    BY <1>10, <2>1
<1> HIDE DEF b
<1>21. Holds(b, 20, a9)
  BY <1>1, <1>18, <1>19, <1>20, HeldParts DEF crc
<1>22. Holds(b, 20, a8)
  BY <1>6, <1>17, <1>18, <1>21, HeldParts
<1>23. Holds(b, 20, a7) /\ Holds(b, 20 + Len(a7), metas)
  BY <1>5, <1>16, <1>17, <1>22, HeldParts
<1>24. Holds(b, 20, a6) /\ Holds(b, 20 + Len(a6), Lenenc(Len(metas)))
  BY <1>9, <1>15, <1>23, HeldParts DEF a7
<1>25. Holds(b, 20, a5) /\ Holds(b, 20 + Len(a5), types)
  BY <1>4, <1>14, <1>24, HeldParts DEF a6
<1>26. Holds(b, 20, a4) /\ Holds(b, 20 + Len(a4), Lenenc(n))
  BY <1>9, <1>13, <1>25, HeldParts DEF a5
<1>27. Holds(b, 20, a3) /\ Holds(b, 20 + Len(a3), name(2))
  BY <1>0, <1>12, <1>20, <1>26, HeldParts DEF a4
<1>28. Holds(b, 20, a2) /\ Holds(b, 20 + Len(a2), name(1))
  BY <1>0, <1>11, <1>20, <1>27, HeldParts DEF a3
<1>29. Holds(b, 20, id)
  BY <1>2, <1>8, <1>28, HeldParts DEF a2

<1>30. Tableid(b, format).value = Little(id) /\ Tableid(b, format).next = 20 + Len(id)
  <2> DEFINE size == IF GetPostHeadLen(format, 19) = 6 THEN 4 ELSE 6
  <2>1. Tableid(b, format) = Number(b, 20, size)
    BY <1>20 DEF Tableid
  <2>2. size = Len(id)
    <3>1. 19 \in 1 .. 35 /\ 19 \in {19, 23, 24, 25}
      OBVIOUS
    <3>2. GetPostHeadLen(format, 19) = IF event.head.postHead = 6 THEN 6 ELSE 8
      BY <1>1, <3>1, PostHeadIs
    <3>3. CASE event.head.postHead = 6
      BY <1>2, <3>2, <3>3
    <3>4. CASE event.head.postHead # 6
      BY <1>2, <3>2, <3>4
    <3>5. QED
      BY <3>3, <3>4
  <2> HIDE DEF size
  <2>3. /\ Number(b, 20, Len(id)).value = Little(id)
        /\ Number(b, 20, Len(id)).next = 20 + Len(id)
    BY <1>2, <1>20, <1>29, NumberHeld
  <2>4. QED
    BY <2>1, <2>2, <2>3
<1>n. n \in Nat
  BY <1>1
<1>l. \A y \in Seq(Nat) : Len(y) \in Nat
  OBVIOUS
<1> DEFINE database == Name(b, Tableid(b, format).next + 2)
           table == Name(b, database.next)
           counter == UnpackLenencInt(b, table.next)
           read == Part(b, counter.next, counter.next + counter.value - 1)
           length == UnpackLenencInt(b, counter.next + counter.value)
<1>31. database.value = event.names[1] /\ database.next = 20 + Len(a3)
  <2>1. Tableid(b, format).next + 2 = 20 + Len(a2)
    BY <1>2, <1>11, <1>30
  <2>2. 20 + Len(a2) \in Nat /\ 1 \in 1 .. 2
    BY <1>11
  <2>3. /\ Name(b, 20 + Len(a2)).value = event.names[1]
        /\ Name(b, 20 + Len(a2)).next = (20 + Len(a2)) + Len(name(1))
    BY <1>3, <1>20, <1>28, <2>2
  <2>4. Len(a2) \in Nat /\ Len(name(1)) \in Nat
    BY <1>3, <1>11
  <2>5. QED
    BY <1>12, <2>1, <2>3, <2>4
<1>32. table.value = event.names[2] /\ table.next = 20 + Len(a4)
  <2>1. 20 + Len(a3) \in Nat /\ 2 \in 1 .. 2
    BY <1>12
  <2>2. /\ Name(b, 20 + Len(a3)).value = event.names[2]
        /\ Name(b, 20 + Len(a3)).next = (20 + Len(a3)) + Len(name(2))
    BY <1>3, <1>20, <1>27, <2>1
  <2>3. Len(a3) \in Nat /\ Len(name(2)) \in Nat
    BY <1>3, <1>12
  <2>4. QED
    BY <1>13, <1>31, <2>2, <2>3
<1>33. counter.value = n /\ counter.next = 20 + Len(a5)
  <2>1. 20 + Len(a4) \in Nat /\ Len(a4) \in Nat /\ Len(Lenenc(n)) \in Nat
    <3>1. Len(Lenenc(n)) \in Nat
      BY <1>l, <1>9
    <3>2. Len(a4) \in Nat
      BY <1>13, <1>l
    <3>3. QED
      BY <3>1, <3>2
  <2>2. /\ UnpackLenencInt(b, 20 + Len(a4)).value = n
        /\ UnpackLenencInt(b, 20 + Len(a4)).next = (20 + Len(a4)) + Len(Lenenc(n))
    BY <1>7, <1>20, <1>26, <1>n, <2>1, LenencHeld
  <2>3. (20 + Len(a4)) + Len(Lenenc(n)) = 20 + Len(a5)
    BY <1>14, <2>1
  <2>4. counter.value = UnpackLenencInt(b, 20 + Len(a4)).value
        /\ counter.next = UnpackLenencInt(b, 20 + Len(a4)).next
    BY <1>32
  <2> HIDE DEF counter
  <2>5. QED
    BY <2>2, <2>3, <2>4
<1>34. read = types
  <2>1. 20 + Len(a5) \in Nat /\ n \in Nat
    BY <1>1, <1>14
  <2>2. Part(b, 20 + Len(a5), (20 + Len(a5)) + Len(types) - 1) = types
    BY <1>4, <1>20, <1>25, <2>1, HeldPart
  <2>3. QED
    BY <1>4, <1>33, <2>2
<1>35. length.next = 20 + Len(a7)
  <2>1. /\ n \in Nat /\ Len(a5) \in Nat /\ Len(a6) \in Nat /\ 20 + Len(a6) \in Nat
        /\ Len(Lenenc(Len(metas))) \in Nat
    <3>1. Len(Lenenc(Len(metas))) \in Nat
      BY <1>l, <1>9
    <3>2. Len(a5) \in Nat /\ Len(a6) \in Nat
      BY <1>14, <1>15, <1>l
    <3>3. QED
      BY <1>n, <3>1, <3>2
  <2>2. counter.next + counter.value = 20 + Len(a6)
    <3> HIDE DEF counter
    <3>1. QED
      BY <1>15, <1>33, <2>1
  <2>3. UnpackLenencInt(b, 20 + Len(a6)).next = (20 + Len(a6)) + Len(Lenenc(Len(metas)))
    BY <1>5, <1>7, <1>20, <1>24, <2>1, LenencHeld
  <2>4. QED
    BY <1>16, <2>1, <2>2, <2>3
<1> DEFINE Taking(c, k) == Cardinality({d \in 1 .. c - 1 : MetaAdvance(read[d]) >= k})
           at0(c) == length.next + (Taking(c, 1) + Taking(c, 2)) + 1
<1>36. /\ Tablemap(b, format).id = Tableid(b, format).value
       /\ Tablemap(b, format).names = <<database.value, table.value>>
       /\ Tablemap(b, format).types = read
       /\ Tablemap(b, format).metas = [c \in 1 .. counter.value |-> ReadMeta(read[c], b, at0(c))]
  BY DEF Tablemap
<1> HIDE DEF database, table, counter, read, length
<1>37. ASSUME NEW c \in 1 .. n PROVE ReadMeta(read[c], b, at0(c)) = MetaOf(event.table[c])
  <2> DEFINE x == MetaBytes(event.table[c])
             q == MetaAt(event.table, c)
  <2>1. ASSUME NEW k \in 1 .. 2 PROVE Taking(c, k) = RankIn(WithMeta(event.table, k), c)
    <3>1. \A d \in 1 .. n : read[d] = TypeInMap(event.table[d])
      BY <1>4, <1>34
    <3>2. \A d : d \in 1 .. c - 1 <=> d \in 1 .. n /\ d < c
      BY <1>n
    <3>3. {d \in 1 .. c - 1 : MetaAdvance(read[d]) >= k}
              = {d \in WithMeta(event.table, k) : d < c}
      BY <3>1, <3>2 DEF WithMeta, n
    <3>4. QED
      BY <3>3 DEF RankIn
  <2>2. at0(c) = (20 + Len(a7)) + q + 1
    BY <1>35, <2>1 DEF MetaAt
  <2>3. /\ x \in Seq(Nat) /\ Len(x) = MetaAdvance(TypeInMap(event.table[c]))
        /\ MetaAdvance(TypeInMap(event.table[c])) \in 0 .. 2
    <3>1. ColumnShape(event.table[c])
      BY <1>1 DEF n
    <3>2. x \in Seq(0 .. 255) /\ 0 .. 255 \subseteq Nat
      BY <3>1, MetaBytesShape
    <3>3. x \in Seq(Nat)
      BY <3>2, SeqMonotonic
    <3>4. QED
      BY <3>1, <3>3, MetaBytesShape
  <2>4. q \in Nat /\ Holds(metas, q, x)
    BY <1>5 DEF Holds
  <2> HIDE DEF x, q
  <2> DEFINE p == 20 + Len(a7)
  <2>5. p \in Nat /\ Holds(b, p, metas)
    BY <1>16, <1>23
  <2>6. Holds(b, (20 + Len(a7)) + q, x) /\ (20 + Len(a7)) + q \in Nat
    <3> HIDE DEF p
    <3>1. Holds(b, p + q, x) /\ p + q \in Nat
      <4>1. b \in Seq(Nat) /\ metas \in Seq(Nat) /\ x \in Seq(Nat)
        BY <1>5, <1>20, <2>3
      <4>2. Holds(b, p + q, x)
        BY <2>4, <2>5, <4>1, HeldWithin
      <4>3. QED
        BY <2>4, <2>5, <4>2
    <3>2. QED
      BY <3>1 DEF p
  <2>7. ReadMeta(TypeInMap(event.table[c]), b, (20 + Len(a7)) + q + 1)
            = ReadMeta(TypeInMap(event.table[c]), x, 1)
    BY <1>20, <2>3, <2>6, MetaHeld
  <2>8. read[c] = TypeInMap(event.table[c])
    BY <1>4, <1>34
  <2> HIDE DEF at0
  <2>9. QED
    BY <2>2, <2>7, <2>8 DEF MetaOf, x
<1> HIDE DEF at0
<1>38. Tablemap(b, format).metas = [c \in 1 .. n |-> MetaOf(event.table[c])]
  BY <1>33, <1>36, <1>37
<1>39. QED
  BY <1>1, <1>30, <1>31, <1>32, <1>34, <1>36, <1>38 DEF b, id, types, n

(***************************************************************************)
(* The row event up to its first row.                                      *)
(***************************************************************************)
PresentBitmap(image) == BitmapOf({c - 1 : c \in event.present[image]}, Len(event.table))

LEMMA PresentTells ==
    ASSUME EventShape(event), NEW image \in 1 .. 2
    PROVE  /\ PresentBitmap(image) \in Seq(0 .. 255) /\ PresentBitmap(image) \in Seq(Nat)
           /\ Len(PresentBitmap(image)) = (Len(event.table) + 7) \div 8
           /\ \A c \in 1 .. Len(event.table) :
                 GetBit(PresentBitmap(image), c - 1) <=> c \in event.present[image]
<1> DEFINE n == Len(event.table)
           P == event.present[image]
           set == {c - 1 : c \in P}
           block == BitmapOf(set, n)
<1>1. n \in Nat /\ P \subseteq 1 .. n
  BY EventFacts
<1>2. PresentBitmap(image) = block
  BY DEF PresentBitmap
<1>3. \A c \in 1 .. n : c - 1 \in set <=> c \in P
  <2> TAKE c \in 1 .. n
  <2>1. \A d \in P : d \in Int
    BY <1>1
  <2>2. \A d \in P : c - 1 = d - 1 => c = d
    BY <2>1
  <2>3. QED
    BY <2>2
<1> HIDE DEF n, set
<1>4. /\ block \in Seq(0 .. 255) /\ Len(block) = (n + 7) \div 8
      /\ \A k \in 0 .. n - 1 : GetBit(block, k) <=> k \in set
  BY <1>1, BitmapIs
<1> HIDE DEF block
<1>5. ASSUME NEW c \in 1 .. n PROVE GetBit(block, c - 1) <=> c \in P
  <2>1. c - 1 \in 0 .. n - 1
    BY <1>1
  <2>2. QED
    BY <1>3, <1>4, <2>1
<1>6. block \in Seq(Nat)
  <2>1. 0 .. 255 \subseteq Nat
    OBVIOUS
  <2>2. QED
    BY <1>4, <2>1, SeqMonotonic
<1>7. QED
  BY <1>2, <1>4, <1>5, <1>6 DEF n

LEMMA RowTypeIs ==
    ASSUME EventShape(event)
    PROVE  LET type == TypeOf(event.kind, event.head)
           IN  /\ type \in 1 .. 35
               /\ type \in {24, 31} <=> event.kind = "UPDATE"
               /\ type \in 23 .. 25 <=> event.head.postHead # 10
               /\ PostHead(type, event.head) = 6 <=> event.head.postHead = 6
<1> DEFINE type == TypeOf(event.kind, event.head)
<1>1. event.kind \in {"INSERT", "UPDATE", "DEL"} /\ HeadShape(event.head)
      /\ event.head.postHead \in {6, 8, 10}
  BY EventFacts, HeadFacts
<1>2. type = (IF event.head.postHead = 10 THEN 30 ELSE 23)
             + [INSERT |-> 0, UPDATE |-> 1, DEL |-> 2][event.kind]
  BY DEF TypeOf
<1>3. CASE event.head.postHead = 10
  <2>1. /\ event.kind = "INSERT" => type = 30
        /\ event.kind = "UPDATE" => type = 31
        /\ event.kind = "DEL" => type = 32
    BY <1>2, <1>3
  <2> HIDE DEF type
  <2>2. type \in {30, 31, 32}
    BY <1>1, <2>1
  <2>3. PostHead(type, event.head) = 10
    BY <1>1, <2>2, PostHeadIs
  <2>4. QED
    BY <1>1, <1>3, <2>1, <2>3 DEF type
<1>4. CASE event.head.postHead # 10
  <2>1. /\ event.kind = "INSERT" => type = 23
        /\ event.kind = "UPDATE" => type = 24
        /\ event.kind = "DEL" => type = 25
    BY <1>2, <1>4
  <2> HIDE DEF type
  <2>2. type \in {19, 23, 24, 25}
    BY <1>1, <2>1
  <2>3. PostHead(type, event.head) = IF event.head.postHead = 6 THEN 6 ELSE 8
    BY <1>1, <2>2, PostHeadIs
  <2>4. QED
    BY <1>1, <1>4, <2>1, <2>3 DEF type
<1>5. QED
  BY <1>3, <1>4

LEMMA RowHeadRead ==
    ASSUME EventShape(event), NEW format,
           \A type \in 1 .. 35 : GetPostHeadLen(format, type) = PostHead(type, event.head)
    PROVE  LET b == RowHeadBytes(event)
               h == RowHead(b, format)
           IN  /\ b \in Seq(Nat)
               /\ h.id = Little(IdBytes(event.head)) /\ h.count = Len(event.table)
               /\ h.next = Len(b)
               /\ h.present = IF event.kind = "UPDATE"
                              THEN <<PresentBitmap(1), PresentBitmap(2)>>
                              ELSE <<PresentBitmap(1)>>
<1> DEFINE n == Len(event.table)
           id == IdBytes(event.head)
           long == event.head.postHead = 10
           update == event.kind = "UPDATE"
           two == LittleBytes(event.head.extra + 2, 2)
           nines == [j \in 1 .. event.head.extra |-> 9]
           ex == IF long THEN two \o nines ELSE <<>>
           P(image) == PresentBitmap(image)
           last == IF update THEN P(2) ELSE <<>>
           type == TypeOf(event.kind, event.head)
           a2 == id \o Flags
           a3 == a2 \o ex
           a4 == a3 \o Lenenc(n)
           a5 == a4 \o P(1)
           payload == a5 \o last
           b == RowHeadBytes(event)
<1>1. /\ n \in Nat /\ HeadShape(event.head) /\ event.head.postHead \in {6, 8, 10}
      /\ n \div 256 \in 0 .. 255
  BY EventFacts, HeadFacts, SmallCounts
<1>2. id \in Seq(Nat) /\ Len(id) = IF event.head.postHead = 6 THEN 4 ELSE 6
  BY <1>1, IdShape
<1>3. Flags \in Seq(Nat) /\ Len(Flags) = 2
  BY DEF Flags
<1>4. /\ type \in 1 .. 35 /\ (type \in {24, 31} <=> update)
      /\ (type \in 23 .. 25 <=> ~long)
      /\ (PostHead(type, event.head) = 6 <=> event.head.postHead = 6)
  BY RowTypeIs
<1>5. P(1) \in Seq(Nat) /\ P(2) \in Seq(Nat)
      /\ Len(P(1)) = (n + 7) \div 8 /\ Len(P(2)) = (n + 7) \div 8
  <2>1. 1 \in 1 .. 2 /\ 2 \in 1 .. 2
    OBVIOUS
  <2>2. QED
    BY <2>1, PresentTells
<1>6. b = Packet(type, payload)
  BY DEF RowHeadBytes, PresentBitmap
<1>7. /\ two \in Seq(Nat) /\ Len(two) = 2 /\ Little(two) = event.head.extra + 2
      /\ nines \in Seq(Nat) /\ Len(nines) = event.head.extra /\ event.head.extra \in Nat
  <2> DEFINE extra == event.head.extra
  <2>1. extra \in Nat /\ extra + 2 <= MaxTwoBytes
    BY <1>1 DEF HeadShape
  <2> HIDE DEF extra
  <2>2. extra + 2 \in Nat /\ (extra + 2) \div 256 \in 0 .. 255
    BY <2>1, SMT DEF MaxTwoBytes
  <2>3. /\ LittleBytes(extra + 2, 2) \in Seq(Nat) /\ Len(LittleBytes(extra + 2, 2)) = 2
        /\ Little(LittleBytes(extra + 2, 2)) = extra + 2
    BY <2>2, TwoBytes
  <2> DEFINE f == [j \in 1 .. extra |-> 9]
  <2>4. f \in [1 .. extra -> Nat]
    OBVIOUS
  <2> HIDE DEF f
  <2>5. f \in Seq(Nat) /\ DOMAIN f = 1 .. extra
    BY <2>1, <2>4, FunctionIsSeq
  <2>6. Len(f) = extra
    BY <2>1, <2>5
  <2>7. QED
    BY <2>1, <2>3, <2>5, <2>6 DEF extra, f
<1> HIDE DEF n, id, long, update, two, nines, P, type
<1>8. ex \in Seq(Nat) /\ (long => Len(ex) = event.head.extra + 2) /\ (~long => Len(ex) = 0)
  <2>1. two \o nines \in Seq(Nat) /\ Len(two \o nines) = Len(two) + Len(nines)
    BY <1>7, Joined
  <2>2. Len(two \o nines) = event.head.extra + 2
    <3>1. \A z \in Nat : 2 + z = z + 2
      OBVIOUS
    <3>2. Len(two) + Len(nines) = 2 + event.head.extra
      BY <1>7
    <3>3. QED
      BY <1>7, <2>1, <3>1, <3>2
  <2>3. CASE long
    BY <2>1, <2>2, <2>3
  <2>4. CASE ~long
    BY <2>4
  <2>5. QED
    BY <2>3, <2>4
<1>9. last \in Seq(Nat) /\ Len(last) \in Nat
  <2>1. CASE update
    BY <1>5, <2>1
  <2>2. CASE ~update
    BY <2>2
  <2>3. QED
    BY <2>1, <2>2
<1>10. Lenenc(n) \in Seq(Nat) /\ Len(Lenenc(n)) \in Nat
  <2>1. Lenenc(n) \in Seq(Nat)
    BY <1>1, LenencIs
  <2>2. QED
    BY <2>1
<1> HIDE DEF ex, last
<1>11. a2 \in Seq(Nat) /\ Len(a2) = Len(id) + 2 /\ Len(id) \in Nat
  BY <1>2, <1>3, Joined
<1> HIDE DEF a2
<1>12. a3 \in Seq(Nat) /\ Len(a3) = Len(a2) + Len(ex) /\ Len(a2) \in Nat /\ Len(ex) \in Nat
  BY <1>8, <1>11, Joined
<1> HIDE DEF a3
<1>13. a4 \in Seq(Nat) /\ Len(a4) = Len(a3) + Len(Lenenc(n)) /\ Len(a3) \in Nat
  BY <1>10, <1>12, Joined
<1> HIDE DEF a4
<1>14. a5 \in Seq(Nat) /\ Len(a5) = Len(a4) + Len(P(1)) /\ Len(a4) \in Nat /\ Len(P(1)) \in Nat
  BY <1>5, <1>13, Joined
<1> HIDE DEF a5
<1>15. payload \in Seq(Nat) /\ Len(payload) = Len(a5) + Len(last) /\ Len(a5) \in Nat
  BY <1>9, <1>14, Joined
<1> HIDE DEF payload
<1>16. /\ b \in Seq(Nat) /\ Len(b) = 20 + Len(payload)
       /\ CommHead(b).type = type /\ CommHead(b).next = 20 /\ Holds(b, 20, payload)
  <2>1. type \in Nat
    BY <1>4
  <2>2. /\ Packet(type, payload) \in Seq(Nat)
        /\ Len(Packet(type, payload)) = 20 + Len(payload)
        /\ CommHead(Packet(type, payload)).type = type
        /\ CommHead(Packet(type, payload)).next = 20
        /\ Holds(Packet(type, payload), 20, payload)
    BY <1>15, <2>1, PacketHolds
  <2>3. QED
    BY <1>6, <2>2
<1> HIDE DEF b
<1>17. Holds(b, 20, a5) /\ Holds(b, 20 + Len(a5), last)
  BY <1>9, <1>14, <1>16, HeldParts DEF payload
<1>18. Holds(b, 20, a4) /\ Holds(b, 20 + Len(a4), P(1))
  BY <1>5, <1>13, <1>17, HeldParts DEF a5
<1>19. Holds(b, 20, a3) /\ Holds(b, 20 + Len(a3), Lenenc(n))
  BY <1>10, <1>12, <1>18, HeldParts DEF a4
<1>20. Holds(b, 20, a2) /\ Holds(b, 20 + Len(a2), ex)
  BY <1>8, <1>11, <1>19, HeldParts DEF a3
<1>21. Holds(b, 20, id)
  BY <1>2, <1>3, <1>20, HeldParts DEF a2
<1>22. Tableid(b, format).value = Little(id) /\ Tableid(b, format).next = 20 + Len(id)
  <2> DEFINE size == IF GetPostHeadLen(format, type) = 6 THEN 4 ELSE 6
  <2>1. Tableid(b, format) = Number(b, 20, size)
    BY <1>16 DEF Tableid
  <2>2. size = Len(id)
    <3>1. GetPostHeadLen(format, type) = PostHead(type, event.head)
      BY <1>4
    <3>2. CASE event.head.postHead = 6
      BY <1>2, <1>4, <3>1, <3>2
    <3>3. CASE event.head.postHead # 6
      BY <1>2, <1>4, <3>1, <3>3
    <3>4. QED
      BY <3>2, <3>3
  <2> HIDE DEF size
  <2>3. /\ Number(b, 20, Len(id)).value = Little(id)
        /\ Number(b, 20, Len(id)).next = 20 + Len(id)
    BY <1>2, <1>16, <1>21, NumberHeld
  <2>4. QED
    BY <2>1, <2>2, <2>3
<1> DEFINE flags == Number(b, Tableid(b, format).next, 2)
           extra == Number(b, flags.next, 2)
           behind == IF ~long THEN flags.next ELSE extra.next + extra.value - 2
           counted == UnpackLenencInt(b, behind)
           size == (counted.value + 7) \div 8
           second == counted.next + size
           first == Part(b, counted.next, second - 1)
<1>23. flags.next = 20 + Len(a2)
  <2>1. flags.next = Tableid(b, format).next + 2
    BY DEF Number
  <2> HIDE DEF flags
  <2>2. QED
    BY <1>11, <1>22, <2>1
<1>24. long => extra.next = (20 + Len(a2)) + 2 /\ extra.value = event.head.extra + 2
  <2> HAVE long
  <2> DEFINE p == 20 + Len(a2)
  <2>1. p \in Nat /\ Holds(b, p, two \o nines)
    BY <1>12, <1>20 DEF ex
  <2> HIDE DEF p
  <2>2. Holds(b, p, two)
    BY <1>7, <2>1, HeldParts
  <2>3. /\ Number(b, p, Len(two)).value = Little(two)
        /\ Number(b, p, Len(two)).next = p + Len(two)
    BY <1>7, <1>16, <2>1, <2>2, NumberHeld
  <2>4. Number(b, p, 2).value = event.head.extra + 2 /\ Number(b, p, 2).next = p + 2
    BY <1>7, <2>3
  <2>5. extra = Number(b, p, 2)
    BY <1>23 DEF p
  <2> HIDE DEF extra
  <2>6. QED
    BY <2>4, <2>5 DEF p
<1> HIDE DEF flags, extra
<1>25. behind = 20 + Len(a3)
  <2>1. CASE long
    <3>1. behind = extra.next + extra.value - 2
      BY <2>1
    <3>2. extra.next = (20 + Len(a2)) + 2 /\ extra.value = event.head.extra + 2
          /\ Len(a3) = Len(a2) + (event.head.extra + 2)
      BY <1>8, <1>12, <1>24, <2>1
    <3>3. \A y, z \in Nat : ((20 + y) + 2) + (z + 2) - 2 = 20 + (y + (z + 2))
      OBVIOUS
    <3>4. behind = ((20 + Len(a2)) + 2) + (event.head.extra + 2) - 2
      BY <3>1, <3>2
    <3>5. 20 + Len(a3) = 20 + (Len(a2) + (event.head.extra + 2))
      BY <3>2
    <3>6. QED
      BY <1>7, <1>12, <3>3, <3>4, <3>5
  <2>2. CASE ~long
    <3>1. behind = flags.next
      BY <2>2
    <3>2. QED
      BY <1>8, <1>12, <1>23, <2>2, <3>1
  <2>3. QED
    BY <2>1, <2>2
<1> HIDE DEF behind
<1>26. counted.value = n /\ counted.next = 20 + Len(a4)
  <2> DEFINE p == 20 + Len(a3)
  <2>1. p \in Nat /\ Holds(b, p, Lenenc(n))
    BY <1>13, <1>19
  <2> HIDE DEF p
  <2>2. /\ UnpackLenencInt(b, p).value = n
        /\ UnpackLenencInt(b, p).next = p + Len(Lenenc(n))
    BY <1>1, <1>16, <2>1, LenencHeld
  <2>3. counted = UnpackLenencInt(b, p)
    BY <1>25 DEF p
  <2> HIDE DEF counted
  <2>4. p + Len(Lenenc(n)) = 20 + Len(a4)
    BY <1>10, <1>13 DEF p
  <2>5. QED
    BY <2>2, <2>3, <2>4
<1> HIDE DEF counted
<1>27. /\ size = Len(P(1)) /\ second = 20 + Len(a5) /\ second \in Nat /\ size \in Nat
       /\ counted.next \in Nat
  <2>1. size = (n + 7) \div 8
    BY <1>26
  <2>2. second = counted.next + size
    OBVIOUS
  <2> HIDE DEF size, second
  <2>3. size = Len(P(1)) /\ size \in Nat
    BY <1>5, <1>14, <2>1
  <2>4. counted.next \in Nat /\ counted.next = 20 + Len(a4)
    BY <1>14, <1>26
  <2>5. second = (20 + Len(a4)) + Len(P(1))
    BY <2>2, <2>3, <2>4
  <2>6. second = 20 + Len(a5)
    BY <1>14, <2>5
  <2>7. QED
    BY <1>15, <2>3, <2>4, <2>6
<1>28. first = P(1)
  <2> DEFINE p == counted.next
  <2>1. p \in Nat /\ Holds(b, p, P(1))
    BY <1>18, <1>26, <1>27
  <2>2. second - 1 = p + Len(P(1)) - 1
    <3>1. second = p + size /\ size = Len(P(1))
      BY <1>27
    <3>2. \A y, z \in Nat : (y + z) - 1 = y + z - 1
      OBVIOUS
    <3>3. p \in Nat /\ Len(P(1)) \in Nat
      BY <1>14, <1>27
    <3> HIDE DEF second, size, p
    <3>4. second = p + Len(P(1))
      BY <3>1
    <3>5. QED
      BY <3>2, <3>3, <3>4
  <2> HIDE DEF p, second
  <2>3. Part(b, p, p + Len(P(1)) - 1) = P(1)
    BY <1>5, <1>16, <2>1, HeldPart
  <2>4. QED
    BY <2>2, <2>3 DEF p
<1>29. update => Part(b, second, second + size - 1) = P(2) /\ second + size = Len(b)
  <2> HAVE update
  <2>1. last = P(2) /\ size = Len(P(2))
    BY <1>5, <1>27 DEF last
  <2>2. Holds(b, second, P(2))
    BY <1>17, <1>27, <2>1
  <2> HIDE DEF second, size
  <2>3. Part(b, second, second + Len(P(2)) - 1) = P(2)
    BY <1>5, <1>16, <1>27, <2>2, HeldPart
  <2>4. second + size = Len(b)
    <3>1. Len(b) = 20 + (Len(a5) + Len(last)) /\ Len(last) = size
      BY <1>15, <1>16, <2>1
    <3>2. QED
      BY <1>15, <1>27, <3>1
  <2>5. QED
    BY <2>1, <2>3, <2>4
<1>30. ~update => second = Len(b)
  <2> HAVE ~update
  <2>1. last = <<>>
    BY DEF last
  <2>2. Len(last) = 0
    BY <2>1
  <2> HIDE DEF second
  <2>3. QED
    BY <1>15, <1>16, <1>27, <2>2
<1> HIDE DEF first, second, size
<1>31. /\ RowHead(b, format).id = Tableid(b, format).value
       /\ RowHead(b, format).count = counted.value
       /\ RowHead(b, format).present =
              IF update THEN <<first, Part(b, second, second + size - 1)>> ELSE <<first>>
       /\ RowHead(b, format).next = IF update THEN second + size ELSE second
  <2>1. (CommHead(b).type \in {24, 31} <=> update)
        /\ ((IF CommHead(b).type \in 23 .. 25 THEN 1 ELSE 2) = 2 <=> long)
    BY <1>4, <1>16
  <2>2. behind = IF (IF CommHead(b).type \in 23 .. 25 THEN 1 ELSE 2) = 2
                 THEN extra.next + extra.value - 2 ELSE flags.next
    BY <2>1 DEF behind
  <2>3. QED
    BY <2>1, <2>2 DEF RowHead, flags, extra, counted, first, second, size
<1>32. QED
  BY <1>16, <1>22, <1>26, <1>28, <1>29, <1>30, <1>31 DEF b, id, update, P, n

(***************************************************************************)
(* The first state.                                                        *)
(***************************************************************************)
LEMMA InitReads ==
    ASSUME Init
    PROVE  HeadsInv /\ at = "row" /\ uPos = 0
<1> DEFINE n == Len(event.table)
           head == event.head
           format == FormatEvent(FormatBytes(head), head.enable)
           b == RowHeadBytes(event)
           h == RowHead(b, format)
           crc == Len(CrcOf(head))
           len == Len(b) + BodyLen + crc
           types == [c \in 1 .. n |-> TypeInMap(event.table[c])]
           metas == [c \in 1 .. n |-> MetaOf(event.table[c])]
<1>1. event \in Events /\ EventShape(event)
  BY EventsAssumption DEF Init
<1>2. HeadShape(head) /\ n \in Nat /\ \A c \in 1 .. n : ColumnShape(event.table[c])
  BY <1>1, EventFacts, HeadFacts
<1>3. /\ \A type \in 1 .. 35 : GetPostHeadLen(format, type) = PostHead(type, head)
      /\ \A l \in Nat : WithoutCrc(l + crc, format, head.enable) = l
  BY <1>2, FormatRead
<1>4. /\ b \in Seq(Nat) /\ h.id = Little(IdBytes(head)) /\ h.count = n /\ h.next = Len(b)
      /\ h.present = IF event.kind = "UPDATE" THEN <<PresentBitmap(1), PresentBitmap(2)>>
                     ELSE <<PresentBitmap(1)>>
  <2> HIDE DEF format
  <2>1. QED
    BY <1>1, <1>3, RowHeadRead
<1> DEFINE t == Tablemap(TablemapBytes(event), format)
<1>5. t.id = Little(IdBytes(head)) /\ t.names = event.names /\ t.types = types /\ t.metas = metas
  <2> HIDE DEF format
  <2>1. QED
    BY <1>1, <1>3, TablemapRead
<1>6. /\ map = t /\ count = h.count /\ bitmaps = h.present /\ uPos = h.next - Len(b)
      /\ uBufLen = WithoutCrc(len, format, head.enable) - Len(b)
      /\ at = IF h.id = map.id /\ map.names = event.names THEN "row" ELSE "done"
  BY DEF Init
<1> HIDE DEF t, h, b, format, types, metas
<1>7. at = "row" /\ count = n /\ uPos = 0
  <2>1. h.next - Len(b) = 0
    BY <1>4
  <2>2. QED
    BY <1>4, <1>5, <1>6, <2>1
<1>8. uBufLen = BodyLen
  <2>1. BodyLen \in Nat /\ Len(b) \in Nat
    BY <1>1, <1>4, RowsLaidOut
  <2> DEFINE l == Len(b) + BodyLen
  <2>2. l \in Nat /\ l - Len(b) = BodyLen /\ len = l + crc
    BY <2>1
  <2> HIDE DEF l, len, crc
  <2>3. WithoutCrc(l + crc, format, head.enable) = l
    BY <1>3, <2>2
  <2>4. QED
    BY <1>6, <2>2, <2>3
<1>9. /\ types \in Seq(0 .. 255) /\ Len(types) = n /\ Len(metas) = n
      /\ \A c \in 1 .. n : types[c] = TypeInMap(event.table[c])
  <2>1. \A c \in 1 .. n : TypeInMap(event.table[c]) \in 0 .. 255
    BY <1>2, MetaBytesShape
  <2>2. \A c \in 1 .. n : types[c] = TypeInMap(event.table[c])
    BY DEF types
  <2>3. types \in [1 .. n -> 0 .. 255]
    BY <2>1 DEF types
  <2>4. types \in Seq(0 .. 255) /\ DOMAIN types = 1 .. n /\ DOMAIN metas = 1 .. n
    BY <1>2, <2>3, FunctionIsSeq DEF metas
  <2> HIDE DEF n
  <2>5. Len(types) = n /\ Len(metas) = n
    BY <1>2, <2>4
  <2>6. QED
    BY <2>2, <2>4, <2>5 DEF n
<1>10. map.types = types /\ map.metas = metas
  BY <1>5, <1>6
<1>11. map.metas = [c \in Columns |-> ReadMeta(map.types[c], MetaBytes(event.table[c]), 1)]
  <2>1. \A c \in 1 .. n : MetaOf(event.table[c])
                              = ReadMeta(map.types[c], MetaBytes(event.table[c]), 1)
    BY <1>9, <1>10 DEF MetaOf
  <2>2. map.metas = [c \in 1 .. n |-> MetaOf(event.table[c])]
    BY <1>10 DEF metas
  <2>3. map.metas = [c \in 1 .. n |-> ReadMeta(map.types[c], MetaBytes(event.table[c]), 1)]
    BY <2>1, <2>2
  <2>4. QED
    BY <2>3 DEF Columns
<1>12. map.types = [c \in Columns |-> TypeInMap(event.table[c])]
  BY <1>10 DEF types, Columns
<1>13. /\ DOMAIN bitmaps = Images
       /\ \A image \in Images : image \in 1 .. 2 /\ bitmaps[image] = PresentBitmap(image)
  <2>1. CASE event.kind = "UPDATE"
    <3>1. bitmaps = <<PresentBitmap(1), PresentBitmap(2)>> /\ Images = {1, 2}
      BY <1>4, <1>6, <2>1 DEF Images
    <3>2. DOMAIN bitmaps = {1, 2} /\ bitmaps[1] = PresentBitmap(1)
          /\ bitmaps[2] = PresentBitmap(2)
      BY <3>1
    <3>3. QED
      BY <3>1, <3>2
  <2>2. CASE event.kind # "UPDATE"
    <3>1. bitmaps = <<PresentBitmap(1)>> /\ Images = {1}
      BY <1>4, <1>6, <2>2 DEF Images
    <3>2. DOMAIN bitmaps = {1} /\ bitmaps[1] = PresentBitmap(1)
      BY <3>1
    <3>3. QED
      BY <3>1, <3>2
  <2>3. QED
    BY <2>1, <2>2
<1>14. \A image \in Images : bitmaps[image] \in Seq(0 .. 255)
  BY <1>1, <1>13, PresentTells
<1>15. \A image \in Images, c \in Columns :
           GetBit(bitmaps[image], c - 1) <=> c \in event.present[image]
  BY <1>1, <1>13, PresentTells DEF Columns
<1>16. HeadsRead
  BY <1>7, <1>8, <1>11, <1>12, <1>13, <1>15 DEF HeadsRead
<1>17. QED
  BY <1>1, <1>7, <1>9, <1>10, <1>14, <1>16 DEF HeadsInv

LEMMA InitHolds == Init => RowInv
<1> SUFFICES ASSUME Init PROVE RowInv
  OBVIOUS
<1>1. HeadsInv /\ at = "row" /\ uPos = 0
  BY InitReads
<1>2. /\ r = 0 /\ m = 1 /\ i = 1 /\ uPresentPos = 0 /\ bits = {} /\ handed = <<>>
      /\ row = [old |-> <<>>, new |-> <<>>]
  BY DEF Init, NewRow
<1>3. EventShape(event)
  BY EventsAssumption DEF Init
<1>4. Len(event.table) \in Nat /\ Len(event.table) > 0 /\ Len(event.rows) \in Nat
  BY <1>3, EventFacts
<1>5. PlaceInv
  <2>1. m \in Images
    BY <1>2 DEF Images
  <2>2. <<>> \in Cells /\ Len(<<>>) = 0 /\ <<>> \in Seq([old : Cells, new : Cells])
    BY DEF Cells
  <2>3. row \in [old : Cells, new : Cells] /\ Len(row.old) = 0 /\ Len(row.new) = 0
    BY <1>2, <2>2
  <2>4. i \in 1 .. Len(event.table) + 1
    BY <1>2, <1>4
  <2>5. QED
    BY <1>1, <1>2, <1>4, <2>1, <2>2, <2>3, <2>4 DEF PlaceInv
<1>6. ReadInv
  <2>1. Len(handed) = 0 /\ RowEnds[0] = 0
    BY <1>2, <1>3, RowsLaidOut
  <2>2. \A k \in 1 .. Len(handed) : RowHanded(k)
    BY <2>1
  <2>3. QED
    BY <1>1, <1>2, <1>4, <2>1, <2>2 DEF ReadInv
<1>7. QED
  BY <1>1, <1>5, <1>6 DEF RowInv

(***************************************************************************)
(* The invariants.                                                         *)
(***************************************************************************)
\* No step reads a head again: event.cc:267-314 runs once, before the rows.
LEMMA HeadsKept ==
    ASSUME [Next]_vars
    PROVE  UNCHANGED heads
<1>1. CASE Next
  BY <1>1 DEF Next, RowBegins, BodyEnds, ImageBegins, AbsentColumn, NullColumn, ValueColumn,
              UnknownColumn, ImageEnds, AfterImage, HandOut, HandOutDies
<1>2. CASE UNCHANGED vars
  BY <1>2 DEF vars
<1>3. QED
  BY <1>1, <1>2

LEMMA PlaceStays == HeadsInv /\ PlaceInv /\ [Next]_vars => HeadsInv' /\ PlaceInv'
BY HeadsKept, HeadsStay, PlaceKept

LEMMA RowStays ==
    ASSUME NoneMisread
    PROVE  RowInv /\ [Next]_vars => RowInv'
<1> SUFFICES ASSUME RowInv, [Next]_vars PROVE RowInv'
  OBVIOUS
<1>1. HeadsInv' /\ PlaceInv'
  BY PlaceStays DEF RowInv
<1>2. ASSUME Decodable' PROVE ReadInv'
  <2>1. event' = event
    BY HeadsKept DEF heads
  <2>2. Decodable
    BY <1>2, <2>1, LayoutStays
  <2>3. QED
    BY <2>2, ReadKept DEF RowInv
<1>3. QED
  BY <1>1, <1>2 DEF RowInv

LEMMA PlaceHasTypes == HeadsInv /\ PlaceInv => TypeOK
<1> SUFFICES ASSUME HeadsInv, PlaceInv PROVE TypeOK
  OBVIOUS
<1>1. m \in Images /\ event \in Events /\ HeadsRead
  BY DEF PlaceInv, HeadsInv
<1>2. EventShape(event) /\ m \in 1 .. 2 /\ event.present[m] \subseteq 1 .. Len(event.table)
  BY <1>1, HeadsTell
<1>3. Len(event.table) \in Nat /\ BodyLen \in Nat
  BY <1>2, EventFacts, RowsLaidOut
<1>4. uPresentPos \in 0 .. Cardinality(event.present[m])
  <2>1. /\ Cardinality(event.present[m]) \in Nat
        /\ \A c \in 1 .. Len(event.table) + 1 :
              RankIn(event.present[m], c) \in 0 .. Cardinality(event.present[m])
    BY <1>2, <1>3, RankIs
  <2>2. i \in 1 .. Len(event.table) + 1
        /\ uPresentPos = IF at = "column" THEN RankIn(event.present[m], i) ELSE 0
    BY DEF PlaceInv
  <2>3. QED
    BY <2>1, <2>2
<1>5. count \in Nat /\ uBufLen \in Nat
  BY <1>1, <1>3 DEF HeadsRead
<1>6. /\ map.types \in Seq(0 .. 255) /\ Len(map.metas) = Len(map.types)
      /\ \A image \in DOMAIN bitmaps : bitmaps[image] \in Seq(0 .. 255)
  BY <1>1 DEF HeadsInv, HeadsRead
<1>7. /\ at \in {"row", "image", "column", "filter", "done", "dead"}
      /\ uPos \in Nat /\ r \in Nat /\ i \in 1 .. Len(event.table) + 1
      /\ bits \subseteq 0 .. Cardinality(event.present[m]) - 1
      /\ Len(row.old) <= Len(event.table) /\ Len(row.new) <= Len(event.table)
  BY DEF PlaceInv
<1>8. QED
  BY <1>1, <1>4, <1>5, <1>6, <1>7 DEF TypeOK

\* Whatever an event's columns are, and whatever a cursor out of place reads, the
\* parser's variables keep their types: the column never runs more than one past
\* the table's, the null bit never past the columns present (event.cc:317-410).
THEOREM RowTypes == Spec => []TypeOK
<1>1. Init => HeadsInv /\ PlaceInv
  BY InitHolds DEF RowInv
<1>2. HeadsInv /\ PlaceInv /\ [Next]_vars => (HeadsInv /\ PlaceInv)'
  BY PlaceStays
<1>3. HeadsInv /\ PlaceInv => TypeOK
  BY PlaceHasTypes
<1>4. QED
  BY <1>1, <1>2, <1>3, PTL DEF Spec

\* Whatever table, names, table id, post-headers, extra data and checksum the
\* server writes, FormatEvent, TablemapEvent::Parse and RowEvent::Parse find in
\* the bytes the types, metas, present bitmaps and length it wrote
\* (event.cc:119-157, 267-314).
THEOREM HeadsAreRead == Spec => []HeadsRead
<1>1. Init => HeadsInv
  BY InitReads
<1>2. HeadsInv /\ [Next]_vars => HeadsInv'
  BY HeadsKept, HeadsStay
<1>3. HeadsInv => HeadsRead
  BY DEF HeadsInv
<1>4. QED
  BY <1>1, <1>2, <1>3, PTL DEF Spec

\* If no row has a value in a TIME or TIMESTAMP of one or two fractional digits,
\* every row handed out of an event whose types ParseColumnValue knows carries,
\* for the wanted columns, exactly the values the server wrote (event.cc:317-410,
\* row.cc:61-89).
THEOREM RowsAsWritten ==
    ASSUME NoneMisread
    PROVE  Spec => []HandedOutAsWritten
<1>1. Init => RowInv
  BY InitHolds
<1>2. RowInv /\ [Next]_vars => RowInv'
  BY RowStays
<1>3. RowInv => HandedOutAsWritten
  <2> SUFFICES ASSUME RowInv, Decodable, NEW k \in DOMAIN handed
               PROVE  /\ k <= Len(event.rows)
                      /\ handed[k] = IF event.kind = "UPDATE"
                                     THEN [old |-> Written(k, 1), new |-> Written(k, 2)]
                                     ELSE [old |-> Empty, new |-> Written(k, 1)]
    BY DEF HandedOutAsWritten
  <2>1. ReadInv /\ PlaceInv
    BY DEF RowInv
  <2>2. k \in 1 .. Len(handed) /\ Len(handed) \in Nat
    BY <2>1 DEF PlaceInv
  <2>3. RowHanded(k) /\ Len(handed) <= r /\ r <= Len(event.rows) /\ r \in Nat
    BY <2>1, <2>2 DEF ReadInv, PlaceInv
  <2>4. Len(event.rows) \in Nat
    BY <2>1, EventsAssumption, EventFacts DEF RowInv, HeadsInv
  <2>5. QED
    BY <2>2, <2>3, <2>4 DEF RowHanded
<1>4. QED
  BY <1>1, <1>2, <1>3, PTL DEF Spec

\* Under the same condition a parse that ends has taken the body to its last byte
\* and handed out each of its rows once (event.cc:317).
THEOREM BodyIsRead ==
    ASSUME NoneMisread
    PROVE  Spec => []WholeBodyRead
<1>1. Init => RowInv
  BY InitHolds
<1>2. RowInv /\ [Next]_vars => RowInv'
  BY RowStays
<1>3. RowInv => WholeBodyRead
  BY DEF RowInv, ReadInv, WholeBodyRead
<1>4. QED
  BY <1>1, <1>2, <1>3, PTL DEF Spec

(***************************************************************************)
(* Both images of a row have a place for every column, whatever is absent. *)
(***************************************************************************)
SafeInv ==
    Decodable =>
        /\ at = "dead" => \E j \in DOMAIN event.wanted : event.wanted[j] >= Len(event.table)
        /\ at = "filter" => Len(row.new) = Len(event.table)
        /\ at = "filter" /\ event.kind = "UPDATE" => Len(row.old) = Len(event.table)
        /\ at \in {"image", "column"} /\ event.kind = "UPDATE" /\ m = 2 =>
              Len(row.old) = Len(event.table)

LEMMA SafeKept ==
    ASSUME HeadsInv, PlaceInv, SafeInv, Decodable, [Next]_vars
    PROVE  SafeInv'
<1>1. m \in Images /\ row \in [old : Cells, new : Cells] /\ event' = event
  BY HeadsKept DEF PlaceInv, heads
<1>2. /\ EventShape(event) /\ m \in 1 .. 2 /\ count = Len(event.table)
      /\ i \in 1 .. Len(event.table) =>
             /\ map.types[i] = TypeInMap(event.table[i])
             /\ map.metas[i] = MetaOf(event.table[i])
  BY <1>1, HeadsTell
<1>3. /\ Len(event.table) \in Nat /\ event.wanted \in Seq(Nat)
      /\ event.kind \in {"INSERT", "UPDATE", "DEL"}
      /\ \A c \in 1 .. Len(event.table) : ColumnShape(event.table[c])
  BY <1>2, EventFacts
<1>4. CASE RowBegins
  <2>1. at' = "image" /\ m' = 1
    BY <1>4 DEF RowBegins
  <2>2. QED
    BY <2>1 DEF SafeInv
<1>5. CASE BodyEnds \/ HandOut
  <2>1. at' \in {"row", "done"}
    BY <1>5 DEF BodyEnds, HandOut
  <2>2. QED
    BY <2>1 DEF SafeInv
<1>6. CASE ImageBegins
  <2>1. at = "image" /\ at' = "column" /\ m' = m /\ row' = row
    BY <1>6 DEF ImageBegins
  <2>2. QED
    BY <1>1, <2>1 DEF SafeInv
<1>7. CASE AbsentColumn \/ NullColumn \/ ValueColumn
  <2>1. AtColumn /\ at' = at /\ m' = m /\ \E v : Push(v)
    BY <1>7 DEF AbsentColumn, NullColumn, ValueColumn
  <2>2. event.kind = "UPDATE" /\ m = 2 => row'.old = row.old
    BY <1>1, <2>1 DEF Push
  <2>3. QED
    BY <1>1, <2>1, <2>2 DEF SafeInv, AtColumn
<1>8. ASSUME AtColumn, Unknown \in Advances PROVE FALSE
  <2>1. i \in 1 .. Len(event.table)
    BY <1>2, <1>3, <1>8 DEF AtColumn, PlaceInv
  <2>2. PICK len \in Nat : Unknown = Advance(map.types[i], map.metas[i], len)
    <3>1. event.table[i].len \in Nat
      BY <1>3, <2>1 DEF ColumnShape
    <3>2. QED
      BY <1>8, <3>1, LengthsAssumption DEF Advances
  <2>3. event.table[i].type # T.GEOMETRY
    BY <2>1 DEF Decodable, Columns
  <2>4. Unknown \in Nat
    BY <1>2, <1>3, <2>1, <2>2, <2>3, ColumnPassed
  <2>5. QED
    BY <2>4 DEF Unknown
<1>9. CASE UnknownColumn
  BY <1>8, <1>9 DEF UnknownColumn
<1>10. CASE ImageEnds
  <2>1. at = "column" /\ i > count /\ row' = row
    BY <1>10 DEF ImageEnds, AfterImage
  <2>2. Len(Pushed) = Len(event.table)
    <3>1. i \in 1 .. Len(event.table) + 1 /\ Len(Pushed) = i - 1
      BY <2>1 DEF PlaceInv
    <3>2. QED
      BY <1>2, <1>3, <2>1, <3>1
  <2>3. CASE event.kind = "UPDATE" /\ m = 1
    <3>1. at' = "image" /\ m' = 2 /\ Len(row.old) = Len(event.table)
      BY <1>10, <2>2, <2>3 DEF ImageEnds, AfterImage, Pushed
    <3>2. QED
      BY <1>1, <2>1, <3>1 DEF SafeInv
  <2>4. CASE ~(event.kind = "UPDATE" /\ m = 1)
    <3>1. at' = "filter" /\ Len(row.new) = Len(event.table)
      BY <1>10, <2>2, <2>4 DEF ImageEnds, AfterImage, Pushed
    <3>2. event.kind = "UPDATE" => Len(row.old) = Len(event.table)
      BY <1>2, <2>1, <2>4 DEF SafeInv
    <3>3. QED
      BY <1>1, <2>1, <3>1, <3>2 DEF SafeInv
  <2>5. QED
    BY <2>3, <2>4
<1>11. CASE HandOutDies
  <2>1. /\ at = "filter" /\ at' = "dead"
        /\ ~Has(row.new) \/ (event.kind = "UPDATE" /\ ~Has(row.old))
    BY <1>11 DEF HandOutDies
  <2>2. \E j \in DOMAIN event.wanted : ~(event.wanted[j] < Len(event.table))
    BY <2>1 DEF SafeInv, Has
  <2>3. \A j \in DOMAIN event.wanted : event.wanted[j] \in Nat
    BY <1>3
  <2>4. \E j \in DOMAIN event.wanted : event.wanted[j] >= Len(event.table)
    BY <1>3, <2>2, <2>3
  <2>5. QED
    BY <1>1, <2>1, <2>4 DEF SafeInv
<1>12. CASE UNCHANGED vars
  <2>1. at' = at /\ m' = m /\ row' = row
    BY <1>12 DEF vars, heads
  <2>2. QED
    BY <1>1, <2>1 DEF SafeInv
<1>13. QED
  BY <1>4, <1>5, <1>6, <1>7, <1>9, <1>10, <1>11, <1>12 DEF Next

\* A hand-out of a row of known types dies only for an index the table does not
\* have, however few columns the old image has and wherever the cursor has gone,
\* misread values included: both images have a place for every column, so
\* that to look at the new values is enough (row.cc:47-89, event.cc:376-410).
THEOREM HandOutAlwaysSafe == Spec => []HandOutIsSafe
<1> DEFINE I == HeadsInv /\ PlaceInv /\ SafeInv
<1>1. Init => I
  <2>1. Init => at = "row"
    BY InitReads
  <2>2. QED
    BY <2>1, InitHolds DEF RowInv, SafeInv
<1>2. I /\ [Next]_vars => I'
  <2> SUFFICES ASSUME I, [Next]_vars PROVE I'
    OBVIOUS
  <2>1. HeadsInv' /\ PlaceInv'
    BY PlaceStays
  <2>2. Decodable' = Decodable
    BY HeadsKept, LayoutStays DEF heads
  <2>3. SafeInv'
    BY <2>2, SafeKept DEF SafeInv
  <2>4. QED
    BY <2>1, <2>3
<1>3. I => HandOutIsSafe
  BY DEF SafeInv, HandOutIsSafe
<1>4. QED
  BY <1>1, <1>2, <1>3, PTL DEF Spec
==============================================================================
