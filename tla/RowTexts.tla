------------------------------ MODULE RowTexts ------------------------------
(***************************************************************************)
(* The texts of a row: values as MySQL writes them, around every edge of   *)
(* their encodings, and what RowImages' columns make of them with the meta *)
(* they have at hand.                                                      *)
(***************************************************************************)
EXTENDS RowImages

(***************************************************************************)
(* What the server writes.                                                 *)
(***************************************************************************)
TwosComplement(n, k) == IF n >= 0 THEN Bytes(n, k) ELSE Flip(Bytes(-1 - n, k))

HourMinuteSecond(v) == (v.hour * 64 + v.minute) * 64 + v.second
FractionBytes(dec) == (dec + 1) \div 2
FractionUnit(dec) == 100 ^ (3 - FractionBytes(dec))

\* A negative time counts seconds and fraction down from zero.
TimeBytes(dec, v) ==
    LET k == FractionBytes(dec)
        part == v.micro \div FractionUnit(dec)
        below == IF v.micro = 0 THEN 0 ELSE 1
    IN  IF v.negative
        THEN BytesBig(2 ^ 23 - HourMinuteSecond(v) - below, 3)
             \o BytesBig((256 ^ k - part) % 256 ^ k, k)
        ELSE BytesBig(2 ^ 23 + HourMinuteSecond(v), 3) \o BytesBig(part, k)

DatetimeBytes(dec, v) ==
    LET ymd == (v.year * 13 + v.month) * 32 + v.day
        hms == HourMinuteSecond(v)
    IN  BytesBig(2 ^ 23 + 2 * ymd + hms \div 2 ^ 16, 3) \o BytesBig(hms % 2 ^ 16, 2)
        \o BytesBig(v.micro \div FractionUnit(dec), FractionBytes(dec))

\* Groups of digits one behind the other, all bits turned for a negative
\* number, and then the first bit turned.
DecimalBytes(c, v) ==
    LET groups == GroupDigits(c.size \div 256, c.size % 256)
        digits == groups.int \o groups.frac
        plain == FlattenSeq([g \in DOMAIN digits |-> Bytes(v.groups[g], DigitBytes(digits[g]))])
    IN  [(IF v.negative THEN Flip(plain) ELSE plain) EXCEPT ![1] = (@ + 128) % 256]

BytesOf(c, v) ==
    CASE c.type = T.TIME2 -> TimeBytes(c.size, v)
      [] c.type = T.DATETIME2 -> DatetimeBytes(c.size, v)
      [] c.type = T.TIMESTAMP2 ->
             Bytes(v.second, 4) \o BytesBig(v.micro \div FractionUnit(c.size), FractionBytes(c.size))
      [] c.type = T.NEWDECIMAL -> DecimalBytes(c, v)
      [] c.type = T.YEAR -> <<IF v = 0 THEN 0 ELSE v - 1900>>
      [] c.type \in {T.DATE, T.NEWDATE} -> Reverse(Bytes(v[1] * 512 + v[2] * 32 + v[3], 3))
      [] c.type = T.TIME -> Reverse(Bytes(v[1] * 10000 + v[2] * 100 + v[3], 3))
      [] OTHER -> Reverse(TwosComplement(v, Width(c)))

(***************************************************************************)
(* Values around the edges.                                                *)
(***************************************************************************)
Micros(dec) == {0, 10 ^ (6 - dec), 10 ^ 6 - 10 ^ (6 - dec)} \ {10 ^ 6}

\* One group of digits differs from all the others.
DecimalGroups(digits) ==
    LET Edge(k, e) == <<0, 1, 10 ^ k - 1>>[e]
    IN  {[g \in DOMAIN digits |-> Edge(digits[g], IF g = odd THEN one ELSE rest)] :
            odd \in DOMAIN digits, one \in 1 .. 3, rest \in 1 .. 3}

Highest == 2147483647   \* bound: that TLC can count to

\* Numbers of k bytes, with a sign and without.
Numerals(k) ==
    LET half == 128 * 256 ^ (k - 1)
    IN  IF k > 3 THEN {-Highest - 1, -1, 0, 1, Highest}
        ELSE {-half, -1, 0, 1, half - 1, half, 2 * half - 1}

Digits(c) ==
    LET groups == GroupDigits(c.size \div 256, c.size % 256) IN groups.int \o groups.frac

Values(c) ==
    CASE c.type \in Numbers -> Numerals(Width(c))
      [] c.type \in {T.ENUM, T.TIMESTAMP} -> Numerals(Width(c)) \intersect Nat
      [] c.type = T.YEAR -> {0, 1901, 2155}
      [] c.type \in {T.DATE, T.NEWDATE} -> {0, 1, 9999} \X {0, 1, 12} \X {0, 1, 31}
      [] c.type = T.TIME -> {0, 838} \X {0, 1, 59} \X {0, 1, 59}
      [] c.type = T.TIME2 ->
             {v \in [negative : BOOLEAN, hour : {0, 1, 838}, minute : {0, 59},
                     second : {0, 1, 59}, micro : Micros(c.size)] :
                 v.negative => HourMinuteSecond(v) + v.micro > 0}
      [] c.type = T.DATETIME2 ->
             [year : {0, 1, 9999}, month : {0, 12}, day : {0, 31}, hour : {0, 16, 23},
              minute : {0, 59}, second : {0, 59}, micro : Micros(c.size)]
      [] c.type = T.TIMESTAMP2 -> [second : {0, 1, Highest}, micro : Micros(c.size)]
      [] c.type = T.NEWDECIMAL ->
             {v \in [negative : BOOLEAN, groups : DecimalGroups(Digits(c))] :
                 v.negative => \E g \in DOMAIN v.groups : v.groups[g] > 0}
      [] OTHER -> {}

(***************************************************************************)
(* Reading the texts back.                                                 *)
(***************************************************************************)
\* What the numbers of a text amount to, for who knows the column: a decimal
\* has its groups aligned at the end, the last one filled up with zeros.
Reading(c, text) ==
    IF c.type # T.NEWDECIMAL THEN text
    ELSE LET digits == Digits(c)
             n == Len(digits)
             Given(g) == g - n + Len(text[2])
             unit(g) == IF c.size % 256 > 0 /\ g = n THEN 10 ^ (9 - digits[n]) ELSE 1
         IN  [negative |-> text[1],
              groups |-> [g \in 1 .. n |-> IF Given(g) > 0 THEN text[2][Given(g)] \div unit(g)
                                           ELSE 0]]

\* The numbers of a value, a time's without its sign.
Parts(c, v) ==
    CASE c.type = T.TIME2 -> <<v.hour, v.minute, v.second, v.micro>>
      [] c.type = T.DATETIME2 ->
             <<v.year, v.month, v.day, v.hour, v.minute, v.second, v.micro>>
      [] c.type = T.TIMESTAMP2 -> <<v.second, v.micro>>
      [] c.type \in {T.DATE, T.NEWDATE, T.TIME, T.NEWDECIMAL} -> v
      [] OTHER -> <<v>>

\* What is printed of it.  Numbers of the upper half of an unsigned column and
\* of an ENUM of one byte come out negative, the year 0000 as 1900, and the
\* seconds of an old TIME as its hours and minutes.  Of a negative TIME of one or
\* two decimals the byte of the fraction is at least 128 and, a signed char, is
\* 256 too small before it is taken from 256 hundredths: -00:00:00.1 is printed
\* with a fraction of 2660000 (my_time.cc:29, 51; the table above has 100000).
Printed(c, v) ==
    CASE /\ c.type \in Numbers \union {T.ENUM} /\ Width(c) < 4 /\ (c.type = T.ENUM => c.size = 1)
         /\ v >= 128 * 256 ^ (Width(c) - 1) -> <<v - 256 ^ Width(c)>>
      [] c.type = T.YEAR /\ v = 0 -> <<1900>>
      [] c.type = T.TIME -> <<v[1], v[2], 100 * v[1] + v[2]>>
      [] c.type = T.TIME2 /\ c.size \in 1 .. 2 /\ v.negative /\ v.micro > 0 ->
             <<v.hour, v.minute, v.second, v.micro + 256 * 10000>>
      [] OTHER -> Parts(c, v)

(***************************************************************************)
(* Properties.                                                             *)
(***************************************************************************)
\* Whatever value a column has, the numbers printed for it are the value's own,
\* but for the wrong texts that Printed lists, at every edge of its encoding and
\* with the meta the column is given: signs, reversed fractions of negative times
\* in one, two and three bytes, groups of decimals that are zero or full
\* (event.cc:452-805, my_time.cc:18-155, mydecimal.cc:35-142).
TextsTell ==
    AtColumn =>
        LET c == event.table[i]
        IN  \A v \in Values(c) :
                Reading(c, Text(map.types[i], map.metas[i], BytesOf(c, v))) = Printed(c, v)
=============================================================================
