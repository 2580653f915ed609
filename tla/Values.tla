------------------------------- MODULE Values -------------------------------
(***************************************************************************)
(* What a value's bytes are turned into: the second half of                *)
(* ParseColumnValue, my_time.cc, bin2decimal and the byte order macros.    *)
(*                                                                         *)
(* A text is the tuple of the numbers printed in it; zeros in front,       *)
(* colons and dashes are left out.  A packed time of 48 bits is a pair     *)
(* <<seconds, fraction>> of one number, seconds * 2^24 + fraction.         *)
(***************************************************************************)
EXTENDS Columns

(***************************************************************************)
(* Bytes to numbers (myconvert.h).                                         *)
(***************************************************************************)
\* mi_uint2korr and its kin: the byte of most weight comes first.
Big(b) ==
    LET Prefix[k \in 0 .. Len(b)] == IF k = 0 THEN 0 ELSE 256 * Prefix[k - 1] + b[k]
    IN  Prefix[Len(b)]
Flip(b) == [k \in DOMAIN b |-> 255 - b[k]]

\* mi_sint2korr and its kin: two's complement.
SignedBig(b) == IF b[1] < 128 THEN Big(b) ELSE -1 - Big(Flip(b))

\* uint2korr and sint2korr and their kin: the same with the bytes reversed.
Little(b) == Big(Reverse(b))
SignedLittle(b) == SignedBig(Reverse(b))

\* Bytes i to j, counted from 0 as the code does.
Part(b, i, j) == SubSeq(b, i + 1, j + 1)

(***************************************************************************)
(* Times (my_time.cc).                                                     *)
(***************************************************************************)
\* MY_PACKED_TIME_MAKE: a negative fraction is taken from the seconds.
Make(int, frac) == <<int + (frac \div 2 ^ 24), frac % 2 ^ 24>>

\* Defect: the fraction of a negative time is not reversed back.
TimePackedUnreversed(b, dec) ==
    LET int == Big(Part(b, 0, 2)) - 2 ^ 23
    IN  CASE dec \in 1 .. 2 -> Make(int, SignedBig(Part(b, 3, 3)) * 10000)
          [] dec \in 3 .. 4 -> Make(int, Big(Part(b, 3, 4)) * 100)
          [] dec \in 5 .. 6 -> Make(int, Big(Part(b, 3, 5)))
          [] OTHER -> Make(int, 0)

\* my_time_packed_from_binary: negative times have their fraction reversed.
\* The one byte of dec 1 and 2 is a signed char.
TimePacked(b, dec) ==
    LET int == Big(Part(b, 0, 2)) - 2 ^ 23
        Reversed(frac, whole, unit) ==
            IF int < 0 /\ frac # 0 THEN Make(int + 1, (frac - whole) * unit)
            ELSE Make(int, frac * unit)
    IN  CASE dec \in 1 .. 2 -> Reversed(SignedBig(Part(b, 3, 3)), 256, 10000)
          [] dec \in 3 .. 4 -> Reversed(Big(Part(b, 3, 4)), 65536, 100)
          [] dec \in 5 .. 6 -> Make(int, Big(Part(b, 3, 5)))
          [] OTHER -> Make(int, 0)

\* The fraction of a TIMESTAMP2 or DATETIME2 begins at byte i.
Fraction(b, i, dec) ==
    CASE dec \in 1 .. 2 -> SignedBig(Part(b, i, i)) * 10000
      [] dec \in 3 .. 4 -> SignedBig(Part(b, i, i + 1)) * 100
      [] dec \in 5 .. 6 -> SignedBig(Part(b, i, i + 2))
      [] OTHER -> 0

Time2Text(b, dec) ==
    LET packed == TimePacked(b, dec)
        abs == IF packed[1] < 0 THEN Make(-packed[1], -packed[2]) ELSE packed
        hms == abs[1]
    IN  <<(hms \div 2 ^ 12) % 2 ^ 10, (hms \div 2 ^ 6) % 2 ^ 6, hms % 2 ^ 6, abs[2]>>

\* Of the 40 bits 22 are ymd and 17 hms; the first is set for every date.
Datetime2Text(b, dec) ==
    LET high == Big(Part(b, 0, 2)) - 2 ^ 23
        ymd == high \div 2
        hms == (high % 2) * 2 ^ 16 + Big(Part(b, 3, 4))
        ym == ymd \div 2 ^ 5
    IN  <<ym \div 13, ym % 13, ymd % 2 ^ 5,
          hms \div 2 ^ 12, (hms \div 2 ^ 6) % 2 ^ 6, hms % 2 ^ 6, Fraction(b, 5, dec)>>

(***************************************************************************)
(* Decimals (bin2decimal and the loop that prints).                        *)
(***************************************************************************)
\* Digits in each group of nine, the short one in front or behind.
GroupDigits(precision, scale) ==
    LET intg == precision - scale
        Short(n) == IF n = 0 THEN <<>> ELSE <<n>>
        Nines(n) == [k \in 1 .. n |-> 9]
    IN  [int |-> Short(intg % 9) \o Nines(intg \div 9),
         frac |-> Nines(scale \div 9) \o Short(scale % 9)]

\* Each group of digits has its bytes, with the mask of the sign over them;
\* groups of zeros in front are dropped.
DecimalText(bytes, precision, scale) ==
    LET groups == GroupDigits(precision, scale)
        digits == groups.int \o groups.frac
        negative == bytes[1] < 128
        from == [bytes EXCEPT ![1] = (@ + 128) % 256]
        Start(g) == FoldLeft(LAMBDA n, d : n + dig2bytes[d + 1], 0, SubSeq(digits, 1, g - 1))
        x(g) == SignedBig(Part(from, Start(g), Start(g) + dig2bytes[digits[g] + 1] - 1))
        unmasked(g) == IF negative THEN -1 - x(g) ELSE x(g)
        scaled(g) == IF g > Len(groups.int) THEN unmasked(g) * 10 ^ (9 - digits[g])
                     ELSE unmasked(g)
        first == Min({g \in DOMAIN digits : g > Len(groups.int) \/ unmasked(g) # 0}
                     \union {Len(digits)})
    IN  <<negative, [k \in 1 .. Len(digits) - first + 1 |-> scaled(first + k - 1)]>>

(***************************************************************************)
(* ParseColumnValue: the text of value b, for the types below.             *)
(***************************************************************************)
Numbers == {T.TINY, T.SHORT, T.INT24, T.LONG, T.LONGLONG}

Text(type, meta, b) ==
    LET s == IF type = T.STRING THEN StringType(meta) ELSE [type |-> type, length |-> 0]
        n == Little(b)
    IN  CASE s.type \in Numbers -> <<SignedLittle(b)>>
          [] s.type = T.ENUM -> <<IF s.length = 1 THEN SignedLittle(b) ELSE n>>
          [] s.type = T.TIMESTAMP -> <<n>>
          [] s.type = T.YEAR -> <<n + 1900>>
          [] s.type \in {T.DATE, T.NEWDATE} -> <<n \div 512, (n \div 32) % 16, n % 32>>
          [] s.type = T.TIME -> <<n \div 10000, (n % 10000) \div 100, n \div 100>>
          [] s.type = T.NEWDECIMAL -> DecimalText(b, meta \div 256, meta % 256)
          [] s.type = T.TIMESTAMP2 -> <<Big(Part(b, 0, 3)), Fraction(b, 4, meta)>>
          [] s.type = T.DATETIME2 -> Datetime2Text(b, meta)
          [] s.type = T.TIME2 -> Time2Text(b, meta)
=============================================================================
