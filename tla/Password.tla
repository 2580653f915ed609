------------------------------ MODULE Password ------------------------------
(***************************************************************************)
(* The password of the configuration: Base64Decode and DesEcDncrypt, and   *)
(* how MysqlProcess::Connect puts them together.  A character is its code, *)
(* a text the sequence of its characters.                                  *)
(***************************************************************************)
EXTENDS Integers, SequencesExt

(***************************************************************************)
(* What wrote the configuration.  The cipher itself is a permutation of    *)
(* blocks of eight bytes; turning every bit stands for it.                 *)
(***************************************************************************)
Block == 8
Permuted(bytes) == [k \in DOMAIN bytes |-> 255 - bytes[k]]

\* The last block is filled up with the number of bytes that fill it.
Encrypt(plain) ==
    LET fill == Block - (Len(plain) % Block)
    IN  Permuted(plain \o [k \in 1 .. fill |-> fill])

Alphabet ==
    [c \in 0 .. 25 |-> 65 + c] @@ [c \in 26 .. 51 |-> 97 + c - 26]
    @@ [c \in 52 .. 61 |-> 48 + c - 52] @@ (62 :> 43) @@ (63 :> 47)
Filler == 61
LineEnd == 10

\* Three bytes are four characters.
EncodeGroup(bytes) ==
    LET n == Len(bytes)
        number == FoldLeft(LAMBDA a, b : 256 * a + b, 0, bytes) * 256 ^ (3 - n)
    IN  [k \in 1 .. 4 |-> IF k <= n + 1 THEN Alphabet[(number \div 64 ^ (4 - k)) % 64]
                          ELSE Filler]

Cut(s, size, g) == SubSeq(s, size * (g - 1) + 1, Min({size * g, Len(s)}))
GroupsOf(s, size) == [g \in 1 .. (Len(s) + size - 1) \div size |-> Cut(s, size, g)]

Encode(bytes) ==
    LET groups == GroupsOf(bytes, 3)
    IN  FlattenSeq([g \in DOMAIN groups |-> EncodeGroup(groups[g])])

(***************************************************************************)
(* What the code reads.                                                    *)
(***************************************************************************)
DecodeBase64Char(ch) ==
    CASE ch \in 65 .. 90 -> ch - 65
      [] ch \in 97 .. 122 -> ch - 97 + 26
      [] ch \in 48 .. 57 -> ch - 48 + 52
      [] ch = 43 -> 62
      [] ch = 47 -> 63
      [] OTHER -> -1

\* Four characters or, at the end, fewer: as many bytes as they have bits for.
GroupBytes(codes) ==
    LET n == Len(codes)
        dwCurr == FoldLeft(LAMBDA a, c : 64 * a + c, 0, codes) * 64 ^ (4 - n)
    IN  [k \in 1 .. (6 * n) \div 8 |-> (dwCurr \div 256 ^ (3 - k)) % 256]

Codes(src) == SelectSeq([k \in DOMAIN src |-> DecodeBase64Char(src[k])], LAMBDA c : c # -1)

\* Defect: what fills up the last group is counted as well.
Base64DecodeFilled(src, room) ==
    LET groups == GroupsOf(Codes(src), 4)
        nWritten == 3 * Len(groups)
    IN  [dest |-> FlattenSeq([g \in DOMAIN groups |-> GroupBytes(groups[g])]),
         nWritten |-> nWritten]

\* Characters that are not of the alphabet are skipped.  From the first group
\* that does not fit on nothing more is written, though it is counted.
Base64Decode(src, room) ==
    LET groups == GroupsOf(Codes(src), 4)
        nWritten == (6 * Len(Codes(src))) \div 8
        fitting == SelectSeq([g \in DOMAIN groups |-> g], LAMBDA g : Min({3 * g, nWritten}) <= room)
    IN  [dest |-> FlattenSeq([g \in DOMAIN fitting |-> GroupBytes(groups[g])]),
         nWritten |-> nWritten]

Undecipherable == <<-1>>
Scrambled == <<-2>>

\* DesEcDncrypt: the bytes must be whole blocks with a filled-up end.
DesEcDncrypt(bytes) ==
    LET n == Len(bytes)
        plain == Permuted(bytes)
        fill == plain[n]
    IN  IF n = 0 \/ n % Block # 0 THEN Undecipherable
        ELSE IF fill \in 1 .. Block /\ (\A k \in n - fill + 1 .. n : plain[k] = fill)
             THEN SubSeq(plain, 1, n - fill)
             ELSE Undecipherable

SwapSize == 64   \* of pSwap, the buffer between the two

\* Connect looks at the length Base64Decode reports, and at nothing else; a
\* length beyond the buffer goes on with the memory behind it.
Decoded(text) ==
    LET swap == Base64Decode(text, SwapSize)
    IN  IF swap.nWritten > SwapSize THEN {Undecipherable, Scrambled}
        ELSE {DesEcDncrypt(swap.dest \o [k \in 1 .. swap.nWritten - Len(swap.dest) |-> 0])}
=============================================================================
