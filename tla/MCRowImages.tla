---------------------------- MODULE MCRowImages ----------------------------
(***************************************************************************)
(* Row events for TLC: every column type with the sizes at which its bytes *)
(* change, followed by a column that a wrong cursor or a wrong meta spoils; *)
(* bitmaps around a byte's edge; absent and null columns in every place.   *)
(***************************************************************************)
EXTENDS RowTexts

Column(type, size, len) == [type |-> type, size |-> size, len |-> len]
Plain(type) == Column(type, 0, 0)
Decimal(precision, scale) == Column(T.NEWDECIMAL, 256 * precision + scale, 0)

Integral == {Plain(t) : t \in Fixed}
Texts ==
    {Column(T.STRING, size, 2) : size \in {1, 255, 256, 300, 511, 512, 768, 1020}}
    \union {Column(T.VARCHAR, size, 2) : size \in {1, 255, 256, 600}}
    \union {Column(T.BLOB, size, 2) : size \in 1 .. 4}
Packed ==
    {Column(T.ENUM, size, 0) : size \in 1 .. 2}
    \union {Column(T.SET, size, 0) : size \in {1, 2, 3, 4, 8}}
    \union {Column(T.BIT, size, 0) : size \in {1, 7, 8, 9, 16, 64}}
    \union {Decimal(p, s) : p \in {9, 10, 11, 16, 18, 38, 65}, s \in {0, 2, 7, 9}}
Temporal ==
    {Column(t, dec, 0) : t \in {T.TIME2, T.DATETIME2, T.TIMESTAMP2}, dec \in 0 .. 6}

\* The fractions of one or two digits that v_rows is about: what stands behind
\* their values is misread.
Short == {Column(t, dec, 0) : t \in {T.TIME2, T.TIMESTAMP2}, dec \in 1 .. 2}

Kinds == {"INSERT", "UPDATE", "DEL"}
HeadOf(tid, postHead, extra) ==
    [tid |-> tid, postHead |-> postHead, extra |-> extra, crc |-> "CRC32", enable |-> TRUE]
Event(table, kind, present, rows, wanted) ==
    [table |-> table, kind |-> kind, present |-> present, rows |-> rows, wanted |-> wanted,
     head |-> HeadOf(70, 10, 0), names |-> <<<<100>>, <<116, 49>>>>]

\* Two rows of a column and its neighbours, all there.
Beside(columns) ==
    {Event(<<c, Column(T.VARCHAR, 300, 1), Column(T.TIME2, 4, 0)>>, kind,
           <<{1, 2, 3}, {1, 2, 3}>>, <<<<{}, {}>>, <<{}, {}>>>>, <<1, 2, 0>>) :
        c \in columns, kind \in {"UPDATE", "DEL"}}

\* The same with the column null throughout.
Without(columns) ==
    {[e EXCEPT !.rows = <<<<{1}, {1}>>, <<{1}, {1}>>>>] : e \in Beside(columns)}

\* Every choice of absent and null columns.
Three == <<Plain(T.TINY), Column(T.VARCHAR, 9, 1), Decimal(5, 1)>>
Patchy ==
    {Event(Three, "UPDATE", <<p, q>>, <<<<n \intersect p, n \intersect q>>, <<{}, q>>>>, <<2, 0>>) :
        p \in SUBSET (1 .. 3) \ {{}}, q \in SUBSET (1 .. 3) \ {{}},
        n \in {{}, {1}, {2}, {3}, {1, 2, 3}}}

\* Seven, eight and nine columns of nine present.
Nine == [c \in 1 .. 9 |-> Plain(T.TINY)]
Wide ==
    {Event(Nine, kind, <<1 .. n, 3 .. 9>>, <<<<nulls \intersect 1 .. n, nulls \intersect 3 .. 9>>,
                                              <<{}, {}>>>>, <<8, 0, 7>>) :
        kind \in Kinds, n \in 7 .. 9, nulls \in {{}, {1}, {7, 8}, {9}, 1 .. 9}}

\* Every form of head.
Heads ==
    {[Event(Three, kind, <<{1, 3}, {2, 3}>>, <<<<{3}, {}>>>>, <<2, 1>>) EXCEPT !.head = head] :
        kind \in Kinds,
        head \in {HeadOf(tid, p, 0) : tid \in {1, 256, 2 ^ 24 + 1}, p \in {6, 8, 10}}
                \union {HeadOf(70, 10, extra) : extra \in {1, 5, 254, 255}}
                \union {[HeadOf(70, p, 0) EXCEPT !.crc = "NONE", !.enable = on] :
                            p \in {8, 10}, on \in BOOLEAN}
                \union {[HeadOf(70, p, 0) EXCEPT !.crc = "UNKNOWN", !.enable = FALSE] :
                            p \in {6, 8}}}

\* Counts and lengths on either side of what one byte can say.
Broad ==
    {Event([c \in 1 .. n |-> Plain(T.TINY)], "UPDATE", <<{1, 8, n}, {n}>>, <<<<{8}, {}>>>>,
           <<n - 1, 0>>) : n \in 250 .. 252}
    \union {Event([c \in 1 .. n |-> IF c < n THEN Decimal(5, 1) ELSE Column(T.BLOB, 2, 1)],
                  "INSERT", <<{1, n}, {}>>, <<<<{}, {}>>>>, <<n - 1, 0>>) : n \in 125 .. 129}

\* A column nobody can decode, and a configured index the table does not have.
Unlucky ==
    {Event(Three, kind, <<{1, 2}, {2}>>, <<<<{}, {}>>>>, <<1, 3>>) : kind \in Kinds}
    \union
    {Event(<<Plain(T.TINY), Column(T.GEOMETRY, 1, 0), Plain(T.TINY)>>, kind,
           <<{1, 2, 3}, {1, 2, 3}>>, <<nulls>>, wanted) :
        kind \in Kinds, nulls \in {<<{}, {}>>, <<{2}, {}>>, <<{}, {2}>>},
        wanted \in {<<0>>, <<2>>, <<3>>}}

MCEvents ==
    Beside((Integral \union Texts \union Packed \union Temporal) \ Short)
    \union Without(Short) \union Patchy \union Wide \union Heads \union Broad \union Unlucky
ShortEvents == Beside(Short)
=============================================================================
