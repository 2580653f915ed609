----------------------------- MODULE MCStartup -----------------------------
(***************************************************************************)
(* Small instances of Startup for TLC: every arrangement of up to four     *)
(* sections for one start, and the shortest useful one for several.        *)
(***************************************************************************)
EXTENDS Startup, SequencesExt

CONSTANTS p1, p2, p3

MCProcs == {p1, p2, p3}
MCColumnSections == {"schema_column_1"}
MCSchemaLike == {"schema", "schema_notes"} \union MCColumnSections

Mysql == <<SectionLine("mysql"), KeyLine("mysql_ip"), KeyLine("password")>>
Redis == <<OtherLine, SectionLine("redis"), KeyLine("password"), KeyLine("redis_ip")>>
Tables(first, second) == <<SectionLine("schema"), KeyLine(first), KeyLine(second)>>
Column(first, second) == <<SectionLine("schema_column_1"), KeyLine(first), KeyLine(second)>>
Notes == <<SectionLine("schema_notes"), KeyLine("table")>>

Blocks ==
    <<Mysql, Redis, Tables("database", "table"), Tables("table", "database"),
      Column("column_index", "column_name"), Column("column_name", "column_index"), Notes>>

Shortest == <<SectionLine("mysql"), KeyLine("mysql_ip"), SectionLine("schema")>>

\* Sections in any order, repeated or not.
Arrangements(n) ==
    {FlattenSeq([i \in 1 .. n |-> Blocks[f[i]]]) : f \in [1 .. n -> DOMAIN Blocks]}

\* Passwords of every length around a group of three, a block and the buffer:
\* written as they are, encoded, over two lines, and cut short.
Secret(plain, text, need, whole) ==
    [plain |-> plain, text |-> text, need_decode |-> need, whole |-> whole]
Letters(n) == [k \in 1 .. n |-> 33 + (k * 37 % 90)]
Open(n) == Secret(Letters(n), Letters(n), FALSE, TRUE)
Encoded(n) == LET text == Encode(Encrypt(Letters(n)))
              IN  {Secret(Letters(n), text, TRUE, TRUE),
                   Secret(Letters(n), <<LineEnd>> \o SubSeq(text, 1, 6) \o <<Filler, LineEnd>>
                                      \o SubSeq(text, 7, Len(text)) \o <<LineEnd>>, TRUE, TRUE),
                   Secret(Letters(n), Tail(text), TRUE, FALSE)}
Secrets ==
    {Open(n) : n \in {1, 64}}
    \union UNION {Encoded(n) : n \in {1, 6, 7, 8, 9, 10, 15, 16, 62, 63, 64}}

MCScenarios ==
    [file : UNION {Arrangements(n) : n \in 0 .. 4}, password : {Open(1)},
     starts : {{p1}}, daemons : {{{}}}]
    \union [file : {Shortest}, password : {Open(1)}, starts : {MCProcs},
            daemons : {{{p1, p2}, MCProcs}}]
    \union [file : {Shortest}, password : Secrets, starts : {{p1}}, daemons : {{{}}}]
=============================================================================
