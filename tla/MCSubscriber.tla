---------------------------- MODULE MCSubscriber ----------------------------
(***************************************************************************)
(* Small instances of Subscriber for TLC: two files, two table ids whose   *)
(* tables swap from one file to the next, one table that matches.          *)
(***************************************************************************)
EXTENDS Subscriber, TLC

CONSTANTS t1, t2

MCTids == {1, 2}
MCTables == {t1, t2}
MCTableOf == [f \in 1 .. MaxFiles |-> IF f % 2 = 1 THEN 1 :> t1 @@ 2 :> t2
                                                   ELSE 1 :> t2 @@ 2 :> t1]
MCMatched == {t1}

Map(t) == Event("TABLEMAP", t)
Rows(t) == Event("ROWS", t)

\* A statement whose rows fill two events.
LongStatement == {<<Map(1), Rows(1), Rows(1)>>}
\* The same, and an event of no interest.
LongTransaction == LongStatement \union {<<Event("OTHER", NoTid)>>}
\* One statement on each table.
TwoTables == {<<Map(1), Rows(1)>>, <<Map(2), Rows(2)>>}
OneTable == {<<Map(1), Rows(1)>>}
=============================================================================
