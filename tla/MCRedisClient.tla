--------------------------- MODULE MCRedisClient ---------------------------
(***************************************************************************)
(* RedisClient with two positions, which is enough to tell a value that    *)
(* was stored from one that is being stored and from none.                 *)
(***************************************************************************)
EXTENDS RedisClient

CONSTANTS p1, p2

MCPositions == {p1, p2}
=============================================================================
