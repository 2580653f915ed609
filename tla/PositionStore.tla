---------------------------- MODULE PositionStore ----------------------------
(***************************************************************************)
(* What Subscriber takes for granted of the position kept in Redis: a save *)
(* stores its position or leaves the old one, a read reports what is       *)
(* stored or nothing, and either may kill the process, but only once Redis *)
(* has closed a connection under it.  RedisClient implements this.         *)
(***************************************************************************)
CONSTANTS
    Positions,  \* what can be saved
    NoPos       \* nothing has been saved, or nothing was read

VARIABLES
    stored,  \* binlogsub_pos_hash
    call,    \* the call that is under way
    arg,     \* the position a save is given
    got,     \* what the last read reported
    hungup   \* Redis closed a connection during this call

vars == <<stored, call, arg, got, hungup>>

Init ==
    /\ stored = NoPos /\ call = "idle" /\ arg = NoPos /\ got = NoPos
    /\ hungup = FALSE

Save(p) ==
    /\ call = "idle"
    /\ call' = "save" /\ arg' = p /\ hungup' = FALSE
    /\ UNCHANGED <<stored, got>>

Read ==
    /\ call = "idle"
    /\ call' = "read" /\ arg' = NoPos /\ hungup' = FALSE
    /\ UNCHANGED <<stored, got>>

Exchange ==
    /\ call \in {"save", "read"}
    /\ \/ UNCHANGED stored
       \/ call = "save" /\ stored' = arg
    /\ hungup => hungup'
    /\ hungup' \in BOOLEAN
    /\ UNCHANGED <<call, arg, got>>

Return ==
    /\ call \in {"save", "read"}
    /\ call' = "idle"
    /\ IF call = "save" THEN UNCHANGED got ELSE got' \in {NoPos, stored}
    /\ UNCHANGED <<stored, arg, hungup>>

Die ==
    /\ call \in {"save", "read"}
    /\ call' = "dead"
    /\ hungup' = TRUE
    /\ UNCHANGED <<stored, arg, got>>

Next == (\E p \in Positions : Save(p)) \/ Read \/ Exchange \/ Return \/ Die

Spec == Init /\ [][Next]_vars
=============================================================================
