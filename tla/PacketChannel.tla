---------------------------- MODULE PacketChannel ----------------------------
(***************************************************************************)
(* What the parser takes for granted of Packet::Read: packets arrive whole *)
(* and in the order in which the server sent them.  Only on a connection   *)
(* that is lost may something else be parsed, and then nothing new comes   *)
(* until the next connection.                                              *)
(***************************************************************************)
EXTENDS Naturals

VARIABLES
    sent,   \* packets sent over all connections so far
    got,    \* the last packet handed to the parser, or given up
    link,   \* "up" or "lost"
    torn    \* was a body parsed on this connection that is no packet's?

vars == <<sent, got, link, torn>>

Init == sent = 0 /\ got = 0 /\ link = "up" /\ torn = FALSE

\* The server sends an event, in one packet or several.
Put ==
    /\ link = "up"
    /\ sent' \in Nat /\ sent' > sent
    /\ UNCHANGED <<got, link, torn>>

Take ==
    /\ ~torn /\ got < sent
    /\ got' = got + 1
    /\ UNCHANGED <<sent, link, torn>>

Lose ==
    /\ link = "up"
    /\ link' = "lost"
    /\ UNCHANGED <<sent, got, torn>>

Tear ==
    /\ link = "lost"
    /\ torn' = TRUE
    /\ UNCHANGED <<sent, got, link>>

\* What the old connection did not bring is given up.
Reopen ==
    /\ link' = "up" /\ torn' = FALSE
    /\ got' = sent
    /\ UNCHANGED sent

Next == Put \/ Take \/ Lose \/ Tear \/ Reopen

Spec == Init /\ [][Next]_vars
=============================================================================
