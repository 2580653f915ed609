--------------------------- MODULE MCPacketStream ---------------------------
(***************************************************************************)
(* Small instances of PacketStream for TLC.                                *)
(***************************************************************************)
EXTENDS PacketStream

\* A short error, a packet that fits the first buffer, two that do not, and
\* an event of which nothing, or something, is left for a second packet.
MCPayloads == {1, 3, 4, 5}
=============================================================================
