-------------------------- MODULE MCPlayersChanged --------------------------
(* Instances of PlayersChanged for TLC. *)
EXTENDS PlayersChanged

CONSTANTS g1, g2, consumer, host, alice
=============================================================================
