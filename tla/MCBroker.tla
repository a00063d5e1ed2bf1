------------------------------ MODULE MCBroker ------------------------------
(***************************************************************************)
(* Broker for TLC: two clients, and a history and a channel of two events, *)
(* so that three events overflow both.                                      *)
(***************************************************************************)
EXTENDS Broker

CONSTANTS c1, c2

MCClients == {c1, c2}
=============================================================================
