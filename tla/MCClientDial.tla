---------------------------- MODULE MCClientDial ----------------------------
(* The agent's search for a session, with two resolved QUIC addresses and   *)
(* enough cycles for a Connect and two reconnects.                          *)
EXTENDS ClientDial
=============================================================================
