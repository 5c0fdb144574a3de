--------------------------- MODULE MCClientStreams ---------------------------
(* The agent's stream handlers, over a yamux session and the QUIC session   *)
(* that follows it.                                                         *)
EXTENDS ClientStreams

MC_KindOf == <<"yamux", "quic">>
=============================================================================
