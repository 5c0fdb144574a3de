--------------------------- MODULE MCEdgeLifecycle ---------------------------
(* A tunnel over TCP, one over QUIC and a visitor, with one slot of each kind *)
(* so that they compete, against a shutdown that may begin at any time.      *)
EXTENDS EdgeLifecycle
=============================================================================
