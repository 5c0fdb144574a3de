---------------------------- MODULE MCQuicSession ----------------------------
(* Two streams and two closers with codes of their own, against a close by    *)
(* the peer with a code that one of them also uses.                           *)
EXTENDS QuicSession
CONSTANTS c1, c2
Closers == {c1, c2}
Errors == {[kind |-> "application", code |-> c1, remote |-> TRUE]}
=============================================================================
