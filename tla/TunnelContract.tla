---------------------------- MODULE TunnelContract ----------------------------
(***************************************************************************)
(* What a tunnel.Session promises the edge and the agent, whichever        *)
(* transport carries it (the interfaces and sessionState of                *)
(* internal/tunnel/session.go): the first terminal event decides the close *)
(* reason, no stream is handed out after it, and Session.Done is           *)
(* observable only when every stream handed out is itself Done.            *)
(***************************************************************************)
CONSTANTS
    Stream,     \* stream objects
    Cause,      \* what can end a session: a CloseInfo
    NoCause     \* the session is not closed

VARIABLES
    info,       \* CloseInfo, NoCause while the session is open
    live,       \* streams handed out and not Done
    spent,      \* streams that are Done, or were refused
    done        \* Session.Done is closed

contractVars == <<info, live, spent, done>>

ContractInit ==
    /\ info = NoCause
    /\ live = {}
    /\ spent = {}
    /\ done = FALSE

\* OpenStream or AcceptStream returns a stream.
HandOut(st) ==
    /\ info = NoCause
    /\ st \notin live \cup spent
    /\ live' = live \cup {st}
    /\ UNCHANGED <<info, spent, done>>

\* OpenStream or AcceptStream fails.
Refuse(st) ==
    /\ st \notin live \cup spent
    /\ spent' = spent \cup {st}
    /\ UNCHANGED <<info, live, done>>

\* A stream's Done channel is closed.
Complete(st) ==
    /\ st \in live
    /\ live' = live \ {st}
    /\ spent' = spent \cup {st}
    /\ UNCHANGED <<info, done>>

\* The first terminal event; it is final.
Terminate ==
    /\ info = NoCause
    /\ info' \in Cause
    /\ UNCHANGED <<live, spent, done>>

\* Session.Done is published over an empty child tree.
Publish ==
    /\ info # NoCause /\ live = {} /\ ~done
    /\ done' = TRUE
    /\ UNCHANGED <<info, live, spent>>

ContractNext ==
    \/ \E st \in Stream : HandOut(st) \/ Refuse(st) \/ Complete(st)
    \/ Terminate \/ Publish

Contract == ContractInit /\ [][ContractNext]_contractVars
=============================================================================
