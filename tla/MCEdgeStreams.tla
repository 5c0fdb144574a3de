---------------------------- MODULE MCEdgeStreams ----------------------------
(* Requests for one hostname race each other, its routes and its sessions.  *)
EXTENDS EdgeStreams

CONSTANTS s1, s2, r1, r2, h

MC_OneHost == [r \in Request |-> h]

\* A state Init reaches: s1 holds the host by the n-th route, the sessions in
\* past came and went, the requests in over found no route.
MC_Start(over, past, n) ==
    /\ routes = [g \in Host |-> [session |-> s1, id |-> n]]
    /\ installed = n /\ proxies = {}
    /\ closed = past /\ done = past /\ streamsClosing = past
    /\ drop = [s \in Session |-> IF s \in past THEN "gone" ELSE "serving"]
    /\ authSlots = Session \ past
    /\ handler = [r \in Request |-> IF r \in over THEN "ended" ELSE "idle"]
    /\ dial = [r \in Request |-> "none"] /\ snap = [r \in Request |-> None]
    /\ stale = {} /\ stream = [r \in Request |-> "none"] /\ gone = {}
    /\ globalSlots = 0 /\ sessionSlots = [s \in Session |-> 0]
    /\ edgeWG = 0 /\ sessionWG = [s \in Session |-> 0]
    /\ passed = [r \in Request |-> 0] /\ counted = [r \in Request |-> 0]
    /\ finalized = {} /\ late = [r \in Request |-> 0] /\ traffic = 0

\* Two sessions compete for the host and one request is left, or two requests
\* compete for the slots of one session.
MC_Init == MC_Start({r2}, {}, 1) \/ MC_Start({}, {s2}, MaxRoutes)

MC_Spec == MC_Init /\ [][Next]_vars /\ Fairness
=============================================================================
