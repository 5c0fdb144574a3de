------------------------------- MODULE HostTable -------------------------------
(***************************************************************************)
(* What the edge's hostname table promises the path of a visitor's         *)
(* request, whatever register, unregister and dropSession do between two   *)
(* looks at it (internal/edge/edge.go): a host passes from one session to  *)
(* another only when the transport of the first is dead, only the holder   *)
(* gives it up otherwise, and a session that was dropped holds no host     *)
(* then and never again.                                                   *)
(***************************************************************************)
CONSTANTS
    Session,    \* session objects
    Host        \* public hostnames

VARIABLES
    held,       \* e.routes: the pairs <<host, session>>
    dead,       \* sessions whose transport is closed
    dropped     \* sessions that are past dropSession's section under e.mu

tableVars == <<held, dead, dropped>>

TableInit == held = {} /\ dead = {} /\ dropped = {}

\* A transport dies; it stays in the table until it is dropped or reclaimed.
Die(s) ==
    /\ dead' = dead \cup {s}
    /\ UNCHANGED <<held, dropped>>

\* register: the routes of dead holders go, those of the requested hosts and
\* any others of the same tunnels, and the hosts become the session's.  At the
\* cap (hosts = {}) the dead holders' routes are gone all the same.
Register(s, hosts, lost) ==
    /\ s \notin dropped
    /\ lost \subseteq {p \in held : p[2] \in dead \ {s}}
    /\ \A p \in held : p[1] \in hosts => p \in lost
    /\ held' = (held \ lost) \cup {<<h, s>> : h \in hosts}
    /\ UNCHANGED <<dead, dropped>>

\* unregister: only the session's own.
Unregister(s, hosts) ==
    /\ held' = held \ {<<h, s>> : h \in hosts}
    /\ UNCHANGED <<dead, dropped>>

\* dropSession: all of the session's own, for good.
Drop(s) ==
    /\ s \in dead \ dropped
    /\ held' = {p \in held : p[2] # s}
    /\ dropped' = dropped \cup {s}
    /\ UNCHANGED dead

TableNext ==
    \E s \in Session :
        \/ Die(s) \/ Drop(s)
        \/ \E hosts \in SUBSET Host :
             Unregister(s, hosts) \/ \E lost \in SUBSET held : Register(s, hosts, lost)

Table == TableInit /\ [][TableNext]_tableVars
=============================================================================
