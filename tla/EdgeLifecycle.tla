---------------------------- MODULE EdgeLifecycle ----------------------------
(***************************************************************************)
(* Admission and shutdown of the edge (internal/edge/edge.go: acceptTCP,   *)
(* acceptQUIC, handleTCP, handleTunnelSession, handlePublic, handler,      *)
(* dropSession, Shutdown).                                                 *)
(*                                                                         *)
(* A connection is a tunnel over TCP, a tunnel over QUIC, or a visitor.    *)
(* Each admission step takes a slot (TLS handshakes, pre-authentication,   *)
(* authenticated sessions) or joins a wait group, and looks at             *)
(* shuttingDown under lifecycleMu.  Shutdown raises the flag and snapshots *)
(* what was admitted, stops the listeners, drains the visitors' requests   *)
(* until its deadline, closes the tunnels, joins every worker, and flushes *)
(* the traffic store, unless a worker does not end.                        *)
(*                                                                         *)
(* A lookup, handshake or hello may fail at any time.  ReverseProxy (in    *)
(* net/http, external) panics out of the handler when copying a response   *)
(* body fails; the HTTP server recovers it.                                *)
(***************************************************************************)
EXTENDS Integers, FiniteSets

CONSTANTS
    Tcp, Quic, Public,      \* disjoint sets of connections
    None,
    MaxHandshakes,          \* capacity of tlsHandshakeSlots
    MaxPreAuth,             \* capacity of preAuthSlots
    MaxSessions             \* capacity of authSlots

Tunnel == Tcp \cup Quic
Conn == Tunnel \cup Public

ASSUME KindsAssumption ==
    /\ Tcp \cap Quic = {} /\ Tunnel \cap Public = {}
    /\ None \notin Conn
    /\ IsFiniteSet(Conn)
ASSUME LimitsAssumption ==
    MaxHandshakes \in Nat /\ MaxPreAuth \in Nat /\ MaxSessions \in Nat

VARIABLES
    pc,             \* where the goroutine that owns each connection is
    closed,         \* connections whose transport or socket is closed
    preauth,        \* Edge.preauth
    sessions,       \* Edge.sessions
    tlsSlots, preAuthSlots, authSlots,
    accepting,      \* accept loops that run (acceptWG)
    handlerWG, sessionWG, proxyWG, streamWG,
    req,            \* the request of each visitor
    reported,       \* requests whose terminal event was recorded
    dial,           \* the dial of each request, and the watcher it becomes
    target,         \* the session it dials
    shutdown,       \* where Shutdown is
    grace,          \* which deadline waitGroups runs under
    snapTunnels, snapRaw,    \* Shutdown's snapshots
    flush           \* what became of the final flush

slotVars == <<tlsSlots, preAuthSlots, authSlots>>
groupVars == <<accepting, handlerWG, sessionWG, proxyWG, streamWG>>
requestVars == <<req, reported, dial, target>>
shutdownVars == <<shutdown, grace, snapTunnels, snapRaw, flush>>
tableVars == <<closed, preauth, sessions>>
vars == <<pc, tableVars, slotVars, groupVars, requestVars, shutdownVars>>

shuttingDown == shutdown # "up"

Init ==
    /\ pc = [c \in Conn |-> "idle"]
    /\ closed = {} /\ preauth = {} /\ sessions = {}
    /\ tlsSlots = 0 /\ preAuthSlots = 0 /\ authSlots = 0
    /\ accepting = {"tcp", "quic"}
    /\ handlerWG = 0 /\ sessionWG = 0 /\ proxyWG = 0 /\ streamWG = 0
    /\ req = [c \in Public |-> "none"] /\ reported = {}
    /\ dial = [c \in Public |-> "none"] /\ target = [c \in Public |-> None]
    /\ shutdown = "up" /\ grace = "ctx"
    /\ snapTunnels = {} /\ snapRaw = {}
    /\ flush = "none"

-----------------------------------------------------------------------------
(* Accepting connections                                                   *)

\* The listeners are open until Shutdown closes them.
Listening == shutdown \in {"up", "flagged"}

\* acceptTCP handles one connection at a time, and so does acceptQUIC.
TcpLoopBusy == \E c \in Tcp \cup Public : pc[c] = "slot"
QuicLoopBusy == \E c \in Quic : pc[c] \in {"preslot", "preauth"}

\* Accept, and a handshake slot or a refusal.
AcceptTCP(c) ==
    /\ pc[c] = "idle" /\ Listening /\ "tcp" \in accepting /\ ~TcpLoopBusy
    /\ IF tlsSlots < MaxHandshakes
         THEN /\ tlsSlots' = tlsSlots + 1
              /\ pc' = [pc EXCEPT ![c] = "slot"]
         ELSE /\ pc' = [pc EXCEPT ![c] = "ended"]
              /\ UNCHANGED tlsSlots
    /\ UNCHANGED <<tableVars, preAuthSlots, authSlots, groupVars, requestVars,
                   shutdownVars>>

\* rawConns and handlerWG, under lifecycleMu; the handler starts.
AdmitTCP(c) ==
    /\ pc[c] = "slot"
    /\ IF shuttingDown
         THEN /\ tlsSlots' = tlsSlots - 1
              /\ pc' = [pc EXCEPT ![c] = "ended"]
              /\ UNCHANGED handlerWG
         ELSE /\ handlerWG' = handlerWG + 1
              /\ pc' = [pc EXCEPT ![c] = "shaking"]
              /\ UNCHANGED tlsSlots
    /\ UNCHANGED <<tableVars, preAuthSlots, authSlots, accepting, sessionWG,
                   proxyWG, streamWG, requestVars, shutdownVars>>

\* The TLS handshake ends; its slot goes back whatever the outcome.
Handshake(c, ok) ==
    /\ pc[c] = "shaking" /\ (c \in closed => ~ok)
    /\ tlsSlots' = tlsSlots - 1
    /\ IF ok /\ ~shuttingDown
         THEN /\ pc' = [pc EXCEPT ![c] = "shaken"]
              /\ UNCHANGED handlerWG
         ELSE /\ pc' = [pc EXCEPT ![c] = "ended"]
              /\ handlerWG' = handlerWG - 1
    /\ UNCHANGED <<tableVars, preAuthSlots, authSlots, accepting, sessionWG,
                   proxyWG, streamWG, requestVars, shutdownVars>>

\* The accept loop returns once its listener is closed.
AcceptLoopEnds(kind) ==
    /\ kind \in accepting /\ ~Listening
    /\ ~(IF kind = "tcp" THEN TcpLoopBusy ELSE QuicLoopBusy)
    /\ accepting' = accepting \ {kind}
    /\ UNCHANGED <<pc, tableVars, slotVars, handlerWG, sessionWG, proxyWG,
                   streamWG, requestVars, shutdownVars>>

-----------------------------------------------------------------------------
(* Tunnel sessions                                                         *)

\* The goroutine of a tunnel connection returns: handleTCP's or acceptQUIC's.
Exit(c) ==
    /\ pc' = [pc EXCEPT ![c] = "ended"]
    /\ closed' = closed \cup {c}
    /\ handlerWG' = IF c \in Quic THEN handlerWG ELSE handlerWG - 1
    /\ sessionWG' = IF c \in Quic THEN sessionWG - 1 ELSE sessionWG

\* A QUIC connection that never got a session goroutine is closed by the loop.
Turned(c) ==
    /\ pc' = [pc EXCEPT ![c] = "ended"]
    /\ closed' = closed \cup {c}
    /\ handlerWG' = IF c \in Quic THEN handlerWG ELSE handlerWG - 1
    /\ UNCHANGED sessionWG

\* acquirePreauth, first part: a slot or a refusal.
acquirePreauth(c) ==
    /\ \/ c \in Tcp /\ pc[c] = "shaken"
       \/ c \in Quic /\ pc[c] = "idle" /\ Listening /\ "quic" \in accepting
                     /\ ~QuicLoopBusy
    /\ IF preAuthSlots < MaxPreAuth
         THEN /\ preAuthSlots' = preAuthSlots + 1
              /\ pc' = [pc EXCEPT ![c] = "preslot"]
              /\ UNCHANGED <<closed, handlerWG, sessionWG>>
         ELSE /\ Turned(c)
              /\ UNCHANGED preAuthSlots
    /\ UNCHANGED <<preauth, sessions, tlsSlots, authSlots, accepting, proxyWG,
                   streamWG, requestVars, shutdownVars>>

\* Mutant: a pre-authenticated session is registered behind Shutdown's back.
RegisterPreauth_Unchecked(c) ==
    /\ pc[c] = "preslot"
    /\ preauth' = preauth \cup {c}
    /\ pc' = [pc EXCEPT ![c] = IF c \in Quic THEN "preauth" ELSE "hello"]
    /\ UNCHANGED <<closed, preAuthSlots, handlerWG, sessionWG>>
    /\ UNCHANGED <<sessions, tlsSlots, authSlots, accepting, proxyWG, streamWG,
                   requestVars, shutdownVars>>

\* acquirePreauth, second part, under lifecycleMu.
RegisterPreauth(c) ==
    /\ pc[c] = "preslot"
    /\ IF shuttingDown
         THEN /\ preAuthSlots' = preAuthSlots - 1
              /\ Turned(c)
              /\ UNCHANGED preauth
         ELSE /\ preauth' = preauth \cup {c}
              /\ pc' = [pc EXCEPT ![c] = IF c \in Quic THEN "preauth" ELSE "hello"]
              /\ UNCHANGED <<closed, preAuthSlots, handlerWG, sessionWG>>
    /\ UNCHANGED <<sessions, tlsSlots, authSlots, accepting, proxyWG, streamWG,
                   requestVars, shutdownVars>>

\* releasePreauth.
releasePreauth(c) ==
    /\ preauth' = preauth \ {c}
    /\ preAuthSlots' = IF c \in preauth THEN preAuthSlots - 1 ELSE preAuthSlots

\* Mutant: acceptQUIC does not look at shuttingDown again.
StartSession_Unchecked(c) ==
    /\ pc[c] = "preauth"
    /\ sessionWG' = sessionWG + 1
    /\ pc' = [pc EXCEPT ![c] = "hello"]
    /\ UNCHANGED <<closed, preauth, preAuthSlots, handlerWG>>
    /\ UNCHANGED <<sessions, tlsSlots, authSlots, accepting, proxyWG, streamWG,
                   requestVars, shutdownVars>>

\* acceptQUIC: sessionWG, under lifecycleMu, and the session's goroutine.
StartSession(c) ==
    /\ pc[c] = "preauth"
    /\ IF shuttingDown
         THEN /\ releasePreauth(c)
              /\ Turned(c)
         ELSE /\ sessionWG' = sessionWG + 1
              /\ pc' = [pc EXCEPT ![c] = "hello"]
              /\ UNCHANGED <<closed, preauth, preAuthSlots, handlerWG>>
    /\ UNCHANGED <<sessions, tlsSlots, authSlots, accepting, proxyWG, streamWG,
                   requestVars, shutdownVars>>

\* handleTunnelSession: no control stream, no hello, a wrong version or token,
\* or its five seconds are over.
HelloFails(c) ==
    /\ pc[c] = "hello"
    /\ releasePreauth(c) /\ Exit(c)
    /\ UNCHANGED <<sessions, tlsSlots, authSlots, accepting, proxyWG, streamWG,
                   requestVars, shutdownVars>>

\* acquireAuthenticated, under lifecycleMu.
acquireAuthenticated(c) ==
    /\ pc[c] = "hello" /\ c \notin closed
    /\ IF shuttingDown \/ authSlots >= MaxSessions
         THEN /\ releasePreauth(c) /\ Exit(c)
              /\ UNCHANGED authSlots
         ELSE /\ authSlots' = authSlots + 1
              /\ pc' = [pc EXCEPT ![c] = "authed"]
              /\ UNCHANGED <<closed, preauth, preAuthSlots, handlerWG, sessionWG>>
    /\ UNCHANGED <<sessions, tlsSlots, accepting, proxyWG, streamWG, requestVars,
                   shutdownVars>>

\* hello_ok could not be written.
HelloOKFails(c) ==
    /\ pc[c] = "authed"
    /\ authSlots' = authSlots - 1
    /\ releasePreauth(c) /\ Exit(c)
    /\ UNCHANGED <<sessions, tlsSlots, accepting, proxyWG, streamWG, requestVars,
                   shutdownVars>>

\* promoteAuthenticated: from preauth to sessions in one lifecycleMu section.
promoteAuthenticated(c) ==
    /\ pc[c] = "authed"
    /\ IF shuttingDown \/ c \notin preauth
         THEN /\ authSlots' = authSlots - 1
              /\ releasePreauth(c) /\ Exit(c)
              /\ UNCHANGED sessions
         ELSE /\ releasePreauth(c)
              /\ sessions' = sessions \cup {c}
              /\ pc' = [pc EXCEPT ![c] = "serving"]
              /\ UNCHANGED <<authSlots, closed, handlerWG, sessionWG>>
    /\ UNCHANGED <<tlsSlots, accepting, proxyWG, streamWG, requestVars,
                   shutdownVars>>

\* The peer, the network, a heartbeat timeout or a stream the agent may not
\* open (rejectUnexpectedStreams) ends a session.
SessionCloses(c) ==
    /\ pc[c] \in {"hello", "authed", "serving"} /\ c \notin closed
    /\ closed' = closed \cup {c}
    /\ UNCHANGED <<pc, preauth, sessions, slotVars, groupVars, requestVars,
                   shutdownVars>>

\* dropSession: admission closes and the session leaves the table ...
DropBegins(c) ==
    /\ pc[c] = "serving" /\ c \in closed
    /\ sessions' = sessions \ {c}
    /\ pc' = [pc EXCEPT ![c] = "dropping"]
    /\ UNCHANGED <<closed, preauth, slotVars, groupVars, requestVars,
                   shutdownVars>>

\* ... and when its streams' watchers are gone, its slot goes back.
DropEnds(c) ==
    /\ pc[c] = "dropping"
    /\ \A v \in Public : ~(dial[v] = "watching" /\ target[v] = c)
    /\ authSlots' = authSlots - 1
    /\ Exit(c)
    /\ UNCHANGED <<preauth, sessions, tlsSlots, preAuthSlots, accepting, proxyWG,
                   streamWG, requestVars, shutdownVars>>

-----------------------------------------------------------------------------
(* Visitors                                                                *)

\* handlePublic: the connection's http.Server, registered under lifecycleMu.
handlePublic(c) ==
    /\ c \in Public /\ pc[c] = "shaken"
    /\ IF shuttingDown
         THEN /\ pc' = [pc EXCEPT ![c] = "ended"]
              /\ handlerWG' = handlerWG - 1
              /\ closed' = closed \cup {c}
         ELSE /\ pc' = [pc EXCEPT ![c] = "public"]
              /\ UNCHANGED <<handlerWG, closed>>
    /\ UNCHANGED <<preauth, sessions, slotVars, accepting, sessionWG, proxyWG,
                   streamWG, requestVars, shutdownVars>>

\* Serve returns: the connection is closed, was hijacked, or its server is
\* being shut down (a request it was serving goes on).
PublicEnds(c) ==
    /\ pc[c] = "public"
    /\ req[c] # "proxying" \/ shutdown \notin {"up", "flagged"}
    /\ pc' = [pc EXCEPT ![c] = "ended"]
    /\ handlerWG' = handlerWG - 1
    /\ UNCHANGED <<tableVars, slotVars, accepting, sessionWG, proxyWG, streamWG,
                   requestVars, shutdownVars>>

\* handler and beginProxy: a routed request, or 503 once shutting down.
beginProxy(c) ==
    /\ pc[c] = "public" /\ req[c] = "none"
    /\ IF shuttingDown
         THEN /\ req' = [req EXCEPT ![c] = "refused"]
              /\ reported' = reported \cup {c}
              /\ UNCHANGED proxyWG
         ELSE /\ req' = [req EXCEPT ![c] = "proxying"]
              /\ proxyWG' = proxyWG + 1
              /\ UNCHANGED reported
    /\ UNCHANGED <<pc, tableVars, slotVars, accepting, handlerWG, sessionWG,
                   streamWG, dial, target, shutdownVars>>

\* ReverseProxy returned: the terminal event ...
Emit(c) ==
    /\ req[c] = "proxying"
    /\ reported' = reported \cup {c}
    /\ req' = [req EXCEPT ![c] = "emitted"]
    /\ UNCHANGED <<pc, tableVars, slotVars, groupVars, dial, target,
                   shutdownVars>>

\* Mutant: the proxy slot of an upgraded request goes back before its event.
CloseHijacked_EventLast(c) ==
    /\ req[c] = "hijacked"
    /\ req' = [req EXCEPT ![c] = "over"]
    /\ proxyWG' = proxyWG - 1
    /\ UNCHANGED <<pc, tableVars, slotVars, accepting, handlerWG, sessionWG,
                   streamWG, reported, dial, target, shutdownVars>>

\* An upgraded connection closes; its heartbeat goroutine records the last
\* window ...
CloseHijacked(c) ==
    /\ req[c] = "hijacked"
    /\ reported' = reported \cup {c}
    /\ req' = [req EXCEPT ![c] = "emitted"]
    /\ UNCHANGED <<pc, tableVars, slotVars, groupVars, dial, target,
                   shutdownVars>>

\* ... and finishProxy returns the slot.
finishProxy(c) ==
    /\ req[c] = "emitted"
    /\ req' = [req EXCEPT ![c] = "over"]
    /\ proxyWG' = proxyWG - 1
    /\ UNCHANGED <<pc, tableVars, slotVars, accepting, handlerWG, sessionWG,
                   streamWG, reported, dial, target, shutdownVars>>

\* wrapHijack, under lifecycleMu: a 101 response hands the slot to the upgraded
\* connection, unless shutdown has begun.
wrapHijack(c) ==
    /\ req[c] = "proxying" /\ ~shuttingDown
    /\ req' = [req EXCEPT ![c] = "hijacked"]
    /\ UNCHANGED <<pc, tableVars, slotVars, groupVars, reported, dial, target,
                   shutdownVars>>

\* Copying the response body failed: ReverseProxy panics with
\* ErrAbortHandler and the rest of handler does not run.
AbortHandler(c) ==
    /\ req[c] = "proxying"
    /\ req' = [req EXCEPT ![c] = "aborted"]
    /\ UNCHANGED <<pc, tableVars, slotVars, groupVars, reported, dial, target,
                   shutdownVars>>

\* openRouteStream captures a live session; the dial may outlive its request.
StartDial(v, c) ==
    /\ req[v] = "proxying" /\ dial[v] = "none" /\ c \in sessions
    /\ dial' = [dial EXCEPT ![v] = "dialing"]
    /\ target' = [target EXCEPT ![v] = c]
    /\ UNCHANGED <<pc, tableVars, slotVars, groupVars, req, reported,
                   shutdownVars>>

\* reserveStreamWatcher: refused once dropSession stopped admission.
reserveStreamWatcher(v) ==
    /\ dial[v] = "dialing"
    /\ IF pc[target[v]] = "serving"
         THEN /\ dial' = [dial EXCEPT ![v] = "watching"]
              /\ streamWG' = streamWG + 1
         ELSE /\ dial' = [dial EXCEPT ![v] = "over"]
              /\ UNCHANGED streamWG
    /\ UNCHANGED <<pc, tableVars, slotVars, accepting, handlerWG, sessionWG,
                   proxyWG, req, reported, target, shutdownVars>>

\* The stream is Done and its watcher returns.
WatcherEnds(v) ==
    /\ dial[v] = "watching"
    /\ dial' = [dial EXCEPT ![v] = "over"]
    /\ streamWG' = streamWG - 1
    /\ UNCHANGED <<pc, tableVars, slotVars, accepting, handlerWG, sessionWG,
                   proxyWG, req, reported, target, shutdownVars>>

-----------------------------------------------------------------------------
(* Shutdown                                                                *)

\* The flag and the snapshots, in one lifecycleMu section.
BeginShutdown ==
    /\ shutdown = "up"
    /\ shutdown' = "flagged"
    /\ snapTunnels' = preauth \cup sessions
    /\ snapRaw' = {c \in Conn : pc[c] \in {"shaking", "shaken", "preslot",
                        "hello", "authed", "serving", "dropping", "public"}
                        /\ c \notin Quic}
                     \cup {c \in Public : req[c] = "hijacked"}
    /\ UNCHANGED <<pc, tableVars, slotVars, groupVars, requestVars, grace, flush>>

\* The listeners are closed and the sessions notified.
CloseListeners ==
    /\ shutdown = "flagged"
    /\ shutdown' = "draining"
    /\ UNCHANGED <<pc, tableVars, slotVars, groupVars, requestVars, grace,
                   snapTunnels, snapRaw, flush>>

\* Every server and every proxied request ended ...
Drained ==
    /\ shutdown = "draining" /\ proxyWG = 0
    /\ \A c \in Public : pc[c] # "public"
    /\ shutdown' = "closing"
    /\ UNCHANGED <<pc, tableVars, slotVars, groupVars, requestVars, grace,
                   snapTunnels, snapRaw, flush>>

\* ... or the caller's deadline is over and forceClose closes them.
DrainDeadline ==
    /\ shutdown = "draining"
    /\ shutdown' = "closing"
    /\ closed' = closed \cup snapRaw
    /\ UNCHANGED <<pc, preauth, sessions, slotVars, groupVars, requestVars,
                   grace, snapTunnels, snapRaw, flush>>

\* Mutant: only the pre-authenticated transports are closed.
CloseTunnels_OnlyPreauth ==
    /\ shutdown = "closing"
    /\ shutdown' = "joining"
    /\ closed' = closed \cup (snapTunnels \cap preauth)
    /\ UNCHANGED <<pc, preauth, sessions, slotVars, groupVars, requestVars,
                   grace, snapTunnels, snapRaw, flush>>

\* The snapshotted transports are closed.
CloseTunnels ==
    /\ shutdown = "closing"
    /\ shutdown' = "joining"
    /\ closed' = closed \cup snapTunnels
    /\ UNCHANGED <<pc, preauth, sessions, slotVars, groupVars, requestVars,
                   grace, snapTunnels, snapRaw, flush>>

WorkersJoined ==
    accepting = {} /\ handlerWG = 0 /\ sessionWG = 0 /\ proxyWG = 0

\* waitGroups: the groups before streamWG, in order ...
JoinWorkers ==
    /\ shutdown = "joining" /\ WorkersJoined
    /\ shutdown' = "watchers"
    /\ UNCHANGED <<pc, tableVars, slotVars, groupVars, requestVars, grace,
                   snapTunnels, snapRaw, flush>>

\* ... then streamWG, then the final flush.
JoinWatchers ==
    /\ shutdown = "watchers" /\ streamWG = 0
    /\ shutdown' = "down"
    /\ flush' = "flushed"
    /\ UNCHANGED <<pc, tableVars, slotVars, groupVars, requestVars, grace,
                   snapTunnels, snapRaw>>

\* A join that does not end within its deadline: forceClose and two seconds
\* more, and after those no flush.
JoinDeadline ==
    /\ shutdown \in {"joining", "watchers"} /\ ~(WorkersJoined /\ streamWG = 0)
    /\ IF grace = "ctx"
         THEN /\ grace' = "cleanup"
              /\ shutdown' = "joining"
              /\ closed' = closed \cup snapRaw
              /\ UNCHANGED flush
         ELSE /\ shutdown' = "down"
              /\ flush' = "skipped"
              /\ UNCHANGED <<grace, closed>>
    /\ UNCHANGED <<pc, preauth, sessions, slotVars, groupVars, requestVars,
                   snapTunnels, snapRaw>>

-----------------------------------------------------------------------------
Tunnels(c) ==
    \/ acquirePreauth(c) \/ RegisterPreauth(c) \/ StartSession(c)
    \/ HelloFails(c) \/ acquireAuthenticated(c) \/ HelloOKFails(c)
    \/ promoteAuthenticated(c) \/ DropBegins(c) \/ DropEnds(c)

Requests(c) ==
    \/ handlePublic(c) \/ PublicEnds(c) \/ beginProxy(c) \/ Emit(c)
    \/ CloseHijacked(c) \/ finishProxy(c) \/ wrapHijack(c) \/ AbortHandler(c)
    \/ reserveStreamWatcher(c) \/ WatcherEnds(c)
    \/ \E s \in Tunnel : StartDial(c, s)

Shutdown ==
    \/ CloseListeners \/ Drained \/ DrainDeadline \/ CloseTunnels
    \/ JoinWorkers \/ JoinWatchers \/ JoinDeadline

Next ==
    \/ \E c \in Tcp \cup Public :
         AcceptTCP(c) \/ AdmitTCP(c) \/ \E ok \in BOOLEAN : Handshake(c, ok)
    \/ \E kind \in {"tcp", "quic"} : AcceptLoopEnds(kind)
    \/ \E c \in Tunnel : Tunnels(c) \/ SessionCloses(c)
    \/ \E c \in Public : Requests(c)
    \/ BeginShutdown \/ Shutdown

Spec == Init /\ [][Next]_vars

\* Shutdown's own steps are taken: its caller's deadline and the two seconds of
\* cleanup end every wait.  Handlers run; a handshake, a hello and writing
\* hello_ok have deadlines; a stream of a closed session becomes Done.
Fairness ==
    /\ WF_vars(Shutdown)
    /\ \A c \in Tcp \cup Public :
         WF_vars(AdmitTCP(c)) /\ WF_vars(\E ok \in BOOLEAN : Handshake(c, ok))
    /\ \A c \in Tunnel : WF_vars(Tunnels(c))
    /\ \A v \in Public :
         /\ WF_vars(reserveStreamWatcher(v))
         /\ WF_vars(target[v] \in closed /\ WatcherEnds(v))

FairSpec == Spec /\ Fairness

-----------------------------------------------------------------------------
(* Properties                                                              *)

\* Every variable has its type; no slot channel is beyond its capacity and no
\* wait group is negative.
TypeOK ==
    /\ pc \in [Conn -> {"idle", "slot", "shaking", "shaken", "preslot", "preauth",
                        "hello", "authed", "serving", "dropping", "public",
                        "ended"}]
    /\ closed \subseteq Conn /\ preauth \subseteq Tunnel /\ sessions \subseteq Tunnel
    /\ tlsSlots \in 0..MaxHandshakes /\ preAuthSlots \in 0..MaxPreAuth
    /\ authSlots \in 0..MaxSessions
    /\ accepting \subseteq {"tcp", "quic"}
    /\ handlerWG \in Nat /\ sessionWG \in Nat /\ proxyWG \in Nat /\ streamWG \in Nat
    /\ req \in [Public -> {"none", "refused", "proxying", "hijacked", "emitted",
                           "aborted", "over"}]
    /\ reported \subseteq Public
    /\ dial \in [Public -> {"none", "dialing", "watching", "over"}]
    /\ target \in [Public -> Tunnel \cup {None}]
    /\ shutdown \in {"up", "flagged", "draining", "closing", "joining", "watchers",
                     "down"}
    /\ grace \in {"ctx", "cleanup"}
    /\ snapTunnels \subseteq Tunnel /\ snapRaw \subseteq Conn
    /\ flush \in {"none", "flushed", "skipped"}

At(set, places) == {c \in set : pc[c] \in places}

\* Every slot and every wait-group count of the admission path belongs to a
\* connection that is between taking and returning it, on every refusal,
\* failure and shutdown race.
SlotsOwned ==
    /\ tlsSlots = Cardinality(At(Conn, {"slot", "shaking"}))
    /\ preAuthSlots = Cardinality(At(Conn, {"preslot", "preauth", "hello", "authed"}))
    /\ authSlots = Cardinality(At(Conn, {"authed", "serving", "dropping"}))
    /\ handlerWG = Cardinality(At(Tcp \cup Public,
                     {"shaking", "shaken", "preslot", "hello", "authed",
                      "serving", "dropping", "public"}))
    /\ sessionWG = Cardinality(At(Quic, {"hello", "authed", "serving", "dropping"}))

\* No Add after shuttingDown is set; and streamWG, which dials still raise
\* then, is not raised any more once Shutdown waits for it.
NoLateAdd ==
    [][/\ shuttingDown => /\ handlerWG' <= handlerWG
                          /\ sessionWG' <= sessionWG
                          /\ proxyWG' <= proxyWG
       /\ shutdown = "watchers" \/ flush = "flushed" => streamWG' <= streamWG]_vars

\* No session escapes the snapshots: once Shutdown joins the session handlers,
\* every one of them works on a closed transport and will end.
NoneEscapes ==
    shutdown \in {"joining", "watchers", "down"} =>
       \A c \in At(Tunnel, {"hello", "authed", "serving"}) : c \in closed

\* A final flush sees everything: every admitted request has recorded its
\* event and every stream watcher has reported its bytes.
FlushComplete ==
    flush = "flushed" =>
       /\ \A c \in Public : req[c] \in {"emitted", "over"} => c \in reported
       /\ \A c \in Public : req[c] \notin {"proxying", "hijacked", "emitted"}
       /\ \A c \in Public : dial[c] # "watching"
       /\ sessions = {} /\ preauth = {}

\* Once Shutdown has closed the tunnels, every tunnel handler returns, whatever
\* it was doing: none waits for a slot, a stream or a watcher that waits for it.
TunnelsEnd ==
    \A c \in Tunnel : shutdown = "joining" ~> pc[c] \in {"idle", "ended"}

\* The final flush is skipped only for a worker that is still running.
SkippedOnlyForWorkers ==
    [][flush' = "skipped" /\ flush = "none" =>
         \/ accepting # {} \/ \E c \in Conn : pc[c] \notin {"idle", "ended"}
         \/ \E c \in Public : \/ req[c] \in {"proxying", "hijacked", "emitted"}
                              \/ dial[c] = "watching"]_vars

\* Admission is exact and leaves nobody behind: every slot has its owner, and
\* Shutdown's snapshots hold every session.
Admission == TypeOK /\ SlotsOwned /\ NoneEscapes
=============================================================================
