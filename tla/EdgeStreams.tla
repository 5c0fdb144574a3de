----------------------------- MODULE EdgeStreams -----------------------------
(***************************************************************************)
(* How the edge opens a tunnel stream for a visitor's request, and what    *)
(* must happen before an ended session's capacity is given back            *)
(* (internal/edge/edge.go: handler, proxyFor, openRouteStream, the stream  *)
(* leases and watchers, dropSession; traffic.go: leasedConn).              *)
(*                                                                         *)
(* A request captures the route of its host, reserves a watcher with the   *)
(* session and with the edge, takes a stream slot of the edge and one of   *)
(* the session, checks that the route it captured is still the one in the  *)
(* table, and opens a stream.  From then on a watcher goroutine owns the   *)
(* lease: it waits for the stream's Done, records the traffic, and returns *)
(* lease and watcher.  dropSession closes stream admission first, and      *)
(* returns the session's authenticated slot last.                          *)
(*                                                                         *)
(* The transport is used through its contract (TunnelContract): a closed   *)
(* session hands out no stream, and is Done only when its streams are.     *)
(***************************************************************************)
EXTENDS Integers, FiniteSets, FiniteSetsExt

CONSTANTS
    Session,            \* authenticated sessions
    Request,            \* visitor requests, one dial each
    Host,               \* hostnames
    None,
    HostOf,             \* the Host header of each request
    MaxStreamsTotal,    \* capacity of globalStreamSlots
    MaxStreams,         \* capacity of each session's streamSlots
    MaxRoutes,          \* bound: routes ever installed
    MaxBytes            \* bound: bytes a stream moves

ASSUME HostAssumption == HostOf \in [Request -> Host]
ASSUME CapacityAssumption ==
    MaxStreamsTotal \in Nat /\ MaxStreams \in Nat
    /\ MaxRoutes \in Nat /\ MaxBytes \in Nat
ASSUME FiniteAssumption == IsFiniteSet(Request) /\ IsFiniteSet(Session)

VARIABLES
    routes,         \* Edge.routes: a Route (its session and its identity) or None
    installed,      \* Route objects allocated so far
    proxies,        \* keys of Edge.proxies
    closed,         \* sessions whose transport is closed
    done,           \* sessions whose transport is Done
    streamsClosing, \* sessions that admit no further stream
    drop,           \* where each session's dropSession is
    authSlots,      \* sessions that hold an authenticated slot
    handler,        \* where each request's handler is
    dial,           \* where each request's DialContext and its watcher are
    snap,           \* the route each dial captured
    stale,          \* dials whose route was not current when they got a lease
    stream,         \* the stream of each dial
    gone,           \* requests whose visitor context is canceled
    globalSlots, sessionSlots,      \* occupied stream slots
    edgeWG, sessionWG,              \* Edge.streamWG and Session.streamWG
    passed,         \* bytes a Read or Write of each leasedConn has moved
    counted,        \* bytes in each countingConn's counters
    finalized,      \* leasedConns whose totals were reported
    late,           \* history: bytes counted after the totals were reported
    traffic         \* bytes in the traffic store

tableVars == <<routes, installed, proxies>>
sessionVars == <<closed, done, streamsClosing, drop, authSlots>>
leaseVars == <<globalSlots, sessionSlots>>
watcherVars == <<edgeWG, sessionWG>>
byteVars == <<passed, counted, finalized, late, traffic>>
vars == <<tableVars, sessionVars, handler, dial, snap, stale, stream, gone, leaseVars,
          watcherVars, byteVars>>

Route == [session : Session, id : 1..MaxRoutes]

ASSUME NoneAssumption == None \notin Route

Init ==
    /\ routes = [h \in Host |-> None] /\ installed = 0 /\ proxies = {}
    /\ closed = {} /\ done = {} /\ streamsClosing = {}
    /\ drop = [s \in Session |-> "serving"] /\ authSlots = Session
    /\ handler = [r \in Request |-> "idle"]
    /\ dial = [r \in Request |-> "none"]
    /\ snap = [r \in Request |-> None]
    /\ stale = {}
    /\ stream = [r \in Request |-> "none"]
    /\ gone = {}
    /\ globalSlots = 0 /\ sessionSlots = [s \in Session |-> 0]
    /\ edgeWG = 0 /\ sessionWG = [s \in Session |-> 0]
    /\ passed = [r \in Request |-> 0] /\ counted = [r \in Request |-> 0]
    /\ finalized = {} /\ late = [r \in Request |-> 0] /\ traffic = 0

-----------------------------------------------------------------------------
(* The route table, as far as a dial can see it                            *)

\* register: a fresh Route, where there is none or its session is dead.
InstallRoute(s, h) ==
    /\ drop[s] = "serving" /\ installed < MaxRoutes
    /\ \/ routes[h] = None
       \/ routes[h] # None /\ routes[h].session \in closed \ {s}
    /\ installed' = installed + 1
    /\ routes' = [routes EXCEPT ![h] = [session |-> s, id |-> installed + 1]]
    /\ proxies' = IF routes[h] = None THEN proxies ELSE proxies \ {h}
    /\ UNCHANGED <<sessionVars, handler, dial, snap, stale, stream, gone, leaseVars,
                   watcherVars, byteVars>>

\* unregister of the session that holds the host, or a register of another
\* session that takes a host of the same dead tunnel and the rest with it.
RemoveRoute(s, h) ==
    /\ drop[s] = "serving" \/ s \in closed
    /\ routes[h] # None /\ routes[h].session = s
    /\ routes' = [routes EXCEPT ![h] = None]
    /\ proxies' = proxies \ {h}
    /\ UNCHANGED <<installed, sessionVars, handler, dial, snap, stale, stream, gone,
                   leaseVars, watcherVars, byteVars>>

-----------------------------------------------------------------------------
(* Sessions                                                                *)

\* The transport closes: its peer, the network, a heartbeat timeout, Shutdown.
CloseTransport(s) ==
    /\ s \notin closed
    /\ closed' = closed \cup {s}
    /\ UNCHANGED <<tableVars, done, streamsClosing, drop, authSlots, handler,
                   dial, snap, stale, stream, gone, leaseVars, watcherVars, byteVars>>

StreamsOf(s) ==
    {r \in Request : stream[r] \in {"open", "closing"} /\ snap[r].session = s}

\* The transport publishes Done.
PublishDone(s) ==
    /\ s \in closed \ done
    /\ StreamsOf(s) = {}
    /\ done' = done \cup {s}
    /\ UNCHANGED <<tableVars, closed, streamsClosing, drop, authSlots, handler,
                   dial, snap, stale, stream, gone, leaseVars, watcherVars, byteVars>>

\* dropSession, entered when the control loop has ended: first admission ...
StopAdmission(s) ==
    /\ drop[s] = "serving" /\ s \in closed
    /\ streamsClosing' = streamsClosing \cup {s}
    /\ drop' = [drop EXCEPT ![s] = "stopped"]
    /\ UNCHANGED <<tableVars, closed, done, authSlots, handler, dial, snap, stale,
                   stream, gone, leaseVars, watcherVars, byteVars>>

\* ... then its routes ...
DropRoutes(s) ==
    /\ drop[s] = "stopped"
    /\ drop' = [drop EXCEPT ![s] = "unrouted"]
    /\ LET mine == {h \in Host : routes[h] # None /\ routes[h].session = s}
       IN /\ routes' = [h \in Host |-> IF h \in mine THEN None ELSE routes[h]]
          /\ proxies' = proxies \ mine
    /\ UNCHANGED <<installed, closed, done, streamsClosing, authSlots, handler,
                   dial, snap, stale, stream, gone, leaseVars, watcherVars, byteVars>>

\* ... then the transport's Done and the helpers that end with it ...
JoinTransport(s) ==
    /\ drop[s] = "unrouted" /\ s \in done
    /\ drop' = [drop EXCEPT ![s] = "joined"]
    /\ UNCHANGED <<tableVars, closed, done, streamsClosing, authSlots, handler,
                   dial, snap, stale, stream, gone, leaseVars, watcherVars, byteVars>>

\* ... then the stream watchers, and the authenticated slot.
ReleaseAuth(s) ==
    /\ drop[s] = "joined" /\ sessionWG[s] = 0
    /\ authSlots' = authSlots \ {s}
    /\ drop' = [drop EXCEPT ![s] = "gone"]
    /\ UNCHANGED <<tableVars, closed, done, streamsClosing, handler, dial, snap, stale,
                   stream, gone, leaseVars, watcherVars, byteVars>>

-----------------------------------------------------------------------------
(* The handler of a request                                                *)

\* handler: look the host up; no route, no proxying.
Lookup(r) ==
    /\ handler[r] = "idle"
    /\ handler' = [handler EXCEPT ![r] =
                     IF routes[HostOf[r]] = None THEN "ended" ELSE "routed"]
    /\ UNCHANGED <<tableVars, sessionVars, dial, snap, stale, stream, gone, leaseVars,
                   watcherVars, byteVars>>

\* proxyFor: the host's ReverseProxy, cached or created; it starts the dial.
ProxyFor(r) ==
    /\ handler[r] = "routed"
    /\ handler' = [handler EXCEPT ![r] = "proxying"]
    /\ proxies' = proxies \cup {HostOf[r]}
    /\ dial' = [dial EXCEPT ![r] = "start"]
    /\ UNCHANGED <<routes, installed, sessionVars, snap, stale, stream, gone, leaseVars,
                   watcherVars, byteVars>>

\* The visitor goes away: the request's context is canceled.
Cancel(r) ==
    /\ handler[r] \in {"proxying", "closing"} /\ r \notin gone
    /\ gone' = gone \cup {r}
    /\ UNCHANGED <<tableVars, sessionVars, handler, dial, snap, stale, stream,
                   leaseVars, watcherVars, byteVars>>

\* The response is complete, or the round trip failed: the proxy closes the
\* connection it has (leasedConn.Close), first the stream ...
CloseConn(r) ==
    /\ handler[r] = "proxying" /\ dial[r] = "watching"
    /\ handler' = [handler EXCEPT ![r] = "closing"]
    /\ stream' = [stream EXCEPT ![r] = IF @ = "open" THEN "closing" ELSE @]
    /\ UNCHANGED <<tableVars, sessionVars, dial, snap, stale, gone, leaseVars, watcherVars,
                   byteVars>>

\* finalize: the first caller reports what the counters say at that moment.
finalize(r) ==
    /\ traffic' = IF r \in finalized THEN traffic ELSE traffic + counted[r]
    /\ finalized' = finalized \cup {r}

\* ... then the totals; and net/http cancels the request's context.  A dial
\* that is still running, or ended without a connection, has nothing to close;
\* http.Transport detaches a running one from the request.
EndHandler(r) ==
    /\ \/ handler[r] = "closing" /\ finalize(r)
       \/ /\ handler[r] = "proxying" /\ dial[r] # "watching"
          /\ dial[r] \in {"failed", "over"} \/ r \in gone
          /\ UNCHANGED <<finalized, traffic>>
    /\ handler' = [handler EXCEPT ![r] = "ended"]
    /\ gone' = gone \cup {r}
    /\ UNCHANGED <<tableVars, sessionVars, dial, snap, stale, stream, leaseVars,
                   watcherVars, passed, counted, late>>

-----------------------------------------------------------------------------
(* openRouteStream                                                         *)

\* The route snapshot of the dial, later than the handler's.
Snapshot(r) ==
    /\ dial[r] = "start"
    /\ snap' = [snap EXCEPT ![r] = routes[HostOf[r]]]
    /\ dial' = [dial EXCEPT ![r] =
                  IF routes[HostOf[r]] = None THEN "failed" ELSE "snapped"]
    /\ UNCHANGED <<tableVars, sessionVars, handler, stale, stream, gone, leaseVars,
                   watcherVars, byteVars>>

\* reserveStreamWatcher, under the session's streamLifecycleMu.
reserveStreamWatcher(r) ==
    /\ dial[r] = "snapped"
    /\ LET s == snap[r].session
       IN IF s \in streamsClosing
            THEN /\ dial' = [dial EXCEPT ![r] = "failed"]
                 /\ UNCHANGED watcherVars
            ELSE /\ dial' = [dial EXCEPT ![r] = "reserved"]
                 /\ edgeWG' = edgeWG + 1
                 /\ sessionWG' = [sessionWG EXCEPT ![s] = @ + 1]
    /\ UNCHANGED <<tableVars, sessionVars, handler, snap, stale, stream, gone,
                   leaseVars, byteVars>>

\* acquireStreamLease: the edge's slot, without waiting ...
AcquireGlobal(r) ==
    /\ dial[r] = "reserved"
    /\ IF globalSlots < MaxStreamsTotal
         THEN /\ globalSlots' = globalSlots + 1
              /\ dial' = [dial EXCEPT ![r] = "global"]
         ELSE /\ dial' = [dial EXCEPT ![r] = "unreserve"]
              /\ UNCHANGED globalSlots
    /\ UNCHANGED <<tableVars, sessionVars, handler, snap, stale, stream, gone,
                   sessionSlots, watcherVars, byteVars>>

\* Mutant: a full session keeps the edge's slot.
AcquireSession_NoRollback(r) ==
    /\ dial[r] = "global"
    /\ LET s == snap[r].session
       IN IF sessionSlots[s] < MaxStreams
            THEN /\ sessionSlots' = [sessionSlots EXCEPT ![s] = @ + 1]
                 /\ dial' = [dial EXCEPT ![r] = "leased"]
                 /\ stale' = IF routes[HostOf[r]] = snap[r] THEN stale ELSE stale \cup {r}
                 /\ UNCHANGED globalSlots
            ELSE /\ dial' = [dial EXCEPT ![r] = "unreserve"]
                 /\ UNCHANGED <<globalSlots, sessionSlots, stale>>
    /\ UNCHANGED <<tableVars, sessionVars, handler, snap, stream, gone,
                   watcherVars, byteVars>>

\* ... and the session's; a full session gives the edge's slot back.
AcquireSession(r) ==
    /\ dial[r] = "global"
    /\ LET s == snap[r].session
       IN IF sessionSlots[s] < MaxStreams
            THEN /\ sessionSlots' = [sessionSlots EXCEPT ![s] = @ + 1]
                 /\ dial' = [dial EXCEPT ![r] = "leased"]
                 /\ stale' = IF routes[HostOf[r]] = snap[r] THEN stale ELSE stale \cup {r}
                 /\ UNCHANGED globalSlots
            ELSE /\ globalSlots' = globalSlots - 1
                 /\ dial' = [dial EXCEPT ![r] = "unreserve"]
                 /\ UNCHANGED <<sessionSlots, stale>>
    /\ UNCHANGED <<tableVars, sessionVars, handler, snap, stream, gone,
                   watcherVars, byteVars>>

\* Mutant: the captured route is used without a second look.
Recheck_Skipped(r) ==
    /\ dial[r] = "leased"
    /\ dial' = [dial EXCEPT ![r] = "current"]
    /\ UNCHANGED <<tableVars, sessionVars, handler, snap, stale, stream, gone,
                   leaseVars, watcherVars, byteVars>>

\* The captured Route must still be the one in the table, by identity.
Recheck(r) ==
    /\ dial[r] = "leased"
    /\ dial' = [dial EXCEPT ![r] =
                  IF routes[HostOf[r]] = snap[r] THEN "current" ELSE "unlease"]
    /\ UNCHANGED <<tableVars, sessionVars, handler, snap, stale, stream, gone,
                   leaseVars, watcherVars, byteVars>>

\* OpenStream returns a stream; newLeasedConn starts its watcher, which owns
\* lease and watcher reservation from here on.
OpenStream(r) ==
    /\ dial[r] = "current" /\ snap[r].session \notin closed
    /\ dial' = [dial EXCEPT ![r] = "watching"]
    /\ stream' = [stream EXCEPT ![r] = "open"]
    /\ UNCHANGED <<tableVars, sessionVars, handler, snap, stale, gone, leaseVars,
                   watcherVars, byteVars>>

\* The session is closed, the open timed out, or the visitor left.
OpenFails(r) ==
    /\ dial[r] = "current"
    /\ dial' = [dial EXCEPT ![r] = "unlease"]
    /\ UNCHANGED <<tableVars, sessionVars, handler, snap, stale, stream, gone,
                   leaseVars, watcherVars, byteVars>>

\* streamLease.release.
release(r) ==
    /\ sessionSlots' = [sessionSlots EXCEPT ![snap[r].session] = @ - 1]
    /\ globalSlots' = globalSlots - 1

\* releaseStreamWatcher.
releaseStreamWatcher(r) ==
    /\ sessionWG' = [sessionWG EXCEPT ![snap[r].session] = @ - 1]
    /\ edgeWG' = edgeWG - 1

\* The deferred calls of a dial that got no stream, last first: the lease ...
UnwindLease(r) ==
    /\ dial[r] = "unlease"
    /\ release(r)
    /\ dial' = [dial EXCEPT ![r] = "unreserve"]
    /\ UNCHANGED <<tableVars, sessionVars, handler, snap, stale, stream, gone,
                   watcherVars, byteVars>>

\* ... and the watcher.
UnwindWatcher(r) ==
    /\ dial[r] = "unreserve"
    /\ releaseStreamWatcher(r)
    /\ dial' = [dial EXCEPT ![r] = "failed"]
    /\ UNCHANGED <<tableVars, sessionVars, handler, snap, stale, stream, gone,
                   leaseVars, byteVars>>

-----------------------------------------------------------------------------
(* The leased stream and its watcher                                       *)

\* Read or Write moves a byte on the stream, also while Close is under way ...
Transfer(r) ==
    /\ stream[r] \in {"open", "closing"} /\ passed[r] < MaxBytes
    /\ passed' = [passed EXCEPT ![r] = @ + 1]
    /\ UNCHANGED <<tableVars, sessionVars, handler, dial, snap, stale, stream, gone,
                   leaseVars, watcherVars, counted, finalized, late, traffic>>

\* ... and adds it to the counter afterwards, whatever has happened since.
Count(r) ==
    /\ counted[r] < passed[r]
    /\ counted' = [counted EXCEPT ![r] = @ + 1]
    /\ late' = [late EXCEPT ![r] = IF r \in finalized THEN @ + 1 ELSE @]
    /\ UNCHANGED <<tableVars, sessionVars, handler, dial, snap, stale, stream, gone,
                   leaseVars, watcherVars, passed, finalized, traffic>>

\* Mutant: the watcher follows the dial's context, which outlives the request.
Abort_DialContext(r) ==
    /\ dial[r] = "watching" /\ stream[r] = "open" /\ handler[r] = "proxying"
    /\ stream' = [stream EXCEPT ![r] = "closing"]
    /\ UNCHANGED <<tableVars, sessionVars, handler, dial, snap, stale, gone,
                   leaseVars, watcherVars, byteVars>>

\* Abort: the watcher has seen the context canceled, or writing the name
\* prefix, a Read or a Write failed.
Abort(r) ==
    /\ dial[r] = "watching" /\ stream[r] = "open"
    /\ stream' = [stream EXCEPT ![r] = "closing"]
    /\ UNCHANGED <<tableVars, sessionVars, handler, dial, snap, stale, gone, leaseVars,
                   watcherVars, byteVars>>

\* The transport makes the stream Done: it was closed on this side, or its
\* session ended.
StreamDone(r) ==
    /\ \/ stream[r] = "closing"
       \/ stream[r] = "open" /\ snap[r].session \in closed
    /\ stream' = [stream EXCEPT ![r] = "done"]
    /\ UNCHANGED <<tableVars, sessionVars, handler, dial, snap, stale, gone, leaseVars,
                   watcherVars, byteVars>>

\* Mutant: the watcher reports the totals again.
Finalize_Twice(r) ==
    /\ dial[r] = "watching" /\ stream[r] = "done"
    /\ traffic' = traffic + counted[r]
    /\ finalized' = finalized \cup {r}
    /\ dial' = [dial EXCEPT ![r] = "final"]
    /\ UNCHANGED <<tableVars, sessionVars, handler, snap, stale, stream, gone,
                   leaseVars, watcherVars, passed, counted, late>>

\* watch: after Done, the totals, unless Close has reported them ...
Finalize(r) ==
    /\ dial[r] = "watching" /\ stream[r] = "done"
    /\ finalize(r)
    /\ dial' = [dial EXCEPT ![r] = "final"]
    /\ UNCHANGED <<tableVars, sessionVars, handler, snap, stale, stream, gone,
                   leaseVars, watcherVars, passed, counted, late>>

\* ... then onDone: the lease ...
DoneLease(r) ==
    /\ dial[r] = "final"
    /\ release(r)
    /\ dial' = [dial EXCEPT ![r] = "unwatched"]
    /\ UNCHANGED <<tableVars, sessionVars, handler, snap, stale, stream, gone,
                   watcherVars, byteVars>>

\* ... and the watcher.
DoneWatcher(r) ==
    /\ dial[r] = "unwatched"
    /\ releaseStreamWatcher(r)
    /\ dial' = [dial EXCEPT ![r] = "over"]
    /\ UNCHANGED <<tableVars, sessionVars, handler, snap, stale, stream, gone,
                   leaseVars, byteVars>>

-----------------------------------------------------------------------------
Dial(r) ==
    \/ Snapshot(r) \/ reserveStreamWatcher(r)
    \/ AcquireGlobal(r) \/ AcquireSession(r) \/ Recheck(r)
    \/ OpenStream(r) \/ OpenFails(r) \/ UnwindLease(r) \/ UnwindWatcher(r)

Closes(r) == CloseConn(r) \/ EndHandler(r)

Moves(r) == Transfer(r) \/ Count(r)

Watch(r) ==
    \/ Abort(r) \/ StreamDone(r) \/ Finalize(r) \/ DoneLease(r) \/ DoneWatcher(r)

Drop(s) ==
    \/ StopAdmission(s) \/ DropRoutes(s) \/ JoinTransport(s) \/ ReleaseAuth(s)

Next ==
    \/ \E s \in Session :
         \/ CloseTransport(s) \/ PublishDone(s) \/ Drop(s)
         \/ \E h \in Host : InstallRoute(s, h) \/ RemoveRoute(s, h)
    \/ \E r \in Request :
         \/ Lookup(r) \/ ProxyFor(r) \/ Cancel(r) \/ Closes(r) \/ Moves(r)
         \/ Dial(r) \/ Watch(r)

Spec == Init /\ [][Next]_vars

\* Runnable goroutines run, OpenStream answers (it has a 10 s budget), a
\* canceled request is aborted by its watcher, a locally closed stream becomes
\* Done, and so does a closed session without streams.
Fairness ==
    /\ \A s \in Session : WF_vars(PublishDone(s)) /\ WF_vars(Drop(s))
    /\ \A r \in Request :
         /\ WF_vars(ProxyFor(r)) /\ WF_vars(Dial(r))
         /\ WF_vars(r \in gone /\ Abort(r)) /\ WF_vars(StreamDone(r))
         /\ WF_vars(Finalize(r) \/ DoneLease(r) \/ DoneWatcher(r))
         /\ WF_vars(r \in gone /\ CloseConn(r))
         /\ WF_vars((r \in gone \/ handler[r] = "closing") /\ EndHandler(r))

FairSpec == Spec /\ Fairness

-----------------------------------------------------------------------------
(* Properties                                                              *)

DialPC == {"none", "start", "snapped", "reserved", "global", "leased",
           "current", "unlease", "unreserve", "failed", "watching", "final",
           "unwatched", "over"}

\* Every variable has its type; slot counters stay within the channels'
\* capacities and the wait groups never go negative.
TypeOK ==
    /\ routes \in [Host -> Route \cup {None}]
    /\ installed \in 0..MaxRoutes
    /\ proxies \subseteq Host
    /\ closed \subseteq Session /\ done \subseteq Session
    /\ streamsClosing \subseteq Session /\ authSlots \subseteq Session
    /\ drop \in [Session -> {"serving", "stopped", "unrouted", "joined", "gone"}]
    /\ handler \in [Request -> {"idle", "routed", "proxying", "closing", "ended"}]
    /\ dial \in [Request -> DialPC]
    /\ snap \in [Request -> Route \cup {None}]
    /\ stream \in [Request -> {"none", "open", "closing", "done"}]
    /\ gone \subseteq Request /\ stale \subseteq Request /\ finalized \subseteq Request
    /\ globalSlots \in 0..MaxStreamsTotal
    /\ sessionSlots \in [Session -> 0..MaxStreams]
    /\ edgeWG \in Nat /\ sessionWG \in [Session -> Nat]
    /\ passed \in [Request -> 0..MaxBytes] /\ counted \in [Request -> 0..MaxBytes]
    /\ late \in [Request -> 0..MaxBytes] /\ traffic \in Nat

\* Dials and streams that own a lease, or only a watcher reservation.
Leased == {r \in Request :
             dial[r] \in {"leased", "current", "unlease", "watching", "final"}}
Watched == {r \in Request :
             dial[r] \notin {"none", "start", "snapped", "failed", "over"}}
On(s) == {r \in Request : snap[r] # None /\ snap[r].session = s}

\* Every slot and every wait-group count has exactly one owner, on every path
\* through the dial and the watcher: nothing leaks and nothing is returned
\* twice, whichever check or race ends the dial.
SlotsOwned ==
    /\ globalSlots =
         Cardinality(Leased) + Cardinality({r \in Request : dial[r] = "global"})
    /\ edgeWG = Cardinality(Watched)
    /\ \A s \in Session :
         /\ sessionSlots[s] = Cardinality(Leased \cap On(s))
         /\ sessionWG[s] = Cardinality(Watched \cap On(s))

\* An authenticated slot goes back only when nothing of its session is left:
\* no stream, no lease, no watcher, and none can be added any more.
AuthSlotLast ==
    \A s \in Session \ authSlots :
       /\ s \in done /\ s \in streamsClosing
       /\ sessionWG[s] = 0 /\ sessionSlots[s] = 0
       /\ StreamsOf(s) = {}

\* A route that was replaced or removed before the dial had its lease is never
\* used: neither its old session nor the host's new one gets the request.
StaleNeverOpens == \A r \in stale : stream[r] = "none"

\* What each connection reported, or would report now: its counters without what
\* was added to them after the report.
Totals == [r \in Request |-> counted[r] - late[r]]

\* When no watcher is left, the traffic store has every byte that was counted
\* by the time its connection was reported, once: no connection is left out, and
\* none is added twice when Close and the watcher race to report it.  A byte that
\* a Read or Write counts after the report is in no total.
TrafficComplete ==
    edgeWG = 0 => traffic = MapThenSumSet(LAMBDA r : Totals[r], Request)

\* Every slot, reservation and authenticated slot has one owner, and goes back
\* in the order that keeps the bounds true.
SlotsSound == TypeOK /\ SlotsOwned /\ AuthSlotLast

\* What is waited for: the authenticated slots of closed sessions, the leases
\* of requests whose visitor is gone.
Owed ==
    {s \in Session : s \in closed /\ s \in authSlots}
      \cup {r \in Request : r \in gone /\ dial[r] \notin {"failed", "over"}}

\* Every slot comes back, a closed session's whatever its streams, dials and
\* visitors are doing, and a request's once its visitor is gone.  Each is owed
\* once, so that it is enough that there are moments when none is.
SlotsReturn == []<>(Owed = {})
=============================================================================
