------------------------------ MODULE EdgeRoutes ------------------------------
(***************************************************************************)
(* The edge's hostname table (internal/edge/edge.go): which session serves *)
(* which public hostname.  Each session has one handler goroutine that     *)
(* reads control lines and runs register, unregister and, at the end,      *)
(* dropSession.  The handlers share e.routes, e.sessions and the           *)
(* beam_active_tunnels gauge under e.mu; a session's own names and hosts   *)
(* are under sess.mu.  One action is one critical section, so that         *)
(* everything another goroutine may do between two of them can happen.     *)
(***************************************************************************)
EXTENDS Integers, FiniteSets

CONSTANTS
    Session,    \* session objects; a reconnect is a new member
    Name,       \* tunnel names
    Host,       \* public hostnames
    Slug,       \* org slugs
    None,       \* a model value: no route, nothing pending
    SlugOf,     \* Session -> Slug, from tokens.Resolve
    NameOf,     \* Host -> Name: the tunnel name a hostname spells
    Hostname,   \* Name -> Slug -> Host: naming.Hostname for the edge's shape
    Bound,      \* Slug -> SUBSET Host: hostnames the control plane may bind
    MaxTunnelsPerToken,     \* the per-slug cap; 0 switches it off
    MaxBuffered             \* lines still buffered when a transport dies

ASSUME FiniteSessions == IsFiniteSet(Session) /\ IsFiniteSet(Name)
ASSUME NoneIsNoRoute ==
    None \notin [session : Session, name : Name] /\ None \notin Host
ASSUME MapsTyped ==
    /\ SlugOf \in [Session -> Slug]
    /\ NameOf \in [Host -> Name]
    /\ Hostname \in [Name -> [Slug -> Host]]
    /\ Bound \in [Slug -> SUBSET Host]
ASSUME BoundsTyped == MaxTunnelsPerToken \in Nat /\ MaxBuffered \in Nat

\* A hostname spells one tunnel name: names are single labels and slugs carry
\* no hyphen (internal/naming), so no two names of a scope share a hostname.
ASSUME HostnameSpellsName ==
    \A n \in Name : \A g \in Slug :
        NameOf[Hostname[n][g]] = n /\ Hostname[n][g] \in Bound[g]

VARIABLES
    sessions,       \* e.sessions
    closed,         \* sess.transport.IsClosed(), per session
    buffered,       \* control lines a dead transport still has to deliver
    pc,             \* where each session's handler goroutine is
    req,            \* the handler's local name, hosts and primary host
    routes,         \* e.routes
    names,          \* sess.names
    hosts,          \* sess.hosts; {} is a missing entry
    activeTunnels,  \* the beam_active_tunnels gauge
    reply           \* the answer to the last line, if that was a register

vars == <<sessions, closed, buffered, pc, req, routes, names, hosts,
          activeTunnels, reply>>

Route == [session : Session, name : Name]

\* What register and unregister keep in locals between two critical sections.
Pending == [name : Name, hosts : SUBSET Host, primary : Host \cup {None}]

Reply == [code : {"registered", "name_taken", "over_limit"},
          name : Name, host : Host \cup {None}]

Init ==
    /\ sessions = {}
    /\ closed = [s \in Session |-> FALSE]
    /\ buffered = [s \in Session |-> 0]
    /\ pc = [s \in Session |-> "new"]
    /\ req = [s \in Session |-> None]
    /\ routes = [h \in Host |-> None]
    /\ names = [s \in Session |-> {}]
    /\ hosts = [s \in Session |-> [n \in Name |-> {}]]
    /\ activeTunnels = 0
    /\ reply = [s \in Session |-> None]

-----------------------------------------------------------------------------
(* Operators on the table.                                                 *)

RouteOf(s, n) == [session |-> s, name |-> n]

\* The hostname sets hostsForTunnel may return: the default host alone when
\* the control plane is absent or fails, else one host per bound slug and
\* custom domain.  Which of them are bound can change between two fetches.
hostsForTunnel(n, slug) ==
    {hs \in SUBSET {h \in Bound[slug] : NameOf[h] = n} : hs # {}}

\* The distinct tunnels of other sessions that hold one of the hosts hs.
Holders(s, hs) == {routes[h] : h \in {g \in hs :
                        routes[g] # None /\ routes[g].session # s}}

\* The tunnel names recorded for a slug's sessions, as <<session, name>> pairs,
\* when the session bookkeeping is nm.
TunnelsOf(slug, nm) == {t \in sessions \X Name :
                            SlugOf[t[1]] = slug /\ t[2] \in nm[t[1]]}

\* The tunnels that have at least one route.
RoutedTunnels == {routes[h] : h \in Host} \ {None}

\* sess.names and sess.hosts after the tunnels ts have been evicted.
NamesWithout(ts) ==
    [s \in Session |-> {n \in names[s] : RouteOf(s, n) \notin ts}]
HostsWithout(ts) ==
    [s \in Session |-> [n \in Name |->
        IF RouteOf(s, n) \in ts THEN {} ELSE hosts[s][n]]]

AtCap(slug, nm) ==
    /\ MaxTunnelsPerToken > 0
    /\ Cardinality(TunnelsOf(slug, nm)) >= MaxTunnelsPerToken

-----------------------------------------------------------------------------
(* The transport and the control loop.                                     *)

\* promoteAuthenticated: a session that passed hello enters e.sessions.
Promote(s) ==
    /\ pc[s] = "new"
    /\ sessions' = sessions \cup {s}
    /\ pc' = [pc EXCEPT ![s] = "serving"]
    /\ UNCHANGED <<closed, buffered, req, routes, names, hosts, activeTunnels,
                   reply>>

\* The transport dies: peer gone, network error, heartbeat timeout, a second
\* stream, a failed control write.  Lines already read into the handler's
\* bufio.Reader are still delivered to it afterwards.
TransportClosed(s) ==
    /\ pc[s] # "new" /\ ~closed[s]
    /\ closed' = [closed EXCEPT ![s] = TRUE]
    /\ \E k \in 0..MaxBuffered : buffered' = [buffered EXCEPT ![s] = k]
    /\ UNCHANGED <<sessions, pc, req, routes, names, hosts, activeTunnels,
                   reply>>

\* The handler reads a control line.
ReadLine(s) ==
    /\ pc[s] = "serving"
    /\ closed[s] => buffered[s] > 0
    /\ buffered' = [buffered EXCEPT ![s] = IF closed[s] THEN @ - 1 ELSE @]

\* A heartbeat, an unknown or malformed message, an invalid or too long name:
\* at most an error reply, no change to the table.
OtherLine(s) ==
    /\ ReadLine(s)
    /\ reply' = [reply EXCEPT ![s] = None]
    /\ UNCHANGED <<sessions, closed, pc, req, routes, names, hosts,
                   activeTunnels>>

-----------------------------------------------------------------------------
(* register                                                                *)

\* The hostname set and the primary host are fetched before e.mu is taken. The
\* primary is one of the hosts: a control plane that names a primary slug it
\* does not list is not modelled.
RegisterFetch(s, n) ==
    /\ ReadLine(s)
    /\ \E hs \in hostsForTunnel(n, SlugOf[s]) : \E p \in hs :
         req' = [req EXCEPT ![s] = [name |-> n, hosts |-> hs, primary |-> p]]
    /\ pc' = [pc EXCEPT ![s] = "register"]
    /\ reply' = [reply EXCEPT ![s] = None]
    /\ UNCHANGED <<sessions, closed, routes, names, hosts, activeTunnels>>

\* The end of register: the handler replies and reads the next line.  A write
\* that fails closes the transport, which TransportClosed may do at any time.
Answer(s, code, host) ==
    /\ pc' = [pc EXCEPT ![s] = "serving"]
    /\ req' = [req EXCEPT ![s] = None]
    /\ reply' = [reply EXCEPT ![s] =
                    [code |-> code, name |-> req[s].name, host |-> host]]

\* Idempotent re-registration: the freshly fetched primary is returned, the
\* routes stay those of the first registration.
RegisterAgain(s) ==
    /\ pc[s] = "register"
    /\ req[s].name \in names[s]
    /\ Answer(s, "registered", req[s].primary)
    /\ UNCHANGED <<sessions, closed, buffered, routes, names, hosts,
                   activeTunnels>>

\* Mutant: a host is taken over whether or not its holder is dead.
Reclaimable_Unchecked(s) ==
    pc[s] = "register" /\ req[s].name \notin names[s]

\* The holders of the requested hosts, when register gets past the conflict
\* check: all of them have a closed transport.
Reclaimable(s) ==
    /\ pc[s] = "register"
    /\ req[s].name \notin names[s]
    /\ \A t \in Holders(s, req[s].hosts) : closed[t.session]

RegisterTaken(s) ==
    /\ pc[s] = "register"
    /\ req[s].name \notin names[s]
    /\ \E t \in Holders(s, req[s].hosts) : ~closed[t.session]
    /\ Answer(s, "name_taken", None)
    /\ UNCHANGED <<sessions, closed, buffered, routes, names, hosts,
                   activeTunnels>>

\* The dead holders are evicted before the cap is checked; the early return
\* leaves the gauge as it was.
RegisterOverLimit(s) ==
    LET dead == Holders(s, req[s].hosts)
    IN  /\ Reclaimable(s)
        /\ AtCap(SlugOf[s], NamesWithout(dead))
        /\ routes' = [h \in Host |-> IF routes[h] \in dead THEN None ELSE routes[h]]
        /\ names' = NamesWithout(dead)
        /\ hosts' = HostsWithout(dead)
        /\ Answer(s, "over_limit", None)
        /\ UNCHANGED <<sessions, closed, buffered, activeTunnels>>

\* Mutant: only the overwritten hosts of a dead tunnel are taken from it; its
\* other hosts keep their routes.
RegisterCommit_StaleAliases(s) ==
    LET n == req[s].name
        dead == Holders(s, req[s].hosts)
    IN  /\ Reclaimable(s)
        /\ ~AtCap(SlugOf[s], NamesWithout(dead))
        /\ routes' = [h \in Host |-> IF h \in req[s].hosts THEN RouteOf(s, n)
                                     ELSE routes[h]]
        /\ names' = [NamesWithout(dead) EXCEPT ![s] = @ \cup {n}]
        /\ hosts' = [HostsWithout(dead) EXCEPT ![s][n] = req[s].hosts]
        /\ activeTunnels' = activeTunnels + 1 - Cardinality(dead)
        /\ Answer(s, "registered", req[s].primary)
        /\ UNCHANGED <<sessions, closed, buffered>>

RegisterCommit(s) ==
    LET n == req[s].name
        hs == req[s].hosts
        dead == Holders(s, hs)
    IN  /\ Reclaimable(s)
        /\ ~AtCap(SlugOf[s], NamesWithout(dead))
        /\ routes' = [h \in Host |-> IF h \in hs THEN RouteOf(s, n)
                                     ELSE IF routes[h] \in dead THEN None
                                     ELSE routes[h]]
        /\ names' = [NamesWithout(dead) EXCEPT ![s] = @ \cup {n}]
        /\ hosts' = [HostsWithout(dead) EXCEPT ![s][n] = hs]
        /\ activeTunnels' = activeTunnels + 1 - Cardinality(dead)
        /\ Answer(s, "registered", req[s].primary)
        /\ UNCHANGED <<sessions, closed, buffered>>

-----------------------------------------------------------------------------
(* unregister: three critical sections                                     *)

\* Under sess.mu: which hosts the name was registered under.
UnregisterSnapshot(s, n) ==
    /\ ReadLine(s)
    /\ req' = [req EXCEPT ![s] =
                 [name |-> n, primary |-> None,
                  hosts |-> IF hosts[s][n] = {} THEN {Hostname[n][SlugOf[s]]}
                            ELSE hosts[s][n]]]
    /\ pc' = [pc EXCEPT ![s] = "unregister"]
    /\ reply' = [reply EXCEPT ![s] = None]
    /\ UNCHANGED <<sessions, closed, routes, names, hosts, activeTunnels>>

\* The hosts of hs that still route to s.
OwnHosts(s, hs) == {h \in hs : routes[h] # None /\ routes[h].session = s}

\* Mutant: unregister counts one tunnel less even if it removed no route.
UnregisterRoutes_AlwaysCounts(s) ==
    LET own == OwnHosts(s, req[s].hosts)
    IN  /\ pc[s] = "unregister"
        /\ routes' = [h \in Host |-> IF h \in own THEN None ELSE routes[h]]
        /\ activeTunnels' = activeTunnels - 1
        /\ pc' = [pc EXCEPT ![s] = "forget"]
        /\ UNCHANGED <<sessions, closed, buffered, req, names, hosts, reply>>

\* Under e.mu: drop the routes that are still this session's own.
UnregisterRoutes(s) ==
    LET own == OwnHosts(s, req[s].hosts)
    IN  /\ pc[s] = "unregister"
        /\ routes' = [h \in Host |-> IF h \in own THEN None ELSE routes[h]]
        /\ activeTunnels' = activeTunnels - (IF own = {} THEN 0 ELSE 1)
        /\ pc' = [pc EXCEPT ![s] = "forget"]
        /\ UNCHANGED <<sessions, closed, buffered, req, names, hosts, reply>>

\* Under sess.mu again: forget the name.
UnregisterForget(s) ==
    /\ pc[s] = "forget"
    /\ names' = [names EXCEPT ![s] = @ \ {req[s].name}]
    /\ hosts' = [hosts EXCEPT ![s][req[s].name] = {}]
    /\ pc' = [pc EXCEPT ![s] = "serving"]
    /\ req' = [req EXCEPT ![s] = None]
    /\ UNCHANGED <<sessions, closed, buffered, routes, activeTunnels, reply>>

-----------------------------------------------------------------------------
(* The end of a session                                                    *)

\* Mutant: the handler returns without the deferred dropSession.
ControlEnded_NoDrop(s) ==
    /\ pc[s] = "serving"
    /\ buffered[s] = 0
    /\ closed' = [closed EXCEPT ![s] = TRUE]
    /\ pc' = [pc EXCEPT ![s] = "dropped"]
    /\ UNCHANGED <<sessions, buffered, req, routes, names, hosts,
                   activeTunnels, reply>>

\* proto.Read fails: end of stream on a live transport, or a dead one whose
\* buffered lines are used up.  The handler closes the transport itself.
ControlEnded(s) ==
    /\ pc[s] = "serving"
    /\ buffered[s] = 0
    /\ closed' = [closed EXCEPT ![s] = TRUE]
    /\ pc' = [pc EXCEPT ![s] = "drop"]
    /\ UNCHANGED <<sessions, buffered, req, routes, names, hosts,
                   activeTunnels, reply>>

\* dropSession's section under e.mu: everything that is still the session's.
DropSession(s) ==
    LET own == OwnHosts(s, Host)
    IN  /\ pc[s] = "drop"
        /\ sessions' = sessions \ {s}
        /\ routes' = [h \in Host |-> IF h \in own THEN None ELSE routes[h]]
        /\ activeTunnels' = activeTunnels - Cardinality({routes[h].name : h \in own})
        /\ pc' = [pc EXCEPT ![s] = "dropped"]
        /\ UNCHANGED <<closed, buffered, req, names, hosts, reply>>

-----------------------------------------------------------------------------
\* Every step of the session's handler goroutine.
Handler(s) ==
    \/ OtherLine(s)
    \/ \E n \in Name : RegisterFetch(s, n) \/ UnregisterSnapshot(s, n)
    \/ RegisterAgain(s) \/ RegisterTaken(s)
    \/ RegisterOverLimit(s) \/ RegisterCommit(s)
    \/ UnregisterRoutes(s) \/ UnregisterForget(s)
    \/ ControlEnded(s) \/ DropSession(s)

Next ==
    \E s \in Session : Promote(s) \/ TransportClosed(s) \/ Handler(s)

Spec == Init /\ [][Next]_vars

\* The Go scheduler runs every runnable goroutine, and each call a handler
\* makes returns: the hostname fetch has a 5 s timeout, a control write fails
\* once the transport is closed.
Fairness == \A s \in Session : WF_vars(Handler(s))

FairSpec == Spec /\ Fairness

-----------------------------------------------------------------------------
(* Properties                                                              *)

\* Every variable has its type.
TypeOK ==
    /\ sessions \subseteq Session
    /\ closed \in [Session -> BOOLEAN]
    /\ buffered \in [Session -> 0..MaxBuffered]
    /\ pc \in [Session -> {"new", "serving", "register", "unregister",
                           "forget", "drop", "dropped"}]
    /\ req \in [Session -> Pending \cup {None}]
    /\ routes \in [Host -> Route \cup {None}]
    /\ names \in [Session -> SUBSET Name]
    /\ hosts \in [Session -> [Name -> SUBSET Host]]
    /\ activeTunnels \in Int
    /\ reply \in [Session -> Reply \cup {None}]

\* A route never outlives what put it there: its session is still in
\* e.sessions and still records the name and that hostname, so unregister and
\* dropSession can find it.  (register, unregister and dropSession take e.mu
\* and sess.mu at different moments.)
RoutesOwned ==
    \A h \in Host : routes[h] # None =>
        /\ routes[h].session \in sessions
        /\ routes[h].name \in names[routes[h].session]
        /\ h \in hosts[routes[h].session][routes[h].name]

\* A handler between unregister's second and third critical section still
\* records a name whose routes are gone.
Forgetting(s, n) == pc[s] = "forget" /\ req[s].name = n

\* A registered tunnel answers on all of its hostnames or on none: reclaiming
\* one host of a dead tunnel takes the others with it, and no hostname of a
\* recorded tunnel is silently lost.
TunnelsWhole ==
    \A s \in sessions : \A n \in names[s] :
        ~Forgetting(s, n) => \A h \in hosts[s][n] : routes[h] = RouteOf(s, n)

\* The per-token cap holds over all sessions of the slug together, dead ones
\* that have not been dropped yet included.
SlugCap ==
    MaxTunnelsPerToken > 0 =>
        \A g \in Slug : Cardinality(TunnelsOf(g, names)) <= MaxTunnelsPerToken

\* beam_active_tunnels ("Number of currently registered tunnels.") is the
\* number of tunnels that have a route, through every displacement of a dead
\* session's tunnel and every late dropSession.
GaugeExact == activeTunnels = Cardinality(RoutedTunnels)

\* A hostname never moves away from a session whose transport is open unless
\* that session's own unregister gives it up: register reclaims dead holders
\* only, and unregister and dropSession touch nothing but their own routes.
OnlyOwnerGivesUp ==
    \A h \in Host :
        (routes[h] # None /\ routes'[h] # routes[h] /\ ~closed[routes[h].session])
            => routes'[h] = None /\ pc[routes[h].session] = "unregister"
NoSteal == [][OnlyOwnerGivesUp]_vars

\* What the request path sees of the table: who holds which host, who is dead
\* and who is gone for good.
Held == {<<h, routes[h].session>> : h \in {g \in Host : routes[g] # None}}
Dead == {s \in Session : closed[s]}
Dropped == {s \in Session : pc[s] = "dropped"}

\* Every critical section of register, unregister and dropSession is a step of
\* the table that the request path relies on, or invisible to it.
T == INSTANCE HostTable WITH held <- Held, dead <- Dead, dropped <- Dropped
ImplementsTable == T!Table

\* A session whose transport is dead leaves the table: its names are free for
\* its replacement without an operator.
DeadSessionsDropped ==
    \A s \in Session : (closed[s] /\ s \in sessions) ~> s \notin sessions

\* A name that register confirmed stays served for as long as its session's
\* handler is between lines and its transport is open: it still has the hosts
\* of its first registration, and each of them routes to it, whatever other
\* sessions register, displace or drop meanwhile.  (The host the reply names
\* may be a newer binding: register fetches it again and keeps the routes.)
ReplyRouted ==
    \A s \in Session :
        (/\ reply[s] # None /\ pc[s] = "serving" /\ ~closed[s]
         /\ reply[s].code = "registered")
            => LET n == reply[s].name
               IN  hosts[s][n] # {} /\ \A h \in hosts[s][n] : routes[h] = RouteOf(s, n)

\* The table is sound between any two critical sections of register,
\* unregister and dropSession: every route is owned by what put it there and
\* every recorded tunnel is whole.
TableSound == TypeOK /\ RoutesOwned /\ TunnelsWhole

\* What the table counts is what it holds: the slug's cap and the gauge.
CountsExact == GaugeExact /\ SlugCap
=============================================================================
