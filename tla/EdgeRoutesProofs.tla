--------------------------- MODULE EdgeRoutesProofs ---------------------------
(***************************************************************************)
(* Machine-checked proofs about the hostname table, for every number of    *)
(* sessions, names, hostnames and slugs and every cap: its invariants, the *)
(* cap and the gauge, and that it implements HostTable.                    *)
(***************************************************************************)
EXTENDS EdgeRoutes, FiniteSetTheorems, TLAPS

\* The handlers whose session is in e.sessions.
Active == {"serving", "register", "unregister", "forget", "drop"}

\* A handler's locals fit where it is: a register has fetched hosts that spell
\* its name, an unregister has every host that still routes to its tunnel, and
\* once those routes are gone none comes back before the name is forgotten.
HandlerLocals ==
    \A s \in Session :
        /\ pc[s] \in {"register", "unregister", "forget"} =>
             /\ req[s] \in Pending
             /\ \A h \in req[s].hosts : NameOf[h] = req[s].name
        /\ pc[s] = "register" => req[s].primary \in req[s].hosts
        /\ pc[s] = "unregister" =>
             \A h \in Host : routes[h] = RouteOf(s, req[s].name) => h \in req[s].hosts
        /\ pc[s] = "forget" =>
             \A h \in Host : routes[h] # RouteOf(s, req[s].name)

\* e.sessions holds exactly the sessions between promotion and dropSession, a
\* session records nothing before its promotion, and a handler reaches dropSession with its transport closed.
SessionPhases ==
    \A s \in Session :
        /\ s \in sessions <=> pc[s] \in Active
        /\ pc[s] = "new" => names[s] = {}
        /\ pc[s] \in {"drop", "dropped"} => closed[s]

\* Recorded hostnames spell the tunnel's name.
HostsSpellNames ==
    \A s \in Session : \A n \in Name : \A h \in hosts[s][n] : NameOf[h] = n

\* The inductive invariant.
IndInv ==
    /\ TypeOK
    /\ HandlerLocals
    /\ SessionPhases
    /\ HostsSpellNames
    /\ RoutesOwned
    /\ TunnelsWhole

-----------------------------------------------------------------------------
\* A route record determines its session and its name.
LEMMA RouteFields ==
    ASSUME NEW s \in Session, NEW n \in Name
    PROVE  /\ RouteOf(s, n) \in Route
           /\ RouteOf(s, n) # None
           /\ RouteOf(s, n).session = s
           /\ RouteOf(s, n).name = n
           /\ \A r \in Route : r = RouteOf(r.session, r.name)
  BY NoneIsNoRoute DEF RouteOf, Route

\* The empty table satisfies the inductive invariant.
LEMMA InitIndInv == Init => IndInv
  BY NoneIsNoRoute, MapsTyped, BoundsTyped
  DEF Init, IndInv, TypeOK, HandlerLocals, SessionPhases, HostsSpellNames,
      RoutesOwned, TunnelsWhole, Active, Pending, Reply, Forgetting

\* There are finitely many tunnels, so the sets the gauge is adjusted by have
\* a size.
LEMMA FiniteTunnels ==
    /\ IsFiniteSet(Route)
    /\ \A S \in SUBSET Route : IsFiniteSet(S) /\ Cardinality(S) \in Nat
    /\ \A S \in SUBSET Name : IsFiniteSet(S) /\ Cardinality(S) \in Nat
  <1> DEFINE f == [p \in Session \X Name |-> RouteOf(p[1], p[2])]
  <1>1. IsFiniteSet(Session \X Name)
    BY FiniteSessions, FS_Product
  <1>2. f \in Surjection(Session \X Name, Route)
    <2>1. f \in [Session \X Name -> Route]
      BY RouteFields
    <2>2. ASSUME NEW r \in Route
          PROVE  \E p \in Session \X Name : f[p] = r
      <3>1. r.session \in Session /\ r.name \in Name
        BY DEF Route
      <3>2. r = RouteOf(r.session, r.name)
        BY <3>1, RouteFields
      <3>3. f[<<r.session, r.name>>] = r
        BY <3>1, <3>2
      <3> QED
        BY <3>1, <3>3
    <2> QED
      BY <2>1, <2>2 DEF Surjection
  <1>3. IsFiniteSet(Route)
    BY <1>1, <1>2, FS_Surjection
  <1>4. ASSUME NEW S \in SUBSET Route
        PROVE  IsFiniteSet(S) /\ Cardinality(S) \in Nat
    BY <1>3, FS_Subset, FS_CardinalityType
  <1>5. ASSUME NEW S \in SUBSET Name
        PROVE  IsFiniteSet(S) /\ Cardinality(S) \in Nat
    BY FiniteSessions, FS_Subset, FS_CardinalityType
  <1> QED
    BY <1>3, <1>4, <1>5

\* The tunnels register may displace are tunnels, and not its own.
LEMMA HoldersAreRoutes ==
    ASSUME TypeOK, NEW s \in Session, NEW hs \in SUBSET Host
    PROVE  /\ Holders(s, hs) \in SUBSET Route
           /\ \A t \in Holders(s, hs) : t.session # s
           /\ \A h \in hs : routes[h] \in Holders(s, hs)
                            \/ routes[h] = None \/ routes[h].session = s
  BY DEF TypeOK, Holders, Route

-----------------------------------------------------------------------------
(* Steps that leave the table alone.                                       *)

\* Reading a line keeps the count of buffered lines in its range.
LEMMA ReadLineTyped ==
    ASSUME TypeOK, NEW s \in Session, ReadLine(s)
    PROVE  buffered' \in [Session -> 0..MaxBuffered]
  BY BoundsTyped DEF TypeOK, ReadLine

\* Answering a register keeps the handler's locals and the reply typed.
LEMMA AnswerTyped ==
    ASSUME TypeOK, NEW s \in Session, NEW code, NEW host,
           req[s] \in Pending,
           code \in {"registered", "name_taken", "over_limit"},
           host \in Host \cup {None},
           Answer(s, code, host)
    PROVE  /\ pc' \in [Session -> {"new", "serving", "register", "unregister",
                                   "forget", "drop", "dropped"}]
           /\ req' \in [Session -> Pending \cup {None}]
           /\ reply' \in [Session -> Reply \cup {None}]
  <1>1. [code |-> code, name |-> req[s].name, host |-> host] \in Reply
    BY DEF Pending, Reply
  <1> QED
    BY <1>1 DEF TypeOK, Answer

\* A promoted session starts without names or routes.
LEMMA PromoteStep ==
    ASSUME IndInv, NEW s \in Session, Promote(s)
    PROVE  IndInv'
  <1> USE DEF IndInv, Promote
  <1>1. TypeOK'
    BY BoundsTyped DEF TypeOK, Reply, Pending
  <1>2. HandlerLocals'
    BY DEF TypeOK, HandlerLocals
  <1>3. SessionPhases'
    BY DEF TypeOK, SessionPhases, Active
  <1>4. HostsSpellNames' /\ RoutesOwned'
    BY DEF HostsSpellNames, RoutesOwned
  <1>5. TunnelsWhole'
    BY DEF TypeOK, SessionPhases, TunnelsWhole, Forgetting
  <1> QED
    BY <1>1, <1>2, <1>3, <1>4, <1>5

\* A transport may die at any moment without disturbing the table.
LEMMA TransportClosedStep ==
    ASSUME IndInv, NEW s \in Session, TransportClosed(s)
    PROVE  IndInv'
  <1> USE DEF IndInv, TransportClosed
  <1>1. TypeOK'
    BY BoundsTyped DEF TypeOK, Reply, Pending
  <1>2. HandlerLocals'
    BY DEF TypeOK, HandlerLocals
  <1>3. SessionPhases'
    BY DEF TypeOK, SessionPhases, Active
  <1>4. HostsSpellNames' /\ RoutesOwned'
    BY DEF HostsSpellNames, RoutesOwned
  <1>5. TunnelsWhole'
    BY DEF TypeOK, SessionPhases, TunnelsWhole, Forgetting
  <1> QED
    BY <1>1, <1>2, <1>3, <1>4, <1>5

\* Pings, malformed lines and refused names change nothing but the buffer.
LEMMA OtherLineStep ==
    ASSUME IndInv, NEW s \in Session, OtherLine(s)
    PROVE  IndInv'
  <1> USE DEF IndInv, OtherLine, ReadLine
  <1>1. TypeOK'
    BY BoundsTyped DEF TypeOK, Reply, Pending
  <1>2. HandlerLocals'
    BY DEF TypeOK, HandlerLocals
  <1>3. SessionPhases'
    BY DEF TypeOK, SessionPhases, Active
  <1>4. HostsSpellNames' /\ RoutesOwned'
    BY DEF HostsSpellNames, RoutesOwned
  <1>5. TunnelsWhole'
    BY DEF TypeOK, SessionPhases, TunnelsWhole, Forgetting
  <1> QED
    BY <1>1, <1>2, <1>3, <1>4, <1>5

\* The fetched hosts all spell the requested name.
LEMMA RegisterFetchStep ==
    ASSUME IndInv, NEW s \in Session, NEW n \in Name, RegisterFetch(s, n)
    PROVE  IndInv'
  <1> USE DEF IndInv, RegisterFetch, ReadLine, hostsForTunnel
  <1>0. PICK hs \in hostsForTunnel(n, SlugOf[s]) : \E p \in hs :
            req' = [req EXCEPT ![s] = [name |-> n, hosts |-> hs, primary |-> p]]
    OBVIOUS
  <1>p. PICK p \in hs :
            req' = [req EXCEPT ![s] = [name |-> n, hosts |-> hs, primary |-> p]]
    BY <1>0
  <1>a. /\ [name |-> n, hosts |-> hs, primary |-> p] \in Pending
        /\ \A h \in hs : NameOf[h] = n
    BY MapsTyped DEF Pending
  <1>1. TypeOK'
    BY <1>p, <1>a, ReadLineTyped DEF TypeOK
  <1>2. HandlerLocals'
    BY <1>p, <1>a DEF TypeOK, HandlerLocals
  <1>3. SessionPhases'
    BY DEF TypeOK, SessionPhases, Active
  <1>4. HostsSpellNames' /\ RoutesOwned'
    BY DEF HostsSpellNames, RoutesOwned
  <1>5. TunnelsWhole'
    BY DEF TypeOK, SessionPhases, TunnelsWhole, Forgetting
  <1> QED
    BY <1>1, <1>2, <1>3, <1>4, <1>5

\* The idempotent register only answers.
LEMMA RegisterAgainStep ==
    ASSUME IndInv, NEW s \in Session, RegisterAgain(s)
    PROVE  IndInv'
  <1> USE DEF IndInv, RegisterAgain, Answer
  <1>a. req[s] \in Pending /\ req[s].primary \in Host \cup {None}
    BY DEF HandlerLocals, Pending
  <1>1. TypeOK'
    BY <1>a, AnswerTyped DEF TypeOK
  <1>2. HandlerLocals'
    BY DEF TypeOK, HandlerLocals
  <1>3. SessionPhases'
    BY DEF TypeOK, SessionPhases, Active
  <1>4. HostsSpellNames' /\ RoutesOwned'
    BY DEF HostsSpellNames, RoutesOwned
  <1>5. TunnelsWhole'
    BY DEF TypeOK, SessionPhases, TunnelsWhole, Forgetting
  <1> QED
    BY <1>1, <1>2, <1>3, <1>4, <1>5

\* A refused register only answers.
LEMMA RegisterTakenStep ==
    ASSUME IndInv, NEW s \in Session, RegisterTaken(s)
    PROVE  IndInv'
  <1> USE DEF IndInv, RegisterTaken, Answer
  <1>a. req[s] \in Pending
    BY DEF HandlerLocals
  <1>1. TypeOK'
    BY <1>a, AnswerTyped DEF TypeOK
  <1>2. HandlerLocals'
    BY DEF TypeOK, HandlerLocals
  <1>3. SessionPhases'
    BY DEF TypeOK, SessionPhases, Active
  <1>4. HostsSpellNames' /\ RoutesOwned'
    BY DEF HostsSpellNames, RoutesOwned
  <1>5. TunnelsWhole'
    BY DEF TypeOK, SessionPhases, TunnelsWhole, Forgetting
  <1> QED
    BY <1>1, <1>2, <1>3, <1>4, <1>5

\* The snapshot of unregister holds every host that routes to the tunnel.
LEMMA UnregisterSnapshotStep ==
    ASSUME IndInv, NEW s \in Session, NEW n \in Name, UnregisterSnapshot(s, n)
    PROVE  IndInv'
  <1> DEFINE hs == IF hosts[s][n] = {} THEN {Hostname[n][SlugOf[s]]}
                   ELSE hosts[s][n]
             local == [name |-> n, primary |-> None, hosts |-> hs]
  <1>1. hs \in SUBSET Host /\ \A h \in hs : NameOf[h] = n
    <2>1. SlugOf[s] \in Slug /\ Hostname[n][SlugOf[s]] \in Host
      BY MapsTyped
    <2>2. NameOf[Hostname[n][SlugOf[s]]] = n
      BY <2>1, HostnameSpellsName
    <2>3. hosts[s][n] \in SUBSET Host
      BY DEF IndInv, TypeOK
    <2> QED
      BY <2>1, <2>2, <2>3 DEF IndInv, HostsSpellNames
  <1>2. \A h \in Host : routes[h] = RouteOf(s, n) => h \in hs
    BY RouteFields DEF IndInv, RoutesOwned
  <1> HIDE DEF hs
  <1>3. local \in Pending /\ local.name = n /\ local.hosts = hs
    BY <1>1 DEF Pending
  <1>4. /\ pc[s] = "serving"
        /\ pc' = [pc EXCEPT ![s] = "unregister"]
        /\ req' = [req EXCEPT ![s] = local]
        /\ reply' = [reply EXCEPT ![s] = None]
        /\ UNCHANGED <<sessions, closed, routes, names, hosts, activeTunnels>>
    BY DEF UnregisterSnapshot, ReadLine, hs
  <1>5. buffered' \in [Session -> 0..MaxBuffered]
    BY ReadLineTyped DEF UnregisterSnapshot, IndInv
  <1> HIDE DEF local
  <1>6. TypeOK'
    BY <1>3, <1>4, <1>5 DEF IndInv, TypeOK
  <1>7. HandlerLocals'
    BY <1>1, <1>2, <1>3, <1>4 DEF IndInv, TypeOK, HandlerLocals
  <1>8. SessionPhases'
    BY <1>4 DEF IndInv, TypeOK, SessionPhases, Active
  <1>9. HostsSpellNames' /\ RoutesOwned'
    BY <1>4 DEF IndInv, HostsSpellNames, RoutesOwned
  <1>10. TunnelsWhole'
    BY <1>4 DEF IndInv, TypeOK, TunnelsWhole, Forgetting
  <1> QED
    BY <1>6, <1>7, <1>8, <1>9, <1>10 DEF IndInv

\* The end of the control loop leaves the table to dropSession.
LEMMA ControlEndedStep ==
    ASSUME IndInv, NEW s \in Session, ControlEnded(s)
    PROVE  IndInv'
  <1> USE DEF IndInv, ControlEnded
  <1>1. TypeOK'
    BY BoundsTyped DEF TypeOK, Reply, Pending
  <1>2. HandlerLocals'
    BY DEF TypeOK, HandlerLocals
  <1>3. SessionPhases'
    BY DEF TypeOK, SessionPhases, Active
  <1>4. HostsSpellNames' /\ RoutesOwned'
    BY DEF HostsSpellNames, RoutesOwned
  <1>5. TunnelsWhole'
    BY DEF TypeOK, SessionPhases, TunnelsWhole, Forgetting
  <1> QED
    BY <1>1, <1>2, <1>3, <1>4, <1>5

-----------------------------------------------------------------------------
(* Steps that take routes away.                                            *)

\* unregister removes every route of its tunnel and none of another.
LEMMA UnregisterRoutesStep ==
    ASSUME IndInv, NEW s \in Session, UnregisterRoutes(s)
    PROVE  IndInv'
  <1> DEFINE own == OwnHosts(s, req[s].hosts)
  <1>1. /\ req[s] \in Pending /\ req[s].name \in Name
        /\ \A h \in req[s].hosts : NameOf[h] = req[s].name
        /\ \A h \in Host : routes[h] = RouteOf(s, req[s].name) => h \in req[s].hosts
    BY DEF IndInv, HandlerLocals, UnregisterRoutes, Pending
  <1>2. \A h \in own : routes[h] # None /\ routes[h].session = s
    BY DEF OwnHosts
  <1>3. /\ pc[s] = "unregister"
        /\ pc' = [pc EXCEPT ![s] = "forget"]
        /\ routes' = [h \in Host |-> IF h \in own THEN None ELSE routes[h]]
        /\ activeTunnels' = activeTunnels - (IF own = {} THEN 0 ELSE 1)
        /\ UNCHANGED <<sessions, closed, buffered, req, names, hosts, reply>>
    BY DEF UnregisterRoutes
  <1>4. \A h \in Host : routes[h] = RouteOf(s, req[s].name) => h \in own
    BY <1>1, RouteFields DEF OwnHosts
  <1>5. \A h \in own : h \in Host /\ NameOf[h] = req[s].name
    BY <1>1 DEF OwnHosts, Pending
  <1> HIDE DEF own
  <1>6. TypeOK'
    BY <1>3 DEF IndInv, TypeOK
  <1>7. HandlerLocals'
    <2>1. \A t \in Session : \A h \in Host :
            pc'[t] \in {"unregister", "forget"} =>
                (routes'[h] = RouteOf(t, req[t].name) => routes[h] = RouteOf(t, req[t].name))
      BY <1>3, RouteFields DEF IndInv, TypeOK, HandlerLocals, Pending
    <2>2. \A h \in Host : routes'[h] # RouteOf(s, req[s].name)
      BY <1>1, <1>3, <1>4, RouteFields
    <2> QED
      BY <1>3, <2>1, <2>2 DEF IndInv, TypeOK, HandlerLocals
  <1>8. SessionPhases'
    BY <1>3 DEF IndInv, TypeOK, SessionPhases, Active
  <1>9. HostsSpellNames' /\ RoutesOwned'
    BY <1>3 DEF IndInv, TypeOK, HostsSpellNames, RoutesOwned
  <1>10. TunnelsWhole'
    <2> SUFFICES ASSUME NEW t \in sessions, NEW n \in names[t],
                        ~Forgetting(t, n)', NEW h \in hosts[t][n]
                 PROVE  routes'[h] = RouteOf(t, n)
      BY <1>3 DEF TunnelsWhole
    <2>1. t \in Session /\ n \in Name /\ h \in Host /\ NameOf[h] = n
      BY DEF IndInv, TypeOK, HostsSpellNames
    <2>2. ~Forgetting(t, n) /\ ~(t = s /\ n = req[s].name)
      BY <1>3, <2>1 DEF Forgetting, IndInv, TypeOK
    <2>3. routes[h] = RouteOf(t, n)
      BY <2>2 DEF IndInv, TunnelsWhole
    <2>4. h \notin own
      BY <1>2, <1>5, <2>1, <2>2, <2>3, RouteFields
    <2> QED
      BY <1>3, <2>1, <2>3, <2>4
  <1> QED
    BY <1>6, <1>7, <1>8, <1>9, <1>10 DEF IndInv

\* The forgotten name has no route left.
LEMMA UnregisterForgetStep ==
    ASSUME IndInv, NEW s \in Session, UnregisterForget(s)
    PROVE  IndInv'
  <1> DEFINE n == req[s].name
  <1>1. /\ n \in Name
        /\ \A h \in Host : routes[h] # RouteOf(s, n)
    BY DEF IndInv, HandlerLocals, UnregisterForget, Pending
  <1>2. /\ pc[s] = "forget"
        /\ pc' = [pc EXCEPT ![s] = "serving"]
        /\ req' = [req EXCEPT ![s] = None]
        /\ names' = [names EXCEPT ![s] = @ \ {n}]
        /\ hosts' = [hosts EXCEPT ![s][n] = {}]
        /\ UNCHANGED <<sessions, closed, buffered, routes, activeTunnels, reply>>
    BY DEF UnregisterForget
  <1> HIDE DEF n
  <1>3. TypeOK'
    BY <1>1, <1>2 DEF IndInv, TypeOK
  <1>4. HandlerLocals'
    BY <1>2 DEF IndInv, TypeOK, HandlerLocals
  <1>5. SessionPhases'
    BY <1>2 DEF IndInv, TypeOK, SessionPhases, Active
  <1>6. HostsSpellNames'
    BY <1>1, <1>2 DEF IndInv, TypeOK, HostsSpellNames
  <1>7. RoutesOwned'
    <2> SUFFICES ASSUME NEW h \in Host, routes[h] # None
                 PROVE  /\ routes[h].session \in sessions
                        /\ routes[h].name \in names'[routes[h].session]
                        /\ h \in hosts'[routes[h].session][routes[h].name]
      BY <1>2 DEF RoutesOwned
    <2>1. routes[h] \in Route
      BY DEF IndInv, TypeOK
    <2>2. ~(routes[h].session = s /\ routes[h].name = n)
      BY <1>1, <2>1, RouteFields
    <2> QED
      BY <1>1, <1>2, <2>1, <2>2 DEF IndInv, TypeOK, RoutesOwned, Route
  <1>8. TunnelsWhole'
    <2> SUFFICES ASSUME NEW t \in sessions, NEW m \in names'[t],
                        ~Forgetting(t, m)', NEW h \in hosts'[t][m]
                 PROVE  routes[h] = RouteOf(t, m)
      BY <1>2 DEF TunnelsWhole
    <2>1. t \in Session /\ m \in names[t] /\ h \in hosts[t][m] /\ ~(t = s /\ m = n)
      BY <1>1, <1>2 DEF IndInv, TypeOK
    <2>2. ~Forgetting(t, m)
      BY <1>2, <2>1 DEF Forgetting, IndInv, TypeOK, n
    <2> QED
      BY <2>1, <2>2 DEF IndInv, TunnelsWhole
  <1> QED
    BY <1>3, <1>4, <1>5, <1>6, <1>7, <1>8 DEF IndInv

\* dropSession leaves no route of the session behind.
LEMMA DropSessionStep ==
    ASSUME IndInv, NEW s \in Session, DropSession(s)
    PROVE  IndInv'
  <1> DEFINE own == OwnHosts(s, Host)
             gone == Cardinality({routes[h].name : h \in own})
  <1>1. gone \in Nat
    <2>1. \A h \in own : routes[h].name \in Name
      BY DEF IndInv, TypeOK, Route, OwnHosts
    <2>2. {routes[h].name : h \in own} \in SUBSET Name
      BY <2>1
    <2> QED
      BY <2>2, FiniteTunnels
  <1>2. \A h \in Host : h \in own <=> routes[h] # None /\ routes[h].session = s
    BY DEF OwnHosts
  <1>3. /\ pc[s] = "drop"
        /\ pc' = [pc EXCEPT ![s] = "dropped"]
        /\ sessions' = sessions \ {s}
        /\ routes' = [h \in Host |-> IF h \in own THEN None ELSE routes[h]]
        /\ activeTunnels' = activeTunnels - gone
        /\ UNCHANGED <<closed, buffered, req, names, hosts, reply>>
    BY DEF DropSession
  <1> HIDE DEF own, gone
  <1>4. TypeOK'
    BY <1>1, <1>3 DEF IndInv, TypeOK
  <1>5. HandlerLocals'
    <2>1. \A t \in Session : \A h \in Host :
            pc'[t] \in {"unregister", "forget"} =>
                (routes'[h] = RouteOf(t, req[t].name) => routes[h] = RouteOf(t, req[t].name))
      BY <1>3, RouteFields DEF IndInv, TypeOK, HandlerLocals, Pending
    <2> QED
      BY <1>3, <2>1 DEF IndInv, TypeOK, HandlerLocals
  <1>6. SessionPhases'
    BY <1>3 DEF IndInv, TypeOK, SessionPhases, Active
  <1>7. HostsSpellNames' /\ RoutesOwned'
    BY <1>2, <1>3 DEF IndInv, TypeOK, HostsSpellNames, RoutesOwned
  <1>8. TunnelsWhole'
    <2> SUFFICES ASSUME NEW t \in sessions, t # s, NEW n \in names[t],
                        ~Forgetting(t, n)', NEW h \in hosts[t][n]
                 PROVE  routes'[h] = RouteOf(t, n)
      BY <1>3 DEF TunnelsWhole
    <2>1. t \in Session /\ n \in Name /\ h \in Host
      BY DEF IndInv, TypeOK
    <2>2. ~Forgetting(t, n)
      BY <1>3, <2>1 DEF Forgetting, IndInv, TypeOK
    <2>3. routes[h] = RouteOf(t, n)
      BY <2>2 DEF IndInv, TunnelsWhole
    <2> QED
      BY <1>2, <1>3, <2>1, <2>3, RouteFields
  <1> QED
    BY <1>4, <1>5, <1>6, <1>7, <1>8 DEF IndInv
-----------------------------------------------------------------------------
(* Steps of register that displace dead tunnels.                           *)

\* Evicting the holders of some hosts keeps types, and takes a tunnel's names,
\* hosts and routes together.
LEMMA Eviction ==
    ASSUME IndInv, NEW s \in Session, NEW dead \in SUBSET Route
    PROVE  /\ NamesWithout(dead) \in [Session -> SUBSET Name]
           /\ HostsWithout(dead) \in [Session -> [Name -> SUBSET Host]]
           /\ \A t \in Session, n \in Name :
                /\ n \in NamesWithout(dead)[t] <=>
                     n \in names[t] /\ RouteOf(t, n) \notin dead
                /\ HostsWithout(dead)[t][n] =
                     IF RouteOf(t, n) \in dead THEN {} ELSE hosts[t][n]
           /\ \A h \in Host : (routes[h] # None /\ routes[h] \notin dead) =>
                /\ routes[h].name \in NamesWithout(dead)[routes[h].session]
                /\ h \in HostsWithout(dead)[routes[h].session][routes[h].name]
  <1>1. /\ names \in [Session -> SUBSET Name]
        /\ hosts \in [Session -> [Name -> SUBSET Host]]
        /\ routes \in [Host -> Route \cup {None}]
    BY DEF IndInv, TypeOK
  <1>2. /\ NamesWithout(dead) \in [Session -> SUBSET Name]
        /\ HostsWithout(dead) \in [Session -> [Name -> SUBSET Host]]
    BY <1>1 DEF NamesWithout, HostsWithout
  <1>3. \A t \in Session, n \in Name :
          /\ n \in NamesWithout(dead)[t] <=>
               n \in names[t] /\ RouteOf(t, n) \notin dead
          /\ HostsWithout(dead)[t][n] =
               IF RouteOf(t, n) \in dead THEN {} ELSE hosts[t][n]
    BY <1>1 DEF NamesWithout, HostsWithout
  <1>4. ASSUME NEW h \in Host, routes[h] # None, routes[h] \notin dead
        PROVE  /\ routes[h].name \in NamesWithout(dead)[routes[h].session]
               /\ h \in HostsWithout(dead)[routes[h].session][routes[h].name]
    <2>1. routes[h] \in Route /\ routes[h].session \in Session /\ routes[h].name \in Name
      BY <1>1, <1>4 DEF Route
    <2>2. routes[h] = RouteOf(routes[h].session, routes[h].name)
      BY <2>1, RouteFields
    <2> QED
      BY <1>3, <1>4, <2>1, <2>2 DEF IndInv, RoutesOwned
  <1> QED
    BY <1>2, <1>3, <1>4

\* A register refused at the cap has only evicted dead tunnels, whole.
LEMMA RegisterOverLimitStep ==
    ASSUME IndInv, NEW s \in Session, RegisterOverLimit(s)
    PROVE  IndInv'
  <1> DEFINE dead == Holders(s, req[s].hosts)
  <1>1. req[s] \in Pending /\ req[s].hosts \in SUBSET Host
    BY DEF IndInv, HandlerLocals, RegisterOverLimit, Reclaimable, Pending
  <1>2. dead \in SUBSET Route
    BY <1>1, HoldersAreRoutes DEF IndInv
  <1>3. /\ pc[s] = "register"
        /\ pc' = [pc EXCEPT ![s] = "serving"]
        /\ req' = [req EXCEPT ![s] = None]
        /\ routes' = [h \in Host |-> IF routes[h] \in dead THEN None ELSE routes[h]]
        /\ names' = NamesWithout(dead)
        /\ hosts' = HostsWithout(dead)
        /\ UNCHANGED <<sessions, closed, buffered, activeTunnels>>
    BY DEF RegisterOverLimit, Reclaimable, Answer
  <1>4. reply' \in [Session -> Reply \cup {None}]
    BY <1>1, AnswerTyped DEF RegisterOverLimit, IndInv
  <1> HIDE DEF dead
  <1>5. TypeOK'
    BY <1>2, <1>3, <1>4, Eviction DEF IndInv, TypeOK
  <1>6. HandlerLocals'
    <2>1. \A t \in Session : \A h \in Host :
            pc'[t] \in {"unregister", "forget"} =>
                (routes'[h] = RouteOf(t, req[t].name) => routes[h] = RouteOf(t, req[t].name))
      BY <1>3, RouteFields DEF IndInv, TypeOK, HandlerLocals, Pending
    <2> QED
      BY <1>3, <2>1 DEF IndInv, TypeOK, HandlerLocals
  <1>7. SessionPhases'
    <2>1. \A t \in Session : names'[t] \subseteq names[t]
      BY <1>2, <1>3, Eviction DEF IndInv, TypeOK
    <2> QED
      BY <1>3, <2>1 DEF IndInv, TypeOK, SessionPhases, Active
  <1>8. HostsSpellNames'
    BY <1>2, <1>3, Eviction DEF IndInv, HostsSpellNames
  <1>9. RoutesOwned'
    BY <1>2, <1>3, Eviction DEF IndInv, TypeOK, RoutesOwned
  <1>10. TunnelsWhole'
    <2> SUFFICES ASSUME NEW t \in sessions, NEW n \in names'[t],
                        ~Forgetting(t, n)', NEW h \in hosts'[t][n]
                 PROVE  routes'[h] = RouteOf(t, n)
      BY <1>3 DEF TunnelsWhole
    <2>1. /\ t \in Session /\ n \in Name /\ n \in names[t]
          /\ RouteOf(t, n) \notin dead /\ h \in hosts[t][n] /\ h \in Host
      BY <1>2, <1>3, Eviction DEF IndInv, TypeOK
    <2>2. ~Forgetting(t, n)
      BY <1>3, <2>1 DEF Forgetting, IndInv, TypeOK
    <2> QED
      BY <1>3, <2>1, <2>2 DEF IndInv, TunnelsWhole
  <1> QED
    BY <1>5, <1>6, <1>7, <1>8, <1>9, <1>10 DEF IndInv

\* A committed register routes all of its hosts and no one else loses part of a tunnel.
LEMMA RegisterCommitStep ==
    ASSUME IndInv, NEW s \in Session, RegisterCommit(s)
    PROVE  IndInv'
  <1> DEFINE n == req[s].name
             hs == req[s].hosts
             dead == Holders(s, hs)
  <1>1. /\ req[s] \in Pending /\ n \in Name /\ hs \in SUBSET Host
        /\ req[s].primary \in Host \cup {None}
        /\ \A h \in hs : NameOf[h] = n
    BY DEF IndInv, HandlerLocals, RegisterCommit, Reclaimable, Pending
  <1>2. /\ dead \in SUBSET Route
        /\ \A t \in dead : t.session # s
        /\ \A h \in hs : routes[h] \in dead \/ routes[h] = None \/ routes[h].session = s
        /\ Cardinality(dead) \in Nat
    BY <1>1, HoldersAreRoutes, FiniteTunnels DEF IndInv
  <1>3. /\ pc[s] = "register" /\ n \notin names[s]
        /\ pc' = [pc EXCEPT ![s] = "serving"]
        /\ req' = [req EXCEPT ![s] = None]
        /\ routes' = [h \in Host |-> IF h \in hs THEN RouteOf(s, n)
                                     ELSE IF routes[h] \in dead THEN None
                                     ELSE routes[h]]
        /\ names' = [NamesWithout(dead) EXCEPT ![s] = @ \cup {n}]
        /\ hosts' = [HostsWithout(dead) EXCEPT ![s][n] = hs]
        /\ activeTunnels' = activeTunnels + 1 - Cardinality(dead)
        /\ UNCHANGED <<sessions, closed, buffered>>
    BY DEF RegisterCommit, Reclaimable, Answer
  <1>4. reply' \in [Session -> Reply \cup {None}]
    BY <1>1, AnswerTyped DEF RegisterCommit, IndInv
  <1> HIDE DEF n, hs, dead
  <1>5. /\ names' \in [Session -> SUBSET Name]
        /\ hosts' \in [Session -> [Name -> SUBSET Host]]
        /\ \A t \in Session, m \in Name :
             /\ m \in names'[t] <=> \/ t = s /\ m = n
                                    \/ m \in names[t] /\ RouteOf(t, m) \notin dead
             /\ hosts'[t][m] = IF t = s /\ m = n THEN hs
                               ELSE IF RouteOf(t, m) \in dead THEN {}
                               ELSE hosts[t][m]
    BY <1>1, <1>2, <1>3, Eviction
  <1>6. RouteOf(s, n) \in Route /\ RouteOf(s, n) # None
    BY <1>1, RouteFields
  <1>7. TypeOK'
    BY <1>2, <1>3, <1>4, <1>5, <1>6 DEF IndInv, TypeOK
  <1>8. HandlerLocals'
    <2>1. \A t \in Session : \A h \in Host :
            pc'[t] \in {"unregister", "forget"} =>
                (routes'[h] = RouteOf(t, req[t].name) => routes[h] = RouteOf(t, req[t].name))
      BY <1>1, <1>3, RouteFields DEF IndInv, TypeOK, HandlerLocals, Pending
    <2> QED
      BY <1>3, <2>1 DEF IndInv, TypeOK, HandlerLocals
  <1>9. SessionPhases'
    BY <1>2, <1>3, <1>5 DEF IndInv, TypeOK, SessionPhases, Active
  <1>10. HostsSpellNames'
    BY <1>1, <1>5 DEF IndInv, HostsSpellNames
  <1>11. RoutesOwned'
    <2> SUFFICES ASSUME NEW h \in Host, routes'[h] # None
                 PROVE  /\ routes'[h].session \in sessions
                        /\ routes'[h].name \in names'[routes'[h].session]
                        /\ h \in hosts'[routes'[h].session][routes'[h].name]
      BY <1>3 DEF RoutesOwned
    <2>1. CASE h \in hs
      <3>1. routes'[h] = RouteOf(s, n) /\ s \in sessions
        BY <1>3, <2>1 DEF IndInv, SessionPhases, Active
      <3> QED
        BY <1>1, <1>5, <2>1, <3>1, RouteFields
    <2>2. CASE h \notin hs
      <3>1. routes'[h] = routes[h] /\ routes[h] # None /\ routes[h] \notin dead
        BY <1>3, <2>2
      <3>2. routes[h].session \in Session /\ routes[h].name \in Name
        BY <3>1 DEF IndInv, TypeOK, Route
      <3>3. routes[h] = RouteOf(routes[h].session, routes[h].name)
        <4>1. routes[h] \in Route
          BY <3>1 DEF IndInv, TypeOK
        <4> QED
          BY <3>2, <4>1, RouteFields
      <3>4. ~(routes[h].session = s /\ routes[h].name = n)
        BY <1>3, <3>1 DEF IndInv, RoutesOwned
      <3> QED
        BY <1>5, <3>1, <3>2, <3>3, <3>4 DEF IndInv, RoutesOwned
    <2> QED
      BY <2>1, <2>2
  <1>12. TunnelsWhole'
    <2> SUFFICES ASSUME NEW t \in sessions, NEW m \in names'[t],
                        ~Forgetting(t, m)', NEW h \in hosts'[t][m]
                 PROVE  routes'[h] = RouteOf(t, m)
      BY <1>3 DEF TunnelsWhole
    <2>1. t \in Session /\ m \in Name
      BY <1>5 DEF IndInv, TypeOK
    <2>2. CASE t = s /\ m = n
      BY <1>1, <1>3, <1>5, <2>1, <2>2
    <2>3. CASE ~(t = s /\ m = n)
      <3>1. /\ m \in names[t] /\ RouteOf(t, m) \notin dead
            /\ h \in hosts[t][m] /\ h \in Host /\ NameOf[h] = m
        BY <1>5, <2>1, <2>3 DEF IndInv, TypeOK, HostsSpellNames
      <3>2. ~Forgetting(t, m)
        BY <1>3, <2>1 DEF Forgetting, IndInv, TypeOK
      <3>3. routes[h] = RouteOf(t, m)
        BY <3>1, <3>2 DEF IndInv, TunnelsWhole
      <3>4. h \notin hs
        BY <1>1, <1>2, <2>1, <2>3, <3>1, <3>3, RouteFields
      <3> QED
        BY <1>3, <3>1, <3>3, <3>4
    <2> QED
      BY <2>2, <2>3
  <1> QED
    BY <1>7, <1>8, <1>9, <1>10, <1>11, <1>12 DEF IndInv

-----------------------------------------------------------------------------
(* The theorems.                                                           *)

\* Every step preserves the inductive invariant.
LEMMA NextIndInv == IndInv /\ [Next]_vars => IndInv'
  <1> SUFFICES ASSUME IndInv, [Next]_vars PROVE IndInv'
    OBVIOUS
  <1>1. CASE UNCHANGED vars
    BY <1>1 DEF vars, IndInv, TypeOK, HandlerLocals, SessionPhases,
        HostsSpellNames, RoutesOwned, TunnelsWhole, Forgetting
  <1>2. ASSUME NEW s \in Session, Promote(s) \/ TransportClosed(s)
        PROVE  IndInv'
    BY <1>2, PromoteStep, TransportClosedStep
  <1>3. ASSUME NEW s \in Session, Handler(s)
        PROVE  IndInv'
    <2>1. CASE OtherLine(s) \/ ControlEnded(s)
      BY <2>1, OtherLineStep, ControlEndedStep
    <2>2. CASE \E n \in Name : RegisterFetch(s, n) \/ UnregisterSnapshot(s, n)
      BY <2>2, RegisterFetchStep, UnregisterSnapshotStep
    <2>3. CASE RegisterAgain(s) \/ RegisterTaken(s)
      BY <2>3, RegisterAgainStep, RegisterTakenStep
    <2>4. CASE RegisterOverLimit(s) \/ RegisterCommit(s)
      BY <2>4, RegisterOverLimitStep, RegisterCommitStep
    <2>5. CASE UnregisterRoutes(s) \/ UnregisterForget(s) \/ DropSession(s)
      BY <2>5, UnregisterRoutesStep, UnregisterForgetStep, DropSessionStep
    <2> QED
      BY <1>3, <2>1, <2>2, <2>3, <2>4, <2>5 DEF Handler
  <1> QED
    BY <1>1, <1>2, <1>3 DEF Next

\* The inductive invariant holds in every reachable state.
THEOREM IndInvHolds == Spec => []IndInv
  BY InitIndInv, NextIndInv, PTL DEF Spec

\* Every variable of the table keeps its type.
THEOREM TypeCorrect == Spec => []TypeOK
  BY IndInvHolds, PTL DEF IndInv

\* A route never outlives its session's membership in e.sessions or the
\* session's own record of it, whatever register, unregister and dropSession
\* interleave.
THEOREM RoutesOwnedHolds == Spec => []RoutesOwned
  BY IndInvHolds, PTL DEF IndInv

\* A recorded tunnel answers on all of its hostnames, outside the last section
\* of its own unregister.
THEOREM TunnelsWholeHolds == Spec => []TunnelsWhole
  BY IndInvHolds, PTL DEF IndInv

\* No interleaving takes a hostname from a session whose transport is open,
\* except that session's own unregister.
THEOREM NoStealHolds == Spec => NoSteal
  <1>1. IndInv /\ [Next]_vars => [OnlyOwnerGivesUp]_vars
    <2> SUFFICES ASSUME IndInv, Next, NEW h \in Host,
                        routes[h] # None, routes'[h] # routes[h],
                        ~closed[routes[h].session]
                 PROVE  routes'[h] = None /\ pc[routes[h].session] = "unregister"
      BY DEF OnlyOwnerGivesUp
    <2> DEFINE owner == routes[h].session
    <2>0. routes[h] \in Route /\ owner \in Session /\ routes[h].name \in Name
      BY DEF IndInv, TypeOK, Route
    <2>1. PICK s \in Session : Promote(s) \/ TransportClosed(s) \/ Handler(s)
      BY DEF Next
    <2>2. \/ UnregisterRoutes(s) \/ DropSession(s)
          \/ RegisterOverLimit(s) \/ RegisterCommit(s)
      BY <2>1 DEF Promote, TransportClosed, Handler, OtherLine, RegisterFetch,
          UnregisterSnapshot, RegisterAgain, RegisterTaken, UnregisterForget,
          ControlEnded
    <2>3. CASE UnregisterRoutes(s)
      BY <2>3 DEF UnregisterRoutes, OwnHosts
    <2>4. CASE DropSession(s)
      BY <2>4 DEF DropSession, OwnHosts, IndInv, SessionPhases
    <2>5. CASE RegisterOverLimit(s)
      BY <2>5 DEF RegisterOverLimit, Reclaimable
    <2>6. CASE RegisterCommit(s)
      <3>1. /\ req[s].name \notin names[s]
            /\ \A t \in Holders(s, req[s].hosts) : closed[t.session]
            /\ req[s].hosts \in SUBSET Host
            /\ \A g \in req[s].hosts : NameOf[g] = req[s].name
        BY <2>6 DEF RegisterCommit, Reclaimable, IndInv, HandlerLocals, Pending
      <3>2. routes[h] \notin Holders(s, req[s].hosts)
        BY <3>1
      <3>3. h \in req[s].hosts
        BY <2>6, <3>2 DEF RegisterCommit
      <3>4. owner = s
        BY <3>1, <3>2, <3>3, HoldersAreRoutes DEF IndInv
      <3>5. routes[h].name \in names[s] /\ h \in hosts[s][routes[h].name]
        BY <3>4 DEF IndInv, RoutesOwned
      <3>6. routes[h].name = req[s].name
        BY <2>0, <3>1, <3>3, <3>5 DEF IndInv, HostsSpellNames
      <3> QED
        BY <3>1, <3>5, <3>6
    <2> QED
      BY <2>2, <2>3, <2>4, <2>5, <2>6
  <1> QED
    BY <1>1, IndInvHolds, PTL DEF Spec, NoSteal

\* Between any two critical sections of register, unregister and dropSession
\* the table is sound: every route is owned and every recorded tunnel whole,
\* for any number of sessions, names and hosts.
THEOREM TableSoundHolds == Spec => []TableSound
  BY TypeCorrect, RoutesOwnedHolds, TunnelsWholeHolds, PTL DEF TableSound

-----------------------------------------------------------------------------
(* What register confirmed.                                                *)

\* A recorded name has at least the host register answered with.
NamesHosted == \A s \in Session : \A n \in names[s] : hosts[s][n] # {}

\* The answer to a register is forgotten with the next line, and as long as it
\* stands on an open transport its name is recorded.
Answered ==
    \A s \in Session :
        /\ pc[s] \in {"new", "register", "unregister", "forget"} => reply[s] = None
        /\ (reply[s] # None /\ reply[s].code = "registered" /\ ~closed[s]
              /\ pc[s] = "serving")
             => reply[s].name \in names[s]

\* Steps that leave the names and hosts alone and answer nothing.
LEMMA SilentAnswered ==
    ASSUME IndInv, NamesHosted, Answered, NEW s \in Session,
           \/ Promote(s) \/ TransportClosed(s) \/ OtherLine(s)
           \/ \E n \in Name : RegisterFetch(s, n) \/ UnregisterSnapshot(s, n)
           \/ UnregisterRoutes(s) \/ ControlEnded(s) \/ DropSession(s)
    PROVE  NamesHosted' /\ Answered'
  <1>1. /\ UNCHANGED <<names, hosts>>
        /\ \A t \in Session : closed[t] => closed'[t]
        /\ \A t \in Session : t # s => pc'[t] = pc[t] /\ reply'[t] = reply[t]
    BY DEF Promote, TransportClosed, OtherLine, RegisterFetch, UnregisterSnapshot,
           UnregisterRoutes, ControlEnded, DropSession, IndInv, TypeOK
  <1>2. \/ reply'[s] = None
        \/ reply'[s] = reply[s] /\ pc'[s] \notin {"new", "register", "unregister", "forget"}
             /\ (pc'[s] = "serving" => pc[s] \in {"serving", "new"})
        \/ reply'[s] = reply[s] /\ pc[s] = "unregister" /\ pc'[s] = "forget"
        \/ reply'[s] = reply[s] /\ pc'[s] = pc[s]
    BY DEF Promote, TransportClosed, OtherLine, RegisterFetch, UnregisterSnapshot,
           UnregisterRoutes, ControlEnded, DropSession, IndInv, TypeOK
  <1>3. NamesHosted'
    BY <1>1 DEF NamesHosted
  <1>4. QED
    BY <1>1, <1>2, <1>3 DEF Answered

\* Answers that record nothing new: a name register knows already, a name or a
\* cap that refuses it.
LEMMA RefusalAnswered ==
    ASSUME IndInv, NamesHosted, Answered, NEW s \in Session,
           RegisterAgain(s) \/ RegisterTaken(s)
    PROVE  NamesHosted' /\ Answered'
  <1>1. req[s] \in Pending
    BY DEF RegisterAgain, RegisterTaken, IndInv, HandlerLocals
  <1>2. /\ UNCHANGED <<names, hosts, closed>>
        /\ \A t \in Session : t # s => pc'[t] = pc[t] /\ reply'[t] = reply[t]
        /\ pc'[s] = "serving" /\ reply'[s].name = req[s].name
        /\ reply'[s].code = "registered" => req[s].name \in names[s]
    BY DEF RegisterAgain, RegisterTaken, Answer, IndInv, TypeOK
  <1>3. QED
    BY <1>2 DEF NamesHosted, Answered

\* unregister forgets a name that no standing answer confirms.
LEMMA ForgetAnswered ==
    ASSUME IndInv, NamesHosted, Answered, NEW s \in Session, UnregisterForget(s)
    PROVE  NamesHosted' /\ Answered'
  <1>1. req[s].name \in Name
    BY DEF UnregisterForget, IndInv, HandlerLocals, Pending
  <1>2. NamesHosted'
    BY <1>1 DEF UnregisterForget, IndInv, TypeOK, NamesHosted
  <1>3. Answered'
    BY <1>1 DEF UnregisterForget, IndInv, TypeOK, Answered
  <1>4. QED
    BY <1>2, <1>3

\* Register evicts tunnels of closed sessions only, so no standing answer
\* loses its name.
LEMMA EvictAnswered ==
    ASSUME IndInv, NamesHosted, Answered, NEW s \in Session,
           RegisterOverLimit(s) \/ RegisterCommit(s)
    PROVE  NamesHosted' /\ Answered'
  <1> DEFINE n == req[s].name
             hs == req[s].hosts
             dead == Holders(s, hs)
  <1>1. /\ n \in Name /\ hs \in SUBSET Host /\ hs # {}
        /\ pc[s] = "register" /\ \A t \in dead : closed[t.session]
    BY DEF RegisterOverLimit, RegisterCommit, Reclaimable, IndInv, HandlerLocals,
           Pending
  <1>2. dead \in SUBSET Route
    BY <1>1, HoldersAreRoutes DEF IndInv
  <1>3. /\ UNCHANGED closed /\ pc' = [pc EXCEPT ![s] = "serving"]
        /\ reply'[s].name = n
        /\ \A t \in Session : t # s => reply'[t] = reply[t]
    BY DEF RegisterOverLimit, RegisterCommit, Answer, IndInv, TypeOK
  <1>4. CASE RegisterOverLimit(s)
    <2>1. /\ names' = NamesWithout(dead) /\ hosts' = HostsWithout(dead)
          /\ reply'[s].code = "over_limit"
      BY <1>4 DEF RegisterOverLimit, Answer, IndInv, TypeOK
    <2> HIDE DEF n, hs, dead
    <2>2. \A t \in Session, m \in Name :
            /\ m \in names'[t] <=> m \in names[t] /\ RouteOf(t, m) \notin dead
            /\ hosts'[t][m] = IF RouteOf(t, m) \in dead THEN {} ELSE hosts[t][m]
      BY <1>2, <2>1, Eviction
    <2>3. \A t \in Session : names'[t] \subseteq Name /\ names[t] \subseteq Name
      BY <1>2, <2>1, Eviction DEF IndInv, TypeOK
    <2>4. NamesHosted'
      BY <2>2, <2>3 DEF NamesHosted
    <2>5. ASSUME NEW t \in Session, ~closed[t] PROVE names'[t] = names[t]
      <3>1. \A m \in Name : RouteOf(t, m) \notin dead
        BY <1>1, <2>5, RouteFields
      <3>2. QED
        BY <2>2, <2>3, <3>1
    <2>6. Answered'
      BY <1>1, <1>3, <2>1, <2>5 DEF Answered, IndInv, TypeOK
    <2>7. QED
      BY <2>4, <2>6
  <1>5. CASE RegisterCommit(s)
    <2>1. /\ names' = [NamesWithout(dead) EXCEPT ![s] = @ \cup {n}]
          /\ hosts' = [HostsWithout(dead) EXCEPT ![s][n] = hs]
      BY <1>5 DEF RegisterCommit
    <2> HIDE DEF n, hs, dead
    <2>2. \A t \in Session, m \in Name :
            /\ m \in names'[t] <=> \/ t = s /\ m = n
                                   \/ m \in names[t] /\ RouteOf(t, m) \notin dead
            /\ hosts'[t][m] = IF t = s /\ m = n THEN hs
                              ELSE IF RouteOf(t, m) \in dead THEN {} ELSE hosts[t][m]
      BY <1>1, <1>2, <2>1, Eviction
    <2>3. \A t \in Session : names'[t] \subseteq Name /\ names[t] \subseteq Name
      BY <1>1, <1>2, <2>1, Eviction DEF IndInv, TypeOK
    <2>4. NamesHosted'
      BY <1>1, <2>2, <2>3 DEF NamesHosted
    <2>5. ASSUME NEW t \in Session, ~closed[t] PROVE names[t] \subseteq names'[t]
      BY <1>1, <2>2, <2>3, <2>5, RouteFields
    <2>6. n \in names'[s]
      BY <1>1, <2>2
    <2>7. Answered'
      BY <1>1, <1>3, <2>5, <2>6 DEF Answered, IndInv, TypeOK
    <2>8. QED
      BY <2>4, <2>7
  <1>6. QED
    BY <1>4, <1>5

\* Every step keeps what register confirmed.
LEMMA NextAnswered ==
    IndInv /\ NamesHosted /\ Answered /\ [Next]_vars => NamesHosted' /\ Answered'
  <1> SUFFICES ASSUME IndInv, NamesHosted, Answered, [Next]_vars
               PROVE  NamesHosted' /\ Answered'
    OBVIOUS
  <1>1. CASE UNCHANGED vars
    BY <1>1 DEF vars, NamesHosted, Answered
  <1>2. CASE Next
    BY <1>2, SilentAnswered, RefusalAnswered, ForgetAnswered, EvictAnswered
    DEF Next, Handler
  <1>3. QED
    BY <1>1, <1>2

\* A name that register confirmed is served on every host of its registration
\* until its own session ends or unregisters it, whatever other sessions
\* register, displace or drop meanwhile.
THEOREM ReplyRoutedHolds == Spec => []ReplyRouted
  <1>1. Init => NamesHosted /\ Answered
    BY DEF Init, NamesHosted, Answered
  <1>2. IndInv /\ NamesHosted /\ Answered => ReplyRouted
    BY DEF IndInv, TypeOK, SessionPhases, Active, TunnelsWhole, Forgetting,
           NamesHosted, Answered, ReplyRouted
  <1>3. QED
    BY <1>1, <1>2, NextAnswered, IndInvHolds, PTL DEF Spec

-----------------------------------------------------------------------------
(* The per-token cap.                                                      *)

\* A slug has finitely many tunnels.
LEMMA FiniteScope ==
    ASSUME NEW S \in SUBSET (Session \X Name)
    PROVE  IsFiniteSet(S) /\ Cardinality(S) \in Nat
  BY FiniteSessions, FS_Product, FS_Subset, FS_CardinalityType

\* A step after which every recorded tunnel was recorded before keeps the cap.
LEMMA CapKept ==
    ASSUME IndInv, SlugCap,
           \A t \in sessions' : /\ t \in Session /\ names'[t] \subseteq names[t]
                                /\ t \in sessions \/ names[t] = {}
    PROVE  SlugCap'
  <1> SUFFICES ASSUME MaxTunnelsPerToken > 0, NEW g \in Slug
               PROVE  Cardinality(TunnelsOf(g, names)') <= MaxTunnelsPerToken
    BY DEF SlugCap
  <1>1. TunnelsOf(g, names)' \subseteq TunnelsOf(g, names)
    BY DEF TunnelsOf
  <1>2. TunnelsOf(g, names) \in SUBSET (Session \X Name)
    BY DEF TunnelsOf, IndInv, TypeOK
  <1>3. TunnelsOf(g, names)' \in SUBSET (Session \X Name)
    BY <1>1, <1>2
  <1>4. Cardinality(TunnelsOf(g, names)') <= Cardinality(TunnelsOf(g, names))
    BY <1>1, <1>2, FiniteScope, FS_Subset
  <1>5. QED
    BY <1>2, <1>3, <1>4, FiniteScope, BoundsTyped DEF SlugCap

\* register counts the tunnels that are left after the eviction, and adds one.
LEMMA CommitKeepsCap ==
    ASSUME IndInv, SlugCap, NEW s \in Session, RegisterCommit(s)
    PROVE  SlugCap'
  <1> DEFINE n == req[s].name
             dead == Holders(s, req[s].hosts)
             left(g) == TunnelsOf(g, NamesWithout(dead))
  <1>1. n \in Name /\ req[s].hosts \in SUBSET Host
    BY DEF RegisterCommit, Reclaimable, IndInv, HandlerLocals, Pending
  <1>2. dead \in SUBSET Route
    BY <1>1, HoldersAreRoutes DEF IndInv
  <1>3. /\ ~AtCap(SlugOf[s], NamesWithout(dead)) /\ sessions' = sessions
        /\ names' = [NamesWithout(dead) EXCEPT ![s] = @ \cup {n}]
    BY DEF RegisterCommit
  <1>4. /\ NamesWithout(dead) \in [Session -> SUBSET Name]
        /\ \A t \in Session : NamesWithout(dead)[t] \subseteq names[t]
    BY <1>2, Eviction DEF IndInv, TypeOK
  <1>5. sessions \subseteq Session
    BY DEF IndInv, TypeOK
  <1> SUFFICES ASSUME MaxTunnelsPerToken > 0, NEW g \in Slug
               PROVE  Cardinality(TunnelsOf(g, names)') <= MaxTunnelsPerToken
    BY DEF SlugCap
  <1> HIDE DEF n, dead
  <1>6. /\ left(g) \subseteq TunnelsOf(g, names)
        /\ TunnelsOf(g, names) \in SUBSET (Session \X Name)
    BY <1>4, <1>5 DEF TunnelsOf
  <1>7. left(g) \in SUBSET (Session \X Name)
    BY <1>6
  <1>8. CASE g = SlugOf[s]
    <2>1. TunnelsOf(g, names)' \subseteq left(g) \cup {<<s, n>>}
      BY <1>1, <1>3, <1>4, <1>5 DEF TunnelsOf
    <2>2. Cardinality(left(g)) < MaxTunnelsPerToken
      BY <1>3, <1>7, <1>8, FiniteScope, BoundsTyped DEF AtCap
    <2>3. /\ IsFiniteSet(left(g) \cup {<<s, n>>})
          /\ Cardinality(left(g) \cup {<<s, n>>}) <= Cardinality(left(g)) + 1
      <3>1. IsFiniteSet(left(g)) /\ Cardinality(left(g)) \in Nat
        BY <1>7, FiniteScope
      <3>2. /\ IsFiniteSet(left(g) \cup {<<s, n>>})
            /\ Cardinality(left(g) \cup {<<s, n>>}) =
                 IF <<s, n>> \in left(g) THEN Cardinality(left(g))
                                         ELSE Cardinality(left(g)) + 1
        BY <3>1, FS_AddElement, Zenon
      <3>3. QED
        BY <3>1, <3>2
    <2>4. /\ IsFiniteSet(TunnelsOf(g, names)')
          /\ Cardinality(TunnelsOf(g, names)') <= Cardinality(left(g) \cup {<<s, n>>})
      BY <2>1, <2>3, FS_Subset
    <2>5. /\ Cardinality(left(g)) \in Nat
          /\ Cardinality(left(g) \cup {<<s, n>>}) \in Nat
          /\ Cardinality(TunnelsOf(g, names)') \in Nat
      BY <1>7, <2>3, <2>4, FiniteScope, FS_CardinalityType
    <2>6. QED
      BY <2>2, <2>3, <2>4, <2>5, BoundsTyped
  <1>9. CASE g # SlugOf[s]
    <2>1. TunnelsOf(g, names)' \subseteq TunnelsOf(g, names)
      BY <1>3, <1>4, <1>5, <1>9 DEF TunnelsOf
    <2>2. TunnelsOf(g, names)' \in SUBSET (Session \X Name)
      BY <1>6, <2>1
    <2>3. Cardinality(TunnelsOf(g, names)') <= Cardinality(TunnelsOf(g, names))
      BY <1>6, <2>1, FiniteScope, FS_Subset
    <2>4. QED
      BY <1>6, <2>2, <2>3, FiniteScope, BoundsTyped DEF SlugCap
  <1>10. QED
    BY <1>8, <1>9

\* Every step keeps the cap.
LEMMA NextCap == IndInv /\ SlugCap /\ [Next]_vars => SlugCap'
  <1> SUFFICES ASSUME IndInv, SlugCap, [Next]_vars PROVE SlugCap'
    OBVIOUS
  <1>0. sessions \subseteq Session
    BY DEF IndInv, TypeOK
  <1>1. CASE UNCHANGED vars
    BY <1>0, <1>1, CapKept DEF vars
  <1>2. ASSUME NEW s \in Session,
               Promote(s) \/ TransportClosed(s) \/ Handler(s), ~RegisterCommit(s)
        PROVE  SlugCap'
    <2>1. CASE RegisterOverLimit(s)
      <3> DEFINE dead == Holders(s, req[s].hosts)
      <3>1. dead \in SUBSET Route
        BY <2>1, HoldersAreRoutes
        DEF RegisterOverLimit, Reclaimable, IndInv, HandlerLocals, Pending
      <3>2. \A t \in Session : NamesWithout(dead)[t] \subseteq names[t]
        BY <3>1, Eviction DEF IndInv, TypeOK
      <3>3. QED
        BY <1>0, <2>1, <3>2, CapKept DEF RegisterOverLimit
    <2>2. CASE UnregisterForget(s)
      <3>1. \A t \in Session : names'[t] \subseteq names[t]
        BY <2>2 DEF UnregisterForget, IndInv, TypeOK
      <3>2. QED
        BY <1>0, <2>2, <3>1, CapKept DEF UnregisterForget
    <2>3. CASE Promote(s)
      BY <1>0, <2>3, CapKept DEF Promote, IndInv, SessionPhases
    <2>4. CASE ~RegisterOverLimit(s) /\ ~UnregisterForget(s) /\ ~Promote(s)
      <3>1. names' = names /\ sessions' \subseteq sessions
        BY <1>2, <2>4
        DEF TransportClosed, Handler, OtherLine, RegisterFetch, UnregisterSnapshot,
            RegisterAgain, RegisterTaken, UnregisterRoutes, ControlEnded, DropSession
      <3>2. QED
        BY <1>0, <3>1, CapKept
    <2>5. QED
      BY <2>1, <2>2, <2>3, <2>4
  <1>3. QED
    BY <1>1, <1>2, CommitKeepsCap DEF Next

\* No interleaving of registrations, displacements and drops takes a slug over
\* its tunnel cap, counted over all of its sessions.
THEOREM SlugCapHolds == Spec => []SlugCap
  <1>1. Init => SlugCap
    <2> SUFFICES ASSUME Init, NEW g \in Slug, MaxTunnelsPerToken > 0
                 PROVE  Cardinality(TunnelsOf(g, names)) <= MaxTunnelsPerToken
      BY DEF SlugCap
    <2>1. TunnelsOf(g, names) = {}
      BY DEF Init, TunnelsOf
    <2>2. QED
      BY <2>1, FS_EmptySet, BoundsTyped
  <1>2. QED
    BY <1>1, NextCap, IndInvHolds, PTL DEF Spec

-----------------------------------------------------------------------------
(* The gauge.                                                              *)

\* How far beam_active_tunnels is above the number of tunnels with a route.
Drift == activeTunnels - Cardinality(RoutedTunnels)

\* The routed tunnels are tunnels.
LEMMA RoutedAreRoutes ==
    ASSUME TypeOK
    PROVE  RoutedTunnels \in SUBSET Route /\ Cardinality(RoutedTunnels) \in Nat
  <1>1. RoutedTunnels \in SUBSET Route
    BY DEF RoutedTunnels, TypeOK
  <1>2. QED
    BY <1>1, FiniteTunnels

\* Taking tunnels away takes as many from the count.
LEMMA CountRemoved ==
    ASSUME NEW R \in SUBSET Route, NEW D \in SUBSET R
    PROVE  Cardinality(R \ D) = Cardinality(R) - Cardinality(D)
  <1>1. R \cap D = D
    OBVIOUS
  <1>2. QED
    BY <1>1, FiniteTunnels, FS_Difference

\* A tunnel that had no route adds one.
LEMMA CountAdded ==
    ASSUME NEW R \in SUBSET Route, NEW r, r \notin R
    PROVE  Cardinality(R \cup {r}) = Cardinality(R) + 1
  BY FiniteTunnels, FS_AddElement

\* register counts itself, less the dead tunnels it displaced.
LEMMA CommitCounts ==
    ASSUME IndInv, NEW s \in Session, RegisterCommit(s)
    PROVE  Drift' = Drift
  <1> DEFINE n == req[s].name
             hs == req[s].hosts
             dead == Holders(s, hs)
             R == RoutedTunnels
             r == RouteOf(s, n)
  <1>1. /\ n \in Name /\ hs \in SUBSET Host /\ hs # {} /\ n \notin names[s]
        /\ \A h \in hs : NameOf[h] = n
    BY DEF IndInv, HandlerLocals, RegisterCommit, Reclaimable, Pending
  <1>2. /\ dead \in SUBSET Route
        /\ \A h \in hs : routes[h] \in dead \/ routes[h] = None \/ routes[h].session = s
    BY <1>1, HoldersAreRoutes DEF IndInv
  <1>3. /\ routes' = [h \in Host |-> IF h \in hs THEN r
                                     ELSE IF routes[h] \in dead THEN None
                                     ELSE routes[h]]
        /\ activeTunnels' = activeTunnels + 1 - Cardinality(dead)
    BY DEF RegisterCommit
  <1>4. \A h \in hs : routes[h] \in dead \/ routes[h] = None
    <2> SUFFICES ASSUME NEW h \in hs, routes[h] # None, routes[h].session = s
                 PROVE  FALSE
      BY <1>2
    <2>1. routes[h].name \in names[s] /\ h \in hosts[s][routes[h].name]
      BY <1>1 DEF IndInv, RoutesOwned
    <2>2. routes[h].name \in Name
      BY <1>1 DEF IndInv, TypeOK, Route
    <2>3. NameOf[h] = routes[h].name
      BY <2>1, <2>2 DEF IndInv, HostsSpellNames
    <2>4. QED
      BY <1>1, <2>1, <2>3
  <1>5. dead \in SUBSET R
    BY <1>1 DEF Holders, RoutedTunnels
  <1>6. r \in Route /\ r # None /\ r \notin R
    <2>1. r \in Route /\ r # None /\ r.session = s /\ r.name = n
      BY <1>1, RouteFields
    <2>2. ASSUME NEW h \in Host PROVE routes[h] # r
      BY <1>1, <2>1 DEF IndInv, RoutesOwned
    <2>3. QED
      BY <2>1, <2>2 DEF RoutedTunnels
  <1>7. R' = (R \ dead) \cup {r}
    <2> HIDE DEF n, hs, dead, r
    <2>1. ASSUME NEW x \in R' PROVE x \in (R \ dead) \cup {r}
      BY <1>3, <2>1 DEF RoutedTunnels
    <2>2. ASSUME NEW x \in (R \ dead) PROVE x \in R'
      <3>1. PICK h \in Host : routes[h] = x /\ x # None
        BY DEF RoutedTunnels
      <3>2. routes'[h] = x
        BY <1>3, <1>4, <3>1
      <3>3. QED
        BY <3>1, <3>2 DEF RoutedTunnels
    <2>3. r \in R'
      <3>1. PICK h \in hs : h \in Host
        BY <1>1
      <3>2. routes'[h] = r
        BY <1>3, <3>1
      <3>3. QED
        BY <1>6, <3>1, <3>2 DEF RoutedTunnels
    <2>4. QED
      BY <2>1, <2>2, <2>3
  <1>8. R \in SUBSET Route /\ Cardinality(R) \in Nat
    BY RoutedAreRoutes DEF IndInv
  <1> HIDE DEF n, hs, dead, r, R
  <1>9. Cardinality(R \ dead) = Cardinality(R) - Cardinality(dead)
    BY <1>5, <1>8, CountRemoved
  <1>10. Cardinality((R \ dead) \cup {r}) = Cardinality(R \ dead) + 1
    BY <1>6, <1>8, CountAdded
  <1>11. Cardinality(dead) \in Nat /\ activeTunnels \in Int
    BY <1>2, FiniteTunnels DEF IndInv, TypeOK
  <1>12. QED
    BY <1>3, <1>7, <1>8, <1>9, <1>10, <1>11 DEF Drift, R

\* A register refused at the cap has displaced dead tunnels and does not count
\* them off.
LEMMA OverLimitDrifts ==
    ASSUME IndInv, NEW s \in Session, RegisterOverLimit(s)
    PROVE  Drift' = Drift + Cardinality(Holders(s, req[s].hosts))
  <1> DEFINE dead == Holders(s, req[s].hosts)
             R == RoutedTunnels
  <1>1. req[s].hosts \in SUBSET Host
    BY DEF RegisterOverLimit, Reclaimable, IndInv, HandlerLocals, Pending
  <1>2. dead \in SUBSET R
    BY <1>1 DEF Holders, RoutedTunnels
  <1>3. /\ routes' = [h \in Host |-> IF routes[h] \in dead THEN None ELSE routes[h]]
        /\ activeTunnels' = activeTunnels
    BY DEF RegisterOverLimit
  <1> HIDE DEF dead
  <1>4. R' = R \ dead
    BY <1>3 DEF RoutedTunnels
  <1>5. R \in SUBSET Route /\ Cardinality(R) \in Nat
    BY RoutedAreRoutes DEF IndInv
  <1> HIDE DEF R
  <1>6. Cardinality(R \ dead) = Cardinality(R) - Cardinality(dead)
    BY <1>2, <1>5, CountRemoved
  <1>7. Cardinality(dead) \in Nat /\ activeTunnels \in Int
    BY <1>2, <1>5, FiniteTunnels DEF IndInv, TypeOK
  <1>8. QED
    BY <1>3, <1>4, <1>5, <1>6, <1>7 DEF Drift, R, dead

\* unregister counts its tunnel off if, and only if, it still had a route.
LEMMA UnregisterCounts ==
    ASSUME IndInv, NEW s \in Session, UnregisterRoutes(s)
    PROVE  Drift' = Drift
  <1> DEFINE n == req[s].name
             own == OwnHosts(s, req[s].hosts)
             R == RoutedTunnels
             r == RouteOf(s, n)
  <1>1. /\ n \in Name /\ req[s].hosts \in SUBSET Host
        /\ \A h \in req[s].hosts : NameOf[h] = n
        /\ \A h \in Host : routes[h] = r => h \in req[s].hosts
    BY DEF IndInv, HandlerLocals, UnregisterRoutes, Pending
  <1>2. /\ routes' = [h \in Host |-> IF h \in own THEN None ELSE routes[h]]
        /\ activeTunnels' = activeTunnels - (IF own = {} THEN 0 ELSE 1)
    BY DEF UnregisterRoutes
  <1>3. r \in Route /\ r # None /\ r.session = s
    BY <1>1, RouteFields
  <1>4. \A h \in Host : h \in own <=> routes[h] = r
    <2>1. ASSUME NEW h \in own PROVE routes[h] = r
      <3>1. h \in Host /\ NameOf[h] = n /\ routes[h] # None /\ routes[h].session = s
        BY <1>1 DEF OwnHosts
      <3>2. routes[h] \in Route /\ routes[h].name \in Name
        BY <3>1 DEF IndInv, TypeOK, Route
      <3>3. h \in hosts[s][routes[h].name]
        BY <3>1 DEF IndInv, RoutesOwned
      <3>4. routes[h].name = n
        BY <3>1, <3>2, <3>3 DEF IndInv, HostsSpellNames
      <3>5. QED
        BY <1>1, <3>1, <3>2, <3>4, RouteFields
    <2>2. ASSUME NEW h \in Host, routes[h] = r PROVE h \in own
      BY <1>1, <1>3, <2>2 DEF OwnHosts
    <2>3. QED
      BY <2>1, <2>2
  <1>5. own \subseteq Host
    BY <1>1 DEF OwnHosts
  <1>6. R \in SUBSET Route /\ Cardinality(R) \in Nat /\ activeTunnels \in Int
    BY RoutedAreRoutes DEF IndInv, TypeOK
  <1> HIDE DEF n, own, r
  <1>7. R' = R \ {r}
    BY <1>2, <1>4, <1>5 DEF RoutedTunnels
  <1>8. own = {} <=> r \notin R
    BY <1>3, <1>4, <1>5 DEF RoutedTunnels
  <1> HIDE DEF R
  <1>9. Cardinality(R \ {r}) = IF r \in R THEN Cardinality(R) - 1 ELSE Cardinality(R)
    BY <1>6, FiniteTunnels, FS_RemoveElement
  <1>10. QED
    BY <1>2, <1>6, <1>7, <1>8, <1>9 DEF Drift, R

\* dropSession counts off the distinct names it finds in the table.
LEMMA DropCounts ==
    ASSUME IndInv, NEW s \in Session, DropSession(s)
    PROVE  Drift' = Drift
  <1> DEFINE own == OwnHosts(s, Host)
             R == RoutedTunnels
             D == {r \in R : r.session = s}
             N == {routes[h].name : h \in own}
             f == [m \in N |-> RouteOf(s, m)]
  <1>1. /\ routes' = [h \in Host |-> IF h \in own THEN None ELSE routes[h]]
        /\ activeTunnels' = activeTunnels - Cardinality(N)
    BY DEF DropSession
  <1>2. \A h \in Host : h \in own <=> routes[h] # None /\ routes[h].session = s
    BY DEF OwnHosts
  <1>3. own \subseteq Host
    BY DEF OwnHosts
  <1>4. \A h \in own : /\ routes[h] \in Route /\ routes[h].name \in Name
                       /\ routes[h] = RouteOf(s, routes[h].name)
    <2> SUFFICES ASSUME NEW h \in own
                 PROVE  /\ routes[h] \in Route /\ routes[h].name \in Name
                        /\ routes[h] = RouteOf(s, routes[h].name)
      OBVIOUS
    <2>1. routes[h] \in Route /\ routes[h].session = s /\ routes[h].name \in Name
      BY <1>2, <1>3 DEF IndInv, TypeOK, Route
    <2>2. QED
      BY <2>1, RouteFields
  <1>5. R \in SUBSET Route /\ Cardinality(R) \in Nat /\ activeTunnels \in Int
    BY RoutedAreRoutes DEF IndInv, TypeOK
  <1> HIDE DEF own
  <1>6. N \in SUBSET Name
    BY <1>4
  <1>7. R' = R \ D
    BY <1>1, <1>2, <1>3 DEF RoutedTunnels
  <1>8. f \in Surjection(N, D)
    <2>1. ASSUME NEW m \in N PROVE f[m] \in D
      <3>1. PICK h \in own : m = routes[h].name
        OBVIOUS
      <3>2. f[m] = routes[h]
        BY <1>4, <3>1
      <3>3. QED
        BY <1>2, <1>3, <3>2 DEF RoutedTunnels
    <2>2. ASSUME NEW r \in D PROVE \E m \in N : f[m] = r
      <3>1. PICK h \in Host : routes[h] = r /\ r # None /\ r.session = s
        BY DEF RoutedTunnels
      <3>2. h \in own
        BY <1>2, <3>1
      <3>3. routes[h].name \in N /\ f[routes[h].name] = r
        BY <1>4, <3>1, <3>2
      <3>4. QED
        BY <3>3
    <2>3. f \in [N -> D]
      BY <2>1
    <2>4. QED
      BY <2>2, <2>3 DEF Surjection
  <1>9. f \in Injection(N, D)
    <2>1. f \in [N -> D]
      BY <1>8 DEF Surjection
    <2>2. ASSUME NEW a \in N, NEW b \in N, f[a] = f[b] PROVE a = b
      BY <1>6, <2>2, RouteFields
    <2>3. QED
      BY <2>1, <2>2 DEF Injection, IsInjective
  <1> HIDE DEF f, N, D
  <1>10. Cardinality(D) = Cardinality(N) /\ IsFiniteSet(N)
    BY <1>6, <1>8, <1>9, FiniteTunnels, FS_Surjection
  <1>11. D \in SUBSET R
    BY DEF D
  <1> HIDE DEF R
  <1>12. Cardinality(R \ D) = Cardinality(R) - Cardinality(D)
    BY <1>5, <1>11, CountRemoved
  <1>13. Cardinality(N) \in Nat
    BY <1>6, FiniteTunnels
  <1>14. QED
    BY <1>1, <1>5, <1>7, <1>10, <1>12, <1>13 DEF Drift, R

\* Every step keeps the drift, but a register that displaces dead tunnels and
\* is refused at the cap.
LEMMA NextDrift ==
    ASSUME IndInv, [Next]_vars
    PROVE  \/ Drift' = Drift
           \/ \E s \in Session :
                RegisterOverLimit(s)
                /\ Drift' = Drift + Cardinality(Holders(s, req[s].hosts))
  <1>1. CASE routes' = routes /\ activeTunnels' = activeTunnels
    BY <1>1 DEF Drift, RoutedTunnels
  <1>2. CASE ~(routes' = routes /\ activeTunnels' = activeTunnels)
    <2>1. PICK s \in Session : \/ UnregisterRoutes(s) \/ DropSession(s)
                               \/ RegisterOverLimit(s) \/ RegisterCommit(s)
      BY <1>2
      DEF vars, Next, Handler, Promote, TransportClosed, OtherLine, RegisterFetch,
          UnregisterSnapshot, RegisterAgain, RegisterTaken, UnregisterForget,
          ControlEnded
    <2>2. QED
      BY <2>1, CommitCounts, OverLimitDrifts, UnregisterCounts, DropCounts
  <1>3. QED
    BY <1>1, <1>2

\* The drift is a number, and a displacement does not lower it.
LEMMA DriftTyped ==
    ASSUME IndInv
    PROVE  /\ Drift \in Int
           /\ \A s \in Session : RegisterOverLimit(s) =>
                Cardinality(Holders(s, req[s].hosts)) \in Nat
  <1>1. Drift \in Int
    BY RoutedAreRoutes DEF Drift, IndInv, TypeOK
  <1>2. ASSUME NEW s \in Session, RegisterOverLimit(s)
        PROVE  Cardinality(Holders(s, req[s].hosts)) \in Nat
    <2>1. req[s].hosts \in SUBSET Host
      BY <1>2 DEF RegisterOverLimit, Reclaimable, IndInv, HandlerLocals, Pending
    <2>2. QED
      BY <2>1, HoldersAreRoutes, FiniteTunnels DEF IndInv
  <1>3. QED
    BY <1>1, <1>2

\* At the start the gauge is exact.
LEMMA InitDrift == Init => Drift = 0
  <1> SUFFICES ASSUME Init PROVE Drift = 0
    OBVIOUS
  <1>1. RoutedTunnels = {}
    BY DEF Init, RoutedTunnels
  <1>2. QED
    BY <1>1, FS_EmptySet DEF Init, Drift

\* beam_active_tunnels never shows fewer tunnels than have a route, whatever
\* late dropSession, unregister or displacement comes between: nothing is
\* counted off twice.
THEOREM GaugeNeverUnder == Spec => [](Drift >= 0)
  <1>1. Init => Drift >= 0
    BY InitDrift
  <1>2. IndInv /\ Drift >= 0 /\ [Next]_vars => (Drift >= 0)'
    BY NextDrift, DriftTyped
  <1>3. QED
    BY <1>1, <1>2, IndInvHolds, PTL DEF Spec

-----------------------------------------------------------------------------
(* The gauge is exact where no two slugs compete for a hostname.           *)

\* No hostname can be bound by two slugs.  (True of the subdomain and hyphen
\* shapes as long as no slug is a retained alias of another; not of the flat
\* shape, where naming.Hostname ignores the slug.)
ScopesDisjoint ==
    \A g1, g2 \in Slug : g1 # g2 => Bound[g1] \cap Bound[g2] = {}

\* The hosts a session has, and the hosts a register has fetched, are bound by
\* the session's slug.
HostsBound ==
    \A s \in Session :
        /\ \A n \in Name : hosts[s][n] \subseteq Bound[SlugOf[s]]
        /\ pc[s] = "register" => req[s].hosts \subseteq Bound[SlugOf[s]]

\* Every step keeps the hosts within the slug's bindings.
LEMMA NextBound == IndInv /\ HostsBound /\ [Next]_vars => HostsBound'
  <1> SUFFICES ASSUME IndInv, HostsBound, [Next]_vars PROVE HostsBound'
    OBVIOUS
  <1>1. CASE UNCHANGED vars
    BY <1>1 DEF vars, HostsBound
  <1>2. ASSUME NEW s \in Session,
               Promote(s) \/ TransportClosed(s) \/ Handler(s)
        PROVE  HostsBound'
    <2>1. CASE \E n \in Name : RegisterFetch(s, n)
      <3>1. PICK n \in Name : RegisterFetch(s, n)
        BY <2>1
      <3>2. PICK hs \in hostsForTunnel(n, SlugOf[s]) : \E p \in hs :
              req' = [req EXCEPT ![s] = [name |-> n, hosts |-> hs, primary |-> p]]
        BY <3>1 DEF RegisterFetch
      <3>3. hs \subseteq Bound[SlugOf[s]]
        BY DEF hostsForTunnel
      <3>4. /\ hosts' = hosts /\ req'[s].hosts = hs
            /\ \A t \in Session : t # s => pc'[t] = pc[t] /\ req'[t] = req[t]
        BY <3>1, <3>2 DEF RegisterFetch, IndInv, TypeOK
      <3>5. QED
        BY <3>3, <3>4 DEF HostsBound
    <2>2. CASE RegisterOverLimit(s) \/ RegisterCommit(s)
      <3> DEFINE n == req[s].name
                 dead == Holders(s, req[s].hosts)
      <3>1. /\ n \in Name /\ req[s].hosts \in SUBSET Host /\ pc[s] = "register"
        BY <2>2 DEF RegisterOverLimit, RegisterCommit, Reclaimable, IndInv,
                    HandlerLocals, Pending
      <3>2. dead \in SUBSET Route
        BY <3>1, HoldersAreRoutes DEF IndInv
      <3>3. /\ HostsWithout(dead) \in [Session -> [Name -> SUBSET Host]]
            /\ \A t \in Session, m \in Name : HostsWithout(dead)[t][m] \subseteq hosts[t][m]
        BY <3>2, Eviction
      <3>4. /\ pc' = [pc EXCEPT ![s] = "serving"] /\ req' = [req EXCEPT ![s] = None]
            /\ \/ hosts' = HostsWithout(dead)
               \/ hosts' = [HostsWithout(dead) EXCEPT ![s][n] = req[s].hosts]
        BY <2>2 DEF RegisterOverLimit, RegisterCommit, Answer
      <3> HIDE DEF n, dead
      <3>5. \A t \in Session, m \in Name :
              hosts'[t][m] \subseteq hosts[t][m]
              \/ (t = s /\ hosts'[t][m] = req[s].hosts)
        BY <3>1, <3>3, <3>4
      <3>6. QED
        BY <3>1, <3>4, <3>5 DEF HostsBound, IndInv, TypeOK
    <2>3. CASE UnregisterForget(s)
      <3>1. req[s].name \in Name
        BY <2>3 DEF UnregisterForget, IndInv, HandlerLocals, Pending
      <3>2. QED
        BY <2>3, <3>1 DEF UnregisterForget, HostsBound, IndInv, TypeOK
    <2>4. CASE /\ ~\E n \in Name : RegisterFetch(s, n)
               /\ ~RegisterOverLimit(s) /\ ~RegisterCommit(s) /\ ~UnregisterForget(s)
      <3>1. /\ hosts' = hosts
            /\ \A t \in Session : pc'[t] = "register" => pc[t] = "register" /\ req'[t] = req[t]
        BY <1>2, <2>4
        DEF Promote, TransportClosed, Handler, OtherLine, UnregisterSnapshot,
            RegisterAgain, RegisterTaken, UnregisterRoutes, ControlEnded, DropSession,
            Answer, IndInv, TypeOK
      <3>2. QED
        BY <3>1 DEF HostsBound
    <2>5. QED
      BY <2>1, <2>2, <2>3, <2>4
  <1>3. QED
    BY <1>1, <1>2 DEF Next

\* Where slugs do not share hostnames, a register that displaces a dead tunnel
\* is not refused at the cap: the displaced tunnel was one of its own slug's.
LEMMA NothingDisplacedAtCap ==
    ASSUME ScopesDisjoint, IndInv, HostsBound, SlugCap, NEW s \in Session,
           RegisterOverLimit(s)
    PROVE  Holders(s, req[s].hosts) = {}
  <1> DEFINE hs == req[s].hosts
             dead == Holders(s, hs)
             g == SlugOf[s]
  <1>1. /\ hs \in SUBSET Host /\ hs \subseteq Bound[g] /\ g \in Slug
        /\ AtCap(g, NamesWithout(dead))
    BY MapsTyped DEF RegisterOverLimit, Reclaimable, IndInv, HandlerLocals, Pending,
                     HostsBound
  <1>2. SUFFICES ASSUME NEW t \in dead PROVE FALSE
    OBVIOUS
  <1>3. PICK h \in hs : h \in Host /\ routes[h] = t /\ t # None
    BY <1>1 DEF Holders
  <1> DEFINE u == t.session
             m == t.name
  <1>4. /\ u \in sessions /\ m \in names[u] /\ h \in hosts[u][m]
        /\ u \in Session /\ m \in Name /\ t = RouteOf(u, m)
    <2>1. t \in Route /\ u \in Session /\ m \in Name
      BY <1>3 DEF IndInv, TypeOK, Route
    <2>2. t = RouteOf(u, m)
      BY <2>1, RouteFields
    <2>3. QED
      BY <1>3, <2>1, <2>2 DEF IndInv, RoutesOwned
  <1>5. SlugOf[u] = g
    <2>1. h \in Bound[SlugOf[u]] /\ SlugOf[u] \in Slug
      BY <1>4, MapsTyped DEF HostsBound
    <2>2. QED
      BY <1>1, <2>1 DEF ScopesDisjoint
  <1>6. dead \in SUBSET Route
    BY <1>1, HoldersAreRoutes DEF IndInv
  <1> DEFINE before == TunnelsOf(g, names)
             after == TunnelsOf(g, NamesWithout(dead))
  <1> HIDE DEF dead, g, u, m
  <1>7. before \in SUBSET (Session \X Name)
    BY DEF TunnelsOf, IndInv, TypeOK
  <1>8. \A x \in Session, y \in Name :
          y \in NamesWithout(dead)[x] <=> y \in names[x] /\ RouteOf(x, y) \notin dead
    BY <1>6, Eviction
  <1>9. sessions \subseteq Session
    BY DEF IndInv, TypeOK
  <1>10. after \subseteq before
    BY <1>8, <1>9 DEF TunnelsOf
  <1>11. <<u, m>> \in before /\ <<u, m>> \notin after
    BY <1>2, <1>4, <1>5, <1>8 DEF TunnelsOf
  <1> HIDE DEF before, after
  <1>12. /\ IsFiniteSet(before) /\ Cardinality(before) \in Nat
         /\ Cardinality(after) \in Nat
    BY <1>7, <1>10, FiniteScope
  <1>13. Cardinality(after) <= Cardinality(before) /\ Cardinality(after) # Cardinality(before)
    BY <1>10, <1>11, <1>12, FS_Subset
  <1>14. MaxTunnelsPerToken > 0 /\ Cardinality(after) >= MaxTunnelsPerToken
    BY <1>1 DEF AtCap, after
  <1>15. Cardinality(before) <= MaxTunnelsPerToken
    BY <1>1, <1>14 DEF SlugCap, before
  <1>16. QED
    BY <1>12, <1>13, <1>14, <1>15, BoundsTyped

\* What the table counts is what it holds, for any number of sessions, names
\* and hosts, wherever slugs do not share hostnames: the slug's cap, and the
\* gauge through every displacement and every late dropSession.
THEOREM CountsExactHolds ==
    ASSUME ScopesDisjoint
    PROVE  Spec => []CountsExact
  <1>1. Init => Drift = 0 /\ HostsBound
    BY InitDrift DEF Init, HostsBound
  <1>2. IndInv /\ HostsBound /\ SlugCap /\ Drift = 0 /\ [Next]_vars => (Drift = 0)'
    <2> SUFFICES ASSUME IndInv, HostsBound, SlugCap, Drift = 0, [Next]_vars
                 PROVE  Drift' = 0
      OBVIOUS
    <2>1. \A s \in Session : RegisterOverLimit(s) =>
            Cardinality(Holders(s, req[s].hosts)) = 0
      BY ScopesDisjoint, NothingDisplacedAtCap, FS_EmptySet
    <2>2. QED
      BY <2>1, NextDrift
  <1>3. IndInv /\ Drift = 0 => GaugeExact
    <2> SUFFICES ASSUME IndInv, Drift = 0 PROVE GaugeExact
      OBVIOUS
    <2>1. Cardinality(RoutedTunnels) \in Nat
      BY RoutedAreRoutes DEF IndInv
    <2>2. activeTunnels \in Int
      BY DEF IndInv, TypeOK
    <2>3. QED
      BY <2>1, <2>2 DEF Drift, GaugeExact
  <1>4. QED
    BY <1>1, <1>2, <1>3, NextBound, SlugCapHolds, IndInvHolds, PTL
    DEF Spec, CountsExact

-----------------------------------------------------------------------------
(* The table as the request path sees it.                                  *)

\* Who holds what, before a step and after it.
LEMMA HeldPairs ==
    ASSUME TypeOK
    PROVE  /\ Held \subseteq Host \X Session
           /\ \A h \in Host, s \in Session :
                <<h, s>> \in Held <=> routes[h] # None /\ routes[h].session = s
  BY DEF TypeOK, Held, Route

LEMMA HeldPairsNext ==
    ASSUME TypeOK'
    PROVE  /\ Held' \subseteq Host \X Session
           /\ \A h \in Host, s \in Session :
                <<h, s>> \in Held' <=> routes'[h] # None /\ routes'[h].session = s
  BY DEF TypeOK, Held, Route

\* The empty table.
LEMMA InitRefines == Init => T!TableInit
  BY DEF Init, T!TableInit, Held, Dead, Dropped

\* A step that neither closes a transport, moves a route nor ends a session
\* is invisible.
LEMMA Invisible ==
    ASSUME routes' = routes, closed' = closed,
           \A s \in Session : pc'[s] = "dropped" <=> pc[s] = "dropped"
    PROVE  UNCHANGED T!tableVars
  BY DEF T!tableVars, Held, Dead, Dropped

\* Whatever closes a transport and leaves the routes is a death.
LEMMA Dying ==
    ASSUME IndInv, NEW s \in Session,
           routes' = routes, closed' = [closed EXCEPT ![s] = TRUE],
           \A t \in Session : pc'[t] = "dropped" <=> pc[t] = "dropped"
    PROVE  T!Die(s)
  BY DEF T!Die, Held, Dead, Dropped, IndInv, TypeOK

\* A step of register gives hosts to its session and takes them, with what
\* else the evicted tunnels held, from the dead.
LEMMA RegisterRefines ==
    ASSUME IndInv, IndInv', NEW s \in Session,
           RegisterOverLimit(s) \/ RegisterCommit(s)
    PROVE  \E hs \in SUBSET Host, lost \in SUBSET Held : T!Register(s, hs, lost)
  <1> DEFINE dead == Holders(s, req[s].hosts)
             lost == {p \in Held : routes[p[1]] \in dead}
  <1>1. /\ pc[s] = "register" /\ req[s].name \notin names[s]
        /\ req[s] \in Pending /\ req[s].hosts \in SUBSET Host
        /\ \A h \in req[s].hosts : NameOf[h] = req[s].name
        /\ \A t \in dead : closed[t.session]
    BY DEF RegisterOverLimit, RegisterCommit, Reclaimable, IndInv, HandlerLocals,
           Pending
  <1>2. /\ dead \in SUBSET Route
        /\ \A t \in dead : t.session # s
        /\ \A h \in req[s].hosts : routes[h] \in dead \/ routes[h] = None
                                   \/ routes[h].session = s
    BY <1>1, HoldersAreRoutes DEF IndInv
  <1>3. ASSUME NEW h \in req[s].hosts, routes[h] # None PROVE routes[h] \in dead
    <2>1. SUFFICES ASSUME routes[h].session = s PROVE FALSE
      BY <1>2, <1>3
    <2>2. h \in Host /\ routes[h] \in Route /\ routes[h].name \in Name
      BY <1>1, <1>3 DEF IndInv, TypeOK, Route
    <2>3. routes[h].name \in names[s] /\ h \in hosts[s][routes[h].name]
      BY <1>3, <2>1, <2>2 DEF IndInv, RoutesOwned
    <2>4. NameOf[h] = routes[h].name
      BY <2>2, <2>3 DEF IndInv, HostsSpellNames
    <2>5. QED
      BY <1>1, <2>3, <2>4
  <1>4. /\ Held \subseteq Host \X Session /\ Held' \subseteq Host \X Session
        /\ \A h \in Host, t \in Session :
             /\ <<h, t>> \in Held <=> routes[h] # None /\ routes[h].session = t
             /\ <<h, t>> \in Held' <=> routes'[h] # None /\ routes'[h].session = t
    BY HeldPairs, HeldPairsNext DEF IndInv
  <1>5. /\ closed' = closed
        /\ pc' = [pc EXCEPT ![s] = "serving"]
    BY DEF RegisterOverLimit, RegisterCommit, Answer
  <1>6. UNCHANGED <<Dead, Dropped>> /\ s \notin Dropped
    BY <1>1, <1>5 DEF Dead, Dropped, IndInv, TypeOK
  <1>7. lost \subseteq {p \in Held : p[2] \in Dead \ {s}}
    <2>1. SUFFICES ASSUME NEW p \in lost PROVE p[2] \in Dead \ {s}
      OBVIOUS
    <2>2. PICK h \in Host, t \in Session : p = <<h, t>>
      BY <1>4
    <2>3. routes[h] \in dead /\ routes[h].session = t
      BY <1>4, <2>2
    <2>4. QED
      BY <1>1, <1>2, <2>2, <2>3 DEF Dead
  <1>8. \A p \in Held : p[1] \in req[s].hosts => p \in lost
    <2>1. SUFFICES ASSUME NEW p \in Held, p[1] \in req[s].hosts
                   PROVE  routes[p[1]] \in dead
      OBVIOUS
    <2>2. PICK h \in Host, t \in Session : p = <<h, t>>
      BY <1>4
    <2>3. QED
      BY <1>3, <1>4, <2>1, <2>2
  <1>9. \A h \in Host, t \in Session :
          <<h, t>> \in lost <=> <<h, t>> \in Held /\ routes[h] \in dead
    OBVIOUS
  <1>10. lost \in SUBSET Held
    OBVIOUS
  <1> HIDE DEF dead, lost
  <1>11. CASE RegisterOverLimit(s)
    <2>1. routes' = [h \in Host |-> IF routes[h] \in dead THEN None ELSE routes[h]]
      BY <1>11 DEF RegisterOverLimit, dead
    <2>2. \A h \in Host, t \in Session :
            <<h, t>> \in Held' <=> <<h, t>> \in Held /\ <<h, t>> \notin lost
      BY <1>4, <1>9, <2>1
    <2>3. Held' = Held \ lost
      BY <1>4, <2>2
    <2>4. Held' = (Held \ lost) \cup {<<h, s>> : h \in {}}
      BY <2>3
    <2>5. T!Register(s, {}, lost)
      BY <1>6, <1>7, <2>4 DEF T!Register
    <2>6. QED
      BY <1>10, <2>5
  <1>12. CASE RegisterCommit(s)
    <2> DEFINE hs == req[s].hosts
               r == RouteOf(s, req[s].name)
               new == {<<h, s>> : h \in hs}
    <2>1. routes' = [h \in Host |-> IF h \in hs THEN r
                                    ELSE IF routes[h] \in dead THEN None
                                    ELSE routes[h]]
      BY <1>12 DEF RegisterCommit, dead
    <2>2. r # None /\ r.session = s
      BY <1>1, RouteFields DEF Pending
    <2>3. \A h \in Host, t \in Session : <<h, t>> \in new <=> h \in hs /\ t = s
      OBVIOUS
    <2>4. \A h \in Host, t \in Session :
            <<h, t>> \in Held /\ h \in hs => <<h, t>> \in lost
      BY <1>8
    <2>5. new \subseteq Host \X Session
      BY <1>1
    <2> HIDE DEF hs, r, new
    <2>6. \A h \in Host, t \in Session :
            <<h, t>> \in Held' <=> \/ <<h, t>> \in Held /\ <<h, t>> \notin lost
                                   \/ <<h, t>> \in new
      BY <1>4, <1>9, <2>1, <2>2, <2>3, <2>4
    <2>7. Held' = (Held \ lost) \cup new
      BY <1>4, <2>5, <2>6
    <2>8. T!Register(s, hs, lost)
      BY <1>6, <1>7, <1>8, <2>7 DEF T!Register, hs, new
    <2>9. QED
      BY <1>1, <1>10, <2>8 DEF hs
  <1>13. QED
    BY <1>11, <1>12

\* unregister gives up hosts of its own session only.
LEMMA UnregisterRefines ==
    ASSUME IndInv, IndInv', NEW s \in Session, UnregisterRoutes(s)
    PROVE  \E hs \in SUBSET Host : T!Unregister(s, hs)
  <1> DEFINE own == OwnHosts(s, req[s].hosts)
             given == {<<h, s>> : h \in own}
  <1>1. own \in SUBSET Host
    BY DEF OwnHosts, UnregisterRoutes, IndInv, HandlerLocals, Pending
  <1>2. \A h \in own : routes[h] # None /\ routes[h].session = s
    BY DEF OwnHosts
  <1>3. /\ routes' = [h \in Host |-> IF h \in own THEN None ELSE routes[h]]
        /\ closed' = closed
        /\ \A t \in Session : pc'[t] = "dropped" <=> pc[t] = "dropped"
    BY DEF UnregisterRoutes, IndInv, TypeOK
  <1>4. \A h \in Host, t \in Session : <<h, t>> \in given <=> h \in own /\ t = s
    OBVIOUS
  <1> HIDE DEF own
  <1>5. given \subseteq Host \X Session
    BY <1>1
  <1> HIDE DEF given
  <1>6. \A h \in Host, t \in Session :
          <<h, t>> \in Held' <=> <<h, t>> \in Held /\ <<h, t>> \notin given
    BY <1>2, <1>3, <1>4, HeldPairs, HeldPairsNext DEF IndInv
  <1>7. Held' = Held \ given
    BY <1>6, HeldPairs, HeldPairsNext DEF IndInv
  <1>8. UNCHANGED <<Dead, Dropped>>
    BY <1>3 DEF Dead, Dropped
  <1>9. T!Unregister(s, own)
    BY <1>7, <1>8 DEF T!Unregister, given
  <1>10. QED
    BY <1>1, <1>9

\* dropSession gives up all of its session's, whose transport is dead.
LEMMA DropRefines ==
    ASSUME IndInv, IndInv', NEW s \in Session, DropSession(s)
    PROVE  T!Drop(s)
  <1>1. /\ pc[s] = "drop" /\ pc' = [pc EXCEPT ![s] = "dropped"]
        /\ closed' = closed
        /\ routes' = [h \in Host |-> IF routes[h] # None /\ routes[h].session = s
                                     THEN None ELSE routes[h]]
    BY DEF DropSession, OwnHosts
  <1>2. s \in Dead \ Dropped
    BY <1>1 DEF IndInv, SessionPhases, Dead, Dropped
  <1>3. Dropped' = Dropped \cup {s} /\ Dead' = Dead
    BY <1>1 DEF Dropped, Dead, IndInv, TypeOK
  <1>4. \A h \in Host, t \in Session :
          <<h, t>> \in Held' <=> <<h, t>> \in Held /\ t # s
    BY <1>1, HeldPairs, HeldPairsNext DEF IndInv
  <1>5. Held' = {p \in Held : p[2] # s}
    <2>1. ASSUME NEW p \in Host \X Session
          PROVE  p \in Held' <=> p \in Held /\ p[2] # s
      <3>1. PICK h \in Host, t \in Session : p = <<h, t>>
        OBVIOUS
      <3>2. QED
        BY <1>4, <3>1
    <2>2. QED
      BY <2>1, HeldPairs, HeldPairsNext DEF IndInv
  <1>6. QED
    BY <1>2, <1>3, <1>5 DEF T!Drop

\* Every step of the handlers is a step of the table or invisible to it.
LEMMA NextRefines ==
    IndInv /\ IndInv' /\ [Next]_vars => [T!TableNext]_(T!tableVars)
  <1> SUFFICES ASSUME IndInv, IndInv', [Next]_vars
               PROVE  T!TableNext \/ UNCHANGED T!tableVars
    OBVIOUS
  <1>1. CASE UNCHANGED vars
    BY <1>1, Invisible DEF vars
  <1>2. CASE Next
    <2>1. PICK s \in Session : Promote(s) \/ TransportClosed(s) \/ Handler(s)
      BY <1>2 DEF Next
    <2>2. CASE \/ Promote(s) \/ OtherLine(s) \/ RegisterAgain(s) \/ RegisterTaken(s)
               \/ UnregisterForget(s)
               \/ \E n \in Name : RegisterFetch(s, n) \/ UnregisterSnapshot(s, n)
      <3>1. /\ routes' = routes /\ closed' = closed
            /\ \A t \in Session : pc'[t] = "dropped" <=> pc[t] = "dropped"
        BY <2>2 DEF Promote, OtherLine, RegisterAgain, RegisterTaken, Answer,
                    UnregisterForget, RegisterFetch, UnregisterSnapshot, ReadLine,
                    IndInv, TypeOK
      <3>2. QED
        BY <3>1, Invisible
    <2>3. CASE TransportClosed(s) \/ ControlEnded(s)
      <3>1. /\ routes' = routes /\ closed' = [closed EXCEPT ![s] = TRUE]
            /\ \A t \in Session : pc'[t] = "dropped" <=> pc[t] = "dropped"
        BY <2>3 DEF TransportClosed, ControlEnded, IndInv, TypeOK
      <3>2. T!Die(s)
        BY <3>1, Dying
      <3>3. QED
        BY <3>2 DEF T!TableNext
    <2>4. CASE RegisterOverLimit(s) \/ RegisterCommit(s)
      BY <2>4, RegisterRefines DEF T!TableNext
    <2>5. CASE UnregisterRoutes(s)
      BY <2>5, UnregisterRefines DEF T!TableNext
    <2>6. CASE DropSession(s)
      BY <2>6, DropRefines DEF T!TableNext
    <2>7. QED
      BY <2>1, <2>2, <2>3, <2>4, <2>5, <2>6 DEF Handler
  <1>3. QED
    BY <1>1, <1>2

\* The handlers implement the hostname table that the request path relies on:
\* to a visitor's request, register, unregister and dropSession are single
\* steps, in which a host leaves a live session only by its own unregister and
\* a dropped session never holds one again.
THEOREM ImplementsTableHolds == Spec => ImplementsTable
  BY InitRefines, NextRefines, IndInvHolds, PTL
  DEF Spec, ImplementsTable, T!Table
=============================================================================
