------------------------- MODULE EdgeLifecycleProofs -------------------------
(***************************************************************************)
(* Proofs about EdgeLifecycle, for every set of connections and every      *)
(* capacity: admission slots and wait groups have owners, Shutdown's       *)
(* snapshots hold every session, nothing is added behind a wait, and a     *)
(* final flush comes after everything it is to see.                        *)
(***************************************************************************)
EXTENDS EdgeLifecycle, FiniteSetTheorems, TLAPS

-----------------------------------------------------------------------------
(* The inductive invariant                                                 *)

\* Each kind of connection goes through its own places.
Places ==
    /\ \A c \in Tcp : pc[c] \notin {"preauth", "public"}
    /\ \A c \in Quic : pc[c] \notin {"slot", "shaking", "shaken", "public"}
    /\ \A c \in Public : pc[c] \in {"idle", "slot", "shaking", "shaken", "public", "ended"}

\* preauth and sessions hold the tunnels that are between entering and leaving.
Tables ==
    /\ preauth = At(Tunnel, {"preauth", "hello", "authed"})
    /\ sessions = At(Tunnel, {"serving"})

\* An accept loop that has returned left no connection half admitted.
LoopsIdle ==
    /\ "tcp" \notin accepting => At(Tcp \cup Public, {"slot"}) = {}
    /\ "quic" \notin accepting => At(Quic, {"preslot", "preauth"}) = {}

\* The requests that hold proxyWG, and the dials that hold streamWG.
Proxied == {c \in Public : req[c] \in {"proxying", "hijacked", "emitted", "aborted"}}
Watching == {c \in Public : dial[c] = "watching"}

\* proxyWG and streamWG have owners; a request that released its event has
\* recorded it; a dial has a session.
RequestsOwned ==
    /\ proxyWG = Cardinality(Proxied) /\ streamWG = Cardinality(Watching)
    /\ \A c \in Public : req[c] \in {"emitted", "over"} => c \in reported
    /\ \A c \in Public : dial[c] = "dialing" => target[c] \in Tunnel

\* What Shutdown snapshotted is all there is, and it is closed before a join.
Snapshots ==
    /\ shuttingDown =>
         At(Tunnel, {"preauth", "hello", "authed", "serving"}) \subseteq snapTunnels
    /\ shutdown \in {"joining", "watchers", "down"} => snapTunnels \subseteq closed

\* Shutdown waits for the watchers, and flushes, with nobody left to start one.
Quiet ==
    /\ flush # "none" => shutdown = "down"
    /\ shutdown = "watchers" \/ flush = "flushed" => WorkersJoined
    /\ flush = "flushed" => streamWG = 0

IInv ==
    TypeOK /\ SlotsOwned /\ Places /\ Tables /\ LoopsIdle /\ RequestsOwned
    /\ Snapshots /\ Quiet

-----------------------------------------------------------------------------
(* Counts and their owners                                                 *)

\* A set that differs from another in one element at most.
LEMMA CountMoves ==
  ASSUME NEW S, NEW T, NEW r, IsFiniteSet(S), S \ {r} = T \ {r}
  PROVE  /\ IsFiniteSet(T) /\ Cardinality(S) \in Nat /\ Cardinality(T) \in Nat
         /\ Cardinality(T) = Cardinality(S) + (IF r \in T THEN 1 ELSE 0)
                                           - (IF r \in S THEN 1 ELSE 0)
<1> DEFINE R == S \ {r}
<1>1. IsFiniteSet(R)
  BY FS_RemoveElement
<1>2. Cardinality(R) \in Nat /\ Cardinality(S) \in Nat
  BY <1>1, FS_CardinalityType
<1>3. Cardinality(S) = Cardinality(R) + (IF r \in S THEN 1 ELSE 0)
  <2>1. Cardinality(R) = IF r \in S THEN Cardinality(S) - 1 ELSE Cardinality(S)
    BY FS_RemoveElement
  <2>2. QED
    BY <1>2, <2>1
<1>4. CASE r \in T
  <2>1. T = R \cup {r}
    BY <1>4
  <2>2. IsFiniteSet(T) /\ Cardinality(T) = Cardinality(R) + 1
    BY <1>1, <2>1, FS_AddElement
  <2>3. QED
    BY <1>2, <1>3, <1>4, <2>2
<1>5. CASE r \notin T
  <2>1. T = R
    BY <1>5
  <2>2. QED
    BY <1>1, <1>2, <1>3, <1>5, <2>1
<1>6. QED
  BY <1>4, <1>5

\* The kinds of connections are disjoint and finite.
LEMMA Kinds ==
  /\ \A c \in Tcp : c \in Tunnel /\ c \in Conn /\ c \notin Quic /\ c \notin Public
  /\ \A c \in Quic : c \in Tunnel /\ c \in Conn /\ c \notin Tcp /\ c \notin Public
  /\ \A c \in Public : c \in Conn /\ c \notin Tunnel /\ c \notin Tcp /\ c \notin Quic
  /\ \A c \in Tunnel : c \in Conn /\ (c \in Tcp \/ c \in Quic)
  /\ \A c \in Conn : c \in Tunnel \/ c \in Public
  BY KindsAssumption DEF Tunnel, Conn

LEMMA FiniteKinds == \A S \in SUBSET Conn : IsFiniteSet(S)
  BY KindsAssumption, FS_Subset

\* The owners of each counter of the admission path.
TlsOwners == At(Conn, {"slot", "shaking"})
PreOwners == At(Conn, {"preslot", "preauth", "hello", "authed"})
AuthOwners == At(Conn, {"authed", "serving", "dropping"})
Handlers == At(Tcp \cup Public, {"shaking", "shaken", "preslot", "hello", "authed",
                                "serving", "dropping", "public"})
SessionHandlers == At(Quic, {"hello", "authed", "serving", "dropping"})

LEMMA OwnedParts ==
  SlotsOwned <=>
    /\ tlsSlots = Cardinality(TlsOwners) /\ preAuthSlots = Cardinality(PreOwners)
    /\ authSlots = Cardinality(AuthOwners) /\ handlerWG = Cardinality(Handlers)
    /\ sessionWG = Cardinality(SessionHandlers)
  BY DEF SlotsOwned, TlsOwners, PreOwners, AuthOwners, Handlers, SessionHandlers

\* The owners are finitely many.
LEMMA OwnersFinite ==
  /\ IsFiniteSet(TlsOwners) /\ IsFiniteSet(PreOwners) /\ IsFiniteSet(AuthOwners)
  /\ IsFiniteSet(Handlers) /\ IsFiniteSet(SessionHandlers)
  /\ IsFiniteSet(Proxied) /\ IsFiniteSet(Watching)
<1>1. /\ TlsOwners \subseteq Conn /\ PreOwners \subseteq Conn /\ AuthOwners \subseteq Conn
      /\ Handlers \subseteq Conn /\ SessionHandlers \subseteq Conn
      /\ Proxied \subseteq Conn /\ Watching \subseteq Conn
  BY Kinds DEF TlsOwners, PreOwners, AuthOwners, Handlers, SessionHandlers, Proxied,
     Watching, At
<1>2. QED
  BY <1>1, FiniteKinds

\* One if the connection is at one of the places.
One(b) == IF b THEN 1 ELSE 0

\* What a connection owns at a place.
OwnsTls(p) == One(p \in {"slot", "shaking"})
OwnsPre(p) == One(p \in {"preslot", "preauth", "hello", "authed"})
OwnsAuth(p) == One(p \in {"authed", "serving", "dropping"})
OwnsHandler(c, p) ==
    One(c \notin Quic /\ p \in {"shaking", "shaken", "preslot", "hello", "authed",
                               "serving", "dropping", "public"})
OwnsSession(c, p) == One(c \in Quic /\ p \in {"hello", "authed", "serving", "dropping"})

\* A step of one connection keeps every count at its owners, when its own
\* change of place and the change of the counters agree.
LEMMA OwnersMove ==
  ASSUME IInv, NEW c \in Conn,
         \A q \in Conn : q # c => pc'[q] = pc[q],
         tlsSlots' = tlsSlots + OwnsTls(pc'[c]) - OwnsTls(pc[c]),
         preAuthSlots' = preAuthSlots + OwnsPre(pc'[c]) - OwnsPre(pc[c]),
         authSlots' = authSlots + OwnsAuth(pc'[c]) - OwnsAuth(pc[c]),
         handlerWG' = handlerWG + OwnsHandler(c, pc'[c]) - OwnsHandler(c, pc[c]),
         sessionWG' = sessionWG + OwnsSession(c, pc'[c]) - OwnsSession(c, pc[c])
  PROVE  SlotsOwned'
<1>1. /\ tlsSlots = Cardinality(TlsOwners) /\ preAuthSlots = Cardinality(PreOwners)
      /\ authSlots = Cardinality(AuthOwners) /\ handlerWG = Cardinality(Handlers)
      /\ sessionWG = Cardinality(SessionHandlers)
  BY OwnedParts DEF IInv
<1>2. tlsSlots' = Cardinality(TlsOwners')
  <2>1. TlsOwners \ {c} = TlsOwners' \ {c}
    BY DEF TlsOwners, At
  <2>2. One(c \in TlsOwners') = OwnsTls(pc'[c]) /\ One(c \in TlsOwners) = OwnsTls(pc[c])
    BY DEF TlsOwners, At, OwnsTls, One
  <2>3. QED
    BY <1>1, <2>1, <2>2, OwnersFinite, CountMoves DEF One
<1>3. preAuthSlots' = Cardinality(PreOwners')
  <2>1. PreOwners \ {c} = PreOwners' \ {c}
    BY DEF PreOwners, At
  <2>2. One(c \in PreOwners') = OwnsPre(pc'[c]) /\ One(c \in PreOwners) = OwnsPre(pc[c])
    BY DEF PreOwners, At, OwnsPre, One
  <2>3. QED
    BY <1>1, <2>1, <2>2, OwnersFinite, CountMoves DEF One
<1>4. authSlots' = Cardinality(AuthOwners')
  <2>1. AuthOwners \ {c} = AuthOwners' \ {c}
    BY DEF AuthOwners, At
  <2>2. One(c \in AuthOwners') = OwnsAuth(pc'[c]) /\ One(c \in AuthOwners) = OwnsAuth(pc[c])
    BY DEF AuthOwners, At, OwnsAuth, One
  <2>3. QED
    BY <1>1, <2>1, <2>2, OwnersFinite, CountMoves DEF One
<1>5. handlerWG' = Cardinality(Handlers')
  <2>0. c \in Tcp \cup Public <=> c \notin Quic
    BY Kinds
  <2>1. Handlers \ {c} = Handlers' \ {c}
    BY Kinds DEF Handlers, At
  <2>2. One(c \in Handlers') = OwnsHandler(c, pc'[c]) /\ One(c \in Handlers) = OwnsHandler(c, pc[c])
    BY <2>0 DEF Handlers, At, OwnsHandler, One
  <2>3. QED
    BY <1>1, <2>1, <2>2, OwnersFinite, CountMoves DEF One
<1>6. sessionWG' = Cardinality(SessionHandlers')
  <2>1. SessionHandlers \ {c} = SessionHandlers' \ {c}
    BY Kinds DEF SessionHandlers, At
  <2>2. /\ One(c \in SessionHandlers') = OwnsSession(c, pc'[c])
        /\ One(c \in SessionHandlers) = OwnsSession(c, pc[c])
    BY DEF SessionHandlers, At, OwnsSession, One
  <2>3. QED
    BY <1>1, <2>1, <2>2, OwnersFinite, CountMoves DEF One
<1>7. QED
  BY <1>2, <1>3, <1>4, <1>5, <1>6
  DEF SlotsOwned, TlsOwners, PreOwners, AuthOwners, Handlers, SessionHandlers

-----------------------------------------------------------------------------
(* The groups of steps                                                     *)

\* A TCP connection is accepted; a visitor's connection is served.
Accepts(c) == AcceptTCP(c) \/ AdmitTCP(c) \/ \E ok \in BOOLEAN : Handshake(c, ok)
Serves(c) == handlePublic(c) \/ PublicEnds(c)

\* A request goes through its proxy, its dial through openRouteStream.
Proxies(c) ==
    \/ beginProxy(c) \/ Emit(c) \/ CloseHijacked(c) \/ finishProxy(c) \/ wrapHijack(c)
    \/ AbortHandler(c)
Dials(c) ==
    \/ reserveStreamWatcher(c) \/ WatcherEnds(c)
    \/ \E s \in Tunnel : StartDial(c, s)

\* What changes the edge as a whole.
Edge == BeginShutdown \/ Shutdown \/ \E kind \in {"tcp", "quic"} : AcceptLoopEnds(kind)

\* Next is the disjunction of the groups.
LEMMA NextGroups ==
  Next => \/ \E c \in Tcp \cup Public : Accepts(c)
          \/ \E c \in Tunnel : Tunnels(c) \/ SessionCloses(c)
          \/ \E c \in Public : Serves(c) \/ Proxies(c) \/ Dials(c)
          \/ Edge
  BY DEF Next, Accepts, Serves, Proxies, Dials, Edge, Requests

\* What a step of a group leaves alone.
LEMMA Frames ==
  /\ \A c \in Tcp \cup Public : Accepts(c) =>
       UNCHANGED <<tableVars, preAuthSlots, authSlots, accepting, sessionWG, proxyWG,
                   streamWG, requestVars, shutdownVars>>
  /\ \A c \in Tunnel : Tunnels(c) =>
       UNCHANGED <<tlsSlots, accepting, proxyWG, streamWG, requestVars, shutdownVars>>
  /\ \A c \in Tunnel : SessionCloses(c) =>
       UNCHANGED <<pc, preauth, sessions, slotVars, groupVars, requestVars, shutdownVars>>
  /\ \A c \in Public : Serves(c) =>
       UNCHANGED <<preauth, sessions, slotVars, accepting, sessionWG, proxyWG, streamWG,
                   requestVars, shutdownVars>>
  /\ \A c \in Public : Proxies(c) =>
       UNCHANGED <<pc, tableVars, slotVars, accepting, handlerWG, sessionWG, streamWG, dial,
                   target, shutdownVars>>
  /\ \A c \in Public : Dials(c) =>
       UNCHANGED <<pc, tableVars, slotVars, accepting, handlerWG, sessionWG, proxyWG, req,
                   reported, shutdownVars>>
  /\ Edge => UNCHANGED <<pc, preauth, sessions, slotVars, handlerWG, sessionWG, proxyWG,
                         streamWG, requestVars>>
<1> USE DEF tableVars, slotVars, groupVars, requestVars, shutdownVars
<1>1. \A c \in Tcp \cup Public : Accepts(c) =>
        UNCHANGED <<tableVars, preAuthSlots, authSlots, accepting, sessionWG, proxyWG,
                    streamWG, requestVars, shutdownVars>>
  BY DEF Accepts, AcceptTCP, AdmitTCP, Handshake
<1>2. \A c \in Tunnel : Tunnels(c) =>
        UNCHANGED <<tlsSlots, accepting, proxyWG, streamWG, requestVars, shutdownVars>>
  BY DEF Tunnels, acquirePreauth, RegisterPreauth, StartSession, HelloFails,
     acquireAuthenticated, HelloOKFails, promoteAuthenticated, DropBegins, DropEnds
<1>3. \A c \in Tunnel : SessionCloses(c) =>
        UNCHANGED <<pc, preauth, sessions, slotVars, groupVars, requestVars, shutdownVars>>
  BY DEF SessionCloses
<1>4. \A c \in Public : Serves(c) =>
        UNCHANGED <<preauth, sessions, slotVars, accepting, sessionWG, proxyWG, streamWG,
                    requestVars, shutdownVars>>
  BY DEF Serves, handlePublic, PublicEnds
<1>5. \A c \in Public : Proxies(c) =>
        UNCHANGED <<pc, tableVars, slotVars, accepting, handlerWG, sessionWG, streamWG, dial,
                    target, shutdownVars>>
  BY DEF Proxies, beginProxy, Emit, CloseHijacked, finishProxy, wrapHijack, AbortHandler
<1>6. \A c \in Public : Dials(c) =>
        UNCHANGED <<pc, tableVars, slotVars, accepting, handlerWG, sessionWG, proxyWG, req,
                    reported, shutdownVars>>
  BY DEF Dials, reserveStreamWatcher, WatcherEnds, StartDial
<1>7. Edge => UNCHANGED <<pc, preauth, sessions, slotVars, handlerWG, sessionWG, proxyWG,
                          streamWG, requestVars>>
  BY DEF Edge, BeginShutdown, Shutdown, CloseListeners, Drained, DrainDeadline, CloseTunnels,
     JoinWorkers, JoinWatchers, JoinDeadline, AcceptLoopEnds
<1>8. QED
  BY <1>1, <1>2, <1>3, <1>4, <1>5, <1>6, <1>7

-----------------------------------------------------------------------------
(* Slots                                                                   *)

\* Steps that move no connection keep the owners.
LEMMA OwnersStay ==
  ASSUME IInv, UNCHANGED <<pc, slotVars, handlerWG, sessionWG>>
  PROVE  SlotsOwned'
  BY DEF IInv, SlotsOwned, At, slotVars

\* Accepting and serving move what the connection owns with it.
LEMMA AcceptsOwned ==
  ASSUME IInv, NEW c \in Tcp \cup Public, Accepts(c) \/ (c \in Public /\ Serves(c))
  PROVE  SlotsOwned'
<1> USE DEF OwnsTls, OwnsPre, OwnsAuth, OwnsHandler, OwnsSession, One
<1>0. /\ c \in Conn /\ c \notin Quic
      /\ tlsSlots \in Int /\ preAuthSlots \in Int /\ authSlots \in Int
      /\ handlerWG \in Int /\ sessionWG \in Int
      /\ pc = [q \in Conn |-> pc[q]]
  BY Kinds, LimitsAssumption DEF IInv, TypeOK
<1>1. CASE AcceptTCP(c)
  BY <1>0, <1>1, OwnersMove DEF AcceptTCP, groupVars
<1>2. CASE AdmitTCP(c)
  BY <1>0, <1>2, OwnersMove DEF AdmitTCP
<1>3. CASE \E ok \in BOOLEAN : Handshake(c, ok)
  BY <1>0, <1>3, OwnersMove DEF Handshake
<1>4. CASE handlePublic(c)
  BY <1>0, <1>4, OwnersMove DEF handlePublic, slotVars
<1>5. CASE PublicEnds(c)
  BY <1>0, <1>5, OwnersMove DEF PublicEnds, slotVars
<1>6. QED
  BY <1>1, <1>2, <1>3, <1>4, <1>5 DEF Accepts, Serves

\* So does every step of a tunnel's goroutine.
LEMMA TunnelsOwned ==
  ASSUME IInv, NEW c \in Tunnel, Tunnels(c)
  PROVE  SlotsOwned'
<1> USE DEF OwnsTls, OwnsPre, OwnsAuth, OwnsHandler, OwnsSession, One
<1>0. /\ c \in Conn /\ (c \in Tcp \/ c \in Quic) /\ (c \in Tcp => c \notin Quic)
      /\ tlsSlots \in Int /\ preAuthSlots \in Int /\ authSlots \in Int
      /\ handlerWG \in Int /\ sessionWG \in Int
      /\ pc = [q \in Conn |-> pc[q]]
  BY Kinds, LimitsAssumption DEF IInv, TypeOK
<1>1. c \in preauth <=> pc[c] \in {"preauth", "hello", "authed"}
  BY DEF IInv, Tables, At
<1>2. (pc[c] = "preauth" => c \in Quic) /\ (c \in Quic => pc[c] # "shaken")
  BY <1>0 DEF IInv, Places
<1>3. CASE acquirePreauth(c)
  BY <1>0, <1>2, <1>3, OwnersMove DEF acquirePreauth, Turned
<1>4. CASE RegisterPreauth(c)
  BY <1>0, <1>4, OwnersMove DEF RegisterPreauth, Turned
<1>5. CASE StartSession(c)
  BY <1>0, <1>1, <1>2, <1>5, OwnersMove DEF StartSession, Turned, releasePreauth
<1>6. CASE HelloFails(c)
  BY <1>0, <1>1, <1>6, OwnersMove DEF HelloFails, Exit, releasePreauth
<1>7. CASE acquireAuthenticated(c)
  BY <1>0, <1>1, <1>7, OwnersMove DEF acquireAuthenticated, Exit, releasePreauth
<1>8. CASE HelloOKFails(c)
  BY <1>0, <1>1, <1>8, OwnersMove DEF HelloOKFails, Exit, releasePreauth
<1>9. CASE promoteAuthenticated(c)
  BY <1>0, <1>1, <1>9, OwnersMove DEF promoteAuthenticated, Exit, releasePreauth
<1>10. CASE DropBegins(c)
  BY <1>0, <1>10, OwnersMove DEF DropBegins, slotVars, groupVars
<1>11. CASE DropEnds(c)
  BY <1>0, <1>11, OwnersMove DEF DropEnds, Exit
<1>12. QED
  BY <1>3, <1>4, <1>5, <1>6, <1>7, <1>8, <1>9, <1>10, <1>11 DEF Tunnels

\* Every step keeps the slots and the first wait groups at their owners.
LEMMA SlotsOwnedStep ==
  ASSUME IInv, Next
  PROVE  SlotsOwned'
<1>1. CASE \E c \in Tcp \cup Public : Accepts(c) \/ (c \in Public /\ Serves(c))
  BY <1>1, AcceptsOwned
<1>2. CASE \E c \in Tunnel : Tunnels(c)
  BY <1>2, TunnelsOwned
<1>3. CASE \/ \E c \in Tunnel : SessionCloses(c)
           \/ \E c \in Public : Proxies(c) \/ Dials(c)
           \/ Edge
  BY <1>3, Frames, OwnersStay DEF groupVars
<1>4. QED
  BY <1>1, <1>2, <1>3, NextGroups

-----------------------------------------------------------------------------
(* Requests and dials                                                      *)

\* A step of one request keeps proxyWG and streamWG at their owners.
LEMMA RequestMoves ==
  ASSUME IInv, NEW c \in Public,
         \A q \in Public : q # c => req'[q] = req[q] /\ dial'[q] = dial[q],
         proxyWG' = proxyWG
           + One(req'[c] \in {"proxying", "hijacked", "emitted", "aborted"})
           - One(req[c] \in {"proxying", "hijacked", "emitted", "aborted"}),
         streamWG' = streamWG + One(dial'[c] = "watching") - One(dial[c] = "watching")
  PROVE  proxyWG' = Cardinality(Proxied') /\ streamWG' = Cardinality(Watching')
<1>1. proxyWG = Cardinality(Proxied) /\ streamWG = Cardinality(Watching)
  BY DEF IInv, RequestsOwned
<1>2. Proxied \ {c} = Proxied' \ {c} /\ Watching \ {c} = Watching' \ {c}
  BY DEF Proxied, Watching
<1>3. /\ One(c \in Proxied') = One(req'[c] \in {"proxying", "hijacked", "emitted", "aborted"})
      /\ One(c \in Proxied) = One(req[c] \in {"proxying", "hijacked", "emitted", "aborted"})
  BY DEF Proxied, One
<1>4. /\ One(c \in Watching') = One(dial'[c] = "watching")
      /\ One(c \in Watching) = One(dial[c] = "watching")
  BY DEF Watching, One
<1>5. proxyWG' = Cardinality(Proxied')
  BY <1>1, <1>2, <1>3, OwnersFinite, CountMoves DEF One
<1>6. streamWG' = Cardinality(Watching')
  BY <1>1, <1>2, <1>4, OwnersFinite, CountMoves DEF One
<1>7. QED
  BY <1>5, <1>6

\* Every step keeps the requests in order.
LEMMA RequestsOwnedStep ==
  ASSUME IInv, Next
  PROVE  RequestsOwned'
<1>0. /\ proxyWG \in Int /\ streamWG \in Int
      /\ req = [q \in Public |-> req[q]] /\ dial = [q \in Public |-> dial[q]]
      /\ target = [q \in Public |-> target[q]]
  BY DEF IInv, TypeOK
<1>1. ASSUME NEW c \in Public, Proxies(c)
      PROVE  RequestsOwned'
  <2> USE <1>0 DEF One, groupVars
  <2>1. CASE beginProxy(c) \/ Emit(c)
    <3>1. proxyWG' = Cardinality(Proxied') /\ streamWG' = Cardinality(Watching')
      <4>1. CASE beginProxy(c) /\ shuttingDown
        BY <4>1, RequestMoves DEF beginProxy
      <4>2. CASE beginProxy(c) /\ ~shuttingDown
        BY <4>2, RequestMoves DEF beginProxy
      <4>3. CASE Emit(c)
        BY <4>3, RequestMoves DEF Emit
      <4>4. QED
        BY <2>1, <4>1, <4>2, <4>3
    <3>2. QED
      BY <2>1, <3>1 DEF IInv, RequestsOwned, beginProxy, Emit
  <2>2. CASE CloseHijacked(c) \/ finishProxy(c)
    <3>1. proxyWG' = Cardinality(Proxied') /\ streamWG' = Cardinality(Watching')
      BY <2>2, RequestMoves DEF CloseHijacked, finishProxy
    <3>2. QED
      BY <2>2, <3>1 DEF IInv, RequestsOwned, CloseHijacked, finishProxy
  <2>3. CASE wrapHijack(c) \/ AbortHandler(c)
    <3>1. proxyWG' = Cardinality(Proxied') /\ streamWG' = Cardinality(Watching')
      BY <2>3, RequestMoves DEF wrapHijack, AbortHandler
    <3>2. QED
      BY <2>3, <3>1 DEF IInv, RequestsOwned, wrapHijack, AbortHandler
  <2>4. QED
    BY <1>1, <2>1, <2>2, <2>3 DEF Proxies
<1>2. ASSUME NEW c \in Public, Dials(c)
      PROVE  RequestsOwned'
  <2> USE <1>0 DEF One, groupVars
  <2>1. CASE reserveStreamWatcher(c) \/ WatcherEnds(c)
    <3>1. proxyWG' = Cardinality(Proxied') /\ streamWG' = Cardinality(Watching')
      BY <2>1, RequestMoves DEF reserveStreamWatcher, WatcherEnds
    <3>2. QED
      BY <2>1, <3>1 DEF IInv, RequestsOwned, reserveStreamWatcher, WatcherEnds
  <2>2. CASE \E s \in Tunnel : StartDial(c, s)
    <3>1. proxyWG' = Cardinality(Proxied') /\ streamWG' = Cardinality(Watching')
      BY <2>2, RequestMoves DEF StartDial
    <3>2. QED
      BY <2>2, <3>1 DEF IInv, RequestsOwned, StartDial
  <2>3. QED
    BY <1>2, <2>1, <2>2 DEF Dials
<1>3. CASE UNCHANGED <<requestVars, proxyWG, streamWG>>
  BY <1>3 DEF IInv, RequestsOwned, Proxied, Watching, requestVars
<1>4. QED
  BY <1>1, <1>2, <1>3, NextGroups, Frames DEF groupVars

-----------------------------------------------------------------------------
(* Types                                                                   *)

SlotsNat ==
    /\ tlsSlots \in Nat /\ preAuthSlots \in Nat /\ authSlots \in Nat
    /\ handlerWG \in Nat /\ sessionWG \in Nat
WaitsNat == proxyWG \in Nat /\ streamWG \in Nat

\* A counter that counts its owners is not negative.
LEMMA CountsNat == (SlotsOwned => SlotsNat) /\ (RequestsOwned => WaitsNat)
  BY OwnedParts, OwnersFinite, FS_CardinalityType DEF RequestsOwned, SlotsNat, WaitsNat

LEMMA CountsNatNext == (SlotsOwned' => SlotsNat') /\ (RequestsOwned' => WaitsNat')
  BY CountsNat, PTL

\* Every step keeps the types: no slot channel overflows, and no wait group
\* goes below zero.
LEMMA TypeStep ==
  ASSUME IInv, Next
  PROVE  TypeOK'
<1>1. /\ tlsSlots' \in Nat /\ preAuthSlots' \in Nat /\ authSlots' \in Nat
      /\ handlerWG' \in Nat /\ sessionWG' \in Nat
      /\ proxyWG' \in Nat /\ streamWG' \in Nat
  BY SlotsOwnedStep, RequestsOwnedStep, CountsNatNext DEF SlotsNat, WaitsNat
<1> USE LimitsAssumption, Kinds
    DEF IInv, TypeOK, tableVars, slotVars, groupVars, requestVars, shutdownVars
<1>2. ASSUME NEW c \in Tcp \cup Public, Accepts(c)
      PROVE  TypeOK'
  <2>1. CASE AcceptTCP(c)
    BY <1>1, <2>1 DEF AcceptTCP
  <2>2. CASE AdmitTCP(c)
    BY <1>1, <2>2 DEF AdmitTCP
  <2>3. CASE \E ok \in BOOLEAN : Handshake(c, ok)
    BY <1>1, <2>3 DEF Handshake
  <2>4. QED
    BY <1>2, <2>1, <2>2, <2>3 DEF Accepts
<1>3. ASSUME NEW c \in Tunnel, Tunnels(c)
      PROVE  TypeOK'
  <2> USE DEF Turned, Exit, releasePreauth
  <2>1. CASE acquirePreauth(c)
    BY <1>1, <2>1 DEF acquirePreauth
  <2>2. CASE RegisterPreauth(c)
    BY <1>1, <2>2 DEF RegisterPreauth
  <2>3. CASE StartSession(c)
    BY <1>1, <2>3 DEF StartSession
  <2>4. CASE HelloFails(c) \/ HelloOKFails(c)
    <3>1. CASE HelloFails(c)
      BY <1>1, <3>1 DEF HelloFails
    <3>2. CASE HelloOKFails(c)
      BY <1>1, <3>2 DEF HelloOKFails
    <3>3. QED
      BY <2>4, <3>1, <3>2
  <2>5. CASE acquireAuthenticated(c)
    BY <1>1, <2>5 DEF acquireAuthenticated
  <2>6. CASE promoteAuthenticated(c)
    BY <1>1, <2>6 DEF promoteAuthenticated
  <2>7. CASE DropBegins(c) \/ DropEnds(c)
    <3>1. CASE DropBegins(c)
      BY <1>1, <3>1 DEF DropBegins
    <3>2. CASE DropEnds(c)
      BY <1>1, <3>2 DEF DropEnds
    <3>3. QED
      BY <2>7, <3>1, <3>2
  <2>8. QED
    BY <1>3, <2>1, <2>2, <2>3, <2>4, <2>5, <2>6, <2>7 DEF Tunnels
<1>4. ASSUME NEW c \in Tunnel, SessionCloses(c)
      PROVE  TypeOK'
  BY <1>4 DEF SessionCloses
<1>5. ASSUME NEW c \in Public, Serves(c)
      PROVE  TypeOK'
  BY <1>1, <1>5 DEF Serves, handlePublic, PublicEnds
<1>6. ASSUME NEW c \in Public, Proxies(c)
      PROVE  TypeOK'
  BY <1>1, <1>6 DEF Proxies, beginProxy, Emit, CloseHijacked, finishProxy, wrapHijack, AbortHandler
<1>7. ASSUME NEW c \in Public, Dials(c)
      PROVE  TypeOK'
  <2>1. CASE reserveStreamWatcher(c)
    BY <1>1, <2>1 DEF reserveStreamWatcher
  <2>2. CASE WatcherEnds(c)
    BY <1>1, <2>2 DEF WatcherEnds
  <2>3. ASSUME NEW s \in Tunnel, StartDial(c, s)
        PROVE  TypeOK'
    BY <2>3 DEF StartDial
  <2>4. QED
    BY <1>7, <2>1, <2>2, <2>3 DEF Dials
<1>8. CASE Edge
  <2>1. snapTunnels' \subseteq Tunnel /\ snapRaw' \subseteq Conn /\ closed' \subseteq Conn
        /\ accepting' \subseteq {"tcp", "quic"}
    BY <1>8 DEF Edge, BeginShutdown, Shutdown, CloseListeners, Drained, DrainDeadline,
       CloseTunnels, JoinWorkers, JoinWatchers, JoinDeadline, AcceptLoopEnds
  <2>2. /\ shutdown' \in {"up", "flagged", "draining", "closing", "joining", "watchers", "down"}
        /\ grace' \in {"ctx", "cleanup"} /\ flush' \in {"none", "flushed", "skipped"}
    BY <1>8 DEF Edge, BeginShutdown, Shutdown, CloseListeners, Drained, DrainDeadline,
       CloseTunnels, JoinWorkers, JoinWatchers, JoinDeadline, AcceptLoopEnds
  <2>3. QED
    BY <1>8, <2>1, <2>2, Frames
<1>9. QED
  BY <1>2, <1>3, <1>4, <1>5, <1>6, <1>7, <1>8, NextGroups

-----------------------------------------------------------------------------
(* Places, tables and accept loops                                         *)

\* Every step keeps the connections to their places and the tables true.
LEMMA PlacesStep ==
  ASSUME IInv, Next
  PROVE  Places' /\ Tables'
<1> USE Kinds DEF IInv, TypeOK, Places, Tables, At, tableVars, shutdownVars
<1>1. ASSUME NEW c \in Tcp \cup Public, Accepts(c)
      PROVE  Places' /\ Tables'
  BY <1>1 DEF Accepts, AcceptTCP, AdmitTCP, Handshake
<1>2. ASSUME NEW c \in Tunnel, Tunnels(c)
      PROVE  Places' /\ Tables'
  <2> USE DEF Turned, Exit, releasePreauth
  <2>1. CASE acquirePreauth(c)
    BY <2>1 DEF acquirePreauth
  <2>2. CASE RegisterPreauth(c)
    BY <2>2 DEF RegisterPreauth
  <2>3. CASE StartSession(c)
    BY <2>3 DEF StartSession
  <2>4. CASE HelloFails(c) \/ HelloOKFails(c)
    BY <2>4 DEF HelloFails, HelloOKFails
  <2>5. CASE acquireAuthenticated(c)
    BY <2>5 DEF acquireAuthenticated
  <2>6. CASE promoteAuthenticated(c)
    BY <2>6 DEF promoteAuthenticated
  <2>7. CASE DropBegins(c) \/ DropEnds(c)
    BY <2>7 DEF DropBegins, DropEnds
  <2>8. QED
    BY <1>2, <2>1, <2>2, <2>3, <2>4, <2>5, <2>6, <2>7 DEF Tunnels
<1>3. ASSUME NEW c \in Public, Serves(c)
      PROVE  Places' /\ Tables'
  BY <1>3 DEF Serves, handlePublic, PublicEnds
<1>4. CASE UNCHANGED <<pc, preauth, sessions>>
  BY <1>4
<1>5. QED
  BY <1>1, <1>2, <1>3, <1>4, NextGroups, Frames

\* Every step keeps LoopsIdle: a connection is accepted by a running loop, and
\* a loop returns between two connections.
LEMMA LoopsStep ==
  ASSUME IInv, Next
  PROVE  LoopsIdle'
<1> USE Kinds DEF IInv, TypeOK, LoopsIdle, At, groupVars
<1>1. ASSUME NEW c \in Tcp \cup Public, Accepts(c)
      PROVE  LoopsIdle'
  BY <1>1 DEF Accepts, AcceptTCP, AdmitTCP, Handshake
<1>2. ASSUME NEW c \in Tunnel, Tunnels(c)
      PROVE  LoopsIdle'
  <2> USE DEF Turned, Exit, releasePreauth
  <2>1. CASE acquirePreauth(c)
    BY <2>1 DEF acquirePreauth
  <2>2. CASE RegisterPreauth(c) \/ StartSession(c)
    BY <2>2 DEF RegisterPreauth, StartSession
  <2>3. CASE HelloFails(c) \/ HelloOKFails(c) \/ acquireAuthenticated(c)
    BY <2>3 DEF HelloFails, HelloOKFails, acquireAuthenticated
  <2>4. CASE promoteAuthenticated(c) \/ DropBegins(c) \/ DropEnds(c)
    BY <2>4 DEF promoteAuthenticated, DropBegins, DropEnds
  <2>5. QED
    BY <1>2, <2>1, <2>2, <2>3, <2>4 DEF Tunnels
<1>3. ASSUME NEW c \in Public, Serves(c)
      PROVE  LoopsIdle'
  BY <1>3 DEF Serves, handlePublic, PublicEnds
<1>4. ASSUME NEW kind \in {"tcp", "quic"}, AcceptLoopEnds(kind)
      PROVE  LoopsIdle'
  <2>1. CASE kind = "tcp"
    BY <1>4, <2>1 DEF AcceptLoopEnds, TcpLoopBusy
  <2>2. CASE kind = "quic"
    BY <1>4, <2>2 DEF AcceptLoopEnds, QuicLoopBusy
  <2>3. QED
    BY <2>1, <2>2
<1>5. CASE UNCHANGED <<pc, accepting>>
  BY <1>5
<1>6. Edge => UNCHANGED accepting \/ \E kind \in {"tcp", "quic"} : AcceptLoopEnds(kind)
  BY DEF Edge, BeginShutdown, Shutdown, CloseListeners, Drained, DrainDeadline,
     CloseTunnels, JoinWorkers, JoinWatchers, JoinDeadline
<1>7. QED
  BY <1>1, <1>2, <1>3, <1>4, <1>5, <1>6, NextGroups, Frames

-----------------------------------------------------------------------------
(* Shutdown                                                                *)

\* When the handlers are joined no session is served.
LEMMA NoneServed ==
  ASSUME IInv, handlerWG = 0, sessionWG = 0
  PROVE  \A c \in Tunnel : pc[c] \notin {"hello", "authed", "serving", "dropping"}
<1>1. Handlers = {} /\ SessionHandlers = {}
  BY OwnedParts, OwnersFinite, FS_EmptySet DEF IInv
<1>2. QED
  BY <1>1, Kinds DEF Handlers, SessionHandlers, At

\* No step adds to a wait group that Shutdown has come to wait for.
LEMMA Monotone ==
  ASSUME IInv, Next
  PROVE  /\ shuttingDown => /\ handlerWG' <= handlerWG /\ sessionWG' <= sessionWG
                            /\ proxyWG' <= proxyWG
         /\ shutdown = "watchers" \/ flush = "flushed" => streamWG' <= streamWG
<1>0. /\ handlerWG \in Int /\ sessionWG \in Int /\ proxyWG \in Int /\ streamWG \in Int
  BY DEF IInv, TypeOK
<1>1. shuttingDown => handlerWG' <= handlerWG
  <2>1. ASSUME NEW c \in Tcp \cup Public, Accepts(c), shuttingDown
        PROVE  handlerWG' <= handlerWG
    BY <1>0, <2>1 DEF Accepts, AcceptTCP, AdmitTCP, Handshake, groupVars
  <2>2. ASSUME NEW c \in Tunnel, Tunnels(c), shuttingDown
        PROVE  handlerWG' <= handlerWG
    BY <1>0, <2>2 DEF Tunnels, acquirePreauth, RegisterPreauth, StartSession, HelloFails,
       acquireAuthenticated, HelloOKFails, promoteAuthenticated, DropBegins, DropEnds,
       Turned, Exit, groupVars
  <2>3. ASSUME NEW c \in Public, Serves(c)
        PROVE  handlerWG' <= handlerWG
    BY <1>0, <2>3 DEF Serves, handlePublic, PublicEnds
  <2>4. CASE UNCHANGED handlerWG
    BY <1>0, <2>4
  <2>5. QED
    BY <2>1, <2>2, <2>3, <2>4, NextGroups, Frames DEF groupVars
<1>2. shuttingDown => sessionWG' <= sessionWG
  <2>1. ASSUME NEW c \in Tunnel, Tunnels(c), shuttingDown
        PROVE  sessionWG' <= sessionWG
    BY <1>0, <2>1 DEF Tunnels, acquirePreauth, RegisterPreauth, StartSession, HelloFails,
       acquireAuthenticated, HelloOKFails, promoteAuthenticated, DropBegins, DropEnds,
       Turned, Exit, groupVars
  <2>2. CASE UNCHANGED sessionWG
    BY <1>0, <2>2
  <2>3. QED
    BY <2>1, <2>2, NextGroups, Frames DEF groupVars
<1>3. shuttingDown => proxyWG' <= proxyWG
  <2>1. ASSUME NEW c \in Public, Proxies(c), shuttingDown
        PROVE  proxyWG' <= proxyWG
    BY <1>0, <2>1 DEF Proxies, beginProxy, Emit, CloseHijacked, finishProxy, wrapHijack,
       AbortHandler, groupVars
  <2>2. CASE UNCHANGED proxyWG
    BY <1>0, <2>2
  <2>3. QED
    BY <2>1, <2>2, NextGroups, Frames DEF groupVars
<1>4. shutdown = "watchers" \/ flush = "flushed" => streamWG' <= streamWG
  <2>1. ASSUME NEW c \in Public, Dials(c), shutdown = "watchers" \/ flush = "flushed"
        PROVE  streamWG' <= streamWG
    <3>1. handlerWG = 0 /\ sessionWG = 0
      BY <2>1 DEF IInv, Quiet, WorkersJoined
    <3>2. dial[c] = "dialing" => pc[target[c]] # "serving"
      BY <3>1, NoneServed DEF IInv, RequestsOwned
    <3>3. QED
      BY <1>0, <2>1, <3>2 DEF Dials, reserveStreamWatcher, WatcherEnds, StartDial, groupVars
  <2>2. CASE UNCHANGED streamWG
    BY <1>0, <2>2
  <2>3. QED
    BY <2>1, <2>2, NextGroups, Frames DEF groupVars
<1>5. QED
  BY <1>1, <1>2, <1>3, <1>4

\* Transports stay closed.
LEMMA ClosedGrows ==
  ASSUME Next
  PROVE  closed \subseteq closed'
<1> USE DEF tableVars
<1>1. ASSUME NEW c \in Tunnel, Tunnels(c) PROVE closed \subseteq closed'
  BY <1>1 DEF Tunnels, acquirePreauth, RegisterPreauth, StartSession, HelloFails,
     acquireAuthenticated, HelloOKFails, promoteAuthenticated, DropBegins, DropEnds,
     Turned, Exit
<1>2. Edge => closed \subseteq closed'
  BY DEF Edge, BeginShutdown, Shutdown, CloseListeners, Drained, DrainDeadline,
     CloseTunnels, JoinWorkers, JoinWatchers, JoinDeadline, AcceptLoopEnds
<1>3. ASSUME NEW c \in Tunnel, SessionCloses(c) PROVE closed \subseteq closed'
  BY <1>3 DEF SessionCloses
<1>4. ASSUME NEW c \in Public, Serves(c) PROVE closed \subseteq closed'
  BY <1>4 DEF Serves, handlePublic, PublicEnds
<1>5. QED
  BY <1>1, <1>2, <1>3, <1>4, NextGroups, Frames

\* A tunnel that is past its admission was so before, or there is no shutdown.
LEMMA NoneSlipsIn ==
  ASSUME IInv, Next, shuttingDown
  PROVE  At(Tunnel, {"preauth", "hello", "authed", "serving"})'
           \subseteq At(Tunnel, {"preauth", "hello", "authed", "serving"})
<1> USE Kinds DEF IInv, TypeOK, At
<1>1. ASSUME NEW c \in Tcp \cup Public, Accepts(c)
      PROVE  \A q \in Tunnel : pc'[q] \in {"preauth", "hello", "authed", "serving"} => pc'[q] = pc[q]
  BY <1>1 DEF Accepts, AcceptTCP, AdmitTCP, Handshake
<1>2. ASSUME NEW c \in Tunnel, Tunnels(c)
      PROVE  \A q \in Tunnel : pc'[q] \in {"preauth", "hello", "authed", "serving"} =>
               pc[q] \in {"preauth", "hello", "authed", "serving"}
  BY <1>2 DEF Tunnels, acquirePreauth, RegisterPreauth, StartSession, HelloFails,
     acquireAuthenticated, HelloOKFails, promoteAuthenticated, DropBegins, DropEnds,
     Turned, Exit
<1>3. ASSUME NEW c \in Public, Serves(c)
      PROVE  \A q \in Tunnel : pc'[q] = pc[q]
  BY <1>3 DEF Serves, handlePublic, PublicEnds
<1>4. QED
  BY <1>1, <1>2, <1>3, NextGroups, Frames

\* What the steps that are not Edge's leave alone of the shutdown.
LEMMA ShutdownFrame ==
  ASSUME Next, ~Edge
  PROVE  UNCHANGED <<shutdownVars, accepting>>
  BY NextGroups, Frames DEF groupVars

\* Every step keeps the snapshots complete.
LEMMA SnapshotsStep ==
  ASSUME IInv, Next
  PROVE  Snapshots'
<1>1. CASE ~Edge
  <2>1. UNCHANGED <<shutdown, snapTunnels>>
    BY <1>1, ShutdownFrame DEF shutdownVars
  <2>2. QED
    BY <2>1, NoneSlipsIn, ClosedGrows DEF IInv, Snapshots, shuttingDown
<1>2. CASE Edge
  <2>0. UNCHANGED <<pc, preauth, sessions>>
    BY <1>2, Frames
  <2>1. CASE BeginShutdown
    <3>1. snapTunnels' = At(Tunnel, {"preauth", "hello", "authed", "serving"})
      BY <2>1 DEF BeginShutdown, IInv, Tables, At
    <3>2. QED
      BY <2>0, <2>1, <3>1 DEF BeginShutdown, Snapshots, At
  <2>2. CASE ~BeginShutdown
    <3>1. /\ UNCHANGED snapTunnels /\ (shuttingDown' => shuttingDown)
          /\ shutdown' \in {"joining", "watchers", "down"} =>
               \/ shutdown \in {"joining", "watchers", "down"}
               \/ snapTunnels \subseteq closed'
      BY <1>2, <2>2 DEF Edge, Shutdown, CloseListeners, Drained, DrainDeadline, CloseTunnels,
         JoinWorkers, JoinWatchers, JoinDeadline, AcceptLoopEnds, shutdownVars, shuttingDown
    <3>2. QED
      BY <2>0, <3>1, ClosedGrows DEF IInv, Snapshots, At
  <2>3. QED
    BY <2>1, <2>2
<1>3. QED
  BY <1>1, <1>2

\* Every step keeps the wait for the watchers, and the flush, quiet.
LEMMA QuietStep ==
  ASSUME IInv, Next
  PROVE  Quiet'
<1>0. /\ handlerWG \in Nat /\ sessionWG \in Nat /\ proxyWG \in Nat /\ streamWG \in Nat
      /\ handlerWG' \in Nat /\ sessionWG' \in Nat /\ proxyWG' \in Nat /\ streamWG' \in Nat
  BY TypeStep DEF IInv, TypeOK
<1>1. CASE ~Edge
  <2>1. UNCHANGED <<shutdown, flush, accepting>>
    BY <1>1, ShutdownFrame DEF shutdownVars
  <2>2. shutdown = "watchers" \/ flush = "flushed" => shuttingDown
    BY DEF IInv, Quiet, shuttingDown
  <2>3. shutdown = "watchers" \/ flush = "flushed" => WorkersJoined'
    BY <1>0, <2>1, <2>2, Monotone DEF IInv, Quiet, WorkersJoined
  <2>4. flush = "flushed" => streamWG' = 0
    BY <1>0, Monotone DEF IInv, Quiet
  <2>5. QED
    BY <2>1, <2>3, <2>4 DEF IInv, Quiet
<1>2. CASE Edge
  <2>1. UNCHANGED <<handlerWG, sessionWG, proxyWG, streamWG>>
    BY <1>2, Frames
  <2>2. accepting' \subseteq accepting
    BY <1>2 DEF Edge, BeginShutdown, Shutdown, CloseListeners, Drained, DrainDeadline,
       CloseTunnels, JoinWorkers, JoinWatchers, JoinDeadline, AcceptLoopEnds, groupVars
  <2>3. WorkersJoined => WorkersJoined'
    BY <2>1, <2>2 DEF WorkersJoined
  <2>4. CASE BeginShutdown \/ CloseListeners \/ Drained \/ DrainDeadline \/ CloseTunnels
    BY <2>4 DEF BeginShutdown, CloseListeners, Drained, DrainDeadline, CloseTunnels, IInv, Quiet
  <2>5. CASE JoinWorkers
    BY <2>3, <2>5 DEF JoinWorkers, IInv, Quiet
  <2>6. CASE JoinWatchers
    BY <2>1, <2>3, <2>6 DEF JoinWatchers, IInv, Quiet
  <2>7. CASE JoinDeadline
    BY <2>7 DEF JoinDeadline, IInv, Quiet
  <2>8. CASE \E kind \in {"tcp", "quic"} : AcceptLoopEnds(kind)
    BY <2>1, <2>3, <2>8 DEF AcceptLoopEnds, shutdownVars, IInv, Quiet
  <2>9. QED
    BY <1>2, <2>4, <2>5, <2>6, <2>7, <2>8 DEF Edge, Shutdown
<1>3. QED
  BY <1>1, <1>2

\* IInv holds initially.
LEMMA InitIInv == Init => IInv
<1> SUFFICES ASSUME Init PROVE IInv
  OBVIOUS
<1>1. TypeOK
  BY LimitsAssumption DEF Init, TypeOK
<1>2. SlotsOwned
  <2>1. /\ TlsOwners = {} /\ PreOwners = {} /\ AuthOwners = {} /\ Handlers = {}
        /\ SessionHandlers = {}
    BY Kinds DEF Init, TlsOwners, PreOwners, AuthOwners, Handlers, SessionHandlers, At
  <2>2. QED
    BY <2>1, OwnedParts, FS_EmptySet DEF Init
<1>3. Places /\ Tables /\ LoopsIdle
  BY Kinds DEF Init, Places, Tables, LoopsIdle, At
<1>4. RequestsOwned
  <2>1. Proxied = {} /\ Watching = {}
    BY DEF Init, Proxied, Watching
  <2>2. QED
    BY <2>1, FS_EmptySet DEF Init, RequestsOwned
<1>5. Snapshots /\ Quiet
  BY DEF Init, Snapshots, Quiet, shuttingDown
<1>6. QED
  BY <1>1, <1>2, <1>3, <1>4, <1>5 DEF IInv

\* Every step keeps IInv.
LEMMA NextIInv == IInv /\ [Next]_vars => IInv'
<1> SUFFICES ASSUME IInv, [Next]_vars PROVE IInv'
  OBVIOUS
<1>1. CASE Next
  BY <1>1, TypeStep, SlotsOwnedStep, PlacesStep, LoopsStep, RequestsOwnedStep, SnapshotsStep,
     QuietStep DEF IInv
<1>2. CASE UNCHANGED vars
  BY <1>2 DEF IInv, TypeOK, SlotsOwned, Places, Tables, LoopsIdle, RequestsOwned, Snapshots,
     Quiet, At, Proxied, Watching, WorkersJoined, shuttingDown, vars, tableVars, slotVars,
     groupVars, requestVars, shutdownVars
<1>3. QED
  BY <1>1, <1>2

-----------------------------------------------------------------------------
(* Theorems                                                                *)

\* The inductive invariant holds in every reachable state.
THEOREM IInvHolds == Spec => []IInv
  BY InitIInv, NextIInv, PTL DEF Spec

\* The admission path never exceeds a capacity, loses a slot or returns one
\* twice, and no session escapes Shutdown's snapshots (acquirePreauth,
\* acquireAuthenticated, promoteAuthenticated, Shutdown).
THEOREM AdmissionHolds == Spec => []Admission
<1>1. IInv => NoneEscapes
  BY DEF IInv, Snapshots, NoneEscapes, At, shuttingDown
<1>2. IInv => Admission
  BY <1>1 DEF IInv, Admission
<1>3. QED
  BY IInvHolds, <1>2, PTL

\* A final flush comes after the event of every admitted request and the bytes
\* of every stream, and after the last session (Shutdown, waitGroups).
THEOREM FlushCompleteHolds == Spec => []FlushComplete
<1>1. IInv => FlushComplete
  <2> SUFFICES ASSUME IInv, flush = "flushed" PROVE FlushComplete
    BY DEF FlushComplete
  <2>1. WorkersJoined /\ streamWG = 0
    BY DEF IInv, Quiet
  <2>2. Proxied = {} /\ Watching = {}
    BY <2>1, OwnersFinite, FS_EmptySet DEF IInv, RequestsOwned, WorkersJoined
  <2>3. \A c \in Tunnel : pc[c] \notin {"hello", "authed", "serving", "preauth"}
    BY <2>1, NoneServed, Kinds DEF IInv, WorkersJoined, LoopsIdle, Places, At
  <2>4. sessions = {} /\ preauth = {}
    BY <2>3 DEF IInv, Tables, At
  <2>5. QED
    BY <2>2, <2>4 DEF IInv, RequestsOwned, FlushComplete, Proxied, Watching
<1>2. QED
  BY IInvHolds, <1>1, PTL

\* Nothing is added to a wait group behind Shutdown's back: handlers, sessions
\* and requests not after the flag, watchers not after the join that waits for
\* them (lifecycleMu, waitGroups).
THEOREM NoLateAddHolds == Spec => NoLateAdd
<1> DEFINE A == /\ shuttingDown => /\ handlerWG' <= handlerWG
                                   /\ sessionWG' <= sessionWG
                                   /\ proxyWG' <= proxyWG
                /\ shutdown = "watchers" \/ flush = "flushed" => streamWG' <= streamWG
<1>1. ASSUME IInv, [Next]_vars PROVE [A]_vars
  BY <1>1, Monotone
<1>2. QED
  BY <1>1, IInvHolds, PTL DEF Spec, NoLateAdd

\* A request whose handler was aborted keeps its proxy slot for good, so that
\* no Shutdown after it flushes: finishOrdinaryProxy is not deferred.
AbortPinsFlush == \A c \in Public : req[c] = "aborted" => proxyWG > 0 /\ flush # "flushed"

THEOREM AbortPinsFlushHolds == Spec => []AbortPinsFlush
<1>1. IInv => AbortPinsFlush
  <2> SUFFICES ASSUME IInv, NEW c \in Public, req[c] = "aborted"
               PROVE  proxyWG > 0 /\ flush # "flushed"
    BY DEF AbortPinsFlush
  <2>1. Proxied # {}
    BY DEF Proxied
  <2>2. Cardinality(Proxied) \in Nat /\ Cardinality(Proxied) # 0
    BY <2>1, OwnersFinite, FS_EmptySet, FS_CardinalityType
  <2>3. proxyWG > 0
    BY <2>2 DEF IInv, RequestsOwned
  <2>4. QED
    BY <2>3 DEF IInv, Quiet, WorkersJoined
<1>2. QED
  BY IInvHolds, <1>1, PTL
=============================================================================
