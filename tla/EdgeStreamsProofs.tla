-------------------------- MODULE EdgeStreamsProofs --------------------------
(***************************************************************************)
(* Proofs about EdgeStreams, for every set of sessions, requests and       *)
(* hostnames and every capacity: each stream slot and each watcher count   *)
(* has one owner, the authenticated slot is returned last, a replaced      *)
(* route opens nothing, and the traffic store ends with every byte that    *)
(* was counted before its connection was reported, once. What the dial     *)
(* takes from its neighbours is proved to be theirs: the table is          *)
(* HostTable, and each transport keeps TunnelContract.                     *)
(***************************************************************************)
EXTENDS EdgeStreams, FiniteSetTheorems, TLAPS

-----------------------------------------------------------------------------
(* The inductive invariant                                                 *)

\* A handler that has not started its dial has none, a dial past its snapshot
\* has a route, a live stream has its watcher, and a dial that has no watcher
\* yet has no stream.
Phases ==
    \A r \in Request :
        /\ handler[r] \in {"idle", "routed"} => dial[r] = "none"
        /\ dial[r] \notin {"none", "start", "failed"} => snap[r] # None
        /\ stream[r] \in {"open", "closing"} => dial[r] = "watching"
        /\ dial[r] \notin {"watching", "final", "unwatched", "over"}
             => stream[r] = "none"

\* dropSession closes admission first and returns the authenticated slot last,
\* after the transport's Done and the last watcher.
DropOrder ==
    \A s \in Session :
        /\ s \in streamsClosing <=> drop[s] # "serving"
        /\ s \in authSlots <=> drop[s] # "gone"
        /\ drop[s] \in {"joined", "gone"} => s \in done
        /\ s \in done => s \in closed /\ StreamsOf(s) = {}
        /\ drop[s] = "gone" => sessionWG[s] = 0

\* A Route is installed once: what is in the table or captured is not newer
\* than the last one installed, so a later one is another.
Identities ==
    /\ \A h \in Host : routes[h] # None => routes[h].id <= installed
    /\ \A r \in Request : snap[r] # None => snap[r].id <= installed

\* A dial that got its lease on a stale route is on its way out, or will find
\* that the route is not the current one.
StaleOut ==
    \A r \in stale :
        /\ dial[r] \in {"leased", "unlease", "unreserve", "failed"}
        /\ dial[r] = "leased" => routes[HostOf[r]] # snap[r]

\* A byte is counted after it has moved, and late only after the report.
Counters ==
    \A r \in Request :
        /\ late[r] <= counted[r] /\ counted[r] <= passed[r]
        /\ r \notin finalized => late[r] = 0

IInv == TypeOK /\ SlotsOwned /\ Phases /\ DropOrder /\ Identities /\ StaleOut /\ Counters

-----------------------------------------------------------------------------
(* Routes and counts                                                       *)

\* What a Route is made of.
LEMMA RouteFields ==
  /\ \A x \in Route : x.session \in Session /\ x.id \in 1..MaxRoutes /\ x # None
  /\ \A s \in Session, n \in 1..MaxRoutes :
       /\ [session |-> s, id |-> n] \in Route
       /\ [session |-> s, id |-> n].id = n
  BY NoneAssumption DEF Route

\* A set that differs from another in one element at most.
LEMMA CountMoves ==
  ASSUME NEW S, NEW T, NEW r, IsFiniteSet(S), S \ {r} = T \ {r}
  PROVE  /\ IsFiniteSet(T) /\ Cardinality(S) \in Nat /\ Cardinality(T) \in Nat
         /\ Cardinality(T) = Cardinality(S) + (IF r \in T THEN 1 ELSE 0)
                                           - (IF r \in S THEN 1 ELSE 0)
         /\ r \in S => Cardinality(S) > 0
<1> DEFINE R == S \ {r}
<1>1. IsFiniteSet(R)
  BY FS_RemoveElement
<1>2. Cardinality(R) \in Nat /\ Cardinality(S) \in Nat
  BY <1>1, FS_CardinalityType
<1>3. Cardinality(S) = Cardinality(R) + (IF r \in S THEN 1 ELSE 0)
  <2>1. Cardinality(R) = IF r \in S THEN Cardinality(S) - 1 ELSE Cardinality(S)
    BY FS_RemoveElement
  <2>2. QED
    BY <1>2, <2>1
<1>4. CASE r \in T
  <2>1. T = R \cup {r}
    BY <1>4
  <2>2. IsFiniteSet(T) /\ Cardinality(T) = Cardinality(R) + 1
    BY <1>1, <2>1, FS_AddElement
  <2>3. QED
    BY <1>2, <1>3, <1>4, <2>2
<1>5. CASE r \notin T
  <2>1. T = R
    BY <1>5
  <2>2. QED
    BY <1>1, <1>2, <1>3, <1>5, <2>1
<1>6. QED
  BY <1>4, <1>5

Global == {r \in Request : dial[r] = "global"}

\* The sets the counters count are finite.
LEMMA CountsFinite ==
  /\ IsFiniteSet(Leased) /\ IsFiniteSet(Global) /\ IsFiniteSet(Watched)
  /\ \A s \in Session : IsFiniteSet(Leased \cap On(s)) /\ IsFiniteSet(Watched \cap On(s))
<1>1. /\ Leased \subseteq Request /\ Global \subseteq Request /\ Watched \subseteq Request
      /\ \A s \in Session : Leased \cap On(s) \subseteq Request
                          /\ Watched \cap On(s) \subseteq Request
  BY DEF Leased, Global, Watched
<1>2. QED
  BY <1>1, FiniteAssumption, FS_Subset

\* What a step of one dial does to the counts.
LEMMA DialCounts ==
  ASSUME NEW r \in Request,
         \A q \in Request : q # r => dial'[q] = dial[q] /\ snap'[q] = snap[q]
  PROVE  /\ Cardinality(Leased') = Cardinality(Leased)
              + (IF r \in Leased' THEN 1 ELSE 0) - (IF r \in Leased THEN 1 ELSE 0)
         /\ Cardinality(Global') = Cardinality(Global)
              + (IF r \in Global' THEN 1 ELSE 0) - (IF r \in Global THEN 1 ELSE 0)
         /\ Cardinality(Watched') = Cardinality(Watched)
              + (IF r \in Watched' THEN 1 ELSE 0) - (IF r \in Watched THEN 1 ELSE 0)
         /\ \A s \in Session :
              /\ Cardinality((Leased \cap On(s))') = Cardinality(Leased \cap On(s))
                   + (IF r \in (Leased \cap On(s))' THEN 1 ELSE 0)
                   - (IF r \in Leased \cap On(s) THEN 1 ELSE 0)
              /\ Cardinality((Watched \cap On(s))') = Cardinality(Watched \cap On(s))
                   + (IF r \in (Watched \cap On(s))' THEN 1 ELSE 0)
                   - (IF r \in Watched \cap On(s) THEN 1 ELSE 0)
<1>1. /\ Leased \ {r} = Leased' \ {r} /\ Global \ {r} = Global' \ {r}
      /\ Watched \ {r} = Watched' \ {r}
  BY DEF Leased, Global, Watched
<1>2. \A s \in Session : On(s) \ {r} = On(s)' \ {r}
  BY DEF On
<1>3. \A s \in Session :
        /\ (Leased \cap On(s)) \ {r} = (Leased \cap On(s))' \ {r}
        /\ (Watched \cap On(s)) \ {r} = (Watched \cap On(s))' \ {r}
  BY <1>1, <1>2
<1>4. QED
  BY <1>1, <1>3, CountsFinite, CountMoves

\* Counts are natural numbers, positive for an owner.
LEMMA CountsNat ==
  /\ Cardinality(Leased) \in Nat /\ Cardinality(Global) \in Nat
  /\ Cardinality(Watched) \in Nat
  /\ \A s \in Session : /\ Cardinality(Leased \cap On(s)) \in Nat
                       /\ Cardinality(Watched \cap On(s)) \in Nat
  /\ \A r \in Leased : Cardinality(Leased) > 0
  /\ \A r \in Global : Cardinality(Global) > 0
  /\ \A r \in Watched : Cardinality(Watched) > 0
  /\ \A s \in Session :
       /\ \A r \in Leased \cap On(s) : Cardinality(Leased \cap On(s)) > 0
       /\ \A r \in Watched \cap On(s) : Cardinality(Watched \cap On(s)) > 0
  BY CountsFinite, CountMoves

\* A step that moves no dial moves no count.
LEMMA CountsUnmoved ==
  ASSUME UNCHANGED <<dial, snap>>
  PROVE  /\ Leased' = Leased /\ Global' = Global /\ Watched' = Watched
         /\ \A s \in Session : On(s)' = On(s)
  BY DEF Leased, Global, Watched, On

-----------------------------------------------------------------------------
(* Init                                                                    *)

\* IInv holds initially.
LEMMA InitIInv == Init => IInv
<1> SUFFICES ASSUME Init PROVE IInv
  OBVIOUS
<1>1. TypeOK
  BY CapacityAssumption DEF Init, TypeOK, DialPC
<1>2. SlotsOwned
  <2>1. Leased = {} /\ Watched = {} /\ {r \in Request : dial[r] = "global"} = {}
    BY DEF Init, Leased, Watched
  <2>2. \A s \in Session : Leased \cap On(s) = {} /\ Watched \cap On(s) = {}
    BY <2>1
  <2>3. QED
    BY <2>1, <2>2, FS_EmptySet DEF Init, SlotsOwned
<1>3. Phases /\ Identities /\ StaleOut /\ Counters
  BY DEF Init, Phases, Identities, StaleOut, Counters
<1>4. DropOrder
  BY DEF Init, DropOrder
<1>5. QED
  BY <1>1, <1>2, <1>3, <1>4 DEF IInv

-----------------------------------------------------------------------------
(* Types                                                                   *)

\* A released lease or watcher had an owner, so no counter goes below zero.
LEMMA ReleasesTyped ==
  ASSUME IInv, NEW r \in Request
  PROVE  /\ r \in Leased => globalSlots - 1 \in 0..MaxStreamsTotal
         /\ r \in Global => globalSlots - 1 \in 0..MaxStreamsTotal
         /\ r \in Watched => edgeWG - 1 \in Nat
         /\ r \in Watched => snap[r] # None /\ snap[r].session \in Session
         /\ r \in Leased => sessionSlots[snap[r].session] - 1 \in 0..MaxStreams
         /\ r \in Watched => sessionWG[snap[r].session] - 1 \in Nat
<1> USE CapacityAssumption, CountsNat DEF IInv
<1>1. r \in Watched => snap[r] # None /\ snap[r].session \in Session /\ r \in On(snap[r].session)
  BY RouteFields DEF TypeOK, Phases, Watched, On
<1>2. r \in Leased => r \in Watched
  BY DEF Leased, Watched
<1>3. /\ r \in Leased => globalSlots > 0
      /\ r \in Global => globalSlots > 0
      /\ r \in Watched => edgeWG > 0
  <2>1. globalSlots = Cardinality(Leased) + Cardinality(Global) /\ edgeWG = Cardinality(Watched)
    BY DEF SlotsOwned, Global
  <2>2. QED
    BY <2>1
<1>4. /\ r \in Leased => sessionSlots[snap[r].session] > 0
      /\ r \in Watched => sessionWG[snap[r].session] > 0
  BY <1>1, <1>2 DEF SlotsOwned
<1>5. /\ globalSlots \in 0..MaxStreamsTotal /\ edgeWG \in Nat
      /\ r \in Watched => /\ sessionSlots[snap[r].session] \in 0..MaxStreams
                         /\ sessionWG[snap[r].session] \in Nat
  BY <1>1 DEF TypeOK
<1>6. QED
  BY <1>1, <1>2, <1>3, <1>4, <1>5

\* The steps of sessions and of the table keep the types.
LEMMA SessionsTyped ==
  ASSUME IInv, NEW s \in Session,
         \/ CloseTransport(s) \/ PublishDone(s) \/ Drop(s)
         \/ \E h \in Host : InstallRoute(s, h) \/ RemoveRoute(s, h)
  PROVE  TypeOK'
<1> USE CapacityAssumption DEF IInv, TypeOK, tableVars, sessionVars, leaseVars, watcherVars, byteVars
<1>1. CASE CloseTransport(s) \/ PublishDone(s)
  BY <1>1 DEF CloseTransport, PublishDone
<1>2. CASE Drop(s)
  BY <1>2 DEF Drop, StopAdmission, DropRoutes, JoinTransport, ReleaseAuth
<1>3. ASSUME NEW h \in Host, InstallRoute(s, h)
      PROVE  TypeOK'
  <2>1. installed + 1 \in 1..MaxRoutes
    BY <1>3 DEF InstallRoute
  <2>2. [session |-> s, id |-> installed + 1] \in Route
    BY <2>1, RouteFields
  <2>3. QED
    BY <1>3, <2>1, <2>2 DEF InstallRoute
<1>4. ASSUME NEW h \in Host, RemoveRoute(s, h)
      PROVE  TypeOK'
  BY <1>4 DEF RemoveRoute
<1>5. QED
  BY <1>1, <1>2, <1>3, <1>4

\* The steps of a handler and of its stream keep the types.
LEMMA HandlersTyped ==
  ASSUME IInv, NEW r \in Request,
         Lookup(r) \/ ProxyFor(r) \/ Cancel(r) \/ Closes(r) \/ Moves(r)
         \/ Abort(r) \/ StreamDone(r) \/ Finalize(r)
  PROVE  TypeOK'
<1> USE CapacityAssumption, HostAssumption
    DEF IInv, TypeOK, DialPC, tableVars, sessionVars, leaseVars, watcherVars, byteVars
<1>1. CASE Lookup(r) \/ Cancel(r)
  BY <1>1 DEF Lookup, Cancel
<1>2. CASE ProxyFor(r)
  BY <1>2 DEF ProxyFor
<1>3. CASE Closes(r)
  BY <1>3 DEF Closes, CloseConn, EndHandler, finalize
<1>4. CASE Moves(r)
  BY <1>4 DEF Moves, Transfer, Count, Counters
<1>5. CASE Abort(r) \/ StreamDone(r)
  BY <1>5 DEF Abort, StreamDone
<1>6. CASE Finalize(r)
  BY <1>6 DEF Finalize, finalize
<1>7. QED
  BY <1>1, <1>2, <1>3, <1>4, <1>5, <1>6

\* The steps of openRouteStream and of the watcher's onDone keep the types.
LEMMA DialsTyped ==
  ASSUME IInv, NEW r \in Request, Dial(r) \/ DoneLease(r) \/ DoneWatcher(r)
  PROVE  TypeOK'
<1> USE CapacityAssumption, HostAssumption
    DEF IInv, TypeOK, DialPC, tableVars, sessionVars, leaseVars, watcherVars, byteVars
<1>1. CASE Snapshot(r)
  BY <1>1 DEF Snapshot
<1>2. CASE reserveStreamWatcher(r)
  <2>1. snap[r].session \in Session
    BY <1>2, RouteFields DEF Phases, reserveStreamWatcher
  <2>2. QED
    BY <1>2, <2>1 DEF reserveStreamWatcher
<1>3. CASE AcquireGlobal(r)
  BY <1>3 DEF AcquireGlobal
<1>4. CASE AcquireSession(r)
  <2>1. snap[r].session \in Session /\ r \in Global
    BY <1>4, RouteFields DEF Phases, AcquireSession, Global
  <2>2. globalSlots - 1 \in 0..MaxStreamsTotal
    BY <2>1, ReleasesTyped
  <2>3. QED
    BY <1>4, <2>1, <2>2 DEF AcquireSession
<1>5. CASE Recheck(r) \/ OpenStream(r) \/ OpenFails(r)
  BY <1>5 DEF Recheck, OpenStream, OpenFails
<1>6. CASE UnwindLease(r) \/ DoneLease(r)
  <2>1. r \in Leased /\ r \in Watched
    BY <1>6 DEF UnwindLease, DoneLease, Leased, Watched
  <2>2. /\ globalSlots - 1 \in 0..MaxStreamsTotal /\ snap[r].session \in Session
        /\ sessionSlots[snap[r].session] - 1 \in 0..MaxStreams
    BY <2>1, ReleasesTyped
  <2>3. QED
    BY <1>6, <2>2 DEF UnwindLease, DoneLease, release
<1>7. CASE UnwindWatcher(r) \/ DoneWatcher(r)
  <2>1. r \in Watched
    BY <1>7 DEF UnwindWatcher, DoneWatcher, Watched
  <2>2. /\ edgeWG - 1 \in Nat /\ snap[r].session \in Session
        /\ sessionWG[snap[r].session] - 1 \in Nat
    BY <2>1, ReleasesTyped
  <2>3. QED
    BY <1>7, <2>2 DEF UnwindWatcher, DoneWatcher, releaseStreamWatcher
<1>8. QED
  BY <1>1, <1>2, <1>3, <1>4, <1>5, <1>6, <1>7 DEF Dial

-----------------------------------------------------------------------------
(* Owners of slots and watchers                                            *)

\* SlotsOwned in terms of Global.
LEMMA OwnedParts ==
  SlotsOwned <=>
    /\ globalSlots = Cardinality(Leased) + Cardinality(Global)
    /\ edgeWG = Cardinality(Watched)
    /\ \A s \in Session : /\ sessionSlots[s] = Cardinality(Leased \cap On(s))
                         /\ sessionWG[s] = Cardinality(Watched \cap On(s))
  BY DEF SlotsOwned, Global

\* One if the request is among the owners.
One(r, owners) == IF r \in owners THEN 1 ELSE 0

\* A step of one dial keeps every count at its owners: its own change of place
\* and the change of the counters agree.
LEMMA OwnersMove ==
  ASSUME IInv, NEW r \in Request,
         \A q \in Request : q # r => dial'[q] = dial[q] /\ snap'[q] = snap[q],
         r \in Watched \/ r \in Watched' => snap'[r] = snap[r],
         globalSlots' = globalSlots + One(r, Leased') + One(r, Global')
                                    - One(r, Leased) - One(r, Global),
         edgeWG' = edgeWG + One(r, Watched') - One(r, Watched),
         \A s \in Session :
           IF r \in On(s)
           THEN /\ sessionSlots'[s] = sessionSlots[s] + One(r, Leased') - One(r, Leased)
                /\ sessionWG'[s] = sessionWG[s] + One(r, Watched') - One(r, Watched)
           ELSE sessionSlots'[s] = sessionSlots[s] /\ sessionWG'[s] = sessionWG[s]
  PROVE  SlotsOwned'
<1>0. Leased \subseteq Watched /\ Leased' \subseteq Watched'
  BY DEF Leased, Watched
<1>1. /\ globalSlots = Cardinality(Leased) + Cardinality(Global)
      /\ edgeWG = Cardinality(Watched)
      /\ \A s \in Session : /\ sessionSlots[s] = Cardinality(Leased \cap On(s))
                           /\ sessionWG[s] = Cardinality(Watched \cap On(s))
  BY OwnedParts DEF IInv
<1>2. globalSlots' = Cardinality(Leased') + Cardinality(Global')
  BY <1>1, DialCounts, CountsNat DEF One
<1>3. edgeWG' = Cardinality(Watched')
  BY <1>1, DialCounts, CountsNat DEF One
<1>4. ASSUME NEW s \in Session
      PROVE  /\ sessionSlots'[s] = Cardinality((Leased \cap On(s))')
             /\ sessionWG'[s] = Cardinality((Watched \cap On(s))')
  <2>1. r \in Watched \/ r \in Watched' => (r \in On(s) <=> r \in On(s)')
    BY DEF On
  <2>2. /\ Cardinality((Leased \cap On(s))') = Cardinality(Leased \cap On(s))
             + One(r, (Leased \cap On(s))') - One(r, Leased \cap On(s))
        /\ Cardinality((Watched \cap On(s))') = Cardinality(Watched \cap On(s))
             + One(r, (Watched \cap On(s))') - One(r, Watched \cap On(s))
    BY DialCounts DEF One
  <2>3. /\ sessionSlots[s] = Cardinality(Leased \cap On(s))
        /\ sessionWG[s] = Cardinality(Watched \cap On(s))
        /\ Cardinality(Leased \cap On(s)) \in Nat /\ Cardinality(Watched \cap On(s)) \in Nat
    BY <1>1, CountsNat
  <2>4. CASE r \in On(s)
    <3>1. /\ sessionSlots'[s] = sessionSlots[s] + One(r, Leased') - One(r, Leased)
          /\ sessionWG'[s] = sessionWG[s] + One(r, Watched') - One(r, Watched)
      BY <2>4
    <3>2. /\ One(r, (Leased \cap On(s))') - One(r, Leased \cap On(s))
               = One(r, Leased') - One(r, Leased)
          /\ One(r, (Watched \cap On(s))') - One(r, Watched \cap On(s))
               = One(r, Watched') - One(r, Watched)
      BY <1>0, <2>1, <2>4 DEF One
    <3>3. QED
      BY <2>2, <2>3, <3>1, <3>2 DEF One
  <2>5. CASE r \notin On(s)
    <3>1. sessionSlots'[s] = sessionSlots[s] /\ sessionWG'[s] = sessionWG[s]
      BY <2>5
    <3>2. /\ One(r, (Leased \cap On(s))') = 0 /\ One(r, Leased \cap On(s)) = 0
          /\ One(r, (Watched \cap On(s))') = 0 /\ One(r, Watched \cap On(s)) = 0
      BY <1>0, <2>1, <2>5 DEF One
    <3>3. QED
      BY <2>2, <2>3, <3>1, <3>2
  <2>6. QED
    BY <2>4, <2>5
<1>5. QED
  BY <1>2, <1>3, <1>4 DEF SlotsOwned, Global

\* A step that moves no dial and no counter keeps the owners.
LEMMA OwnersStay ==
  ASSUME IInv, UNCHANGED <<dial, snap, leaseVars, watcherVars>>
  PROVE  SlotsOwned'
  BY CountsUnmoved, OwnedParts DEF IInv, leaseVars, watcherVars, SlotsOwned, Global

\* The steps of sessions, table, handlers and streams move no dial.
LEMMA OthersOwned ==
  ASSUME IInv,
         \/ \E s \in Session :
              \/ CloseTransport(s) \/ PublishDone(s) \/ Drop(s)
              \/ \E h \in Host : InstallRoute(s, h) \/ RemoveRoute(s, h)
         \/ \E r \in Request :
              \/ Lookup(r) \/ Cancel(r) \/ Closes(r) \/ Moves(r)
              \/ Abort(r) \/ StreamDone(r)
  PROVE  SlotsOwned'
<1>1. UNCHANGED <<dial, snap, leaseVars, watcherVars>>
  BY DEF CloseTransport, PublishDone, Drop, StopAdmission, DropRoutes, JoinTransport,
     ReleaseAuth, InstallRoute, RemoveRoute, Lookup, Cancel, Closes, CloseConn,
     EndHandler, Moves, Transfer, Count, Abort, StreamDone
<1>2. QED
  BY <1>1, OwnersStay

\* Where a dial stands tells what it owns.
LEMMA PlaceOwns ==
  ASSUME NEW r \in Request
  PROVE  /\ One(r, Leased) =
              IF dial[r] \in {"leased", "current", "unlease", "watching", "final"} THEN 1 ELSE 0
         /\ One(r, Global) = IF dial[r] = "global" THEN 1 ELSE 0
         /\ One(r, Watched) =
              IF dial[r] \notin {"none", "start", "snapped", "failed", "over"} THEN 1 ELSE 0
         /\ One(r, Leased') =
              IF dial'[r] \in {"leased", "current", "unlease", "watching", "final"} THEN 1 ELSE 0
         /\ One(r, Global') = IF dial'[r] = "global" THEN 1 ELSE 0
         /\ One(r, Watched') =
              IF dial'[r] \notin {"none", "start", "snapped", "failed", "over"} THEN 1 ELSE 0
  BY DEF One, Leased, Global, Watched

\* The steps of a dial and its watcher move what they own with them.
LEMMA DialsOwned ==
  ASSUME IInv, NEW r \in Request,
         ProxyFor(r) \/ Dial(r) \/ Finalize(r) \/ DoneLease(r) \/ DoneWatcher(r)
  PROVE  SlotsOwned'
<1> USE PlaceOwns DEF leaseVars, watcherVars
<1>0. /\ dial \in [Request -> DialPC] /\ snap \in [Request -> Route \cup {None}]
      /\ globalSlots \in Int /\ sessionSlots \in [Session -> Int]
      /\ edgeWG \in Int /\ sessionWG \in [Session -> Int]
  BY CapacityAssumption DEF IInv, TypeOK
<1>1. \A s \in Session : r \in On(s) <=> snap[r] # None /\ snap[r].session = s
  BY DEF On
<1>2. dial[r] \notin {"none", "start", "failed"} => snap[r] # None
  BY DEF IInv, Phases
<1>3. CASE ProxyFor(r) \/ Snapshot(r)
  <2>1. dial'[r] \in {"start", "snapped", "failed"} /\ dial[r] \in {"none", "start"}
    BY <1>0, <1>3 DEF IInv, Phases, ProxyFor, Snapshot
  <2>2. r \notin Watched /\ r \notin Watched'
    BY <2>1 DEF Watched
  <2>3. /\ UNCHANGED <<globalSlots, edgeWG, sessionSlots, sessionWG>>
        /\ \A q \in Request : q # r => dial'[q] = dial[q] /\ snap'[q] = snap[q]
    BY <1>0, <1>3 DEF ProxyFor, Snapshot
  <2>4. QED
    BY <1>0, <2>1, <2>2, <2>3, OwnersMove
<1>4. CASE reserveStreamWatcher(r)
  BY <1>0, <1>1, <1>2, <1>4, OwnersMove DEF reserveStreamWatcher
<1>5. CASE AcquireGlobal(r)
  BY <1>0, <1>1, <1>5, OwnersMove DEF AcquireGlobal
<1>6. CASE AcquireSession(r)
  BY <1>0, <1>1, <1>2, <1>6, OwnersMove DEF AcquireSession
<1>7. CASE Recheck(r) \/ OpenStream(r) \/ OpenFails(r) \/ Finalize(r)
  BY <1>0, <1>7, OwnersMove DEF Recheck, OpenStream, OpenFails, Finalize
<1>8. CASE UnwindLease(r) \/ DoneLease(r)
  BY <1>0, <1>1, <1>2, <1>8, OwnersMove DEF UnwindLease, DoneLease, release
<1>9. CASE UnwindWatcher(r) \/ DoneWatcher(r)
  BY <1>0, <1>1, <1>2, <1>9, OwnersMove DEF UnwindWatcher, DoneWatcher, releaseStreamWatcher
<1>10. QED
  BY <1>3, <1>4, <1>5, <1>6, <1>7, <1>8, <1>9 DEF Dial

-----------------------------------------------------------------------------
(* Phases, the order of dropSession and the identity of routes             *)

\* The steps of sessions and table leave dials and streams alone.
LEMMA SessionsPhased ==
  ASSUME IInv, NEW s \in Session,
         \/ CloseTransport(s) \/ PublishDone(s) \/ Drop(s)
         \/ \E h \in Host : InstallRoute(s, h) \/ RemoveRoute(s, h)
  PROVE  Phases'
<1>1. UNCHANGED <<handler, dial, snap, stream>>
  BY DEF CloseTransport, PublishDone, Drop, StopAdmission, DropRoutes, JoinTransport,
     ReleaseAuth, InstallRoute, RemoveRoute
<1>2. QED
  BY <1>1 DEF IInv, Phases

\* Dials, handlers and streams keep step with each other.
LEMMA RequestsPhased ==
  ASSUME IInv, NEW r \in Request,
         \/ Lookup(r) \/ ProxyFor(r) \/ Cancel(r) \/ Closes(r) \/ Moves(r)
         \/ Dial(r) \/ Watch(r)
  PROVE  Phases'
<1> USE DEF IInv, TypeOK, Phases
<1>1. CASE Lookup(r) \/ ProxyFor(r) \/ Cancel(r) \/ Moves(r)
  BY <1>1 DEF Lookup, ProxyFor, Cancel, Moves, Transfer, Count
<1>2. CASE Closes(r)
  BY <1>2 DEF Closes, CloseConn, EndHandler
<1>3. CASE Snapshot(r) \/ reserveStreamWatcher(r)
  BY <1>3, HostAssumption DEF Snapshot, reserveStreamWatcher
<1>4. CASE AcquireGlobal(r) \/ AcquireSession(r) \/ Recheck(r)
  BY <1>4 DEF AcquireGlobal, AcquireSession, Recheck
<1>5. CASE OpenStream(r) \/ OpenFails(r) \/ UnwindLease(r) \/ UnwindWatcher(r)
  BY <1>5 DEF OpenStream, OpenFails, UnwindLease, UnwindWatcher
<1>6. CASE Watch(r)
  BY <1>6 DEF Watch, Abort, StreamDone, Finalize, DoneLease, DoneWatcher
<1>7. QED
  BY <1>1, <1>2, <1>3, <1>4, <1>5, <1>6 DEF Dial

\* dropSession goes through its steps in order.
LEMMA SessionsDropped ==
  ASSUME IInv, NEW s \in Session,
         \/ CloseTransport(s) \/ PublishDone(s) \/ Drop(s)
         \/ \E h \in Host : InstallRoute(s, h) \/ RemoveRoute(s, h)
  PROVE  DropOrder'
<1>0. \A q \in Session : StreamsOf(q)' = StreamsOf(q)
  BY DEF CloseTransport, PublishDone, Drop, StopAdmission, DropRoutes, JoinTransport,
     ReleaseAuth, InstallRoute, RemoveRoute, StreamsOf
<1> USE DEF IInv, TypeOK, DropOrder, watcherVars, sessionVars
<1>1. CASE CloseTransport(s) \/ PublishDone(s)
  BY <1>0, <1>1 DEF CloseTransport, PublishDone
<1>2. CASE StopAdmission(s) \/ DropRoutes(s)
  BY <1>0, <1>2 DEF StopAdmission, DropRoutes
<1>3. CASE JoinTransport(s) \/ ReleaseAuth(s)
  BY <1>0, <1>3 DEF JoinTransport, ReleaseAuth
<1>4. CASE \E h \in Host : InstallRoute(s, h) \/ RemoveRoute(s, h)
  BY <1>0, <1>4 DEF InstallRoute, RemoveRoute
<1>5. QED
  BY <1>1, <1>2, <1>3, <1>4 DEF Drop

\* A request's streams only grow on a session that is open, and its watchers
\* only on one that still admits them.
LEMMA RequestsDropped ==
  ASSUME IInv, NEW r \in Request,
         \/ Lookup(r) \/ ProxyFor(r) \/ Cancel(r) \/ Closes(r) \/ Moves(r)
         \/ Dial(r) \/ Watch(r)
  PROVE  DropOrder'
<1>1. UNCHANGED sessionVars
  BY DEF Lookup, ProxyFor, Cancel, Closes, CloseConn, EndHandler, Moves, Transfer, Count,
     Dial, Snapshot, reserveStreamWatcher,
     AcquireGlobal, AcquireSession, Recheck, OpenStream, OpenFails, UnwindLease, UnwindWatcher,
     Watch, Abort, StreamDone, Finalize, DoneLease, DoneWatcher
<1>2. ASSUME NEW s \in closed
      PROVE  StreamsOf(s)' \subseteq StreamsOf(s)
  <2> USE DEF IInv, TypeOK, Phases, StreamsOf
  <2>1. CASE Lookup(r) \/ ProxyFor(r) \/ Cancel(r) \/ Closes(r) \/ Moves(r)
    BY <2>1 DEF Lookup, ProxyFor, Cancel, Closes, CloseConn, EndHandler, Moves, Transfer, Count
  <2>2. CASE Snapshot(r)
    BY <2>2 DEF Snapshot
  <2>3. CASE OpenStream(r)
    BY <1>2, <2>3 DEF OpenStream
  <2>4. CASE Watch(r)
    BY <2>4 DEF Watch, Abort, StreamDone, Finalize, DoneLease, DoneWatcher
  <2>5. CASE UNCHANGED <<stream, snap>>
    BY <2>5
  <2>6. QED
    BY <2>1, <2>2, <2>3, <2>4, <2>5 DEF Dial, reserveStreamWatcher, AcquireGlobal,
       AcquireSession, Recheck, OpenFails, UnwindLease, UnwindWatcher
<1>3. ASSUME NEW s \in Session, s \in streamsClosing, sessionWG[s] = 0
      PROVE  sessionWG'[s] = 0
  <2>1. CASE reserveStreamWatcher(r)
    BY <1>3, <2>1, RouteFields DEF IInv, TypeOK, Phases, reserveStreamWatcher, watcherVars
  <2>2. CASE UnwindWatcher(r) \/ DoneWatcher(r)
    <3>1. r \in Watched
      BY <2>2 DEF UnwindWatcher, DoneWatcher, Watched
    <3>2. snap[r].session # s
      BY <1>3, <3>1, ReleasesTyped
    <3>3. QED
      BY <1>3, <2>2, <3>2 DEF IInv, TypeOK, UnwindWatcher, DoneWatcher, releaseStreamWatcher
  <2>3. CASE UNCHANGED sessionWG
    BY <1>3, <2>3
  <2>4. QED
    BY <2>1, <2>2, <2>3 DEF Lookup, ProxyFor, Cancel, Closes, CloseConn, EndHandler, Moves,
       Transfer, Count, Dial, Snapshot,
       AcquireGlobal, AcquireSession, Recheck, OpenStream, OpenFails, UnwindLease,
       Watch, Abort, StreamDone, Finalize, DoneLease, watcherVars
<1>4. QED
  BY <1>1, <1>2, <1>3 DEF IInv, TypeOK, DropOrder, sessionVars

\* A new Route is newer than all, and a removed one is gone: a dial whose route
\* is not the current one stays so.
LEMMA SessionsIdentified ==
  ASSUME IInv, NEW s \in Session,
         \/ CloseTransport(s) \/ PublishDone(s) \/ Drop(s)
         \/ \E h \in Host : InstallRoute(s, h) \/ RemoveRoute(s, h)
  PROVE  Identities' /\ StaleOut'
<1> USE HostAssumption, RouteFields DEF IInv, TypeOK, Identities, StaleOut, Phases
<1>1. CASE \E h \in Host : InstallRoute(s, h)
  <2>1. PICK h \in Host : InstallRoute(s, h)
    BY <1>1
  <2>2. installed + 1 \in 1..MaxRoutes /\ installed \in Nat
    BY <2>1, CapacityAssumption DEF InstallRoute
  <2>3. [session |-> s, id |-> installed + 1] \in Route
        /\ [session |-> s, id |-> installed + 1].id = installed + 1
    BY <2>2
  <2>4. \A x \in Route : x.id \in Int
    OBVIOUS
  <2>5. installed' = installed + 1 /\ UNCHANGED <<snap, dial, stale>>
        /\ routes' = [routes EXCEPT ![h] = [session |-> s, id |-> installed + 1]]
    BY <2>1 DEF InstallRoute
  <2>6. Identities'
    BY <2>2, <2>3, <2>4, <2>5
  <2>7. \A r \in Request : snap[r] # [session |-> s, id |-> installed + 1]
    BY <2>2, <2>3, <2>4
  <2>8. StaleOut'
    BY <2>3, <2>5, <2>7
  <2>9. QED
    BY <2>6, <2>8
<1>2. CASE \E h \in Host : RemoveRoute(s, h)
  BY <1>2 DEF RemoveRoute
<1>3. CASE Drop(s)
  BY <1>3 DEF Drop, StopAdmission, DropRoutes, JoinTransport, ReleaseAuth, tableVars
<1>4. CASE CloseTransport(s) \/ PublishDone(s)
  BY <1>4 DEF CloseTransport, PublishDone, tableVars
<1>5. QED
  BY <1>1, <1>2, <1>3, <1>4

\* A dial marks itself stale as it gets its lease, and leaves the mark only by
\* failing.
LEMMA RequestsIdentified ==
  ASSUME IInv, NEW r \in Request,
         \/ Lookup(r) \/ ProxyFor(r) \/ Cancel(r) \/ Closes(r) \/ Moves(r)
         \/ Dial(r) \/ Watch(r)
  PROVE  Identities' /\ StaleOut'
<1> USE HostAssumption DEF IInv, TypeOK, Identities, StaleOut, Phases, tableVars
<1>1. CASE Lookup(r) \/ ProxyFor(r) \/ Cancel(r) \/ Closes(r) \/ Moves(r)
  BY <1>1 DEF Lookup, ProxyFor, Cancel, Closes, CloseConn, EndHandler, Moves, Transfer, Count
<1>2. CASE Snapshot(r)
  BY <1>2 DEF Snapshot
<1>3. CASE reserveStreamWatcher(r) \/ AcquireGlobal(r)
  BY <1>3 DEF reserveStreamWatcher, AcquireGlobal
<1>4. CASE AcquireSession(r)
  BY <1>4 DEF AcquireSession
<1>5. CASE Recheck(r) \/ OpenStream(r) \/ OpenFails(r) \/ UnwindLease(r) \/ UnwindWatcher(r)
  BY <1>5 DEF Recheck, OpenStream, OpenFails, UnwindLease, UnwindWatcher
<1>6. CASE Watch(r)
  BY <1>6 DEF Watch, Abort, StreamDone, Finalize, DoneLease, DoneWatcher
<1>7. QED
  BY <1>1, <1>2, <1>3, <1>4, <1>5, <1>6 DEF Dial

\* A step of one request keeps its counters in order.
LEMMA RequestsCounted ==
  ASSUME IInv, NEW r \in Request,
         \/ Lookup(r) \/ ProxyFor(r) \/ Cancel(r) \/ Closes(r) \/ Moves(r)
         \/ Dial(r) \/ Watch(r)
  PROVE  Counters'
<1> USE CapacityAssumption DEF IInv, TypeOK, Counters, byteVars
<1>1. CASE Closes(r)
  BY <1>1 DEF Closes, CloseConn, EndHandler, finalize
<1>2. CASE Moves(r)
  BY <1>2 DEF Moves, Transfer, Count
<1>3. CASE Finalize(r)
  BY <1>3 DEF Finalize, finalize
<1>4. CASE UNCHANGED byteVars
  BY <1>4
<1>5. QED
  BY <1>1, <1>2, <1>3, <1>4 DEF Lookup, ProxyFor, Cancel, Dial, Snapshot, reserveStreamWatcher,
     AcquireGlobal, AcquireSession, Recheck, OpenStream, OpenFails, UnwindLease, UnwindWatcher,
     Watch, Abort, StreamDone, DoneLease, DoneWatcher

\* Every step keeps IInv.
LEMMA NextIInv == IInv /\ [Next]_vars => IInv'
<1> SUFFICES ASSUME IInv, [Next]_vars PROVE IInv'
  OBVIOUS
<1>1. ASSUME NEW s \in Session,
             \/ CloseTransport(s) \/ PublishDone(s) \/ Drop(s)
             \/ \E h \in Host : InstallRoute(s, h) \/ RemoveRoute(s, h)
      PROVE  IInv'
  <2>1. TypeOK'
    BY <1>1, SessionsTyped
  <2>2. SlotsOwned'
    BY <1>1, OthersOwned
  <2>3. Phases' /\ DropOrder' /\ Identities' /\ StaleOut' /\ Counters'
    <3>1. UNCHANGED byteVars
      BY <1>1 DEF CloseTransport, PublishDone, Drop, StopAdmission, DropRoutes,
         JoinTransport, ReleaseAuth, InstallRoute, RemoveRoute
    <3>2. Counters'
      BY <3>1 DEF IInv, Counters, byteVars
    <3>3. QED
      BY <1>1, <3>2, SessionsPhased, SessionsDropped, SessionsIdentified
  <2>4. QED
    BY <2>1, <2>2, <2>3 DEF IInv
<1>2. ASSUME NEW r \in Request,
             \/ Lookup(r) \/ ProxyFor(r) \/ Cancel(r) \/ Closes(r) \/ Moves(r)
             \/ Dial(r) \/ Watch(r)
      PROVE  IInv'
  <2>1. TypeOK'
    BY <1>2, HandlersTyped, DialsTyped DEF Watch
  <2>2. SlotsOwned'
    BY <1>2, OthersOwned, DialsOwned DEF Watch
  <2>3. Phases' /\ DropOrder' /\ Identities' /\ StaleOut' /\ Counters'
    BY <1>2, RequestsPhased, RequestsDropped, RequestsIdentified, RequestsCounted
  <2>4. QED
    BY <2>1, <2>2, <2>3 DEF IInv
<1>3. CASE UNCHANGED vars
  <2> USE <1>3 DEF vars, tableVars, sessionVars, leaseVars, watcherVars, byteVars
  <2>1. TypeOK'
    BY DEF IInv, TypeOK
  <2>2. SlotsOwned'
    BY OwnersStay
  <2>3. Phases' /\ Identities' /\ StaleOut' /\ Counters'
    BY DEF IInv, Phases, Identities, StaleOut, Counters
  <2>4. DropOrder'
    BY DEF IInv, DropOrder, StreamsOf
  <2>5. QED
    BY <2>1, <2>2, <2>3, <2>4 DEF IInv
<1>4. QED
  BY <1>1, <1>2, <1>3 DEF Next

-----------------------------------------------------------------------------
(* Theorems                                                                *)

\* The inductive invariant holds in every reachable state.
THEOREM IInvHolds == Spec => []IInv
  BY InitIInv, NextIInv, PTL DEF Spec

\* An authenticated slot that is back leaves nothing of its session behind.
LEMMA AuthSlotIsLast == IInv => AuthSlotLast
<1> SUFFICES ASSUME IInv, NEW s \in Session \ authSlots
             PROVE  /\ s \in done /\ s \in streamsClosing
                    /\ sessionWG[s] = 0 /\ sessionSlots[s] = 0
                    /\ StreamsOf(s) = {}
  BY DEF AuthSlotLast
<1>1. /\ s \in done /\ s \in streamsClosing /\ sessionWG[s] = 0 /\ StreamsOf(s) = {}
  BY DEF IInv, DropOrder
<1>2. Cardinality(Watched \cap On(s)) = 0
  BY <1>1 DEF IInv, SlotsOwned
<1>3. Watched \cap On(s) = {}
  BY <1>2, CountsFinite, FS_EmptySet
<1>4. Leased \cap On(s) = {}
  BY <1>3 DEF Leased, Watched
<1>5. sessionSlots[s] = 0
  BY <1>4, FS_EmptySet DEF IInv, SlotsOwned
<1>6. QED
  BY <1>1, <1>5

\* Every stream slot and wait-group count has exactly one owner, on every path
\* of openRouteStream and of the watcher, within the channels' capacities, and
\* dropSession returns the authenticated slot last.
THEOREM SlotsSoundHolds == Spec => []SlotsSound
<1>1. IInv => SlotsSound
  BY AuthSlotIsLast DEF IInv, SlotsSound
<1>2. QED
  BY IInvHolds, <1>1, PTL

\* A route that was replaced or removed before the lease is never used: the
\* second look of openRouteStream tells it by its identity.
THEOREM StaleNeverOpensHolds == Spec => []StaleNeverOpens
<1>1. IInv => StaleNeverOpens
  BY DEF IInv, TypeOK, StaleOut, Phases, StaleNeverOpens
<1>2. QED
  BY IInvHolds, <1>1, PTL

-----------------------------------------------------------------------------
(* The bytes of a stream                                                   *)

\* A stream is reported only when it is closed, is reported when its watcher
\* is past its finalize, and only a stream moves bytes.  A handler that closes
\* has a connection to report.
Accounted ==
    \A r \in Request :
        /\ r \in finalized => stream[r] \in {"closing", "done"}
        /\ dial[r] \in {"final", "unwatched", "over"} => r \in finalized /\ stream[r] = "done"
        /\ dial[r] = "watching" => stream[r] # "none"
        /\ passed[r] > 0 => stream[r] # "none"
        /\ handler[r] = "closing" => stream[r] \in {"closing", "done"}

\* Accounted is kept.
LEMMA AccountedStep == IInv /\ Accounted /\ [Next]_vars => Accounted'
<1> SUFFICES ASSUME IInv, Accounted, [Next]_vars PROVE Accounted'
  OBVIOUS
<1> USE DEF IInv, TypeOK, Phases, Accounted, byteVars
<1>1. CASE \E r \in Request : Closes(r)
  BY <1>1 DEF Closes, CloseConn, EndHandler, finalize
<1>2. CASE \E r \in Request : Moves(r)
  BY <1>2, CapacityAssumption DEF Moves, Transfer, Count
<1>3. CASE \E r \in Request : OpenStream(r)
  BY <1>3 DEF OpenStream
<1>4. CASE \E r \in Request : Watch(r)
  BY <1>4 DEF Watch, Abort, StreamDone, Finalize, finalize, DoneLease, DoneWatcher
<1>5. CASE \E r \in Request :
             \/ Lookup(r) \/ ProxyFor(r) \/ Snapshot(r) \/ reserveStreamWatcher(r) \/ AcquireGlobal(r)
             \/ AcquireSession(r) \/ Recheck(r) \/ OpenFails(r) \/ UnwindLease(r) \/ UnwindWatcher(r)
  BY <1>5 DEF Lookup, ProxyFor, Snapshot, reserveStreamWatcher, AcquireGlobal, AcquireSession,
     Recheck, OpenFails, UnwindLease, UnwindWatcher
<1>6. CASE UNCHANGED <<handler, dial, stream, finalized, passed>>
  BY <1>6
<1>7. QED
  BY <1>1, <1>2, <1>3, <1>4, <1>5, <1>6 DEF Next, vars, CloseTransport, PublishDone, Drop,
     StopAdmission, DropRoutes, JoinTransport, ReleaseAuth, InstallRoute, RemoveRoute,
     Cancel, Dial

\* Accounted holds.
LEMMA AccountedHolds == Spec => []Accounted
<1>1. Init => Accounted
  BY DEF Init, Accounted
<1>2. QED
  BY <1>1, AccountedStep, IInvHolds, PTL DEF Spec

\* When no dial and no watcher is left, every stream that moved bytes has
\* reported its totals (leasedConn.Close, watch).
AllReported == edgeWG = 0 => \A r \in Request : passed[r] > 0 => r \in finalized

\* The totals of a stream are added once, as the counters stand at that moment.
\* A Read or Write that counts its bytes later changes neither what was reported
\* nor the store: such bytes are lost, and are never reported by a second call.
Report ==
    /\ finalized \subseteq finalized'
    /\ \A r \in finalized : Totals'[r] = Totals[r]
    /\ \A r \in Request \ finalized' : Totals'[r] = counted'[r]
    /\ \/ finalized' = finalized /\ traffic' = traffic
       \/ \E r \in Request \ finalized :
            /\ finalized' = finalized \cup {r}
            /\ counted' = counted /\ Totals'[r] = counted[r]
            /\ traffic' = traffic + counted[r]
ReportedOnce == [][Report]_vars

\* Without watchers, every stream that moved bytes has been finalized.
LEMMA AllAreReported == IInv /\ Accounted => AllReported
<1> SUFFICES ASSUME IInv, Accounted, edgeWG = 0, NEW r \in Request, passed[r] > 0
             PROVE  r \in finalized
  BY DEF AllReported
<1>1. Watched = {}
  BY CountsFinite, FS_EmptySet DEF IInv, SlotsOwned
<1>2. dial[r] \in {"watching", "final", "unwatched", "over"}
  BY DEF IInv, Phases, Accounted
<1>3. dial[r] = "over"
  BY <1>1, <1>2 DEF Watched
<1>4. QED
  BY <1>3 DEF Accounted

\* No connection whose stream moved bytes is unreported once no watcher is left
\* (leasedConn.Close, watch).
THEOREM AllReportedHolds == Spec => []AllReported
  BY IInvHolds, AccountedHolds, AllAreReported, PTL

\* Every step reports at most one stream, for the first time.
LEMMA ReportStep == IInv /\ [Next]_vars => Report
<1> SUFFICES ASSUME IInv, [Next]_vars PROVE Report
  OBVIOUS
<1> USE CapacityAssumption DEF Report, Totals, byteVars, IInv, TypeOK, Counters
<1>1. ASSUME NEW r \in Request, finalize(r), UNCHANGED <<passed, counted, late>>
      PROVE  Report
  <2>1. CASE r \in finalized
    BY <1>1, <2>1 DEF finalize
  <2>2. CASE r \notin finalized
    BY <1>1, <2>2 DEF finalize
  <2>3. QED
    BY <2>1, <2>2
<1>2. CASE \E r \in Request : Closes(r)
  BY <1>1, <1>2 DEF Closes, CloseConn, EndHandler
<1>3. CASE \E r \in Request : Moves(r)
  BY <1>3 DEF Moves, Transfer, Count
<1>4. CASE \E r \in Request : Finalize(r)
  BY <1>1, <1>4 DEF Finalize
<1>5. CASE UNCHANGED byteVars
  BY <1>5
<1>6. QED
  BY <1>2, <1>3, <1>4, <1>5 DEF Next, vars, CloseTransport, PublishDone, Drop,
     StopAdmission, DropRoutes, JoinTransport, ReleaseAuth, InstallRoute, RemoveRoute, Lookup,
     Cancel, Dial, ProxyFor, Snapshot, reserveStreamWatcher, AcquireGlobal, AcquireSession,
     Recheck, OpenStream, OpenFails, UnwindLease, UnwindWatcher, Watch, Abort, StreamDone,
     DoneLease, DoneWatcher

\* The totals of each stream are added to the traffic store once, whether
\* Close or the watcher gets there first (countingConn.finalize), and what is
\* counted afterwards is in no total.
THEOREM ReportedOnceHolds == Spec => ReportedOnce
  BY IInvHolds, ReportStep, PTL DEF Spec, ReportedOnce

-----------------------------------------------------------------------------
(* Sums over the requests                                                  *)

\* The sum of a function's values, as TrafficComplete takes it.
Sum(g, S) == MapThenSumSet(LAMBDA r : g[r], S)

\* f sums g over the sets of D, by the recursion of MapThenFoldSet: it takes
\* the chosen element out.
Chosen(s) == CHOOSE x \in s : TRUE
Sums(f, g, D) ==
    f = [s \in D |-> IF s = {} THEN 0 ELSE g[Chosen(s)] + f[s \ {Chosen(s)}]]

\* The subsets with at most n elements.
UpTo(n, S) == {s \in SUBSET S : Cardinality(s) <= n}

\* A set of natural numbers has a least one: induction, as the library's
\* well-founded relations give it.
LEMMA Least ==
  ASSUME NEW T \in SUBSET Nat, T # {}
  PROVE  \E n \in T : \A m \in T : n <= m
<1>1. PICK n \in T : \A m \in T : ~ (<<m, n>> \in OpToRel(<, Nat))
  BY NatLessThanWellFounded, WFMin
<1>2. \A m \in T : ~ (m < n)
  BY <1>1 DEF OpToRel
<1>3. QED
  BY <1>2

\* Taking the chosen element out of a subset leaves a smaller one.
LEMMA Smaller ==
  ASSUME NEW S, IsFiniteSet(S), NEW s \in SUBSET S
  PROVE  /\ IsFiniteSet(s) /\ Cardinality(s) \in Nat
         /\ Cardinality(s) = 0 <=> s = {}
         /\ s # {} => Chosen(s) \in s
         /\ \A x \in s : s \ {x} \in SUBSET S /\ Cardinality(s \ {x}) = Cardinality(s) - 1
<1>1. IsFiniteSet(s) /\ Cardinality(s) \in Nat
  BY FS_Subset, FS_CardinalityType
<1>2. QED
  BY <1>1, FS_EmptySet, FS_RemoveElement DEF Chosen

\* The recursion has a solution: one for sets of n elements extends to sets of
\* n + 1.
LEMMA SumsExist ==
  ASSUME NEW S, IsFiniteSet(S), NEW g \in [S -> Nat]
  PROVE  \E f \in [SUBSET S -> Nat] : Sums(f, g, SUBSET S)
<1> DEFINE Good(n) == \E f \in [UpTo(n, S) -> Nat] : Sums(f, g, UpTo(n, S))
           Bad == {n \in Nat : ~ Good(n)}
<1>1. Good(0)
  <2>1. UpTo(0, S) = {{}}
    BY Smaller, FS_EmptySet DEF UpTo
  <2>2. /\ [s \in {{}} |-> 0] \in [{{}} -> Nat]
        /\ Sums([s \in {{}} |-> 0], g, {{}})
    BY DEF Sums
  <2>3. QED
    BY <2>1, <2>2
<1>2. ASSUME NEW n \in Nat, Good(n) PROVE Good(n + 1)
  <2>1. PICK f \in [UpTo(n, S) -> Nat] : Sums(f, g, UpTo(n, S))
    BY <1>2
  <2> DEFINE e == [s \in UpTo(n + 1, S) |->
                     IF s = {} THEN 0 ELSE g[Chosen(s)] + f[s \ {Chosen(s)}]]
  <2>2. ASSUME NEW s \in UpTo(n + 1, S), s # {}
        PROVE  /\ s \ {Chosen(s)} \in UpTo(n, S)
               /\ s \ {Chosen(s)} \in UpTo(n + 1, S)
               /\ Chosen(s) \in S
    BY <2>2, Smaller DEF UpTo
  <2>3. e \in [UpTo(n + 1, S) -> Nat]
    BY <2>2
  <2>4. \A s \in UpTo(n, S) : e[s] = f[s]
    <3> SUFFICES ASSUME NEW s \in UpTo(n, S) PROVE e[s] = f[s]
      OBVIOUS
    <3>1. s \in UpTo(n + 1, S)
      BY Smaller DEF UpTo
    <3>2. f[s] = IF s = {} THEN 0 ELSE g[Chosen(s)] + f[s \ {Chosen(s)}]
      BY <2>1 DEF Sums
    <3>3. QED
      BY <3>1, <3>2
  <2>5. \A s \in UpTo(n + 1, S) :
          e[s] = IF s = {} THEN 0 ELSE g[Chosen(s)] + e[s \ {Chosen(s)}]
    BY <2>2, <2>4
  <2>6. Sums(e, g, UpTo(n + 1, S))
    <3> HIDE DEF e
    <3>1. QED
      BY <2>3, <2>5 DEF Sums
  <2>7. QED
    BY <2>3, <2>6
<1>3. Bad = {}
  <2> SUFFICES ASSUME Bad # {} PROVE FALSE
    OBVIOUS
  <2> HIDE DEF Good
  <2>1. PICK n \in Bad : \A m \in Bad : n <= m
    BY Least
  <2>2. n \in Nat /\ n # 0
    BY <1>1
  <2>3. n - 1 \in Nat /\ n - 1 \notin Bad
    BY <2>1, <2>2
  <2>4. Good(n)
    BY <1>2, <2>2, <2>3
  <2>5. QED
    BY <2>4
<1>4. Good(Cardinality(S))
  BY <1>3, FS_CardinalityType
<1>5. UpTo(Cardinality(S), S) = SUBSET S
  BY FS_Subset DEF UpTo
<1>6. QED
  BY <1>4, <1>5

\* Solutions for functions that agree on a set agree on its sum.
LEMMA SumsAgree ==
  ASSUME NEW S, IsFiniteSet(S), NEW f, NEW e, NEW g, NEW h,
         Sums(f, g, SUBSET S), Sums(e, h, SUBSET S),
         NEW T \in SUBSET S, \A x \in T : g[x] = h[x]
  PROVE  f[T] = e[T]
<1> DEFINE Off == {n \in Nat : \E s \in SUBSET T : Cardinality(s) = n /\ f[s] # e[s]}
<1>1. Off = {}
  <2> SUFFICES ASSUME Off # {} PROVE FALSE
    OBVIOUS
  <2>1. PICK n \in Off : \A m \in Off : n <= m
    BY Least
  <2>2. PICK s \in SUBSET T : Cardinality(s) = n /\ f[s] # e[s]
    OBVIOUS
  <2> DEFINE t == s \ {Chosen(s)}
  <2>3. /\ f[s] = IF s = {} THEN 0 ELSE g[Chosen(s)] + f[t]
        /\ e[s] = IF s = {} THEN 0 ELSE h[Chosen(s)] + e[t]
    BY DEF Sums
  <2>4. s # {}
    BY <2>2, <2>3
  <2>5. Chosen(s) \in T /\ g[Chosen(s)] = h[Chosen(s)] /\ t \in SUBSET T
    BY <2>4, Smaller
  <2>6. n \in Nat /\ Cardinality(t) = n - 1 /\ Cardinality(t) \in Nat
    BY <2>2, <2>4, <2>5, Smaller
  <2>7. n - 1 \notin Off /\ n - 1 \in Nat
    BY <2>1, <2>6
  <2> HIDE DEF t
  <2>8. f[t] = e[t]
    BY <2>5, <2>6, <2>7
  <2>9. QED
    BY <2>2, <2>3, <2>5, <2>8
<1>2. T \in SUBSET T /\ Cardinality(T) \in Nat
  BY Smaller
<1>3. QED
  BY <1>1, <1>2

\* In a solution, any element can be taken out first.
LEMMA SumsTake ==
  ASSUME NEW S, IsFiniteSet(S), NEW g \in [S -> Nat], NEW f \in [SUBSET S -> Nat],
         Sums(f, g, SUBSET S), NEW T \in SUBSET S, NEW x \in T
  PROVE  f[T] = g[x] + f[T \ {x}]
<1> DEFINE Off == {n \in Nat : \E s \in SUBSET S : \E y \in s :
                     Cardinality(s) = n /\ f[s] # g[y] + f[s \ {y}]}
<1>1. Off = {}
  <2> SUFFICES ASSUME Off # {} PROVE FALSE
    OBVIOUS
  <2>1. PICK n \in Off : \A m \in Off : n <= m
    BY Least
  <2>2. PICK s \in SUBSET S : \E y \in s : Cardinality(s) = n /\ f[s] # g[y] + f[s \ {y}]
    OBVIOUS
  <2>3. PICK y \in s : Cardinality(s) = n /\ f[s] # g[y] + f[s \ {y}]
    BY <2>2
  <2> DEFINE z == Chosen(s)
  <2>4. z \in s /\ f[s] = g[z] + f[s \ {z}]
    <3>1. s # {}
      BY <2>3
    <3>2. Chosen(s) \in s
      BY <3>1, Smaller
    <3>3. f[s] = IF s = {} THEN 0 ELSE g[Chosen(s)] + f[s \ {Chosen(s)}]
      BY DEF Sums
    <3>4. QED
      BY <3>1, <3>2, <3>3
  <2>5. z # y
    BY <2>3, <2>4
  <2>6. /\ Cardinality(s \ {z}) = n - 1 /\ Cardinality(s \ {y}) = n - 1
        /\ n - 1 \in Nat /\ n - 1 \notin Off
    <3>1. /\ Cardinality(s \ {z}) = n - 1 /\ Cardinality(s \ {y}) = n - 1
          /\ Cardinality(s \ {y}) \in Nat
      BY <2>3, <2>4, Smaller
    <3>2. n \in Nat /\ n - 1 \in Nat /\ ~ (n <= n - 1)
      BY <3>1
    <3> HIDE DEF Off
    <3>3. QED
      BY <2>1, <3>1, <3>2
  <2> HIDE DEF z
  <2>7. f[s \ {z}] = g[y] + f[(s \ {z}) \ {y}]
    BY <2>3, <2>5, <2>6
  <2>8. f[s \ {y}] = g[z] + f[(s \ {y}) \ {z}]
    BY <2>4, <2>5, <2>6
  <2>9. (s \ {z}) \ {y} = (s \ {y}) \ {z}
    OBVIOUS
  <2>10. g[y] \in Nat /\ g[z] \in Nat /\ f[(s \ {y}) \ {z}] \in Nat
    BY <2>4
  <2>11. f[s] = g[y] + f[s \ {y}]
    <3> DEFINE c == f[(s \ {y}) \ {z}]
    <3>1. f[s] = g[z] + (g[y] + c) /\ f[s \ {y}] = g[z] + c
      BY <2>4, <2>7, <2>8, <2>9
    <3>2. c \in Nat
      BY <2>10
    <3> HIDE DEF c
    <3>3. QED
      BY <2>10, <3>1, <3>2
  <2>12. QED
    BY <2>3, <2>11
<1>2. Cardinality(T) \in Nat
  BY Smaller
<1>3. QED
  BY <1>1, <1>2

\* Sum is the value of a solution.
LEMMA SumIs ==
  ASSUME NEW S, IsFiniteSet(S), NEW g \in [S -> Nat]
  PROVE  \E f \in [SUBSET S -> Nat] : Sums(f, g, SUBSET S) /\ Sum(g, S) = f[S]
<1> DEFINE F == CHOOSE f : Sums(f, g, SUBSET S)
<1>1. Sum(g, S) = F[S]
  BY DEF Sum, MapThenSumSet, MapThenFoldSet, Sums, Chosen
<1>2. PICK e \in [SUBSET S -> Nat] : Sums(e, g, SUBSET S)
  BY SumsExist
<1>3. Sums(F, g, SUBSET S)
  BY <1>2
<1> HIDE DEF F
<1>4. \A T \in SUBSET S : F[T] = e[T]
  BY <1>2, <1>3, SumsAgree
<1>5. QED
  BY <1>1, <1>2, <1>4

\* What TrafficComplete needs of a sum: zero over zeros, and a summand that
\* changes from zero is added.
LEMMA SumFacts ==
  ASSUME NEW S, IsFiniteSet(S), NEW g, g \in [S -> Nat]
  PROVE  /\ Sum(g, S) \in Nat
         /\ (\A x \in S : g[x] = 0) => Sum(g, S) = 0
         /\ \A x \in S, n \in Nat :
              g[x] = 0 => Sum([g EXCEPT ![x] = n], S) = Sum(g, S) + n
<1>1. PICK f \in [SUBSET S -> Nat] : Sums(f, g, SUBSET S) /\ Sum(g, S) = f[S]
  BY SumIs
<1>2. ASSUME \A x \in S : g[x] = 0
      PROVE  Sum(g, S) = 0
  <2> DEFINE o == [s \in SUBSET S |-> 0]
  <2>1. \A s \in SUBSET S : s # {} => g[Chosen(s)] = 0
    BY <1>2, Smaller
  <2>2. Sums(o, g, SUBSET S)
    BY <2>1, Smaller DEF Sums
  <2>3. f[S] = o[S]
    <3> HIDE DEF o
    <3>1. QED
      BY <1>1, <2>2, SumsAgree
  <2>4. QED
    BY <1>1, <2>3
<1>3. ASSUME NEW x \in S, NEW n \in Nat, g[x] = 0
      PROVE  Sum([g EXCEPT ![x] = n], S) = Sum(g, S) + n
  <2> DEFINE h == [g EXCEPT ![x] = n]
  <2>1. h \in [S -> Nat] /\ h[x] = n /\ \A y \in S \ {x} : h[y] = g[y]
    OBVIOUS
  <2> HIDE DEF h
  <2>2. PICK e \in [SUBSET S -> Nat] : Sums(e, h, SUBSET S) /\ Sum(h, S) = e[S]
    BY <2>1, SumIs
  <2>3. e[S] = h[x] + e[S \ {x}]
    BY <2>1, <2>2, SumsTake
  <2>4. f[S] = g[x] + f[S \ {x}]
    <3>1. S \in SUBSET S /\ S \ {x} \in SUBSET S
      OBVIOUS
    <3>2. QED
      BY <1>1, <2>1, <3>1, SumsTake
  <2>5. e[S \ {x}] = f[S \ {x}]
    BY <1>1, <2>1, <2>2, SumsAgree
  <2>6. Sum(h, S) = Sum(g, S) + n
    BY <1>1, <1>3, <2>1, <2>2, <2>3, <2>4, <2>5
  <2>7. QED
    BY <2>6 DEF h
<1>4. QED
  BY <1>1, <1>2, <1>3

-----------------------------------------------------------------------------
(* The traffic store                                                       *)

\* What each request has added to the traffic store, and its sum.
Added == [r \in Request |-> IF r \in finalized THEN Totals[r] ELSE 0]
TrafficIsAdded == traffic = Sum(Added, Request)

\* It is a function into Nat over a finite set.
LEMMA AddedTyped == IInv => Added \in [Request -> Nat] /\ IsFiniteSet(Request)
  BY FiniteAssumption, CapacityAssumption DEF IInv, TypeOK, Counters, Totals, Added

\* The traffic store is the sum of the totals reported so far.
LEMMA TrafficIsAddedHolds == Spec => []TrafficIsAdded
<1>1. ASSUME Init PROVE TrafficIsAdded
  <2>1. \A r \in Request : Added[r] = 0
    BY <1>1 DEF Init, Added
  <2>2. Added \in [Request -> Nat] /\ IsFiniteSet(Request)
    BY <1>1, InitIInv, AddedTyped
  <2>3. Sum(Added, Request) = 0
    BY <2>1, <2>2, SumFacts
  <2>4. QED
    BY <1>1, <2>3 DEF Init, TrafficIsAdded
<1>2. ASSUME IInv, TrafficIsAdded, [Next]_vars PROVE TrafficIsAdded'
  <2>1. Report
    BY <1>2, ReportStep
  <2>2. Added \in [Request -> Nat] /\ IsFiniteSet(Request)
    BY <1>2, AddedTyped
  <2>3. counted \in [Request -> Nat] /\ finalized' \subseteq Request
    BY <1>2, NextIInv, CapacityAssumption DEF IInv, TypeOK
  <2>4. CASE finalized' = finalized /\ traffic' = traffic
    <3>1. Added' = Added
      BY <2>1, <2>4 DEF Report, Added
    <3>2. QED
      BY <1>2, <2>4, <3>1 DEF TrafficIsAdded
  <2>5. ASSUME NEW r \in Request \ finalized,
               finalized' = finalized \cup {r}, Totals'[r] = counted[r],
               traffic' = traffic + counted[r]
        PROVE  TrafficIsAdded'
    <3>1. /\ Added' = [Added EXCEPT ![r] = counted[r]]
          /\ Added[r] = 0 /\ counted[r] \in Nat
      BY <2>1, <2>3, <2>5 DEF Report, Added
    <3>2. Sum([Added EXCEPT ![r] = counted[r]], Request) = Sum(Added, Request) + counted[r]
      BY <2>2, <3>1, SumFacts
    <3>3. QED
      BY <1>2, <2>5, <3>1, <3>2 DEF TrafficIsAdded
  <2>6. QED
    BY <2>1, <2>4, <2>5 DEF Report
<1>3. QED
  BY <1>1, <1>2, IInvHolds, PTL DEF Spec

\* When no watcher is left the traffic store has every byte that was counted by
\* the time its connection was reported, once: what leasedConn.Close and watch
\* have reported by then is all there is.
THEOREM TrafficCompleteHolds == Spec => []TrafficComplete
<1>1. ASSUME IInv, Accounted, TrafficIsAdded PROVE TrafficComplete
  <2> SUFFICES ASSUME edgeWG = 0
               PROVE  traffic = Sum(Totals, Request)
    BY DEF TrafficComplete, Sum
  <2>1. \A r \in Request : passed[r] > 0 => r \in finalized
    BY <1>1, AllAreReported DEF AllReported
  <2>2. Added = Totals
    BY <1>1, <2>1, CapacityAssumption DEF Added, Totals, IInv, TypeOK, Counters
  <2>3. QED
    BY <1>1, <2>2 DEF TrafficIsAdded
<1>2. QED
  BY <1>1, IInvHolds, AccountedHolds, TrafficIsAddedHolds, PTL

-----------------------------------------------------------------------------
(* The table a dial sees                                                   *)

\* Who holds which host, and who has given up all of its hosts for good.
Held == {<<h, routes[h].session>> : h \in {g \in Host : routes[g] # None}}
Dropped == {s \in Session : drop[s] \notin {"serving", "stopped"}}

\* The routes that requests look up, capture and check again change as the
\* hostname table's contract says, which EdgeRoutes implements in detail: the
\* two models of e.routes agree.
T == INSTANCE HostTable WITH held <- Held, dead <- closed, dropped <- Dropped
ImplementsTable == T!Table

\* Whoever holds a host has not given it up yet, and whoever does so is dead.
HoldersServe ==
    /\ \A h \in Host : routes[h] # None => routes[h].session \notin Dropped
    /\ \A s \in Session : drop[s] # "serving" => s \in closed

\* Who holds what, before a step and after it.
LEMMA HeldPairs ==
  ASSUME TypeOK
  PROVE  /\ Held \subseteq Host \X Session
         /\ \A h \in Host, s \in Session :
              <<h, s>> \in Held <=> routes[h] # None /\ routes[h].session = s
  BY DEF TypeOK, Held, Route

LEMMA HeldPairsNext ==
  ASSUME TypeOK'
  PROVE  /\ Held' \subseteq Host \X Session
         /\ \A h \in Host, s \in Session :
              <<h, s>> \in Held' <=> routes'[h] # None /\ routes'[h].session = s
  BY DEF TypeOK, Held, Route

\* Nothing but the table and the sessions' ends moves HoldersServe.
LEMMA HoldersServeHolds == Spec => []HoldersServe
<1>1. Init => HoldersServe
  BY DEF Init, HoldersServe, Dropped
<1>2. ASSUME IInv, HoldersServe, [Next]_vars PROVE HoldersServe'
  <2> USE DEF HoldersServe, Dropped
  <2>1. ASSUME NEW s \in Session, NEW h \in Host, InstallRoute(s, h)
        PROVE  HoldersServe'
    BY <1>2, <2>1 DEF InstallRoute, IInv, TypeOK, sessionVars
  <2>2. ASSUME NEW s \in Session, NEW h \in Host, RemoveRoute(s, h)
        PROVE  HoldersServe'
    BY <1>2, <2>2 DEF RemoveRoute, IInv, TypeOK, sessionVars
  <2>3. ASSUME NEW s \in Session, StopAdmission(s) \/ JoinTransport(s) \/ ReleaseAuth(s)
        PROVE  HoldersServe'
    BY <1>2, <2>3
    DEF StopAdmission, JoinTransport, ReleaseAuth, IInv, TypeOK, tableVars
  <2>4. ASSUME NEW s \in Session, DropRoutes(s)
        PROVE  HoldersServe'
    BY <1>2, <2>4 DEF DropRoutes, IInv, TypeOK
  <2>5. ASSUME NEW s \in Session, CloseTransport(s) PROVE HoldersServe'
    BY <1>2, <2>5 DEF CloseTransport, tableVars
  <2>6. CASE UNCHANGED <<routes, drop, closed>>
    BY <1>2, <2>6
  <2>7. QED
    BY <1>2, <2>1, <2>2, <2>3, <2>4, <2>5, <2>6
    DEF Next, vars, Drop, tableVars, sessionVars, PublishDone, Lookup, ProxyFor, Cancel,
        Closes, CloseConn, EndHandler, Moves, Transfer, Count, Dial, Snapshot,
        reserveStreamWatcher, AcquireGlobal,
        AcquireSession, Recheck, OpenStream, OpenFails, UnwindLease, UnwindWatcher, Watch,
        Abort, StreamDone, Finalize, DoneLease, DoneWatcher
<1>3. QED
  BY <1>1, <1>2, IInvHolds, PTL DEF Spec

\* A fresh route takes its host from nobody or from the dead.
LEMMA InstallRefines ==
  ASSUME IInv, IInv', HoldersServe, NEW s \in Session, NEW h \in Host,
         InstallRoute(s, h)
  PROVE  \E hs \in SUBSET Host, lost \in SUBSET Held : T!Register(s, hs, lost)
<1> DEFINE lost == {p \in Held : p[1] = h}
           new == {<<g, s>> : g \in {h}}
<1>1. /\ drop[s] = "serving"
      /\ routes[h] # None => routes[h].session \in closed \ {s}
      /\ routes'[h] # None /\ routes'[h].session = s
      /\ \A g \in Host \ {h} : routes'[g] = routes[g]
      /\ UNCHANGED <<closed, drop>>
  <2>1. /\ drop[s] = "serving" /\ UNCHANGED <<closed, drop>>
        /\ routes[h] # None => routes[h].session \in closed \ {s}
        /\ routes' = [routes EXCEPT ![h] = [session |-> s, id |-> installed + 1]]
        /\ installed + 1 \in 1..MaxRoutes
    BY CapacityAssumption DEF InstallRoute, sessionVars, IInv, TypeOK
  <2>2. QED
    BY <2>1, RouteFields DEF IInv, TypeOK
<1>2. /\ Held \subseteq Host \X Session /\ Held' \subseteq Host \X Session
      /\ \A g \in Host, t \in Session :
           /\ <<g, t>> \in Held <=> routes[g] # None /\ routes[g].session = t
           /\ <<g, t>> \in Held' <=> routes'[g] # None /\ routes'[g].session = t
  BY HeldPairs, HeldPairsNext DEF IInv
<1>3. \A g \in Host, t \in Session :
        /\ <<g, t>> \in lost <=> <<g, t>> \in Held /\ g = h
        /\ <<g, t>> \in new <=> g = h /\ t = s
  OBVIOUS
<1>4. lost \subseteq {p \in Held : p[2] \in closed \ {s}}
  <2>1. SUFFICES ASSUME NEW p \in lost PROVE p[2] \in closed \ {s}
    OBVIOUS
  <2>2. PICK t \in Session : p = <<h, t>>
    BY <1>2
  <2>3. QED
    BY <1>1, <1>2, <2>2
<1>5. \A p \in Held : p[1] \in {h} => p \in lost
  OBVIOUS
<1>6. s \notin Dropped /\ Dropped' = Dropped
  BY <1>1 DEF Dropped
<1>7. new \subseteq Host \X Session /\ lost \in SUBSET Held
  OBVIOUS
<1> HIDE DEF lost, new
<1>8. \A g \in Host, t \in Session :
        <<g, t>> \in Held' <=> \/ <<g, t>> \in Held /\ <<g, t>> \notin lost
                               \/ <<g, t>> \in new
  BY <1>1, <1>2, <1>3
<1>9. Held' = (Held \ lost) \cup new
  BY <1>2, <1>7, <1>8
<1>10. T!Register(s, {h}, lost)
  BY <1>1, <1>4, <1>5, <1>6, <1>9 DEF T!Register, new
<1>11. QED
  BY <1>7, <1>10

\* A removed route was the session's own.
LEMMA RemoveRefines ==
  ASSUME IInv, IInv', NEW s \in Session, NEW h \in Host, RemoveRoute(s, h)
  PROVE  T!Unregister(s, {h})
<1>1. /\ routes[h] # None /\ routes[h].session = s
      /\ routes'[h] = None /\ \A g \in Host \ {h} : routes'[g] = routes[g]
      /\ UNCHANGED <<closed, Dropped>>
  BY DEF RemoveRoute, sessionVars, Dropped, IInv, TypeOK
<1>2. \A g \in Host, t \in Session :
        <<g, t>> \in Held' <=> <<g, t>> \in Held /\ ~ (g = h /\ t = s)
  <2> SUFFICES ASSUME NEW g \in Host, NEW t \in Session
               PROVE  <<g, t>> \in Held' <=> <<g, t>> \in Held /\ ~ (g = h /\ t = s)
    OBVIOUS
  <2>1. /\ <<g, t>> \in Held <=> routes[g] # None /\ routes[g].session = t
        /\ <<g, t>> \in Held' <=> routes'[g] # None /\ routes'[g].session = t
    BY HeldPairs, HeldPairsNext DEF IInv
  <2>2. CASE g = h
    BY <1>1, <2>1, <2>2
  <2>3. CASE g # h
    BY <1>1, <2>1, <2>3
  <2>4. QED
    BY <2>2, <2>3
<1>3. Held' = Held \ {<<h, s>>}
  BY <1>2, HeldPairs, HeldPairsNext DEF IInv
<1>4. {<<g, s>> : g \in {h}} = {<<h, s>>}
  OBVIOUS
<1>5. QED
  BY <1>1, <1>3, <1>4 DEF T!Unregister

\* dropSession gives up all of its session's, whose transport is dead.
LEMMA DropRefines ==
  ASSUME IInv, IInv', HoldersServe, NEW s \in Session, DropRoutes(s)
  PROVE  T!Drop(s)
<1>1. /\ drop[s] = "stopped" /\ drop' = [drop EXCEPT ![s] = "unrouted"]
      /\ closed' = closed
      /\ routes' = [h \in Host |-> IF routes[h] # None /\ routes[h].session = s
                                   THEN None ELSE routes[h]]
  BY DEF DropRoutes
<1>2. s \in closed \ Dropped
  BY <1>1 DEF HoldersServe, Dropped
<1>3. Dropped' = Dropped \cup {s}
  BY <1>1 DEF Dropped, IInv, TypeOK
<1>4. \A h \in Host, t \in Session :
        <<h, t>> \in Held' <=> <<h, t>> \in Held /\ t # s
  BY <1>1, HeldPairs, HeldPairsNext DEF IInv
<1>5. Held' = {p \in Held : p[2] # s}
  <2>1. ASSUME NEW p \in Host \X Session
        PROVE  p \in Held' <=> p \in Held /\ p[2] # s
    <3>1. PICK h \in Host, t \in Session : p = <<h, t>>
      OBVIOUS
    <3>2. QED
      BY <1>4, <3>1
  <2>2. QED
    BY <2>1, HeldPairs, HeldPairsNext DEF IInv
<1>6. QED
  BY <1>1, <1>2, <1>3, <1>5 DEF T!Drop

\* The table that requests see implements the hostname table's contract.
THEOREM ImplementsTableHolds == Spec => ImplementsTable
<1>1. Init => T!TableInit
  BY DEF Init, T!TableInit, Held, Dropped
<1>2. IInv /\ IInv' /\ HoldersServe /\ [Next]_vars => [T!TableNext]_(T!tableVars)
  <2> SUFFICES ASSUME IInv, IInv', HoldersServe, [Next]_vars
               PROVE  T!TableNext \/ UNCHANGED T!tableVars
    OBVIOUS
  <2>1. ASSUME NEW s \in Session, NEW h \in Host, InstallRoute(s, h)
        PROVE  T!TableNext
    BY <2>1, InstallRefines DEF T!TableNext
  <2>2. ASSUME NEW s \in Session, NEW h \in Host, RemoveRoute(s, h)
        PROVE  T!TableNext
    BY <2>2, RemoveRefines DEF T!TableNext
  <2>3. ASSUME NEW s \in Session, DropRoutes(s)
        PROVE  T!TableNext
    BY <2>3, DropRefines DEF T!TableNext
  <2>4. ASSUME NEW s \in Session, CloseTransport(s)
        PROVE  T!TableNext
    <3>1. T!Die(s)
      BY <2>4 DEF CloseTransport, tableVars, T!Die, Held, Dropped
    <3>2. QED
      BY <3>1 DEF T!TableNext
  <2>5. ASSUME NEW s \in Session, StopAdmission(s) \/ JoinTransport(s) \/ ReleaseAuth(s)
        PROVE  UNCHANGED T!tableVars
    <3>1. Dropped' = Dropped
      BY <2>5 DEF StopAdmission, JoinTransport, ReleaseAuth, Dropped, IInv, TypeOK
    <3>2. QED
      BY <2>5, <3>1
      DEF StopAdmission, JoinTransport, ReleaseAuth, tableVars, T!tableVars, Held
  <2>6. CASE UNCHANGED <<routes, drop, closed>>
    BY <2>6 DEF T!tableVars, Held, Dropped
  <2>7. QED
    BY <2>1, <2>2, <2>3, <2>4, <2>5, <2>6
    DEF Next, vars, Drop, tableVars, sessionVars, PublishDone, Lookup, ProxyFor, Cancel,
        Closes, CloseConn, EndHandler, Moves, Transfer, Count, Dial, Snapshot,
        reserveStreamWatcher, AcquireGlobal,
        AcquireSession, Recheck, OpenStream, OpenFails, UnwindLease, UnwindWatcher, Watch,
        Abort, StreamDone, Finalize, DoneLease, DoneWatcher
<1>3. QED
  BY <1>1, <1>2, HoldersServeHolds, IInvHolds, PTL DEF Spec, ImplementsTable, T!Table

-----------------------------------------------------------------------------
(* The transport a dial uses                                               *)

\* One session's transport, as TunnelContract sees it: a request's dial is the
\* stream it may get.
DoneOn(s) == {r \in Request : stream[r] = "done" /\ snap[r].session = s}
C(s) == INSTANCE TunnelContract WITH
          Stream <- Request, Cause <- {"closed"}, NoCause <- "open",
          info <- IF s \in closed THEN "closed" ELSE "open",
          live <- StreamsOf(s), spent <- DoneOn(s), done <- s \in done

\* The edge's streams live and end as the contract says that YamuxSession and
\* QuicSession implement: the edge counts on no other transport.
UsesContract == \A s \in Session : C(s)!Contract

\* A step that moves no stream, closes no transport and publishes no Done is
\* invisible to the transport.
LEMMA TransportUnmoved ==
  ASSUME NEW s \in Session, closed' = closed, done' = done,
         StreamsOf(s)' = StreamsOf(s), DoneOn(s)' = DoneOn(s)
  PROVE  UNCHANGED C(s)!contractVars
  BY DEF C!contractVars

\* Its own request's steps are the only ones that move a stream.
LEMMA StreamMoves ==
  ASSUME NEW s \in Session, NEW r \in Request, snap' = snap,
         \A q \in Request \ {r} : stream'[q] = stream[q]
  PROVE  /\ StreamsOf(s)' \ {r} = StreamsOf(s) \ {r}
         /\ DoneOn(s)' \ {r} = DoneOn(s) \ {r}
         /\ r \in StreamsOf(s)' <=> stream'[r] \in {"open", "closing"} /\ snap[r].session = s
         /\ r \in DoneOn(s)' <=> stream'[r] = "done" /\ snap[r].session = s
  BY DEF StreamsOf, DoneOn

\* OpenStream hands out a fresh stream of an open session.
LEMMA OpenRefines ==
  ASSUME IInv, NEW s \in Session, NEW r \in Request, OpenStream(r)
  PROVE  C(s)!HandOut(r) \/ UNCHANGED C(s)!contractVars
<1>1. /\ dial[r] = "current" /\ snap[r].session \notin closed
      /\ stream' = [stream EXCEPT ![r] = "open"]
      /\ UNCHANGED <<closed, done, snap>>
  BY DEF OpenStream, sessionVars
<1>2. stream[r] = "none" /\ stream'[r] = "open"
      /\ \A q \in Request \ {r} : stream'[q] = stream[q]
  BY <1>1 DEF IInv, TypeOK, Phases
<1>3. /\ StreamsOf(s)' \ {r} = StreamsOf(s) \ {r}
      /\ DoneOn(s)' \ {r} = DoneOn(s) \ {r}
      /\ r \in StreamsOf(s)' <=> snap[r].session = s
      /\ r \notin DoneOn(s)' /\ r \notin StreamsOf(s) /\ r \notin DoneOn(s)
  BY <1>1, <1>2, StreamMoves DEF StreamsOf, DoneOn
<1>4. DoneOn(s)' = DoneOn(s)
  BY <1>3
<1>5. CASE snap[r].session = s
  <2>1. StreamsOf(s)' = StreamsOf(s) \cup {r}
    BY <1>3, <1>5
  <2>2. QED
    BY <1>1, <1>3, <1>4, <1>5, <2>1 DEF C!HandOut
<1>6. CASE snap[r].session # s
  <2>1. StreamsOf(s)' = StreamsOf(s)
    BY <1>3, <1>6
  <2>2. QED
    BY <1>1, <1>4, <2>1, TransportUnmoved
<1>7. QED
  BY <1>5, <1>6

\* A stream's Done completes it.
LEMMA DoneRefines ==
  ASSUME IInv, NEW s \in Session, NEW r \in Request, StreamDone(r)
  PROVE  C(s)!Complete(r) \/ UNCHANGED C(s)!contractVars
<1>1. /\ stream[r] \in {"open", "closing"}
      /\ stream' = [stream EXCEPT ![r] = "done"]
      /\ UNCHANGED <<closed, done, snap>>
  BY DEF StreamDone, sessionVars
<1>2. stream'[r] = "done" /\ \A q \in Request \ {r} : stream'[q] = stream[q]
  BY <1>1 DEF IInv, TypeOK
<1>3. /\ StreamsOf(s)' \ {r} = StreamsOf(s) \ {r}
      /\ DoneOn(s)' \ {r} = DoneOn(s) \ {r}
      /\ r \in DoneOn(s)' <=> snap[r].session = s
      /\ r \in StreamsOf(s) <=> snap[r].session = s
      /\ r \notin StreamsOf(s)' /\ r \notin DoneOn(s)
  BY <1>1, <1>2, StreamMoves DEF StreamsOf, DoneOn
<1>4. CASE snap[r].session = s
  <2>1. StreamsOf(s)' = StreamsOf(s) \ {r} /\ DoneOn(s)' = DoneOn(s) \cup {r}
    BY <1>3, <1>4
  <2>2. QED
    BY <1>1, <1>3, <1>4, <2>1 DEF C!Complete
<1>5. CASE snap[r].session # s
  <2>1. StreamsOf(s)' = StreamsOf(s) /\ DoneOn(s)' = DoneOn(s)
    BY <1>3, <1>5
  <2>2. QED
    BY <1>1, <2>1, TransportUnmoved
<1>6. QED
  BY <1>4, <1>5

\* Closing a stream on this side leaves it live; a capture comes before the
\* stream.
LEMMA KeptRefines ==
  ASSUME IInv, NEW s \in Session, NEW r \in Request,
         Abort(r) \/ Closes(r) \/ Snapshot(r)
  PROVE  UNCHANGED C(s)!contractVars
<1>1. closed' = closed /\ done' = done
  BY DEF Abort, Closes, CloseConn, EndHandler, Snapshot, sessionVars
<1>2. CASE Abort(r) \/ Closes(r)
  <2>1. /\ snap' = snap
        /\ \A q \in Request : \/ stream'[q] = stream[q]
                              \/ stream[q] = "open" /\ stream'[q] = "closing"
    BY <1>2 DEF Abort, Closes, CloseConn, EndHandler, IInv, TypeOK
  <2>2. StreamsOf(s)' = StreamsOf(s) /\ DoneOn(s)' = DoneOn(s)
    BY <2>1 DEF StreamsOf, DoneOn
  <2>3. QED
    BY <1>1, <2>2, TransportUnmoved
<1>3. CASE Snapshot(r)
  <2>1. /\ dial[r] = "start" /\ stream' = stream
        /\ \A q \in Request \ {r} : snap'[q] = snap[q]
    BY <1>3 DEF Snapshot, IInv, TypeOK
  <2>2. stream[r] = "none"
    BY <2>1 DEF IInv, Phases
  <2>3. StreamsOf(s)' = StreamsOf(s) /\ DoneOn(s)' = DoneOn(s)
    BY <2>1, <2>2 DEF StreamsOf, DoneOn
  <2>4. QED
    BY <1>1, <2>3, TransportUnmoved
<1>4. QED
  BY <1>2, <1>3

\* The transports close and publish Done one by one.
LEMMA SessionRefines ==
  ASSUME IInv, NEW s \in Session, NEW t \in Session,
         CloseTransport(t) \/ PublishDone(t)
  PROVE  C(s)!Terminate \/ C(s)!Publish \/ UNCHANGED C(s)!contractVars
<1>1. /\ StreamsOf(s)' = StreamsOf(s) /\ DoneOn(s)' = DoneOn(s)
      /\ UNCHANGED <<stream, snap>>
  BY DEF CloseTransport, PublishDone, StreamsOf, DoneOn
<1>2. CASE CloseTransport(t)
  BY <1>1, <1>2 DEF CloseTransport, C!Terminate, C!contractVars
<1>3. CASE PublishDone(t)
  BY <1>1, <1>3 DEF PublishDone, C!Publish, C!contractVars
<1>4. QED
  BY <1>2, <1>3

\* Every session's transport is used as the tunnel contract allows: no stream
\* after its end, and its Done only over streams that are Done.
THEOREM UsesContractHolds == Spec => UsesContract
<1>1. ASSUME NEW s \in Session PROVE Spec => C(s)!Contract
  <2>1. Init => C(s)!ContractInit
    BY DEF Init, C!ContractInit, StreamsOf, DoneOn
  <2>2. IInv /\ [Next]_vars => [C(s)!ContractNext]_(C(s)!contractVars)
    <3> SUFFICES ASSUME IInv, [Next]_vars
                 PROVE  C(s)!ContractNext \/ UNCHANGED C(s)!contractVars
      OBVIOUS
    <3>1. ASSUME NEW t \in Session, CloseTransport(t) \/ PublishDone(t)
          PROVE  C(s)!ContractNext \/ UNCHANGED C(s)!contractVars
      BY <3>1, SessionRefines DEF C!ContractNext
    <3>2. ASSUME NEW r \in Request, OpenStream(r) \/ StreamDone(r)
          PROVE  C(s)!ContractNext \/ UNCHANGED C(s)!contractVars
      BY <3>2, OpenRefines, DoneRefines DEF C!ContractNext
    <3>3. ASSUME NEW r \in Request, Abort(r) \/ Closes(r) \/ Snapshot(r)
          PROVE  UNCHANGED C(s)!contractVars
      BY <3>3, KeptRefines
    <3>4. CASE UNCHANGED <<stream, snap, closed, done>>
      <4>1. StreamsOf(s)' = StreamsOf(s) /\ DoneOn(s)' = DoneOn(s)
        BY <3>4 DEF StreamsOf, DoneOn
      <4>2. QED
        BY <3>4, <4>1, TransportUnmoved
    <3>5. QED
      BY <3>1, <3>2, <3>3, <3>4
      DEF Next, vars, sessionVars, Drop, StopAdmission, DropRoutes, JoinTransport,
          ReleaseAuth, InstallRoute, RemoveRoute, Lookup, ProxyFor, Cancel, Moves, Transfer,
          Count, Dial,
          reserveStreamWatcher, AcquireGlobal, AcquireSession, Recheck, OpenFails,
          UnwindLease, UnwindWatcher, Watch, Finalize, DoneLease, DoneWatcher
  <2>3. QED
    BY <2>1, <2>2, IInvHolds, PTL DEF Spec, C!Contract
<1>2. QED
  BY <1>1 DEF UsesContract
=============================================================================
