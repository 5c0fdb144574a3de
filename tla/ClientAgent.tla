----------------------------- MODULE ClientAgent -----------------------------
(***************************************************************************)
(* The client agent (internal/client/client.go): the names a user wants    *)
(* exposed, kept registered at the edge across sessions.                   *)
(*                                                                         *)
(* Register records the name in c.intended, takes registerMu, sends a      *)
(* register message on the current session and waits for the reply, the    *)
(* session's end or a timeout; on failure it rolls c.intended back.        *)
(* Unregister deletes the name and sends a message without the mutex.      *)
(* manage replaces a lost session and starts a replay loop, which          *)
(* registers again what is intended, name by name under registerMu.        *)
(* readControl hands each reply to the register that is pending on its     *)
(* session, through a channel of capacity one.                             *)
(*                                                                         *)
(* The edge is the other end of the control stream: it handles the lines   *)
(* of a session in order, and a session that died holds its names until    *)
(* the edge notices (EdgeRoutes has the details).                          *)
(***************************************************************************)
EXTENDS Integers, Sequences, FiniteSets

CONSTANTS
    Caller,         \* goroutines that call Register and Unregister
    Name, Port,
    None,
    MaxCalls,       \* bound: calls of Register, Unregister and Close
    MaxSessions,    \* bound: sessions ever installed
    MaxQueue        \* bound: lines in flight in one direction

\* Transport sessions in the order they are installed, and the replay loop
\* manage starts with each but the first.
Session == 1..MaxSessions
Replay == 2..MaxSessions
Actor == Caller \cup Replay

ASSUME ActorsAssumption ==
    Caller \cap Replay = {} /\ None \notin Actor
ASSUME NamesAssumption ==
    None \notin Name /\ None \notin Port
ASSUME BoundsAssumption ==
    MaxSessions \in Nat \ {0} /\ MaxQueue \in Nat \ {0} /\ MaxCalls \in Nat

VARIABLES
    intended,       \* c.intended: Name -> Port, None for a missing key
    sess,           \* c.sess, 0 for nil
    closed,         \* c.closed is closed
    up,             \* sessions whose transport is open
    installed,      \* sessions installed so far
    manage,         \* where manage is
    registerMu,     \* who holds the mutex
    pc,             \* where each caller and replay loop is
    call,           \* its arguments and locals
    ch,             \* the reply in its pending register's channel
    pending,        \* session.pending: who waits for a reply
    reader,         \* the reply readControl is about to send, and to whom
    stuck,          \* sessions whose readControl is blocked for good
    todo, failed,   \* a replay loop's snapshot and its failed names
    toEdge, toClient,       \* lines in flight on each control stream
    edgeUp,         \* sessions the edge takes for alive
    edgeNames,      \* names registered on each session at the edge
    warned,         \* the edge has sent a shutdown error (bound: once)
    calls,          \* calls made so far
    granted,        \* history: names a Register succeeded for
    crossed,        \* history: names with an overlapping Unregister and Register
    clashed,        \* history: names with overlapping Registers of two ports
    skipped         \* history: names replay passed over at a port not intended

callVars == <<pc, call, ch, registerMu, pending, reader, stuck>>
sessionVars == <<sess, up, installed, manage, closed>>
replayVars == <<todo, failed>>
edgeVars == <<toEdge, toClient, edgeUp, edgeNames, warned>>
historyVars == <<granted, crossed, clashed, skipped, calls>>
vars == <<intended, sessionVars, callVars, replayVars, edgeVars, historyVars>>

NoCall == [name |-> None, port |-> None, prev |-> None, on |-> 0]

\* Connect has installed the first session.
Init ==
    /\ intended = [n \in Name |-> None]
    /\ sess = 1 /\ closed = FALSE /\ up = {1} /\ installed = 1
    /\ manage = "watch" /\ registerMu = None
    /\ pc = [a \in Actor |-> "idle"]
    /\ call = [a \in Actor |-> NoCall]
    /\ ch = [a \in Actor |-> None]
    /\ pending = [s \in Session |-> None]
    /\ reader = [s \in Session |-> None] /\ stuck = {}
    /\ todo = [r \in Replay |-> [n \in Name |-> None]]
    /\ failed = [r \in Replay |-> Name]
    /\ toEdge = [s \in Session |-> <<>>] /\ toClient = [s \in Session |-> <<>>]
    /\ edgeUp = {1} /\ edgeNames = [s \in Session |-> {}] /\ warned = FALSE
    /\ granted = {} /\ crossed = {} /\ clashed = {} /\ skipped = {} /\ calls = 0

Registering(n) ==
    \E a \in Caller : pc[a] \in {"lock", "find", "write", "wait"} /\ call[a].name = n
Unregistering(n) ==
    \E a \in Caller : pc[a] = "unregister" /\ call[a].name = n
Disputed(n, p) ==
    \E a \in Caller : /\ pc[a] \in {"lock", "find", "write", "wait"}
                      /\ call[a].name = n /\ call[a].port # p

-----------------------------------------------------------------------------
(* One register attempt, of a caller or of a replay loop                   *)

\* The pending register is installed on session s.
BeginAttempt(a, s) ==
    /\ call' = [call EXCEPT ![a].on = s]
    /\ pending' = [pending EXCEPT ![s] = a]
    /\ ch' = [ch EXCEPT ![a] = None]
    /\ pc' = [pc EXCEPT ![a] = "write"]

\* The pending register is cleared.  readControl may already have picked it
\* up: it then sends into a channel nobody reads any more, and blocks for good
\* if a reply is left in it.
EndAttempt(a, left) ==
    LET s == call[a].on
        held == reader[s] # None /\ reader[s].to = a
    IN  /\ pending' = [pending EXCEPT ![s] = None]
        /\ ch' = [ch EXCEPT ![a] = None]
        /\ reader' = IF held THEN [reader EXCEPT ![s] = None] ELSE reader
        /\ stuck' = IF held /\ left # None THEN stuck \cup {s} ELSE stuck

\* Mutant: a failed Register stays intended.
RolledBack_Never(a) == intended

\* Register's rollback.
RolledBack(a) ==
    IF intended[call[a].name] = call[a].port
      THEN [intended EXCEPT ![call[a].name] = call[a].prev]
      ELSE intended

\* The attempt's owner gives the mutex back: a caller returns, a replay loop
\* goes on to its next name.
Return(a) ==
    /\ registerMu' = None
    /\ pc' = [pc EXCEPT ![a] = IF a \in Caller THEN "idle" ELSE "next"]
    /\ call' = [call EXCEPT ![a] = [NoCall EXCEPT !.on =
                                        IF a \in Caller THEN 0 ELSE call[a].on]]

Succeed(a) ==
    /\ Return(a)
    /\ granted' = IF a \in Caller THEN granted \cup {call[a].name} ELSE granted
    /\ skipped' = IF a \in Caller THEN skipped \ {call[a].name} ELSE skipped
    /\ UNCHANGED <<intended, failed, crossed, clashed, calls>>

Fail(a) ==
    /\ Return(a)
    /\ intended' = IF a \in Caller THEN RolledBack(a) ELSE intended
    /\ failed' = IF a \in Caller THEN failed
                 ELSE [failed EXCEPT ![a] = @ \cup {call[a].name}]
    /\ UNCHANGED historyVars

\* errSessionUnavailable: Register looks for another session, replay counts
\* the name as failed.
Unavailable(a) ==
    IF a \in Caller
      THEN /\ pc' = [pc EXCEPT ![a] = "find"]
           /\ UNCHANGED <<intended, registerMu, call, failed, historyVars>>
      ELSE Fail(a)

\* The register message is written, or the write fails: session.write closes
\* the transport on every error, so a failed write always finds it closed.
WriteRegister(a) ==
    LET s == call[a].on
    IN  /\ pc[a] = "write"
        /\ \/ /\ s \in up /\ Len(toEdge[s]) < MaxQueue
              /\ toEdge' = [toEdge EXCEPT ![s] =
                               Append(@, [type |-> "register", name |-> call[a].name])]
              /\ pc' = [pc EXCEPT ![a] = "wait"]
              /\ UNCHANGED <<intended, registerMu, call, ch, pending, reader, stuck,
                             failed, historyVars>>
           \/ /\ s \notin up
              /\ EndAttempt(a, ch[a]) /\ Unavailable(a)
              /\ UNCHANGED toEdge
        /\ UNCHANGED <<sessionVars, todo, toClient, edgeUp, edgeNames, warned>>

\* A reply is in the channel.  (The select that sees Done takes it as well.)
TakeReply(a) ==
    /\ pc[a] = "wait" /\ ch[a] # None
    /\ EndAttempt(a, None)
    /\ IF ch[a].ok THEN Succeed(a) ELSE Fail(a)
    /\ UNCHANGED <<sessionVars, todo, edgeVars>>

\* The session ended and there is no reply.
SessionEnded(a) ==
    /\ pc[a] = "wait" /\ call[a].on \notin up /\ ch[a] = None
    /\ EndAttempt(a, None) /\ Unavailable(a)
    /\ UNCHANGED <<sessionVars, todo, edgeVars>>

\* The timer fired or the client is closed; select takes either even when a
\* reply is ready too.
GiveUp(a) ==
    /\ pc[a] = "wait"
    /\ EndAttempt(a, ch[a]) /\ Fail(a)
    /\ UNCHANGED <<sessionVars, todo, edgeVars>>

-----------------------------------------------------------------------------
(* Register and Unregister                                                 *)

RegisterCall(a, n, p) ==
    /\ pc[a] = "idle" /\ calls < MaxCalls
    /\ calls' = calls + 1
    /\ intended' = [intended EXCEPT ![n] = p]
    /\ call' = [call EXCEPT ![a] = [name |-> n, port |-> p,
                                    prev |-> intended[n], on |-> 0]]
    /\ pc' = [pc EXCEPT ![a] = "lock"]
    /\ crossed' = IF Unregistering(n) THEN crossed \cup {n} ELSE crossed
    /\ clashed' = IF Disputed(n, p) THEN clashed \cup {n} ELSE clashed
    /\ UNCHANGED <<sessionVars, ch, registerMu, pending, reader, stuck, replayVars,
                   edgeVars, granted, skipped>>

Lock(a) ==
    /\ pc[a] = "lock" /\ registerMu = None
    /\ registerMu' = a
    /\ pc' = [pc EXCEPT ![a] = "find"]
    /\ UNCHANGED <<intended, sessionVars, call, ch, pending, reader, stuck, replayVars,
                   edgeVars, historyVars>>

\* registerNow's loop finds a usable session.
FindSession(a) ==
    /\ pc[a] = "find" /\ sess \in up
    /\ BeginAttempt(a, sess)
    /\ UNCHANGED <<intended, sessionVars, registerMu, reader, stuck, replayVars,
                   edgeVars, historyVars>>

\* The deadline passed or the client was closed; both are looked at only after
\* an attempt found no usable session.
FindGivesUp(a) ==
    /\ pc[a] = "find" /\ (sess \notin up \/ call[a].on # 0)
    /\ Fail(a)
    /\ UNCHANGED <<sessionVars, ch, pending, reader, stuck, todo, edgeVars>>

\* Unregister deletes the name and captures the session; its message is
\* written later.
UnregisterCall(a, n) ==
    /\ pc[a] = "idle" /\ calls < MaxCalls
    /\ calls' = calls + 1
    /\ intended' = [intended EXCEPT ![n] = None]
    /\ granted' = granted \ {n}
    /\ crossed' = IF Registering(n) THEN crossed \cup {n} ELSE crossed
    /\ IF sess = 0
         THEN UNCHANGED <<pc, call>>
         ELSE /\ pc' = [pc EXCEPT ![a] = "unregister"]
              /\ call' = [call EXCEPT ![a] = [NoCall EXCEPT !.name = n, !.on = sess]]
    /\ UNCHANGED <<sessionVars, ch, registerMu, pending, reader, stuck, replayVars, edgeVars,
                   clashed, skipped>>

WriteUnregister(a) ==
    LET s == call[a].on
    IN  /\ pc[a] = "unregister"
        /\ \/ /\ s \in up /\ Len(toEdge[s]) < MaxQueue
              /\ toEdge' = [toEdge EXCEPT ![s] =
                               Append(@, [type |-> "unregister", name |-> call[a].name])]
           \/ s \notin up /\ UNCHANGED toEdge
        /\ pc' = [pc EXCEPT ![a] = "idle"]
        /\ call' = [call EXCEPT ![a] = NoCall]
        /\ UNCHANGED <<intended, sessionVars, ch, registerMu, pending, reader, stuck,
                       replayVars, toClient, edgeUp, edgeNames, warned, historyVars>>

-----------------------------------------------------------------------------
(* Replay after a reconnect                                                *)

\* replayLoop captures the session that is current when it runs.
ReplayStart(r) ==
    /\ pc[r] = "start"
    /\ pc' = [pc EXCEPT ![r] = IF sess = 0 THEN "over" ELSE "snapshot"]
    /\ call' = [call EXCEPT ![r].on = sess]
    /\ UNCHANGED <<intended, sessionVars, ch, registerMu, pending, reader, stuck,
                   replayVars, edgeVars, historyVars>>

\* failed is every name before the first round.
ReplaySnapshot(r) ==
    /\ pc[r] = "snapshot"
    /\ todo' = [todo EXCEPT ![r] =
                   [n \in Name |-> IF n \in failed[r] THEN intended[n] ELSE None]]
    /\ failed' = [failed EXCEPT ![r] = {}]
    /\ pc' = [pc EXCEPT ![r] = "next"]
    /\ UNCHANGED <<intended, sessionVars, call, ch, registerMu, pending, reader, stuck,
                   edgeVars, historyVars>>

\* The re-check under registerMu: a name that is no longer intended at that
\* port is skipped.
StillIntended(r, n) == intended[n] = todo[r][n]

\* Mutant: the path that skips a name returns without unlocking.
ReplaySkip_NoUnlock(r, n) ==
    /\ pc[r] = "next" /\ todo[r][n] # None /\ registerMu = None
    /\ ~StillIntended(r, n)
    /\ todo' = [todo EXCEPT ![r][n] = None]
    /\ registerMu' = r
    /\ UNCHANGED <<intended, sessionVars, pc, call, ch, pending, reader, stuck,
                   failed, edgeVars, historyVars>>

ReplaySkip(r, n) ==
    /\ pc[r] = "next" /\ todo[r][n] # None /\ registerMu = None
    /\ ~StillIntended(r, n)
    /\ todo' = [todo EXCEPT ![r][n] = None]
    /\ skipped' = IF intended[n] # None THEN skipped \cup {n} ELSE skipped
    /\ UNCHANGED <<intended, sessionVars, callVars, failed, edgeVars, granted, crossed,
                   clashed, calls>>

ReplayName(r, n) ==
    /\ pc[r] = "next" /\ todo[r][n] # None /\ registerMu = None
    /\ StillIntended(r, n)
    /\ todo' = [todo EXCEPT ![r][n] = None]
    /\ IF call[r].on \in up
         THEN /\ registerMu' = r
              /\ call' = [call EXCEPT ![r].name = n, ![r].port = todo[r][n]]
              /\ pending' = [pending EXCEPT ![call[r].on] = r]
              /\ ch' = [ch EXCEPT ![r] = None]
              /\ pc' = [pc EXCEPT ![r] = "write"]
              /\ UNCHANGED failed
         ELSE /\ failed' = [failed EXCEPT ![r] = @ \cup {n}]
              /\ UNCHANGED <<registerMu, call, pending, ch, pc>>
    /\ UNCHANGED <<intended, sessionVars, reader, stuck, edgeVars, historyVars>>

\* Mutant: one round is all there is.
ReplayRound_Once(r) ==
    /\ pc[r] = "next" /\ \A n \in Name : todo[r][n] = None
    /\ pc' = [pc EXCEPT ![r] = "over"]
    /\ UNCHANGED <<intended, sessionVars, call, ch, registerMu, pending, reader, stuck,
                   replayVars, edgeVars, historyVars>>

ReplayRound(r) ==
    /\ pc[r] = "next" /\ \A n \in Name : todo[r][n] = None
    /\ pc' = [pc EXCEPT ![r] = IF failed[r] = {} THEN "over" ELSE "backoff"]
    /\ UNCHANGED <<intended, sessionVars, call, ch, registerMu, pending, reader, stuck,
                   replayVars, edgeVars, historyVars>>

ReplayBackoff(r) ==
    /\ pc[r] = "backoff"
    /\ pc' = [pc EXCEPT ![r] =
                 IF closed \/ call[r].on \notin up THEN "over" ELSE "snapshot"]
    /\ UNCHANGED <<intended, sessionVars, call, ch, registerMu, pending, reader, stuck,
                   replayVars, edgeVars, historyVars>>

-----------------------------------------------------------------------------
(* Sessions: manage, Close, readControl                                    *)

\* The transport of a session ends, for whatever reason; a line nobody has
\* read is lost.  The last session the bound admits stays.
SessionDies(s) ==
    /\ s \in up /\ installed < MaxSessions
    /\ up' = up \ {s}
    /\ toClient' = [toClient EXCEPT ![s] = <<>>]
    /\ UNCHANGED <<intended, sess, closed, installed, manage, callVars,
                   replayVars, toEdge, edgeUp, edgeNames, warned, historyVars>>

\* manage sees Session.Done.
SessionLost ==
    /\ manage = "watch" /\ sess # 0 /\ sess \notin up
    /\ sess' = 0 /\ manage' = "dial"
    /\ UNCHANGED <<intended, closed, up, installed, callVars, replayVars,
                   edgeVars, historyVars>>

\* connectOnce succeeds and installs the session; replay starts.  A failed
\* attempt changes nothing.
Reconnect ==
    LET s == installed + 1
    IN  /\ manage = "dial" /\ ~closed /\ installed < MaxSessions
        /\ installed' = s /\ sess' = s
        /\ up' = up \cup {s} /\ edgeUp' = edgeUp \cup {s}
        /\ manage' = "watch"
        /\ pc' = [pc EXCEPT ![s] = "start"]
        /\ skipped' = {}
        /\ UNCHANGED <<intended, closed, call, ch, registerMu, pending, reader, stuck,
                       replayVars, toEdge, toClient, edgeNames, warned, granted, crossed,
                       clashed, calls>>

Close ==
    /\ ~closed /\ calls < MaxCalls
    /\ calls' = calls + 1
    /\ closed' = TRUE /\ sess' = 0 /\ up' = up \ {sess}
    /\ toClient' = [s \in Session |-> IF s = sess THEN <<>> ELSE toClient[s]]
    /\ UNCHANGED <<intended, installed, manage, callVars, replayVars, toEdge,
                   edgeUp, edgeNames, warned, granted, crossed, clashed, skipped>>

ManageEnds ==
    /\ closed /\ manage # "over"
    /\ manage' = "over"
    /\ UNCHANGED <<intended, sess, closed, up, installed, callVars, replayVars,
                   edgeVars, historyVars>>

\* Mutant: the reply goes to whatever register is pending.
ForPending_Any(a, m) == TRUE

\* Is reply m for the register that a has pending?
ForPending(a, m) ==
    IF m.ok THEN m.name = call[a].name ELSE m.name \in {None, call[a].name}

\* readControl reads a line and the pending register; a reply for nobody, or
\* for another name, is dropped.
ReadReply(s) ==
    LET m == Head(toClient[s])
        a == pending[s]
    IN  /\ reader[s] = None /\ s \notin stuck /\ toClient[s] # <<>>
        /\ toClient' = [toClient EXCEPT ![s] = Tail(@)]
        /\ reader' = [reader EXCEPT ![s] =
                         IF a # None /\ ForPending(a, m)
                           THEN [msg |-> m, to |-> a]
                           ELSE None]
        /\ UNCHANGED <<intended, sessionVars, pc, call, ch, registerMu, pending,
                       stuck, replayVars, toEdge, edgeUp, edgeNames, warned, historyVars>>

\* It sends the reply into the channel of that register.
SendReply(s) ==
    /\ reader[s] # None
    /\ ch[reader[s].to] = None
    /\ ch' = [ch EXCEPT ![reader[s].to] = reader[s].msg]
    /\ reader' = [reader EXCEPT ![s] = None]
    /\ UNCHANGED <<intended, sessionVars, pc, call, registerMu, pending,
                   stuck, replayVars, edgeVars, historyVars>>

-----------------------------------------------------------------------------
(* The edge's end of the control stream                                    *)

\* A reply is lost with its session; nobody will ever read it from a reader
\* that is stuck.
Reply(s, ok, n) ==
    IF s \in up \ stuck
      THEN /\ Len(toClient[s]) < MaxQueue
           /\ toClient' = [toClient EXCEPT ![s] = Append(@, [ok |-> ok, name |-> n])]
      ELSE UNCHANGED toClient

\* Another session that the edge takes for alive has the name.
Taken(s, n) == \E t \in edgeUp \ {s} : n \in edgeNames[t]

EdgeHandles(s) ==
    /\ s \in edgeUp /\ toEdge[s] # <<>>
    /\ toEdge' = [toEdge EXCEPT ![s] = Tail(@)]
    /\ LET m == Head(toEdge[s])
       IN  \/ /\ m.type = "register" /\ ~Taken(s, m.name)
              /\ edgeNames' = [edgeNames EXCEPT ![s] = @ \cup {m.name}]
              /\ Reply(s, TRUE, m.name)
           \/ /\ m.type = "register" /\ Taken(s, m.name)
              /\ Reply(s, FALSE, m.name)
              /\ UNCHANGED edgeNames
           \/ /\ m.type = "unregister"
              /\ edgeNames' = [edgeNames EXCEPT ![s] = @ \ {m.name}]
              /\ UNCHANGED toClient
    /\ UNCHANGED <<intended, sessionVars, callVars, replayVars, edgeUp, warned,
                   historyVars>>

\* The edge drops a dead session and what it holds.
EdgeNotices(s) ==
    /\ s \in edgeUp \ up
    /\ edgeUp' = edgeUp \ {s}
    /\ edgeNames' = [edgeNames EXCEPT ![s] = {}]
    /\ toEdge' = [toEdge EXCEPT ![s] = <<>>]
    /\ UNCHANGED <<intended, sessionVars, callVars, replayVars, toClient, warned,
                   historyVars>>

\* A shutdown error belongs to no register: it fails the one in flight.
EdgeShutsDown(s) ==
    /\ s \in edgeUp \cap up /\ ~warned /\ installed < MaxSessions
    /\ warned' = TRUE
    /\ Reply(s, FALSE, None)
    /\ UNCHANGED <<intended, sessionVars, callVars, replayVars, toEdge, edgeUp,
                   edgeNames, historyVars>>

-----------------------------------------------------------------------------
Attempt(a) ==
    WriteRegister(a) \/ TakeReply(a) \/ SessionEnded(a) \/ GiveUp(a)

CallerStep(a) ==
    \/ Lock(a) \/ FindSession(a) \/ FindGivesUp(a) \/ WriteUnregister(a)
    \/ Attempt(a)

ReplayStep(r) ==
    \/ ReplayStart(r) \/ ReplaySnapshot(r) \/ ReplayRound(r) \/ ReplayBackoff(r)
    \/ \E n \in Name : ReplaySkip(r, n) \/ ReplayName(r, n)
    \/ Attempt(r)

readControl(s) == ReadReply(s) \/ SendReply(s)
Manage == SessionLost \/ Reconnect \/ ManageEnds
Edge(s) == EdgeHandles(s) \/ EdgeNotices(s)

Next ==
    \/ \E a \in Caller : \E n \in Name :
         UnregisterCall(a, n) \/ \E p \in Port : RegisterCall(a, n, p)
    \/ Close
    \/ \E a \in Caller : CallerStep(a)
    \/ \E r \in Replay : ReplayStep(r)
    \/ \E s \in Session : readControl(s) \/ Edge(s) \/ SessionDies(s) \/ EdgeShutsDown(s)
    \/ Manage

Spec == Init /\ [][Next]_vars

\* Every goroutine runs when it can, and sync.Mutex starves none; a register
\* attempt ends with its timer at the latest; the edge handles what it
\* receives and notices dead sessions (its heartbeat watch); reconnecting
\* succeeds in the end.
Fairness ==
    /\ \A a \in Caller : SF_vars(CallerStep(a))
    /\ \A r \in Replay : SF_vars(ReplayStep(r))
    /\ \A s \in Session : WF_vars(readControl(s)) /\ WF_vars(Edge(s))
    /\ WF_vars(Manage)

FairSpec == Spec /\ Fairness

-----------------------------------------------------------------------------
(* Properties                                                              *)

Stage == {"idle", "lock", "find", "write", "wait", "unregister",
          "start", "snapshot", "next", "backoff", "over"}
Calls == [name : Name \cup {None}, port : Port \cup {None},
          prev : Port \cup {None}, on : 0..MaxSessions]
Requests == [type : {"register", "unregister"}, name : Name]
Replies == [ok : BOOLEAN, name : Name \cup {None}]

CallTypes ==
    /\ intended \in [Name -> Port \cup {None}]
    /\ registerMu \in Actor \cup {None}
    /\ pc \in [Actor -> Stage]
    /\ call \in [Actor -> Calls]
    /\ ch \in [Actor -> Replies \cup {None}]
    /\ pending \in [Session -> Actor \cup {None}]
    /\ reader \in [Session -> [msg : Replies, to : Actor] \cup {None}]
    /\ stuck \subseteq Session

SessionTypes ==
    /\ sess \in 0..MaxSessions /\ installed \in Session /\ up \subseteq Session
    /\ closed \in BOOLEAN /\ manage \in {"watch", "dial", "over"}

ReplayTypes ==
    /\ todo \in [Replay -> [Name -> Port \cup {None}]]
    /\ failed \in [Replay -> SUBSET Name]

EdgeTypes ==
    /\ toEdge \in [Session -> Seq(Requests)]
    /\ toClient \in [Session -> Seq(Replies)]
    /\ edgeUp \subseteq Session /\ warned \in BOOLEAN
    /\ edgeNames \in [Session -> SUBSET Name]

HistoryTypes ==
    /\ granted \subseteq Name /\ crossed \subseteq Name /\ calls \in 0..MaxCalls
    /\ clashed \subseteq Name /\ skipped \subseteq Name

\* Every variable has its type.
TypeOK == CallTypes /\ SessionTypes /\ ReplayTypes /\ EdgeTypes /\ HistoryTypes

\* "which keeps the session's single pending-reply slot serialized": whoever
\* is pending on any session holds registerMu, so no register overwrites the
\* slot of another, across sessions and replays.
PendingSerial == \A s \in Session : pending[s] # None => pending[s] = registerMu

\* A reply is only ever handed to a register of the name it is for, though
\* replies arrive after their register timed out and the slot changed hands.
RightReply ==
    \A a \in Actor : ch[a] # None =>
        IF ch[a].ok THEN ch[a].name = call[a].name
        ELSE ch[a].name \in {None, call[a].name}

\* A failed Register leaves no intended name behind ("a ghost tunnel the user
\* was told does not exist"), unless Registers of two ports, or a Register and
\* an Unregister, of the name overlapped: the rollback compares ports only.
NoGhost ==
    \A n \in Name : (intended[n] # None /\ ~Registering(n) /\ n \notin crossed \cup clashed)
                        => n \in granted

\* The name is intended, a Register has succeeded for it, the session is alive,
\* and the edge does not have it.  Left out is a name that replay passed over
\* because a Register of another port held it, if that one has not succeeded.
Stranded(n) ==
    /\ sess \in up /\ intended[n] # None /\ n \notin edgeNames[sess]
    /\ n \in granted \ (crossed \cup skipped)

\* Replay leaves no other tunnel stranded on a live session: a refused name is
\* tried again, and one that is repointed meanwhile is up once its Register
\* succeeds (replayLoop, replayIntended).
ReplayCompletes == \A n \in Name : Stranded(n) ~> ~Stranded(n)

\* Register returns, whatever sessions, replies and other callers do.
RegisterReturns ==
    \A a \in Caller : pc[a] \in {"lock", "find", "write", "wait"} ~> pc[a] = "idle"

\* Requests and replies are matched: one register is pending at a time and it
\* is handed no reply but its own.
RegisterSound == TypeOK /\ PendingSerial /\ RightReply
=============================================================================
