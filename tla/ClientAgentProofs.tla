-------------------------- MODULE ClientAgentProofs --------------------------
(***************************************************************************)
(* Proofs about ClientAgent: the single pending-reply slot of a session is *)
(* serialized by registerMu, a reply only reaches a register of its own    *)
(* name, a failed register leaves no intended name, and the control reader *)
(* of a live session blocks in one way only, for any callers, names,       *)
(* ports, sessions and queue bounds.                                       *)
(***************************************************************************)
EXTENDS ClientAgent, TLAPS

InFlight == {"write", "wait"}

\* What an operation's locals and the mutex are while it is under way.
CallLocals ==
    \A a \in Actor :
        /\ pc[a] \in InFlight \cup {"lock", "find", "unregister"} => call[a].name \in Name
        /\ pc[a] \in InFlight \cup {"find"} => registerMu = a
        /\ pc[a] \in InFlight => call[a].on \in Session

\* A pending slot belongs to an attempt under way on that session.
PendingOwned ==
    \A s \in Session : pending[s] # None =>
        /\ pc[pending[s]] \in InFlight
        /\ call[pending[s]].on = s

Matches(m, a) ==
    IF m.ok THEN m.name = call[a].name ELSE m.name \in {None, call[a].name}

\* readControl holds a reply only for the register that is pending now.
ReaderHolds ==
    \A s \in Session : reader[s] # None =>
        reader[s].to = pending[s] /\ Matches(reader[s].msg, reader[s].to)

\* A channel with a reply in it belongs to an attempt under way.
ChannelOwned ==
    \A a \in Actor : ch[a] # None => pc[a] \in InFlight /\ Matches(ch[a], a)

\* The replay loop of a session that is not installed yet has not started.
ReplayIdle == \A r \in Replay : r > installed => pc[r] = "idle"

IndInv ==
    /\ TypeOK
    /\ CallLocals /\ PendingOwned /\ ReaderHolds /\ ChannelOwned
    /\ ReplayIdle

-----------------------------------------------------------------------------
(* Lemmas on the data                                                      *)

\* What the steps need to know of the actors and sessions.
LEMMA Domains ==
    /\ Caller \subseteq Actor /\ Replay \subseteq Actor /\ None \notin Actor
    /\ Caller \cap Replay = {}
    /\ \A a \in Actor : a \notin Caller => a \in Replay
    /\ Session \subseteq 0..MaxSessions /\ 0 \notin Session /\ 1 \in Session
    /\ \A i \in Session : i < MaxSessions => i + 1 \in Session /\ i + 1 \in Replay
    /\ \A i \in 0..MaxSessions : i # 0 => i \in Session
  BY ActorsAssumption, BoundsAssumption DEF Actor, Session, Replay

\* A call's fields may be set one by one, and a call may be cleared.
LEMMA CallUpdates ==
    /\ NoCall \in Calls
    /\ \A s \in 0..MaxSessions : [NoCall EXCEPT !.on = s] \in Calls
    /\ \A n \in Name, s \in 0..MaxSessions : [NoCall EXCEPT !.name = n, !.on = s] \in Calls
    /\ \A c \in Calls, s \in 0..MaxSessions : [c EXCEPT !.on = s] \in Calls
    /\ \A c \in Calls, n \in Name, p \in Port :
         [c EXCEPT !.name = n, !.port = p] \in Calls
    /\ \A c \in Calls : c.on \in 0..MaxSessions /\ c.name \in Name \cup {None}
         /\ c.port \in Port \cup {None} /\ c.prev \in Port \cup {None}
<1>. 0 \in 0..MaxSessions
  BY BoundsAssumption
<1>1. NoCall \in Calls
  BY DEF Calls, NoCall
<1>2. \A c \in Calls : c.on \in 0..MaxSessions /\ c.name \in Name \cup {None}
         /\ c.port \in Port \cup {None} /\ c.prev \in Port \cup {None}
  BY DEF Calls
<1>3. \A c \in Calls, s \in 0..MaxSessions : [c EXCEPT !.on = s] \in Calls
  BY DEF Calls
<1>4. \A c \in Calls, n \in Name, p \in Port :
         [c EXCEPT !.name = n, !.port = p] \in Calls
  BY DEF Calls
<1>5. \A c \in Calls, n \in Name, s \in 0..MaxSessions :
         [c EXCEPT !.name = n, !.on = s] \in Calls
  BY DEF Calls
<1>. QED
  BY <1>1, <1>2, <1>3, <1>4, <1>5

\* Lines are appended to a queue and taken from its front.
LEMMA QueueUpdates ==
    ASSUME NEW S
    PROVE  /\ << >> \in Seq(S)
           /\ \A q \in Seq(S), m \in S : Append(q, m) \in Seq(S)
           /\ \A q \in Seq(S) : q # << >> => Head(q) \in S /\ Tail(q) \in Seq(S)
  OBVIOUS

\* An attempt's owner gives the mutex back and forgets its locals.
LEMMA ReturnTypes ==
    ASSUME CallTypes, NEW a \in Actor, Return(a)
    PROVE  /\ registerMu' \in Actor \cup {None}
           /\ pc' \in [Actor -> Stage]
           /\ call' \in [Actor -> Calls]
<1>1. [NoCall EXCEPT !.on = IF a \in Caller THEN 0 ELSE call[a].on] \in Calls
  <2>1. 0 \in 0..MaxSessions
    BY BoundsAssumption
  <2>2. call[a].on \in 0..MaxSessions
    <3>1. call[a] \in Calls
      BY DEF CallTypes
    <3>. QED
      BY <3>1, CallUpdates
  <2>. QED
    BY <2>1, <2>2, CallUpdates
<1>2. call' \in [Actor -> Calls]
  BY <1>1 DEF CallTypes, Return
<1>3. pc' \in [Actor -> Stage]
  BY DEF CallTypes, Return, Stage
<1>. QED
  BY <1>2, <1>3 DEF Return

\* A failed attempt: the rollback of a caller, the failed name of a replay.
LEMMA FailTypes ==
    ASSUME CallTypes, ReplayTypes, NEW a \in Actor, call[a].name \in Name, Fail(a)
    PROVE  /\ registerMu' \in Actor \cup {None}
           /\ pc' \in [Actor -> Stage]
           /\ call' \in [Actor -> Calls]
           /\ intended' \in [Name -> Port \cup {None}]
           /\ failed' \in [Replay -> SUBSET Name]
<1>1. intended' \in [Name -> Port \cup {None}]
  <2>1. call[a].prev \in Port \cup {None}
    BY CallUpdates DEF CallTypes
  <2>. QED
    BY <2>1 DEF CallTypes, Fail, RolledBack
<1>2. failed' \in [Replay -> SUBSET Name]
  BY Domains DEF ReplayTypes, Fail
<1>. QED
  BY <1>1, <1>2, ReturnTypes DEF Fail

\* The same when the session was found unavailable.
LEMMA UnavailableTypes ==
    ASSUME CallTypes, ReplayTypes, NEW a \in Actor, call[a].name \in Name, Unavailable(a)
    PROVE  /\ registerMu' \in Actor \cup {None}
           /\ pc' \in [Actor -> Stage]
           /\ call' \in [Actor -> Calls]
           /\ intended' \in [Name -> Port \cup {None}]
           /\ failed' \in [Replay -> SUBSET Name]
<1>1. CASE a \in Caller
  BY <1>1 DEF Unavailable, CallTypes, ReplayTypes, Stage
<1>2. CASE a \notin Caller
  BY <1>2, FailTypes DEF Unavailable
<1>. QED
  BY <1>1, <1>2

\* The end of an attempt on a session.
LEMMA EndAttemptTypes ==
    ASSUME CallTypes, NEW a \in Actor, call[a].on \in Session, NEW left,
           EndAttempt(a, left)
    PROVE  /\ pending' \in [Session -> Actor \cup {None}]
           /\ ch' \in [Actor -> Replies \cup {None}]
           /\ reader' \in [Session -> [msg : Replies, to : Actor] \cup {None}]
           /\ stuck' \subseteq Session
  BY DEF CallTypes, EndAttempt

-----------------------------------------------------------------------------
(* One lemma per action                                                    *)

\* The register message is written, or the session was found closed.
LEMMA WriteRegisterStep ==
    ASSUME IndInv, NEW a \in Actor, WriteRegister(a)
    PROVE  IndInv'
<1>a. call[a].name \in Name /\ call[a].on \in Session /\ registerMu = a
  BY DEF IndInv, CallLocals, InFlight, WriteRegister
<1>1. /\ pending' \in [Session -> Actor \cup {None}]
     /\ ch' \in [Actor -> Replies \cup {None}]
     /\ reader' \in [Session -> [msg : Replies, to : Actor] \cup {None}]
     /\ stuck' \subseteq Session
  BY <1>a, EndAttemptTypes DEF IndInv, TypeOK, CallTypes, WriteRegister
<1>2. /\ registerMu' \in Actor \cup {None}
     /\ pc' \in [Actor -> Stage]
     /\ call' \in [Actor -> Calls]
     /\ intended' \in [Name -> Port \cup {None}]
     /\ failed' \in [Replay -> SUBSET Name]
  <2>1. CASE call[a].on \in up
    BY <2>1 DEF IndInv, TypeOK, CallTypes, ReplayTypes, Stage, WriteRegister
  <2>2. CASE call[a].on \notin up
    BY <1>a, <2>2, UnavailableTypes DEF IndInv, TypeOK, WriteRegister
  <2>. QED
    BY <2>1, <2>2
<1>3. toEdge' \in [Session -> Seq(Requests)]
  <2>1. [type |-> "register", name |-> call[a].name] \in Requests
    BY <1>a DEF Requests
  <2>. QED
    <3>1. Append(toEdge[call[a].on], [type |-> "register", name |-> call[a].name])
            \in Seq(Requests)
      BY <1>a, <2>1, QueueUpdates DEF IndInv, TypeOK, EdgeTypes
    <3>. QED
      BY <1>a, <3>1 DEF IndInv, TypeOK, EdgeTypes, WriteRegister
<1>4. UNCHANGED <<sess, installed, up, closed, manage, todo, toClient,
     edgeUp, warned, edgeNames, granted, crossed, clashed, skipped, calls>>
  BY DEF WriteRegister, EndAttempt, Unavailable, Fail, Return, RolledBack, sessionVars, historyVars
<1>5. TypeOK'
  BY <1>1, <1>2, <1>3, <1>4 DEF IndInv, TypeOK, CallTypes, SessionTypes,
     ReplayTypes, EdgeTypes, HistoryTypes
<1>6. CallLocals'
  BY <1>a, <1>4, Domains, NamesAssumption DEF IndInv, TypeOK, CallTypes,
     SessionTypes, CallLocals, InFlight, NoCall, WriteRegister,
     EndAttempt, Unavailable, Fail, Return, RolledBack
<1>7. PendingOwned'
  <2>1. CASE call[a].on \in up
    <3>1. UNCHANGED <<call, pending>> /\ pc' = [pc EXCEPT ![a] = "wait"]
      BY <2>1 DEF WriteRegister
    <3>. QED
      BY <3>1, Domains DEF IndInv, TypeOK, CallTypes, PendingOwned, InFlight
  <2>2. CASE call[a].on \notin up
    <3>1. \A s \in Session : pending'[s] = None
      BY <1>a, <2>2, Domains DEF IndInv, TypeOK, CallTypes, CallLocals, PendingOwned,
         InFlight, WriteRegister, EndAttempt
    <3>. QED
      BY <3>1 DEF PendingOwned
  <2>. QED
    BY <2>1, <2>2
<1>8. ReaderHolds'
  BY <1>a, <1>4, Domains, NamesAssumption DEF IndInv, TypeOK, CallTypes,
     SessionTypes, ReaderHolds, PendingOwned, CallLocals, Matches,
     InFlight, NoCall, WriteRegister, EndAttempt, Unavailable, Fail,
     Return, RolledBack
<1>9. ChannelOwned'
  BY <1>a, <1>4, Domains, NamesAssumption DEF IndInv, TypeOK, CallTypes,
     SessionTypes, ChannelOwned, ReaderHolds, PendingOwned, CallLocals,
     Matches, InFlight, NoCall, WriteRegister, EndAttempt, Unavailable,
     Fail, Return, RolledBack
<1>10. ReplayIdle'
  BY <1>a, <1>4, Domains, NamesAssumption DEF IndInv, TypeOK, CallTypes,
     SessionTypes, ReplayIdle, InFlight, NoCall, WriteRegister,
     EndAttempt, Unavailable, Fail, Return, RolledBack
<1>. QED
  BY <1>5, <1>6, <1>7, <1>8, <1>9, <1>10 DEF IndInv

\* A reply ends the attempt.
LEMMA TakeReplyStep ==
    ASSUME IndInv, NEW a \in Actor, TakeReply(a)
    PROVE  IndInv'
<1>a. call[a].name \in Name /\ call[a].on \in Session /\ registerMu = a
  BY DEF IndInv, CallLocals, InFlight, TakeReply
<1>1. /\ pending' \in [Session -> Actor \cup {None}]
     /\ ch' \in [Actor -> Replies \cup {None}]
     /\ reader' \in [Session -> [msg : Replies, to : Actor] \cup {None}]
     /\ stuck' \subseteq Session
  BY <1>a, EndAttemptTypes DEF IndInv, TypeOK, TakeReply
<1>2. /\ registerMu' \in Actor \cup {None}
     /\ pc' \in [Actor -> Stage]
     /\ call' \in [Actor -> Calls]
     /\ intended' \in [Name -> Port \cup {None}]
     /\ failed' \in [Replay -> SUBSET Name]
  BY <1>a, FailTypes, ReturnTypes DEF IndInv, TypeOK, CallTypes, ReplayTypes, TakeReply, Succeed
<1>3. granted' \subseteq Name /\ skipped' \subseteq Name
  BY <1>a DEF IndInv, TypeOK, HistoryTypes, TakeReply, Succeed, Fail, historyVars
<1>4. UNCHANGED <<sess, installed, up, closed, manage, todo, toEdge,
     toClient, edgeUp, warned, edgeNames, crossed, clashed, calls>>
  BY DEF TakeReply, EndAttempt, Succeed, Fail, Return, RolledBack, sessionVars, edgeVars,
     historyVars
<1>5. TypeOK'
  BY <1>1, <1>2, <1>3, <1>4 DEF IndInv, TypeOK, CallTypes, SessionTypes,
     ReplayTypes, EdgeTypes, HistoryTypes
<1>6. CallLocals'
  BY <1>a, <1>4, Domains, NamesAssumption DEF IndInv, TypeOK, CallTypes,
     SessionTypes, CallLocals, InFlight, NoCall, TakeReply, EndAttempt,
     Succeed, Fail, Return, RolledBack
<1>7. PendingOwned'
  BY <1>a, <1>4, Domains, NamesAssumption DEF IndInv, TypeOK, CallTypes,
     SessionTypes, PendingOwned, CallLocals, InFlight, NoCall, TakeReply,
     EndAttempt, Succeed, Fail, Return, RolledBack
<1>8. ReaderHolds'
  BY <1>a, <1>4, Domains, NamesAssumption DEF IndInv, TypeOK, CallTypes,
     SessionTypes, ReaderHolds, PendingOwned, CallLocals, Matches,
     InFlight, NoCall, TakeReply, EndAttempt, Succeed, Fail, Return,
     RolledBack
<1>9. ChannelOwned'
  BY <1>a, <1>4, Domains, NamesAssumption DEF IndInv, TypeOK, CallTypes,
     SessionTypes, ChannelOwned, ReaderHolds, PendingOwned, CallLocals,
     Matches, InFlight, NoCall, TakeReply, EndAttempt, Succeed, Fail,
     Return, RolledBack
<1>10. ReplayIdle'
  BY <1>a, <1>4, Domains, NamesAssumption DEF IndInv, TypeOK, CallTypes,
     SessionTypes, ReplayIdle, InFlight, NoCall, TakeReply, EndAttempt,
     Succeed, Fail, Return, RolledBack
<1>. QED
  BY <1>5, <1>6, <1>7, <1>8, <1>9, <1>10 DEF IndInv

\* The session's end ends the attempt.
LEMMA SessionEndedStep ==
    ASSUME IndInv, NEW a \in Actor, SessionEnded(a)
    PROVE  IndInv'
<1>a. call[a].name \in Name /\ call[a].on \in Session /\ registerMu = a
  BY DEF IndInv, CallLocals, InFlight, SessionEnded
<1>1. /\ pending' \in [Session -> Actor \cup {None}]
     /\ ch' \in [Actor -> Replies \cup {None}]
     /\ reader' \in [Session -> [msg : Replies, to : Actor] \cup {None}]
     /\ stuck' \subseteq Session
  BY <1>a, EndAttemptTypes DEF IndInv, TypeOK, SessionEnded
<1>2. /\ registerMu' \in Actor \cup {None}
     /\ pc' \in [Actor -> Stage]
     /\ call' \in [Actor -> Calls]
     /\ intended' \in [Name -> Port \cup {None}]
     /\ failed' \in [Replay -> SUBSET Name]
  BY <1>a, UnavailableTypes DEF IndInv, TypeOK, SessionEnded
<1>3. UNCHANGED <<sess, installed, up, closed, manage, todo, toEdge,
     toClient, edgeUp, warned, edgeNames, granted, crossed, clashed, skipped, calls>>
  BY DEF SessionEnded, EndAttempt, Unavailable, Fail, Return, RolledBack, sessionVars,
     edgeVars, historyVars
<1>4. TypeOK'
  BY <1>1, <1>2, <1>3 DEF IndInv, TypeOK, CallTypes, SessionTypes,
     ReplayTypes, EdgeTypes, HistoryTypes
<1>5. CallLocals'
  BY <1>a, <1>3, Domains, NamesAssumption DEF IndInv, TypeOK, CallTypes,
     SessionTypes, CallLocals, InFlight, NoCall, SessionEnded, EndAttempt,
     Unavailable, Fail, Return, RolledBack
<1>6. PendingOwned'
  BY <1>a, <1>3, Domains, NamesAssumption DEF IndInv, TypeOK, CallTypes,
     SessionTypes, PendingOwned, CallLocals, InFlight, NoCall,
     SessionEnded, EndAttempt, Unavailable, Fail, Return, RolledBack
<1>7. ReaderHolds'
  BY <1>a, <1>3, Domains, NamesAssumption DEF IndInv, TypeOK, CallTypes,
     SessionTypes, ReaderHolds, PendingOwned, CallLocals, Matches,
     InFlight, NoCall, SessionEnded, EndAttempt, Unavailable, Fail,
     Return, RolledBack
<1>8. ChannelOwned'
  BY <1>a, <1>3, Domains, NamesAssumption DEF IndInv, TypeOK, CallTypes,
     SessionTypes, ChannelOwned, ReaderHolds, PendingOwned, CallLocals,
     Matches, InFlight, NoCall, SessionEnded, EndAttempt, Unavailable,
     Fail, Return, RolledBack
<1>9. ReplayIdle'
  BY <1>a, <1>3, Domains, NamesAssumption DEF IndInv, TypeOK, CallTypes,
     SessionTypes, ReplayIdle, InFlight, NoCall, SessionEnded, EndAttempt,
     Unavailable, Fail, Return, RolledBack
<1>. QED
  BY <1>4, <1>5, <1>6, <1>7, <1>8, <1>9 DEF IndInv

\* The timer or Close ends the attempt.
LEMMA GiveUpStep ==
    ASSUME IndInv, NEW a \in Actor, GiveUp(a)
    PROVE  IndInv'
<1>a. call[a].name \in Name /\ call[a].on \in Session /\ registerMu = a
  BY DEF IndInv, CallLocals, InFlight, GiveUp
<1>1. /\ pending' \in [Session -> Actor \cup {None}]
     /\ ch' \in [Actor -> Replies \cup {None}]
     /\ reader' \in [Session -> [msg : Replies, to : Actor] \cup {None}]
     /\ stuck' \subseteq Session
  BY <1>a, EndAttemptTypes DEF IndInv, TypeOK, GiveUp
<1>2. /\ registerMu' \in Actor \cup {None}
     /\ pc' \in [Actor -> Stage]
     /\ call' \in [Actor -> Calls]
     /\ intended' \in [Name -> Port \cup {None}]
     /\ failed' \in [Replay -> SUBSET Name]
  BY <1>a, FailTypes DEF IndInv, TypeOK, GiveUp
<1>3. UNCHANGED <<sess, installed, up, closed, manage, todo, toEdge,
     toClient, edgeUp, warned, edgeNames, granted, crossed, clashed, skipped, calls>>
  BY DEF GiveUp, EndAttempt, Fail, Return, RolledBack, sessionVars, edgeVars, historyVars
<1>4. TypeOK'
  BY <1>1, <1>2, <1>3 DEF IndInv, TypeOK, CallTypes, SessionTypes,
     ReplayTypes, EdgeTypes, HistoryTypes
<1>5. CallLocals'
  BY <1>a, <1>3, Domains, NamesAssumption DEF IndInv, TypeOK, CallTypes,
     SessionTypes, CallLocals, InFlight, NoCall, GiveUp, EndAttempt, Fail,
     Return, RolledBack
<1>6. PendingOwned'
  BY <1>a, <1>3, Domains, NamesAssumption DEF IndInv, TypeOK, CallTypes,
     SessionTypes, PendingOwned, CallLocals, InFlight, NoCall, GiveUp,
     EndAttempt, Fail, Return, RolledBack
<1>7. ReaderHolds'
  BY <1>a, <1>3, Domains, NamesAssumption DEF IndInv, TypeOK, CallTypes,
     SessionTypes, ReaderHolds, PendingOwned, CallLocals, Matches,
     InFlight, NoCall, GiveUp, EndAttempt, Fail, Return, RolledBack
<1>8. ChannelOwned'
  BY <1>a, <1>3, Domains, NamesAssumption DEF IndInv, TypeOK, CallTypes,
     SessionTypes, ChannelOwned, ReaderHolds, PendingOwned, CallLocals,
     Matches, InFlight, NoCall, GiveUp, EndAttempt, Fail, Return,
     RolledBack
<1>9. ReplayIdle'
  BY <1>a, <1>3, Domains, NamesAssumption DEF IndInv, TypeOK, CallTypes,
     SessionTypes, ReplayIdle, InFlight, NoCall, GiveUp, EndAttempt, Fail,
     Return, RolledBack
<1>. QED
  BY <1>4, <1>5, <1>6, <1>7, <1>8, <1>9 DEF IndInv

\* Register records the name.
LEMMA RegisterCallStep ==
    ASSUME IndInv, NEW a \in Caller, NEW n \in Name, NEW p \in Port, RegisterCall(a, n, p)
    PROVE  IndInv'
<1>1. intended' \in [Name -> Port \cup {None}]
  BY Domains, NamesAssumption DEF IndInv, TypeOK, CallTypes, RegisterCall
<1>2. call' \in [Actor -> Calls]
  <2>1. [name |-> n, port |-> p, prev |-> intended[n], on |-> 0] \in Calls
    BY BoundsAssumption DEF IndInv, TypeOK, CallTypes, Calls
  <2>. QED
    BY <2>1, Domains DEF IndInv, TypeOK, CallTypes, RegisterCall
<1>3. pc' \in [Actor -> Stage]
  BY NamesAssumption DEF IndInv, TypeOK, CallTypes, Stage, RegisterCall
<1>4. crossed' \subseteq Name /\ clashed' \subseteq Name
  BY Domains, NamesAssumption DEF IndInv, TypeOK, HistoryTypes, RegisterCall
<1>5. calls' \in 0..MaxCalls
  BY BoundsAssumption, NamesAssumption DEF IndInv, TypeOK, HistoryTypes, RegisterCall
<1>6. UNCHANGED <<registerMu, ch, pending, reader, stuck, sess, installed,
     up, closed, manage, todo, failed, toEdge, toClient, edgeUp, warned,
     edgeNames, granted, skipped>>
  BY DEF RegisterCall, sessionVars, replayVars, edgeVars
<1>7. TypeOK'
  BY <1>1, <1>2, <1>3, <1>4, <1>5, <1>6 DEF IndInv, TypeOK, CallTypes,
     SessionTypes, ReplayTypes, EdgeTypes, HistoryTypes
<1>8. CallLocals'
  BY <1>6, Domains, NamesAssumption DEF IndInv, TypeOK, CallTypes,
     SessionTypes, CallLocals, InFlight, NoCall, RegisterCall
<1>9. PendingOwned'
  BY <1>6, Domains, NamesAssumption DEF IndInv, TypeOK, CallTypes,
     SessionTypes, PendingOwned, CallLocals, InFlight, NoCall,
     RegisterCall
<1>10. ReaderHolds'
  BY <1>6, Domains, NamesAssumption DEF IndInv, TypeOK, CallTypes,
     SessionTypes, ReaderHolds, PendingOwned, CallLocals, Matches,
     InFlight, NoCall, RegisterCall
<1>11. ChannelOwned'
  BY <1>6, Domains, NamesAssumption DEF IndInv, TypeOK, CallTypes,
     SessionTypes, ChannelOwned, ReaderHolds, PendingOwned, CallLocals,
     Matches, InFlight, NoCall, RegisterCall
<1>12. ReplayIdle'
  BY <1>6, Domains, NamesAssumption DEF IndInv, TypeOK, CallTypes,
     SessionTypes, ReplayIdle, InFlight, NoCall, RegisterCall
<1>. QED
  BY <1>7, <1>8, <1>9, <1>10, <1>11, <1>12 DEF IndInv

\* Register takes the mutex.
LEMMA LockStep ==
    ASSUME IndInv, NEW a \in Caller, Lock(a)
    PROVE  IndInv'
<1>1. registerMu' \in Actor \cup {None}
  BY Domains, NamesAssumption DEF IndInv, TypeOK, CallTypes, Lock
<1>2. pc' \in [Actor -> Stage]
  BY NamesAssumption DEF IndInv, TypeOK, CallTypes, Stage, Lock
<1>3. UNCHANGED <<intended, call, ch, pending, reader, stuck, sess,
     installed, up, closed, manage, todo, failed, toEdge, toClient,
     edgeUp, warned, edgeNames, granted, crossed, clashed, skipped, calls>>
  BY DEF Lock, sessionVars, replayVars, edgeVars, historyVars
<1>4. TypeOK'
  BY <1>1, <1>2, <1>3 DEF IndInv, TypeOK, CallTypes, SessionTypes,
     ReplayTypes, EdgeTypes, HistoryTypes
<1>5. CallLocals'
  BY <1>3, Domains, NamesAssumption DEF IndInv, TypeOK, CallTypes,
     SessionTypes, CallLocals, InFlight, NoCall, Lock
<1>6. PendingOwned'
  BY <1>3, Domains, NamesAssumption DEF IndInv, TypeOK, CallTypes,
     SessionTypes, PendingOwned, CallLocals, InFlight, NoCall, Lock
<1>7. ReaderHolds'
  BY <1>3 DEF IndInv, ReaderHolds, Matches
<1>8. ChannelOwned'
  BY <1>3, Domains, NamesAssumption DEF IndInv, TypeOK, CallTypes,
     SessionTypes, ChannelOwned, ReaderHolds, PendingOwned, CallLocals,
     Matches, InFlight, NoCall, Lock
<1>9. ReplayIdle'
  BY <1>3, Domains, NamesAssumption DEF IndInv, TypeOK, CallTypes,
     SessionTypes, ReplayIdle, InFlight, NoCall, Lock
<1>. QED
  BY <1>4, <1>5, <1>6, <1>7, <1>8, <1>9 DEF IndInv

\* Register installs its pending slot.
LEMMA FindSessionStep ==
    ASSUME IndInv, NEW a \in Caller, FindSession(a)
    PROVE  IndInv'
<1>1. call' \in [Actor -> Calls]
  <2>1. call' = [call EXCEPT ![a] = [call[a] EXCEPT !.on = sess]]
    BY DEF FindSession, BeginAttempt
  <2>. QED
    BY <2>1, Domains, CallUpdates DEF IndInv, TypeOK, CallTypes, SessionTypes
<1>2. pending' \in [Session -> Actor \cup {None}]
  BY Domains, NamesAssumption DEF IndInv, TypeOK, CallTypes, FindSession, BeginAttempt
<1>3. ch' \in [Actor -> Replies \cup {None}]
  BY Domains, NamesAssumption DEF IndInv, TypeOK, CallTypes, FindSession, BeginAttempt
<1>4. pc' \in [Actor -> Stage]
  BY NamesAssumption DEF IndInv, TypeOK, CallTypes, Stage, FindSession, BeginAttempt
<1>5. UNCHANGED <<intended, registerMu, reader, stuck, sess, installed,
     up, closed, manage, todo, failed, toEdge, toClient, edgeUp, warned,
     edgeNames, granted, crossed, clashed, skipped, calls>>
  BY DEF FindSession, BeginAttempt, sessionVars, replayVars, edgeVars, historyVars
<1>6. TypeOK'
  BY <1>1, <1>2, <1>3, <1>4, <1>5 DEF IndInv, TypeOK, CallTypes,
     SessionTypes, ReplayTypes, EdgeTypes, HistoryTypes
<1>7. CallLocals'
  BY <1>5, Domains, NamesAssumption DEF IndInv, TypeOK, CallTypes,
     SessionTypes, CallLocals, InFlight, NoCall, FindSession, BeginAttempt
<1>8. PendingOwned'
  BY <1>5, Domains, NamesAssumption DEF IndInv, TypeOK, CallTypes,
     SessionTypes, PendingOwned, CallLocals, InFlight, NoCall,
     FindSession, BeginAttempt
<1>9. ReaderHolds'
  BY <1>5, Domains, NamesAssumption DEF IndInv, TypeOK, CallTypes,
     SessionTypes, ReaderHolds, PendingOwned, CallLocals, Matches,
     InFlight, NoCall, FindSession, BeginAttempt
<1>10. ChannelOwned'
  BY <1>5, Domains, NamesAssumption DEF IndInv, TypeOK, CallTypes,
     SessionTypes, ChannelOwned, ReaderHolds, PendingOwned, CallLocals,
     Matches, InFlight, NoCall, FindSession, BeginAttempt
<1>11. ReplayIdle'
  BY <1>5, Domains, NamesAssumption DEF IndInv, TypeOK, CallTypes,
     SessionTypes, ReplayIdle, InFlight, NoCall, FindSession, BeginAttempt
<1>. QED
  BY <1>6, <1>7, <1>8, <1>9, <1>10, <1>11 DEF IndInv

\* Register finds no session in time.
LEMMA FindGivesUpStep ==
    ASSUME IndInv, NEW a \in Caller, FindGivesUp(a)
    PROVE  IndInv'
<1>a. call[a].name \in Name /\ a \in Actor /\ registerMu = a
  BY Domains DEF IndInv, CallLocals, FindGivesUp
<1>1. /\ registerMu' \in Actor \cup {None}
     /\ pc' \in [Actor -> Stage]
     /\ call' \in [Actor -> Calls]
     /\ intended' \in [Name -> Port \cup {None}]
     /\ failed' \in [Replay -> SUBSET Name]
  BY <1>a, FailTypes DEF IndInv, TypeOK, FindGivesUp
<1>2. UNCHANGED <<ch, pending, reader, stuck, sess, installed, up, closed,
     manage, todo, toEdge, toClient, edgeUp, warned, edgeNames, granted,
     crossed, clashed, skipped, calls>>
  BY DEF FindGivesUp, Fail, Return, RolledBack, sessionVars, edgeVars, historyVars
<1>3. TypeOK'
  BY <1>1, <1>2 DEF IndInv, TypeOK, CallTypes, SessionTypes, ReplayTypes,
     EdgeTypes, HistoryTypes
<1>4. CallLocals'
  BY <1>a, <1>2, Domains, NamesAssumption DEF IndInv, TypeOK, CallTypes,
     SessionTypes, CallLocals, InFlight, NoCall, FindGivesUp, Fail,
     Return, RolledBack
<1>5. PendingOwned'
  BY <1>a, <1>2, Domains, NamesAssumption DEF IndInv, TypeOK, CallTypes,
     SessionTypes, PendingOwned, CallLocals, InFlight, NoCall,
     FindGivesUp, Fail, Return, RolledBack
<1>6. ReaderHolds'
  BY <1>a, <1>2, Domains, NamesAssumption DEF IndInv, TypeOK, CallTypes,
     SessionTypes, ReaderHolds, PendingOwned, CallLocals, Matches,
     InFlight, NoCall, FindGivesUp, Fail, Return, RolledBack
<1>7. ChannelOwned'
  BY <1>a, <1>2, Domains, NamesAssumption DEF IndInv, TypeOK, CallTypes,
     SessionTypes, ChannelOwned, ReaderHolds, PendingOwned, CallLocals,
     Matches, InFlight, NoCall, FindGivesUp, Fail, Return, RolledBack
<1>8. ReplayIdle'
  BY <1>a, <1>2, Domains, NamesAssumption DEF IndInv, TypeOK, CallTypes,
     SessionTypes, ReplayIdle, InFlight, NoCall, FindGivesUp, Fail,
     Return, RolledBack
<1>. QED
  BY <1>3, <1>4, <1>5, <1>6, <1>7, <1>8 DEF IndInv

\* Unregister deletes the name.
LEMMA UnregisterCallStep ==
    ASSUME IndInv, NEW a \in Caller, NEW n \in Name, UnregisterCall(a, n)
    PROVE  IndInv'
<1>1. intended' \in [Name -> Port \cup {None}]
  BY Domains, NamesAssumption DEF IndInv, TypeOK, CallTypes, UnregisterCall
<1>2. granted' \subseteq Name
  BY Domains, NamesAssumption DEF IndInv, TypeOK, HistoryTypes, UnregisterCall
<1>3. crossed' \subseteq Name
  BY Domains, NamesAssumption DEF IndInv, TypeOK, HistoryTypes, UnregisterCall
<1>4. calls' \in 0..MaxCalls
  BY BoundsAssumption, NamesAssumption DEF IndInv, TypeOK, HistoryTypes, UnregisterCall
<1>5. pc' \in [Actor -> Stage]
  BY NamesAssumption DEF IndInv, TypeOK, CallTypes, Stage, UnregisterCall
<1>6. call' \in [Actor -> Calls]
  <2>1. [NoCall EXCEPT !.name = n, !.on = sess] \in Calls
    BY CallUpdates DEF IndInv, TypeOK, SessionTypes
  <2>. QED
    BY <2>1, Domains DEF IndInv, TypeOK, CallTypes, UnregisterCall
<1>7. UNCHANGED <<registerMu, ch, pending, reader, stuck, sess, installed,
     up, closed, manage, todo, failed, toEdge, toClient, edgeUp, warned,
     edgeNames, clashed, skipped>>
  BY DEF UnregisterCall, sessionVars, replayVars, edgeVars
<1>8. TypeOK'
  BY <1>1, <1>2, <1>3, <1>4, <1>5, <1>6, <1>7 DEF IndInv, TypeOK,
     CallTypes, SessionTypes, ReplayTypes, EdgeTypes, HistoryTypes
<1>9. CallLocals'
  <2>1. ASSUME NEW b \in Actor, b # a PROVE pc'[b] = pc[b] /\ call'[b] = call[b]
    BY <2>1, Domains DEF IndInv, TypeOK, CallTypes, UnregisterCall
  <2>2. CASE sess = 0
    BY <2>2 DEF IndInv, CallLocals, UnregisterCall
  <2>3. CASE sess # 0
    <3>1. pc'[a] = "unregister" /\ call'[a].name = n
      <4>1. [NoCall EXCEPT !.name = n, !.on = sess].name = n
        BY DEF NoCall
      <4>2. /\ pc' = [pc EXCEPT ![a] = "unregister"]
            /\ call' = [call EXCEPT ![a] = [NoCall EXCEPT !.name = n, !.on = sess]]
        BY <2>3 DEF UnregisterCall
      <4>. QED
        BY <4>1, <4>2, Domains DEF IndInv, TypeOK, CallTypes
    <3>. QED
      BY <2>1, <3>1, Domains DEF IndInv, CallLocals, InFlight, UnregisterCall
  <2>. QED
    BY <2>2, <2>3
<1>10. PendingOwned'
  BY <1>7, Domains, NamesAssumption DEF IndInv, TypeOK, CallTypes,
     SessionTypes, PendingOwned, CallLocals, InFlight, NoCall,
     UnregisterCall
<1>11. ReaderHolds'
  BY <1>7, Domains, NamesAssumption DEF IndInv, TypeOK, CallTypes,
     SessionTypes, ReaderHolds, PendingOwned, CallLocals, Matches,
     InFlight, NoCall, UnregisterCall
<1>12. ChannelOwned'
  BY <1>7, Domains, NamesAssumption DEF IndInv, TypeOK, CallTypes,
     SessionTypes, ChannelOwned, ReaderHolds, PendingOwned, CallLocals,
     Matches, InFlight, NoCall, UnregisterCall
<1>13. ReplayIdle'
  BY <1>7, Domains, NamesAssumption DEF IndInv, TypeOK, CallTypes,
     SessionTypes, ReplayIdle, InFlight, NoCall, UnregisterCall
<1>. QED
  BY <1>8, <1>9, <1>10, <1>11, <1>12, <1>13 DEF IndInv

\* Unregister sends its message.
LEMMA WriteUnregisterStep ==
    ASSUME IndInv, NEW a \in Caller, WriteUnregister(a)
    PROVE  IndInv'
<1>1. toEdge' \in [Session -> Seq(Requests)]
  <2>1. [type |-> "unregister", name |-> call[a].name] \in Requests
    BY Domains DEF IndInv, CallLocals, WriteUnregister, Requests
  <2>. QED
    <3>1. ASSUME call[a].on \in Session
          PROVE  Append(toEdge[call[a].on], [type |-> "unregister", name |-> call[a].name])
                   \in Seq(Requests)
      BY <2>1, <3>1, QueueUpdates DEF IndInv, TypeOK, EdgeTypes
    <3>. QED
      BY <3>1 DEF IndInv, TypeOK, SessionTypes, EdgeTypes, WriteUnregister
<1>2. pc' \in [Actor -> Stage]
  BY NamesAssumption DEF IndInv, TypeOK, CallTypes, Stage, WriteUnregister
<1>3. call' \in [Actor -> Calls]
  BY Domains, CallUpdates DEF IndInv, TypeOK, CallTypes, WriteUnregister
<1>4. UNCHANGED <<intended, registerMu, ch, pending, reader, stuck, sess,
     installed, up, closed, manage, todo, failed, toClient, edgeUp,
     warned, edgeNames, granted, crossed, clashed, skipped, calls>>
  BY DEF WriteUnregister, sessionVars, replayVars, historyVars
<1>5. TypeOK'
  BY <1>1, <1>2, <1>3, <1>4 DEF IndInv, TypeOK, CallTypes, SessionTypes,
     ReplayTypes, EdgeTypes, HistoryTypes
<1>6. CallLocals'
  BY <1>4, Domains, NamesAssumption DEF IndInv, TypeOK, CallTypes,
     SessionTypes, CallLocals, InFlight, NoCall, WriteUnregister
<1>7. PendingOwned'
  BY <1>4, Domains, NamesAssumption DEF IndInv, TypeOK, CallTypes,
     SessionTypes, PendingOwned, CallLocals, InFlight, NoCall,
     WriteUnregister
<1>8. ReaderHolds'
  BY <1>4, Domains, NamesAssumption DEF IndInv, TypeOK, CallTypes,
     SessionTypes, ReaderHolds, PendingOwned, CallLocals, Matches,
     InFlight, NoCall, WriteUnregister
<1>9. ChannelOwned'
  BY <1>4, Domains, NamesAssumption DEF IndInv, TypeOK, CallTypes,
     SessionTypes, ChannelOwned, ReaderHolds, PendingOwned, CallLocals,
     Matches, InFlight, NoCall, WriteUnregister
<1>10. ReplayIdle'
  BY <1>4, Domains, NamesAssumption DEF IndInv, TypeOK, CallTypes,
     SessionTypes, ReplayIdle, InFlight, NoCall, WriteUnregister
<1>. QED
  BY <1>5, <1>6, <1>7, <1>8, <1>9, <1>10 DEF IndInv

\* A replay loop captures its session.
LEMMA ReplayStartStep ==
    ASSUME IndInv, NEW r \in Replay, ReplayStart(r)
    PROVE  IndInv'
<1>1. pc' \in [Actor -> Stage]
  BY NamesAssumption DEF IndInv, TypeOK, CallTypes, Stage, ReplayStart
<1>2. call' \in [Actor -> Calls]
  <2>1. call' = [call EXCEPT ![r] = [call[r] EXCEPT !.on = sess]]
    BY DEF ReplayStart
  <2>. QED
    BY <2>1, Domains, CallUpdates DEF IndInv, TypeOK, CallTypes, SessionTypes
<1>3. UNCHANGED <<intended, registerMu, ch, pending, reader, stuck, sess,
     installed, up, closed, manage, todo, failed, toEdge, toClient,
     edgeUp, warned, edgeNames, granted, crossed, clashed, skipped, calls>>
  BY DEF ReplayStart, sessionVars, replayVars, edgeVars, historyVars
<1>4. TypeOK'
  BY <1>1, <1>2, <1>3 DEF IndInv, TypeOK, CallTypes, SessionTypes,
     ReplayTypes, EdgeTypes, HistoryTypes
<1>5. CallLocals'
  BY <1>3, Domains, NamesAssumption DEF IndInv, TypeOK, CallTypes,
     SessionTypes, CallLocals, InFlight, NoCall, ReplayStart
<1>6. PendingOwned'
  BY <1>3, Domains, NamesAssumption DEF IndInv, TypeOK, CallTypes,
     SessionTypes, PendingOwned, CallLocals, InFlight, NoCall, ReplayStart
<1>7. ReaderHolds'
  BY <1>3, Domains, NamesAssumption DEF IndInv, TypeOK, CallTypes,
     SessionTypes, ReaderHolds, PendingOwned, CallLocals, Matches,
     InFlight, NoCall, ReplayStart
<1>8. ChannelOwned'
  BY <1>3, Domains, NamesAssumption DEF IndInv, TypeOK, CallTypes,
     SessionTypes, ChannelOwned, ReaderHolds, PendingOwned, CallLocals,
     Matches, InFlight, NoCall, ReplayStart
<1>9. ReplayIdle'
  BY <1>3, Domains, NamesAssumption DEF IndInv, TypeOK, CallTypes,
     SessionTypes, ReplayIdle, InFlight, NoCall, ReplayStart
<1>. QED
  BY <1>4, <1>5, <1>6, <1>7, <1>8, <1>9 DEF IndInv

\* A replay round takes its snapshot.
LEMMA ReplaySnapshotStep ==
    ASSUME IndInv, NEW r \in Replay, ReplaySnapshot(r)
    PROVE  IndInv'
<1>1. pc' \in [Actor -> Stage]
  BY NamesAssumption DEF IndInv, TypeOK, CallTypes, Stage, ReplaySnapshot
<1>2. todo' \in [Replay -> [Name -> Port \cup {None}]]
  <2>1. [m \in Name |-> IF m \in failed[r] THEN intended[m] ELSE None]
          \in [Name -> Port \cup {None}]
    BY DEF IndInv, TypeOK, CallTypes
  <2>. QED
    BY <2>1 DEF IndInv, TypeOK, ReplayTypes, ReplaySnapshot
<1>3. failed' \in [Replay -> SUBSET Name]
  BY Domains, NamesAssumption DEF IndInv, TypeOK, ReplayTypes, ReplaySnapshot
<1>4. UNCHANGED <<intended, registerMu, call, ch, pending, reader, stuck,
     sess, installed, up, closed, manage, toEdge, toClient, edgeUp,
     warned, edgeNames, granted, crossed, clashed, skipped, calls>>
  BY DEF ReplaySnapshot, sessionVars, edgeVars, historyVars
<1>5. TypeOK'
  BY <1>1, <1>2, <1>3, <1>4 DEF IndInv, TypeOK, CallTypes, SessionTypes,
     ReplayTypes, EdgeTypes, HistoryTypes
<1>6. CallLocals'
  BY <1>4, Domains, NamesAssumption DEF IndInv, TypeOK, CallTypes,
     SessionTypes, CallLocals, InFlight, NoCall, ReplaySnapshot
<1>7. PendingOwned'
  BY <1>4, Domains, NamesAssumption DEF IndInv, TypeOK, CallTypes,
     SessionTypes, PendingOwned, CallLocals, InFlight, NoCall,
     ReplaySnapshot
<1>8. ReaderHolds'
  BY <1>4 DEF IndInv, ReaderHolds, Matches
<1>9. ChannelOwned'
  BY <1>4, Domains, NamesAssumption DEF IndInv, TypeOK, CallTypes,
     SessionTypes, ChannelOwned, ReaderHolds, PendingOwned, CallLocals,
     Matches, InFlight, NoCall, ReplaySnapshot
<1>10. ReplayIdle'
  BY <1>4, Domains, NamesAssumption DEF IndInv, TypeOK, CallTypes,
     SessionTypes, ReplayIdle, InFlight, NoCall, ReplaySnapshot
<1>. QED
  BY <1>5, <1>6, <1>7, <1>8, <1>9, <1>10 DEF IndInv

\* A replay skips a name.
LEMMA ReplaySkipStep ==
    ASSUME IndInv, NEW r \in Replay, NEW n \in Name, ReplaySkip(r, n)
    PROVE  IndInv'
<1>1. todo' \in [Replay -> [Name -> Port \cup {None}]]
  BY Domains, NamesAssumption DEF IndInv, TypeOK, ReplayTypes, ReplaySkip
<1>2. UNCHANGED <<intended, registerMu, pc, call, ch, pending, reader,
     stuck, sess, installed, up, closed, manage, failed, toEdge,
     toClient, edgeUp, warned, edgeNames, granted, crossed, clashed, calls>>
  BY DEF ReplaySkip, callVars, sessionVars, edgeVars
<1>a. skipped' \subseteq Name
  BY DEF ReplaySkip, IndInv, TypeOK, HistoryTypes
<1>3. TypeOK'
  BY <1>1, <1>2, <1>a DEF IndInv, TypeOK, CallTypes, SessionTypes, ReplayTypes,
     EdgeTypes, HistoryTypes
<1>4. CallLocals'
  BY <1>2 DEF IndInv, CallLocals
<1>5. PendingOwned'
  BY <1>2 DEF IndInv, PendingOwned
<1>6. ReaderHolds'
  BY <1>2 DEF IndInv, ReaderHolds, Matches
<1>7. ChannelOwned'
  BY <1>2 DEF IndInv, ChannelOwned, Matches
<1>8. ReplayIdle'
  BY <1>2 DEF IndInv, ReplayIdle
<1>. QED
  BY <1>3, <1>4, <1>5, <1>6, <1>7, <1>8 DEF IndInv

\* A replay starts to register a name.
LEMMA ReplayNameStep ==
    ASSUME IndInv, NEW r \in Replay, NEW n \in Name, ReplayName(r, n)
    PROVE  IndInv'
<1>a. \A a \in Actor : pc[a] \notin InFlight \cup {"find"}
  BY Domains DEF IndInv, CallLocals, ReplayName
<1>b. \A s \in Session : pending[s] = None
  BY <1>a DEF IndInv, TypeOK, CallTypes, PendingOwned
<1>1. registerMu' \in Actor \cup {None}
  BY <1>a, <1>b, Domains, NamesAssumption DEF IndInv, TypeOK, CallTypes, ReplayName, StillIntended
<1>2. call' \in [Actor -> Calls]
  <2>1. todo[r][n] \in Port
    BY DEF IndInv, TypeOK, ReplayTypes, ReplayName
  <2>2. \/ UNCHANGED call
        \/ call' = [call EXCEPT ![r] = [call[r] EXCEPT !.name = n, !.port = todo[r][n]]]
    BY Domains DEF IndInv, TypeOK, CallTypes, Calls, ReplayName
  <2>. QED
    <3>1. [call[r] EXCEPT !.name = n, !.port = todo[r][n]] \in Calls
      BY <2>1, Domains, CallUpdates DEF IndInv, TypeOK, CallTypes
    <3>. QED
      BY <2>2, <3>1, Domains DEF IndInv, TypeOK, CallTypes
<1>3. pending' \in [Session -> Actor \cup {None}]
  <2>0. pending \in [Session -> Actor \cup {None}]
    BY DEF IndInv, TypeOK, CallTypes
  <2>1. CASE call[r].on \in up
    <3>1. pending' = [pending EXCEPT ![call[r].on] = r] /\ r \in Actor
      BY <2>1, Domains DEF ReplayName
    <3>. QED
      BY <2>0, <3>1
  <2>2. CASE call[r].on \notin up
    <3>1. pending' = pending
      BY <2>2 DEF ReplayName
    <3>. QED
      BY <2>0, <3>1
  <2>. QED
    BY <2>1, <2>2
<1>4. ch' \in [Actor -> Replies \cup {None}]
  <2>0. ch \in [Actor -> Replies \cup {None}]
    BY DEF IndInv, TypeOK, CallTypes
  <2>1. ch' = ch \/ ch' = [ch EXCEPT ![r] = None]
    BY DEF ReplayName
  <2>. QED
    BY <2>0, <2>1
<1>5. pc' \in [Actor -> Stage]
  <2>1. CASE call[r].on \in up
    BY <2>1, Domains DEF IndInv, TypeOK, CallTypes, SessionTypes, ReplayTypes, Stage, ReplayName
  <2>2. CASE call[r].on \notin up
    BY <2>2, Domains DEF IndInv, TypeOK, CallTypes, ReplayTypes, ReplayName
  <2>. QED
    BY <2>1, <2>2
<1>6. todo' \in [Replay -> [Name -> Port \cup {None}]]
  BY <1>a, <1>b, Domains, NamesAssumption DEF IndInv, TypeOK, ReplayTypes, ReplayName, StillIntended
<1>7. failed' \in [Replay -> SUBSET Name]
  <2>1. CASE call[r].on \in up
    BY <2>1, Domains DEF IndInv, TypeOK, CallTypes, SessionTypes, ReplayTypes, Stage, ReplayName
  <2>2. CASE call[r].on \notin up
    BY <2>2, Domains DEF IndInv, TypeOK, CallTypes, ReplayTypes, ReplayName
  <2>. QED
    BY <2>1, <2>2
<1>8. UNCHANGED <<intended, reader, stuck, sess, installed, up, closed,
     manage, toEdge, toClient, edgeUp, warned, edgeNames, granted,
     crossed, clashed, skipped, calls>>
  BY DEF ReplayName, StillIntended, sessionVars, edgeVars, historyVars
<1>9. TypeOK'
  BY <1>1, <1>2, <1>3, <1>4, <1>5, <1>6, <1>7, <1>8 DEF IndInv, TypeOK,
     CallTypes, SessionTypes, ReplayTypes, EdgeTypes, HistoryTypes
<1>10. CallLocals'
  <2>1. CASE call[r].on \in up
    BY <1>a, <1>b, <2>1, Domains DEF IndInv, TypeOK, CallTypes, SessionTypes, Calls,
       CallLocals, InFlight, ReplayName
  <2>2. CASE call[r].on \notin up
    BY <2>2 DEF IndInv, CallLocals, ReplayName
  <2>. QED
    BY <2>1, <2>2
<1>11. PendingOwned'
  <2>1. CASE call[r].on \in up
    BY <1>a, <1>b, <2>1, Domains DEF IndInv, TypeOK, CallTypes, SessionTypes, Calls,
       PendingOwned, InFlight, ReplayName
  <2>2. CASE call[r].on \notin up
    BY <2>2 DEF IndInv, PendingOwned, ReplayName
  <2>. QED
    BY <2>1, <2>2
<1>12. ReaderHolds'
  BY <1>a, <1>b, <1>8, Domains, NamesAssumption DEF IndInv, TypeOK,
     CallTypes, SessionTypes, ReaderHolds, PendingOwned, CallLocals,
     Matches, InFlight, NoCall, ReplayName, StillIntended
<1>13. ChannelOwned'
  BY <1>a, <1>b, <1>8, Domains, NamesAssumption DEF IndInv, TypeOK,
     CallTypes, SessionTypes, ChannelOwned, ReaderHolds, PendingOwned,
     CallLocals, Matches, InFlight, NoCall, ReplayName, StillIntended
<1>14. ReplayIdle'
  BY <1>a, <1>b, <1>8, Domains, NamesAssumption DEF IndInv, TypeOK,
     CallTypes, SessionTypes, ReplayIdle, InFlight, NoCall, ReplayName,
     StillIntended
<1>. QED
  BY <1>9, <1>10, <1>11, <1>12, <1>13, <1>14 DEF IndInv

\* A replay round ends.
LEMMA ReplayRoundStep ==
    ASSUME IndInv, NEW r \in Replay, ReplayRound(r)
    PROVE  IndInv'
<1>1. pc' \in [Actor -> Stage]
  BY NamesAssumption DEF IndInv, TypeOK, CallTypes, Stage, ReplayRound
<1>2. UNCHANGED <<intended, registerMu, call, ch, pending, reader, stuck,
     sess, installed, up, closed, manage, todo, failed, toEdge, toClient,
     edgeUp, warned, edgeNames, granted, crossed, clashed, skipped, calls>>
  BY DEF ReplayRound, sessionVars, replayVars, edgeVars, historyVars
<1>3. TypeOK'
  BY <1>1, <1>2 DEF IndInv, TypeOK, CallTypes, SessionTypes, ReplayTypes,
     EdgeTypes, HistoryTypes
<1>4. CallLocals'
  BY <1>2, Domains, NamesAssumption DEF IndInv, TypeOK, CallTypes,
     SessionTypes, CallLocals, InFlight, NoCall, ReplayRound
<1>5. PendingOwned'
  BY <1>2, Domains, NamesAssumption DEF IndInv, TypeOK, CallTypes,
     SessionTypes, PendingOwned, CallLocals, InFlight, NoCall, ReplayRound
<1>6. ReaderHolds'
  BY <1>2 DEF IndInv, ReaderHolds, Matches
<1>7. ChannelOwned'
  BY <1>2, Domains, NamesAssumption DEF IndInv, TypeOK, CallTypes,
     SessionTypes, ChannelOwned, ReaderHolds, PendingOwned, CallLocals,
     Matches, InFlight, NoCall, ReplayRound
<1>8. ReplayIdle'
  BY <1>2, Domains, NamesAssumption DEF IndInv, TypeOK, CallTypes,
     SessionTypes, ReplayIdle, InFlight, NoCall, ReplayRound
<1>. QED
  BY <1>3, <1>4, <1>5, <1>6, <1>7, <1>8 DEF IndInv

\* A replay's backoff ends.
LEMMA ReplayBackoffStep ==
    ASSUME IndInv, NEW r \in Replay, ReplayBackoff(r)
    PROVE  IndInv'
<1>1. pc' \in [Actor -> Stage]
  BY NamesAssumption DEF IndInv, TypeOK, CallTypes, Stage, ReplayBackoff
<1>2. UNCHANGED <<intended, registerMu, call, ch, pending, reader, stuck,
     sess, installed, up, closed, manage, todo, failed, toEdge, toClient,
     edgeUp, warned, edgeNames, granted, crossed, clashed, skipped, calls>>
  BY DEF ReplayBackoff, sessionVars, replayVars, edgeVars, historyVars
<1>3. TypeOK'
  BY <1>1, <1>2 DEF IndInv, TypeOK, CallTypes, SessionTypes, ReplayTypes,
     EdgeTypes, HistoryTypes
<1>4. CallLocals'
  BY <1>2, Domains, NamesAssumption DEF IndInv, TypeOK, CallTypes,
     SessionTypes, CallLocals, InFlight, NoCall, ReplayBackoff
<1>5. PendingOwned'
  BY <1>2, Domains, NamesAssumption DEF IndInv, TypeOK, CallTypes,
     SessionTypes, PendingOwned, CallLocals, InFlight, NoCall,
     ReplayBackoff
<1>6. ReaderHolds'
  BY <1>2 DEF IndInv, ReaderHolds, Matches
<1>7. ChannelOwned'
  BY <1>2, Domains, NamesAssumption DEF IndInv, TypeOK, CallTypes,
     SessionTypes, ChannelOwned, ReaderHolds, PendingOwned, CallLocals,
     Matches, InFlight, NoCall, ReplayBackoff
<1>8. ReplayIdle'
  BY <1>2, Domains, NamesAssumption DEF IndInv, TypeOK, CallTypes,
     SessionTypes, ReplayIdle, InFlight, NoCall, ReplayBackoff
<1>. QED
  BY <1>3, <1>4, <1>5, <1>6, <1>7, <1>8 DEF IndInv

\* A transport ends.
LEMMA SessionDiesStep ==
    ASSUME IndInv, NEW s \in Session, SessionDies(s)
    PROVE  IndInv'
<1>1. up' \subseteq Session
  BY Domains, NamesAssumption DEF IndInv, TypeOK, SessionTypes, SessionDies
<1>2. toClient' \in [Session -> Seq(Replies)]
  BY QueueUpdates DEF IndInv, TypeOK, EdgeTypes, SessionDies
<1>3. UNCHANGED <<intended, registerMu, pc, call, ch, pending, reader,
     stuck, sess, installed, closed, manage, todo, failed, toEdge,
     edgeUp, warned, edgeNames, granted, crossed, clashed, skipped, calls>>
  BY DEF SessionDies, callVars, replayVars, historyVars
<1>4. TypeOK'
  BY <1>1, <1>2, <1>3 DEF IndInv, TypeOK, CallTypes, SessionTypes,
     ReplayTypes, EdgeTypes, HistoryTypes
<1>5. CallLocals'
  BY <1>3 DEF IndInv, CallLocals
<1>6. PendingOwned'
  BY <1>3 DEF IndInv, PendingOwned
<1>7. ReaderHolds'
  BY <1>3 DEF IndInv, ReaderHolds, Matches
<1>8. ChannelOwned'
  BY <1>3 DEF IndInv, ChannelOwned, Matches
<1>9. ReplayIdle'
  BY <1>3 DEF IndInv, ReplayIdle
<1>. QED
  BY <1>4, <1>5, <1>6, <1>7, <1>8, <1>9 DEF IndInv

\* manage notices the loss.
LEMMA SessionLostStep ==
    ASSUME IndInv, SessionLost
    PROVE  IndInv'
<1>1. sess' \in 0..MaxSessions
  BY BoundsAssumption DEF SessionLost
<1>2. manage' \in {"watch", "dial", "over"}
  BY Domains, NamesAssumption DEF IndInv, TypeOK, SessionTypes, SessionLost
<1>3. UNCHANGED <<intended, registerMu, pc, call, ch, pending, reader,
     stuck, installed, up, closed, todo, failed, toEdge, toClient,
     edgeUp, warned, edgeNames, granted, crossed, clashed, skipped, calls>>
  BY DEF SessionLost, callVars, replayVars, edgeVars, historyVars
<1>4. TypeOK'
  BY <1>1, <1>2, <1>3 DEF IndInv, TypeOK, CallTypes, SessionTypes,
     ReplayTypes, EdgeTypes, HistoryTypes
<1>5. CallLocals'
  BY <1>3 DEF IndInv, CallLocals
<1>6. PendingOwned'
  BY <1>3 DEF IndInv, PendingOwned
<1>7. ReaderHolds'
  BY <1>3 DEF IndInv, ReaderHolds, Matches
<1>8. ChannelOwned'
  BY <1>3 DEF IndInv, ChannelOwned, Matches
<1>9. ReplayIdle'
  BY <1>3 DEF IndInv, ReplayIdle
<1>. QED
  BY <1>4, <1>5, <1>6, <1>7, <1>8, <1>9 DEF IndInv

\* manage installs a new session.
LEMMA ReconnectStep ==
    ASSUME IndInv, Reconnect
    PROVE  IndInv'
<1>a. installed + 1 \in Session /\ installed + 1 \in Replay
  BY Domains DEF IndInv, TypeOK, SessionTypes, Reconnect
<1>b. pc[installed + 1] = "idle"
  BY <1>a, BoundsAssumption DEF IndInv, TypeOK, SessionTypes, ReplayIdle, Session
<1>1. installed' \in Session
  BY <1>a, <1>b, Domains, NamesAssumption DEF IndInv, TypeOK, SessionTypes, Reconnect
<1>2. sess' \in 0..MaxSessions
  BY <1>a, <1>b, Domains, NamesAssumption DEF IndInv, TypeOK, SessionTypes, Reconnect
<1>3. up' \subseteq Session
  BY <1>a, <1>b, Domains, NamesAssumption DEF IndInv, TypeOK, SessionTypes, Reconnect
<1>4. edgeUp' \subseteq Session
  BY <1>a DEF IndInv, TypeOK, EdgeTypes, Reconnect
<1>5. manage' \in {"watch", "dial", "over"}
  BY <1>a, <1>b, Domains, NamesAssumption DEF IndInv, TypeOK, SessionTypes, Reconnect
<1>6. pc' \in [Actor -> Stage]
  BY <1>a, <1>b, NamesAssumption DEF IndInv, TypeOK, CallTypes, Stage, Reconnect
<1>7. UNCHANGED <<intended, registerMu, call, ch, pending, reader, stuck,
     closed, todo, failed, toEdge, toClient, warned, edgeNames, granted,
     crossed, clashed, calls>>
  BY DEF Reconnect, replayVars
<1>c. skipped' \subseteq Name
  BY DEF Reconnect
<1>8. TypeOK'
  BY <1>1, <1>2, <1>3, <1>4, <1>5, <1>6, <1>7, <1>c DEF IndInv, TypeOK,
     CallTypes, SessionTypes, ReplayTypes, EdgeTypes, HistoryTypes
<1>9. CallLocals'
  BY <1>a, <1>b, <1>7, Domains, NamesAssumption DEF IndInv, TypeOK,
     CallTypes, SessionTypes, CallLocals, InFlight, NoCall, Reconnect
<1>10. PendingOwned'
  BY <1>a, <1>b, <1>7, Domains, NamesAssumption DEF IndInv, TypeOK,
     CallTypes, SessionTypes, PendingOwned, CallLocals, InFlight, NoCall,
     Reconnect
<1>11. ReaderHolds'
  BY <1>7 DEF IndInv, ReaderHolds, Matches
<1>12. ChannelOwned'
  BY <1>a, <1>b, <1>7, Domains, NamesAssumption DEF IndInv, TypeOK,
     CallTypes, SessionTypes, ChannelOwned, ReaderHolds, PendingOwned,
     CallLocals, Matches, InFlight, NoCall, Reconnect
<1>13. ReplayIdle'
  BY Domains, BoundsAssumption DEF IndInv, TypeOK, CallTypes, SessionTypes, ReplayIdle,
     Reconnect, Session, Replay
<1>. QED
  BY <1>8, <1>9, <1>10, <1>11, <1>12, <1>13 DEF IndInv

\* The client is closed.
LEMMA CloseStep ==
    ASSUME IndInv, Close
    PROVE  IndInv'
<1>1. calls' \in 0..MaxCalls
  BY BoundsAssumption, NamesAssumption DEF IndInv, TypeOK, HistoryTypes, Close
<1>2. closed' \in BOOLEAN
  BY Domains, NamesAssumption DEF IndInv, TypeOK, SessionTypes, Close
<1>3. sess' \in 0..MaxSessions
  BY BoundsAssumption DEF Close
<1>4. up' \subseteq Session
  BY Domains, NamesAssumption DEF IndInv, TypeOK, SessionTypes, Close
<1>5. toClient' \in [Session -> Seq(Replies)]
  BY QueueUpdates DEF IndInv, TypeOK, EdgeTypes, Close
<1>6. UNCHANGED <<intended, registerMu, pc, call, ch, pending, reader,
     stuck, installed, manage, todo, failed, toEdge, edgeUp, warned,
     edgeNames, granted, crossed, clashed, skipped>>
  BY DEF Close, callVars, replayVars
<1>7. TypeOK'
  BY <1>1, <1>2, <1>3, <1>4, <1>5, <1>6 DEF IndInv, TypeOK, CallTypes,
     SessionTypes, ReplayTypes, EdgeTypes, HistoryTypes
<1>8. CallLocals'
  BY <1>6 DEF IndInv, CallLocals
<1>9. PendingOwned'
  BY <1>6 DEF IndInv, PendingOwned
<1>10. ReaderHolds'
  BY <1>6 DEF IndInv, ReaderHolds, Matches
<1>11. ChannelOwned'
  BY <1>6 DEF IndInv, ChannelOwned, Matches
<1>12. ReplayIdle'
  BY <1>6 DEF IndInv, ReplayIdle
<1>. QED
  BY <1>7, <1>8, <1>9, <1>10, <1>11, <1>12 DEF IndInv

\* manage returns.
LEMMA ManageEndsStep ==
    ASSUME IndInv, ManageEnds
    PROVE  IndInv'
<1>1. manage' \in {"watch", "dial", "over"}
  BY Domains, NamesAssumption DEF IndInv, TypeOK, SessionTypes, ManageEnds
<1>2. UNCHANGED <<intended, registerMu, pc, call, ch, pending, reader,
     stuck, sess, installed, up, closed, todo, failed, toEdge, toClient,
     edgeUp, warned, edgeNames, granted, crossed, clashed, skipped, calls>>
  BY DEF ManageEnds, callVars, replayVars, edgeVars, historyVars
<1>3. TypeOK'
  BY <1>1, <1>2 DEF IndInv, TypeOK, CallTypes, SessionTypes, ReplayTypes,
     EdgeTypes, HistoryTypes
<1>4. CallLocals'
  BY <1>2 DEF IndInv, CallLocals
<1>5. PendingOwned'
  BY <1>2 DEF IndInv, PendingOwned
<1>6. ReaderHolds'
  BY <1>2 DEF IndInv, ReaderHolds, Matches
<1>7. ChannelOwned'
  BY <1>2 DEF IndInv, ChannelOwned, Matches
<1>8. ReplayIdle'
  BY <1>2 DEF IndInv, ReplayIdle
<1>. QED
  BY <1>3, <1>4, <1>5, <1>6, <1>7, <1>8 DEF IndInv

\* readControl reads a line.
LEMMA ReadReplyStep ==
    ASSUME IndInv, NEW s \in Session, ReadReply(s)
    PROVE  IndInv'
<1>a. Head(toClient[s]) \in Replies /\ Tail(toClient[s]) \in Seq(Replies)
  BY QueueUpdates DEF IndInv, TypeOK, EdgeTypes, ReadReply
<1>1. toClient' \in [Session -> Seq(Replies)]
  BY <1>a DEF IndInv, TypeOK, EdgeTypes, ReadReply
<1>2. reader' \in [Session -> [msg : Replies, to : Actor] \cup {None}]
  BY <1>a DEF IndInv, TypeOK, CallTypes, ReadReply
<1>3. UNCHANGED <<intended, registerMu, pc, call, ch, pending, stuck,
     sess, installed, up, closed, manage, todo, failed, toEdge, edgeUp,
     warned, edgeNames, granted, crossed, clashed, skipped, calls>>
  BY DEF ReadReply, ForPending, sessionVars, replayVars, historyVars
<1>4. TypeOK'
  BY <1>1, <1>2, <1>3 DEF IndInv, TypeOK, CallTypes, SessionTypes,
     ReplayTypes, EdgeTypes, HistoryTypes
<1>5. CallLocals'
  BY <1>3 DEF IndInv, CallLocals
<1>6. PendingOwned'
  BY <1>3 DEF IndInv, PendingOwned
<1>7. ReaderHolds'
  <2>1. \A t \in Session \ {s} : reader'[t] = reader[t]
    BY DEF IndInv, TypeOK, CallTypes, ReadReply
  <2>2. \/ reader'[s] = None
        \/ /\ ForPending(pending[s], Head(toClient[s]))
           /\ reader'[s] = [msg |-> Head(toClient[s]), to |-> pending[s]]
    BY DEF IndInv, TypeOK, CallTypes, ReadReply
  <2>3. UNCHANGED <<pending, call>>
    BY DEF ReadReply
  <2>. QED
    BY <2>1, <2>2, <2>3 DEF IndInv, ReaderHolds, Matches, ForPending
<1>8. ChannelOwned'
  BY <1>3 DEF IndInv, ChannelOwned, Matches
<1>9. ReplayIdle'
  BY <1>3 DEF IndInv, ReplayIdle
<1>. QED
  BY <1>4, <1>5, <1>6, <1>7, <1>8, <1>9 DEF IndInv

\* readControl hands the reply over.
LEMMA SendReplyStep ==
    ASSUME IndInv, NEW s \in Session, SendReply(s)
    PROVE  IndInv'
<1>1. ch' \in [Actor -> Replies \cup {None}]
  BY Domains, NamesAssumption DEF IndInv, TypeOK, CallTypes, SendReply
<1>2. reader' \in [Session -> [msg : Replies, to : Actor] \cup {None}]
  BY Domains, NamesAssumption DEF IndInv, TypeOK, CallTypes, SendReply
<1>3. UNCHANGED <<intended, registerMu, pc, call, pending, stuck, sess,
     installed, up, closed, manage, todo, failed, toEdge, toClient,
     edgeUp, warned, edgeNames, granted, crossed, clashed, skipped, calls>>
  BY DEF SendReply, sessionVars, replayVars, edgeVars, historyVars
<1>4. TypeOK'
  BY <1>1, <1>2, <1>3 DEF IndInv, TypeOK, CallTypes, SessionTypes,
     ReplayTypes, EdgeTypes, HistoryTypes
<1>5. CallLocals'
  BY <1>3 DEF IndInv, CallLocals
<1>6. PendingOwned'
  BY <1>3 DEF IndInv, PendingOwned
<1>7. ReaderHolds'
  <2>1. reader'[s] = None /\ \A t \in Session \ {s} : reader'[t] = reader[t]
    BY DEF IndInv, TypeOK, CallTypes, SendReply
  <2>2. UNCHANGED <<pending, call>>
    BY DEF SendReply
  <2>. QED
    BY <2>1, <2>2 DEF IndInv, ReaderHolds, Matches
<1>8. ChannelOwned'
  BY <1>3, Domains, NamesAssumption DEF IndInv, TypeOK, CallTypes,
     SessionTypes, ChannelOwned, ReaderHolds, PendingOwned, CallLocals,
     Matches, InFlight, NoCall, SendReply
<1>9. ReplayIdle'
  BY <1>3 DEF IndInv, ReplayIdle
<1>. QED
  BY <1>4, <1>5, <1>6, <1>7, <1>8, <1>9 DEF IndInv

\* The edge handles a line.
LEMMA EdgeHandlesStep ==
    ASSUME IndInv, NEW s \in Session, EdgeHandles(s)
    PROVE  IndInv'
<1>a. Head(toEdge[s]).name \in Name /\ Tail(toEdge[s]) \in Seq(Requests)
  <2>1. Head(toEdge[s]) \in Requests /\ Tail(toEdge[s]) \in Seq(Requests)
    BY QueueUpdates DEF IndInv, TypeOK, EdgeTypes, EdgeHandles
  <2>. QED
    BY <2>1 DEF Requests
<1>b. \A ok \in BOOLEAN : [ok |-> ok, name |-> Head(toEdge[s]).name] \in Replies
  BY <1>a DEF Replies
<1>1. toEdge' \in [Session -> Seq(Requests)]
  BY <1>a DEF IndInv, TypeOK, EdgeTypes, EdgeHandles
<1>2. toClient' \in [Session -> Seq(Replies)]
  <2>1. \A ok \in BOOLEAN :
          Append(toClient[s], [ok |-> ok, name |-> Head(toEdge[s]).name]) \in Seq(Replies)
    BY <1>b, QueueUpdates DEF IndInv, TypeOK, EdgeTypes
  <2>. QED
    BY <2>1 DEF IndInv, TypeOK, EdgeTypes, EdgeHandles, Reply
<1>3. edgeNames' \in [Session -> SUBSET Name]
  BY <1>a DEF IndInv, TypeOK, EdgeTypes, EdgeHandles
<1>4. UNCHANGED <<intended, registerMu, pc, call, ch, pending, reader,
     stuck, sess, installed, up, closed, manage, todo, failed, edgeUp,
     warned, granted, crossed, clashed, skipped, calls>>
  BY DEF EdgeHandles, Reply, callVars, sessionVars, replayVars, historyVars
<1>5. TypeOK'
  BY <1>1, <1>2, <1>3, <1>4 DEF IndInv, TypeOK, CallTypes, SessionTypes,
     ReplayTypes, EdgeTypes, HistoryTypes
<1>6. CallLocals'
  BY <1>4 DEF IndInv, CallLocals
<1>7. PendingOwned'
  BY <1>4 DEF IndInv, PendingOwned
<1>8. ReaderHolds'
  BY <1>4 DEF IndInv, ReaderHolds, Matches
<1>9. ChannelOwned'
  BY <1>4 DEF IndInv, ChannelOwned, Matches
<1>10. ReplayIdle'
  BY <1>4 DEF IndInv, ReplayIdle
<1>. QED
  BY <1>5, <1>6, <1>7, <1>8, <1>9, <1>10 DEF IndInv

\* The edge drops a dead session.
LEMMA EdgeNoticesStep ==
    ASSUME IndInv, NEW s \in Session, EdgeNotices(s)
    PROVE  IndInv'
<1>1. edgeUp' \subseteq Session
  BY Domains, NamesAssumption DEF IndInv, TypeOK, EdgeTypes, EdgeNotices
<1>2. edgeNames' \in [Session -> SUBSET Name]
  BY Domains, NamesAssumption DEF IndInv, TypeOK, EdgeTypes, EdgeNotices
<1>3. toEdge' \in [Session -> Seq(Requests)]
  BY QueueUpdates DEF IndInv, TypeOK, EdgeTypes, EdgeNotices
<1>4. UNCHANGED <<intended, registerMu, pc, call, ch, pending, reader,
     stuck, sess, installed, up, closed, manage, todo, failed, toClient,
     warned, granted, crossed, clashed, skipped, calls>>
  BY DEF EdgeNotices, callVars, sessionVars, replayVars, historyVars
<1>5. TypeOK'
  BY <1>1, <1>2, <1>3, <1>4 DEF IndInv, TypeOK, CallTypes, SessionTypes,
     ReplayTypes, EdgeTypes, HistoryTypes
<1>6. CallLocals'
  BY <1>4 DEF IndInv, CallLocals
<1>7. PendingOwned'
  BY <1>4 DEF IndInv, PendingOwned
<1>8. ReaderHolds'
  BY <1>4 DEF IndInv, ReaderHolds, Matches
<1>9. ChannelOwned'
  BY <1>4 DEF IndInv, ChannelOwned, Matches
<1>10. ReplayIdle'
  BY <1>4 DEF IndInv, ReplayIdle
<1>. QED
  BY <1>5, <1>6, <1>7, <1>8, <1>9, <1>10 DEF IndInv

\* The edge announces its shutdown.
LEMMA EdgeShutsDownStep ==
    ASSUME IndInv, NEW s \in Session, EdgeShutsDown(s)
    PROVE  IndInv'
<1>1. warned' \in BOOLEAN
  BY Domains, NamesAssumption DEF IndInv, TypeOK, EdgeTypes, EdgeShutsDown, Reply
<1>2. toClient' \in [Session -> Seq(Replies)]
  <2>1. [ok |-> FALSE, name |-> None] \in Replies
    BY DEF Replies
  <2>. QED
    <3>1. Append(toClient[s], [ok |-> FALSE, name |-> None]) \in Seq(Replies)
      BY <2>1, QueueUpdates DEF IndInv, TypeOK, EdgeTypes
    <3>. QED
      BY <3>1 DEF IndInv, TypeOK, EdgeTypes, EdgeShutsDown, Reply
<1>3. UNCHANGED <<intended, registerMu, pc, call, ch, pending, reader,
     stuck, sess, installed, up, closed, manage, todo, failed, toEdge,
     edgeUp, edgeNames, granted, crossed, clashed, skipped, calls>>
  BY DEF EdgeShutsDown, Reply, callVars, sessionVars, replayVars, historyVars
<1>4. TypeOK'
  BY <1>1, <1>2, <1>3 DEF IndInv, TypeOK, CallTypes, SessionTypes,
     ReplayTypes, EdgeTypes, HistoryTypes
<1>5. CallLocals'
  BY <1>3 DEF IndInv, CallLocals
<1>6. PendingOwned'
  BY <1>3 DEF IndInv, PendingOwned
<1>7. ReaderHolds'
  BY <1>3 DEF IndInv, ReaderHolds, Matches
<1>8. ChannelOwned'
  BY <1>3 DEF IndInv, ChannelOwned, Matches
<1>9. ReplayIdle'
  BY <1>3 DEF IndInv, ReplayIdle
<1>. QED
  BY <1>4, <1>5, <1>6, <1>7, <1>8, <1>9 DEF IndInv

-----------------------------------------------------------------------------
(* The theorems                                                            *)

\* The invariant holds when Connect returns and every step keeps it.
THEOREM Inductive == Spec => []IndInv
<1>1. Init => IndInv
  <2>. SUFFICES ASSUME Init PROVE IndInv
    OBVIOUS
  <2>1. CallTypes
    BY CallUpdates, Domains DEF Init, CallTypes, Stage
  <2>2. SessionTypes /\ HistoryTypes
    <3>1. 1 \in 0..MaxSessions /\ 0 \in 0..MaxCalls
      BY BoundsAssumption
    <3>. QED
      BY <3>1, Domains DEF Init, SessionTypes, HistoryTypes
  <2>5. ReplayTypes
    BY DEF Init, ReplayTypes
  <2>3. EdgeTypes
    BY Domains, QueueUpdates DEF Init, EdgeTypes
  <2>4. CallLocals /\ PendingOwned /\ ReaderHolds /\ ChannelOwned /\ ReplayIdle
    BY Domains DEF Init, CallLocals, PendingOwned, ReaderHolds, ChannelOwned,
       ReplayIdle, InFlight
  <2>. QED
    BY <2>1, <2>2, <2>3, <2>4, <2>5 DEF IndInv, TypeOK
<1>2. IndInv /\ [Next]_vars => IndInv'
  <2>. SUFFICES ASSUME IndInv, [Next]_vars PROVE IndInv'
    OBVIOUS
  <2>1. ASSUME NEW a \in Actor, Attempt(a) PROVE IndInv'
    BY <2>1, WriteRegisterStep, TakeReplyStep, SessionEndedStep, GiveUpStep
       DEF Attempt
  <2>2. ASSUME NEW a \in Caller, NEW n \in Name,
               UnregisterCall(a, n) \/ \E p \in Port : RegisterCall(a, n, p)
        PROVE  IndInv'
    BY <2>2, UnregisterCallStep, RegisterCallStep
  <2>3. ASSUME NEW a \in Caller, CallerStep(a) PROVE IndInv'
    BY <2>1, <2>3, Domains, LockStep, FindSessionStep, FindGivesUpStep,
       WriteUnregisterStep DEF CallerStep
  <2>4. ASSUME NEW r \in Replay, ReplayStep(r) PROVE IndInv'
    BY <2>1, <2>4, Domains, ReplayStartStep, ReplaySnapshotStep, ReplayRoundStep,
       ReplayBackoffStep, ReplaySkipStep, ReplayNameStep DEF ReplayStep
  <2>5. ASSUME NEW s \in Session,
               readControl(s) \/ Edge(s) \/ SessionDies(s) \/ EdgeShutsDown(s)
        PROVE  IndInv'
    BY <2>5, ReadReplyStep, SendReplyStep, EdgeHandlesStep, EdgeNoticesStep,
       SessionDiesStep, EdgeShutsDownStep DEF readControl, Edge
  <2>6. CASE Close \/ Manage
    BY <2>6, CloseStep, SessionLostStep, ReconnectStep, ManageEndsStep DEF Manage
  <2>7. CASE UNCHANGED vars
    BY <2>7 DEF IndInv, TypeOK, CallTypes, SessionTypes, ReplayTypes, EdgeTypes,
       HistoryTypes, CallLocals, PendingOwned, ReaderHolds, ChannelOwned, Matches,
       ReplayIdle, vars, callVars, sessionVars, replayVars, edgeVars, historyVars
  <2>. QED
    BY <2>2, <2>3, <2>4, <2>5, <2>6, <2>7 DEF Next
<1>. QED
  BY <1>1, <1>2, PTL DEF Spec

\* The client's state keeps its types, for any callers, names and bounds.
THEOREM TypeCorrect == Spec => []TypeOK
<1>1. IndInv => TypeOK
  BY DEF IndInv
<1>. QED
  BY <1>1, Inductive, PTL

\* Whoever is pending on a session holds registerMu (client.go: doRegister is
\* only called under the mutex, by Register and by every replay).
THEOREM PendingSerialHolds == Spec => []PendingSerial
<1>1. IndInv => PendingSerial
  BY DEF IndInv, TypeOK, CallTypes, CallLocals, PendingOwned, PendingSerial
<1>. QED
  BY <1>1, Inductive, PTL

\* A register only ever receives a reply for its own name, or an error that
\* names no register (readControl's test against session.pending).
THEOREM RightReplyHolds == Spec => []RightReply
<1>1. IndInv => RightReply
  BY DEF IndInv, ChannelOwned, Matches, RightReply
<1>. QED
  BY <1>1, Inductive, PTL

\* Requests and replies are matched: one register is pending at a time across
\* callers, replays and sessions, and it is handed no reply but its own.
THEOREM RegisterSoundHolds == Spec => []RegisterSound
<1>. QED
  BY TypeCorrect, PendingSerialHolds, RightReplyHolds, PTL DEF RegisterSound

-----------------------------------------------------------------------------
(* No ghosts                                                               *)

\* The caller is in Register, and for which name.
InRegister(a) == pc[a] \in {"lock", "find", "write", "wait"}
RegistersName(a, n) == InRegister(a) /\ call[a].name = n

\* No Register has succeeded for the name since it was last unregistered, and
\* no two calls about it disagreed.
Unsettled(n) == n \notin granted \cup crossed \cup clashed

\* Such a name is intended only on behalf of a call of Register that found it
\* not intended, and will take it back; whoever registers it asks for one port.
Vouched(n) ==
    Unsettled(n) =>
        /\ \A a \in Caller : RegistersName(a, n) =>
             /\ intended[n] \in {None, call[a].port}
             /\ call[a].prev \in {None, call[a].port}
        /\ intended[n] # None =>
             \E a \in Caller : RegistersName(a, n) /\ call[a].prev = None

Ghostless ==
    /\ \A n \in Name : Vouched(n)
    /\ \A a \in Caller : InRegister(a) => call[a].port \in Port

\* A step that leaves what a's Register knows alone.
CallKept(a) ==
    /\ InRegister(a)' <=> InRegister(a)
    /\ InRegister(a) => /\ call'[a].name = call[a].name /\ call'[a].port = call[a].port
                        /\ call'[a].prev = call[a].prev
Kept ==
    /\ UNCHANGED <<intended, granted, crossed, clashed>>
    /\ \A a \in Caller : CallKept(a)

LEMMA KeptGhostless ==
  ASSUME Ghostless, Kept PROVE Ghostless'
<1>1. \A n \in Name : Vouched(n)'
  BY DEF Ghostless, Kept, CallKept, Vouched, Unsettled, RegistersName
<1>2. \A a \in Caller : InRegister(a)' => call'[a].port \in Port
  BY DEF Ghostless, Kept, CallKept
<1>. QED
  BY <1>1, <1>2 DEF Ghostless

\* Register records the name over what it finds.
LEMMA RegisterGhostless ==
  ASSUME IndInv, Ghostless, NEW a \in Caller, NEW n \in Name, NEW p \in Port,
         RegisterCall(a, n, p)
  PROVE  Ghostless'
<1>1. /\ InRegister(a)' /\ ~InRegister(a) /\ call'[a].name = n /\ call'[a].port = p
      /\ call'[a].prev = intended[n]
  BY Domains DEF RegisterCall, InRegister, IndInv, TypeOK, CallTypes
<1>2. \A b \in Caller \ {a} : CallKept(b)
  BY Domains DEF RegisterCall, CallKept, InRegister, IndInv, TypeOK, CallTypes
<1>3. /\ granted' = granted /\ crossed \subseteq crossed' /\ clashed \subseteq clashed'
      /\ \A m \in Name : m # n => intended'[m] = intended[m]
      /\ intended'[n] = p
      /\ n \notin clashed' => \A b \in Caller : RegistersName(b, n) => call[b].port = p
  BY DEF RegisterCall, Disputed, RegistersName, InRegister, IndInv, TypeOK, CallTypes
<1>4. ASSUME NEW m \in Name, Unsettled(m)' PROVE Vouched(m)'
  <2>1. Unsettled(m) /\ Vouched(m)
    BY <1>3, <1>4 DEF Unsettled, Ghostless
  <2>2. CASE m # n
    <3>1. \A b \in Caller : RegistersName(b, m)' => b # a /\ RegistersName(b, m)
      BY <1>1, <1>2, <2>2 DEF RegistersName, CallKept
    <3>2. \A b \in Caller : RegistersName(b, m) => b # a /\ RegistersName(b, m)'
      BY <1>1, <1>2 DEF RegistersName, CallKept
    <3>. QED
      BY <1>2, <1>3, <2>1, <2>2, <3>1, <3>2 DEF Vouched, CallKept, RegistersName
  <2>3. CASE m = n
    <3>1. \A b \in Caller \ {a} :
            /\ RegistersName(b, n)' <=> RegistersName(b, n)
            /\ RegistersName(b, n) => call'[b].port = p /\ call'[b].prev = call[b].prev
      BY <1>2, <1>3, <1>4, <2>3 DEF RegistersName, CallKept, Unsettled
    <3>2. intended[n] \in {None, p}
      BY <1>3, <1>4, <2>1, <2>3 DEF Vouched, Unsettled
    <3>3. \A b \in Caller : RegistersName(b, n)' =>
            /\ intended'[n] \in {None, call'[b].port}
            /\ call'[b].prev \in {None, call'[b].port}
      BY <1>1, <1>3, <2>1, <2>3, <1>4, <3>1, <3>2 DEF Vouched, Unsettled
    <3>4. \E b \in Caller : RegistersName(b, n)' /\ call'[b].prev = None
      <4>1. CASE intended[n] = None
        BY <1>1, <4>1 DEF RegistersName
      <4>2. CASE intended[n] # None
        BY <1>1, <2>1, <2>3, <3>1, <4>2 DEF Vouched, RegistersName
      <4>. QED
        BY <4>1, <4>2
    <3>. QED
      BY <2>3, <3>3, <3>4 DEF Vouched
  <2>. QED
    BY <2>2, <2>3
<1>5. \A b \in Caller : InRegister(b)' => call'[b].port \in Port
  BY <1>1, <1>2 DEF Ghostless, CallKept
<1>. QED
  BY <1>4, <1>5 DEF Ghostless, Vouched

\* Unregister takes the name back at once.
LEMMA UnregisterGhostless ==
  ASSUME IndInv, Ghostless, NEW a \in Caller, NEW n \in Name, UnregisterCall(a, n)
  PROVE  Ghostless'
<1>1. \A b \in Caller : CallKept(b)
  BY Domains DEF UnregisterCall, CallKept, InRegister, IndInv, TypeOK, CallTypes
<1>2. /\ intended'[n] = None /\ granted' = granted \ {n} /\ crossed \subseteq crossed'
      /\ clashed' = clashed
      /\ \A m \in Name : m # n => intended'[m] = intended[m]
      /\ n \notin crossed' => \A b \in Caller : ~RegistersName(b, n)
  BY DEF UnregisterCall, Registering, RegistersName, InRegister, IndInv, TypeOK, CallTypes
<1>3. ASSUME NEW m \in Name PROVE Vouched(m)'
  <2>1. CASE m = n
    BY <1>1, <1>2, <2>1 DEF Vouched, Unsettled, RegistersName, CallKept
  <2>2. CASE m # n
    BY <1>1, <1>2, <2>2 DEF Ghostless, Vouched, Unsettled, RegistersName, CallKept
  <2>. QED
    BY <2>1, <2>2
<1>4. \A b \in Caller : InRegister(b)' => call'[b].port \in Port
  BY <1>1 DEF Ghostless, CallKept
<1>. QED
  BY <1>3, <1>4 DEF Ghostless

\* Of an attempt that ends, the caller's Register returns.
LEMMA ReturnKeeps ==
  ASSUME IndInv, NEW a \in Actor, Return(a)
  PROVE  /\ \A b \in Caller \ {a} : CallKept(b)
         /\ a \in Caller => ~InRegister(a)'
  BY Domains DEF Return, CallKept, InRegister, IndInv, TypeOK, CallTypes

LEMMA SucceedGhostless ==
  ASSUME IndInv, Ghostless, NEW a \in Actor, Succeed(a), pc[a] \in {"find", "write", "wait"}
  PROVE  Ghostless'
<1>1. /\ \A b \in Caller \ {a} : CallKept(b)
      /\ a \in Caller => ~InRegister(a)'
  BY ReturnKeeps DEF Succeed
<1>2. /\ UNCHANGED <<intended, crossed, clashed>>
      /\ granted' = IF a \in Caller THEN granted \cup {call[a].name} ELSE granted
  BY DEF Succeed
<1>3. ASSUME NEW n \in Name, Unsettled(n)' PROVE Vouched(n)'
  <2>1. /\ Unsettled(n) /\ Vouched(n)
        /\ a \in Caller => call[a].name # n
    BY <1>2, <1>3 DEF Ghostless, Unsettled
  <2>2. \A b \in Caller : RegistersName(b, n)' <=> b # a /\ RegistersName(b, n)
    BY <1>1 DEF RegistersName, CallKept
  <2>. QED
    BY <1>1, <1>2, <2>1, <2>2 DEF Vouched, RegistersName, CallKept
<1>4. \A b \in Caller : InRegister(b)' => call'[b].port \in Port
  BY <1>1 DEF Ghostless, CallKept
<1>. QED
  BY <1>3, <1>4 DEF Ghostless, Vouched

\* Register's rollback: the call a name is intended for takes it back, and a
\* call that found the name intended leaves it to another.
LEMMA FailGhostless ==
  ASSUME IndInv, Ghostless, NEW a \in Actor, Fail(a),
         pc[a] \in {"find", "write", "wait"}
  PROVE  Ghostless'
<1>1. /\ \A b \in Caller \ {a} : CallKept(b)
      /\ a \in Caller => ~InRegister(a)'
  BY ReturnKeeps DEF Fail
<1>2. /\ UNCHANGED <<granted, crossed, clashed>>
      /\ intended' = IF a \in Caller THEN RolledBack(a) ELSE intended
  BY DEF Fail, historyVars
<1>3. \A b \in Caller : InRegister(b)' => call'[b].port \in Port
  BY <1>1 DEF Ghostless, CallKept
<1>4. ASSUME NEW n \in Name, Unsettled(n)', a \in Caller PROVE Vouched(n)'
  <2> DEFINE m == call[a].name
  <2>1. /\ m \in Name /\ call[a].port \in Port /\ call[a].port # None
        /\ RegistersName(a, m)
    BY <1>4, NamesAssumption DEF IndInv, CallLocals, InFlight, Ghostless, InRegister,
       RegistersName
  <2>2. Unsettled(n) /\ Vouched(n)
    BY <1>2, <1>4 DEF Ghostless, Unsettled
  <2>3. \A b \in Caller : RegistersName(b, n)' <=> b # a /\ RegistersName(b, n)
    BY <1>1, <1>4 DEF RegistersName, CallKept
  <2>4. CASE n # m
    <3>1. intended'[n] = intended[n] /\ ~RegistersName(a, n)
      BY <1>2, <1>4, <2>4 DEF RolledBack, RegistersName, IndInv, TypeOK, CallTypes
    <3>. QED
      BY <1>1, <2>2, <2>3, <3>1 DEF Vouched, RegistersName, CallKept
  <2>5. CASE n = m
    <3>1. /\ intended[n] \in {None, call[a].port} /\ call[a].prev \in {None, call[a].port}
          /\ \A b \in Caller : RegistersName(b, n) =>
               /\ intended[n] \in {None, call[b].port}
               /\ call[b].prev \in {None, call[b].port}
      BY <1>4, <2>1, <2>2, <2>5 DEF Vouched
    <3>2. /\ intended[n] = None => intended'[n] = None
          /\ intended[n] # None => intended'[n] = call[a].prev
      BY <1>2, <1>4, <2>1, <2>5, <3>1 DEF RolledBack, IndInv, TypeOK, CallTypes
    <3>3. CASE intended'[n] = None
      BY <1>1, <2>3, <3>1, <3>3 DEF Vouched, RegistersName, CallKept
    <3>4. CASE intended'[n] # None
      <4>1. /\ intended[n] # None /\ intended'[n] = intended[n] /\ call[a].prev # None
        BY <3>1, <3>2, <3>4
      <4>2. PICK b \in Caller : RegistersName(b, n) /\ call[b].prev = None
        BY <2>2, <4>1 DEF Vouched
      <4>3. b # a
        BY <4>1, <4>2
      <4>4. RegistersName(b, n)' /\ call'[b].prev = None
        BY <1>1, <2>3, <4>2, <4>3 DEF RegistersName, CallKept
      <4>. QED
        BY <1>1, <2>3, <3>1, <4>1, <4>4 DEF Vouched, RegistersName, CallKept
    <3>. QED
      BY <3>3, <3>4
  <2>. QED
    BY <2>4, <2>5
<1>5. ASSUME NEW n \in Name, Unsettled(n)', a \notin Caller PROVE Vouched(n)'
  <2>1. Unsettled(n) /\ Vouched(n) /\ intended' = intended
    BY <1>2, <1>5 DEF Ghostless, Unsettled
  <2>2. \A b \in Caller : RegistersName(b, n)' <=> RegistersName(b, n)
    BY <1>1, <1>5 DEF RegistersName, CallKept
  <2>. QED
    BY <1>1, <1>5, <2>1, <2>2 DEF Vouched, RegistersName, CallKept
<1>. QED
  BY <1>3, <1>4, <1>5 DEF Ghostless, Vouched

\* An attempt of a caller or a replay loop.
LEMMA AttemptGhostless ==
  ASSUME IndInv, Ghostless, NEW a \in Actor, Attempt(a)
  PROVE  Ghostless'
<1>1. ASSUME Unavailable(a), pc[a] \in {"write", "wait"} PROVE Ghostless'
  <2>1. CASE a \in Caller
    <3>1. Kept
      BY <1>1, <2>1, Domains
      DEF Unavailable, Kept, CallKept, InRegister, IndInv, TypeOK, CallTypes, historyVars
    <3>. QED
      BY <3>1, KeptGhostless
  <2>2. CASE a \notin Caller
    BY <1>1, <2>2, FailGhostless DEF Unavailable
  <2>. QED
    BY <2>1, <2>2
<1>2. CASE WriteRegister(a)
  <2>1. CASE call[a].on \in up
    <3>1. Kept
      BY <1>2, <2>1, Domains
      DEF WriteRegister, Kept, CallKept, InRegister, IndInv, TypeOK, CallTypes, historyVars
    <3>. QED
      BY <3>1, KeptGhostless
  <2>2. CASE call[a].on \notin up
    BY <1>1, <1>2, <2>2 DEF WriteRegister
  <2>. QED
    BY <2>1, <2>2
<1>3. CASE TakeReply(a)
  BY <1>3, SucceedGhostless, FailGhostless DEF TakeReply
<1>4. CASE SessionEnded(a)
  BY <1>1, <1>4 DEF SessionEnded
<1>5. CASE GiveUp(a)
  BY <1>5, FailGhostless DEF GiveUp
<1>. QED
  BY <1>2, <1>3, <1>4, <1>5 DEF Attempt

\* The caller's other steps.
LEMMA CallerGhostless ==
  ASSUME IndInv, Ghostless, NEW a \in Caller, CallerStep(a)
  PROVE  Ghostless'
<1>1. ASSUME Lock(a) \/ FindSession(a) \/ WriteUnregister(a) PROVE Kept
  <2>1. CASE Lock(a)
    BY <2>1, Domains
    DEF Lock, Kept, CallKept, InRegister, IndInv, TypeOK, CallTypes, historyVars
  <2>2. CASE FindSession(a)
    BY <2>2, Domains
    DEF FindSession, BeginAttempt, Kept, CallKept, InRegister, IndInv, TypeOK, CallTypes, Calls,
        historyVars
  <2>3. CASE WriteUnregister(a)
    BY <2>3, Domains
    DEF WriteUnregister, Kept, CallKept, InRegister, IndInv, TypeOK, CallTypes, historyVars
  <2>. QED
    BY <1>1, <2>1, <2>2, <2>3
<1>2. CASE FindGivesUp(a)
  BY <1>2, Domains, FailGhostless DEF FindGivesUp
<1>. QED
  BY <1>1, <1>2, Domains, AttemptGhostless, KeptGhostless DEF CallerStep

\* A replay loop is no caller.
LEMMA ReplayGhostless ==
  ASSUME IndInv, Ghostless, NEW r \in Replay, ReplayStep(r)
  PROVE  Ghostless'
<1>1. r \in Actor /\ r \notin Caller
  BY Domains
<1>2. CASE Attempt(r)
  BY <1>1, <1>2, AttemptGhostless
<1>3. CASE ReplayStart(r) \/ ReplaySnapshot(r) \/ ReplayRound(r) \/ ReplayBackoff(r)
  <2>1. Kept
    BY <1>1, <1>3, Domains
    DEF ReplayStart, ReplaySnapshot, ReplayRound, ReplayBackoff, Kept, CallKept, InRegister,
        IndInv, TypeOK, CallTypes, historyVars
  <2>. QED
    BY <2>1, KeptGhostless
<1>4. CASE \E n \in Name : ReplaySkip(r, n) \/ ReplayName(r, n)
  <2>1. PICK n \in Name : ReplaySkip(r, n) \/ ReplayName(r, n)
    BY <1>4
  <2>2. UNCHANGED <<intended, granted, crossed, clashed>>
    BY <2>1 DEF ReplaySkip, ReplayName, historyVars
  <2>3. \A b \in Actor : b # r => pc'[b] = pc[b] /\ call'[b] = call[b]
    BY <2>1 DEF ReplaySkip, ReplayName, IndInv, TypeOK, CallTypes, callVars
  <2>4. Kept
    BY <1>1, <2>2, <2>3, Domains DEF Kept, CallKept, InRegister
  <2>. QED
    BY <2>4, KeptGhostless
<1>. QED
  BY <1>2, <1>3, <1>4 DEF ReplayStep

\* Neither the reader, the edge nor manage touches what Register knows.
LEMMA OthersGhostless ==
  ASSUME IndInv, Ghostless,
         \/ \E s \in Session : \/ readControl(s) \/ Edge(s) \/ SessionDies(s)
                               \/ EdgeShutsDown(s)
         \/ Close \/ Manage \/ UNCHANGED vars
  PROVE  Ghostless'
<1>1. CASE Reconnect
  <2>1. installed + 1 \in Replay
    BY <1>1, Domains DEF Reconnect, IndInv, TypeOK, SessionTypes
  <2>2. Kept
    BY <1>1, <2>1, Domains
    DEF Reconnect, Kept, CallKept, InRegister, IndInv, TypeOK, CallTypes, historyVars
  <2>. QED
    BY <2>2, KeptGhostless
<1>2. CASE ~Reconnect
  <2>1. UNCHANGED <<intended, granted, crossed, clashed, pc, call>>
    BY <1>2
    DEF readControl, ReadReply, SendReply, Edge, EdgeHandles, EdgeNotices, SessionDies,
        EdgeShutsDown, Close, Manage, SessionLost, ManageEnds, vars, callVars, historyVars
  <2>2. Kept
    BY <2>1 DEF Kept, CallKept, InRegister
  <2>. QED
    BY <2>2, KeptGhostless
<1>. QED
  BY <1>1, <1>2

LEMMA InitGhostless == Init => Ghostless
  BY Domains DEF Init, Ghostless, Vouched, InRegister, RegistersName

LEMMA NextGhostless ==
  ASSUME IndInv, Ghostless, [Next]_vars
  PROVE  Ghostless'
<1>1. CASE \E a \in Caller : \E n \in Name :
             UnregisterCall(a, n) \/ \E p \in Port : RegisterCall(a, n, p)
  BY <1>1, UnregisterGhostless, RegisterGhostless
<1>2. CASE \E a \in Caller : CallerStep(a)
  BY <1>2, CallerGhostless
<1>3. CASE \E r \in Replay : ReplayStep(r)
  BY <1>3, ReplayGhostless
<1>. QED
  BY <1>1, <1>2, <1>3, OthersGhostless DEF Next

LEMMA GhostlessNoGhost == Ghostless => NoGhost
  BY DEF Ghostless, Vouched, Unsettled, NoGhost, Registering, RegistersName, InRegister

\* A failed Register leaves no intended name behind, unless Registers of two
\* ports, or a Register and an Unregister, of that name overlapped: the rollback
\* compares only the port, so a call that finds another port leaves the name to
\* whoever recorded it, and that one may put the failed one's port back
\* (Register, RolledBack).
THEOREM NoGhostHolds == Spec => []NoGhost
<1>. QED
  BY InitGhostless, NextGhostless, GhostlessNoGhost, Inductive, PTL DEF Spec

-----------------------------------------------------------------------------
(* The blocked reader                                                      *)

\* Two lines for one register: the register that is pending on the session
\* gives up although its reply is in the channel, while readControl is about
\* to send it another.
TwoLines(s) ==
    \E a \in Actor :
        /\ pending[s] = a /\ registerMu = a /\ pc[a] = "wait" /\ pc'[a] # "wait"
        /\ ch[a] # None /\ Matches(ch[a], a)
        /\ reader[s] # None /\ Matches(reader[s].msg, a)

\* readControl of a live session blocks for good in no other way: not by a
\* line for another name, by a register that takes its reply, by the end of
\* its session, or by a replay that has the slot of another (doRegister,
\* readControl).
BlocksOnlyByTwoLines == [][\A s \in (stuck' \ stuck) \cap up : TwoLines(s)]_vars

\* A session whose reader is blocked by the end of an attempt had a line in
\* hand for it, and its reply was left behind.
LEMMA EndBlocks ==
  ASSUME IndInv, NEW a \in Actor, NEW left, EndAttempt(a, left), pc[a] \in InFlight,
         NEW s \in stuck' \ stuck
  PROVE  /\ s = call[a].on /\ left # None /\ pending[s] = a /\ registerMu = a
         /\ reader[s] # None /\ Matches(reader[s].msg, a)
<1>1. s = call[a].on /\ reader[s] # None /\ reader[s].to = a /\ left # None
  BY DEF EndAttempt
<1>2. s \in Session
  BY <1>1 DEF IndInv, CallLocals
<1>. QED
  BY <1>1, <1>2 DEF IndInv, CallLocals, ReaderHolds

\* A live session's only control reader blocks only when a register times out,
\* or the client closes, at the very moment when its reply is there and a
\* second line for it is being delivered.
THEOREM BlocksOnlyByTwoLinesHolds == Spec => BlocksOnlyByTwoLines
<1>1. ASSUME IndInv, [Next]_vars, NEW s \in (stuck' \ stuck) \cap up
      PROVE  TwoLines(s)
  <2>1. PICK a \in Actor : Attempt(a)
    <3>1. \/ \E a \in Caller : CallerStep(a)
          \/ \E r \in Replay : ReplayStep(r)
          \/ stuck' = stuck
      BY <1>1 DEF Next, UnregisterCall, RegisterCall, Close, readControl, ReadReply,
         SendReply, Edge, EdgeHandles, EdgeNotices, SessionDies, EdgeShutsDown, Manage,
         SessionLost, Reconnect, ManageEnds, vars, callVars
    <3>2. (\E a \in Actor : Attempt(a)) \/ stuck' = stuck
      BY <3>1, Domains DEF CallerStep, Lock, FindSession, FindGivesUp, WriteUnregister,
         ReplayStep, ReplayStart, ReplaySnapshot, ReplayRound, ReplayBackoff, ReplaySkip,
         ReplayName, callVars
    <3>. QED
      BY <3>2
  <2>2. CASE WriteRegister(a)
    <3>1. call[a].on \notin up /\ EndAttempt(a, ch[a]) /\ pc[a] \in InFlight
      BY <2>2 DEF WriteRegister, InFlight
    <3>. QED
      BY <1>1, <3>1, EndBlocks
  <2>3. CASE TakeReply(a) \/ SessionEnded(a)
    <3>1. EndAttempt(a, None) /\ pc[a] \in InFlight
      BY <2>3 DEF TakeReply, SessionEnded, InFlight
    <3>. QED
      BY <1>1, <3>1, EndBlocks
  <2>4. CASE GiveUp(a)
    <3>1. EndAttempt(a, ch[a]) /\ pc[a] = "wait" /\ pc[a] \in InFlight
      BY <2>4 DEF GiveUp, InFlight
    <3>2. pc' = [pc EXCEPT ![a] = IF a \in Caller THEN "idle" ELSE "next"]
      BY <2>4 DEF GiveUp, Fail, Return
    <3>3. pc'[a] # "wait"
      BY <1>1, <3>2 DEF IndInv, TypeOK, CallTypes
    <3>4. ch[a] # None /\ Matches(ch[a], a)
      BY <1>1, <3>1, EndBlocks DEF IndInv, ChannelOwned
    <3>. QED
      BY <1>1, <3>1, <3>3, <3>4, EndBlocks DEF TwoLines
  <2>. QED
    BY <2>1, <2>2, <2>3, <2>4 DEF Attempt
<1>2. IndInv /\ [Next]_vars => [\A s \in (stuck' \ stuck) \cap up : TwoLines(s)]_vars
  BY <1>1
<1>. QED
  BY <1>2, Inductive, PTL DEF Spec, BlocksOnlyByTwoLines
=============================================================================
