------------------------ MODULE ClientTransportProofs -------------------------
(***************************************************************************)
(* Proofs about the agent's transport: how it gets a session (ClientDial)  *)
(* and what it does with the streams of one (ClientStreams).               *)
(*                                                                         *)
(* For every choice of transport, number of resolved addresses and number  *)
(* of cycles: no second candidate beside one that may still live, no       *)
(* fallback past a refusal, every transport tried before an availability   *)
(* failure is reported, nothing left open by Close.                        *)
(*                                                                         *)
(* For every set of streams, every number of sessions and every capacity:  *)
(* the slots in use are the running handlers, a response that was complete *)
(* first is kept, and over QUIC one that looks complete is complete.       *)
(***************************************************************************)
EXTENDS ClientDial, ClientStreams, FiniteSetTheorems, TLAPS

-----------------------------------------------------------------------------
(* Getting a session: the inductive invariant                              *)

\* Within a cycle the candidates fit the chosen transport, and the ones before
\* the current one, and the current one once it is dialled, have been tried.
Order ==
    pc # "idle" =>
        /\ order \in {<<"quic">>, <<"tcp">>, <<"quic", "tcp">>, <<"tcp", "quic">>}
        /\ Transport = "auto" => Len(order) = 2
        /\ i = 1 \/ (i = 2 /\ Len(order) = 2 /\ order[1] \in tried)
        /\ pc # "resolve" => order[i] \in tried

\* A transport is open only from its dial to its cleanup, or once installed.
OpenWhen ==
    conn = "open" => pc \in {"open", "hello", "reply", "ready", "install",
                            "cleanup", "up"}

\* A cycle that left a transport behind is on its way out.
LeftOver ==
    left => /\ pc \in {"idle", "retry", "failed", "over"}
            /\ pc \in {"retry", "failed"} => ~fail.eligible

\* A refusal is known to the cycle as a terminal failure, or will be: the
\* CloseInfo that carries it is final and still to be looked at.
RefusalKept ==
    refused => /\ pc \notin {"resolve", "dial"}
               /\ pc \in {"open", "hello", "reply", "ready", "install"}
                    => conn = "done" /\ info = "remote"
               /\ pc \in {"cleanup", "join"} /\ fail.eligible
                    => conn = "done" /\ info = "remote"
               /\ pc \in {"retry", "failed"} => ~fail.eligible

\* A cleanup that returns from connectOnce carries a terminal failure, and an
\* availability failure that ends the cycle comes after the last candidate.
Returned ==
    /\ pc \in {"cleanup", "join"} /\ after = "return" => ~fail.eligible
    /\ pc = "over" /\ fail.eligible /\ ~ctx => i = Len(order)

\* Close and installSession agree on c.closed under c.mu.
Closes ==
    /\ clientClosed <=> closing # "no"
    /\ closing = "closed" => sess = "none"
    /\ pc = "up" => IF closing = "closed" THEN conn # "open" ELSE sess = "this"

Control == OpenWhen /\ LeftOver /\ RefusalKept /\ Returned /\ Closes
DialIInv == DialTypeOK /\ Order /\ Control

-----------------------------------------------------------------------------
(* Facts about candidates and failures                                     *)

\* What Len and indexing give on the four orders.
LEMMA OrderFacts ==
  /\ Len(<<"quic">>) = 1 /\ Len(<<"tcp">>) = 1
  /\ Len(<<"quic", "tcp">>) = 2 /\ Len(<<"tcp", "quic">>) = 2
  /\ <<"quic">>[1] = "quic" /\ <<"tcp">>[1] = "tcp"
  /\ <<"quic", "tcp">>[1] = "quic" /\ <<"quic", "tcp">>[2] = "tcp"
  /\ <<"tcp", "quic">>[1] = "tcp" /\ <<"tcp", "quic">>[2] = "quic"
  OBVIOUS

\* The candidate of a running cycle is a transport.
LEMMA KindTyped ==
  ASSUME Order, pc # "idle"
  PROVE  /\ Kind \in {"quic", "tcp"} /\ Len(order) \in {1, 2} /\ i \in {1, 2}
         /\ i < Len(order) => i = 1
         /\ i <= Len(order)
         /\ Len(order) = 2 => order[2] \in {"quic", "tcp"} /\ order[1] # order[2]
<1>1. /\ order \in {<<"quic">>, <<"tcp">>, <<"quic", "tcp">>, <<"tcp", "quic">>}
      /\ i = 1 \/ (i = 2 /\ Len(order) = 2)
  BY DEF Order
<1>2. CASE order = <<"quic">>
  BY <1>1, <1>2, OrderFacts DEF Kind
<1>3. CASE order = <<"tcp">>
  BY <1>1, <1>3, OrderFacts DEF Kind
<1>4. CASE order = <<"quic", "tcp">>
  BY <1>1, <1>4, OrderFacts DEF Kind
<1>5. CASE order = <<"tcp", "quic">>
  BY <1>1, <1>5, OrderFacts DEF Kind
<1>6. QED
  BY <1>1, <1>2, <1>3, <1>4, <1>5

\* Failures are records with a reason and a verdict.
LEMMA FailureFacts ==
  /\ Terminal.eligible = FALSE /\ Nil.eligible = FALSE /\ Terminal # Nil
  /\ \A r \in {"network", "timeout", "handshake"} :
       Eligible(r).eligible = TRUE /\ Eligible(r) # Nil
  /\ Terminal \in Failures /\ Nil \in Failures
  /\ \A r \in {"network", "timeout", "handshake"} : Eligible(r) \in Failures
  BY DEF Terminal, Nil, Eligible, Failures

\* The classifications are failures.
LEMMA Classified ==
  /\ classifyAvailabilityFailure \subseteq Failures
  /\ \A k \in {"quic", "tcp"} : classifyDialFailure(k) \subseteq Failures
  /\ \A c : helloFailureFromCloseInfo(c) \in Failures
  /\ helloFailureFromCloseInfo("remote") = Terminal
<1>1. classifyAvailabilityFailure \subseteq Failures
  BY FailureFacts DEF classifyAvailabilityFailure
<1>2. \A k \in {"quic", "tcp"} : classifyDialFailure(k) \subseteq Failures
  BY <1>1, FailureFacts DEF classifyDialFailure
<1>3. \A c : helloFailureFromCloseInfo(c) \in Failures
  BY FailureFacts DEF helloFailureFromCloseInfo
<1>4. helloFailureFromCloseInfo("remote") = Terminal
  BY DEF helloFailureFromCloseInfo
<1>5. QED
  BY <1>1, <1>2, <1>3, <1>4

\* An action that keeps the order and the index, and does not skip the record
\* of what was tried, keeps Order.
LEMMA OrderKept ==
  ASSUME Order, UNCHANGED <<order, i>>, tried \subseteq tried',
         pc' # "idle" => pc # "idle",
         pc' # "resolve" => pc # "resolve" \/ Kind \in tried'
  PROVE  Order'
  BY DEF Order, Kind

\* The parts of the type invariant, which different provers see to.
Numbers == cycle \in 0..MaxCycles /\ addr \in 1..(Addresses + 1) /\ i \in 1..2
Orders ==
    order \in {<<>>, <<"quic">>, <<"tcp">>, <<"quic", "tcp">>, <<"tcp", "quic">>}
Scalars ==
    /\ pc \in {"idle", "resolve", "dial", "open", "hello", "reply", "ready",
              "cleanup", "join", "retry", "failed", "install", "up", "over"}
    /\ fail \in Failures /\ after \in {"classify", "return"}
    /\ conn \in {"none", "open", "ended", "done"}
    /\ raw \in {"none", "local", "remote", "network", "idle", "other"}
    /\ info \in {"none", "local", "remote", "network", "idle", "other"}
    /\ sess \in {"none", "this"} /\ last \in {"none", "quic", "tcp"}
    /\ closing \in {"no", "flagged", "closed"} /\ tried \subseteq {"quic", "tcp"}
Flags ==
    /\ ctx \in BOOLEAN /\ deadline \in BOOLEAN /\ authed \in BOOLEAN
    /\ cooldown \in BOOLEAN /\ clientClosed \in BOOLEAN /\ left \in BOOLEAN
    /\ refused \in BOOLEAN

\* DialTypeOK, part by part.
LEMMA TypeParts == DialTypeOK <=> Numbers /\ Orders /\ Scalars /\ Flags
<1>1. {raw, info} \subseteq {"none", "local", "remote", "network", "idle", "other"}
        <=> /\ raw \in {"none", "local", "remote", "network", "idle", "other"}
            /\ info \in {"none", "local", "remote", "network", "idle", "other"}
  OBVIOUS
<1>2. {ctx, deadline, authed, cooldown, clientClosed, left, refused} \subseteq BOOLEAN <=> Flags
  BY Zenon DEF Flags
<1>3. QED
  BY <1>1, <1>2, Zenon DEF DialTypeOK, Numbers, Orders, Scalars

\* The same of the next state.
LEMMA TypePartsNext == Numbers' /\ Orders' /\ Scalars' /\ Flags' => DialTypeOK'
  BY TypeParts, PTL

\* DialIInv holds initially.
LEMMA DialInitIInv == DialInit => DialIInv
<1> SUFFICES ASSUME DialInit PROVE DialIInv
  OBVIOUS
<1>1. DialTypeOK
  <2>1. Numbers
    BY CyclesAssumption DEF DialInit, Numbers
  <2>2. Orders /\ Scalars /\ Flags
    BY FailureFacts DEF DialInit, Orders, Scalars, Flags
  <2>3. QED
    BY <2>1, <2>2, TypeParts
<1>2. Order
  BY DEF DialInit, Order
<1>3. Control
  BY FailureFacts DEF DialInit, Control, OpenWhen, LeftOver, RefusalKept, Returned, Closes
<1>4. QED
  BY <1>1, <1>2, <1>3 DEF DialIInv

-----------------------------------------------------------------------------
(* The steps of connectOnce                                                *)

\* A cycle starts: nothing is left over, refused or tried.
LEMMA StartKeeps ==
  ASSUME DialIInv, Start
  PROVE  DialIInv'
<1>1. order' \in {<<"quic">>, <<"tcp">>, <<"quic", "tcp">>, <<"tcp", "quic">>}
      /\ (Transport = "auto" => order' \in {<<"quic", "tcp">>, <<"tcp", "quic">>})
  BY TransportAssumption DEF Start, candidateOrder
<1>2. Order'
  BY <1>1, OrderFacts DEF Start, Order
<1>3. DialTypeOK'
  <2>0. Numbers /\ Scalars /\ Flags
    BY TypeParts DEF DialIInv
  <2>1. Numbers'
    BY <2>0, CyclesAssumption DEF Numbers, Start
  <2>2. Orders'
    BY <1>1 DEF Orders
  <2>3. Scalars' /\ Flags'
    <3>1. Scalars'
      BY <2>0 DEF Scalars, Start, candidateVars, clientVars
    <3>2. Flags'
      BY <2>0 DEF Flags, Start, candidateVars, clientVars
    <3>3. QED
      BY <3>1, <3>2
  <2>4. QED
    BY <2>1, <2>2, <2>3, TypePartsNext
<1>4. Control'
  BY DEF DialIInv, DialTypeOK, Start, Control, OpenWhen, LeftOver, RefusalKept, Returned, Closes,
     candidateVars, clientVars
<1>5. QED
  BY <1>2, <1>3, <1>4 DEF DialIInv

\* The candidate is resolved and dialled, or is not.
LEMMA DialKeeps ==
  ASSUME DialIInv,
         \/ Resolve \/ Dial
         \/ \E lookup \in BOOLEAN :
              \E r \in {"network", "timeout", "handshake"}, eligible \in BOOLEAN :
                DialFails(lookup, IF eligible THEN Eligible(r) ELSE Terminal)
  PROVE  DialIInv'
<1> USE DEF candidateVars, clientVars, historyVars, ctxVars
<1>0. pc # "idle" => Kind \in {"quic", "tcp"}
  BY KindTyped DEF DialIInv
<1>1. CASE Resolve
  <2>1. Order'
    BY <1>1, OrderKept DEF DialIInv, Resolve
  <2>2. DialTypeOK'
    BY <1>0, <1>1 DEF DialIInv, DialTypeOK, Resolve
  <2>3. Control'
    BY <1>1 DEF DialIInv, DialTypeOK, Resolve, Control, OpenWhen, LeftOver, RefusalKept, Returned, Closes
  <2>4. QED
    BY <2>1, <2>2, <2>3 DEF DialIInv
<1>2. CASE Dial
  <2>1. Order'
    BY <1>2, OrderKept DEF DialIInv, Dial
  <2>2. DialTypeOK'
    BY <1>2 DEF DialIInv, DialTypeOK, Dial
  <2>3. Control'
    BY <1>2 DEF DialIInv, DialTypeOK, Dial, Control, OpenWhen, LeftOver, RefusalKept, Returned, Closes
  <2>4. QED
    BY <2>1, <2>2, <2>3 DEF DialIInv
<1>3. ASSUME NEW lookup \in BOOLEAN, NEW f, DialFails(lookup, f)
      PROVE  DialIInv'
  <2>1. Order'
    BY <1>3, OrderKept DEF DialIInv, DialFails
  <2>2. fail' \in Failures
    BY <1>0, <1>3, Classified DEF DialFails
  <2>3. DialTypeOK'
    <3>0. Numbers /\ Orders /\ Scalars /\ Flags
      BY TypeParts DEF DialIInv
    <3>1. Numbers' /\ Orders' /\ Flags'
      BY <1>3, <3>0 DEF Numbers, Orders, Flags, DialFails
    <3>2. pc # "idle" /\ pc' \in {"failed", "retry"} /\ tried' = tried \cup {Kind}
          /\ UNCHANGED <<after, conn, raw, info, sess, last, closing>>
      BY <1>3 DEF DialFails
    <3>3. tried' \subseteq {"quic", "tcp"}
      BY <1>0, <3>0, <3>2 DEF Scalars
    <3>4. Scalars'
      BY <2>2, <3>0, <3>2, <3>3 DEF Scalars
    <3>5. QED
      BY <3>1, <3>4, TypePartsNext
  <2>4. Control'
    BY <1>3 DEF DialIInv, DialTypeOK, DialFails, Control, OpenWhen, LeftOver, RefusalKept, Returned, Closes
  <2>5. QED
    BY <2>1, <2>3, <2>4 DEF DialIInv
<1>4. QED
  BY <1>1, <1>2, <1>3

\* The negotiation of an open candidate, and its failures.
LEMMA NegotiateKeeps ==
  ASSUME DialIInv,
         \/ OpenControl \/ WriteHello \/ HelloOK \/ HelloError \/ NegotiationFails \/ ReplyFails
         \/ Cleanup \/ Ready
  PROVE  DialIInv'
<1> USE DEF candidateVars, clientVars, historyVars, ctxVars
<1>1. Order'
  BY OrderKept DEF DialIInv, OpenControl, WriteHello, HelloOK, HelloError, NegotiationFails,
     ReplyFails, Cleanup, Ready
<1>2. fail' \in Failures
  <2>1. CASE NegotiationFails
    BY <2>1, Classified DEF NegotiationFails
  <2>2. CASE ReplyFails
    BY <2>2, Classified DEF ReplyFails
  <2>3. CASE ~NegotiationFails /\ ~ReplyFails
    BY <2>3, FailureFacts DEF DialIInv, DialTypeOK, OpenControl, WriteHello, HelloOK, HelloError, Cleanup, Ready
  <2>4. QED
    BY <2>1, <2>2, <2>3
<1>3. DialTypeOK'
  <2>0. Numbers /\ Orders /\ Scalars /\ Flags
    BY TypeParts DEF DialIInv
  <2>1. Numbers' /\ Orders' /\ Flags'
    <3>1. Numbers' /\ Orders'
      BY <2>0 DEF Numbers, Orders, OpenControl, WriteHello, HelloOK, HelloError,
         NegotiationFails, ReplyFails, Cleanup, Ready
    <3>2. Flags'
      BY <2>0 DEF Flags, OpenControl, WriteHello, HelloOK, HelloError,
         NegotiationFails, ReplyFails, Cleanup, Ready
    <3>3. QED
      BY <3>1, <3>2
  <2>2. Scalars'
    BY <1>2, <2>0 DEF Scalars, OpenControl, WriteHello, HelloOK, HelloError,
       NegotiationFails, ReplyFails, Cleanup, Ready
  <2>3. QED
    BY <2>1, <2>2, TypePartsNext
<1>4. Control'
  <2> USE DEF DialIInv, DialTypeOK, Control, OpenWhen, LeftOver, RefusalKept, Returned, Closes
  <2>1. CASE OpenControl \/ WriteHello \/ HelloOK
    BY <2>1 DEF OpenControl, WriteHello, HelloOK
  <2>2. CASE HelloError
    BY <2>2, FailureFacts DEF HelloError
  <2>3. CASE NegotiationFails
    BY <2>3 DEF NegotiationFails
  <2>4. CASE ReplyFails
    BY <2>4 DEF ReplyFails
  <2>5. CASE Cleanup
    BY <2>5 DEF Cleanup
  <2>6. CASE Ready
    BY <2>6, FailureFacts DEF Ready
  <2>7. QED
    BY <2>1, <2>2, <2>3, <2>4, <2>5, <2>6
<1>5. QED
  BY <1>1, <1>3, <1>4 DEF DialIInv

\* The end of a candidate: the join decides what the failure is, the failure
\* whether another address or candidate is tried.
LEMMA JoinKeeps ==
  ASSUME DialIInv, Joined \/ JoinTimesOut \/ RetryAddress
  PROVE  DialIInv'
<1> USE DEF candidateVars, clientVars, historyVars, ctxVars
<1>1. Order'
  BY OrderKept DEF DialIInv, Joined, JoinTimesOut, RetryAddress
<1>2. fail' \in Failures
  BY Classified, FailureFacts DEF DialIInv, DialTypeOK, Joined, JoinTimesOut, RetryAddress
<1>3. DialTypeOK'
  <2>0. Numbers /\ Orders /\ Scalars /\ Flags
    BY TypeParts DEF DialIInv
  <2>1. Numbers'
    BY <2>0, CyclesAssumption DEF Numbers, Joined, JoinTimesOut, RetryAddress
  <2>2. Orders' /\ Flags'
    BY <2>0 DEF Orders, Flags, Joined, JoinTimesOut, RetryAddress
  <2>3. Scalars'
    BY <1>2, <2>0 DEF Scalars, Joined, JoinTimesOut, RetryAddress
  <2>4. QED
    BY <2>1, <2>2, <2>3, TypePartsNext
<1>4. Control'
  <2> USE DEF DialIInv, DialTypeOK, Control, OpenWhen, LeftOver, RefusalKept, Returned, Closes
  <2>1. CASE Joined
    <3>1. refused' => ~fail'.eligible
      BY <2>1, Classified, FailureFacts DEF Joined
    <3>2. after = "return" => ~fail'.eligible
      BY <2>1, Classified, FailureFacts DEF Joined
    <3>3. QED
      BY <2>1, <3>1, <3>2 DEF Joined
  <2>2. CASE JoinTimesOut
    BY <2>2, FailureFacts DEF JoinTimesOut
  <2>3. CASE RetryAddress
    BY <2>3, FailureFacts DEF RetryAddress
  <2>4. QED
    BY <2>1, <2>2, <2>3
<1>5. QED
  BY <1>1, <1>3, <1>4 DEF DialIInv

\* The next candidate, or the end of the cycle with what it had.
LEMMA NextCandidateKeeps ==
  ASSUME DialIInv, NextCandidate
  PROVE  DialIInv'
<1> USE DEF candidateVars, historyVars
<1>0. /\ Kind \in {"quic", "tcp"} /\ Len(order) \in {1, 2} /\ i \in {1, 2}
      /\ (i < Len(order) => i = 1) /\ i <= Len(order)
  BY KindTyped DEF DialIInv, NextCandidate
<1>a. CASE ~ctx /\ fail.eligible /\ i < Len(order)
  <2>0. i = 1 /\ Len(order) = 2
    BY <1>0, <1>a
  <2>1. i = 1 /\ i' = 2 /\ Len(order) = 2 /\ addr' = 1 /\ deadline' = FALSE /\ pc' = "resolve"
        /\ cooldown' = (IF Kind = "quic" /\ order[2] = "tcp" THEN TRUE ELSE cooldown)
        /\ UNCHANGED <<cycle, order, fail, after, ctx, candidateVars, sess, last,
                        clientClosed, closing, historyVars>>
    <3>1. i' = i + 1 /\ addr' = 1 /\ deadline' = FALSE /\ pc' = "resolve"
          /\ cooldown' = (IF Kind = "quic" /\ order[i + 1] = "tcp" THEN TRUE ELSE cooldown)
      BY <1>a, Zenon DEF NextCandidate
    <3>2. UNCHANGED <<cycle, order, fail, after, ctx, candidateVars, sess, last,
                      clientClosed, closing, historyVars>>
      BY Zenon DEF NextCandidate
    <3>3. i + 1 = 2
      BY <2>0
    <3>4. QED
      BY <2>0, <3>1, <3>2, <3>3, Zenon
  <2>2. Order'
    BY <2>1 DEF DialIInv, Order, NextCandidate
  <2>3. DialTypeOK'
    <3>0. Numbers /\ Orders /\ Scalars /\ Flags
      BY TypeParts DEF DialIInv
    <3>1. Numbers'
      BY <2>1, <3>0, CyclesAssumption DEF Numbers
    <3>2. Orders' /\ Scalars' /\ Flags'
      <4>1. Orders' /\ Scalars'
        BY <2>1, <3>0 DEF Orders, Scalars
      <4>2. Flags'
        BY <2>1, <3>0 DEF Flags
      <4>3. QED
        BY <4>1, <4>2
    <3>3. QED
      BY <3>1, <3>2, TypePartsNext
  <2>4. Control'
    BY <1>a, <2>1 DEF DialIInv, Control, OpenWhen, LeftOver, RefusalKept, Returned, Closes, NextCandidate
  <2>5. QED
    BY <2>2, <2>3, <2>4 DEF DialIInv
<1>b. CASE ~(~ctx /\ fail.eligible /\ i < Len(order))
  <2>1. pc = "failed" /\ pc' = "over"
        /\ UNCHANGED <<i, addr, deadline, cooldown, cycle, order, fail, after, ctx,
                        candidateVars, sess, last, clientClosed, closing, historyVars>>
    BY <1>b DEF NextCandidate
  <2>2. Order'
    BY <2>1, OrderKept DEF DialIInv
  <2>3. DialTypeOK'
    BY <2>1 DEF DialIInv, DialTypeOK
  <2>4. (fail.eligible /\ ~ctx) => i = Len(order)
    BY <1>0, <1>b
  <2>5. Control'
    BY <2>1, <2>4 DEF DialIInv, Control, OpenWhen, LeftOver, RefusalKept, Returned, Closes
  <2>6. QED
    BY <2>2, <2>3, <2>5 DEF DialIInv
<1>c. QED
  BY <1>a, <1>b

\* A candidate is installed, or refused by the client that was closed.
LEMMA InstallKeeps ==
  ASSUME DialIInv, NEW slugOK \in BOOLEAN, installSession(slugOK)
  PROVE  DialIInv'
<1> USE DEF candidateVars, historyVars, ctxVars
<1>0. Kind \in {"quic", "tcp"}
  BY KindTyped DEF DialIInv, installSession
<1>1. Order'
  BY OrderKept DEF DialIInv, installSession
<1>2. DialTypeOK'
  <2>0. Numbers /\ Orders /\ Scalars /\ Flags
    BY TypeParts DEF DialIInv
  <2>1. Numbers' /\ Orders' /\ Flags'
    BY <2>0 DEF Numbers, Orders, Flags, installSession
  <2>2. Scalars'
    <3>1. CASE clientClosed \/ ~slugOK
      BY <2>0, <3>1, FailureFacts DEF Scalars, installSession
    <3>2. CASE ~(clientClosed \/ ~slugOK)
      BY <1>0, <2>0, <3>2 DEF Scalars, installSession
    <3>3. QED
      BY <3>1, <3>2
  <2>3. QED
    BY <2>1, <2>2, TypePartsNext
<1>3. Control'
  BY FailureFacts DEF DialIInv, DialTypeOK, Control, OpenWhen, LeftOver, RefusalKept, Returned,
     Closes, installSession
<1>4. QED
  BY <1>1, <1>2, <1>3 DEF DialIInv

\* The cycle's end, the loss of the installed session and the user's Close.
LEMMA EndKeeps ==
  ASSUME DialIInv, Over \/ SessionLost \/ CloseFlag \/ CloseSession
  PROVE  DialIInv'
<1> USE DEF candidateVars, clientVars, historyVars, ctxVars, cycleVars
<1>1. Order'
  BY OrderKept DEF DialIInv, Over, SessionLost, CloseFlag, CloseSession
<1>2. DialTypeOK'
  <2>0. Numbers /\ Orders /\ Scalars /\ Flags
    BY TypeParts DEF DialIInv
  <2>1. Numbers' /\ Orders'
    BY <2>0 DEF Numbers, Orders, Over, SessionLost, CloseFlag, CloseSession
  <2>2. Scalars' /\ Flags'
    <3>1. Scalars'
      BY <2>0, FailureFacts DEF Scalars, Over, SessionLost, CloseFlag, CloseSession
    <3>2. Flags'
      BY <2>0 DEF Flags, Over, SessionLost, CloseFlag, CloseSession
    <3>3. QED
      BY <3>1, <3>2
  <2>3. QED
    BY <2>1, <2>2, TypePartsNext
<1>3. Control'
  <2> USE DEF DialIInv, DialTypeOK, Control, OpenWhen, LeftOver, RefusalKept, Returned, Closes
  <2>1. CASE Over
    BY <2>1, FailureFacts DEF Over
  <2>2. CASE SessionLost
    BY <2>2 DEF SessionLost
  <2>3. CASE CloseFlag
    BY <2>3 DEF CloseFlag
  <2>4. CASE CloseSession
    BY <2>4 DEF CloseSession
  <2>5. QED
    BY <2>1, <2>2, <2>3, <2>4
<1>4. QED
  BY <1>1, <1>2, <1>3 DEF DialIInv

\* Time, the network and the edge.
LEMMA EnvironmentKeeps ==
  ASSUME DialIInv, DialEnvironment
  PROVE  DialIInv'
<1> USE DEF candidateVars, clientVars, historyVars, ctxVars, cycleVars
<1>1. CASE ContextEnds \/ DeadlinePasses \/ CooldownEnds \/ EdgeAccepts
  <2>1. Order'
    BY <1>1, OrderKept DEF DialIInv, ContextEnds, DeadlinePasses, CooldownEnds, EdgeAccepts
  <2>2. DialTypeOK'
    <3>0. Numbers /\ Orders /\ Scalars /\ Flags
      BY TypeParts DEF DialIInv
    <3>1. Numbers' /\ Orders' /\ Scalars'
      <4>1. UNCHANGED <<cycleVars, conn, raw, info, sess, last, closing, tried>>
        BY <1>1 DEF ContextEnds, DeadlinePasses, CooldownEnds, EdgeAccepts
      <4>2. Numbers' /\ Orders'
        BY <3>0, <4>1 DEF Numbers, Orders
      <4>3. Scalars'
        BY <3>0, <4>1 DEF Scalars
      <4>4. QED
        BY <4>2, <4>3
    <3>2. Flags'
      BY <1>1, <3>0 DEF Flags, ContextEnds, DeadlinePasses, CooldownEnds, EdgeAccepts
    <3>3. QED
      BY <3>1, <3>2, TypePartsNext
  <2>3. Control'
    BY <1>1 DEF DialIInv, DialTypeOK, Control, OpenWhen, LeftOver, RefusalKept, Returned, Closes,
       ContextEnds, DeadlinePasses, CooldownEnds, EdgeAccepts
  <2>4. QED
    BY <2>1, <2>2, <2>3 DEF DialIInv
<1>2. CASE Publish
  <2>1. Order'
    BY <1>2, OrderKept DEF DialIInv, Publish
  <2>2. DialTypeOK'
    BY <1>2 DEF DialIInv, DialTypeOK, Publish
  <2>3. Control'
    BY <1>2 DEF DialIInv, DialTypeOK, Control, OpenWhen, LeftOver, RefusalKept, Returned, Closes, Publish
  <2>4. QED
    BY <2>1, <2>2, <2>3 DEF DialIInv
<1>3. ASSUME NEW c \in {"remote", "network", "idle", "other"}, RawEnd(c)
      PROVE  DialIInv'
  <2>1. Order'
    BY <1>3, OrderKept DEF DialIInv, RawEnd
  <2>2. DialTypeOK'
    BY <1>3 DEF DialIInv, DialTypeOK, RawEnd
  <2>3. Control'
    BY <1>3 DEF DialIInv, DialTypeOK, Control, OpenWhen, LeftOver, RefusalKept, Returned, Closes, RawEnd
  <2>4. QED
    BY <2>1, <2>2, <2>3 DEF DialIInv
<1>4. QED
  BY <1>1, <1>2, <1>3 DEF DialEnvironment

\* Every step keeps DialIInv.
LEMMA DialNextIInv == DialIInv /\ [DialNext]_dialVars => DialIInv'
<1> SUFFICES ASSUME DialIInv, [DialNext]_dialVars PROVE DialIInv'
  OBVIOUS
<1>1. CASE Client
  BY <1>1, StartKeeps, DialKeeps, NegotiateKeeps, JoinKeeps, NextCandidateKeeps,
     InstallKeeps, EndKeeps DEF Client
<1>2. CASE DialEnvironment
  BY <1>2, EnvironmentKeeps
<1>3. CASE UNCHANGED dialVars
  BY <1>3 DEF DialIInv, DialTypeOK, Order, Control, OpenWhen, LeftOver, RefusalKept, Returned,
     Closes, dialVars, candidateVars, clientVars, historyVars, ctxVars, cycleVars
<1>4. QED
  BY <1>1, <1>2, <1>3 DEF DialNext

-----------------------------------------------------------------------------
(* Getting a session: the theorems                                         *)

\* The inductive invariant holds in every reachable state.
THEOREM DialIInvHolds == DialSpec => []DialIInv
  BY DialInitIInv, DialNextIInv, PTL DEF DialSpec

\* Every variable of the connection loop keeps its type.
THEOREM DialTypeCorrect == DialSpec => []DialTypeOK
<1>1. DialIInv => DialTypeOK
  BY DEF DialIInv
<1>2. QED
  BY DialIInvHolds, <1>1, PTL

\* No candidate is dialled, negotiated or installed in a cycle that gave up
\* one whose Done has not come (failCandidate): the edge never holds two
\* sessions of one cycle.
THEOREM OneCandidateHolds == DialSpec => []OneCandidate
<1>1. DialIInv => OneCandidate
  BY DEF DialIInv, Control, LeftOver, OneCandidate
<1>2. QED
  BY DialIInvHolds, <1>1, PTL

\* A refusal by the server ends the cycle, and in auto mode only a cycle that
\* tried both transports reports an availability failure (closedHelloRejection,
\* candidateOrder, connectOnce).
THEOREM FallbackRightHolds == DialSpec => []FallbackRight
<1>1. DialIInv => RejectionFinal
  BY DEF DialIInv, Control, RefusalKept, RejectionFinal
<1>2. DialIInv => EligibleTriesAll
  <2> SUFFICES ASSUME DialIInv, pc = "over", fail.eligible, ~ctx, Transport = "auto"
               PROVE  tried = {"quic", "tcp"}
    BY DEF EligibleTriesAll
  <2>1. Len(order) = 2 /\ i = 2
    BY DEF DialIInv, Order, Control, Returned
  <2>2. order[1] \in tried /\ order[2] \in tried
    BY <2>1 DEF DialIInv, Order
  <2>3. order \in {<<"quic", "tcp">>, <<"tcp", "quic">>}
    BY <2>1, OrderFacts DEF DialIInv, Order
  <2>4. "quic" \in tried /\ "tcp" \in tried
    BY <2>2, <2>3, OrderFacts
  <2>5. QED
    BY <2>4 DEF DialIInv, DialTypeOK
<1>3. DialIInv => FallbackRight
  BY <1>1, <1>2 DEF FallbackRight, DialIInv
<1>4. QED
  BY DialIInvHolds, <1>3, PTL

\* A Close that has returned leaves no open transport and no session, though
\* it races with installSession (Close, installSession).
THEOREM NoLeakHolds == DialSpec => []NoLeak
<1>1. DialIInv => NoLeak
  BY DEF DialIInv, Control, OpenWhen, Closes, NoLeak
<1>2. QED
  BY DialIInvHolds, <1>1, PTL

-----------------------------------------------------------------------------
(* Serving its streams: the inductive invariant                            *)

Result == [dir : Directions, ok : BOOLEAN]
Starting == {"none", "prefix", "lookup", "dial"}

\* What the channel and the handler hold are results of copies.
ResultsTyped ==
    /\ results \in [Streams -> Seq(Result)]
    /\ first \in [Streams -> Result \cup {NoResult}]

\* A channel with one result of a direction at most.
Distinct(q) == \A at, j \in 1..Len(q) : q[at].dir = q[j].dir => at = j

\* A result is in the channel or taken only once its copy has posted it, and a
\* copy posts once.
PostedOnce(s) ==
    /\ Distinct(results[s])
    /\ \A at \in 1..Len(results[s]) :
         /\ copy[s][results[s][at].dir] = "posted"
         /\ results[s][at].dir # first[s].dir
    /\ first[s] # NoResult => copy[s][first[s].dir] = "posted"

\* Before the dial there is no backend, no copy and no watcher; the handler has
\* a first result from when it took one.
Phases(s) ==
    /\ h[s] \in Starting => backend[s] = "none" /\ results[s] = <<>> /\ ~watch[s]
    /\ h[s] \in Starting => \A d \in Directions : copy[s][d] = "none"
    /\ h[s] \in Starting \cup {"first"} => first[s] = NoResult
    /\ h[s] = "second" => first[s] # NoResult

\* Whoever says that the response is complete says so of a backend that sent
\* the whole of it: the copy, its result on the way to the handler and in its
\* hands, and the FIN of a QUIC stream.
EndsBacked(s) ==
    /\ backend[s] \in {"none", "open"} => ~eof[s]
    /\ backend[s] = "eof" => eof[s]
    /\ copy[s]["response"] = "ok" => eof[s]
    /\ \A at \in 1..Len(results[s]) :
         results[s][at].dir = "response" /\ results[s][at].ok => eof[s]
    /\ Early(s) => eof[s]
    /\ KindOf[of[s]] = "quic" /\ send[s] = "fin" => eof[s]

\* yamux gave the stream up.
Expired(s) == KindOf[of[s]] = "yamux" /\ recv[s] = "expired"

\* Until the handler takes a failed result, only the client's Close, the
\* session's end and yamux's timer reset the stream.
ResetsExplained(s) ==
    /\ h[s] = "none" => send[s] = "open"
    /\ (h[s] \in Starting \cup {"first"} \/ Early(s)) /\ send[s] = "reset" =>
         closed \/ done[of[s]] \/ Expired(s)

Handled(s) == PostedOnce(s) /\ Phases(s) /\ EndsBacked(s) /\ ResetsExplained(s)

\* The variables' types, without the bounds that the invariant gives.
Typed ==
    /\ cur \in 1..Sessions /\ used \in Nat
    /\ closed \in BOOLEAN /\ done \in [1..Sessions -> BOOLEAN]
    /\ h \in [Streams -> Running \cup {"none", "over"}]
    /\ of \in [Streams -> 1..Sessions]
    /\ send \in [Streams -> {"open", "fin", "reset"}]
    /\ recv \in [Streams -> {"open", "fin", "ended", "expired"}]
    /\ backend \in [Streams -> {"none", "open", "eof", "broken", "closed"}]
    /\ copy \in [Streams -> [Directions -> {"none", "run", "ok", "err", "posted"}]]
    /\ watch \in [Streams -> BOOLEAN] /\ eof \in [Streams -> BOOLEAN]
    /\ ResultsTyped

\* The running handlers, of whichever session.
Busy == {s \in Streams : h[s] \in Running}

\* The slots in use are the running handlers, within the capacity.
Owned == used = Cardinality(Busy) /\ used \in 0..Capacity

IInv == Typed /\ Owned /\ \A s \in Streams : Handled(s)

-----------------------------------------------------------------------------
(* What a step leaves alone                                                *)

\* The stream's state is not touched.
Same(s) ==
    /\ h'[s] = h[s] /\ of'[s] = of[s] /\ backend'[s] = backend[s]
    /\ send'[s] = send[s] /\ recv'[s] = recv[s]
    /\ copy'[s] = copy[s] /\ results'[s] = results[s] /\ first'[s] = first[s]
    /\ eof'[s] = eof[s] /\ watch'[s] = watch[s]

\* What ended the client or a session stays.
Onward == (closed => closed') /\ \A n \in 1..Sessions : done[n] => done'[n]

\* A stream whose own state a step leaves alone stays in order.
LEMMA Undisturbed ==
  ASSUME NEW s \in Streams, of \in [Streams -> 1..Sessions], Handled(s), Same(s), Onward
  PROVE  Handled(s)'
<1>1. of[s] \in 1..Sessions
  OBVIOUS
<1>2. PostedOnce(s)'
  BY DEF Handled, PostedOnce, Same
<1>3. Phases(s)'
  BY DEF Handled, Phases, Same
<1>4. EndsBacked(s)'
  BY DEF Handled, EndsBacked, Same, Early
<1>5. ResetsExplained(s)'
  BY <1>1 DEF Handled, ResetsExplained, Same, Early, Onward, Expired
<1>6. QED
  BY <1>2, <1>3, <1>4, <1>5 DEF Handled

\* Results are posted at the end of the channel and taken at its head.
LEMMA AppendResult ==
  ASSUME NEW q \in Seq(Result), NEW x \in Result
  PROVE  /\ Append(q, x) \in Seq(Result) /\ Len(Append(q, x)) = Len(q) + 1
         /\ \A at \in 1..Len(q) : Append(q, x)[at] = q[at]
         /\ Append(q, x)[Len(q) + 1] = x
  OBVIOUS

\* Taking a result moves the others forward.
LEMMA TakeResult ==
  ASSUME NEW q \in Seq(Result), q # <<>>
  PROVE  /\ Len(q) \in Nat \ {0} /\ Head(q) = q[1] /\ Head(q) \in Result
         /\ Tail(q) \in Seq(Result) /\ Len(Tail(q)) = Len(q) - 1
         /\ \A at \in 1..Len(Tail(q)) : Tail(q)[at] = q[at + 1]
  OBVIOUS

\* Taking a result keeps the others distinct.
LEMMA TakeDistinct ==
  ASSUME NEW q \in Seq(Result), q # <<>>, Distinct(q)
  PROVE  /\ Distinct(Tail(q))
         /\ \A at \in 1..Len(Tail(q)) : Tail(q)[at].dir # Head(q).dir
<1>1. /\ Len(q) \in Nat \ {0} /\ Head(q) = q[1] /\ Len(Tail(q)) = Len(q) - 1
      /\ \A at \in 1..Len(Tail(q)) : Tail(q)[at] = q[at + 1]
  BY TakeResult
<1>2. \A at \in 1..Len(Tail(q)) : at + 1 \in 1..Len(q) /\ at + 1 # 1
  BY <1>1
<1>3. 1 \in 1..Len(q)
  BY <1>1
<1>4. \A at, j \in 1..Len(Tail(q)) : Tail(q)[at].dir = Tail(q)[j].dir => at + 1 = j + 1
  BY <1>1, <1>2 DEF Distinct
<1>5. \A at, j \in 1..Len(Tail(q)) : at + 1 = j + 1 => at = j
  BY <1>1
<1>6. Distinct(Tail(q))
  BY <1>4, <1>5 DEF Distinct
<1>7. QED
  BY <1>1, <1>2, <1>3, <1>6 DEF Distinct

\* A result of a direction that has none in the channel keeps it distinct.
LEMMA PostDistinct ==
  ASSUME NEW q \in Seq(Result), NEW x \in Result, Distinct(q),
         \A at \in 1..Len(q) : q[at].dir # x.dir
  PROVE  Distinct(Append(q, x))
<1>1. /\ Len(Append(q, x)) = Len(q) + 1 /\ Len(q) \in Nat
      /\ \A at \in 1..Len(q) : Append(q, x)[at] = q[at]
      /\ Append(q, x)[Len(q) + 1] = x
  BY AppendResult
<1>2. \A at \in 1..Len(Append(q, x)) : at \in 1..Len(q) \/ at = Len(q) + 1
  BY <1>1
<1>3. QED
  BY <1>1, <1>2 DEF Distinct

\* The fields of a result.
LEMMA ResultFields ==
  /\ NoResult \notin Result /\ NoResult.dir = "none" /\ NoResult.ok = TRUE
  /\ \A r \in Result : /\ r.dir \in {"request", "response"} /\ r.ok \in BOOLEAN
                       /\ r.dir # NoResult.dir
  BY DEF Result, NoResult, Directions

-----------------------------------------------------------------------------
(* The steps of a stream                                                   *)

\* What a step of stream r makes of the number of running handlers.
One(b) == IF b THEN 1 ELSE 0
Counted(r) == used' = used + One(h'[r] \in Running) - One(h[r] \in Running)

\* The step of one stream.
StepOf(r) ==
    Accept(r) \/ Reject(r) \/ Handler(r) \/ Copies(r)
    \/ (\E how \in {"fin", "ended"} : EdgeEnds(r, how))
    \/ (\E how \in {"eof", "broken"} : BackendEnds(r, how))

\* A stream's step disturbs no other stream and neither the client nor the
\* session, and its slot goes with its handler.
LEMMA StepLocal ==
  ASSUME Typed, NEW r \in Streams, StepOf(r)
  PROVE  /\ \A q \in Streams \ {r} : Same(q)
         /\ Counted(r) /\ Onward
         /\ UNCHANGED loopVars
<1> USE DEF Typed, Same, Counted, One, Onward, loopVars, streamVars, copyVars, Running
<1>1. CASE Accept(r)
  BY <1>1 DEF Accept
<1>2. CASE Reject(r)
  BY <1>2 DEF Reject, AbortOn
<1>3. CASE Release(r)
  BY <1>3 DEF Release
<1>4. CASE Advance(r)
  BY <1>4 DEF Advance
<1>5. CASE SetupFails(r)
  BY <1>5 DEF SetupFails, Abort, AbortOn
<1>6. CASE Dialled(r)
  BY <1>6 DEF Dialled
<1>7. CASE First(r)
  BY <1>7 DEF First, Abort, AbortOn, CloseBackend
<1>8. CASE Second(r)
  BY <1>8 DEF Second, Abort, AbortOn, Close, CloseBackend
<1>9. CASE Drain(r)
  BY <1>9 DEF Drain, CloseBackend
<1>10. CASE RequestEnds(r)
  BY <1>10 DEF RequestEnds, Ends
<1>11. CASE RequestWriteFails(r)
  BY <1>11 DEF RequestWriteFails, Ends
<1>12. CASE ResponseFails(r)
  BY <1>12 DEF ResponseFails, Ends
<1>13. CASE ResponseWriteFails(r)
  BY <1>13 DEF ResponseWriteFails, Ends
<1>14. CASE ResponseEnds(r)
  BY <1>14 DEF ResponseEnds, Ends
<1>15. CASE Watch(r)
  BY <1>15 DEF Watch, Abort, AbortOn, CloseBackend
<1>16. CASE \E d \in Directions : Post(r, d)
  BY <1>16 DEF Post, Ends
<1>17. CASE \E how \in {"fin", "ended"} : EdgeEnds(r, how)
  BY <1>17 DEF EdgeEnds
<1>18. CASE \E how \in {"eof", "broken"} : BackendEnds(r, how)
  BY <1>18 DEF BackendEnds
<1>19. CASE CloseTimeout(r)
  BY <1>19 DEF CloseTimeout
<1>20. QED
  BY <1>1, <1>2, <1>3, <1>4, <1>5, <1>6, <1>7, <1>8, <1>9, <1>10, <1>11, <1>12, <1>13,
     <1>14, <1>15, <1>16, <1>17, <1>18, <1>19 DEF StepOf, Handler, Copies

\* An abort keeps them, of either transport.
LEMMA AbortTyped ==
  ASSUME Typed, NEW r \in Streams, Abort(r)
  PROVE  /\ send' \in [Streams -> {"open", "fin", "reset"}]
         /\ recv' \in [Streams -> {"open", "fin", "ended", "expired"}]
<1>1. /\ send \in [Streams -> {"open", "fin", "reset"}]
      /\ recv \in [Streams -> {"open", "fin", "ended", "expired"}]
  BY DEF Typed
<1>2. CASE KindOf[of[r]] = "quic"
  BY <1>1, <1>2 DEF Abort, AbortOn
<1>3. CASE KindOf[of[r]] # "quic"
  BY <1>1, <1>3 DEF Abort, AbortOn
<1>4. QED
  BY <1>2, <1>3

\* A stream's step keeps the types.
LEMMA StepTyped ==
  ASSUME Typed, NEW r \in Streams, StepOf(r), used \in Nat, used' \in Nat
  PROVE  Typed'
<1> USE DEF Typed, loopVars, streamVars, copyVars, Running
<1>1. CASE Accept(r)
  BY <1>1 DEF Accept, ResultsTyped
<1>2. CASE Reject(r)
  BY <1>2 DEF Reject, AbortOn, ResultsTyped
<1>3. CASE Release(r)
  BY <1>3 DEF Release, ResultsTyped
<1>4. CASE Advance(r)
  BY <1>4 DEF Advance, ResultsTyped
<1>5. CASE SetupFails(r)
  BY <1>5 DEF SetupFails, Abort, AbortOn, ResultsTyped
<1>6. CASE Dialled(r)
  BY <1>6 DEF Dialled, ResultsTyped
<1>7. CASE First(r)
  <2>1. Head(results[r]) \in Result /\ Tail(results[r]) \in Seq(Result)
    BY <1>7, TakeResult DEF First, ResultsTyped
  <2>2. QED
    BY <1>7, <2>1 DEF First, Abort, AbortOn, CloseBackend, ResultsTyped
<1>8. CASE Second(r)
  <2>1. Head(results[r]) \in Result /\ Tail(results[r]) \in Seq(Result)
    BY <1>8, TakeResult DEF Second, ResultsTyped
  <2>2. /\ h' \in [Streams -> Running \cup {"none", "over"}]
        /\ results' \in [Streams -> Seq(Result)]
    BY <1>8, <2>1 DEF Second, ResultsTyped
  <2>3. /\ backend' \in [Streams -> {"none", "open", "eof", "broken", "closed"}]
        /\ watch' \in [Streams -> BOOLEAN]
    BY <1>8 DEF Second, CloseBackend
  <2>4. /\ send' \in [Streams -> {"open", "fin", "reset"}]
        /\ recv' \in [Streams -> {"open", "fin", "ended", "expired"}]
    <3>1. CASE Abort(r)
      BY <3>1, AbortTyped
    <3>2. CASE Close(r)
      BY <3>2 DEF Close
    <3>3. CASE UNCHANGED <<send, recv>>
      BY <3>3
    <3>4. QED
      BY <1>8, <3>1, <3>2, <3>3 DEF Second
  <2>5. QED
    BY <1>8, <2>2, <2>3, <2>4 DEF Second, ResultsTyped
<1>9. CASE Drain(r)
  BY <1>9 DEF Drain, CloseBackend, ResultsTyped
<1>10. CASE RequestEnds(r)
  <2>1. Ends(r, "request", "ok") \/ Ends(r, "request", "err")
    BY <1>10 DEF RequestEnds
  <2>2. copy' \in [Streams -> [Directions -> {"none", "run", "ok", "err", "posted"}]]
    <3>1. copy \in [Streams -> [Directions -> {"none", "run", "ok", "err", "posted"}]]
      OBVIOUS
    <3>2. \A e \in {"ok", "err"} : [copy[r] EXCEPT !["request"] = e]
                 \in [Directions -> {"none", "run", "ok", "err", "posted"}]
      BY <3>1
    <3>3. \/ copy' = [copy EXCEPT ![r] = [copy[r] EXCEPT !["request"] = "ok"]]
          \/ copy' = [copy EXCEPT ![r] = [copy[r] EXCEPT !["request"] = "err"]]
      BY <2>1 DEF Ends
    <3>4. QED
      BY <3>1, <3>2, <3>3
  <2>3. QED
    BY <1>10, <2>2 DEF RequestEnds, ResultsTyped
<1>11. CASE RequestWriteFails(r)
  BY <1>11 DEF RequestWriteFails, Ends, ResultsTyped
<1>12. CASE ResponseFails(r)
  BY <1>12 DEF ResponseFails, Ends, ResultsTyped
<1>13. CASE ResponseWriteFails(r)
  BY <1>13 DEF ResponseWriteFails, Ends, ResultsTyped
<1>14. CASE ResponseEnds(r)
  BY <1>14 DEF ResponseEnds, Ends, ResultsTyped
<1>15. CASE Watch(r)
  <2>1. /\ send' \in [Streams -> {"open", "fin", "reset"}]
        /\ recv' \in [Streams -> {"open", "fin", "ended", "expired"}]
    BY <1>15, AbortTyped DEF Watch
  <2>2. QED
    BY <1>15, <2>1 DEF Watch, CloseBackend, ResultsTyped
<1>16. CASE \E d \in Directions : Post(r, d)
  <2>1. PICK d \in Directions : Post(r, d)
    BY <1>16
  <2>2. [dir |-> d, ok |-> copy[r][d] = "ok"] \in Result
    BY DEF Result
  <2>3. Append(results[r], [dir |-> d, ok |-> copy[r][d] = "ok"]) \in Seq(Result)
    BY <2>2, AppendResult DEF ResultsTyped
  <2>4. QED
    BY <2>1, <2>3 DEF Post, Ends, ResultsTyped
<1>17. CASE \E how \in {"fin", "ended"} : EdgeEnds(r, how)
  BY <1>17 DEF EdgeEnds, ResultsTyped
<1>18. CASE \E how \in {"eof", "broken"} : BackendEnds(r, how)
  BY <1>18 DEF BackendEnds, ResultsTyped
<1>19. CASE CloseTimeout(r)
  BY <1>19 DEF CloseTimeout, ResultsTyped
<1>20. QED
  BY <1>1, <1>2, <1>3, <1>4, <1>5, <1>6, <1>7, <1>8, <1>9, <1>10, <1>11, <1>12, <1>13,
     <1>14, <1>15, <1>16, <1>17, <1>18, <1>19 DEF StepOf, Handler, Copies

\* What the handler takes, with what it leaves in the channel.
Taken(r) ==
    /\ results[r] \in Seq(Result) /\ results[r] # <<>> /\ Head(results[r]) \in Result
    /\ Head(results[r]) = results[r][1] /\ 1 \in 1..Len(results[r])
    /\ Distinct(Tail(results[r]))
    /\ \A at \in 1..Len(Tail(results[r])) :
         /\ Tail(results[r])[at] = results[r][at + 1] /\ at + 1 \in 1..Len(results[r])
         /\ Tail(results[r])[at].dir # Head(results[r]).dir

\* What is known of the result at the head of the channel.
LEMMA TakenFacts ==
  ASSUME Typed, NEW r \in Streams, PostedOnce(r), results[r] # <<>>
  PROVE  Taken(r)
<1>1. results[r] \in Seq(Result) /\ Distinct(results[r])
  BY DEF Typed, ResultsTyped, PostedOnce
<1>2. QED
  <2>1. /\ Len(results[r]) \in Nat \ {0} /\ Head(results[r]) = results[r][1]
        /\ Head(results[r]) \in Result /\ Len(Tail(results[r])) = Len(results[r]) - 1
        /\ \A at \in 1..Len(Tail(results[r])) :
             Tail(results[r])[at] = results[r][at + 1]
    BY <1>1, TakeResult
  <2>2. /\ 1 \in 1..Len(results[r])
        /\ \A at \in 1..Len(Tail(results[r])) : at + 1 \in 1..Len(results[r])
    BY <2>1
  <2>3. /\ Distinct(Tail(results[r]))
        /\ \A at \in 1..Len(Tail(results[r])) :
             Tail(results[r])[at].dir # Head(results[r]).dir
    BY <1>1, TakeDistinct
  <2>4. QED
    BY <1>1, <2>1, <2>2, <2>3 DEF Taken

\* The first result: the response is early only if it is a complete one.
LEMMA FirstHandled ==
  ASSUME Typed, NEW r \in Streams, Handled(r), First(r)
  PROVE  Handled(r)'
<1> DEFINE q == results[r]
           res == Head(q)
<1> HIDE DEF q, res
<1>1. /\ q # <<>> /\ h[r] = "first" /\ h'[r] = "second" /\ first[r] = NoResult
      /\ first'[r] = res /\ copy'[r] = copy[r] /\ eof'[r] = eof[r]
      /\ results'[r] = Tail(q) /\ UNCHANGED <<closed, done, of>>
      /\ res.ok => send'[r] = send[r] /\ recv'[r] = recv[r]
      /\ ~res.ok /\ KindOf[of[r]] = "quic" => send'[r] = "reset"
      /\ backend'[r] \in {backend[r], "closed"}
      /\ (backend'[r] = "none" <=> backend[r] = "none")
  BY DEF Typed, ResultsTyped, First, Abort, AbortOn, CloseBackend, loopVars, Handled, Phases,
     Starting, q, res
<1>2. /\ res \in Result /\ res = q[1] /\ 1 \in 1..Len(q) /\ Distinct(Tail(q))
      /\ \A at \in 1..Len(Tail(q)) : /\ Tail(q)[at] = q[at + 1] /\ at + 1 \in 1..Len(q)
                                    /\ Tail(q)[at].dir # res.dir
  BY <1>1, TakenFacts DEF Handled, Taken, q, res
<1>3. \A at \in 1..Len(q) : copy[r][q[at].dir] = "posted"
  BY DEF Handled, PostedOnce, q
<1>4. \A at \in 1..Len(q) : q[at].dir = "response" /\ q[at].ok => eof[r]
  BY DEF Handled, EndsBacked, q
<1>5. PostedOnce(r)'
  BY <1>1, <1>2, <1>3 DEF PostedOnce
<1>6. Phases(r)'
  BY <1>1, <1>2, ResultFields DEF Phases, Starting
<1>7. Early(r)' => res.dir = "response" /\ res.ok
  BY <1>1 DEF Early
<1>8. Early(r)' => eof[r]
  BY <1>2, <1>4, <1>7
<1>9. EndsBacked(r)'
  BY <1>1, <1>2, <1>4, <1>8 DEF EndsBacked, Handled
<1>10. ResetsExplained(r)'
  BY <1>1, <1>7 DEF ResetsExplained, Handled, Starting, Expired
<1>11. QED
  BY <1>5, <1>6, <1>9, <1>10 DEF Handled

\* The second result: two good results are the response's and the request's,
\* and an early response is not reset.
LEMMA SecondHandled ==
  ASSUME Typed, NEW r \in Streams, Handled(r), Second(r)
  PROVE  Handled(r)'
<1> DEFINE q == results[r]
           res == Head(q)
<1> HIDE DEF q, res
<1>1. /\ q # <<>> /\ h[r] = "second" /\ h'[r] \in {"drain", "return"}
      /\ first'[r] = first[r] /\ copy'[r] = copy[r] /\ eof'[r] = eof[r]
      /\ results'[r] = Tail(q) /\ UNCHANGED <<closed, done, of>>
      /\ backend'[r] \in {backend[r], "closed"}
      /\ (backend'[r] = "none" <=> backend[r] = "none")
  BY DEF Typed, ResultsTyped, Second, CloseBackend, loopVars, q, res
<1>2. /\ KindOf[of[r]] = "quic" /\ send'[r] = "fin" =>
           send[r] = "fin" \/ (res.ok /\ first[r].ok)
      /\ send'[r] = "reset" /\ Early(r) => send[r] = "reset"
      /\ KindOf[of[r]] = "yamux" => recv'[r] = recv[r]
  BY DEF Typed, Second, Abort, AbortOn, Close, q, res
<1>3. first[r] \in Result
  BY <1>1 DEF Typed, ResultsTyped, Handled, Phases
<1>4. /\ res \in Result /\ res = q[1] /\ 1 \in 1..Len(q) /\ Distinct(Tail(q))
      /\ \A at \in 1..Len(Tail(q)) : Tail(q)[at] = q[at + 1] /\ at + 1 \in 1..Len(q)
  BY <1>1, TakenFacts DEF Handled, Taken, q, res
<1>5. \A at \in 1..Len(q) : copy[r][q[at].dir] = "posted" /\ q[at].dir # first[r].dir
  BY DEF Handled, PostedOnce, q
<1>6. \A at \in 1..Len(q) : q[at].dir = "response" /\ q[at].ok => eof[r]
  BY DEF Handled, EndsBacked, q
<1>7. PostedOnce(r)'
  BY <1>1, <1>4, <1>5 DEF PostedOnce, Handled
<1>8. Phases(r)'
  BY <1>1 DEF Phases, Starting
<1>9. Early(r)' <=> Early(r)
  BY <1>1 DEF Early
<1>10. Early(r) => eof[r]
  BY DEF Handled, EndsBacked
<1>11. res.ok /\ first[r].ok => eof[r]
  <2>1. res.dir \in {"request", "response"} /\ first[r].dir \in {"request", "response"}
    BY <1>3, <1>4, ResultFields
  <2>2. CASE res.dir = "response"
    BY <1>4, <1>6, <2>2
  <2>3. CASE first[r].dir = "response"
    BY <1>10, <2>3 DEF Early
  <2>4. QED
    BY <1>4, <1>5, <2>1, <2>2, <2>3
<1>12. EndsBacked(r)'
  BY <1>1, <1>2, <1>4, <1>6, <1>9, <1>10, <1>11 DEF EndsBacked, Handled
<1>13. ResetsExplained(r)'
  BY <1>1, <1>2, <1>9 DEF ResetsExplained, Handled, Starting, Expired
<1>14. QED
  BY <1>7, <1>8, <1>12, <1>13 DEF Handled

\* A copy's post is its only one.
LEMMA PostHandled ==
  ASSUME Typed, NEW r \in Streams, NEW d \in Directions, Handled(r), Post(r, d)
  PROVE  Handled(r)'
<1> DEFINE q == results[r]
           x == [dir |-> d, ok |-> copy[r][d] = "ok"]
<1> HIDE DEF q, x
<1>1. /\ copy[r][d] \in {"ok", "err"} /\ copy'[r][d] = "posted"
      /\ \A e \in Directions : e # d => copy'[r][e] = copy[r][e]
      /\ results'[r] = Append(q, x)
      /\ UNCHANGED <<h, of, send, recv, backend, eof, first, watch, closed, done>>
  BY DEF Typed, ResultsTyped, Post, Ends, loopVars, streamVars, q, x
<1>2. q \in Seq(Result) /\ x \in Result /\ x.dir = d /\ (x.ok <=> copy[r][d] = "ok")
  BY DEF Typed, ResultsTyped, Result, q, x
<1>3. /\ Len(Append(q, x)) = Len(q) + 1 /\ Len(q) \in Nat
      /\ \A at \in 1..Len(q) : Append(q, x)[at] = q[at]
      /\ Append(q, x)[Len(q) + 1] = x
  BY <1>2, AppendResult
<1>4. \A at \in 1..Len(Append(q, x)) : at \in 1..Len(q) \/ at = Len(q) + 1
  BY <1>3
<1>5. \A e \in Directions : copy[r][e] = "posted" => copy'[r][e] = "posted" /\ e # d
  BY <1>1
<1>6. \A at \in 1..Len(q) : copy[r][q[at].dir] = "posted" /\ q[at].dir # first[r].dir
  BY DEF Handled, PostedOnce, q
<1>7. \A at \in 1..Len(q) : q[at].dir \in Directions
  BY <1>2, ResultFields DEF Directions
<1>8. first[r].dir \in Directions => copy[r][first[r].dir] = "posted"
  BY ResultFields DEF Handled, PostedOnce, Directions
<1>9. d # first[r].dir
  BY <1>5, <1>8
<1>10. \A at \in 1..Len(q) : q[at].dir # x.dir /\ copy'[r][q[at].dir] = "posted"
  BY <1>2, <1>5, <1>6, <1>7
<1>11. PostedOnce(r)'
  <2>1. Distinct(Append(q, x))
    BY <1>2, <1>10, PostDistinct DEF Handled, PostedOnce, q
  <2>2. \A at \in 1..Len(Append(q, x)) :
          copy'[r][Append(q, x)[at].dir] = "posted" /\ Append(q, x)[at].dir # first[r].dir
    BY <1>1, <1>2, <1>3, <1>4, <1>6, <1>9, <1>10
  <2>3. first[r] # NoResult => copy'[r][first[r].dir] = "posted"
    <3>1. first[r] # NoResult => first[r].dir \in Directions
      BY ResultFields DEF Typed, ResultsTyped, Directions
    <3>2. QED
      BY <1>5, <1>8, <3>1
  <2>4. QED
    BY <1>1, <2>1, <2>2, <2>3 DEF PostedOnce
<1>12. Phases(r)'
  <2>1. h[r] \notin Starting
    BY <1>1 DEF Handled, Phases
  <2>2. QED
    BY <1>1, <2>1 DEF Handled, Phases
<1>13. EndsBacked(r)'
  <2>1. copy'[r]["response"] = "ok" => copy[r]["response"] = "ok"
    BY <1>1 DEF Directions
  <2>2. \A at \in 1..Len(q) : q[at].dir = "response" /\ q[at].ok => eof[r]
    BY DEF Handled, EndsBacked, q
  <2>3. x.dir = "response" /\ x.ok => eof[r]
    BY <1>2 DEF Handled, EndsBacked
  <2>4. \A at \in 1..Len(Append(q, x)) :
          Append(q, x)[at].dir = "response" /\ Append(q, x)[at].ok => eof[r]
    BY <1>3, <1>4, <2>2, <2>3
  <2>5. QED
    BY <1>1, <2>1, <2>4 DEF Handled, EndsBacked, Early
<1>14. ResetsExplained(r)'
  BY <1>1 DEF Handled, ResetsExplained, Early, Expired
<1>15. QED
  BY <1>11, <1>12, <1>13, <1>14 DEF Handled

\* The watcher aborts the stream for the client's Close or the session's end.
LEMMA WatchHandled ==
  ASSUME Typed, NEW r \in Streams, Handled(r), Watch(r)
  PROVE  Handled(r)'
<1>1. /\ KindOf[of[r]] = "quic" => send'[r] = "reset"
      /\ closed' \/ done'[of'[r]]
      /\ backend'[r] \in {backend[r], "closed"}
      /\ (backend'[r] = "none" <=> backend[r] = "none")
      /\ watch[r] /\ UNCHANGED <<h, of, eof, copy, results, first>>
  BY DEF Typed, Watch, Abort, AbortOn, CloseBackend, loopVars
<1>2. h[r] \notin Starting
  BY <1>1 DEF Handled, Phases
<1>3. PostedOnce(r)'
  BY <1>1 DEF Handled, PostedOnce
<1>4. Phases(r)'
  BY <1>1, <1>2 DEF Handled, Phases
<1>5. EndsBacked(r)'
  BY <1>1 DEF Handled, EndsBacked, Early
<1>6. ResetsExplained(r)'
  BY <1>1, <1>2 DEF ResetsExplained, Starting
<1>7. QED
  BY <1>3, <1>4, <1>5, <1>6 DEF Handled

\* The backend's end is the first.
LEMMA BackendHandled ==
  ASSUME Typed, NEW r \in Streams, NEW how \in {"eof", "broken"}, Handled(r),
         BackendEnds(r, how)
  PROVE  Handled(r)'
<1>1. /\ backend[r] = "open" /\ backend'[r] = how /\ eof'[r] = (how = "eof")
      /\ UNCHANGED <<h, of, send, recv, copy, results, first, watch, closed, done>>
  BY DEF Typed, BackendEnds, loopVars, copyVars
<1>2. ~eof[r] /\ h[r] \notin Starting
  BY <1>1 DEF Handled, EndsBacked, Phases
<1>3. PostedOnce(r)'
  BY <1>1 DEF Handled, PostedOnce
<1>4. Phases(r)'
  BY <1>1, <1>2 DEF Handled, Phases
<1>5. EndsBacked(r)'
  BY <1>1, <1>2 DEF Handled, EndsBacked, Early
<1>6. ResetsExplained(r)'
  BY <1>1 DEF Handled, ResetsExplained, Early, Expired
<1>7. QED
  BY <1>3, <1>4, <1>5, <1>6 DEF Handled

\* A stream's step leaves its own handler's state in order.
LEMMA StepHandled ==
  ASSUME Typed, NEW r \in Streams, Handled(r), StepOf(r)
  PROVE  Handled(r)'
<1>1. CASE First(r)
  BY <1>1, FirstHandled
<1>2. CASE Second(r)
  BY <1>2, SecondHandled
<1>3. CASE \E d \in Directions : Post(r, d)
  BY <1>3, PostHandled
<1>4. CASE Watch(r)
  BY <1>4, WatchHandled
<1>5. CASE \E how \in {"eof", "broken"} : BackendEnds(r, how)
  BY <1>5, BackendHandled
<1> USE DEF Typed, ResultsTyped, loopVars, streamVars, copyVars, Running, Starting, Handled,
        PostedOnce, Phases, EndsBacked, ResetsExplained, Early, Directions, Expired
<1>6. CASE Accept(r)
  BY <1>6 DEF Accept
<1>7. CASE Reject(r)
  BY <1>7 DEF Reject, AbortOn
<1>8. CASE Release(r)
  BY <1>8 DEF Release
<1>9. CASE Advance(r)
  BY <1>9 DEF Advance
<1>10. CASE SetupFails(r)
  BY <1>10 DEF SetupFails, Abort, AbortOn
<1>11. CASE Dialled(r)
  BY <1>11 DEF Dialled
<1>12. CASE Drain(r)
  BY <1>12 DEF Drain, CloseBackend
<1>13. CASE RequestEnds(r)
  <2>1. CASE Ends(r, "request", "ok")
    BY <1>13, <2>1 DEF RequestEnds, Ends
  <2>2. CASE Ends(r, "request", "err")
    BY <1>13, <2>2 DEF RequestEnds, Ends
  <2>3. QED
    BY <1>13, <2>1, <2>2 DEF RequestEnds
<1>14. CASE RequestWriteFails(r)
  BY <1>14 DEF RequestWriteFails, Ends
<1>15. CASE ResponseFails(r)
  BY <1>15 DEF ResponseFails, Ends
<1>16. CASE ResponseWriteFails(r)
  BY <1>16 DEF ResponseWriteFails, Ends
<1>17. CASE ResponseEnds(r)
  BY <1>17 DEF ResponseEnds, Ends
<1>18. CASE \E how \in {"fin", "ended"} : EdgeEnds(r, how)
  BY <1>18 DEF EdgeEnds
<1>19. CASE CloseTimeout(r)
  BY <1>19 DEF CloseTimeout
<1>20. QED
  BY <1>1, <1>2, <1>3, <1>4, <1>5, <1>6, <1>7, <1>8, <1>9, <1>10, <1>11, <1>12, <1>13,
     <1>14, <1>15, <1>16, <1>17, <1>18, <1>19 DEF StepOf, Handler, Copies

-----------------------------------------------------------------------------
(* The session's steps                                                     *)

\* The client's Close, the session's end and the next session.
LoopStep == UserClose \/ SessionDone \/ Reconnect

\* They take and give no slot, and end only streams of the session they end.
LEMMA LoopHandled ==
  ASSUME Typed, \A s \in Streams : Handled(s), LoopStep
  PROVE  /\ Typed' /\ used' = used /\ h' = h
         /\ \A s \in Streams : Handled(s)'
<1>1. CASE UserClose
  <2>1. Typed' /\ used' = used /\ h' = h
    BY <1>1 DEF UserClose, Typed, ResultsTyped, loopVars, streamVars, copyVars
  <2>2. Onward /\ \A s \in Streams : Same(s)
    BY <1>1 DEF UserClose, Onward, Same, streamVars, copyVars
  <2>3. QED
    BY <2>1, <2>2, Undisturbed DEF Typed
<1>2. CASE Reconnect
  <2>1. Typed' /\ used' = used /\ h' = h
    BY <1>2, BoundsAssumption
    DEF Reconnect, Typed, ResultsTyped, loopVars, streamVars, copyVars
  <2>2. Onward /\ \A s \in Streams : Same(s)
    BY <1>2 DEF Reconnect, Onward, Same, streamVars, copyVars
  <2>3. QED
    BY <2>1, <2>2, Undisturbed DEF Typed
<1>3. CASE SessionDone
  <2>1. Typed' /\ used' = used /\ h' = h
    BY <1>3 DEF SessionDone, Typed, ResultsTyped, copyVars
  <2>2. SUFFICES ASSUME NEW s \in Streams PROVE Handled(s)'
    BY <2>1
  <2>3. /\ UNCHANGED <<h, of, backend, eof, copy, results, first, watch, closed>>
        /\ done'[cur] /\ \A n \in 1..Sessions : done[n] => done'[n]
    BY <1>3 DEF SessionDone, Typed, copyVars
  <2>4. \/ send'[s] = send[s] /\ recv'[s] = recv[s]
        \/ h[s] \in Running /\ of[s] = cur /\ send'[s] = "reset"
    BY <1>3 DEF SessionDone
  <2>5. of[s] \in 1..Sessions
    BY DEF Typed
  <2>6. PostedOnce(s)' /\ Phases(s)'
    BY <2>3 DEF Handled, PostedOnce, Phases
  <2>7. EndsBacked(s)'
    BY <2>3, <2>4 DEF Handled, EndsBacked, Early
  <2>8. ResetsExplained(s)'
    BY <2>3, <2>4, <2>5 DEF Handled, ResetsExplained, Early, Running, Expired
  <2>9. QED
    BY <2>6, <2>7, <2>8 DEF Handled
<1>4. QED
  BY <1>1, <1>2, <1>3 DEF LoopStep

-----------------------------------------------------------------------------
(* The slots                                                               *)

\* A set that differs from another in one element at most.
LEMMA CountMoves ==
  ASSUME NEW S, NEW T, NEW r, IsFiniteSet(S), S \ {r} = T \ {r}
  PROVE  /\ IsFiniteSet(T) /\ Cardinality(S) \in Nat /\ Cardinality(T) \in Nat
         /\ Cardinality(T) = Cardinality(S) + One(r \in T) - One(r \in S)
<1> DEFINE R == S \ {r}
<1>1. IsFiniteSet(R)
  BY FS_RemoveElement
<1>2. Cardinality(R) \in Nat /\ Cardinality(S) \in Nat
  BY <1>1, FS_CardinalityType
<1>3. Cardinality(S) = Cardinality(R) + One(r \in S)
  <2>1. Cardinality(R) = IF r \in S THEN Cardinality(S) - 1 ELSE Cardinality(S)
    BY FS_RemoveElement
  <2>2. QED
    BY <1>2, <2>1 DEF One
<1>4. CASE r \in T
  <2>1. T = R \cup {r}
    BY <1>4
  <2>2. IsFiniteSet(T) /\ Cardinality(T) = Cardinality(R) + 1
    BY <1>1, <2>1, FS_AddElement
  <2>3. QED
    BY <1>2, <1>3, <1>4, <2>2 DEF One
<1>5. CASE r \notin T
  <2>1. T = R
    BY <1>5
  <2>2. QED
    BY <1>1, <1>2, <1>3, <1>5, <2>1 DEF One
<1>6. QED
  BY <1>4, <1>5

\* The running handlers are finitely many.
LEMMA BusyFinite == IsFiniteSet(Busy)
  BY BoundsAssumption, FS_Subset DEF Busy

\* A stream's step moves the slots with its handler.  No handler starts
\* without a free slot, and none ends without one of its own.
LEMMA StepOwned ==
  ASSUME Typed, Owned, NEW r \in Streams, StepOf(r)
  PROVE  Owned' /\ used' \in Nat
<1>1. /\ \A q \in Streams \ {r} : h'[q] = h[q]
      /\ Counted(r)
  BY StepLocal DEF Same
<1>2. Busy \ {r} = Busy' \ {r}
  BY <1>1 DEF Busy
<1>3. /\ Cardinality(Busy) \in Nat /\ Cardinality(Busy') \in Nat
      /\ Cardinality(Busy') = Cardinality(Busy) + One(r \in Busy') - One(r \in Busy)
  BY <1>2, BusyFinite, CountMoves
<1>4. (r \in Busy <=> h[r] \in Running) /\ (r \in Busy' <=> h'[r] \in Running)
  BY DEF Busy
<1>5. used' = Cardinality(Busy')
  BY <1>1, <1>3, <1>4 DEF Owned, Counted, One
<1>6. used' <= used \/ used' <= Capacity
  <2>1. CASE Accept(r)
    BY <2>1, BoundsAssumption DEF Accept, Typed
  <2>2. CASE h[r] \in Running \/ h'[r] \notin Running
    BY <1>1, <2>2 DEF Counted, One, Typed
  <2>3. CASE ~Accept(r)
    <3>1. h[r] \in Running \/ h'[r] \notin Running
      BY <2>3 DEF StepOf, Reject, Handler, Copies, Release, Advance, SetupFails, Dialled, First,
         Second, Drain, RequestEnds, RequestWriteFails, ResponseFails, ResponseWriteFails,
         ResponseEnds, Watch, Post, CloseTimeout, EdgeEnds, BackendEnds, Running, Typed
    <3>2. QED
      BY <2>2, <3>1
  <2>4. QED
    BY <2>1, <2>3
<1>7. QED
  BY <1>3, <1>5, <1>6, BoundsAssumption DEF Owned

-----------------------------------------------------------------------------
(* Serving its streams: the theorems                                       *)

\* IInv holds initially.
LEMMA InitIInv == Init => IInv
<1> SUFFICES ASSUME Init PROVE IInv
  OBVIOUS
<1>1. Typed
  <2>1. <<>> \in Seq(Result) /\ 1 \in 1..Sessions
    BY BoundsAssumption
  <2>2. ResultsTyped
    BY <2>1 DEF Init, ResultsTyped
  <2>3. /\ copy \in [Streams -> [Directions -> {"none", "run", "ok", "err", "posted"}]]
        /\ done \in [1..Sessions -> BOOLEAN]
    BY DEF Init
  <2>4. QED
    BY <2>1, <2>2, <2>3 DEF Init, Typed
<1>2. Busy = {}
  BY DEF Init, Busy, Running
<1>3. Owned
  BY <1>2, FS_EmptySet, BoundsAssumption DEF Init, Owned
<1>4. ASSUME NEW s \in Streams PROVE Handled(s)
  <2>1. /\ h[s] = "none" /\ send[s] = "open" /\ backend[s] = "none" /\ results[s] = <<>>
        /\ first[s] = NoResult /\ ~watch[s] /\ ~eof[s]
        /\ \A d \in Directions : copy[s][d] = "none"
    BY DEF Init
  <2>2. PostedOnce(s)
    BY <2>1 DEF PostedOnce, Distinct
  <2>3. Phases(s)
    BY <2>1 DEF Phases
  <2>4. EndsBacked(s)
    BY <2>1, ResultFields DEF EndsBacked, Early, Directions
  <2>5. ResetsExplained(s)
    BY <2>1 DEF ResetsExplained
  <2>6. QED
    BY <2>2, <2>3, <2>4, <2>5 DEF Handled
<1>5. QED
  BY <1>1, <1>3, <1>4 DEF IInv

\* Every step keeps IInv.
LEMMA NextIInv ==
  ASSUME IInv, [Next]_vars
  PROVE  IInv'
<1>1. Typed /\ Owned /\ \A s \in Streams : Handled(s)
  BY DEF IInv
<1>2. ASSUME NEW r \in Streams, StepOf(r) PROVE IInv'
  <2>1. Owned' /\ used' \in Nat /\ used \in Nat
    BY <1>1, <1>2, StepOwned DEF Typed
  <2>2. Typed'
    BY <1>1, <1>2, <2>1, StepTyped
  <2>3. Handled(r)'
    BY <1>1, <1>2, StepHandled
  <2>4. ASSUME NEW q \in Streams, q # r PROVE Handled(q)'
    <3>1. Same(q) /\ Onward
      BY <1>1, <1>2, <2>4, StepLocal
    <3>2. QED
      BY <1>1, <3>1, Undisturbed DEF Typed
  <2>5. QED
    BY <2>1, <2>2, <2>3, <2>4 DEF IInv
<1>3. CASE LoopStep
  <2>1. /\ Typed' /\ used' = used /\ h' = h
        /\ \A s \in Streams : Handled(s)'
    BY <1>1, <1>3, LoopHandled
  <2>2. Owned'
    BY <1>1, <2>1 DEF Owned, Busy
  <2>3. QED
    BY <2>1, <2>2 DEF IInv
<1>4. CASE UNCHANGED vars
  <2> USE <1>4 DEF vars, loopVars, streamVars, copyVars
  <2>1. Typed'
    BY <1>1 DEF Typed, ResultsTyped
  <2>2. Owned'
    BY <1>1 DEF Owned, Busy
  <2>3. Onward /\ \A s \in Streams : Same(s)
    BY DEF Onward, Same
  <2>4. \A s \in Streams : Handled(s)'
    BY <1>1, <2>3, Undisturbed DEF Typed
  <2>5. QED
    BY <2>1, <2>2, <2>4 DEF IInv
<1>5. QED
  BY <1>2, <1>3, <1>4 DEF Next, Environment, StepOf, LoopStep

\* The inductive invariant holds in every reachable state.
THEOREM IInvHolds == Spec => []IInv
<1>1. Init => IInv
  BY InitIInv
<1>2. IInv /\ [Next]_vars => IInv'
  BY NextIInv
<1>3. QED
  BY <1>1, <1>2, PTL DEF Spec

\* Two copies post two results, so the channel's two places are enough and no
\* copy ever waits to post.
LEMMA AtMostTwo ==
  ASSUME NEW q \in Seq(Result), Distinct(q)
  PROVE  Len(q) <= 2
<1>1. SUFFICES ASSUME Len(q) >= 3 PROVE FALSE
  OBVIOUS
<1>2. 1 \in 1..Len(q) /\ 2 \in 1..Len(q) /\ 3 \in 1..Len(q)
  BY <1>1
<1>3. q[1] \in Result /\ q[2] \in Result /\ q[3] \in Result
  BY <1>2
<1>4. q[1].dir # q[2].dir /\ q[1].dir # q[3].dir /\ q[2].dir # q[3].dir
  BY <1>2 DEF Distinct
<1>5. QED
  BY <1>3, <1>4, ResultFields

\* Every slot in use has its running handler and every running handler its
\* slot, across sessions and however a handler ends; the slots are within the
\* capacity (acceptStreamsLoop, handleStream).
THEOREM SlotsExactHolds == Spec => []SlotsExact
<1>1. ASSUME IInv PROVE SlotsExact
  <2>1. \A s \in Streams : Len(results[s]) <= 2
    BY <1>1, AtMostTwo DEF IInv, Typed, ResultsTyped, Handled, PostedOnce
  <2>2. TypeOK
    BY <1>1, <2>1 DEF IInv, Typed, Owned, TypeOK
  <2>3. QED
    BY <1>1, <2>2, BoundsAssumption DEF IInv, Owned, SlotsExact, Busy
<1>2. QED
  BY <1>1, IInvHolds, PTL

\* Over QUIC a FIN is only sent after a response the backend sent all of.  A
\* response whose copy was first to end, and ended well, is reset only by the
\* client's Close, the session's end or yamux's timer (handleStream).
THEOREM ResponseSoundHolds == Spec => []ResponseSound
<1>1. ASSUME IInv PROVE ResponseSound
  BY <1>1 DEF IInv, Handled, EndsBacked, ResetsExplained, Expired, ResponseSound,
     EarlyResponseKept, NoTruncatedEnd
<1>2. QED
  BY <1>1, IInvHolds, PTL
=============================================================================
