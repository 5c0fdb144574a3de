-------------------------- MODULE QuicSessionProofs --------------------------
(***************************************************************************)
(* Proofs about QuicSession, for every set of streams, of concurrent       *)
(* closers and of errors that may end the connection: the attempt is       *)
(* classified once, the session has one ending that both ends are told,    *)
(* and the adapter implements TunnelContract.                              *)
(***************************************************************************)
EXTENDS QuicSession, TLAPS

-----------------------------------------------------------------------------
(* closeInfoFromQUIC tells a local close from every other end              *)

\* What ends the connection: an error from outside, or a local close.
RawError == RemoteError \cup {LocalError(k) : k \in Caller}

\* Every end of the connection has a CloseInfo, and none is NoCause.
LEMMA InfoTyped ==
  ASSUME NEW e \in RawError
  PROVE  closeInfoFromQUIC(e) \in Cause /\ closeInfoFromQUIC(e) # NoCause
  BY ErrorsAssumption DEF ErrorsAssumption, RawError, Cause, LocalInfo

\* So has every local close.
LEMMA LocalTyped ==
  ASSUME NEW k \in Caller
  PROVE  LocalInfo(k) \in Cause /\ LocalInfo(k) # NoCause
         /\ LocalError(k) \in RawError
  BY ErrorsAssumption DEF ErrorsAssumption, Cause, RawError

\* The error of a local close is an Error, so it is not NoCause.
LEMMA RawErrorIsCause ==
  ASSUME NEW e \in RawError
  PROVE  e # NoCause
<1>1. \A k \in Caller : LocalError(k) \in Error
  BY DEF LocalError, Error, Kind
<1>2. QED
  BY <1>1, ErrorsAssumption DEF ErrorsAssumption, RawError

\* No error from outside is a caller's own close.
LEMMA RemoteNotLocal ==
  ASSUME NEW e \in RemoteError, NEW k \in Caller
  PROVE  e # LocalError(k) /\ closeInfoFromQUIC(e) # LocalInfo(k)
<1>1. e \in Error /\ (e.remote \/ e.kind # "application")
  BY ErrorsAssumption DEF ErrorsAssumption
<1>2. e # LocalError(k)
  BY <1>1 DEF LocalError
<1>3. LocalInfo(k).reason = "application" /\ LocalInfo(k).remote = FALSE
  BY DEF LocalInfo, LocalError, closeInfoFromQUIC
<1>4. CASE e.kind = "application"
  <2>1. closeInfoFromQUIC(e).remote = TRUE
    BY <1>1, <1>4 DEF closeInfoFromQUIC, Error
  <2>2. QED
    BY <1>2, <1>3, <2>1
<1>5. CASE e.kind # "application"
  <2>1. e.kind \in Kind \ {"application"}
    BY <1>1, <1>5 DEF Error
  <2>2. closeInfoFromQUIC(e).reason # "application"
    BY <2>1 DEF closeInfoFromQUIC, Kind
  <2>3. QED
    BY <1>2, <1>3, <2>2
<1>6. QED
  BY <1>4, <1>5

\* Two closers have errors and CloseInfos of their own.
LEMMA LocalInjective ==
  ASSUME NEW j \in Caller, NEW k \in Caller, j # k
  PROVE  LocalError(j) # LocalError(k) /\ LocalInfo(j) # LocalInfo(k)
<1>1. LocalError(j).code = j /\ LocalError(k).code = k
  BY DEF LocalError
<1>2. LocalInfo(j).code = j /\ LocalInfo(k).code = k
  BY DEF LocalInfo, LocalError, closeInfoFromQUIC
<1>3. QED
  BY <1>1, <1>2

\* An end of the connection is reported as k's close only if it is k's close.
LEMMA InfoTellsCloser ==
  ASSUME NEW e \in RawError, NEW k \in Caller, e # LocalError(k)
  PROVE  closeInfoFromQUIC(e) # LocalInfo(k)
  BY RemoteNotLocal, LocalInjective DEF RawError, LocalInfo

-----------------------------------------------------------------------------
(* The inductive invariant                                                 *)

\* A stream object exists for exactly the calls that returned one.
HeldStreams ==
    \A st \in Stream :
       /\ st \in held <=> pc[st] = "open"
       /\ completing[st] # "no" \/ closing[st] # "no" => st \in held
       /\ st \in children \cup ending => st \in held

\* finish runs on a terminal session, empties the registry, and is followed by
\* Done only when the children it took over are through.
FinishOrder ==
    /\ finished => terminal /\ children = {}
    /\ ~finished => ending = {} /\ ~done
    /\ done => \A st \in ending : completing[st] = "over"

\* finish misses no stream: whatever is not Done is registered or taken over.
RegistryComplete ==
    \A st \in held : completing[st] = "no" => st \in children \cup ending

\* Whose close the ending is: a claimant's is the recorded cause until it has
\* finished; a call that has claimed nothing, and a call that began after the
\* connection had ended, is neither recorded nor what ended the connection.
Claimants ==
    \A k \in Caller :
       /\ call[k] \in {"claimed", "sent"} => info = LocalInfo(k)
       /\ call[k] \in {"idle", "clear"} \/ k \in late
            => info # LocalInfo(k) /\ rawCause # LocalError(k)
       /\ k \in late => call[k] = "over"

Session == HeldStreams /\ FinishOrder /\ RegistryComplete
Ending == Claimants /\ PeerToldSame /\ ClassifiedOnce
IInv == TypeOK /\ Session /\ Ending

\* rawCause is the end of the connection, if there is one.
LEMMA RawCauseTyped ==
  ASSUME TypeOK, ended
  PROVE  rawCause \in RawError
  BY DEF TypeOK, ended, RawError

\* IInv holds initially.
LEMMA InitIInv == Init => IInv
<1> SUFFICES ASSUME Init PROVE IInv
  OBVIOUS
<1>1. TypeOK
  BY DEF Init, TypeOK
<1>2. Session
  BY DEF Init, Session, HeldStreams, FinishOrder, RegistryComplete, terminal
<1>3. Ending
  BY LocalTyped, RawErrorIsCause
  DEF Init, Ending, Claimants, PeerToldSame, ClassifiedOnce
<1>4. QED
  BY <1>1, <1>2, <1>3 DEF IInv

-----------------------------------------------------------------------------
(* Every step preserves it                                                 *)

\* A step that touches neither streams nor the registry keeps the session.
LEMMA SessionKept ==
  ASSUME Session,
         UNCHANGED <<info, finished, children, ending, done, pc, held, closing,
                     completing>>
  PROVE  Session'
  BY DEF Session, HeldStreams, FinishOrder, RegistryComplete, terminal

\* A step that touches neither the calls nor the causes keeps the ending.
LEMMA EndingKept ==
  ASSUME Ending,
         UNCHANGED <<call, late, info, rawCause, sent, attempt, observed>>
  PROVE  Ending'
  BY DEF Ending, Claimants, PeerToldSame, ClassifiedOnce

\* finish moves every child from the registry to the ones it terminates.
LEMMA FinishKeepsSession ==
  ASSUME Session, NEW c, c # NoCause, finish(c),
         UNCHANGED <<done, pc, held, closing, completing>>
  PROVE  Session'
<1>1. CASE finished
  BY <1>1, SessionKept DEF finish
<1>2. CASE ~finished
  BY <1>2 DEF finish, Session, HeldStreams, FinishOrder, RegistryComplete, terminal
<1>3. QED
  BY <1>1, <1>2

\* finish types what it writes.
LEMMA FinishTyped ==
  ASSUME TypeOK, NEW c \in Cause, finish(c)
  PROVE  /\ (info' \in Cause \cup {NoCause}) /\ (finished' \in BOOLEAN)
         /\ (children' \subseteq Stream) /\ (ending' \subseteq Stream)
  BY DEF TypeOK, finish

\* The end of the connection and the classification of the attempt.
LEMMA ConnectionStep ==
  ASSUME IInv,
         \/ \E e \in RemoteError : RawEnd(e)
         \/ Accepted \/ AttemptWatch \/ AttemptFailed
  PROVE  IInv'
<1> USE DEF stateVars, streamVars, attemptVars, IInv
<1>1. ASSUME NEW e \in RemoteError, RawEnd(e) PROVE IInv'
  <2>1. TypeOK'
    BY <1>1 DEF RawEnd, TypeOK
  <2>2. Ending'
    BY <1>1, RemoteNotLocal DEF RawEnd, Ending, Claimants, PeerToldSame, ClassifiedOnce
  <2>3. QED
    BY <1>1, <2>1, <2>2, SessionKept DEF RawEnd
<1>2. CASE Accepted
  <2>1. TypeOK'
    BY <1>2 DEF Accepted, TypeOK
  <2>2. Ending'
    BY <1>2 DEF Accepted, Ending, Claimants, PeerToldSame, ClassifiedOnce
  <2>3. QED
    BY <1>2, <2>1, <2>2, SessionKept DEF Accepted
<1>3. CASE AttemptWatch
  BY <1>3, SessionKept, EndingKept DEF AttemptWatch, TypeOK
<1>4. CASE AttemptFailed
  <2>1. TypeOK'
    BY <1>4 DEF AttemptFailed, TypeOK
  <2>2. Ending'
    BY <1>4 DEF AttemptFailed, Ending, Claimants, PeerToldSame, ClassifiedOnce
  <2>3. QED
    BY <1>4, <2>1, <2>2, SessionKept DEF AttemptFailed
<1>5. QED
  BY <1>1, <1>2, <1>3, <1>4

\* A call of CloseWithError that begins after the connection ended adopts that
\* end: its own code is not recorded, then or later.
LEMMA CloseBeginStep ==
  ASSUME IInv, NEW k \in Caller, CloseBegin(k)
  PROVE  IInv'
<1> USE DEF IInv, streamVars, attemptVars
<1>1. CASE ~ended
  <2>1. TypeOK'
    BY <1>1 DEF CloseBegin, TypeOK
  <2>2. Ending'
    BY <1>1 DEF CloseBegin, Ending, Claimants, PeerToldSame, ClassifiedOnce, TypeOK
  <2>3. QED
    BY <1>1, <2>1, <2>2, SessionKept DEF CloseBegin
<1>2. CASE ended
  <2> DEFINE c == closeInfoFromQUIC(rawCause)
  <2>1. rawCause \in RawError /\ c \in Cause /\ c # NoCause
    BY <1>2, RawCauseTyped, InfoTyped
  <2>2. finish(c) /\ call' = [call EXCEPT ![k] = "over"] /\ late' = late \cup {k}
    BY <1>2 DEF CloseBegin
  <2>3. info' = info \/ (info = NoCause /\ info' = c)
    BY <2>2 DEF finish, terminal
  <2>4. TypeOK'
    BY <2>1, <2>2, FinishTyped DEF CloseBegin, TypeOK
  <2>5. Session'
    BY <2>1, <2>2, FinishKeepsSession DEF CloseBegin
  <2>6. PeerToldSame' /\ ClassifiedOnce'
    BY <2>3 DEF CloseBegin, Ending, PeerToldSame, ClassifiedOnce
  <2>7. ASSUME NEW j \in Caller PROVE
           /\ call'[j] \in {"claimed", "sent"} => info' = LocalInfo(j)
           /\ call'[j] \in {"idle", "clear"} \/ j \in late'
                => info' # LocalInfo(j) /\ rawCause' # LocalError(j)
           /\ j \in late' => call'[j] = "over"
    <3>1. rawCause' = rawCause /\ call[k] = "idle"
      BY DEF CloseBegin
    <3>2. rawCause # LocalError(j) => c # LocalInfo(j)
      BY <2>1, InfoTellsCloser
    <3>3. LocalInfo(j) # NoCause
      BY LocalTyped
    <3>4. QED
      BY <2>2, <2>3, <3>1, <3>2, <3>3 DEF Ending, Claimants, TypeOK
  <2>8. QED
    BY <2>4, <2>5, <2>6, <2>7 DEF Ending, Claimants
<1>3. QED
  BY <1>1, <1>2

\* The rest of CloseWithError, and watch: the claim decides the cause, and
\* only the claimant sends its code.
LEMMA CloseStep ==
  ASSUME IInv, NEW k \in Caller, CloseClaim(k) \/ CloseRaw(k) \/ CloseFinish(k)
  PROVE  IInv'
<1> USE DEF IInv, streamVars, attemptVars, stateVars
<1>1. CASE CloseClaim(k)
  <2>1. TypeOK'
    BY <1>1, LocalTyped DEF CloseClaim, TypeOK
  <2>2. Session'
    BY <1>1, LocalTyped DEF CloseClaim, Session, HeldStreams, FinishOrder,
                            RegistryComplete, terminal
  <2>3. Ending'
    BY <1>1, LocalTyped, LocalInjective
    DEF CloseClaim, Ending, Claimants, PeerToldSame, ClassifiedOnce, TypeOK, terminal
  <2>4. QED
    BY <2>1, <2>2, <2>3
<1>2. CASE CloseRaw(k)
  <2>1. TypeOK'
    BY <1>2, LocalTyped DEF CloseRaw, TypeOK
  <2>2. Ending'
    BY <1>2, LocalInjective
    DEF CloseRaw, Ending, Claimants, PeerToldSame, ClassifiedOnce, TypeOK
  <2>3. QED
    BY <1>2, <2>1, <2>2, SessionKept DEF CloseRaw
<1>3. CASE CloseFinish(k)
  <2>1. info = LocalInfo(k) /\ info' = info
    BY <1>3, LocalTyped DEF CloseFinish, Ending, Claimants, finish, terminal
  <2>2. TypeOK'
    BY <1>3, LocalTyped, FinishTyped DEF CloseFinish, TypeOK
  <2>3. Session'
    BY <1>3, LocalTyped, FinishKeepsSession DEF CloseFinish
  <2>4. Ending'
    BY <1>3, <2>1 DEF CloseFinish, Ending, Claimants, PeerToldSame, ClassifiedOnce, TypeOK
  <2>5. QED
    BY <2>2, <2>3, <2>4
<1>4. QED
  BY <1>1, <1>2, <1>3

\* watch adopts the end of the connection unless somebody has claimed the
\* session, and Done is published.
LEMMA WatchStep ==
  ASSUME IInv, Watch \/ FinishEnd
  PROVE  IInv'
<1> USE DEF IInv, streamVars, attemptVars, stateVars
<1>1. CASE Watch
  <2> DEFINE c == closeInfoFromQUIC(rawCause)
  <2>1. rawCause \in RawError /\ c \in Cause /\ c # NoCause
    BY <1>1, RawCauseTyped, InfoTyped DEF Watch
  <2>2. finish(c)
    BY <1>1 DEF Watch
  <2>3. info' = info \/ (info = NoCause /\ info' = c)
    BY <2>2 DEF finish, terminal
  <2>4. TypeOK'
    BY <1>1, <2>1, <2>2, FinishTyped DEF Watch, TypeOK
  <2>5. Session'
    BY <1>1, <2>1, <2>2, FinishKeepsSession DEF Watch
  <2>6. \A j \in Caller : LocalInfo(j) # NoCause /\ (rawCause # LocalError(j) => c # LocalInfo(j))
    BY <2>1, LocalTyped, InfoTellsCloser
  <2>7. Ending'
    BY <1>1, <2>3, <2>6 DEF Watch, Ending, Claimants, PeerToldSame, ClassifiedOnce
  <2>8. QED
    BY <2>4, <2>5, <2>7
<1>2. CASE FinishEnd
  <2>1. Session'
    BY <1>2 DEF FinishEnd, Session, HeldStreams, FinishOrder, RegistryComplete, terminal
  <2>2. QED
    BY <1>2, <2>1, EndingKept DEF FinishEnd, TypeOK
<1>3. QED
  BY <1>1, <1>2

\* OpenStream and AcceptStream: a stream is registered only on a session that
\* is not terminal, so finish has not run.
LEMMA OpenStep ==
  ASSUME IInv, NEW st \in Stream, NEW accepted \in BOOLEAN,
         \/ OpenBegin(st) \/ RawStream(st, accepted) \/ OpenFailed(st)
         \/ registerQUICStream(st)
  PROVE  IInv'
<1>1. UNCHANGED <<call, late, info, rawCause, sent, attempt, observed>>
  BY DEF OpenBegin, RawStream, OpenFailed, registerQUICStream, attemptVars, stateVars
<1>2. TypeOK'
  BY DEF OpenBegin, RawStream, OpenFailed, registerQUICStream, attemptVars,
         stateVars, streamVars, IInv, TypeOK
<1>3. Session'
  <2> USE DEF IInv, TypeOK, Session, HeldStreams, FinishOrder, RegistryComplete,
              terminal, stateVars, streamVars
  <2>1. CASE OpenBegin(st) BY <2>1 DEF OpenBegin
  <2>2. CASE RawStream(st, accepted) BY <2>2 DEF RawStream
  <2>3. CASE OpenFailed(st) BY <2>3 DEF OpenFailed
  <2>4. CASE registerQUICStream(st) BY <2>4 DEF registerQUICStream
  <2>5. QED
    BY <2>1, <2>2, <2>3, <2>4
<1>4. QED
  BY <1>1, <1>2, <1>3, EndingKept DEF IInv

\* The steps of a stream, up to and through completeLocked.
LEMMA StreamStep ==
  ASSUME IInv, NEW st \in Stream,
         \/ CompleteEnd(st) \/ markReceiveTerminal(st) \/ WriteBegin(st)
         \/ WriteEnd(st) \/ CloseWrite(st) \/ Abort(st) \/ CloseStream(st)
         \/ CloseSend(st) \/ CloseReceive(st) \/ parentTerminated(st)
  PROVE  IInv'
<1> USE DEF maybeCompleteLocked, completeLocked, closeWriteLocked
<1>1. UNCHANGED <<call, late, info, rawCause, sent, attempt, observed>>
  BY DEF CompleteEnd, markReceiveTerminal, WriteBegin, WriteEnd, CloseWrite,
         Abort, CloseStream, CloseSend, CloseReceive, parentTerminated,
         attemptVars, stateVars
<1>2. TypeOK'
  <2> USE DEF IInv, TypeOK, attemptVars, stateVars
  <2>1. CASE CompleteEnd(st) BY <2>1 DEF CompleteEnd
  <2>2. CASE markReceiveTerminal(st) BY <2>2 DEF markReceiveTerminal
  <2>3. CASE WriteBegin(st) \/ WriteEnd(st) BY <2>3 DEF WriteBegin, WriteEnd
  <2>4. CASE CloseWrite(st) BY <2>4 DEF CloseWrite
  <2>5. CASE Abort(st) \/ parentTerminated(st) BY <2>5 DEF Abort, parentTerminated
  <2>6. CASE CloseStream(st) BY <2>6 DEF CloseStream
  <2>7. CASE CloseSend(st) BY <2>7 DEF CloseSend
  <2>8. CASE CloseReceive(st) BY <2>8 DEF CloseReceive
  <2>9. QED
    BY <2>1, <2>2, <2>3, <2>4, <2>5, <2>6, <2>7, <2>8
<1>3. Session'
  <2> USE DEF IInv, TypeOK, Session, HeldStreams, FinishOrder, RegistryComplete,
              terminal, stateVars, Unlocked
  <2>1. CASE CompleteEnd(st) BY <2>1 DEF CompleteEnd
  <2>2. CASE markReceiveTerminal(st) BY <2>2 DEF markReceiveTerminal
  <2>3. CASE WriteBegin(st) \/ WriteEnd(st)
    BY <2>3, SessionKept DEF WriteBegin, WriteEnd
  <2>4. CASE CloseWrite(st) BY <2>4 DEF CloseWrite
  <2>5. CASE Abort(st) \/ parentTerminated(st) BY <2>5 DEF Abort, parentTerminated
  <2>6. CASE CloseStream(st) BY <2>6 DEF CloseStream
  <2>7. CASE CloseSend(st) BY <2>7 DEF CloseSend
  <2>8. CASE CloseReceive(st) BY <2>8 DEF CloseReceive
  <2>9. QED
    BY <2>1, <2>2, <2>3, <2>4, <2>5, <2>6, <2>7, <2>8
<1>4. QED
  BY <1>1, <1>2, <1>3, EndingKept DEF IInv

\* Every step preserves IInv.
LEMMA NextIInv == IInv /\ [Next]_vars => IInv'
<1> SUFFICES ASSUME IInv, [Next]_vars PROVE IInv'
  OBVIOUS
<1>1. CASE UNCHANGED vars
  <2>1. TypeOK'
    BY <1>1 DEF vars, attemptVars, stateVars, streamVars, IInv, TypeOK
  <2>2. QED
    BY <1>1, <2>1, SessionKept, EndingKept
    DEF vars, attemptVars, stateVars, streamVars, IInv
<1>2. CASE Next
  BY <1>2, ConnectionStep, CloseBeginStep, CloseStep, WatchStep, OpenStep, StreamStep
  DEF Next
<1>3. QED
  BY <1>1, <1>2

\* IInv is an invariant of the adapter.
THEOREM IInvHolds == Spec => []IInv
<1>1. QED
  BY InitIInv, NextIInv, PTL DEF Spec

\* Every variable keeps its type.
THEOREM TypeCorrect == Spec => []TypeOK
<1>1. IInv => TypeOK
  BY DEF IInv
<1>2. QED
  BY <1>1, IInvHolds, PTL

\* One end, told once: whoever closes, whatever ends the connection and
\* whenever the attempt is classified, there is one cause, the peer is told
\* that one, and an end observable before a local close is not replaced.
THEOREM OneEndingHolds == Spec => []OneEnding
<1>1. IInv => OneEnding
  BY DEF IInv, TypeOK, Ending, Claimants, OneEnding, ObservedEndDecides
<1>2. QED
  BY <1>1, IInvHolds, PTL

-----------------------------------------------------------------------------
(* The adapter implements the contract                                     *)

\* The initial state of the adapter is one of the contract.
LEMMA InitRefines == Init => C!ContractInit
  BY DEF Init, C!ContractInit, StreamDone

\* A step that changes no cause, no stream's Done and no failed call, and does
\* not publish Done, is invisible to the contract.
LEMMA Invisible ==
  ASSUME info' = info, done' = done, held' = held,
         \A x \in Stream : pc'[x] = "failed" <=> pc[x] = "failed",
         \A x \in held : completing'[x] = "no" <=> completing[x] = "no"
  PROVE  UNCHANGED C!contractVars
  BY DEF C!contractVars, StreamDone

\* A step that only makes the call st fail is a Refuse.
LEMMA Refusing ==
  ASSUME IInv, NEW st \in Stream, pc[st] \notin {"open", "failed"},
         info' = info, done' = done, held' = held, completing' = completing,
         pc' = [pc EXCEPT ![st] = "failed"]
  PROVE  C!Refuse(st)
  BY DEF C!Refuse, StreamDone, IInv, TypeOK, Session, HeldStreams

\* A step that only decides the cause is a Terminate.
LEMMA Terminating ==
  ASSUME info = NoCause, info' \in Cause,
         done' = done, held' = held, completing' = completing, pc' = pc
  PROVE  C!Terminate
  BY DEF C!Terminate, StreamDone

\* A step that closes the Done channel of st alone is a Complete.
LEMMA Completing ==
  ASSUME IInv, NEW st \in held, completing[st] = "no",
         completing' = [completing EXCEPT ![st] = "done"],
         info' = info, done' = done, held' = held, pc' = pc
  PROVE  C!Complete(st)
  BY DEF C!Complete, StreamDone, IInv, TypeOK, Session, HeldStreams

\* finish records the cause of a session nobody has claimed.
LEMMA FinishTerminates ==
  ASSUME NEW c \in Cause, finish(c), UNCHANGED <<done, held, completing, pc>>
  PROVE  C!Terminate \/ UNCHANGED C!contractVars
<1>1. CASE info' = info
  BY <1>1, Invisible
<1>2. CASE info' # info
  BY <1>2, Terminating DEF finish, terminal
<1>3. QED
  BY <1>1, <1>2

\* The connection, its attempt and watch.
LEMMA ConnectionRefines ==
  ASSUME IInv,
         \/ \E e \in RemoteError : RawEnd(e)
         \/ Accepted \/ AttemptWatch \/ AttemptFailed \/ Watch
  PROVE  C!Terminate \/ UNCHANGED C!contractVars
<1> USE DEF stateVars, streamVars
<1>1. CASE Watch
  BY <1>1, RawCauseTyped, InfoTyped, FinishTerminates DEF Watch, IInv
<1>2. CASE ~Watch
  BY <1>2, Invisible DEF RawEnd, Accepted, AttemptWatch, AttemptFailed
<1>3. QED
  BY <1>1, <1>2

\* The calls that close the session.
LEMMA CloseRefines ==
  ASSUME IInv, NEW k \in Caller,
         CloseBegin(k) \/ CloseClaim(k) \/ CloseRaw(k) \/ CloseFinish(k)
  PROVE  C!Terminate \/ UNCHANGED C!contractVars
<1> USE DEF stateVars, streamVars
<1>1. CASE CloseRaw(k)
  BY <1>1, Invisible DEF CloseRaw
<1>2. CASE CloseBegin(k)
  <2>1. CASE ended
    BY <1>2, <2>1, RawCauseTyped, InfoTyped, FinishTerminates DEF CloseBegin, IInv
  <2>2. CASE ~ended
    BY <1>2, <2>2, Invisible DEF CloseBegin
  <2>3. QED
    BY <2>1, <2>2
<1>3. CASE CloseClaim(k)
  BY <1>3, LocalTyped, Terminating, Invisible DEF CloseClaim, terminal
<1>4. CASE CloseFinish(k)
  BY <1>4, LocalTyped, FinishTerminates DEF CloseFinish
<1>5. QED
  BY <1>1, <1>2, <1>3, <1>4

\* Done is published over an empty child tree.
LEMMA FinishEndRefines ==
  ASSUME IInv, FinishEnd
  PROVE  C!Publish
<1>1. info # NoCause /\ ~done /\ done' = TRUE
  BY DEF FinishEnd, IInv, Session, FinishOrder, terminal
<1>2. {st \in held : ~StreamDone(st)} = {}
  BY DEF FinishEnd, IInv, Session, FinishOrder, RegistryComplete, StreamDone, TypeOK
<1>3. info' = info /\ held' = held /\ completing' = completing /\ pc' = pc
  BY DEF FinishEnd, streamVars
<1>4. QED
  BY <1>1, <1>2, <1>3 DEF C!Publish, StreamDone

\* OpenStream and AcceptStream hand a stream out only on an open session.
LEMMA OpenRefines ==
  ASSUME IInv, NEW st \in Stream, NEW accepted \in BOOLEAN,
         \/ OpenBegin(st) \/ RawStream(st, accepted) \/ OpenFailed(st)
         \/ registerQUICStream(st)
  PROVE  C!HandOut(st) \/ C!Refuse(st) \/ UNCHANGED C!contractVars
<1> USE DEF stateVars, streamVars
<1>1. CASE OpenBegin(st) \/ RawStream(st, accepted)
  <2>1. \A x \in Stream : pc'[x] = "failed" <=> pc[x] = "failed"
    BY <1>1 DEF OpenBegin, RawStream, IInv, TypeOK
  <2>2. QED
    BY <1>1, <2>1, Invisible DEF OpenBegin, RawStream
<1>2. CASE OpenFailed(st)
  BY <1>2, Refusing DEF OpenFailed
<1>3. CASE registerQUICStream(st) /\ terminal
  BY <1>3, Refusing DEF registerQUICStream
<1>4. CASE registerQUICStream(st) /\ ~terminal
  BY <1>4 DEF registerQUICStream, C!HandOut, StreamDone, IInv, TypeOK, Session,
              HeldStreams, terminal
<1>5. QED
  BY <1>1, <1>2, <1>3, <1>4

\* A stream completes when completeLocked closes its Done channel.
LEMMA StreamRefines ==
  ASSUME IInv, NEW st \in Stream,
         \/ CompleteEnd(st) \/ markReceiveTerminal(st) \/ WriteBegin(st)
         \/ WriteEnd(st) \/ CloseWrite(st) \/ Abort(st) \/ CloseStream(st)
         \/ CloseSend(st) \/ CloseReceive(st) \/ parentTerminated(st)
  PROVE  C!Complete(st) \/ UNCHANGED C!contractVars
<1>1. UNCHANGED <<info, done, held, pc>>
  BY DEF CompleteEnd, markReceiveTerminal, WriteBegin, WriteEnd, CloseWrite,
         Abort, CloseStream, CloseSend, CloseReceive, parentTerminated, stateVars
<1>2. CASE completing' = completing
  BY <1>1, <1>2, Invisible
<1>3. CASE CompleteEnd(st)
  <2>1. \A x \in held : completing'[x] = "no" <=> completing[x] = "no"
    BY <1>3 DEF CompleteEnd, IInv, TypeOK
  <2>2. QED
    BY <1>1, <2>1, Invisible
<1>4. CASE ~CompleteEnd(st) /\ completing' # completing
  <2>1. /\ st \in held /\ completing[st] = "no"
        /\ completing' = [completing EXCEPT ![st] = "done"]
    BY <1>4 DEF markReceiveTerminal, WriteBegin, WriteEnd, CloseWrite, Abort,
                CloseStream, CloseSend, CloseReceive, parentTerminated,
                maybeCompleteLocked, completeLocked, closeWriteLocked,
                IInv, TypeOK, Session, HeldStreams
  <2>2. QED
    BY <1>1, <2>1, Completing
<1>5. QED
  BY <1>2, <1>3, <1>4

\* Every step of the adapter is a step of the contract or a stutter.
LEMMA NextRefines == IInv /\ [Next]_vars => [C!ContractNext]_(C!contractVars)
<1> SUFFICES ASSUME IInv, [Next]_vars
             PROVE  C!ContractNext \/ UNCHANGED C!contractVars
  OBVIOUS
<1> USE DEF C!ContractNext
<1>1. CASE UNCHANGED vars
  BY <1>1 DEF vars, attemptVars, stateVars, streamVars, C!contractVars, StreamDone
<1>2. CASE Next
  BY <1>2, ConnectionRefines, CloseRefines, FinishEndRefines, OpenRefines,
     StreamRefines
  DEF Next
<1>3. QED
  BY <1>1, <1>2

\* The QUIC adapter implements the session contract the edge relies on: the
\* first terminal event is final, no stream is handed out after it, and
\* Session.Done covers the Done of every stream.
THEOREM ImplementsContractHolds == Spec => ImplementsContract
<1>1. QED
  BY InitRefines, NextRefines, IInvHolds, PTL
  DEF Spec, ImplementsContract, C!Contract
=============================================================================
