----------------------------- MODULE YamuxSession -----------------------------
(***************************************************************************)
(* The yamux adapter of a tunnel session (internal/tunnel/yamux.go) with   *)
(* the sessionState it shares with QUIC (internal/tunnel/session.go).      *)
(*                                                                         *)
(* Opening a stream takes a slot of the session's open gate, runs          *)
(* raw.OpenStream in a goroutine of its own, and registers the stream with *)
(* the session unless that has become terminal.  A stream completes once:  *)
(* after both directions ended, when the close timer fires, or when the    *)
(* session finishes.  The yamux library itself is external: it opens or    *)
(* refuses a raw stream, delivers a remote end of stream, and closes.      *)
(***************************************************************************)
EXTENDS Integers, FiniteSets

CONSTANTS
    Stream,         \* one call of OpenStream or AcceptStream each
    GateLimit,      \* capacity of the open gate (yamuxStreamLimit)
    Cause,          \* CloseInfo values callers and observers claim with
    Fallback,       \* the CloseInfo finish uses when nobody claimed
    Canceled,       \* the CloseInfo an abandoned OpenStream claims with
    NoCause         \* info before the first terminal event

ASSUME GateAssumption == GateLimit \in Nat \ {0}
ASSUME CausesAssumption ==
    /\ NoCause \notin Cause
    /\ Fallback \in Cause /\ Canceled \in Cause
ASSUME FiniteStreams == IsFiniteSet(Stream)

VARIABLES
    info,           \* sessionState.info; terminal is info # NoCause
    finished,       \* sessionState.finished
    children,       \* sessionState.children
    ending,         \* children that finish still has to terminate
    done,           \* sessionState.done is closed
    rawClosed,      \* raw.CloseChan() is closed
    gate,           \* occupied slots of the open gate
    pc,             \* where each OpenStream / AcceptStream call is
    result,         \* what raw.OpenStream sent on resultCh
    held,           \* streams that were registered and returned
    localClosed,    \* yamuxStream.localClosed
    remoteDone,     \* yamuxStream.remoteDone
    timer,          \* the close timer is armed
    completing      \* how far complete() is

vars == <<info, finished, children, ending, done, rawClosed, gate, pc, result,
          held, localClosed, remoteDone, timer, completing>>

terminal == info # NoCause

\* YamuxSession.IsClosed
IsClosed == terminal \/ rawClosed

Init ==
    /\ info = NoCause /\ finished = FALSE
    /\ children = {} /\ ending = {} /\ done = FALSE /\ rawClosed = FALSE
    /\ gate = 0
    /\ pc = [st \in Stream |-> "idle"]
    /\ result = [st \in Stream |-> "none"]
    /\ held = {}
    /\ localClosed = {} /\ remoteDone = {} /\ timer = {}
    /\ completing = [st \in Stream |-> "no"]

streamVars == <<held, localClosed, remoteDone, timer, completing>>
stateVars == <<info, finished, children, ending, done>>

-----------------------------------------------------------------------------
(* sessionState                                                            *)

\* The first claim decides; a later one is refused.
claim(c) == info' = IF terminal THEN info ELSE c

\* CloseWithError's first step, a connection error seen by observedConn, or
\* yamux's own report of a stream that was never acknowledged.
Claim(c) ==
    /\ claim(c)
    /\ UNCHANGED <<finished, children, ending, done, rawClosed, gate, pc,
                   result, streamVars>>

\* The raw session closes: raw.Close() of a caller, or yamux by itself.
RawClose ==
    /\ ~rawClosed
    /\ rawClosed' = TRUE
    /\ UNCHANGED <<stateVars, gate, pc, result, streamVars>>

\* finish, first part, under state.mu: only the first caller gets here.  Its
\* callers (CloseWithError, watch, an abandoned open) have seen raw closed.
finish(c) ==
    /\ info' = IF terminal THEN info ELSE c
    /\ finished' = TRUE
    /\ ending' = children
    /\ children' = {}

FinishBegin ==
    /\ rawClosed /\ ~finished
    /\ finish(Fallback)
    /\ UNCHANGED <<done, rawClosed, gate, pc, result, streamVars>>

\* finish, last part: every child's parentTerminated has returned.
FinishEnd ==
    /\ finished /\ ~done
    /\ \A st \in ending : completing[st] = "over"
    /\ done' = TRUE
    /\ UNCHANGED <<info, finished, children, ending, rawClosed, gate, pc,
                   result, streamVars>>

-----------------------------------------------------------------------------
(* OpenStream                                                              *)

OpenBegin(st) ==
    /\ pc[st] = "idle"
    /\ pc' = [pc EXCEPT ![st] = IF IsClosed THEN "failed" ELSE "gate"]
    /\ UNCHANGED <<stateVars, rawClosed, gate, result, streamVars>>

\* A slot of the gate, and the goroutine that calls raw.OpenStream.
TakeSlot(st) ==
    /\ pc[st] = "gate" /\ gate < GateLimit
    /\ gate' = gate + 1
    /\ pc' = [pc EXCEPT ![st] = "opening"]
    /\ UNCHANGED <<stateVars, rawClosed, result, streamVars>>

\* No slot before the caller's context or the 10 s budget ends, or before the
\* session is done.
GiveUpSlot(st) ==
    /\ pc[st] = "gate"
    /\ pc' = [pc EXCEPT ![st] = "failed"]
    /\ UNCHANGED <<stateVars, rawClosed, gate, result, streamVars>>

\* The library answers; a closed raw session refuses.
RawOpen(st, res) ==
    /\ pc[st] \in {"opening", "abandoned"} /\ result[st] = "none"
    /\ rawClosed => res = "error"
    /\ result' = [result EXCEPT ![st] = res]
    /\ UNCHANGED <<stateVars, rawClosed, gate, pc, streamVars>>

\* The raw open failed.
OpenFailed(st) ==
    /\ pc[st] = "opening" /\ result[st] = "error"
    /\ gate' = gate - 1
    /\ pc' = [pc EXCEPT ![st] = "failed"]
    /\ UNCHANGED <<stateVars, rawClosed, result, streamVars>>

\* The session is Done while the raw open was in flight: the raw stream, if
\* any, is closed.
OpenSessionDone(st) ==
    /\ pc[st] = "opening" /\ result[st] # "none" /\ done
    /\ gate' = gate - 1
    /\ pc' = [pc EXCEPT ![st] = "failed"]
    /\ UNCHANGED <<stateVars, rawClosed, result, streamVars>>

\* Mutant: a stream is registered although the session is terminal.
OpenRegister_Unchecked(st) ==
    /\ pc[st] = "opening" /\ result[st] = "stream"
    /\ children' = children \cup {st}
    /\ held' = held \cup {st}
    /\ pc' = [pc EXCEPT ![st] = "open"]
    /\ UNCHANGED <<info, finished, ending, done, rawClosed, gate, result,
                   localClosed, remoteDone, timer, completing>>

\* registerYamuxStream, and the stream is returned.
OpenRegister(st) ==
    /\ pc[st] = "opening" /\ result[st] = "stream" /\ ~terminal
    /\ children' = children \cup {st}
    /\ held' = held \cup {st}
    /\ pc' = [pc EXCEPT ![st] = "open"]
    /\ UNCHANGED <<info, finished, ending, done, rawClosed, gate, result,
                   localClosed, remoteDone, timer, completing>>

\* Registration refused: the stream is aborted and completed before anybody
\* has seen it, which returns its slot.
OpenRefused(st) ==
    /\ pc[st] = "opening" /\ result[st] = "stream" /\ terminal
    /\ gate' = gate - 1
    /\ pc' = [pc EXCEPT ![st] = "failed"]
    /\ UNCHANGED <<stateVars, rawClosed, result, streamVars>>

\* The caller's context or the budget ends while the raw open is in flight:
\* yamux cannot cancel one open, so the whole session is closed.
OpenAbandon(st) ==
    /\ pc[st] = "opening"
    /\ claim(Canceled)
    /\ rawClosed' = TRUE
    /\ pc' = [pc EXCEPT ![st] = "abandoned"]
    /\ UNCHANGED <<finished, children, ending, done, gate, result, streamVars>>

\* ... it waits for the raw result, returns the slot and finishes the session.
OpenAbandoned(st) ==
    /\ pc[st] = "abandoned" /\ result[st] # "none"
    /\ gate' = gate - 1
    /\ pc' = [pc EXCEPT ![st] = "failed"]
    /\ IF finished THEN UNCHANGED <<info, finished, children, ending>>
                   ELSE finish(Canceled)
    /\ UNCHANGED <<done, rawClosed, result, streamVars>>

\* AcceptStream: the library hands over a stream the peer opened, which one that
\* shuts down may still do ...
Accept(st) ==
    /\ pc[st] = "idle"
    /\ pc' = [pc EXCEPT ![st] = "accepting"]
    /\ UNCHANGED <<stateVars, rawClosed, gate, result, streamVars>>

\* ... and it is registered; it holds no slot of the gate.
AcceptRegister(st) ==
    /\ pc[st] = "accepting" /\ ~terminal
    /\ children' = children \cup {st}
    /\ held' = held \cup {st}
    /\ pc' = [pc EXCEPT ![st] = "accepted"]
    /\ UNCHANGED <<info, finished, ending, done, rawClosed, gate, result,
                   localClosed, remoteDone, timer, completing>>

\* ... or refused, aborted and completed before anybody has seen it.
AcceptRefused(st) ==
    /\ pc[st] = "accepting" /\ terminal
    /\ pc' = [pc EXCEPT ![st] = "failed"]
    /\ UNCHANGED <<stateVars, rawClosed, gate, result, streamVars>>

-----------------------------------------------------------------------------
(* Streams                                                                 *)

\* CloseWrite, Close or Abort: markLocalClosed.
CloseLocal(st) ==
    /\ st \in held \ localClosed
    /\ localClosed' = localClosed \cup {st}
    /\ timer' = IF completing[st] = "no" /\ st \notin remoteDone
                THEN timer \cup {st} ELSE timer
    /\ UNCHANGED <<stateVars, rawClosed, gate, pc, result, held, remoteDone,
                   completing>>

\* A Read, the application's or drainReceive's, meets the remote end: FIN or
\* reset.
RemoteEnd(st) ==
    /\ st \in held \ remoteDone
    /\ remoteDone' = remoteDone \cup {st}
    /\ UNCHANGED <<stateVars, rawClosed, gate, pc, result, held, localClosed,
                   timer, completing>>

\* Mutant: a terminated parent waits for the stream's own end.
CompleteBegin_NoParent(st) ==
    /\ completing[st] = "no"
    /\ st \in localClosed \cap remoteDone \/ st \in timer
    /\ completing' = [completing EXCEPT ![st] = "slot"]
    /\ timer' = timer \ {st}
    /\ gate' = IF pc[st] = "open" THEN gate - 1 ELSE gate
    /\ UNCHANGED <<stateVars, rawClosed, pc, result, held, localClosed,
                   remoteDone>>

\* complete(), guarded by doneOnce: both directions ended, the timer fired, or
\* parentTerminated from finish.  It first returns the slot.
CompleteBegin(st) ==
    /\ completing[st] = "no"
    /\ \/ st \in localClosed \cap remoteDone
       \/ st \in timer
       \/ st \in ending
    /\ completing' = [completing EXCEPT ![st] = "slot"]
    /\ timer' = timer \ {st}
    /\ gate' = IF pc[st] = "open" THEN gate - 1 ELSE gate
    /\ UNCHANGED <<stateVars, rawClosed, pc, result, held, localClosed,
                   remoteDone>>

\* Mutant: the child leaves the registry before its Done channel is closed.
CompleteDone_UnregisterFirst(st) ==
    /\ completing[st] = "slot" /\ st \in children
    /\ children' = children \ {st}
    /\ UNCHANGED <<info, finished, ending, done, rawClosed, gate, pc, result,
                   held, localClosed, remoteDone, timer, completing>>

\* childDone: close(done) ...
CompleteDone(st) ==
    /\ completing[st] = "slot"
    /\ completing' = [completing EXCEPT ![st] = "done"]
    /\ UNCHANGED <<stateVars, rawClosed, gate, pc, result, held, localClosed,
                   remoteDone, timer>>

\* ... then unregister.
CompleteEnd(st) ==
    /\ completing[st] = "done"
    /\ completing' = [completing EXCEPT ![st] = "over"]
    /\ children' = children \ {st}
    /\ UNCHANGED <<info, finished, ending, done, rawClosed, gate, pc, result,
                   held, localClosed, remoteDone, timer>>

-----------------------------------------------------------------------------
\* A goroutine of the adapter that is runnable keeps running.
Progress ==
    \/ FinishBegin \/ FinishEnd
    \/ \E st \in Stream :
         \/ OpenFailed(st) \/ OpenSessionDone(st)
         \/ OpenRegister(st) \/ OpenRefused(st) \/ OpenAbandoned(st)
         \/ AcceptRegister(st) \/ AcceptRefused(st)
         \/ CompleteBegin(st) \/ CompleteDone(st) \/ CompleteEnd(st)

\* Callers, the peer and the yamux library.
Environment ==
    \/ \E c \in Cause \ {Fallback, Canceled} : Claim(c)
    \/ RawClose
    \/ \E st \in Stream :
         \/ OpenBegin(st) \/ TakeSlot(st) \/ GiveUpSlot(st) \/ OpenAbandon(st)
         \/ \E res \in {"stream", "error"} : RawOpen(st, res)
         \/ Accept(st) \/ CloseLocal(st) \/ RemoteEnd(st)

Next == Progress \/ Environment

Spec == Init /\ [][Next]_vars

\* Runnable goroutines run; a terminal session's raw session closes (each
\* claim is followed by raw.Close, or comes from yamux tearing down); a raw
\* open answers (yamux's own 10 s establishment timeout).
Fairness ==
    /\ WF_vars(FinishBegin) /\ WF_vars(FinishEnd)
    /\ WF_vars(terminal /\ RawClose)
    /\ \A st \in Stream :
         /\ WF_vars(\E res \in {"stream", "error"} : RawOpen(st, res))
         /\ WF_vars(OpenFailed(st) \/ OpenSessionDone(st) \/ OpenRegister(st)
                    \/ OpenRefused(st) \/ OpenAbandoned(st)
                    \/ AcceptRegister(st) \/ AcceptRefused(st))
         /\ WF_vars(CompleteBegin(st) \/ CompleteDone(st) \/ CompleteEnd(st))

FairSpec == Spec /\ Fairness

-----------------------------------------------------------------------------
(* Properties                                                              *)

\* Every variable has its type.
TypeOK ==
    /\ info \in Cause \cup {NoCause}
    /\ finished \in BOOLEAN /\ done \in BOOLEAN /\ rawClosed \in BOOLEAN
    /\ children \subseteq Stream /\ ending \subseteq Stream
    /\ gate \in 0..GateLimit
    /\ pc \in [Stream -> {"idle", "gate", "opening", "abandoned", "open",
                          "accepting", "accepted", "failed"}]
    /\ result \in [Stream -> {"none", "stream", "error"}]
    /\ held \subseteq Stream /\ localClosed \subseteq Stream
    /\ remoteDone \subseteq Stream /\ timer \subseteq Stream
    /\ completing \in [Stream -> {"no", "slot", "done", "over"}]

\* A stream's Done channel is closed.
StreamDone(st) == completing[st] \in {"done", "over"}

\* Calls and streams that own a slot of the open gate.
SlotOwners == {st \in Stream : \/ pc[st] \in {"opening", "abandoned"}
                               \/ pc[st] = "open" /\ completing[st] = "no"}

\* The open gate counts exactly its owners: every path out of OpenStream and
\* every way a stream ends returns one slot, once (releaseOpenSlot panics on a
\* slot nobody owns).
GateBalanced == gate = Cardinality(SlotOwners)

\* Once Session.Done is observable, so is the Done of every stream the session
\* ever handed out, in every interleaving of complete with finish.
DoneCoversStreams == done => \A st \in held : StreamDone(st)

\* The registry holds every stream that is not Done and that finish has not
\* taken over, so finish misses none.
RegistryComplete ==
    \A st \in held : ~StreamDone(st) => st \in children \cup ending

\* The adapter implements the session contract.
C == INSTANCE TunnelContract WITH
        live  <- {st \in held : ~StreamDone(st)},
        spent <- {st \in held : StreamDone(st)} \cup {st \in Stream : pc[st] = "failed"}

ImplementsContract == C!Contract

\* A terminal session becomes Done: no waiting child, caller or raw open keeps
\* it from publishing.
TerminalBecomesDone == terminal ~> done

\* A stream closed on this side completes even if the peer never ends its
\* side, so its slot and the leases that wait for its Done come back.
ClosedStreamCompletes ==
    \A st \in Stream : (st \in localClosed) ~> StreamDone(st)

\* The gate, the registry and the two levels of Done agree at every moment.
SessionSound == TypeOK /\ GateBalanced /\ DoneCoversStreams /\ RegistryComplete

\* What ends becomes Done: the session, and a stream closed on this side.
EndsComplete == TerminalBecomesDone /\ ClosedStreamCompletes
=============================================================================
