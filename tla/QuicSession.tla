----------------------------- MODULE QuicSession -----------------------------
(***************************************************************************)
(* The QUIC adapter of a tunnel session (internal/tunnel/quic.go and       *)
(* quic_stream.go) with the sessionState it shares with yamux              *)
(* (internal/tunnel/session.go), from the connection attempt the listener  *)
(* classifies to the publication of Session.Done.                          *)
(*                                                                         *)
(* A stream has a send and a receive side under terminalMu, and completes  *)
(* when both have ended.  writeMu keeps raw.Close apart from raw.Write;    *)
(* Abort does not take it.  Several callers may close the session at once, *)
(* while the peer or the network ends the connection.  The quic-go library *)
(* is external: it opens raw streams, ends the connection's context once   *)
(* with a cause, and wakes a blocked Write when its deadline passes, when  *)
(* the write side is cancelled or when the connection ends.                *)
(***************************************************************************)
EXTENDS Integers, FiniteSets

CONSTANTS
    Stream,         \* one call of OpenStream or AcceptStream each
    Caller,         \* calls of CloseWithError, each with a code of its own
    RemoteError,    \* errors that may end the connection from outside
    NoCode,         \* a CloseInfo without a code
    NoCause         \* no error yet, or no CloseInfo yet

\* quic-go's errors, as the record of what the code looks at.
Kind == {"application", "idle", "stateless reset", "path", "transport",
         "version", "net", "other"}
Error == [kind : Kind, code : Caller \cup {NoCode}, remote : BOOLEAN]

\* closeInfoFromQUIC
closeInfoFromQUIC(e) ==
    [code   |-> IF e.kind = "application" THEN e.code ELSE NoCode,
     remote |-> e.remote /\ e.kind \in {"application", "transport", "path"},
     reason |-> CASE e.kind = "application" -> "application"
                  [] e.kind = "idle" -> "idle"
                  [] e.kind \in {"stateless reset", "path", "net"} -> "network"
                  [] e.kind \in {"transport", "version"} -> "protocol"
                  [] e.kind = "other" -> "other"]

\* What raw.CloseWithError ends the local context with, and what the caller
\* claims the session with.
LocalError(k) == [kind |-> "application", code |-> k, remote |-> FALSE]
LocalInfo(k) == closeInfoFromQUIC(LocalError(k))

Cause == {closeInfoFromQUIC(e) : e \in RemoteError}
           \cup {LocalInfo(k) : k \in Caller}

ASSUME ErrorsAssumption ==
    /\ RemoteError \subseteq Error
    /\ \A e \in RemoteError : e.remote \/ e.kind \notin {"application"}
    /\ NoCode \notin Caller
    /\ NoCause \notin Error \cup Cause

VARIABLES
    attempt,        \* quicAttempt: open, accepted or failed
    watching,       \* quicAttempt.watch has seen the context end
    observed,       \* failed attempts reported to observe
    rawCause,       \* context.Cause of the raw connection
    sent,           \* the CONNECTION_CLOSE this end has sent
    info,           \* sessionState.info; terminal is info # NoCause
    finished,       \* sessionState.finished
    children,       \* sessionState.children
    ending,         \* children that finish still has to terminate
    done,           \* sessionState.done is closed
    call,           \* where each CloseWithError is
    late,           \* history: the calls that began after the connection ended
    pc,             \* where each OpenStream / AcceptStream call is
    held,           \* streams that were registered and returned
    send,           \* quicStream.send
    receive,        \* streams whose receive side is terminal
    writing,        \* streams with a Write in raw.Write, which holds writeMu
    closing,        \* where Close of each stream is
    completing      \* how far completeLocked is; "done" holds terminalMu

attemptVars == <<attempt, watching, observed>>
stateVars == <<info, finished, children, ending, done>>
streamVars == <<held, send, receive, writing, closing, completing>>
vars == <<attemptVars, rawCause, sent, late, stateVars, call, pc, streamVars>>

terminal == info # NoCause
ended == rawCause # NoCause

Init ==
    /\ attempt = "open" /\ watching = FALSE /\ observed = FALSE
    /\ rawCause = NoCause /\ sent = NoCause /\ late = {}
    /\ info = NoCause /\ finished = FALSE
    /\ children = {} /\ ending = {} /\ done = FALSE
    /\ call = [k \in Caller |-> "idle"]
    /\ pc = [st \in Stream |-> "idle"]
    /\ held = {}
    /\ send = [st \in Stream |-> "open"]
    /\ receive = {} /\ writing = {}
    /\ closing = [st \in Stream |-> "no"]
    /\ completing = [st \in Stream |-> "no"]

-----------------------------------------------------------------------------
(* The connection, and the attempt the listener makes of it                *)

\* The peer, the network or a timeout ends the connection.
RawEnd(e) ==
    /\ ~ended
    /\ rawCause' = e
    /\ UNCHANGED <<attemptVars, sent, late, stateVars, call, pc, streamVars>>

\* Listener.Accept: markAccepted, and the session; or the connection that
\* watch has classified already is closed and passed over.
Accepted ==
    /\ attempt = "open"
    /\ attempt' = "accepted"
    /\ UNCHANGED <<watching, observed, rawCause, sent, late, stateVars, call,
                   pc, streamVars>>

\* quicAttempt.watch wakes up ...
AttemptWatch ==
    /\ attempt = "open" /\ ended /\ ~watching
    /\ watching' = TRUE
    /\ UNCHANGED <<attempt, observed, rawCause, sent, late, stateVars, call,
                   pc, streamVars>>

\* ... and, unless Accept came first, classifies the attempt as failed.  (A
\* cancelled context and a closed server are not reported; neither is a cause
\* here.)
AttemptFailed ==
    /\ watching
    /\ watching' = FALSE
    /\ IF attempt = "open" THEN attempt' = "failed" /\ observed' = TRUE
                           ELSE UNCHANGED <<attempt, observed>>
    /\ UNCHANGED <<rawCause, sent, late, stateVars, call, pc, streamVars>>

Live == attempt = "accepted"

-----------------------------------------------------------------------------
(* CloseWithError, watch and finish                                        *)

\* finish, first part, under state.mu; only the first caller does anything.
finish(c) ==
    IF finished THEN UNCHANGED <<info, finished, children, ending>>
    ELSE /\ info' = IF terminal THEN info ELSE c
         /\ finished' = TRUE
         /\ ending' = children
         /\ children' = {}

\* An end of the raw connection that is already observable is preserved.
CloseBegin(k) ==
    /\ Live /\ call[k] = "idle"
    /\ late' = IF ended THEN late \cup {k} ELSE late
    /\ IF ended
         THEN /\ finish(closeInfoFromQUIC(rawCause))
              /\ call' = [call EXCEPT ![k] = "over"]
         ELSE /\ call' = [call EXCEPT ![k] = "clear"]
              /\ UNCHANGED <<info, finished, children, ending>>
    /\ UNCHANGED <<attemptVars, rawCause, sent, done, pc, streamVars>>

\* Mutant: a caller that loses the claim closes the connection all the same.
CloseClaim_LoserSends(k) ==
    /\ call[k] = "clear"
    /\ info' = IF terminal THEN info ELSE LocalInfo(k)
    /\ call' = [call EXCEPT ![k] = "claimed"]
    /\ UNCHANGED <<attemptVars, rawCause, sent, late, finished, children,
                   ending, done, pc, streamVars>>

\* claim: only the first terminal claimant goes on.
CloseClaim(k) ==
    /\ call[k] = "clear"
    /\ IF terminal
         THEN call' = [call EXCEPT ![k] = "over"] /\ UNCHANGED info
         ELSE /\ info' = LocalInfo(k)
              /\ call' = [call EXCEPT ![k] = "claimed"]
    /\ UNCHANGED <<attemptVars, rawCause, sent, late, finished, children,
                   ending, done, pc, streamVars>>

\* raw.CloseWithError sends CONNECTION_CLOSE, unless the connection has ended
\* in the meantime.
CloseRaw(k) ==
    /\ call[k] = "claimed"
    /\ call' = [call EXCEPT ![k] = "sent"]
    /\ IF ended THEN UNCHANGED <<rawCause, sent>>
       ELSE rawCause' = LocalError(k) /\ sent' = LocalInfo(k)
    /\ UNCHANGED <<attemptVars, late, stateVars, pc, streamVars>>

CloseFinish(k) ==
    /\ call[k] = "sent"
    /\ finish(LocalInfo(k))
    /\ call' = [call EXCEPT ![k] = "over"]
    /\ UNCHANGED <<attemptVars, rawCause, sent, late, done, pc, streamVars>>

\* watch sees the context end.
Watch ==
    /\ Live /\ ended /\ ~finished
    /\ finish(closeInfoFromQUIC(rawCause))
    /\ UNCHANGED <<attemptVars, rawCause, sent, late, done, call, pc,
                   streamVars>>

\* finish, last part: every child's parentTerminated has returned.
FinishEnd ==
    /\ finished /\ ~done
    /\ \A st \in ending : completing[st] = "over"
    /\ done' = TRUE
    /\ UNCHANGED <<attemptVars, rawCause, sent, late, info, finished, children,
                   ending, call, pc, streamVars>>

-----------------------------------------------------------------------------
(* OpenStream and AcceptStream                                             *)

OpenBegin(st) ==
    /\ Live /\ pc[st] = "idle"
    /\ pc' = [pc EXCEPT ![st] = "opening"]
    /\ UNCHANGED <<attemptVars, rawCause, sent, late, stateVars, call,
                   streamVars>>

\* OpenStreamSync, or AcceptStream, returns a raw stream ...
RawStream(st, accepted) ==
    /\ Live /\ ~ended
    /\ pc[st] = (IF accepted THEN "idle" ELSE "opening")
    /\ pc' = [pc EXCEPT ![st] = "raw"]
    /\ UNCHANGED <<attemptVars, rawCause, sent, late, stateVars, call,
                   streamVars>>

\* ... or fails: the context, the 5 s budget or the connection ended.  The raw
\* stream an expired open got is cancelled in both directions.
OpenFailed(st) ==
    /\ pc[st] \in {"opening", "raw"}
    /\ pc' = [pc EXCEPT ![st] = "failed"]
    /\ UNCHANGED <<attemptVars, rawCause, sent, late, stateVars, call,
                   streamVars>>

\* Mutant: the registry takes a stream although the session is terminal.
registerQUICStream_Unchecked(st) ==
    /\ pc[st] = "raw"
    /\ pc' = [pc EXCEPT ![st] = "open"]
    /\ held' = held \cup {st}
    /\ children' = children \cup {st}
    /\ UNCHANGED <<attemptVars, rawCause, sent, late, info, finished, ending,
                   done, call, send, receive, writing, closing, completing>>

\* registerQUICStream; a refused stream is aborted before anybody saw it.
registerQUICStream(st) ==
    /\ pc[st] = "raw"
    /\ IF terminal
         THEN /\ pc' = [pc EXCEPT ![st] = "failed"]
              /\ UNCHANGED <<held, children>>
         ELSE /\ pc' = [pc EXCEPT ![st] = "open"]
              /\ held' = held \cup {st}
              /\ children' = children \cup {st}
    /\ UNCHANGED <<attemptVars, rawCause, sent, late, info, finished, ending,
                   done, call, send, receive, writing, closing, completing>>

-----------------------------------------------------------------------------
(* Streams.  (On a stream that is Done, Abort and Close change nothing that *)
(* anybody looks at: they are left out.)                                    *)

\* terminalMu is free: nobody is between closing a stream's Done channel and
\* taking it out of the registry.
Unlocked(st) == completing[st] # "done"

\* completeLocked, guarded by doneOnce: close(done) first.
completeLocked(st) ==
    completing' = IF completing[st] = "no"
                  THEN [completing EXCEPT ![st] = "done"] ELSE completing

\* maybeCompleteLocked, on what the step has made of the two sides.
maybeCompleteLocked(st) ==
    IF send'[st] # "open" /\ st \in receive'
    THEN completeLocked(st) ELSE UNCHANGED completing

\* unregister, and terminalMu is released.
CompleteEnd(st) ==
    /\ completing[st] = "done"
    /\ completing' = [completing EXCEPT ![st] = "over"]
    /\ children' = children \ {st}
    /\ UNCHANGED <<attemptVars, rawCause, sent, late, info, finished, ending,
                   done, call, pc, held, send, receive, writing, closing>>

\* A Read meets the end of the receive side (a deadline is not one).
markReceiveTerminal(st) ==
    /\ st \in held \ receive /\ Unlocked(st)
    /\ receive' = receive \cup {st}
    /\ UNCHANGED send
    /\ maybeCompleteLocked(st)
    /\ UNCHANGED <<attemptVars, rawCause, sent, late, stateVars, call, pc,
                   held, writing, closing>>

\* Write takes writeMu, finds the send side open and may block in raw.Write.
WriteBegin(st) ==
    /\ st \in held \ writing /\ send[st] = "open" /\ Unlocked(st)
    /\ writing' = writing \cup {st}
    /\ UNCHANGED <<attemptVars, rawCause, sent, late, stateVars, call, pc,
                   held, send, receive, closing, completing>>

\* raw.Write returns.
WriteEnd(st) ==
    /\ st \in writing
    /\ writing' = writing \ {st}
    /\ UNCHANGED <<attemptVars, rawCause, sent, late, stateVars, call, pc,
                   held, send, receive, closing, completing>>

\* Nobody holds writeMu and nobody holds terminalMu: closeWriteLocked.
closeWriteLocked(st) ==
    /\ st \notin writing /\ Unlocked(st)
    /\ send' = IF send[st] = "open" THEN [send EXCEPT ![st] = "FIN"] ELSE send
    /\ UNCHANGED receive
    /\ IF send[st] = "open" THEN maybeCompleteLocked(st)
                            ELSE UNCHANGED completing

CloseWrite(st) ==
    /\ st \in held /\ send[st] = "open"
    /\ closeWriteLocked(st)
    /\ UNCHANGED <<attemptVars, rawCause, sent, late, stateVars, call, pc,
                   held, writing, closing>>

\* Mutant: Abort leaves completion to the next Read.
Abort_NoComplete(st) ==
    /\ st \in held /\ completing[st] = "no"
    /\ send' = [send EXCEPT ![st] = "reset"]
    /\ receive' = receive \cup {st}
    /\ UNCHANGED completing
    /\ UNCHANGED <<attemptVars, rawCause, sent, late, stateVars, call, pc,
                   held, writing, closing>>

\* Abort resets the send side, which wakes a blocked Write, and completes.
Abort(st) ==
    /\ st \in held /\ completing[st] = "no"
    /\ send' = [send EXCEPT ![st] = "reset"]
    /\ receive' = receive \cup {st}
    /\ completeLocked(st)
    /\ UNCHANGED <<attemptVars, rawCause, sent, late, stateVars, call, pc,
                   held, writing, closing>>

\* Close: the write deadline passes, so that a blocked Write returns, ...
CloseStream(st) ==
    /\ st \in held /\ closing[st] = "no" /\ completing[st] = "no"
    /\ closing' = [closing EXCEPT ![st] = "waiting"]
    /\ UNCHANGED <<attemptVars, rawCause, sent, late, stateVars, call, pc,
                   held, send, receive, writing, completing>>

\* ... the send side ends under writeMu and terminalMu, ...
CloseSend(st) ==
    /\ closing[st] = "waiting"
    /\ closeWriteLocked(st)
    /\ closing' = [closing EXCEPT ![st] = "sent"]
    /\ UNCHANGED <<attemptVars, rawCause, sent, late, stateVars, call, pc,
                   held, writing>>

\* ... and the receive side under terminalMu.
CloseReceive(st) ==
    /\ closing[st] = "sent" /\ Unlocked(st)
    /\ receive' = receive \cup {st}
    /\ UNCHANGED send
    /\ maybeCompleteLocked(st)
    /\ closing' = [closing EXCEPT ![st] = "closed"]
    /\ UNCHANGED <<attemptVars, rawCause, sent, late, stateVars, call, pc,
                   held, writing>>

\* finish calls parentTerminated on a child.
parentTerminated(st) ==
    /\ st \in ending /\ completing[st] = "no"
    /\ send' = [send EXCEPT ![st] = "reset"]
    /\ receive' = receive \cup {st}
    /\ completeLocked(st)
    /\ UNCHANGED <<attemptVars, rawCause, sent, late, stateVars, call, pc,
                   held, writing, closing>>

-----------------------------------------------------------------------------
Next ==
    \/ \E e \in RemoteError : RawEnd(e)
    \/ Accepted \/ AttemptWatch \/ AttemptFailed \/ Watch \/ FinishEnd
    \/ \E k \in Caller :
         CloseBegin(k) \/ CloseClaim(k) \/ CloseRaw(k) \/ CloseFinish(k)
    \/ \E st \in Stream :
         \/ OpenBegin(st) \/ OpenFailed(st) \/ registerQUICStream(st)
         \/ \E accepted \in BOOLEAN : RawStream(st, accepted)
         \/ CompleteEnd(st) \/ markReceiveTerminal(st)
         \/ WriteBegin(st) \/ WriteEnd(st) \/ CloseWrite(st) \/ Abort(st)
         \/ CloseStream(st) \/ CloseSend(st) \/ CloseReceive(st)
         \/ parentTerminated(st)

Spec == Init /\ [][Next]_vars

\* quic-go returns from raw.Write once the deadline has passed, the write side
\* was cancelled or the connection ended.
Woken(st) == closing[st] # "no" \/ send[st] = "reset" \/ ended

\* Goroutines that can run do; a mutex that is free again and again is
\* obtained (Go's mutex starves nobody).
Fairness ==
    /\ WF_vars(Watch \/ FinishEnd)
    /\ \A k \in Caller :
         WF_vars(CloseClaim(k) \/ CloseRaw(k) \/ CloseFinish(k))
    /\ \A st \in Stream :
         /\ WF_vars(CompleteEnd(st) \/ parentTerminated(st))
         /\ WF_vars(Woken(st) /\ WriteEnd(st))
         /\ SF_vars(CloseSend(st) \/ CloseReceive(st))

FairSpec == Spec /\ Fairness

-----------------------------------------------------------------------------
(* Properties                                                              *)

\* Every variable has its type.
TypeOK ==
    /\ attempt \in {"open", "accepted", "failed"}
    /\ watching \in BOOLEAN /\ observed \in BOOLEAN
    /\ rawCause \in RemoteError \cup {NoCause}
                     \cup {LocalError(k) : k \in Caller}
    /\ info \in Cause \cup {NoCause} /\ sent \in Cause \cup {NoCause}
    /\ finished \in BOOLEAN /\ done \in BOOLEAN
    /\ children \subseteq Stream /\ ending \subseteq Stream
    /\ call \in [Caller -> {"idle", "clear", "claimed", "sent", "over"}]
    /\ late \subseteq Caller
    /\ pc \in [Stream -> {"idle", "opening", "raw", "open", "failed"}]
    /\ held \subseteq Stream
    /\ send \in [Stream -> {"open", "FIN", "reset"}]
    /\ receive \subseteq Stream /\ writing \subseteq Stream
    /\ closing \in [Stream -> {"no", "waiting", "sent", "closed"}]
    /\ completing \in [Stream -> {"no", "done", "over"}]

StreamDone(st) == completing[st] # "no"

\* The adapter implements the session contract: a child that completes while
\* finish runs is still covered by Session.Done.
C == INSTANCE TunnelContract WITH
        live  <- {st \in held : ~StreamDone(st)},
        spent <- {st \in Stream : pc[st] = "failed"}
                   \cup {st \in held : StreamDone(st)}

ImplementsContract == C!Contract

\* The code the peer is told is the code CloseInfo reports here, however many
\* callers close at once ("concurrent callers could expose one code locally
\* while the peer receives a different loser's code").
PeerToldSame == sent # NoCause => info = sent

\* An end of the connection that was observable when CloseWithError began is
\* not replaced by that later local close ("preserve that already-observable
\* remote/network event").
ObservedEndDecides == \A k \in late : info # LocalInfo(k)

\* A connection attempt counts as accepted or as failed, never as both:
\* markAccepted and watch race for it.
ClassifiedOnce == observed <=> attempt = "failed"

\* A stream that Close or Abort was called on completes, even while a Write
\* is blocked in it, and a terminal session becomes Done.
EndsComplete ==
    /\ \A st \in Stream :
         (closing[st] # "no" \/ send[st] = "reset") ~> StreamDone(st)
    /\ terminal ~> done

\* One end, told once: whoever closes, whatever ends the connection and
\* whenever the attempt is classified, there is one cause and all agree on it.
OneEnding == TypeOK /\ PeerToldSame /\ ObservedEndDecides /\ ClassifiedOnce
=============================================================================
