------------------------------ MODULE ClientDial ------------------------------
(***************************************************************************)
(* How the agent gets a session (internal/client/client.go: connectOnce,   *)
(* candidateOrder, connectCandidate, negotiateCandidate, the               *)
(* classification of failures, cleanupCandidate, installSession and Close; *)
(* internal/tunnel/quic.go: QUICDialer).                                   *)
(*                                                                         *)
(* A cycle tries the transports in order, QUIC over each resolved address. *)
(* A candidate that fails is closed and joined, and only then its failure  *)
(* decides whether the next one may be tried: an availability failure may  *)
(* fall back, a rejection by the server may not.  A deadline, the caller's *)
(* cancellation, Close, the peer's close and the reply all race.           *)
(*                                                                         *)
(* CloseInfo is abstracted to what the classification looks at: "local"    *)
(* and "remote" carry a code, the others a reason.                         *)
(***************************************************************************)
EXTENDS Integers, Sequences

CONSTANTS
    Transport,      \* Options.Transport
    Addresses,      \* bound: addresses the QUIC resolver returns
    MaxCycles       \* bound: calls of connectOnce

ASSUME TransportAssumption == Transport \in {"auto", "quic", "tcp"}
ASSUME CyclesAssumption == Addresses \in Nat /\ MaxCycles \in Nat

VARIABLES
    cycle,          \* calls of connectOnce so far
    pc,             \* where connectOnce is
    order, i,       \* the candidates and the one being tried
    addr,           \* the resolved QUIC address being tried
    ctx,            \* the caller's context ended
    deadline,       \* the candidate's context ended
    fail,           \* the failure in hand
    after,          \* what follows the cleanup
    conn,           \* the candidate's transport: none, open, ended or done
    raw,            \* the cause its raw connection ended with
    info,           \* its CloseInfo
    authed,         \* the edge has authenticated the hello
    sess,           \* c.sess
    last,           \* c.lastSuccessful
    cooldown,       \* c.tcpFallbackAt is set and recent
    clientClosed, closing,    \* c.closed, and where Close is
    left,           \* history: this cycle gave up a transport that is not Done
    refused,        \* history: the server refused this cycle's candidate
    tried           \* history: transports tried in this cycle

candidateVars == <<conn, raw, info, authed>>
clientVars == <<sess, last, cooldown, clientClosed, closing>>
historyVars == <<left, refused, tried>>
cycleVars == <<cycle, pc, order, i, addr, fail, after>>
ctxVars == <<ctx, deadline>>
dialVars == <<cycleVars, ctxVars, candidateVars, clientVars, historyVars>>

\* candidateError: reason and eligible.
Terminal == [reason |-> "none", eligible |-> FALSE]
Eligible(r) == [reason |-> r, eligible |-> TRUE]

Kind == order[i]

DialInit ==
    /\ cycle = 0 /\ pc = "idle" /\ order = <<>> /\ i = 1 /\ addr = 1
    /\ ctx = FALSE /\ deadline = FALSE
    /\ fail = Terminal /\ after = "classify"
    /\ conn = "none" /\ raw = "none" /\ info = "none" /\ authed = FALSE
    /\ sess = "none" /\ last = "none" /\ cooldown = FALSE
    /\ clientClosed = FALSE /\ closing = "no"
    /\ left = FALSE /\ refused = FALSE /\ tried = {}

-----------------------------------------------------------------------------
(* connectOnce                                                             *)

\* The known-good TCP path comes first during the cooldown, with QUIC second.
\* The first cycle, Connect's, has no last successful transport.
candidateOrder ==
    CASE Transport = "quic" -> <<"quic">>
      [] Transport = "tcp" -> <<"tcp">>
      [] OTHER -> IF last = "tcp" /\ cooldown
                  THEN <<"tcp", "quic">> ELSE <<"quic", "tcp">>

\* Connect until a session is installed, manage afterwards.
Start ==
    /\ pc = "idle" /\ cycle < MaxCycles /\ sess = "none" /\ ~clientClosed
    /\ cycle' = cycle + 1
    /\ order' = candidateOrder /\ i' = 1 /\ addr' = 1
    /\ pc' = "resolve"
    /\ ctx' = FALSE /\ deadline' = FALSE
    /\ left' = FALSE /\ refused' = FALSE /\ tried' = {}
    /\ UNCHANGED <<fail, after, candidateVars, clientVars>>

\* QUIC resolves the host first; TCP resolves in its dialer.
Resolve ==
    /\ pc = "resolve"
    /\ tried' = tried \cup {Kind}
    /\ pc' = "dial"
    /\ UNCHANGED <<cycle, order, i, addr, fail, after, ctxVars, candidateVars,
                   clientVars, left, refused>>

\* classifyAvailabilityFailure: the context decides first, then the error,
\* which is a network error or an unknown one.  A cancelled context is
\* terminal, a caller's own deadline is not told from the candidate's.
classifyAvailabilityFailure ==
    IF ctx THEN {Terminal, Eligible("timeout")}
    ELSE IF deadline THEN {Eligible("timeout")}
    ELSE {Terminal, Eligible("network")}

\* classifyDialFailure: QUIC looks only at the error, and tells a failed
\* handshake apart.
classifyDialFailure(kind) ==
    IF kind = "quic"
    THEN {Terminal} \cup {Eligible(r) : r \in {"network", "timeout", "handshake"}}
    ELSE classifyAvailabilityFailure

\* The lookup (a QUIC candidate is then over) or the dial fails.  There is no
\* transport to clean up.
DialFails(lookup, f) ==
    /\ pc = (IF lookup THEN "resolve" ELSE "dial")
    /\ lookup => Kind = "quic" /\ f # Eligible("handshake")
    /\ f \in classifyDialFailure(Kind)
    /\ fail' = f
    /\ pc' = IF lookup THEN "failed" ELSE "retry"
    /\ tried' = tried \cup {Kind}
    /\ UNCHANGED <<cycle, order, i, addr, after, ctxVars, candidateVars,
                   clientVars, left, refused>>

\* A transport is dialled: negotiateCandidate begins.
Dial ==
    /\ pc = "dial" /\ ~deadline
    /\ conn' = "open" /\ raw' = "none" /\ info' = "none" /\ authed' = FALSE
    /\ pc' = "open"
    /\ UNCHANGED <<cycle, order, i, addr, fail, after, ctxVars, clientVars,
                   historyVars>>

\* The control stream is open, the hello is written.
OpenControl ==
    /\ pc = "open" /\ conn = "open" /\ ~deadline
    /\ pc' = "hello"
    /\ UNCHANGED <<cycle, order, i, addr, fail, after, ctxVars, candidateVars,
                   clientVars, historyVars>>

WriteHello ==
    /\ pc = "hello" /\ conn = "open"
    /\ pc' = "reply"
    /\ UNCHANGED <<cycle, order, i, addr, fail, after, ctxVars, candidateVars,
                   clientVars, historyVars>>

\* hello_ok of our version, read perhaps after the connection has ended.
HelloOK ==
    /\ pc = "reply" /\ authed
    /\ pc' = "ready"
    /\ UNCHANGED <<cycle, order, i, addr, fail, after, ctxVars, candidateVars,
                   clientVars, historyVars>>

\* An error line, or a reply that is not a hello_ok of our version: terminal.
\* The session is closed with a code.
HelloError ==
    /\ pc = "reply"
    /\ refused' = TRUE
    /\ IF conn = "open" THEN conn' = "ended" /\ raw' = "local"
                        ELSE UNCHANGED <<conn, raw>>
    /\ fail' = Terminal /\ after' = "classify"
    /\ pc' = "cleanup"
    /\ UNCHANGED <<cycle, order, i, addr, ctxVars, info, authed, clientVars,
                   left, tried>>

\* Opening the control stream or writing the hello fails.  An abandoned open
\* ends a yamux session with reason "other".
NegotiationFails ==
    /\ pc \in {"open", "hello"} /\ (deadline \/ conn # "open")
    /\ fail' \in classifyAvailabilityFailure /\ after' = "classify"
    /\ IF Kind = "tcp" /\ pc = "open" /\ conn = "open"
         THEN conn' = "ended" /\ raw' = "other" ELSE UNCHANGED <<conn, raw>>
    /\ pc' = "cleanup"
    /\ UNCHANGED <<cycle, order, i, addr, ctxVars, info, authed, clientVars,
                   historyVars>>

\* helloFailureFromCloseInfo: what a close means for the fallback, "nil" when
\* it was this side's own.
Nil == [reason |-> "nil", eligible |-> FALSE]
helloFailureFromCloseInfo(c) ==
    CASE c = "local" -> Nil
      [] c = "network" -> Eligible("network")
      [] c = "idle" -> Eligible("timeout")
      [] OTHER -> Terminal

\* Reading the reply fails, on a connection that lives too (the stream ends, or
\* a line is not one): closedHelloRejection waits for a connection that has
\* ended to publish its CloseInfo, which then decides.
ReplyFails ==
    /\ pc = "reply"
    /\ conn = "ended" => deadline
    /\ LET f == helloFailureFromCloseInfo(info)
       IN  fail' \in IF conn = "done" /\ f # Nil THEN {f}
                     ELSE classifyAvailabilityFailure
    /\ after' = "classify"
    /\ pc' = "cleanup"
    /\ UNCHANGED <<cycle, order, i, addr, ctxVars, candidateVars, clientVars,
                   historyVars>>

\* cleanupCandidate: Abort and CloseWithError.  The raw cause is preserved.
Cleanup ==
    /\ pc = "cleanup"
    /\ IF conn = "open" THEN conn' = "ended" /\ raw' = "local"
                        ELSE UNCHANGED <<conn, raw>>
    /\ pc' = "join"
    /\ UNCHANGED <<cycle, order, i, addr, fail, after, ctxVars, info, authed,
                   clientVars, historyVars>>

\* Mutant: the classification made before the close is final is kept.
Joined_FirstGuess ==
    /\ pc = "join" /\ conn = "done"
    /\ fail' = fail
    /\ pc' = IF after = "classify" THEN "retry" ELSE "over"
    /\ UNCHANGED <<cycle, order, i, addr, after, ctxVars, candidateVars,
                   clientVars, historyVars>>

\* Session.Done is joined: an eligible failure yields to the final CloseInfo.
Joined ==
    /\ pc = "join" /\ conn = "done"
    /\ fail' = LET f == helloFailureFromCloseInfo(info)
               IN  IF fail.eligible /\ f # Nil THEN f ELSE fail
    /\ pc' = IF after = "classify" THEN "retry" ELSE "over"
    /\ UNCHANGED <<cycle, order, i, addr, after, ctxVars, candidateVars,
                   clientVars, historyVars>>

\* Mutant: an unfinished cleanup keeps the failure eligible.
JoinTimesOut_Eligible ==
    /\ pc = "join" /\ conn # "done"
    /\ left' = TRUE
    /\ pc' = IF after = "classify" THEN "retry" ELSE "over"
    /\ UNCHANGED <<cycle, order, i, addr, fail, after, ctxVars, candidateVars,
                   clientVars, refused, tried>>

\* Mutant: the cleanup has no time limit.
JoinTimesOut_Never ==
    /\ pc = "join" /\ conn # "done"
    /\ UNCHANGED dialVars

\* Done did not come in time: terminal, a fallback could be a second session.
JoinTimesOut ==
    /\ pc = "join" /\ conn # "done"
    /\ left' = TRUE
    /\ fail' = Terminal
    /\ pc' = IF after = "classify" THEN "retry" ELSE "over"
    /\ UNCHANGED <<cycle, order, i, addr, after, ctxVars, candidateVars,
                   clientVars, refused, tried>>

\* retryResolvedQUICAddress: only a network failure, within the deadline.
RetryAddress ==
    /\ pc = "retry"
    /\ IF Kind = "quic" /\ ~deadline /\ fail = Eligible("network")
            /\ addr < Addresses
         THEN addr' = addr + 1 /\ pc' = "dial"
         ELSE pc' = "failed" /\ UNCHANGED addr
    /\ UNCHANGED <<cycle, order, i, fail, after, ctxVars, candidateVars,
                   clientVars, historyVars>>

\* The candidate failed: the next one, or connectOnce returns the error.
NextCandidate ==
    /\ pc = "failed"
    /\ IF ~ctx /\ fail.eligible /\ i < Len(order)
         THEN /\ i' = i + 1 /\ addr' = 1 /\ deadline' = FALSE
              /\ pc' = "resolve"
              /\ cooldown' = IF Kind = "quic" /\ order[i + 1] = "tcp"
                             THEN TRUE ELSE cooldown
         ELSE /\ pc' = "over"
              /\ UNCHANGED <<i, addr, deadline, cooldown>>
    /\ UNCHANGED <<cycle, order, fail, after, ctx, candidateVars, sess, last,
                   clientClosed, closing, historyVars>>

\* rejectCanceledSuccessfulCandidate.
Ready ==
    /\ pc = "ready"
    /\ IF ctx \/ deadline
         THEN /\ fail' = IF ctx THEN Terminal ELSE Eligible("timeout")
              /\ after' = IF ctx THEN "return" ELSE "classify"
              /\ pc' = "cleanup"
         ELSE pc' = "install" /\ UNCHANGED <<fail, after>>
    /\ UNCHANGED <<cycle, order, i, addr, ctxVars, candidateVars, clientVars,
                   historyVars>>

\* Mutant: installSession does not look at c.closed.
installSession_Unchecked(slugOK) ==
    /\ pc = "install" /\ (last = "none" => slugOK)
    /\ IF ~slugOK
         THEN /\ fail' = Terminal /\ after' = "return" /\ pc' = "cleanup"
              /\ UNCHANGED <<sess, last, cooldown>>
         ELSE /\ sess' = "this" /\ last' = Kind
              /\ cooldown' = IF Kind = "quic" THEN FALSE ELSE cooldown
              /\ pc' = "up" /\ UNCHANGED <<fail, after>>
    /\ UNCHANGED <<cycle, order, i, addr, ctxVars, candidateVars, clientClosed,
                   closing, historyVars>>

\* installSession, under c.mu: refused on a closed client, and on a reconnect
\* to another slug.
installSession(slugOK) ==
    /\ pc = "install" /\ (last = "none" => slugOK)
    /\ IF clientClosed \/ ~slugOK
         THEN /\ fail' = Terminal /\ after' = "return" /\ pc' = "cleanup"
              /\ UNCHANGED <<sess, last, cooldown>>
         ELSE /\ sess' = "this" /\ last' = Kind
              /\ cooldown' = IF Kind = "quic" THEN FALSE ELSE cooldown
              /\ pc' = "up" /\ UNCHANGED <<fail, after>>
    /\ UNCHANGED <<cycle, order, i, addr, ctxVars, candidateVars, clientClosed,
                   closing, historyVars>>

\* connectOnce returned an error.  manage waits for its backoff; a failed
\* Connect leaves no client, and the next one starts afresh.
Over ==
    /\ pc = "over"
    /\ pc' = "idle"
    /\ conn' = "none" /\ raw' = "none" /\ info' = "none" /\ authed' = FALSE
    /\ fail' = Terminal
    /\ cooldown' = (cooldown /\ last # "none")
    /\ UNCHANGED <<cycle, order, i, addr, after, ctxVars, sess, last, clientClosed,
                   closing, historyVars>>

\* manage sees the installed session's Done, and clears c.sess.
SessionLost ==
    /\ pc = "up" /\ conn = "done"
    /\ sess' = "none"
    /\ pc' = "idle"
    /\ conn' = "none" /\ raw' = "none" /\ info' = "none" /\ authed' = FALSE
    /\ UNCHANGED <<cycle, order, i, addr, fail, after, ctxVars, last, cooldown,
                   clientClosed, closing, historyVars>>

-----------------------------------------------------------------------------
(* The user's Close                                                        *)

\* Connect has returned the client.
CloseFlag ==
    /\ closing = "no" /\ last # "none"
    /\ clientClosed' = TRUE /\ closing' = "flagged"
    /\ UNCHANGED <<cycleVars, ctxVars, candidateVars, sess, last, cooldown,
                   historyVars>>

\* ... takes c.sess under c.mu and closes it.
CloseSession ==
    /\ closing = "flagged"
    /\ closing' = "closed"
    /\ sess' = "none"
    /\ IF sess = "this" /\ conn = "open"
         THEN conn' = "ended" /\ raw' = "local" ELSE UNCHANGED <<conn, raw>>
    /\ UNCHANGED <<cycleVars, ctxVars, info, authed, last, cooldown, clientClosed,
                   historyVars>>

-----------------------------------------------------------------------------
(* Time, the network and the edge                                          *)

\* The caller's context ends, and with it the candidate's.
ContextEnds ==
    /\ pc \notin {"idle", "over", "up"} /\ ~ctx
    /\ ctx' = TRUE /\ deadline' = TRUE
    /\ UNCHANGED <<cycleVars, candidateVars, clientVars, historyVars>>

DeadlinePasses ==
    /\ pc \notin {"idle", "over", "up"} /\ ~deadline
    /\ deadline' = TRUE
    /\ UNCHANGED <<cycleVars, ctx, candidateVars, clientVars, historyVars>>

CooldownEnds ==
    /\ cooldown /\ pc = "idle"
    /\ cooldown' = FALSE
    /\ UNCHANGED <<cycleVars, ctxVars, candidateVars, sess, last, clientClosed,
                   closing, historyVars>>

\* The edge authenticates the hello.
EdgeAccepts ==
    /\ pc \in {"reply", "cleanup"} /\ conn = "open" /\ ~authed
    /\ authed' = TRUE
    /\ UNCHANGED <<cycleVars, ctxVars, conn, raw, info, clientVars, historyVars>>

\* The connection ends from outside; only QUIC carries the server's code.
RawEnd(c) ==
    /\ conn = "open"
    /\ c = "remote" => Kind = "quic"
    /\ conn' = "ended" /\ raw' = c
    /\ UNCHANGED <<cycleVars, ctxVars, info, authed, clientVars, historyVars>>

\* The adapter publishes CloseInfo and Done (QuicSession, YamuxSession).
Publish ==
    /\ conn = "ended"
    /\ conn' = "done" /\ info' = raw
    /\ refused' = IF raw = "remote"
                       /\ pc \in {"open", "hello", "reply", "cleanup", "join"}
                  THEN TRUE ELSE refused
    /\ UNCHANGED <<cycleVars, ctxVars, raw, authed, clientVars, left, tried>>

-----------------------------------------------------------------------------
Client ==
    \/ Start \/ Resolve \/ Dial \/ OpenControl \/ WriteHello \/ HelloOK
    \/ HelloError \/ NegotiationFails \/ ReplyFails \/ Cleanup \/ Joined
    \/ JoinTimesOut \/ RetryAddress \/ NextCandidate \/ Ready \/ Over
    \/ SessionLost \/ CloseFlag \/ CloseSession
    \/ \E lookup \in BOOLEAN :
         \E r \in {"network", "timeout", "handshake"}, eligible \in BOOLEAN :
            DialFails(lookup, IF eligible THEN Eligible(r) ELSE Terminal)
    \/ \E slugOK \in BOOLEAN : installSession(slugOK)

DialEnvironment ==
    \/ ContextEnds \/ DeadlinePasses \/ CooldownEnds \/ EdgeAccepts \/ Publish
    \/ \E c \in {"remote", "network", "idle", "other"} : RawEnd(c)

DialNext == Client \/ DialEnvironment

DialSpec == DialInit /\ [][DialNext]_dialVars

\* The goroutine runs, deadlines pass and the cleanup timer fires.  Neither
\* the peer nor the adapter's Done is relied on.
DialFairness ==
    /\ WF_dialVars(Resolve) /\ WF_dialVars(NegotiationFails)
    /\ WF_dialVars((deadline \/ conn # "open") /\ ReplyFails)
    /\ WF_dialVars(Cleanup) /\ WF_dialVars(Joined \/ JoinTimesOut)
    /\ WF_dialVars(RetryAddress) /\ WF_dialVars(NextCandidate) /\ WF_dialVars(Ready)
    /\ WF_dialVars(DialFails(FALSE, Eligible("timeout")))
    /\ WF_dialVars(DeadlinePasses)
    /\ WF_dialVars(\E slugOK \in BOOLEAN : installSession(slugOK))

DialFairSpec == DialSpec /\ DialFairness

-----------------------------------------------------------------------------
(* Properties                                                              *)

Failures == {Nil, Terminal}
              \cup {Eligible(r) : r \in {"network", "timeout", "handshake"}}

\* Every variable has its type.
DialTypeOK ==
    /\ cycle \in 0..MaxCycles /\ addr \in 1..(Addresses + 1) /\ i \in 1..2
    /\ pc \in {"idle", "resolve", "dial", "open", "hello", "reply", "ready",
              "cleanup", "join", "retry", "failed", "install", "up", "over"}
    /\ order \in {<<>>, <<"quic">>, <<"tcp">>, <<"quic", "tcp">>, <<"tcp", "quic">>}
    /\ fail \in Failures /\ after \in {"classify", "return"}
    /\ conn \in {"none", "open", "ended", "done"}
    /\ {raw, info} \subseteq {"none", "local", "remote", "network", "idle", "other"}
    /\ sess \in {"none", "this"} /\ last \in {"none", "quic", "tcp"}
    /\ closing \in {"no", "flagged", "closed"} /\ tried \subseteq {"quic", "tcp"}
    /\ {ctx, deadline, authed, cooldown, clientClosed, left, refused} \subseteq BOOLEAN

\* Within a cycle no candidate is dialled, negotiated or installed while an
\* earlier one of the cycle has not reached Done: it could still be
\* authenticated, and the edge would hold two sessions (failCandidate).
OneCandidate ==
    left => pc \notin {"resolve", "dial", "open", "hello", "reply", "ready",
                      "install", "up"}

\* Once the server has refused a candidate, by an error line or by an
\* application close that the deadline and the read error race with, the cycle
\* dials nothing more, neither another address nor the other transport
\* (closedHelloRejection, failCandidate).
RejectionFinal == refused => pc \notin {"resolve", "dial"}

\* After Close has returned no transport stays open behind the client's back:
\* a session that was being installed meanwhile is closed by the one or by
\* the other (Close, installSession).
NoLeak ==
    closing = "closed" /\ pc \in {"idle", "over", "up"}
        => conn # "open" /\ sess = "none"

\* In auto mode a cycle reports an availability failure only after it has
\* tried both transports, in the cooldown too (candidateOrder, connectOnce).
EligibleTriesAll ==
    pc = "over" /\ fail.eligible /\ ~ctx /\ Transport = "auto"
        => tried = {"quic", "tcp"}

\* Whatever the peer, the network and the adapter's Done do, a cycle ends:
\* the agent is never stuck in one candidate (candidate deadlines, the limit
\* on the cleanup).
CycleEnds ==
    (pc \notin {"idle", "over", "up"}) ~> (pc \in {"over", "up"})

\* Fallback happens exactly when it may: never past a refusal, and never left
\* out in auto mode when only availability failed.
FallbackRight == DialTypeOK /\ RejectionFinal /\ EligibleTriesAll
=============================================================================
