---------------------------- MODULE ClientStreams ----------------------------
(***************************************************************************)
(* The streams an edge opens to the agent (internal/client/client.go:      *)
(* acceptStreamsLoop, handleStream, dialLocalBackend).                     *)
(*                                                                         *)
(* A handler takes one of the client's slots, which it shares with the     *)
(* handlers of earlier sessions, reads the name, dials the local backend   *)
(* and runs two copies and a watcher.  Each copy posts its result in the   *)
(* order it gets to; the watcher aborts the stream when the client closes  *)
(* or the session is Done.                                                 *)
(*                                                                         *)
(* A session is of either transport, and its streams end as that one's do. *)
(* On QUIC (quicStream) the send side goes open -> fin -> reset, Abort is  *)
(* a reset, and CloseWrite on a reset stream returns nil.  On yamux        *)
(* (yamuxStream) there is no reset per stream: Abort and Close send a FIN  *)
(* and go on reading, and five minutes after that yamux gives a stream up  *)
(* that the edge has not ended.  Payload is left out: a copy either sees   *)
(* the end of its input or an error.                                       *)
(***************************************************************************)
EXTENDS Integers, Sequences, FiniteSets

CONSTANTS
    Streams,        \* streams the edge opens
    Sessions,       \* bound: sessions, 1..Sessions in turn
    KindOf,         \* the transport of each session
    Capacity        \* maxStreamHandlers

ASSUME BoundsAssumption ==
    Sessions \in Nat \ {0} /\ Capacity \in Nat \ {0} /\ IsFiniteSet(Streams)
ASSUME KindAssumption == KindOf \in [1..Sessions -> {"quic", "yamux"}]

Directions == {"request", "response"}

VARIABLES
    cur,            \* the session accepting streams
    closed,         \* c.closed
    done,           \* session -> its Done is closed
    used,           \* len(c.handlerSlots)
    h,              \* stream -> where its handler is
    of,             \* stream -> its session
    send, recv,     \* stream -> this side's response half, the request half
    backend,        \* stream -> the backend connection
    copy,           \* stream -> direction -> the copy goroutine
    results,        \* stream -> the channel
    first,          \* stream -> the first result taken
    watch,          \* stream -> the watcher waits
    eof             \* history: the backend sent its whole response

loopVars == <<cur, closed, done>>
streamVars == <<send, recv, backend, eof>>
copyVars == <<copy, results, first, watch>>
vars == <<loopVars, used, h, of, streamVars, copyVars>>

NoResult == [dir |-> "none", ok |-> TRUE]
Running == {"prefix", "lookup", "dial", "first", "second", "drain", "return"}

Init ==
    /\ cur = 1 /\ closed = FALSE /\ done = [n \in 1..Sessions |-> FALSE]
    /\ used = 0
    /\ h = [s \in Streams |-> "none"]
    /\ of = [s \in Streams |-> 1]
    /\ send = [s \in Streams |-> "open"] /\ recv = [s \in Streams |-> "open"]
    /\ backend = [s \in Streams |-> "none"]
    /\ copy = [s \in Streams |-> [d \in Directions |-> "none"]]
    /\ results = [s \in Streams |-> <<>>]
    /\ first = [s \in Streams |-> NoResult]
    /\ watch = [s \in Streams |-> FALSE]
    /\ eof = [s \in Streams |-> FALSE]

-----------------------------------------------------------------------------
(* The stream and the backend connection                                   *)

\* Abort on a session's stream.  quicStream: both directions, and it escalates
\* a FIN to a reset.  yamuxStream: a FIN, and the receive side is drained.
AbortOn(n, s) ==
    IF KindOf[n] = "quic"
      THEN /\ send' = [send EXCEPT ![s] = "reset"]
           /\ recv' = [recv EXCEPT ![s] = "ended"]
      ELSE /\ send' = [send EXCEPT ![s] = IF @ = "open" THEN "fin" ELSE @]
           /\ UNCHANGED recv

Abort(s) == AbortOn(of[s], s)

\* Close: a FIN unless the side is reset; quicStream cancels the read,
\* yamuxStream drains it.
Close(s) ==
    /\ send' = [send EXCEPT ![s] = IF @ = "open" THEN "fin" ELSE @]
    /\ recv' = [recv EXCEPT ![s] = IF KindOf[of[s]] = "quic" THEN "ended" ELSE @]

\* yamux's StreamCloseTimeout: five minutes after the FIN, CloseWrite's too,
\* the stream is forced closed, its reader sees the end, and the edge a reset.
CloseTimeout(s) ==
    /\ KindOf[of[s]] = "yamux" /\ send[s] = "fin" /\ recv[s] = "open"
    /\ send' = [send EXCEPT ![s] = "reset"]
    /\ recv' = [recv EXCEPT ![s] = "expired"]
    /\ UNCHANGED <<loopVars, used, h, of, backend, eof, copyVars>>

CloseBackend(s) ==
    backend' = [backend EXCEPT ![s] = IF @ = "none" THEN "none" ELSE "closed"]

-----------------------------------------------------------------------------
(* acceptStreamsLoop                                                       *)

\* Mutant: the session's handlers are counted, not the client's.
Accept_PerSession(s) ==
    /\ h[s] = "none" /\ ~done[cur]
    /\ of' = [of EXCEPT ![s] = cur]
    /\ Cardinality({t \in Streams : of[t] = cur /\ h[t] \in Running}) < Capacity
    /\ used' = used + 1
    /\ h' = [h EXCEPT ![s] = "prefix"]
    /\ UNCHANGED <<loopVars, streamVars, copyVars>>

\* A stream is accepted and gets a slot.
Accept(s) ==
    /\ h[s] = "none" /\ ~done[cur]
    /\ of' = [of EXCEPT ![s] = cur]
    /\ used < Capacity
    /\ used' = used + 1
    /\ h' = [h EXCEPT ![s] = "prefix"]
    /\ UNCHANGED <<loopVars, streamVars, copyVars>>

\* ... or none is free, and it is aborted with StreamCapacity.
Reject(s) ==
    /\ h[s] = "none" /\ ~done[cur]
    /\ of' = [of EXCEPT ![s] = cur]
    /\ used = Capacity
    /\ h' = [h EXCEPT ![s] = "over"]
    /\ AbortOn(cur, s)
    /\ UNCHANGED <<loopVars, used, backend, eof, copyVars>>

\* The deferred release of the slot.
Release(s) ==
    /\ h[s] = "return"
    /\ h' = [h EXCEPT ![s] = "over"]
    /\ used' = used - 1
    /\ UNCHANGED <<loopVars, of, streamVars, copyVars>>

-----------------------------------------------------------------------------
(* handleStream, up to the dial                                            *)

\* The name is read, is a label, is intended, and the backend is dialled:
\* each in turn leads on.
Advance(s) ==
    /\ \/ /\ h[s] = "prefix" /\ recv[s] # "ended"
          /\ h' = [h EXCEPT ![s] = "lookup"]
       \/ h[s] = "lookup" /\ h' = [h EXCEPT ![s] = "dial"]
    /\ UNCHANGED <<loopVars, used, of, streamVars, copyVars>>

\* ... or fails (the prefix deadline, a bad name, no backend of the name, the
\* dial's timeout) and the stream is aborted.
SetupFails(s) ==
    /\ h[s] \in {"prefix", "lookup", "dial"}
    /\ Abort(s)
    /\ h' = [h EXCEPT ![s] = "return"]
    /\ UNCHANGED <<loopVars, used, of, backend, eof, copyVars>>

Dialled(s) ==
    /\ h[s] = "dial"
    /\ backend' = [backend EXCEPT ![s] = "open"]
    /\ copy' = [copy EXCEPT ![s] = [d \in Directions |-> "run"]]
    /\ watch' = [watch EXCEPT ![s] = TRUE]
    /\ h' = [h EXCEPT ![s] = "first"]
    /\ UNCHANGED <<loopVars, used, of, send, recv, eof, results, first>>

-----------------------------------------------------------------------------
(* The copies and the watcher                                              *)

Ends(s, d, result) == copy' = [copy EXCEPT ![s][d] = result]

\* The request copy reaches the end of the request and closes the backend's
\* write side, which fails on a closed connection; or its read fails.  yamux may
\* end the reads of a closed session's streams without an error.
RequestEnds(s) ==
    /\ copy[s]["request"] = "run" /\ recv[s] # "open"
    /\ \/ /\ recv[s] # "ended" \/ KindOf[of[s]] = "yamux"
          /\ backend[s] \in {"open", "eof"}
          /\ Ends(s, "request", "ok")
       \/ /\ recv[s] = "ended" \/ backend[s] \notin {"open", "eof"}
          /\ Ends(s, "request", "err")
    /\ UNCHANGED <<loopVars, used, h, of, streamVars, results, first, watch>>

\* A write to a backend that is closed, broken or no longer reading fails.
\* It takes more of the request for that to show.
RequestWriteFails(s) ==
    /\ copy[s]["request"] = "run" /\ recv[s] # "ended"
    /\ backend[s] # "open"
    /\ Ends(s, "request", "err")
    /\ UNCHANGED <<loopVars, used, h, of, streamVars, results, first, watch>>

\* The response copy's read of the backend fails.
ResponseFails(s) ==
    /\ copy[s]["response"] = "run" /\ backend[s] \in {"closed", "broken"}
    /\ Ends(s, "response", "err")
    /\ UNCHANGED <<loopVars, used, h, of, streamVars, results, first, watch>>

\* A write to the stream fails: this side has ended it, or the edge has, or
\* it is QUIC's and the edge, done with its own half, reads no more.
ResponseWriteFails(s) ==
    /\ copy[s]["response"] = "run"
    /\ \/ send[s] # "open" \/ recv[s] = "ended"
       \/ KindOf[of[s]] = "quic" /\ recv[s] = "fin"
    /\ Ends(s, "response", "err")
    /\ UNCHANGED <<loopVars, used, h, of, streamVars, results, first, watch>>

\* It reaches the response's end: CloseWrite, which returns nil after a reset.
ResponseEnds(s) ==
    /\ copy[s]["response"] = "run" /\ backend[s] = "eof"
    /\ Ends(s, "response", "ok")
    /\ send' = [send EXCEPT ![s] = IF @ = "open" THEN "fin" ELSE @]
    /\ UNCHANGED <<loopVars, used, h, of, recv, backend, eof, results, first,
                   watch>>

\* A goroutine's send into results.
Post(s, d) ==
    /\ copy[s][d] \in {"ok", "err"}
    /\ results' = [results EXCEPT ![s] =
                     Append(@, [dir |-> d, ok |-> copy[s][d] = "ok"])]
    /\ Ends(s, d, "posted")
    /\ UNCHANGED <<loopVars, used, h, of, streamVars, first, watch>>

\* Mutant: the watcher waits for the client's Close only.
Watch_CloseOnly(s) ==
    /\ watch[s] /\ closed
    /\ watch' = [watch EXCEPT ![s] = FALSE]
    /\ Abort(s) /\ CloseBackend(s)
    /\ UNCHANGED <<loopVars, used, h, of, eof, copy, results, first>>

\* The watcher of the client's Close and the session's Done.
Watch(s) ==
    /\ watch[s] /\ (closed \/ done[of[s]])
    /\ watch' = [watch EXCEPT ![s] = FALSE]
    /\ Abort(s) /\ CloseBackend(s)
    /\ UNCHANGED <<loopVars, used, h, of, eof, copy, results, first>>

-----------------------------------------------------------------------------
(* handleStream, from the first result                                     *)

Early(s) == first[s].dir = "response" /\ first[s].ok

\* A failed copy aborts, a complete early response closes only the backend,
\* to wake the request copy's write.
First(s) ==
    /\ h[s] = "first" /\ results[s] # <<>>
    /\ LET r == Head(results[s]) IN
        /\ first' = [first EXCEPT ![s] = r]
        /\ IF ~r.ok THEN Abort(s) ELSE UNCHANGED <<send, recv>>
        /\ IF ~r.ok \/ r.dir = "response" THEN CloseBackend(s)
                                          ELSE UNCHANGED backend
    /\ results' = [results EXCEPT ![s] = Tail(@)]
    /\ h' = [h EXCEPT ![s] = "second"]
    /\ UNCHANGED <<loopVars, used, of, eof, copy, watch>>

\* Mutant: the request copy's error aborts an early response as any other.
Second_AlwaysAborts(s) ==
    /\ h[s] = "second" /\ results[s] # <<>>
    /\ LET r == Head(results[s]) IN
        /\ IF ~r.ok
             THEN Abort(s)
             ELSE IF first[s].ok THEN Close(s) ELSE UNCHANGED <<send, recv>>
        /\ h' = [h EXCEPT ![s] = "return"]
        /\ CloseBackend(s)
    /\ watch' = [watch EXCEPT ![s] = FALSE]
    /\ results' = [results EXCEPT ![s] = Tail(@)]
    /\ UNCHANGED <<loopVars, used, of, eof, copy, first>>

\* The second result.  After an early response its error is the expected one,
\* and the request is drained until the edge ends it; otherwise it aborts.
\* The deferred calls close the backend and dismiss the watcher.
Second(s) ==
    /\ h[s] = "second" /\ results[s] # <<>>
    /\ LET r == Head(results[s]) IN
        IF ~r.ok /\ Early(s)
          THEN /\ h' = [h EXCEPT ![s] = "drain"]
               /\ UNCHANGED <<send, recv, backend, watch>>
          ELSE /\ IF ~r.ok THEN Abort(s)
                  ELSE IF first[s].ok THEN Close(s) ELSE UNCHANGED <<send, recv>>
               /\ h' = [h EXCEPT ![s] = "return"]
               /\ CloseBackend(s)
               /\ watch' = [watch EXCEPT ![s] = FALSE]
    /\ results' = [results EXCEPT ![s] = Tail(@)]
    /\ UNCHANGED <<loopVars, used, of, eof, copy, first>>

Drain(s) ==
    /\ h[s] = "drain" /\ recv[s] # "open"
    /\ h' = [h EXCEPT ![s] = "return"]
    /\ CloseBackend(s)
    /\ watch' = [watch EXCEPT ![s] = FALSE]
    /\ UNCHANGED <<loopVars, used, of, send, recv, eof, copy, results, first>>

-----------------------------------------------------------------------------
(* The user, the edge, the backend and the session                         *)

UserClose ==
    /\ ~closed
    /\ closed' = TRUE
    /\ UNCHANGED <<cur, done, used, h, of, streamVars, copyVars>>

\* The session is Done, and its streams are complete (TunnelContract).
SessionDone ==
    /\ ~done[cur]
    /\ done' = [done EXCEPT ![cur] = TRUE]
    /\ LET mine == {s \in Streams : h[s] \in Running /\ of[s] = cur} IN
        /\ send' = [s \in Streams |-> IF s \in mine THEN "reset" ELSE send[s]]
        /\ recv' = [s \in Streams |-> IF s \in mine THEN "ended" ELSE recv[s]]
    /\ UNCHANGED <<cur, closed, used, h, of, backend, eof, copyVars>>

Reconnect ==
    /\ done[cur] /\ ~closed /\ cur < Sessions
    /\ cur' = cur + 1
    /\ UNCHANGED <<closed, done, used, h, of, streamVars, copyVars>>

\* The edge ends its request half, or resets it.
EdgeEnds(s, how) ==
    /\ h[s] \in Running /\ recv[s] = "open" /\ how \in {"fin", "ended"}
    /\ recv' = [recv EXCEPT ![s] = how]
    /\ UNCHANGED <<loopVars, used, h, of, send, backend, eof, copyVars>>

\* The backend has sent its whole response, or its connection breaks.
BackendEnds(s, how) ==
    /\ backend[s] = "open" /\ how \in {"eof", "broken"}
    /\ backend' = [backend EXCEPT ![s] = how]
    /\ eof' = [eof EXCEPT ![s] = (how = "eof")]
    /\ UNCHANGED <<loopVars, used, h, of, send, recv, copyVars>>

-----------------------------------------------------------------------------
Handler(s) ==
    \/ Release(s) \/ Advance(s) \/ SetupFails(s) \/ Dialled(s)
    \/ First(s) \/ Second(s) \/ Drain(s)

Copies(s) ==
    \/ RequestEnds(s) \/ RequestWriteFails(s) \/ ResponseFails(s)
    \/ ResponseWriteFails(s) \/ ResponseEnds(s) \/ Watch(s) \/ CloseTimeout(s)
    \/ \E d \in Directions : Post(s, d)

Environment ==
    \/ UserClose \/ SessionDone \/ Reconnect
    \/ \E s \in Streams : \/ \E how \in {"fin", "ended"} : EdgeEnds(s, how)
                          \/ \E how \in {"eof", "broken"} : BackendEnds(s, how)

Next ==
    \/ \E s \in Streams : Accept(s) \/ Reject(s) \/ Handler(s) \/ Copies(s)
    \/ Environment

Spec == Init /\ [][Next]_vars

\* Goroutines and timers run, and a call on an ended stream or connection
\* returns.  The setup ends by its deadlines; over QUIC, where no timer does it,
\* the edge ends the request of a response it has seen the end of.  The backend
\* and the edge are trusted with no more.
Fairness ==
    \A s \in Streams :
        /\ WF_vars(Release(s) \/ First(s) \/ Second(s) \/ Drain(s))
        /\ WF_vars(SetupFails(s) \/ Dialled(s))
        /\ WF_vars(RequestEnds(s))
        /\ WF_vars(ResponseFails(s) \/ ResponseEnds(s))
        /\ WF_vars(Post(s, "request")) /\ WF_vars(Post(s, "response"))
        /\ WF_vars(Watch(s)) /\ WF_vars(CloseTimeout(s))
        /\ WF_vars(KindOf[of[s]] = "quic" /\ send[s] # "open" /\ EdgeEnds(s, "fin"))

FairSpec == Spec /\ Fairness

-----------------------------------------------------------------------------
(* Properties                                                              *)

\* Every variable has its type.
TypeOK ==
    /\ cur \in 1..Sessions /\ used \in 0..Capacity
    /\ closed \in BOOLEAN /\ done \in [1..Sessions -> BOOLEAN]
    /\ h \in [Streams -> Running \cup {"none", "over"}]
    /\ of \in [Streams -> 1..Sessions]
    /\ send \in [Streams -> {"open", "fin", "reset"}]
    /\ recv \in [Streams -> {"open", "fin", "ended", "expired"}]
    /\ backend \in [Streams -> {"none", "open", "eof", "broken", "closed"}]
    /\ copy \in [Streams -> [Directions -> {"none", "run", "ok", "err", "posted"}]]
    /\ watch \in [Streams -> BOOLEAN] /\ eof \in [Streams -> BOOLEAN]
    /\ \A s \in Streams : Len(results[s]) <= 2

\* The slots are the running handlers of all sessions together, whichever way
\* each ends, and never more than the capacity (acceptStreamsLoop).
SlotsExact ==
    /\ TypeOK
    /\ used = Cardinality({s \in Streams : h[s] \in Running})
    /\ used <= Capacity

\* A response the agent's handler took as complete first is not reset, though
\* the request copy it then wakes fails: only the client's Close or the session's
\* end resets it (handleStream, earlyResponse), and yamux, where the edge left
\* the request open for five minutes more.
EarlyResponseKept ==
    \A s \in Streams :
        Early(s) /\ send[s] = "reset" =>
            closed \/ done[of[s]] \/ (KindOf[of[s]] = "yamux" /\ recv[s] = "expired")

\* Over QUIC the edge sees the end of a response only when the backend sent all
\* of it: a copy cut short by the watcher, by the other copy or by the backend
\* ends in a reset.  Over yamux such a response ends in a FIN as a complete one
\* does, and only the message's own framing tells them apart.
NoTruncatedEnd ==
    \A s \in Streams : KindOf[of[s]] = "quic" /\ send[s] = "fin" => eof[s]

\* Once the client is closed, the session Done, or the response ended, the
\* handler ends and gives its slot back, whatever its copies wait for.
HandlersEnd ==
    \A s \in Streams :
        (h[s] \in Running
           /\ (closed \/ done[of[s]] \/ send[s] # "open"))
        ~> h[s] = "over"

\* A response that was complete is kept, and over QUIC one that was not does
\* not look complete.
ResponseSound == EarlyResponseKept /\ NoTruncatedEnd
=============================================================================
