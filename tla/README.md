# beamd in TLA+

beamd gives a local server a public URL. A client agent keeps one tunnel
session (yamux over TLS/TCP, or QUIC) to an edge and registers names on it. The
edge owns the public hostnames, terminates visitors' HTTP, and opens one tunnel
stream per backend connection. This directory models the parts of that system
whose correctness depends on interleavings: TLA+ modules, TLC configurations
that check small instances, and TLAPS proofs for every instance.

Source paths are relative to the repository root; the modelled code is under
`internal/`.

## 1. Inventory

| Component | State | Operations | Talks to |
|---|---|---|---|
| **Edge hostname table** (`edge/edge.go`, `edge/hostnames.go`) | `e.routes`, `e.sessions`, each session's `names` and `hosts`, the `beam_active_tunnels` gauge | `promoteAuthenticated`, `register`, `unregister`, `dropSession`, `heartbeatWatch` | control stream of each session; control plane for hosted hostnames; proxies |
| **Session contract** (`tunnel/session.go`) | terminal info, finished flag, children registry, done channel | `claim`, `register`, `unregister`, `childDone`, `finish` | both transport adapters |
| **yamux adapter** (`tunnel/yamux.go`) | open gate, per stream `localClosed`, `remoteDone`, close timer, completion | `OpenStream`, `AcceptStream`, `CloseWrite`/`Close`/reset, `watch`, `CloseWithError` | yamux library, session contract |
| **QUIC adapter** (`tunnel/quic.go`, `quic_stream.go`) | attempt classification, per stream a send and a receive state | `Accept`, `OpenStream`, `CloseWithError`, `watch`, `Close`, `Abort` | quic-go, session contract |
| **Edge streams and leases** (`edge/edge.go`, `edge/traffic.go`) | proxy cache, global and per-session slots, stream wait groups, byte counters, authenticated slots | `handler`, `proxyFor`, `openRouteStreamForRoute`, `leasedConn.watch`, `dropSession` | hostname table, transports, `http.Transport` |
| **Edge admission and shutdown** (`edge/edge.go`, `edge/reqevents.go`, `edge/metrics.go`) | handshake, preauth and session slots, `preauth`, raw connections, four wait groups, in-flight proxies | `acceptTCP`, `acceptQUIC`, `handleTCP`, `handleTunnelSession`, `handlePublic`, `Shutdown` | everything in the edge |
| **Traffic store** (`edge/traffic.go`) | per host totals, dirty flag, JSON file | add, periodic flush, load | leased connections, shutdown |
| **Request log** (`reqlog/`) | queue, log file, rotated file, cursor | write, flush, rotate, repair; ship, drain, save cursor | edge events, control plane |
| **Client agent** (`client/client.go`) | `intended`, current session, pending register, last transport and fallback cooldown, handler slots | `Register`, `Unregister`, replay, reconnect, `connectOnce`, `readControl`, `handleStream` | edge, local servers |
| **Token cache** (`auth/http_store.go`) | entries with expiry | `Resolve`, `lookup`, evict | control plane |
| **Certificate gate** (`certs/`) | verdicts, cooldowns, in-flight name sets | `Decide`, `recordFailure`, `GetCertificate`, `kickWild` | control plane, CertMagic |
| **Daemon** (`daemon/`) | lock file, socket, the client | local HTTP API | CLI, MCP server |
| **Others** | naming rules, protocol framing, config, DNS, device login, MCP, CLI | parsing, adapters over libraries | — |

What is hard, and so what the models are for:

* **Two lock domains.** `register` fetches its hostnames with no lock held,
  changes the table under `e.mu`, and touches `sess.mu` inside; `unregister`
  uses three critical sections. A dead session's clean-up races its
  replacement's register.
* **Wait groups and slots.** Every path out of a dial, an admission or an open
  must give back what it took, once; and no group may be raised once somebody
  may be waiting on it.
* **Detached dials.** `http.Transport` dials in a goroutine that outlives the
  request that asked for it.
* **Abandoned calls.** yamux's `OpenStream` cannot be cancelled; the adapter
  leaves it running and cleans up after it.
* **Shutdown** takes snapshots, then waits under a deadline, with new work still
  passing the checks it made a moment ago.
* **Reconnect.** The client replays what it intends to have while the user
  changes it, and timeouts leave the two sides with different views.
* **Fallback.** Which transport may be tried next depends on why the last one
  failed, and the deadline, the read error and the peer's close race to say.
* **Two closes.** Several goroutines end one QUIC session while the peer does.
* **Half-closes.** A response may be complete before its request is, and the
  copy that is then cut short must not take the response with it.
* **Crash and restart** of the log's writer and its shipper, between any two
  file operations.
* **Overlapping lookups** in caches that ask outside their mutex.

`PROJECT.json` lists each of these at its line under `hazards`.

## 2. Modules

| Module | What it is |
|---|---|
| `HostTable` | abstract specification of the hostname table, as a visitor's request sees it |
| `EdgeRoutes` | the hostname table; one action per critical section; refines `HostTable` |
| `EdgeRoutesProofs` | its inductive invariant, theorems and the refinement proof |
| `TunnelContract` | abstract specification of a tunnel session |
| `YamuxSession` | the yamux adapter, refining `TunnelContract` |
| `YamuxSessionProofs` | its inductive invariant, theorems and the refinement proof |
| `QuicSession` | the QUIC adapter, refining `TunnelContract` too |
| `QuicSessionProofs` | its inductive invariant, theorems and the refinement proof |
| `EdgeStreams` | from a visitor's request to a leased stream and back; uses the table as `HostTable`, sessions through the contract |
| `EdgeStreamsProofs` | its inductive invariant, theorems and the proofs that it uses the two as specified |
| `EdgeLifecycle` | admission of connections, requests, and `Shutdown` |
| `EdgeLifecycleProofs` | its inductive invariant and theorems |
| `ClientAgent` | the client's intended names kept registered across sessions, with the edge's end of the control stream |
| `ClientAgentProofs` | its inductive invariant and theorems |
| `ClientDial` | one connection cycle: candidates, failures, fallback, installation |
| `ClientStreams` | the streams an edge opens to the agent |
| `ClientTransportProofs` | the proofs about `ClientDial` and `ClientStreams` |
| `RequestLog` | the request log's sink and shipper over files, with kills and restarts |
| `TokenCache` | the verification cache for bearer tokens |
| `CertGate` | when a handshake may make the edge order a certificate |
| `ControlPlaneProofs` | the proofs about `TokenCache`, `CertGate` and `RequestLog` |
| `MC*` | constants for TLC; two of them also choose where the search starts (section 3) |

### HostTable and EdgeRoutes

`HostTable` says what the table is to a request that looks at it twice: `held`
(the pairs of a host and the session it is routed to), `dead` (closed
transports) and `dropped` (sessions past `dropSession`). A host changes hands
only when its holder is dead; only the holder gives it up otherwise; a dropped
session holds nothing and never registers again. It does not say which tunnel a
host belongs to, nor when a register is refused: that is `EdgeRoutes`.

`sessions`, `routes`, `names`, `hosts` and `activeTunnels` are the fields of
those names. `pc[s]` is where the session's single handler goroutine is;
`req[s]` is what its `register` or `unregister` keeps in locals between two
critical sections. `closed[s]` is `transport.IsClosed()`: it can become true at
any moment, while up to `MaxBuffered` lines already received are still handled.
A reconnect is another member of `Session`.

`RegisterFetch` is the hostname lookup (in flat mode the computed hostname, in
hosted mode any set of hosts bound to the scope, which contains the primary);
then, in one critical section, `RegisterAgain` (name already held),
`RegisterTaken` (a live session has one of the hosts), `RegisterOverLimit`
(dead holders evicted, then refused by the cap) or `RegisterCommit`.
`UnregisterSnapshot`, `UnregisterRoutes` and `UnregisterForget` are the three
sections of `unregister`; `ControlEnded` and `DropSession` are the end of a
handler.

### TunnelContract and YamuxSession

The contract has a terminal cause that is set once, streams that are handed out
only before it, and a `done` flag that is raised only when every stream handed
out has completed. `YamuxSession` implements it with the children registry: a
stream goes through gate, raw open, registration, half-closes and
`complete` (whose steps — release the slot, publish Done, leave the registry —
are separate actions, interleaved with `finish`). An accepted stream is
registered in a step of its own (`AcceptRegister`), which a session that became
terminal in between refuses (`AcceptRefused`). The yamux library answers an
open, delivers the remote's end of stream and closes; nothing more is assumed
of it.

### QuicSession

`attempt` is the listener's `quicAttempt`: `Accepted` and `AttemptFailed` race
for it. `rawCause` is the cause the connection's context ended with, which
becomes observable before `watch` publishes it. `CloseBegin` (looks at that
cause), `CloseClaim`, `CloseRaw` and `CloseFinish` are `CloseWithError`, for any
number of callers with codes of their own; `sent` is what the peer is told. A
stream has `send` and `receive` under `terminalMu`; a `Write` holds `writeMu`,
which `Close` needs and `Abort` does not. `completing = "done"` holds
`terminalMu` between closing the stream's Done and leaving the registry.

### EdgeStreams

One request makes one dial. `Lookup` and `ProxyFor` are the handler before the
reverse proxy; `Snapshot`, `reserveStreamWatcher`, `AcquireGlobal`,
`AcquireSession`, `Recheck`, `OpenStream` are the dial, `UnwindLease` and
`UnwindWatcher` its failure paths, `Finalize`, `DoneLease`, `DoneWatcher` the
watcher goroutine of a leased connection. `StopAdmission`, `DropRoutes`,
`JoinTransport`, `ReleaseAuth` are `dropSession`. The table appears as
`InstallRoute` (a register, which replaces a route only when its session is
closed) and `RemoveRoute` (the session's own unregister, or another session's
register that takes the other hosts of a dead session's tunnel). `Transfer` moves
a byte and `Count` adds it to the counters, later; `CloseConn` closes the stream
and `EndHandler` reports the totals, later too, unless the watcher's `Finalize`
came first. `passed`, `counted` and `late` (counted after the report) tell the
stages of a byte apart.

### EdgeLifecycle

A connection is a TCP tunnel, a QUIC tunnel or a visitor; `pc` is the goroutine
that owns it. Slots and wait groups are counters; `Shutdown` is the sequence
`BeginShutdown`, `CloseListeners`, `Drained` or `DrainDeadline`, `CloseTunnels`,
`JoinWorkers`, `JoinWatchers` or `JoinDeadline`. `AbortHandler` is the reverse
proxy leaving by a panic that `net/http` recovers.

### ClientAgent

`intended`, `sess`, `registerMu` and `pending` are the fields of those names.
`pc[a]` is where a caller of `Register` or `Unregister`, or the replay loop
started with a session, is; `call[a]` its arguments and locals; `ch[a]` the
channel of its pending register. `RegisterCall`, `Lock`, `FindSession`,
`WriteRegister` and one of `TakeReply`, `SessionEnded`, `GiveUp` are a
`Register`; `UnregisterCall` and `WriteUnregister` an `Unregister`;
`ReplayStart` to `ReplayBackoff` the replay loop, which shares the attempt's
actions. `ReadReply` and `SendReply` are `readControl`, which looks at
`session.pending` in the first and sends in the second. A send into a channel
nobody reads any more either fits or blocks the reader for good (`stuck`).
`SessionLost`, `Reconnect` and `ManageEnds` are `manage`.

The edge handles a session's lines in order, refuses a name another session
holds, and drops a dead session when it notices; it may announce its shutdown
with an error that names no register. Lines in flight are bounded by
`MaxQueue`, and are lost with the session. Timers may fire at any moment.
Four variables are history: `granted`, the names whose last successful call was
a `Register`; `crossed`, those for which an `Unregister` and a `Register`
overlapped; `clashed`, those for which two `Register`s of different ports did;
`skipped`, those that replay passed over because they were intended at another
port by then.

### ClientDial

`ClientAgent`'s `Reconnect` in detail. `pc` is where `connectOnce` is. A
candidate is resolved, dialled, greeted (`OpenControl`, `WriteHello`) and
answered (`HelloOK`, `HelloError`) or fails (`DialFails`, `NegotiationFails`,
`ReplyFails`, the last on a connection that lives too); a failed one with a transport is closed and joined (`Cleanup`,
`Joined`, `JoinTimesOut`), and only then its failure, or the close information
that became authoritative meanwhile, decides between the next address
(`RetryAddress`), the next transport (`NextCandidate`) and the end of the cycle
(`Over`). `Ready` and `installSession` are a success, `CloseFlag` and
`CloseSession` the user's `Close`. `RawEnd` ends the connection with any cause;
`Publish` is the adapter's Done, as `TunnelContract` promises it. Close
information is abstracted to what the classification reads.

### ClientStreams

`Accept` takes a slot or `Reject`s; `Advance` and `SetupFails` read the name,
look it up and dial; then two copies, which end in any way and post their result
(`RequestEnds`, `ResponseEnds`, ..., `Post`), a `Watch`er of the client and the
session, and the handler that takes the results (`First`, `Second`, `Drain`,
`Release`). `KindOf` gives each session its transport, and `Abort` is what that
transport makes of it: on QUIC a reset of both directions, of a FIN that is not
yet acknowledged too; on yamux a FIN, after which the stream waits for the edge's
or for `CloseTimeout`. Payload is left out: a copy sees the end of its
input or an error.

### RequestLog

Files are inodes holding complete lines, `<path>` and `<path>.1` two names for
them, an offset a number of lines. A new file gets any number that is free, a
removed file's too. A line is an event or `Corrupt`, which is what a fragment
that could not be repaired and the event after it make; the shipper reads it and
skips it. The sink's `Record`, `WriteOne`, `Flush`,
`Rotate` and `Opened`, and the shipper's `DrainBegin`, `Resolve`, `readBatch`,
`Ship`, `saveCursor`, `RemoveOld` and `Adopt`, interleave; each may fail (a
write may reach the disk in part, a post may be received although it fails). The
errors the code ignores have their consequence: a tail that is not repaired, a
`Stat` of `<path>.1` that fails where it is there, a `Remove` that leaves it
there, a rotation whose flush fails. Three variables are history: `uncounted`,
the losses no counter of the code has; `lapsed`, that the file system has misled
the code (a new file got the number that a cursor still has, or the writer did
not see a `<path>.1` and rotated); `stuck`, that the shipper went past a
`<path>.1` that is still there. `Kill` stops the process between any two steps, `CloseBegin` and `CloseEnd` stop
it in order, `Restart` repairs the tail and starts both again. `Recover` is the
moment after which disk and control plane work.

### TokenCache and CertGate

Both have timers that a `Tick` moves; a question to the control plane takes up
to its timeout and is asked outside the mutex, so that callers overlap and
store in any order, while the control plane's own answers change (`Change`;
`Verify`, `Delegate`). `Answer` lets a delegated domain through when the body of
a 2xx answer cannot be decoded, as the authorizer does. `age` and `since` are history: how long ago an answer was true.
`TokenCache` has `Lookup`, `Answer`, `FetchFails`, `Store` (with `evictLocked`)
and `Return`. `CertGate` has a handshake's `Hello` and `Decide`, `Answer`,
`StoreVerdict`, `Evict`, `Obtain`, the end of CertMagic's order with
`recordSuccess` or `recordFailure`, and `KickAllowed`, `kickWild`, `IssueEnds`
for the names under the base domain.

### How they fit together

`TunnelContract` is what the users of a session rely on: `EdgeStreams`,
`EdgeLifecycle`, `ClientDial` and `ClientStreams` take a session's end and its
streams' Done from it, and both adapters are shown to implement it. `HostTable`
is what `EdgeStreams` relies on of the table: `EdgeRoutes` implements it, by TLC
and by proof, and the part of `EdgeStreams` that stands for the table is proved
to be it too. In the same way the part of `EdgeStreams` that stands for a
transport is proved to keep `TunnelContract`, one copy for each session
(`UsesContract`). These proofs say that the models of the environment add
nothing the specification forbids; that they leave nothing out rests on reading
them beside it, as the abstract modules allow steps `EdgeStreams` splits up: it
installs one host at a time where a register installs several. `ClientAgent`
holds the edge's answers to a register as `EdgeRoutes` gives them, and a
connection cycle as one step, which `ClientDial` opens up.

## 3. Runs

| Run | Instance | States, time | Shows |
|---|---|---|---|
| `routes_hosted` | a session and its replacement in one scope, 2 names, 3 hosts, cap 2, one buffered line | 98 000, 30 s | `TableSound`, `CountsExact`, `ReplyRouted`, `ImplementsTable`, `DeadSessionsDropped` |
| `yamux` | 2 streams, gate of 1 | 14 000, 5 s | `SessionSound`, `ImplementsContract`, `EndsComplete` |
| `quic` | 2 streams, 2 closers, a close by the peer whose code one of them uses too | 178 000, 80 s | `OneEnding`, `ImplementsContract`, `EndsComplete` |
| `streams` | 2 sessions, 2 requests, 1 host, 2 routes, 1 byte, session limit 1, global limit 2 | 260 000, 55 s | `SlotsSound`, `StaleNeverOpens`, `TrafficComplete`, `SlotsReturn` |
| `lifecycle` | one connection of each kind, every limit 1 | 30 s | `Admission`, `FlushComplete`, `NoLateAdd`, `TunnelsEnd` |
| `lifecycle_abort` | the same | — | violation: the final flush is skipped though no worker runs |
| `client` | 2 callers, 2 names, 2 ports, 2 calls, 2 sessions, 1 line in flight per direction | 165 000, 3 min | `RegisterSound`, `NoGhost`, `ReplayCompletes`, `RegisterReturns` |
| `dial` | auto mode, 2 addresses, 3 cycles | 122 000, 13 s | `OneCandidate`, `FallbackRight`, `NoLeak`, `CycleEnds` |
| `agent_streams` | 2 streams, a yamux session and a QUIC session after it, 1 slot | 188 000, 40 s | `SlotsExact`, `ResponseSound`, `HandlersEnd` |
| `reqlog` | 3 events, 3 inode numbers, 1 stop, channel, threshold and batch of 1 | 1 300 000, 3 min | `CursorCovers`, `LossCounted`, `ShippedBeforeRemoved`, `LogDrains` |
| `tokens` | 2 callers, 3 tokens, 2 entries, TTL 2, negative TTL 1, timeout 1 | 766 000, 35 s | `CacheBounded`, `AnswersFresh` |
| `certs` | 2 handshakes, 1 domain, 1 name set, TTL 2 and 1, cooldowns 2 and 1, timeout 1 | 800 000, 2.5 min | `OrderAuthorized`, `IssuanceBounded`, `RetriedUnderTraffic` |

`TableSound`, `SessionSound`, `SlotsSound`, `Admission`, `RegisterSound`,
`CursorCovers`, `OneEnding`, `FallbackRight`, `SlotsExact`, `CacheBounded` and
`IssuanceBounded` are conjunctions whose first part is the module's type
invariant; the parts have names and comments of their own. Modules whose proofs
share a module have names of their own for the usual parts: `DialSpec`,
`TokenInit`, `LogTypeOK`.

Why the bounds are enough for what they are used for. A race over a hostname
has a holder and a challenger. A gate, slot or cap of one is reached by one
owner and contended by the second. A stale route needs one install, one removal
and one re-install, hence two routes. Shutdown meets at most one connection of
each kind at each stage, and the stages of different kinds share only counters.
In the client, two callers and a replay loop contend for the mutex; a late reply
needs one register that timed out and one of another name in its place; one
lost session with one replacement makes every replay; and two ports are what a
name is repointed between, while it is registered and while it is replayed. A cycle differs from the
one before by the last transport and the cooldown, which two cycles set and the
third uses. Three events make two rotations with one event in the new file; at most two
files have names at a time, and the third number is the one that a cursor holds,
or that comes back. `MCRequestLog`'s constraint `Unlapsed` ends the search in the
states after which none of the run's properties says anything. An agent's stream
of either kind meets the end of its session and of the other's. A lookup that is
overtaken by another needs two callers; eviction needs one token more than the
cache holds. A cooldown of two ticks is one that traffic could extend.

Two MC modules choose where TLC starts or what is asked, to keep liveness within
reach. `MCEdgeStreams` starts from two states that `Init` reaches: the host is
routed to one session while another competes for it and one request is left, or
two requests compete for the slots of one session. `MCClientAgent` fixes in
advance what each caller asks for: both compete for one name while sessions die,
at one port, while the edge announces its shutdown too, or at two; or one uses
two names over a session that stays.
`tokens` uses symmetry of callers and of unknown tokens; it checks no liveness.

`CHECK_DEADLOCK FALSE` is set where the system may stop: sessions, requests,
cycles and the process end, and incarnations are finitely many. `tokens` and
`certs` never stop, and TLC checks that.

### Fairness

Only of what the code or its deadlines guarantee, and weak fairness except where
said:

* a runnable goroutine runs: handlers, watchers, `dropSession`, `complete`,
  `finish`, the steps of `Shutdown`;
* a call with a deadline returns: the hostname fetch (5 s), TLS handshake,
  hello, `hello_ok`, a raw yamux open (10 s);
* a closed transport finishes: a claimed session's raw session is closed, its
  streams become done, a locally closed stream's timer fires;
* a candidate's deadline passes, and the wait for its cleanup is limited;
* quic-go wakes a blocked `Write` whose side was cancelled or whose deadline
  passed; the edge ends its half of a stream whose response has ended;
* the log's disk and the control plane fail only finitely often (`Recover`), and
  a stopped process is started again;
* time passes, orders end, and handshakes for a domain keep coming: strong
  fairness of these, as the model's few handshake processes may all be busy and
  the edge's are not;
* `sync.Mutex` starves nobody: strong fairness of the client's callers and
  replay loops, which contend for `registerMu`, and of a QUIC stream's `Close`,
  which contends with writers for `writeMu`;
* the client reconnects in the end, and the edge handles the lines it received
  and notices a dead session (its heartbeat timeout).

No fairness is assumed of visitors, peers, control lines, transports dying,
backends, or `Shutdown` and `Close` being called.

## 4. Findings

One run expects a violation; it states what the repository says of the program,
and TLC's trace is a short scenario in which the code does otherwise.

* **`lifecycle_abort`** — a failed response copy leaves `ServeHTTP` by a panic,
  past the undeferred `finishOrdinaryProxy`; the next `Shutdown` waits out both
  deadlines and skips the final traffic flush. `AbortPinsFlushHolds` proves that
  this is so in every instance and for good.

More disagreements show up when a property is checked in an instance or a form
other than its run's. They were found with TLC in the instances named here.

* *Gauge.* With two scopes that share hosts and a cap, `CountsExact` fails:
  `register` evicts a dead tunnel of the other scope, is then refused by its own
  cap (`edge.go:1358`), and returns without the decrement that the comment at
  `edge.go:1373` describes. Within one scope the eviction makes the room. Lemma
  `OverLimitDrifts` says by how much the gauge is then too high,
  `GaugeNeverUnder` that it is never too low, and `CountsExactHolds` that it is
  exact where no host can be bound by two scopes.
* *Proxy cache.* `proxyFor` (`edge.go:1891`) can re-create a cache entry after
  the route's removal deleted it, though `edge.go:1405` and `1436` say the
  deletion bounds the cache: "every cached proxy's host has a route" fails.
* *Primary host.* A repeated `register` of a held name answers with the primary
  just fetched, while the routes are still those of the first
  (`edge.go:1294`). `ReplyRouted` speaks of the routes.
* *Stranded name.* A `Register` that moves a name to another port is in flight
  when replay takes its snapshot; it fails and rolls back, and replay has skipped
  the name as repointed (`client.go:1083`), although `client.go:1015-1021` says
  replay goes on until nothing is stranded. Without `skipped`, `ReplayCompletes`
  fails in its run.
* *Ghost.* When two callers register one name at different ports and both fail,
  the second restores the first's entry (`client.go:335`). The guard at
  `client.go:333` compares ports only; such names are `clashed`, and without that
  `NoGhost` fails in its run. With one port, the `Register` that fails can in the
  same way delete the entry of the one that succeeded.
* *Blocked reader.* `readControl` can block for good on a live session
  (`stuck`): two lines for one register, and a timeout chosen by `select`
  although a reply is ready (`client.go:1127`). `BlocksOnlyByTwoLinesHolds`
  proves that on a live session there is no other way.
* *Forgotten tunnel.* A register that times out after the edge has served it is
  rolled back on the client only (`client.go:446`); the edge keeps the route
  until the session ends. An `Unregister` that overlaps a `Register` or a replay
  of its name (`client.go:473`) can leave the two sides apart likewise; such
  names are `crossed` and left out of `NoGhost` and `ReplayCompletes`.
* *Spurious limit.* The cap counts a dead session's names that the new tunnel
  does not displace until `dropSession`, where `edge.go:1326` says "only
  genuinely-live tunnels"; a reconnect can be refused meanwhile.
* *Finished response reset.* `EarlyResponseKept` is about a response whose result
  the handler took first. When the request copy's error is taken first, the
  handler aborts the stream although the response was complete
  (`client.go:1288-1293`). Only QUIC shows it: yamux ends an aborted stream with
  a FIN.
* *Truncated response over yamux.* For the same reason a response that the
  backend, the other copy or `Close` cut short ends at the edge as a complete one
  does (`yamux.go:392-395`), unless its own framing tells. The documentation says
  both that tests must tell a FIN from a reset for response bodies and that yamux
  has no reset (`docs/transport-performance-spec.md:403-409`). `NoTruncatedEnd`
  is therefore about QUIC streams.
* *Late count.* A connection's totals are read when it is closed or done
  (`traffic.go:222`), and a `Read` or `Write` that has moved bytes by then may
  still have to add them (`traffic.go:195`, `206`). They are in no total, where
  `traffic.go:180-183` says that the totals include streamed bytes.
  `TrafficComplete` is about what was counted by then; the rest is `late`.
* *Reused inode.* The process is killed after `<path>.1` was removed and before
  the new cursor was saved (`shipper.go:137-143`); a file created later takes the
  removed one's inode number, and the saved offset skips its first lines, where
  `shipper.go:20-22` promises a lossless replay.
* *Rotation over an unshipped file.* The writer takes any error of its `Stat` for
  no `<path>.1` (`file.go:176`) and renames over it, although `file.go:312-316`
  says the rename never overwrites an unshipped file. Either of the two sets
  `lapsed`, and `CursorCovers`, `ShippedBeforeRemoved` and `LossCounted` end
  there: each fails without that exception.
* *Rotated file left behind.* The shipper ignores the error of `os.Remove`
  (`shipper.go:112`, `126`, `137`) and takes any error of its own `Stat` for no
  `<path>.1` (`shipper.go:107`, `117`). Either way it goes on with `<path>` and
  saves a cursor that never leads back: while that `<path>.1` is there the sink
  defers rotation, where `shipper.go:139-141` says that removal lets it resume,
  and what a failed `Stat` hid is not shipped. The model calls this `stuck`, and
  `LogDrains` leaves that file out. Only a lost
  cursor file, or a writer that does not see the file either, ends it.
* *Uncounted loss.* `rotate` ignores its flush's error (`file.go:319`) and its
  caller resets the pending count; and an event that joins a fragment which
  `repairTail` could not remove (`file.go:238-239`) is skipped as corrupt. Such
  events are in no counter. The model keeps them in `uncounted`, and
  `LossCounted` holds of everything else.
* *Undecodable answer.* A 2xx answer whose body cannot be decoded allows an order
  (`resolvehost.go:53-57`), also for a domain the control plane delegates.
  `OrderAuthorized` counts such an answer as one, and proves that a delegated
  domain gets through by nothing else.
* *Route replaced before the open.* The dial checks its route again when it has
  the lease, and opens the stream afterwards (`edge.go:1935-1943`); a route that
  is replaced in between is used once more. `StaleNeverOpens` is about routes that
  had changed before the lease.
* *Cooldown overlap.* A handshake that was authorised before another one's
  failure was recorded may still order during the cooldown; the cooldown bounds
  the rate, not each order.

## 5. Proofs

`EdgeRoutesProofs` proves, for any finite sets of sessions and names, any
hosts, slugs, limits and any binding of hosts to scopes:

* `TypeCorrect`, `RoutesOwnedHolds`, `TunnelsWholeHolds` and from them
  `TableSoundHolds` (invariants), `NoStealHolds` (an action property: no step
  takes a host from a live session but its own unregister), and
* `ImplementsTableHolds`: the specification implements `HostTable`.

The inductive invariant `IndInv` is
`TypeOK ∧ HandlerLocals ∧ SessionPhases ∧ HostsSpellNames ∧ RoutesOwned ∧ TunnelsWhole`.
`RoutesOwned` alone is not inductive: `UnregisterForget` drops a name from the
session's records, which orphans a route unless that handler has already
removed it; that is what `TunnelsWhole` with `HandlerLocals` (what a handler in
the middle of an operation remembers) gives. `HostsSpellNames` — a host a
session records under a name spells that name — is what keeps two tunnels of
one session apart. `SessionPhases` ties `sessions` to where the handler is, and
a handler at `dropSession` to its closed transport. The
assumptions on the constants are their types, finiteness, and
`HostnameSpellsName`: a hostname determines the tunnel name it was made from,
which is `internal/naming`'s rule.

`EdgeRoutesProofs` goes on from `IndInv` to `ReplyRoutedHolds` (with what a
standing answer has in the session's records), to `SlugCapHolds` (a slug's
names over all of its sessions are within its cap) and to the gauge. `Drift` is
what the gauge has beyond the routed tunnels; every action keeps it but
`RegisterOverLimit`, which adds the tunnels it has displaced. So
`GaugeNeverUnder` needs nothing, and `CountsExactHolds` needs that a register
refused at its cap has displaced nothing: where `ScopesDisjoint`, whatever it
displaces is counted by the same cap. `ScopesDisjoint` is a hypothesis on the
constants, true of the subdomain and hyphen hostname shapes.

The refinement maps a register that commits to `Register` with its hosts and the
routes it displaced, and one refused at the cap to `Register` of no host. That a
displaced route was a dead session's is the guard of `Reclaimable`; that what
goes with it, the other hosts of the tunnel, was the same session's is the loop
at `edge.go:1334`. A dropped session registers no more because its handler is
past its loop (`SessionPhases`).

`YamuxSessionProofs` proves, for any finite set of streams and any positive
gate limit:

* `TypeCorrect`, `GateBalancedHolds`, `RegistryCompleteHolds`,
  `DoneCoversStreamsHolds`, from them `SessionSoundHolds`, and
* `ImplementsContractHolds`: `Spec => TunnelContract`'s specification under the
  mapping that sends the streams handed out and not yet done to `live`, and the
  completed or failed ones to `spent`.

Its invariant `IInv` adds to these what each stage of a stream implies (which
stages hold a gate slot, which are registered, what `finish` has taken over).
Counting the gate needs the cardinality lemmas of `FiniteSetTheorems`, one for
adding and one for removing an owner.

`ClientAgentProofs` proves, for any callers, names, ports and bounds on calls,
sessions and queues:

* `TypeCorrect`, `PendingSerialHolds`, `RightReplyHolds` and from them
  `RegisterSoundHolds`.

Its invariant `IndInv` is
`TypeOK ∧ CallLocals ∧ PendingOwned ∧ ReaderHolds ∧ ChannelOwned ∧ ReplayIdle`.
`PendingSerial` needs `CallLocals` (whoever is between taking the mutex and the
end of an attempt holds it) and `PendingOwned` (a slot in use belongs to an
attempt under way on that session). `RightReply` needs `ReaderHolds` as well:
between reading a line and sending it, `readControl` holds a reply for the
register that is still pending. `ReplayIdle` says that a replay loop has not
started before its session is installed. There is one lemma per action.

`NoGhostHolds` adds `Ghostless`: as long as no two calls about a name disagreed
(it is neither `crossed` nor `clashed`) and none has succeeded, it is intended
only on behalf of a `Register` under way that found it not intended and will take
it back, and every `Register` of it under way asks for the port that is intended.
There is no hypothesis on the ports; section 4 says what happens to the names it
excepts. `BlocksOnlyByTwoLinesHolds` is an action property: a step that blocks
the reader of a live session ends the wait of the register that is pending
there, with its reply in the channel and another matching line in the reader's
hand. `ReaderHolds` gives that no reader has a line for anybody else.

`QuicSessionProofs` proves, for any streams, closers and errors:

* `TypeCorrect`, `OneEndingHolds` and `ImplementsContractHolds`.

`IInv` is `TypeOK ∧ Session ∧ Ending`. `Session` says that `finish` misses no
stream: whatever is not Done is registered or taken over; the refinement needs
that and nothing of the ending. `Ending` needs `Claimants`: until a call of
`CloseWithError` has claimed, neither the recorded cause nor the connection's is
its own, which rests on `closeInfoFromQUIC` telling local closes from all
others (`InfoTellsCloser`). Assumed: no error is the value for "none".

`EdgeStreamsProofs` proves, for any sessions, requests, hosts and limits:

* `SlotsSoundHolds`, `StaleNeverOpensHolds`, `AllReportedHolds`,
  `ReportedOnceHolds` and `TrafficCompleteHolds`;
* `ImplementsTableHolds` and `UsesContractHolds`: the table and the transports
  it lets a dial race are those of `HostTable` and `TunnelContract`.

`IInv` is
`TypeOK ∧ SlotsOwned ∧ Phases ∧ DropOrder ∧ Identities ∧ StaleOut ∧ Counters`.
Slots and wait groups are cardinalities of the sets of their owners, moved one
request at a time (`DialCounts`). A stale route is never current again because
`Identities` numbers the routes. `AuthSlotLast` needs `DropOrder`: the slot goes
back after the transport's Done and the last watcher. `TrafficComplete` is a sum
over all streams: its invariant is that the store is the sum of the totals
reported so far (`TrafficIsAdded`), each report adds what one stream has counted,
once, and a later count changes neither the store nor that stream's total
(`Counters`: a byte is counted after it has moved, and late only after the
report). What a
sum does when one term changes is a lemma about `MapThenSumSet`, whose value is
defined by recursion over a set; it is proved by least counterexample on the
size of the set (`Least`, from the library's well-founded order on `Nat`), which
needs no induction theorem. Assumed: the value for "no route" is not a route.

`EdgeLifecycleProofs` proves, for any connections of each kind and any limits:

* `AdmissionHolds`, `FlushCompleteHolds`, `NoLateAddHolds` and
  `AbortPinsFlushHolds`.

Beside the owners of the counters, `IInv` has `LoopsIdle` (an accept loop that
has returned left nothing half admitted), `Snapshots` (from `shuttingDown` on,
every tunnel that is in is in what Shutdown closes) and `Quiet` (Shutdown waits
for watchers, and flushes, with nobody left to start one).

`ClientTransportProofs` proves, for any choice of transport, addresses and
cycles, and for any streams, sessions and capacity:

* of `ClientDial`, `DialTypeCorrect`, `OneCandidateHolds`, `FallbackRightHolds`
  and `NoLeakHolds`; `DialIInv` has `RefusalKept`, by which a refusal that only
  the session's close information carries is still to be looked at wherever the
  cycle is, and `Closes`, by which `Close` and `installSession` agree on
  `c.closed`;
* of `ClientStreams`, `SlotsExactHolds` and `ResponseSoundHolds`; `IInv` follows
  "the response is complete" from the backend through the copy and its result to
  the stream's FIN, over QUIC (`EndsBacked`), and names who may reset a stream
  before a failed result is taken, yamux's timer among them (`ResetsExplained`).

`ControlPlaneProofs` proves

* of `TokenCache`, for any callers, tokens, grants, capacity and lifetimes,
  `CacheBoundedHolds` and `AnswersFreshHolds`; the invariant bounds the age of a
  response under way by the time its fetch has used, and of a cached one by what
  it has used up of its window;
* of `CertGate`, for any handshakes, domains, name sets and timers,
  `OrderAuthorizedHolds` and `IssuanceBoundedHolds`, along the same lines, with
  delegation that comes and goes and answers that cannot be decoded.
  Assumed of the timers: they are positive, and a refusal is not kept longer
  than an authorisation;
* of `RequestLog`, for any events, files, stops, channel, threshold and batch
  size, `CursorCoversHolds`, `LossCountedHolds` and the action property
  `ShippedBeforeRemovedHolds`, with inode numbers that are reused and every
  ignored error: each says what it says until `lapsed`.

The log's invariant `LogInv` is
`LogTypeOK ∧ Names ∧ Sizes ∧ Stages ∧ Losses ∧ (¬lapsed ⇒ Cursors ∧ Drains)`.
`CursorCovers` is not inductive: it says nothing of a cursor whose file may still
grow. `Cursors` says that a cursor of a file with a name is within that file with
everything before it received or corrupt, and `Names` that only `<path>` grows,
that the sink rotates where there is no `<path>.1`, and that what has no name is
empty, so that a number which comes back is a file without lines. `Stages` is
where the shipper is and which files it goes by; `Drains` what it may rely on
between two steps while the sink runs: the `<path>.1` it reads is the cursor's
file; its batch is there; what it is about to remove has been received. Every
step of the sink only makes files grow (`Grown`), so one lemma (`ShipperKept`)
keeps the shipper's part through all of them. `Losses` bounds the abandoned
buffer by `pending`, and a lemma on cardinalities (`LossKept`) adds up what a
step loses and what it counts. `Sizes` keeps offsets within the bound on events.

Only model-checked: the liveness properties (the prover has no fairness or
`ENABLED`), that is `DeadSessionsDropped`, `EndsComplete`, `SlotsReturn`,
`TunnelsEnd`, `ReplayCompletes`, `RegisterReturns`, `CycleEnds`, `HandlersEnd`,
`LogDrains` and `RetriedUnderTraffic`. `CountsExact` is proved under the
hypothesis named above, which its run satisfies; section 4 has what happens
without it.

## 6. Abstractions and what is not modelled

* Messages are their effect: a control line is a register, an unregister or
  anything else; malformed input has no effect on the modelled state.
* The control plane's primary host is one of the hosts it lists.
* Hostname spelling is the constants `Hostname` and `NameOf`.
* `ClientAgent`'s reconnect succeeds or changes nothing; `ClientDial` is the
  cycle in between. In `ClientDial`, a candidate whose cleanup did not finish is
  terminal for its cycle only, as in the code: the next cycle may dial while the
  old transport is still not Done, which `OneCandidate` therefore does not
  forbid.
* `RequestLog` counts lines, not bytes: a line is written in part only at the
  end of a file. The control plane drops duplicates by `request_id`.
* `TokenCache` leaves out a wrong shared secret (a 401 for every token) and
  `SetTTLs`; a fetched answer is stored in the tick in which it arrives, so a
  goroutine that is not scheduled for long is not represented.
* `CertGate` takes from CertMagic that it runs one order per name at a time and
  asks the decision function before it. `PreWarm`, which issues at start-up
  without the in-flight table, is left out.
* HTTP contents, event fields, metrics text and logging are left out.

Not modelled, with the reason for each in `PROJECT.json`: naming, protocol
framing and configuration (character-level rules and parsing without state,
taken as constants); the daemon (it forwards to the client), the MCP server, the
command line except `startRequestPipeline`, device login and DNS adapters
(input and output around one sequential call); generated types, test
applications and performance tools. Of modelled components: the traffic store's
JSON file, the WebSocket heartbeat's byte windows, the QUIC listener's
construction and closing and the server's key files.

## 7. What is left

Every safety property of the runs has its theorem. What could come next:

1. In the model: the traffic store's flush and reload with a crash in between, and
   registers of several hosts in `EdgeStreams`.
2. `ClientDial`'s and `ClientStreams`' use of a session as lemmas about
   `TunnelContract`, as `UsesContractHolds` is for `EdgeStreams`.
3. An abstract specification of what a `Register` promises its caller, which
   `ClientAgent` would implement where overlapping calls agree on the port.
