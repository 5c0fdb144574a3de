------------------------------- MODULE CertGate -------------------------------
(***************************************************************************)
(* When a TLS handshake may make the edge order a certificate              *)
(* (internal/certs: MagicManager.GetCertificate and kickWild,              *)
(* decisionGate, NewResolveHostAuthorizer).                                *)
(*                                                                         *)
(* A custom domain is issued on demand: the gate asks the control plane,   *)
(* caches its verdict, and refuses the domain for a while after a failed   *)
(* order.  A host under the base domain is issued in the background, one   *)
(* order per name set, with a cooldown of its own.  Handshakes run         *)
(* concurrently and the gate asks outside its mutex.                       *)
(*                                                                         *)
(* certmagic is external: it serves a certificate it has, asks the         *)
(* decision function otherwise, and runs one order at a time for a name,   *)
(* which later handshakes wait for.  Time is a tick that moves every       *)
(* timer; only a question and an order take time, and a handshake process  *)
(* serves one handshake a tick.                                            *)
(***************************************************************************)
EXTENDS Integers

CONSTANTS
    Handshake,      \* concurrent handshakes
    Domain,         \* custom domains
    Key,            \* name sets under the base domain
    PosTTL, NegTTL, FailCooldown, AskTimeout, KickCooldown,    \* in ticks
    None

ASSUME TimersAssumption ==
    /\ {PosTTL, NegTTL, FailCooldown, AskTimeout, KickCooldown} \subseteq Nat \ {0}
    /\ NegTTL <= PosTTL

VARIABLES
    verified, up,   \* domain -> the control plane answers 2xx; it is reachable
    delegated,      \* domain -> its cert_mode: the edge must not issue
    since,          \* history: domain -> ticks since an answer let it through
    ever,           \* history: domains that were ever verified
    verdicts,       \* g.verdicts: domain -> None or [ok, left]
    lastFail,       \* g.lastFail: domain -> None or ticks of cooldown left
    cert,           \* certmagic: domains and name sets it has a certificate for
    order,          \* certmagic: domain -> the handshake whose order runs
    hs,             \* handshake -> its GetCertificate
    routed,         \* name sets issueAllowed admits
    inflight,       \* m.inflight
    lastKick,       \* m.lastFail: name set -> None or ticks of cooldown left
    issuing         \* name set -> orders running in the background

planeVars == <<verified, delegated, up, since, ever>>
gateVars == <<verdicts, lastFail>>
magicVars == <<cert, order>>
wildVars == <<routed, inflight, lastKick, issuing>>
certVars == <<planeVars, gateVars, magicVars, hs, wildVars>>

Horizon == PosTTL + AskTimeout
Idle == [pc |-> "idle"]
Rest == [pc |-> "rest"]     \* returned in this tick
At(pc, d) == [pc |-> pc, name |-> d]

Init ==
    /\ verified = [d \in Domain |-> FALSE] /\ up = TRUE
    /\ delegated = [d \in Domain |-> FALSE]
    /\ since = [d \in Domain |-> Horizon] /\ ever = {}
    /\ verdicts = [d \in Domain |-> None] /\ lastFail = [d \in Domain |-> None]
    /\ cert \in SUBSET Key      \* the eager names, where that succeeded
    /\ order = [d \in Domain |-> None]
    /\ hs = [c \in Handshake |-> Idle]
    /\ routed = {} /\ inflight = {}
    /\ lastKick = [k \in Key |-> None] /\ issuing = [k \in Key |-> 0]

-----------------------------------------------------------------------------
(* A custom domain                                                         *)

Cooling(d) == lastFail[d] # None /\ lastFail[d] > 0

\* Decide up to the question: refused while cooling down, otherwise a fresh
\* verdict, otherwise the control plane is asked.
Decide(d) ==
    CASE Cooling(d) -> At("failed", d)
      [] ~Cooling(d) /\ verdicts[d] # None /\ verdicts[d].left > 0 ->
           At(IF verdicts[d].ok THEN "allowed" ELSE "failed", d)
      [] OTHER -> [pc |-> "ask", name |-> d, left |-> AskTimeout]

\* GetCertificate for a domain: certmagic has a certificate or decides.
Hello(c, d) ==
    /\ hs[c].pc = "idle"
    /\ hs' = [hs EXCEPT ![c] = IF d \in cert THEN At("served", d) ELSE Decide(d)]
    /\ UNCHANGED <<planeVars, gateVars, magicVars, wildVars>>

\* The control plane answers.  An unreachable one denies, and so does a domain
\* it does not know or says is delegated; but a 2xx answer whose body is cut
\* short or cannot be decoded (garbled) allows, delegated or not.
Answer(c, garbled) ==
    /\ hs[c].pc = "ask"
    /\ LET d == hs[c].name
           ok == up /\ verified[d] /\ (~delegated[d] \/ garbled)
       IN
        /\ hs' = [hs EXCEPT ![c] = [pc |-> "answer", name |-> d,
                                    left |-> @.left, ok |-> ok]]
        /\ since' = IF ok THEN [since EXCEPT ![d] = 0] ELSE since
    /\ UNCHANGED <<verified, delegated, up, ever, gateVars, magicVars, wildVars>>

\* Mutant: a denial prolongs the authorization it finds.
StoreVerdict_StaleIfDenied(c) ==
    /\ hs[c].pc = "answer"
    /\ LET d == hs[c].name IN
        /\ verdicts' = [verdicts EXCEPT ![d] =
                          IF hs[c].ok \/ verdicts[d] = None
                          THEN [ok |-> hs[c].ok,
                                left |-> IF hs[c].ok THEN PosTTL ELSE NegTTL]
                          ELSE [verdicts[d] EXCEPT !.left = NegTTL]]
        /\ hs' = [hs EXCEPT ![c] = At(IF hs[c].ok THEN "allowed" ELSE "failed", d)]
    /\ UNCHANGED <<planeVars, lastFail, magicVars, wildVars>>

\* Decide caches the outcome, over whatever is cached by then.
StoreVerdict(c) ==
    /\ hs[c].pc = "answer"
    /\ LET d == hs[c].name IN
        /\ verdicts' = [verdicts EXCEPT ![d] =
                          [ok |-> hs[c].ok,
                           left |-> IF hs[c].ok THEN PosTTL ELSE NegTTL]]
        /\ hs' = [hs EXCEPT ![c] = At(IF hs[c].ok THEN "allowed" ELSE "failed", d)]
    /\ UNCHANGED <<planeVars, lastFail, magicVars, wildVars>>

\* evictLocked, for room for another name: an entry is dropped.
Evict(d) ==
    /\ verdicts[d] # None
    /\ verdicts' = [verdicts EXCEPT ![d] = None]
    /\ UNCHANGED <<planeVars, lastFail, magicVars, hs, wildVars>>

\* certmagic orders, or waits for the order that runs.
Obtain(c) ==
    /\ hs[c].pc = "allowed"
    /\ LET d == hs[c].name IN
        IF order[d] = None
          THEN /\ order' = [order EXCEPT ![d] = c]
               /\ hs' = [hs EXCEPT ![c] = At("order", d)]
          ELSE /\ hs' = [hs EXCEPT ![c] = At("wait", d)]
               /\ UNCHANGED order
    /\ UNCHANGED <<planeVars, gateVars, cert, wildVars>>

OrderEnds(c, ok) ==
    /\ hs[c].pc = "order"
    /\ LET d == hs[c].name IN
        /\ cert' = IF ok THEN cert \cup {d} ELSE cert
        /\ order' = [order EXCEPT ![d] = None]
        /\ hs' = [hs EXCEPT ![c] = At(IF ok THEN "served" ELSE "failed", d)]
    /\ UNCHANGED <<planeVars, gateVars, wildVars>>

WaitEnds(c) ==
    /\ hs[c].pc = "wait" /\ order[hs[c].name] = None
    /\ hs' = [hs EXCEPT ![c] =
                At(IF hs[c].name \in cert THEN "served" ELSE "failed", @.name)]
    /\ UNCHANGED <<planeVars, gateVars, magicVars, wildVars>>

recordSuccess(c) ==
    /\ hs[c].pc = "served"
    /\ lastFail' = [lastFail EXCEPT ![hs[c].name] = None]
    /\ hs' = [hs EXCEPT ![c] = Rest]
    /\ UNCHANGED <<planeVars, verdicts, magicVars, wildVars>>

\* The entries whose cooldown has elapsed go, d's starts.
StartCooldown(d) ==
    [e \in Domain |-> IF e = d THEN FailCooldown
                      ELSE IF lastFail[e] = 0 THEN None ELSE lastFail[e]]

\* Mutant: a handshake during the cooldown starts it again.
recordFailure_Extends(c) ==
    /\ hs[c].pc = "failed"
    /\ LET d == hs[c].name IN
        lastFail' = IF verdicts[d] # None /\ verdicts[d].ok
                    THEN StartCooldown(d) ELSE lastFail
    /\ hs' = [hs EXCEPT ![c] = Rest]
    /\ UNCHANGED <<planeVars, verdicts, magicVars, wildVars>>

\* Only of a name with an authorizing verdict, expired or not, and never an
\* extension of an active cooldown.
recordFailure(c) ==
    /\ hs[c].pc = "failed"
    /\ LET d == hs[c].name IN
        lastFail' = IF verdicts[d] # None /\ verdicts[d].ok /\ ~Cooling(d)
                    THEN StartCooldown(d) ELSE lastFail
    /\ hs' = [hs EXCEPT ![c] = Rest]
    /\ UNCHANGED <<planeVars, verdicts, magicVars, wildVars>>

-----------------------------------------------------------------------------
(* A host under the base domain                                            *)

\* GetCertificate without a certificate: issueAllowed is asked before m.mu is
\* taken, and then answers for a table that may have changed.
KickAllowed(c, k) ==
    /\ hs[c].pc = "idle" /\ k \notin cert /\ k \in routed
    /\ hs' = [hs EXCEPT ![c] = At("kick", k)]
    /\ UNCHANGED <<planeVars, gateVars, magicVars, wildVars>>

\* Mutant: the order under way is not looked for.
kickWild_Unguarded(c) ==
    /\ hs[c].pc = "kick"
    /\ LET k == hs[c].name IN
        IF lastKick[k] # None /\ lastKick[k] > 0
          THEN UNCHANGED <<inflight, issuing>>
          ELSE /\ inflight' = inflight \cup {k}
               /\ issuing' = [issuing EXCEPT ![k] = @ + 1]
    /\ hs' = [hs EXCEPT ![c] = Rest]
    /\ UNCHANGED <<planeVars, gateVars, magicVars, routed, lastKick>>

\* kickWild, under m.mu: one order per name set, none during the cooldown.
kickWild(c) ==
    /\ hs[c].pc = "kick"
    /\ LET k == hs[c].name IN
        IF k \in inflight \/ (lastKick[k] # None /\ lastKick[k] > 0)
          THEN UNCHANGED <<inflight, issuing>>
          ELSE /\ inflight' = inflight \cup {k}
               /\ issuing' = [issuing EXCEPT ![k] = @ + 1]
    /\ hs' = [hs EXCEPT ![c] = Rest]
    /\ UNCHANGED <<planeVars, gateVars, magicVars, routed, lastKick>>

\* The goroutine's ManageSync returns.
IssueEnds(k, ok) ==
    /\ issuing[k] > 0
    /\ issuing' = [issuing EXCEPT ![k] = @ - 1]
    /\ inflight' = inflight \ {k}
    /\ cert' = IF ok THEN cert \cup {k} ELSE cert
    /\ lastKick' = [j \in Key |->
                      IF j = k THEN IF ok THEN None ELSE KickCooldown
                      ELSE IF ~ok /\ lastKick[j] = 0 THEN None ELSE lastKick[j]]
    /\ UNCHANGED <<planeVars, gateVars, order, hs, routed>>

-----------------------------------------------------------------------------
(* Time, the control plane, the routes and expiry                          *)

Down(n) == IF n = 0 THEN 0 ELSE n - 1

\* No step but a question or an order outlives a tick, no question its timeout.
Tick ==
    /\ \A c \in Handshake :
         /\ hs[c].pc \in {"idle", "rest", "ask", "answer", "order", "wait"}
         /\ hs[c].pc \in {"ask", "answer"} => hs[c].left > 0
         /\ hs[c].pc = "wait" => order[hs[c].name] # None
    /\ hs' = [c \in Handshake |->
                CASE hs[c].pc \in {"ask", "answer"} -> [hs[c] EXCEPT !.left = @ - 1]
                  [] hs[c].pc = "rest" -> Idle
                  [] OTHER -> hs[c]]
    /\ verdicts' = [d \in Domain |-> IF verdicts[d] = None THEN None
                                     ELSE [verdicts[d] EXCEPT !.left = Down(@)]]
    /\ lastFail' = [d \in Domain |-> IF lastFail[d] = None THEN None
                                     ELSE Down(lastFail[d])]
    /\ lastKick' = [k \in Key |-> IF lastKick[k] = None THEN None
                                  ELSE Down(lastKick[k])]
    /\ since' = [d \in Domain |-> IF verified[d] /\ ~delegated[d] THEN 0
                                  ELSE IF since[d] = Horizon THEN Horizon
                                  ELSE since[d] + 1]
    /\ UNCHANGED <<verified, delegated, up, ever, magicVars, routed, inflight, issuing>>

\* A custom domain is verified, or removed.
Verify(d) ==
    /\ verified' = [verified EXCEPT ![d] = ~@]
    /\ since' = IF delegated[d] THEN since ELSE [since EXCEPT ![d] = 0]
    /\ ever' = ever \cup {d}
    /\ UNCHANGED <<delegated, up, gateVars, magicVars, hs, wildVars>>

\* The customer takes over its certificate, or hands it back.
Delegate(d) ==
    /\ delegated' = [delegated EXCEPT ![d] = ~@]
    /\ since' = IF verified[d] THEN [since EXCEPT ![d] = 0] ELSE since
    /\ UNCHANGED <<verified, ever, up, gateVars, magicVars, hs, wildVars>>

Outage ==
    /\ up' = ~up
    /\ UNCHANGED <<verified, delegated, since, ever, gateVars, magicVars, hs, wildVars>>

\* A tunnel of the name set is registered, or the last one goes.
Route(k) ==
    /\ routed' = IF k \in routed THEN routed \ {k} ELSE routed \cup {k}
    /\ UNCHANGED <<planeVars, gateVars, magicVars, hs, inflight, lastKick, issuing>>

\* A certificate that could not be renewed expires.
Expire(n) ==
    /\ n \in cert
    /\ cert' = cert \ {n}
    /\ UNCHANGED <<planeVars, gateVars, order, hs, wildVars>>

-----------------------------------------------------------------------------
Progress(c) ==
    \/ StoreVerdict(c) \/ Obtain(c) \/ WaitEnds(c) \/ recordSuccess(c)
    \/ recordFailure(c) \/ kickWild(c)
    \/ \E b \in BOOLEAN : Answer(c, b) \/ OrderEnds(c, b)

Next ==
    \/ \E c \in Handshake : \/ Progress(c)
                            \/ \E d \in Domain : Hello(c, d)
                            \/ \E k \in Key : KickAllowed(c, k)
    \/ \E d \in Domain : Evict(d) \/ Verify(d) \/ Delegate(d)
    \/ \E k \in Key : Route(k) \/ \E ok \in BOOLEAN : IssueEnds(k, ok)
    \/ \E n \in Domain \cup Key : Expire(n)
    \/ Tick \/ Outage

Spec == Init /\ [][Next]_certVars

\* Time passes, handshakes keep coming for each domain and go on, the control
\* plane answers or its timeout ends the question, orders end.  Handshakes are
\* strongly fair: the processes of the model may all be busy, the edge's not.
Fairness ==
    /\ WF_certVars(Tick)
    /\ \A c \in Handshake : WF_certVars(Progress(c))
    /\ \A d \in Domain : SF_certVars(\E c \in Handshake : Hello(c, d))

FairSpec == Spec /\ Fairness

-----------------------------------------------------------------------------
(* Properties                                                              *)

\* The tables hold verdicts and timers within their lifetimes.
TypeOK ==
    /\ verified \in [Domain -> BOOLEAN] /\ delegated \in [Domain -> BOOLEAN]
    /\ since \in [Domain -> 0..Horizon]
    /\ \A d \in Domain :
         /\ verdicts[d] # None => /\ verdicts[d].ok \in BOOLEAN
                                  /\ verdicts[d].left \in 0..PosTTL
         /\ lastFail[d] # None => lastFail[d] \in 0..FailCooldown
    /\ cert \subseteq Domain \cup Key
    /\ \A k \in Key : lastKick[k] # None => lastKick[k] \in 0..KickCooldown

\* A handshake is let through to an order only for a domain that less than
\* PosTTL + AskTimeout ago was the edge's to issue, or that an answer of the
\* control plane let through since, whatever verdicts the overlapping
\* handshakes store (decisionGate.Decide).  Such an answer has a 2xx status but
\* may say nothing more: the authorizer takes an undecodable one as a yes, so a
\* delegated domain gets through by it and by nothing else
\* (resolvehost.go:53-59).
OrderAuthorized ==
    \A c \in Handshake :
        hs[c].pc = "allowed" => since[hs[c].name] < PosTTL + AskTimeout

\* Names that strangers send never fill the cooldown table: it holds only
\* domains the control plane once confirmed (recordFailure).  And a name set
\* under the base domain never has two orders running (kickWild).
IssuanceBounded ==
    /\ TypeOK
    /\ \A d \in Domain : lastFail[d] # None => d \in ever
    /\ \A k \in Key : issuing[k] <= 1 /\ (issuing[k] = 1 <=> k \in inflight)

\* A verified domain whose orders fail is tried again and again under
\* continuous traffic: the handshakes its cooldown refuses do not push the
\* cooldown out (recordFailure).
RetriedUnderTraffic ==
    \A d \in Domain :
        <>[](verified[d] /\ ~delegated[d] /\ up) => []<>(d \in cert \/ order[d] # None)
=============================================================================
