------------------------------ MODULE TokenCache ------------------------------
(***************************************************************************)
(* How the edge authorizes a bearer token for a scope (internal/auth:      *)
(* HTTPStore.Resolve, lookup, fetch and evictLocked; MemoryStore.Resolve   *)
(* is Authorize for a key).                                                *)
(*                                                                         *)
(* The control plane's answer for a token is cached, a rejection for a     *)
(* shorter time.  A lookup that misses fetches outside the mutex, so       *)
(* lookups of one token overlap and store in any order, and an answer is   *)
(* already some time old when it is stored.                                *)
(*                                                                         *)
(* Time is a tick that moves every running timer, so that it never ends.   *)
(* A fetch returns within its timeout, and a fetched answer is stored in   *)
(* the same tick.                                                          *)
(***************************************************************************)
EXTENDS Integers, Sequences, FiniteSets

CONSTANTS
    Caller, Token, Scope,
    Grant,          \* the answers: [kind, scopes], unknown when no scopes
    Unknown,        \* the answer for a token nobody was given
    Live,           \* bound: tokens whose grant may change
    NoScope,        \* an empty requested scope
    TTL, NegativeTTL, Timeout,   \* in ticks
    MaxEntries      \* httpStoreCacheMax

ASSUME TimesAssumption ==
    {TTL, NegativeTTL, Timeout, MaxEntries} \subseteq Nat \ {0} /\ NegativeTTL <= TTL
ASSUME GrantAssumption ==
    /\ \A g \in Grant : g.kind \in {"key", "session"} /\ g.scopes \in Seq(Scope)
    /\ Unknown \in Grant /\ Unknown.scopes = <<>> /\ NoScope \notin Scope
    /\ Live \subseteq Token

VARIABLES
    granted,        \* token -> what the control plane would answer
    age,            \* history: token -> answer -> ticks since it was that
    cache,          \* s.cache: token -> answer and the ticks it has left
    call            \* caller -> its call of Resolve

tokenVars == <<granted, age, cache, call>>

Window(g) == (IF g.scopes # <<>> THEN TTL ELSE NegativeTTL) + Timeout
TokenHorizon == TTL + Timeout

NoCall == [pc |-> "idle"]

TokenInit ==
    /\ granted = [t \in Token |-> Unknown]
    /\ age = [t \in Token |-> [g \in Grant |-> IF g = Unknown THEN 0 ELSE TokenHorizon]]
    /\ cache = [t \in {} |-> NoCall]
    /\ call = [c \in Caller |-> NoCall]

-----------------------------------------------------------------------------
(* HTTPStore                                                               *)

\* The requested scope against the result: a session's default is its first
\* scope, a key has one.  NoScope is a rejection.
Authorize(g, scope) ==
    CASE g.scopes = <<>> -> NoScope
      [] scope = NoScope -> Head(g.scopes)
      [] \E n \in DOMAIN g.scopes : g.scopes[n] = scope -> scope
      [] OTHER -> NoScope

Answered(t, scope, g) ==
    [pc |-> "answered", tok |-> t, scope |-> scope, res |-> g,
     slug |-> Authorize(g, scope)]

\* Resolve: a fresh entry answers, anything else is fetched.
Lookup(c, t, scope) ==
    /\ call[c].pc = "idle"
    /\ call' = [call EXCEPT ![c] =
                  IF t \in DOMAIN cache /\ cache[t].left > 0
                  THEN Answered(t, scope, cache[t].res)
                  ELSE [pc |-> "fetch", tok |-> t, scope |-> scope, left |-> Timeout]]
    /\ UNCHANGED <<granted, age, cache>>

\* The control plane answers the request; the response is under way.
PlaneAnswers(c) ==
    /\ call[c].pc = "fetch"
    /\ call' = [call EXCEPT ![c] =
                  [pc |-> "reply", tok |-> @.tok, scope |-> @.scope,
                   left |-> @.left, res |-> granted[@.tok]]]
    /\ UNCHANGED <<granted, age, cache>>

\* A network error, the timeout or another status: denied, and not cached.
FetchFails(c) ==
    /\ call[c].pc \in {"fetch", "reply"}
    /\ call' = [call EXCEPT ![c] = NoCall]
    /\ UNCHANGED <<granted, age, cache>>

\* Mutant: only expired entries are evicted.
evictLocked_ExpiredOnly(kept) ==
    kept = {t \in DOMAIN cache : cache[t].left > 0}

\* evictLocked leaves kept: no expired entry, and at most half the capacity.
evictLocked(kept) ==
    LET live == {t \in DOMAIN cache : cache[t].left > 0}
        half == MaxEntries \div 2
    IN  /\ kept \subseteq live
        /\ Cardinality(live) <= half => kept = live
        /\ Cardinality(live) > half => Cardinality(kept) = half

\* Mutant: a rejection is cached as long as an acceptance.
Store_OneTTL(c, kept) ==
    /\ call[c].pc = "reply"
    /\ IF Cardinality(DOMAIN cache) >= MaxEntries
         THEN evictLocked(kept) ELSE kept = DOMAIN cache
    /\ LET g == call[c].res IN
        /\ cache' = [t \in kept \cup {call[c].tok} |->
                       IF t = call[c].tok THEN [res |-> g, left |-> TTL]
                                          ELSE cache[t]]
        /\ call' = [call EXCEPT ![c] = Answered(@.tok, @.scope, g)]
    /\ UNCHANGED <<granted, age>>

\* lookup stores what it fetched, over whatever is cached by then.
Store(c, kept) ==
    /\ call[c].pc = "reply"
    /\ IF Cardinality(DOMAIN cache) >= MaxEntries
         THEN evictLocked(kept) ELSE kept = DOMAIN cache
    /\ LET g == call[c].res
           ttl == IF g.scopes # <<>> THEN TTL ELSE NegativeTTL
       IN
        /\ cache' = [t \in kept \cup {call[c].tok} |->
                       IF t = call[c].tok THEN [res |-> g, left |-> ttl]
                                          ELSE cache[t]]
        /\ call' = [call EXCEPT ![c] = Answered(@.tok, @.scope, g)]
    /\ UNCHANGED <<granted, age>>

Return(c) ==
    /\ call[c].pc = "answered"
    /\ call' = [call EXCEPT ![c] = NoCall]
    /\ UNCHANGED <<granted, age, cache>>

-----------------------------------------------------------------------------
(* Time and the control plane                                              *)

\* A token is created, loses or gains scopes, or is revoked.
Change(t, g) ==
    /\ granted[t] # g
    /\ granted' = [granted EXCEPT ![t] = g]
    /\ age' = [age EXCEPT ![t][g] = 0]
    /\ UNCHANGED <<cache, call>>

\* No fetch outlives its timeout; an answer is returned within the tick.
TokenTick ==
    /\ \A c \in Caller : /\ call[c].pc \in {"fetch", "reply"} => call[c].left > 0
                         /\ call[c].pc # "answered"
    /\ call' = [c \in Caller |-> IF call[c].pc \in {"fetch", "reply"}
                                 THEN [call[c] EXCEPT !.left = @ - 1]
                                 ELSE call[c]]
    /\ cache' = [t \in DOMAIN cache |->
                   [cache[t] EXCEPT !.left = IF @ = 0 THEN 0 ELSE @ - 1]]
    /\ age' = [t \in Token |-> [g \in Grant |->
                 IF granted[t] = g THEN 0
                 ELSE IF age[t][g] = TokenHorizon THEN TokenHorizon ELSE age[t][g] + 1]]
    /\ UNCHANGED granted

-----------------------------------------------------------------------------
TokenNext ==
    \/ \E c \in Caller, t \in Token, scope \in Scope \cup {NoScope} : Lookup(c, t, scope)
    \/ \E c \in Caller : PlaneAnswers(c) \/ FetchFails(c) \/ Return(c)
    \/ \E c \in Caller, kept \in SUBSET Token : Store(c, kept)
    \/ \E t \in Live, g \in Grant : Change(t, g)
    \/ TokenTick

TokenSpec == TokenInit /\ [][TokenNext]_tokenVars

-----------------------------------------------------------------------------
(* Properties                                                              *)

\* Every variable has its type.
TokenTypeOK ==
    /\ granted \in [Token -> Grant]
    /\ age \in [Token -> [Grant -> 0..TokenHorizon]]
    /\ \A t \in DOMAIN cache : /\ t \in Token
                               /\ cache[t].res \in Grant /\ cache[t].left \in 0..TTL
    /\ \A c \in Caller :
         call[c].pc \in {"fetch", "reply"} => call[c].left \in 0..Timeout

\* The cache stays within its capacity, though every token a peer presents is
\* cached before it is known to be one (lookup, evictLocked).
CacheBounded == TokenTypeOK /\ Cardinality(DOMAIN cache) <= MaxEntries

\* An answer was the control plane's own at some moment of the last
\* TTL + Timeout (NegativeTTL + Timeout for an unknown token): a revoked token or
\* scope is accepted no longer than that, a new token rejected no longer,
\* also when lookups overlap and the older answer is stored last.
AnswersFresh ==
    \A c \in Caller :
        call[c].pc = "answered" =>
            \E g \in Grant :
                /\ age[call[c].tok][g] < Window(call[c].res)
                /\ Authorize(g, call[c].scope) = call[c].slug
=============================================================================
