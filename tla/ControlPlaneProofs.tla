-------------------------- MODULE ControlPlaneProofs --------------------------
(***************************************************************************)
(* Proofs about what the edge keeps of its dealings with the control       *)
(* plane: the token cache (TokenCache), the gate before a certificate      *)
(* order (CertGate), and the request log and its cursor (RequestLog).      *)
(*                                                                         *)
(* For every set of callers, tokens and grants, and all lifetimes: a token *)
(* is answered for by nothing older than its entry's lifetime and a fetch, *)
(* and the cache keeps within its capacity.  For every set of handshakes,  *)
(* domains and name sets, and all timers: an order is of a domain that was *)
(* verified within the verdict's lifetime and a question, strangers do not *)
(* fill the cooldown table, and a name set has one order at a time.  For   *)
(* every number of events, files, kills, every buffer, rotation threshold  *)
(* and batch size, until the file system misleads the code: no cursor      *)
(* skips a line, no unshipped line leaves the disk, and what is lost is    *)
(* counted, but for a line that a write error joined to another.           *)
(***************************************************************************)
EXTENDS TokenCache, CertGate, RequestLog, FiniteSetTheorems, TLAPS

-----------------------------------------------------------------------------
(* The token cache: the inductive invariant                                *)

\* The stages of a call of Resolve, and an entry of the cache.
Scopes == Scope \cup {NoScope}
Fetching == [pc : {"fetch"}, tok : Token, scope : Scopes, left : 0..Timeout]
Replying == [pc : {"reply"}, tok : Token, scope : Scopes, left : 0..Timeout, res : Grant]
Answering == [pc : {"answered"}, tok : Token, scope : Scopes, res : Grant,
              slug : {Authorize(g, s) : g \in Grant, s \in Scopes}]
Entry == [res : Grant, left : 0..TTL]

Lifetime(g) == IF g.scopes # <<>> THEN TTL ELSE NegativeTTL

TokenTypes ==
    /\ granted \in [Token -> Grant]
    /\ age \in [Token -> [Grant -> 0..TokenHorizon]]
    /\ call \in [Caller -> {NoCall} \cup Fetching \cup Replying \cup Answering]
    /\ DOMAIN cache \subseteq Token /\ IsFiniteSet(DOMAIN cache)
    /\ cache \in [DOMAIN cache -> Entry]

\* What the control plane would answer now has no age.
GrantedNow == \A t \in Token : age[t][granted[t]] = 0

\* A response under way is no older than the fetch, a cached answer that may
\* still be used no older than what it has used up of its lifetime, and an
\* answer given is the one it was looked up or fetched as.
AnswersAged ==
    \A c \in Caller :
        /\ call[c].pc = "reply" => age[call[c].tok][call[c].res] + call[c].left <= Timeout
        /\ call[c].pc = "answered" =>
             /\ age[call[c].tok][call[c].res] < Window(call[c].res)
             /\ call[c].slug = Authorize(call[c].res, call[c].scope)
EntriesAged ==
    \A t \in DOMAIN cache :
        cache[t].left > 0 => age[t][cache[t].res] + cache[t].left <= Window(cache[t].res)

Bounded == Cardinality(DOMAIN cache) <= MaxEntries

TokenInv == TokenTypes /\ GrantedNow /\ AnswersAged /\ EntriesAged /\ Bounded

-----------------------------------------------------------------------------
(* Facts about calls                                                       *)

\* The lifetimes as numbers.
LEMMA Times ==
  /\ TTL \in Nat \ {0} /\ NegativeTTL \in Nat \ {0} /\ Timeout \in Nat \ {0}
  /\ MaxEntries \in Nat \ {0} /\ NegativeTTL <= TTL /\ TokenHorizon \in Nat
  /\ \A g \in Grant : /\ Lifetime(g) \in 1..TTL
                      /\ Window(g) = Lifetime(g) + Timeout
  BY TimesAssumption DEF TokenHorizon, Window, Lifetime

\* A call is at one of its stages.
LEMMA CallStages ==
  ASSUME TokenTypes, NEW c \in Caller
  PROVE  /\ call[c].pc \in {"idle", "fetch", "reply", "answered"}
         /\ call[c].pc = "idle" => call[c] = NoCall
         /\ call[c].pc = "fetch" => call[c] \in Fetching
         /\ call[c].pc = "reply" => call[c] \in Replying
         /\ call[c].pc = "answered" => call[c] \in Answering
  BY DEF TokenTypes, NoCall, Fetching, Replying, Answering

\* Of a step that changes one call and not the cache or the control plane.
LEMMA CallStep ==
  ASSUME TokenInv, NEW c \in Caller,
         NEW x \in {NoCall} \cup Fetching \cup Replying \cup Answering,
         call' = [call EXCEPT ![c] = x], UNCHANGED <<granted, age, cache>>,
         x.pc = "reply" => age[x.tok][x.res] + x.left <= Timeout,
         x.pc = "answered" => /\ age[x.tok][x.res] < Window(x.res)
                              /\ x.slug = Authorize(x.res, x.scope)
  PROVE  TokenInv'
<1>1. TokenTypes'
  BY DEF TokenInv, TokenTypes
<1>2. GrantedNow' /\ EntriesAged' /\ Bounded'
  BY DEF TokenInv, GrantedNow, EntriesAged, Bounded
<1>3. \A b \in Caller : call'[b] = IF b = c THEN x ELSE call[b]
  BY DEF TokenInv, TokenTypes
<1>4. AnswersAged'
  BY <1>3 DEF TokenInv, AnswersAged
<1>5. QED
  BY <1>1, <1>2, <1>4 DEF TokenInv

\* The stage of no call.
LEMMA IdleStage == NoCall.pc = "idle"
  BY DEF NoCall

\* An answer for a known token and scope is at its stage.
LEMMA AnsweredStage ==
  ASSUME NEW t \in Token, NEW s \in Scopes, NEW g \in Grant
  PROVE  /\ Answered(t, s, g) \in Answering
         /\ Answered(t, s, g).pc = "answered" /\ Answered(t, s, g).tok = t
         /\ Answered(t, s, g).res = g /\ Answered(t, s, g).scope = s
         /\ Answered(t, s, g).slug = Authorize(g, s)
  BY DEF Answered, Answering

-----------------------------------------------------------------------------
(* The steps of a call, and of time                                        *)

\* A lookup answers from a fresh entry, or starts a fetch.
LEMMA LookupStep ==
  ASSUME TokenInv, NEW c \in Caller, NEW t \in Token, NEW s \in Scopes, Lookup(c, t, s)
  PROVE  TokenInv'
<1>1. CASE t \in DOMAIN cache /\ cache[t].left > 0
  <2>1. cache[t] \in Entry
    BY <1>1 DEF TokenInv, TokenTypes
  <2>2. cache[t].res \in Grant /\ cache[t].left \in 0..TTL
    BY <2>1 DEF Entry
  <2>3. age[t][cache[t].res] \in 0..TokenHorizon
    BY <2>2 DEF TokenInv, TokenTypes
  <2>4. age[t][cache[t].res] < Window(cache[t].res)
    BY <1>1, <2>2, <2>3, Times DEF TokenInv, EntriesAged
  <2> DEFINE x == Answered(t, s, cache[t].res)
  <2>5. call' = [call EXCEPT ![c] = x] /\ UNCHANGED <<granted, age, cache>>
    BY <1>1 DEF Lookup
  <2>6. /\ x \in Answering /\ x.pc = "answered" /\ age[x.tok][x.res] < Window(x.res)
        /\ x.slug = Authorize(x.res, x.scope)
    BY <2>2, <2>4, AnsweredStage
  <2> HIDE DEF x
  <2>7. QED
    BY <2>5, <2>6, CallStep
<1>2. CASE ~(t \in DOMAIN cache /\ cache[t].left > 0)
  <2> DEFINE x == [pc |-> "fetch", tok |-> t, scope |-> s, left |-> Timeout]
  <2>1. call' = [call EXCEPT ![c] = x] /\ UNCHANGED <<granted, age, cache>>
    BY <1>2 DEF Lookup
  <2>2. x \in Fetching /\ x.pc = "fetch"
    BY Times DEF Fetching
  <2>3. QED
    BY <2>1, <2>2, CallStep
<1>3. QED
  BY <1>1, <1>2

\* The control plane answers with what it has granted now.
LEMMA AnswerStep ==
  ASSUME TokenInv, NEW c \in Caller, PlaneAnswers(c)
  PROVE  TokenInv'
<1> DEFINE y == call[c]
           x == [pc |-> "reply", tok |-> y.tok, scope |-> y.scope, left |-> y.left,
                 res |-> granted[y.tok]]
<1>1. y \in Fetching
  BY CallStages DEF TokenInv, PlaneAnswers
<1>2. y.tok \in Token /\ y.scope \in Scopes /\ y.left \in 0..Timeout
  BY <1>1 DEF Fetching
<1>3. granted[y.tok] \in Grant /\ age[y.tok][granted[y.tok]] = 0
  BY <1>2 DEF TokenInv, TokenTypes, GrantedNow
<1>4. x \in Replying
  BY <1>2, <1>3 DEF Replying
<1>5. call' = [call EXCEPT ![c] = x] /\ UNCHANGED <<granted, age, cache>>
  BY DEF PlaneAnswers, TokenInv, TokenTypes
<1>6. age[x.tok][x.res] + x.left <= Timeout
  BY <1>2, <1>3, Times
<1>7. x.pc = "reply"
  OBVIOUS
<1> HIDE DEF x
<1>8. QED
  BY <1>4, <1>5, <1>6, <1>7, CallStep

\* A call that ends, answered or failed, leaves nothing behind.
LEMMA IdleStep ==
  ASSUME TokenInv, NEW c \in Caller, FetchFails(c) \/ Return(c)
  PROVE  TokenInv'
  BY CallStep, IdleStage DEF FetchFails, Return


\* evictLocked makes room: what it keeps and one more entry fit.
LEMMA RoomMade ==
  ASSUME TokenInv, NEW kept,
         IF Cardinality(DOMAIN cache) >= MaxEntries
           THEN evictLocked(kept) ELSE kept = DOMAIN cache
  PROVE  /\ kept \subseteq DOMAIN cache /\ IsFiniteSet(kept)
         /\ Cardinality(kept) \in Nat /\ Cardinality(kept) + 1 <= MaxEntries
<1> DEFINE live == {t \in DOMAIN cache : cache[t].left > 0}
           half == MaxEntries \div 2
<1>1. /\ IsFiniteSet(DOMAIN cache) /\ Cardinality(DOMAIN cache) \in Nat
      /\ IsFiniteSet(live) /\ Cardinality(live) \in Nat
  BY FS_Subset, FS_CardinalityType DEF TokenInv, TokenTypes
<1>2. half \in Nat /\ half + 1 <= MaxEntries
  BY Times
<1>3. CASE Cardinality(DOMAIN cache) >= MaxEntries
  <2>1. evictLocked(kept)
    BY <1>3
  <2>2. /\ kept \subseteq live
        /\ Cardinality(live) <= half => kept = live
        /\ Cardinality(live) > half => Cardinality(kept) = half
    BY <2>1 DEF evictLocked
  <2>3. IsFiniteSet(kept) /\ Cardinality(kept) \in Nat
    BY <1>1, <2>2, FS_Subset, FS_CardinalityType
  <2> HIDE DEF half, live
  <2>4. Cardinality(kept) <= half
    <3>1. CASE Cardinality(live) <= half
      BY <2>2, <3>1
    <3>2. CASE Cardinality(live) > half
      BY <1>2, <2>2, <3>2
    <3>3. QED
      BY <1>1, <1>2, <3>1, <3>2
  <2>5. kept \subseteq DOMAIN cache
    BY <2>2 DEF live
  <2>6. QED
    BY <1>2, <2>3, <2>4, <2>5, Times
<1>4. CASE ~(Cardinality(DOMAIN cache) >= MaxEntries)
  BY <1>1, <1>4, Times
<1>5. QED
  BY <1>3, <1>4

\* What is stored replaces an entry or fits the room that was made, and is as
\* old as the response was.
LEMMA StoreStep ==
  ASSUME TokenInv, NEW c \in Caller, NEW kept, Store(c, kept)
  PROVE  TokenInv'
<1> DEFINE y == call[c]
           g == y.res
           e == [res |-> g, left |-> Lifetime(g)]
           x == Answered(y.tok, y.scope, g)
<1>1. y \in Replying
  BY CallStages DEF TokenInv, Store
<1>2. /\ y.tok \in Token /\ y.scope \in Scopes /\ y.left \in 0..Timeout /\ g \in Grant
      /\ y.pc = "reply"
  BY <1>1 DEF Replying
<1>3. age[y.tok][g] \in Nat /\ age[y.tok][g] <= Timeout
  <2>1. age[y.tok][g] \in 0..TokenHorizon /\ age[y.tok][g] + y.left <= Timeout
    BY <1>2 DEF TokenInv, TokenTypes, AnswersAged
  <2>2. QED
    BY <1>2, <2>1, Times
<1>4. /\ kept \subseteq DOMAIN cache /\ IsFiniteSet(kept)
      /\ Cardinality(kept) \in Nat /\ Cardinality(kept) + 1 <= MaxEntries
  BY RoomMade DEF Store
<1>5. /\ cache' = [t \in kept \cup {y.tok} |-> IF t = y.tok THEN e ELSE cache[t]]
      /\ call' = [call EXCEPT ![c] = x] /\ UNCHANGED <<granted, age>>
  BY DEF Store, Lifetime, TokenInv, TokenTypes
<1>6. /\ DOMAIN cache' = kept \cup {y.tok}
      /\ \A t \in kept \cup {y.tok} : cache'[t] = IF t = y.tok THEN e ELSE cache[t]
  BY <1>5
<1>7. e \in Entry /\ e.res = g /\ e.left = Lifetime(g)
  BY <1>2, Times DEF Entry
<1>8. /\ x \in Answering /\ x.pc = "answered" /\ x.tok = y.tok /\ x.res = g
      /\ x.slug = Authorize(x.res, x.scope)
  BY <1>2, AnsweredStage
<1>9. age[x.tok][x.res] < Window(x.res)
  BY <1>2, <1>3, <1>8, Times
<1> HIDE DEF x, e
<1>10. \A b \in Caller : call'[b] = IF b = c THEN x ELSE call[b]
  BY <1>5 DEF TokenInv, TokenTypes
<1>11. TokenTypes'
  <2>1. IsFiniteSet(kept \cup {y.tok})
    BY <1>4, FS_AddElement
  <2>5. IsFiniteSet(DOMAIN cache') /\ DOMAIN cache' \subseteq Token
    BY <1>2, <1>4, <1>6, <2>1 DEF TokenInv, TokenTypes
  <2>2. cache' \in [DOMAIN cache' -> Entry]
    BY <1>4, <1>5, <1>7 DEF TokenInv, TokenTypes
  <2>3. call' \in [Caller -> {NoCall} \cup Fetching \cup Replying \cup Answering]
    BY <1>5, <1>8 DEF TokenInv, TokenTypes
  <2>4. QED
    BY <1>5, <2>2, <2>3, <2>5 DEF TokenInv, TokenTypes
<1>12. GrantedNow'
  BY <1>5 DEF TokenInv, GrantedNow
<1>13. AnswersAged'
  BY <1>5, <1>8, <1>9, <1>10 DEF TokenInv, AnswersAged
<1>14. EntriesAged'
  <2>1. age[y.tok][g] + Lifetime(g) <= Window(g)
    BY <1>2, <1>3, Times
  <2>2. QED
    BY <1>4, <1>5, <1>6, <1>7, <2>1 DEF TokenInv, EntriesAged
<1>15. Bounded'
  <2>1. Cardinality(kept \cup {y.tok}) \in {Cardinality(kept), Cardinality(kept) + 1}
    BY <1>4, FS_AddElement
  <2>2. QED
    BY <1>4, <1>6, <2>1, Times DEF Bounded
<1>16. QED
  BY <1>11, <1>12, <1>13, <1>14, <1>15 DEF TokenInv

\* No answer that is under way or may still be used is older than before, and
\* none of them changes.
LEMMA YoungerStep ==
  ASSUME TokenInv, TokenTypes', GrantedNow', UNCHANGED <<cache, call>>,
         \A u \in Token, h \in Grant : /\ age[u][h] \in Nat /\ age'[u][h] \in Nat
                                       /\ age'[u][h] <= age[u][h]
  PROVE  TokenInv'
<1>1. AnswersAged'
  <2> SUFFICES ASSUME NEW b \in Caller
               PROVE  /\ call[b].pc = "reply" =>
                           age'[call[b].tok][call[b].res] + call[b].left <= Timeout
                      /\ call[b].pc = "answered" =>
                           /\ age'[call[b].tok][call[b].res] < Window(call[b].res)
                           /\ call[b].slug = Authorize(call[b].res, call[b].scope)
    BY DEF AnswersAged
  <2>1. ASSUME call[b].pc = "reply"
        PROVE  age'[call[b].tok][call[b].res] + call[b].left <= Timeout
    <3>1. call[b].tok \in Token /\ call[b].res \in Grant /\ call[b].left \in 0..Timeout
      BY <2>1, CallStages DEF TokenInv, Replying
    <3>2. QED
      BY <2>1, <3>1, Times DEF TokenInv, AnswersAged
  <2>2. ASSUME call[b].pc = "answered"
        PROVE  /\ age'[call[b].tok][call[b].res] < Window(call[b].res)
               /\ call[b].slug = Authorize(call[b].res, call[b].scope)
    <3>1. call[b].tok \in Token /\ call[b].res \in Grant
      BY <2>2, CallStages DEF TokenInv, Answering
    <3>2. QED
      BY <2>2, <3>1, Times DEF TokenInv, AnswersAged
  <2>3. QED
    BY <2>1, <2>2
<1>2. EntriesAged'
  <2> SUFFICES ASSUME NEW u \in DOMAIN cache, cache[u].left > 0
               PROVE  age'[u][cache[u].res] + cache[u].left <= Window(cache[u].res)
    BY DEF EntriesAged
  <2>1. u \in Token /\ cache[u].res \in Grant /\ cache[u].left \in 0..TTL
    BY DEF TokenInv, TokenTypes, Entry
  <2>2. QED
    BY <2>1, Times DEF TokenInv, EntriesAged
<1>3. Bounded'
  BY DEF TokenInv, Bounded
<1>4. QED
  BY <1>1, <1>2, <1>3 DEF TokenInv

\* A change at the control plane makes no answer older.
LEMMA ChangeStep ==
  ASSUME TokenInv, NEW t \in Token, NEW g \in Grant, Change(t, g)
  PROVE  TokenInv'
<1>1. /\ granted' = [granted EXCEPT ![t] = g] /\ age' = [age EXCEPT ![t][g] = 0]
      /\ UNCHANGED <<cache, call>>
  BY DEF Change
<1>2. \A u \in Token, h \in Grant :
        age'[u][h] = IF u = t /\ h = g THEN 0 ELSE age[u][h]
  BY <1>1 DEF TokenInv, TokenTypes
<1>3. \A u \in Token, h \in Grant : age[u][h] \in Nat /\ age'[u][h] \in Nat
                                    /\ age'[u][h] <= age[u][h]
  <2>1. \A u \in Token, h \in Grant : age[u][h] \in 0..TokenHorizon
    BY DEF TokenInv, TokenTypes
  <2>2. QED
    BY <1>2, <2>1, Times
<1>4. TokenTypes'
  <2>1. age' \in [Token -> [Grant -> 0..TokenHorizon]]
    BY <1>1, Times DEF TokenInv, TokenTypes
  <2>2. QED
    BY <1>1, <2>1 DEF TokenInv, TokenTypes
<1>5. GrantedNow'
  BY <1>1, <1>2 DEF TokenInv, TokenTypes, GrantedNow
<1>6. QED
  BY <1>1, <1>3, <1>4, <1>5, YoungerStep

\* A tick ages an answer by one and takes one from whatever may still use it.
LEMMA TickStep ==
  ASSUME TokenInv, TokenTick
  PROVE  TokenInv'
<1>1. \A u \in Token, h \in Grant : age[u][h] \in 0..TokenHorizon
  BY DEF TokenInv, TokenTypes
<1>2. \A u \in Token, h \in Grant :
        age'[u][h] = IF granted[u] = h THEN 0
                     ELSE IF age[u][h] = TokenHorizon THEN TokenHorizon ELSE age[u][h] + 1
  BY DEF TokenTick
<1>3. \A u \in Token, h \in Grant :
        age'[u][h] \in 0..TokenHorizon /\ age'[u][h] <= age[u][h] + 1
  BY <1>1, <1>2, Times
<1>4. age' \in [Token -> [Grant -> 0..TokenHorizon]]
  <2>1. age' = [t \in Token |-> [g \in Grant |-> age'[t][g]]]
    BY DEF TokenTick
  <2>2. QED
    BY <1>3, <2>1
<1>5. GrantedNow'
  BY <1>2 DEF GrantedNow, TokenTick, TokenInv, TokenTypes
<1>6. /\ DOMAIN cache' = DOMAIN cache
      /\ \A u \in DOMAIN cache :
           cache'[u] = [cache[u] EXCEPT !.left = IF @ = 0 THEN 0 ELSE @ - 1]
  BY DEF TokenTick
<1>7. ASSUME NEW u \in DOMAIN cache
      PROVE  /\ cache[u].res \in Grant /\ cache[u].left \in 0..TTL /\ u \in Token
             /\ cache'[u] \in Entry /\ cache'[u].res = cache[u].res
             /\ cache'[u].left > 0 => cache'[u].left = cache[u].left - 1
                                      /\ cache[u].left > 0
  <2>1. cache[u] \in Entry /\ u \in Token
    BY DEF TokenInv, TokenTypes
  <2>2. QED
    BY <1>6, <2>1, Times DEF Entry
<1>8. EntriesAged'
  <2> SUFFICES ASSUME NEW u \in DOMAIN cache, cache'[u].left > 0
               PROVE  age'[u][cache'[u].res] + cache'[u].left <= Window(cache'[u].res)
    BY <1>6 DEF EntriesAged
  <2>1. age[u][cache[u].res] + cache[u].left <= Window(cache[u].res)
    BY <1>7 DEF TokenInv, EntriesAged
  <2>2. QED
    BY <1>1, <1>3, <1>7, <2>1, Times
<1>9. Bounded'
  BY <1>6 DEF TokenInv, Bounded
<1>10. ASSUME NEW b \in Caller
       PROVE  /\ call'[b] \in {NoCall} \cup Fetching \cup Replying
              /\ call'[b].pc = call[b].pc
              /\ call[b].pc = "reply" => /\ call'[b].tok = call[b].tok
                                         /\ call'[b].res = call[b].res
                                         /\ call'[b].left = call[b].left - 1
                                         /\ call[b] \in Replying
  <2>1. call[b].pc \in {"idle", "fetch", "reply"}
    BY CallStages DEF TokenTick, TokenInv
  <2>2. CASE call[b].pc = "idle"
    <3>1. call'[b] = call[b] /\ call[b] = NoCall
      BY <2>2, CallStages DEF TokenTick, TokenInv
    <3>2. QED
      BY <2>2, <3>1
  <2>3. CASE call[b].pc = "fetch"
    <3>1. call[b] \in Fetching /\ call[b].left > 0
          /\ call'[b] = [call[b] EXCEPT !.left = @ - 1]
      BY <2>3, CallStages DEF TokenTick, TokenInv
    <3>2. QED
      BY <2>3, <3>1, Times DEF Fetching
  <2>4. CASE call[b].pc = "reply"
    <3>1. call[b] \in Replying /\ call[b].left > 0
          /\ call'[b] = [call[b] EXCEPT !.left = @ - 1]
      BY <2>4, CallStages DEF TokenTick, TokenInv
    <3>2. QED
      BY <2>4, <3>1, Times DEF Replying
  <2>5. QED
    BY <2>1, <2>2, <2>3, <2>4
<1>11. \A b \in Caller : call[b].pc # "answered"
  BY DEF TokenTick
<1>12. AnswersAged'
  <2> SUFFICES ASSUME NEW b \in Caller, call'[b].pc = "reply"
               PROVE  age'[call'[b].tok][call'[b].res] + call'[b].left <= Timeout
    BY <1>10, <1>11 DEF AnswersAged
  <2>1. /\ call[b].pc = "reply" /\ call'[b].tok = call[b].tok /\ call'[b].res = call[b].res
        /\ call'[b].left = call[b].left - 1 /\ call[b] \in Replying
    BY <1>10
  <2>2. call[b].tok \in Token /\ call[b].res \in Grant /\ call[b].left \in 0..Timeout
    BY <2>1 DEF Replying
  <2>3. age[call[b].tok][call[b].res] + call[b].left <= Timeout
    BY <2>1 DEF TokenInv, AnswersAged
  <2>4. QED
    BY <1>1, <1>3, <2>1, <2>2, <2>3, Times
<1>13. TokenTypes'
  <2>1. call' \in [Caller -> {NoCall} \cup Fetching \cup Replying \cup Answering]
    BY <1>10 DEF TokenTick
  <2>2. cache' \in [DOMAIN cache' -> Entry]
    BY <1>6, <1>7 DEF TokenTick
  <2>3. QED
    BY <1>4, <1>6, <2>1, <2>2 DEF TokenInv, TokenTypes, TokenTick
<1>14. QED
  BY <1>5, <1>8, <1>9, <1>12, <1>13 DEF TokenInv

-----------------------------------------------------------------------------
(* The token cache: the theorems                                           *)

\* TokenInv holds initially.
LEMMA InitTokenInv == TokenInit => TokenInv
<1> SUFFICES ASSUME TokenInit PROVE TokenInv
  OBVIOUS
<1>1. Unknown \in Grant
  BY GrantAssumption
<1>2. DOMAIN cache = {}
  BY DEF TokenInit
<1>3. IsFiniteSet(DOMAIN cache) /\ Cardinality(DOMAIN cache) = 0
  BY <1>2, FS_EmptySet
<1>4. TokenTypes
  BY <1>1, <1>2, <1>3, Times DEF TokenInit, TokenTypes
<1>5. GrantedNow
  BY <1>1 DEF TokenInit, GrantedNow
<1>6. AnswersAged
  BY IdleStage DEF TokenInit, AnswersAged
<1>7. EntriesAged
  BY <1>2 DEF EntriesAged
<1>8. Bounded
  BY <1>3, Times DEF Bounded
<1>9. QED
  BY <1>4, <1>5, <1>6, <1>7, <1>8 DEF TokenInv

\* Every step keeps TokenInv.
LEMMA NextTokenInv ==
  ASSUME TokenInv, [TokenNext]_tokenVars
  PROVE  TokenInv'
<1>1. CASE UNCHANGED tokenVars
  BY <1>1
  DEF tokenVars, TokenInv, TokenTypes, GrantedNow, AnswersAged, EntriesAged, Bounded
<1>2. CASE \E c \in Caller, t \in Token, scope \in Scope \cup {NoScope} : Lookup(c, t, scope)
  BY <1>2, LookupStep DEF Scopes
<1>3. CASE \E c \in Caller : PlaneAnswers(c) \/ FetchFails(c) \/ Return(c)
  BY <1>3, AnswerStep, IdleStep
<1>4. CASE \E c \in Caller, kept \in SUBSET Token : Store(c, kept)
  BY <1>4, StoreStep
<1>5. CASE \E t \in Live, g \in Grant : Change(t, g)
  BY <1>5, GrantAssumption, ChangeStep
<1>6. CASE TokenTick
  BY <1>6, TickStep
<1>7. QED
  BY <1>1, <1>2, <1>3, <1>4, <1>5, <1>6 DEF TokenNext

\* The inductive invariant holds in every reachable state.
THEOREM TokenInvHolds == TokenSpec => []TokenInv
<1>. QED
  BY InitTokenInv, NextTokenInv, PTL DEF TokenSpec

\* The cache never has more than httpStoreCacheMax entries, for every number of
\* tokens that peers present and every number of lookups that overlap (lookup,
\* evictLocked).
THEOREM CacheBoundedHolds == TokenSpec => []CacheBounded
<1>1. ASSUME TokenInv PROVE CacheBounded
  <2>1. \A t \in DOMAIN cache :
          t \in Token /\ cache[t].res \in Grant /\ cache[t].left \in 0..TTL
    BY <1>1 DEF TokenInv, TokenTypes, Entry
  <2>2. \A c \in Caller : call[c].pc \in {"fetch", "reply"} => call[c].left \in 0..Timeout
    BY <1>1, CallStages DEF TokenInv, Fetching, Replying
  <2>3. QED
    BY <1>1, <2>1, <2>2 DEF TokenInv, TokenTypes, Bounded, CacheBounded, TokenTypeOK
<1>2. QED
  BY <1>1, TokenInvHolds, PTL

\* Every answer of Resolve was the control plane's own within the lifetime of an
\* entry and one fetch: overlapping lookups that store in any order, evictions
\* and changes at the control plane never prolong an older answer (Resolve,
\* lookup).
THEOREM AnswersFreshHolds == TokenSpec => []AnswersFresh
<1>1. ASSUME TokenInv PROVE AnswersFresh
  <2> SUFFICES ASSUME NEW c \in Caller, call[c].pc = "answered"
               PROVE  \E g \in Grant :
                        /\ age[call[c].tok][g] < Window(call[c].res)
                        /\ Authorize(g, call[c].scope) = call[c].slug
    BY DEF AnswersFresh
  <2>1. call[c].res \in Grant
    BY <1>1, CallStages DEF TokenInv, Answering
  <2>2. QED
    BY <1>1, <2>1 DEF TokenInv, AnswersAged
<1>2. QED
  BY <1>1, TokenInvHolds, PTL

-----------------------------------------------------------------------------
(* The certificate gate: the inductive invariant                           *)

\* The stages of a handshake, and the gate's verdict on a domain.
Resting == {Idle, Rest}
Deciding == [pc : {"allowed", "failed", "served", "order", "wait"}, name : Domain]
Kicking == [pc : {"kick"}, name : Key]
Asking == [pc : {"ask"}, name : Domain, left : 0..AskTimeout]
Told == [pc : {"answer"}, name : Domain, left : 0..AskTimeout, ok : BOOLEAN]
Handshakes == Resting \cup Deciding \cup Kicking \cup Asking \cup Told
Verdict == [ok : BOOLEAN, left : 0..PosTTL]

GateTypes ==
    /\ verified \in [Domain -> BOOLEAN] /\ delegated \in [Domain -> BOOLEAN]
    /\ up \in BOOLEAN
    /\ since \in [Domain -> 0..Horizon] /\ ever \subseteq Domain
    /\ verdicts \in [Domain -> Verdict \cup {None}]
    /\ lastFail \in [Domain -> 0..FailCooldown \cup {None}]
    /\ cert \subseteq Domain \cup Key
    /\ hs \in [Handshake -> Handshakes]
    /\ lastKick \in [Key -> 0..KickCooldown \cup {None}]

\* A verified domain that is not delegated is the edge's to issue now.
VerifiedNow ==
    \A d \in Domain : verified[d] => d \in ever /\ (~delegated[d] => since[d] = 0)

\* An authorization under way is no older than the question, a cached one that
\* may still be used no older than what it has used up of its lifetime, and
\* one that is used is not too old.
HandshakeAged(x) ==
    /\ x.pc = "answer" /\ x.ok => since[x.name] + x.left <= AskTimeout /\ x.name \in ever
    /\ x.pc = "allowed" => since[x.name] < PosTTL + AskTimeout
QuestionsAged == \A c \in Handshake : HandshakeAged(hs[c])
VerdictsAged ==
    \A d \in Domain : verdicts[d] # None =>
        /\ verdicts[d].ok => d \in ever
        /\ verdicts[d].ok /\ verdicts[d].left > 0 =>
             since[d] + verdicts[d].left <= PosTTL + AskTimeout

\* A cooldown is of a domain that was authorized.
CooldownsEarned == \A d \in Domain : lastFail[d] # None => d \in ever

\* An order runs in the background exactly while its name set is in flight.
OneOrder ==
    /\ issuing \in [Key -> 0..1] /\ inflight \subseteq Key
    /\ \A k \in Key : issuing[k] = 1 <=> k \in inflight

GateInv ==
    GateTypes /\ VerifiedNow /\ QuestionsAged /\ VerdictsAged /\ CooldownsEarned /\ OneOrder

-----------------------------------------------------------------------------
(* Facts about handshakes                                                  *)

\* The timers as numbers.
LEMMA Timers ==
  /\ PosTTL \in Nat \ {0} /\ NegTTL \in Nat \ {0} /\ FailCooldown \in Nat \ {0}
  /\ AskTimeout \in Nat \ {0} /\ KickCooldown \in Nat \ {0} /\ NegTTL <= PosTTL
  /\ Horizon = PosTTL + AskTimeout /\ Horizon \in Nat
  BY TimersAssumption DEF Horizon

\* A handshake is at one of its stages.
LEMMA HandshakeStages ==
  ASSUME GateTypes, NEW c \in Handshake
  PROVE  /\ hs[c].pc \in {"idle", "rest", "allowed", "failed", "served", "order", "wait",
                          "kick", "ask", "answer"}
         /\ hs[c].pc \in {"idle", "rest"} => hs[c] \in Resting
         /\ hs[c].pc \in {"allowed", "failed", "served", "order", "wait"} =>
              hs[c] \in Deciding /\ hs[c].name \in Domain
         /\ hs[c].pc = "kick" => hs[c] \in Kicking /\ hs[c].name \in Key
         /\ hs[c].pc = "ask" => /\ hs[c] \in Asking /\ hs[c].name \in Domain
                                /\ hs[c].left \in 0..AskTimeout
         /\ hs[c].pc = "answer" => /\ hs[c] \in Told /\ hs[c].name \in Domain
                                   /\ hs[c].left \in 0..AskTimeout /\ hs[c].ok \in BOOLEAN
  BY DEF GateTypes, Handshakes, Resting, Idle, Rest, Deciding, Kicking, Asking, Told

\* The handshake's next stage.
LEMMA NextStages ==
  /\ Idle \in Handshakes /\ Idle.pc = "idle" /\ Rest \in Handshakes /\ Rest.pc = "rest"
  /\ \A d \in Domain : \A p \in {"allowed", "failed", "served", "order", "wait"} :
       At(p, d) \in Handshakes /\ At(p, d).pc = p /\ At(p, d).name = d
  /\ \A k \in Key : At("kick", k) \in Handshakes /\ At("kick", k).pc = "kick"
  BY DEF Handshakes, Resting, Deciding, Kicking, Idle, Rest, At

\* Of a step of handshake c that leaves the timers and the control plane alone.
LEMMA HandshakeStep ==
  ASSUME GateInv, NEW c \in Handshake, NEW x \in Handshakes,
         hs' = [hs EXCEPT ![c] = x], UNCHANGED planeVars, HandshakeAged(x)
  PROVE  hs' \in [Handshake -> Handshakes] /\ QuestionsAged' /\ VerifiedNow'
<1>1. \A b \in Handshake : hs'[b] = IF b = c THEN x ELSE hs[b]
  BY DEF GateInv, GateTypes
<1>2. hs' \in [Handshake -> Handshakes]
  BY DEF GateInv, GateTypes
<1>3. QuestionsAged'
  BY <1>1 DEF GateInv, QuestionsAged, HandshakeAged, planeVars
<1>4. QED
  BY <1>2, <1>3 DEF GateInv, VerifiedNow, planeVars

-----------------------------------------------------------------------------
(* The steps of a handshake, of the background orders and of time          *)

\* A handshake is let through by a fresh verdict only, refused or asked for
\* otherwise.
LEMMA HelloStep ==
  ASSUME GateInv, NEW c \in Handshake, NEW d \in Domain, Hello(c, d)
  PROVE  GateInv'
<1> DEFINE x == IF d \in cert THEN At("served", d) ELSE Decide(d)
<1>1. hs' = [hs EXCEPT ![c] = x] /\ UNCHANGED <<planeVars, gateVars, magicVars, wildVars>>
  BY DEF Hello
<1>2. x \in Handshakes /\ HandshakeAged(x)
  <2>1. CASE d \in cert \/ Cooling(d)
    <3>1. x = At("served", d) \/ x = At("failed", d)
      BY <2>1 DEF Decide
    <3>2. QED
      BY <3>1, NextStages DEF HandshakeAged
  <2>2. CASE d \notin cert /\ ~Cooling(d) /\ verdicts[d] # None /\ verdicts[d].left > 0
    <3>1. verdicts[d] \in Verdict
      BY <2>2 DEF GateInv, GateTypes
    <3>2. x = At(IF verdicts[d].ok THEN "allowed" ELSE "failed", d)
      BY <2>2 DEF Decide
    <3>3. CASE verdicts[d].ok
      <4>1. since[d] < PosTTL + AskTimeout
        <5>1. since[d] \in 0..Horizon /\ verdicts[d].left \in 0..PosTTL
          BY <3>1 DEF GateInv, GateTypes, Verdict
        <5>2. QED
          BY <2>2, <3>3, <5>1, Timers DEF GateInv, VerdictsAged
      <4>2. QED
        BY <3>2, <3>3, <4>1, NextStages DEF HandshakeAged
    <3>4. CASE ~verdicts[d].ok
      BY <3>2, <3>4, NextStages DEF HandshakeAged
    <3>5. QED
      BY <3>3, <3>4
  <2>3. CASE d \notin cert /\ ~Cooling(d) /\ ~(verdicts[d] # None /\ verdicts[d].left > 0)
    <3>1. x = [pc |-> "ask", name |-> d, left |-> AskTimeout]
      BY <2>3 DEF Decide
    <3>2. x \in Asking /\ x.pc = "ask"
      BY <3>1, Timers DEF Asking
    <3>3. QED
      BY <3>2 DEF Handshakes, HandshakeAged
  <2>4. QED
    BY <2>1, <2>2, <2>3
<1> HIDE DEF x
<1>3. hs' \in [Handshake -> Handshakes] /\ QuestionsAged' /\ VerifiedNow'
  BY <1>1, <1>2, HandshakeStep
<1>4. QED
  BY <1>1, <1>3
  DEF GateInv, GateTypes, VerdictsAged, CooldownsEarned, OneOrder, planeVars, gateVars, magicVars,
      wildVars

\* Of a step in which the control plane's word on domain d changes: no
\* authorization gets older.
LEMMA WordStep ==
  ASSUME GateInv, NEW d \in Domain, UNCHANGED <<verdicts, hs>>,
         since' = since \/ since' = [since EXCEPT ![d] = 0], ever' = ever \/ ever' = ever \cup {d}
  PROVE  since' \in [Domain -> 0..Horizon] /\ VerdictsAged' /\ QuestionsAged'
<1>1. \A e \in Domain : since[e] \in 0..Horizon /\ since'[e] \in 0..Horizon
                        /\ since'[e] <= since[e]
  BY Timers DEF GateInv, GateTypes
<1>2. since' \in [Domain -> 0..Horizon]
  BY Timers DEF GateInv, GateTypes
<1>3. QuestionsAged'
  <2> SUFFICES ASSUME NEW c \in Handshake PROVE HandshakeAged(hs[c])'
    BY DEF QuestionsAged
  <2>1. HandshakeAged(hs[c])
    BY DEF GateInv, QuestionsAged
  <2>2. ASSUME hs[c].pc = "answer", hs[c].ok
        PROVE  since'[hs[c].name] + hs[c].left <= AskTimeout /\ hs[c].name \in ever'
    <3>1. hs[c].name \in Domain /\ hs[c].left \in 0..AskTimeout
      BY <2>2, HandshakeStages DEF GateInv
    <3>2. since[hs[c].name] + hs[c].left <= AskTimeout /\ hs[c].name \in ever
      BY <2>1, <2>2 DEF HandshakeAged
    <3>3. QED
      BY <1>1, <3>1, <3>2, Timers
  <2>3. ASSUME hs[c].pc = "allowed"
        PROVE  since'[hs[c].name] < PosTTL + AskTimeout
    <3>1. hs[c].name \in Domain
      BY <2>3, HandshakeStages DEF GateInv
    <3>2. since[hs[c].name] < PosTTL + AskTimeout
      BY <2>1, <2>3 DEF HandshakeAged
    <3>3. QED
      BY <1>1, <3>1, <3>2, Timers
  <2>4. QED
    BY <2>2, <2>3 DEF HandshakeAged
<1>4. VerdictsAged'
  <2> SUFFICES ASSUME NEW e \in Domain, verdicts[e] # None, verdicts[e].ok
               PROVE  /\ e \in ever'
                      /\ verdicts[e].left > 0 =>
                           since'[e] + verdicts[e].left <= PosTTL + AskTimeout
    BY DEF VerdictsAged
  <2>1. verdicts[e].left \in 0..PosTTL
    BY DEF GateInv, GateTypes, Verdict
  <2>2. QED
    BY <1>1, <2>1, Timers DEF GateInv, VerdictsAged
<1>5. QED
  BY <1>2, <1>3, <1>4

\* The control plane lets a domain through by a 2xx answer only.
LEMMA AskedStep ==
  ASSUME GateInv, NEW c \in Handshake, NEW garbled \in BOOLEAN, Answer(c, garbled)
  PROVE  GateInv'
<1> DEFINE y == hs[c]
           d == y.name
           ok == up /\ verified[d] /\ (~delegated[d] \/ garbled)
           x == [pc |-> "answer", name |-> d, left |-> y.left, ok |-> ok]
<1>1. /\ hs' = [hs EXCEPT ![c] = x]
      /\ since' = IF ok THEN [since EXCEPT ![d] = 0] ELSE since
      /\ UNCHANGED <<verified, delegated, up, ever, gateVars, magicVars, wildVars>>
  BY DEF Answer, GateInv, GateTypes
<1>2. d \in Domain /\ y.left \in 0..AskTimeout
  BY HandshakeStages DEF Answer, GateInv
<1>3. ok \in BOOLEAN /\ (ok => d \in ever)
  BY <1>2 DEF GateInv, GateTypes, VerifiedNow
<1>4. x \in Handshakes
  <2> HIDE DEF ok
  <2>1. QED
    BY <1>2, <1>3 DEF Handshakes, Told
<1>5. since' \in {since, [since EXCEPT ![d] = 0]} /\ (ok => since'[d] = 0)
  BY <1>1, <1>2 DEF GateInv, GateTypes
<1> HIDE DEF ok
<1>6. \A e \in Domain : since[e] \in 0..Horizon /\ since'[e] \in 0..Horizon
                        /\ since'[e] <= since[e]
  BY <1>5, <1>2, Timers DEF GateInv, GateTypes
<1>7. QuestionsAged'
  <2> SUFFICES ASSUME NEW b \in Handshake PROVE HandshakeAged(hs[b])'
    BY DEF QuestionsAged
  <2>1. CASE b = c
    <3>1. hs'[b] = x
      BY <1>1, <2>1 DEF GateInv, GateTypes
    <3>2. ok => since'[d] + y.left <= AskTimeout /\ d \in ever'
      BY <1>1, <1>2, <1>3, <1>5, Timers
    <3>3. QED
      BY <3>1, <3>2 DEF HandshakeAged
  <2>2. CASE b # c
    <3>1. hs'[b] = hs[b]
      BY <1>1, <2>2 DEF GateInv, GateTypes
    <3>2. HandshakeAged(hs[b])
      BY DEF GateInv, QuestionsAged
    <3>3. ASSUME hs[b].pc = "answer", hs[b].ok
          PROVE  since'[hs[b].name] + hs[b].left <= AskTimeout /\ hs[b].name \in ever'
      <4>1. hs[b].name \in Domain /\ hs[b].left \in 0..AskTimeout
        BY <3>3, HandshakeStages DEF GateInv
      <4>2. since[hs[b].name] + hs[b].left <= AskTimeout /\ hs[b].name \in ever
        BY <3>2, <3>3 DEF HandshakeAged
      <4>3. QED
        BY <1>1, <1>6, <4>1, <4>2, Timers
    <3>4. ASSUME hs[b].pc = "allowed"
          PROVE  since'[hs[b].name] < PosTTL + AskTimeout
      <4>1. hs[b].name \in Domain
        BY <3>4, HandshakeStages DEF GateInv
      <4>2. since[hs[b].name] < PosTTL + AskTimeout
        BY <3>2, <3>4 DEF HandshakeAged
      <4>3. QED
        BY <1>6, <4>1, <4>2, Timers
    <3>5. QED
      BY <3>1, <3>3, <3>4 DEF HandshakeAged
  <2>3. QED
    BY <2>1, <2>2
<1>8. VerdictsAged'
  <2> SUFFICES ASSUME NEW e \in Domain, verdicts[e] # None, verdicts[e].ok
               PROVE  /\ e \in ever
                      /\ verdicts[e].left > 0 =>
                           since'[e] + verdicts[e].left <= PosTTL + AskTimeout
    BY <1>1 DEF VerdictsAged, gateVars
  <2>1. verdicts[e].left \in 0..PosTTL
    BY DEF GateInv, GateTypes, Verdict
  <2>2. QED
    BY <1>6, <2>1, Timers DEF GateInv, VerdictsAged
<1>9. VerifiedNow'
  BY <1>1, <1>2, <1>5 DEF GateInv, GateTypes, VerifiedNow
<1>10. GateTypes'
  <2>1. hs' \in [Handshake -> Handshakes]
    BY <1>1, <1>4 DEF GateInv, GateTypes
  <2>2. since' \in [Domain -> 0..Horizon]
    BY <1>5, Timers DEF GateInv, GateTypes
  <2>3. QED
    BY <1>1, <2>1, <2>2 DEF GateInv, GateTypes, gateVars, magicVars, wildVars
<1>11. CooldownsEarned' /\ OneOrder'
  BY <1>1 DEF GateInv, CooldownsEarned, OneOrder, gateVars, wildVars
<1>12. QED
  BY <1>7, <1>8, <1>9, <1>10, <1>11 DEF GateInv

\* A verdict is stored for the lifetime its answer has.
LEMMA StoreVerdictStep ==
  ASSUME GateInv, NEW c \in Handshake, StoreVerdict(c)
  PROVE  GateInv'
<1> DEFINE y == hs[c]
           d == y.name
           v == [ok |-> y.ok, left |-> IF y.ok THEN PosTTL ELSE NegTTL]
           x == At(IF y.ok THEN "allowed" ELSE "failed", d)
<1>1. /\ hs' = [hs EXCEPT ![c] = x] /\ verdicts' = [verdicts EXCEPT ![d] = v]
      /\ UNCHANGED <<planeVars, lastFail, magicVars, wildVars>>
  BY DEF StoreVerdict
<1>2. d \in Domain /\ y.left \in 0..AskTimeout /\ y.ok \in BOOLEAN
  BY HandshakeStages DEF StoreVerdict, GateInv
<1>3. v \in Verdict /\ v.ok = y.ok /\ (y.ok => v.left = PosTTL)
  BY <1>2, Timers DEF Verdict
<1>4. y.ok => since[d] \in Nat /\ since[d] <= AskTimeout /\ d \in ever
  <2>1. y.ok => since[d] + y.left <= AskTimeout /\ d \in ever
    BY DEF StoreVerdict, GateInv, QuestionsAged, HandshakeAged
  <2>2. since[d] \in 0..Horizon
    BY <1>2 DEF GateInv, GateTypes
  <2>3. QED
    BY <1>2, <2>1, <2>2, Timers
<1>5. x \in Handshakes /\ HandshakeAged(x)
  BY <1>2, <1>4, NextStages, Timers DEF HandshakeAged
<1> HIDE DEF x, v
<1>6. hs' \in [Handshake -> Handshakes] /\ QuestionsAged' /\ VerifiedNow'
  BY <1>1, <1>5, HandshakeStep
<1>7. \A e \in Domain : verdicts'[e] = IF e = d THEN v ELSE verdicts[e]
  BY <1>1 DEF GateInv, GateTypes
<1>8. verdicts' \in [Domain -> Verdict \cup {None}]
  BY <1>1, <1>3 DEF GateInv, GateTypes
<1>9. VerdictsAged'
  <2>1. since' = since /\ ever' = ever
    BY <1>1 DEF planeVars
  <2>2. v.ok /\ v.left > 0 => since[d] + v.left <= PosTTL + AskTimeout
    BY <1>3, <1>4, Timers
  <2>3. QED
    BY <1>3, <1>4, <1>7, <2>1, <2>2 DEF GateInv, VerdictsAged
<1>10. QED
  BY <1>1, <1>6, <1>8, <1>9
  DEF GateInv, GateTypes, CooldownsEarned, OneOrder, planeVars, magicVars, wildVars

\* certmagic's steps: an order begins, ends, or is waited for.
LEMMA OrderStep ==
  ASSUME GateInv, NEW c \in Handshake,
         Obtain(c) \/ WaitEnds(c) \/ \E ok \in BOOLEAN : OrderEnds(c, ok)
  PROVE  GateInv'
<1> DEFINE d == hs[c].name
<1>1. hs[c].pc \in {"allowed", "wait", "order"} /\ d \in Domain
  BY HandshakeStages DEF Obtain, WaitEnds, OrderEnds, GateInv
<1>2. \E p \in {"order", "wait", "served", "failed"} : hs' = [hs EXCEPT ![c] = At(p, d)]
  BY DEF Obtain, WaitEnds, OrderEnds, GateInv, GateTypes
<1>3. PICK p \in {"order", "wait", "served", "failed"} : hs' = [hs EXCEPT ![c] = At(p, d)]
  BY <1>2
<1>4. UNCHANGED <<planeVars, gateVars, wildVars>> /\ cert' \subseteq cert \cup {d}
  BY DEF Obtain, WaitEnds, OrderEnds, magicVars
<1>5. At(p, d) \in Handshakes /\ HandshakeAged(At(p, d))
  BY <1>1, NextStages DEF HandshakeAged
<1>6. hs' \in [Handshake -> Handshakes] /\ QuestionsAged' /\ VerifiedNow'
  BY <1>3, <1>4, <1>5, HandshakeStep
<1>7. cert' \subseteq Domain \cup Key
  BY <1>1, <1>4 DEF GateInv, GateTypes
<1>8. QED
  BY <1>4, <1>6, <1>7
  DEF GateInv, GateTypes, VerdictsAged, CooldownsEarned, OneOrder, planeVars, gateVars, wildVars

\* The handshake records its outcome: a cooldown starts for a domain with an
\* authorizing verdict only.
LEMMA RecordStep ==
  ASSUME GateInv, NEW c \in Handshake, recordSuccess(c) \/ recordFailure(c)
  PROVE  GateInv'
<1> DEFINE d == hs[c].name
<1>1. d \in Domain
  BY HandshakeStages DEF recordSuccess, recordFailure, GateInv
<1>2. /\ hs' = [hs EXCEPT ![c] = Rest]
      /\ UNCHANGED <<planeVars, verdicts, magicVars, wildVars>>
  BY DEF recordSuccess, recordFailure
<1>3. hs' \in [Handshake -> Handshakes] /\ QuestionsAged' /\ VerifiedNow'
  BY <1>2, NextStages, HandshakeStep DEF HandshakeAged
<1>4. /\ lastFail' \in [Domain -> 0..FailCooldown \cup {None}]
      /\ \A e \in Domain : lastFail'[e] # None => e \in ever
  <2>1. CASE recordSuccess(c)
    BY <1>1, <2>1 DEF recordSuccess, GateInv, GateTypes, CooldownsEarned
  <2>2. CASE recordFailure(c) /\ verdicts[d] # None /\ verdicts[d].ok /\ ~Cooling(d)
    <3>1. d \in ever
      BY <1>1, <2>2 DEF GateInv, VerdictsAged
    <3>2. lastFail' = StartCooldown(d)
      BY <2>2 DEF recordFailure
    <3>3. \A e \in Domain : lastFail'[e] = IF e = d THEN FailCooldown
                                           ELSE IF lastFail[e] = 0 THEN None ELSE lastFail[e]
      BY <3>2 DEF StartCooldown
    <3>4. \A e \in Domain : lastFail'[e] \in 0..FailCooldown \cup {None}
      BY <3>3, Timers DEF GateInv, GateTypes
    <3>5. lastFail' \in [Domain -> 0..FailCooldown \cup {None}]
      BY <3>2, <3>4 DEF StartCooldown
    <3>6. QED
      BY <3>1, <3>3, <3>5 DEF GateInv, CooldownsEarned
  <2>3. CASE recordFailure(c) /\ ~(verdicts[d] # None /\ verdicts[d].ok /\ ~Cooling(d))
    <3>1. lastFail' = lastFail
      BY <2>3 DEF recordFailure
    <3>2. QED
      BY <3>1 DEF GateInv, GateTypes, CooldownsEarned
  <2>4. QED
    BY <2>1, <2>2, <2>3
<1>5. QED
  BY <1>2, <1>3, <1>4
  DEF GateInv, GateTypes, VerdictsAged, CooldownsEarned, OneOrder, planeVars, magicVars, wildVars

\* kickWild starts an order only where none is in flight.
LEMMA KickStep ==
  ASSUME GateInv, NEW c \in Handshake, kickWild(c)
  PROVE  GateInv'
<1> DEFINE k == hs[c].name
<1>1. k \in Key
  BY HandshakeStages DEF kickWild, GateInv
<1>2. /\ hs' = [hs EXCEPT ![c] = Rest]
      /\ UNCHANGED <<planeVars, gateVars, magicVars, lastKick>>
  BY DEF kickWild
<1>3. hs' \in [Handshake -> Handshakes] /\ QuestionsAged' /\ VerifiedNow'
  BY <1>2, NextStages, HandshakeStep DEF HandshakeAged
<1>4. OneOrder'
  <2>1. CASE UNCHANGED <<inflight, issuing>>
    BY <2>1 DEF GateInv, OneOrder
  <2>2. CASE /\ k \notin inflight /\ inflight' = inflight \cup {k}
             /\ issuing' = [issuing EXCEPT ![k] = @ + 1]
    <3>1. issuing[k] = 0
      BY <1>1, <2>2 DEF GateInv, OneOrder
    <3>2. \A j \in Key : issuing'[j] = IF j = k THEN 1 ELSE issuing[j]
      BY <2>2, <3>1 DEF GateInv, OneOrder
    <3>3. issuing' = [j \in Key |-> issuing'[j]]
      BY <2>2 DEF GateInv, OneOrder
    <3>4. \A j \in Key : issuing'[j] \in 0..1
      BY <3>2 DEF GateInv, OneOrder
    <3>5. issuing' \in [Key -> 0..1]
      BY <3>3, <3>4
    <3>6. QED
      BY <1>1, <2>2, <3>2, <3>5 DEF GateInv, OneOrder
  <2>3. QED
    BY <2>1, <2>2 DEF kickWild
<1>5. QED
  BY <1>2, <1>3, <1>4
  DEF GateInv, GateTypes, VerdictsAged, CooldownsEarned, planeVars, gateVars, magicVars

\* A handshake for a routed name set goes on to kickWild.
LEMMA KickAllowedStep ==
  ASSUME GateInv, NEW c \in Handshake, NEW k \in Key, KickAllowed(c, k)
  PROVE  GateInv'
<1>1. /\ hs' = [hs EXCEPT ![c] = At("kick", k)]
      /\ UNCHANGED <<planeVars, gateVars, magicVars, wildVars>>
  BY DEF KickAllowed
<1>2. hs' \in [Handshake -> Handshakes] /\ QuestionsAged' /\ VerifiedNow'
  BY <1>1, NextStages, HandshakeStep DEF HandshakeAged
<1>3. QED
  BY <1>1, <1>2
  DEF GateInv, GateTypes, VerdictsAged, CooldownsEarned, OneOrder, planeVars, gateVars, magicVars,
      wildVars

\* The end of a background order clears its name set.
LEMMA IssueEndsStep ==
  ASSUME GateInv, NEW k \in Key, NEW ok \in BOOLEAN, IssueEnds(k, ok)
  PROVE  GateInv'
<1>1. UNCHANGED <<planeVars, gateVars, hs>> /\ cert' \subseteq cert \cup {k}
  BY DEF IssueEnds
<1>2. OneOrder'
  <2>1. issuing[k] = 1
    BY DEF IssueEnds, GateInv, OneOrder
  <2>2. /\ \A j \in Key : issuing'[j] = IF j = k THEN 0 ELSE issuing[j]
        /\ inflight' = inflight \ {k}
    BY <2>1 DEF IssueEnds, GateInv, OneOrder
  <2>3. issuing' \in [Key -> 0..1]
    BY <2>1 DEF IssueEnds, GateInv, OneOrder
  <2>4. QED
    BY <2>2, <2>3 DEF GateInv, OneOrder
<1>3. lastKick' \in [Key -> 0..KickCooldown \cup {None}]
  <2>1. lastKick' = [j \in Key |->
                      IF j = k THEN IF ok THEN None ELSE KickCooldown
                      ELSE IF ~ok /\ lastKick[j] = 0 THEN None ELSE lastKick[j]]
    BY DEF IssueEnds
  <2>2. \A j \in Key : lastKick[j] \in 0..KickCooldown \cup {None}
    BY DEF GateInv, GateTypes
  <2>3. QED
    BY <2>1, <2>2, Timers
<1>4. cert' \subseteq Domain \cup Key
  BY <1>1 DEF GateInv, GateTypes
<1>5. QED
  BY <1>1, <1>2, <1>3, <1>4
  DEF GateInv, GateTypes, VerifiedNow, QuestionsAged, HandshakeAged, VerdictsAged, CooldownsEarned,
      planeVars, gateVars

\* The steps that leave every handshake, timer and order alone.
LEMMA AsideStep ==
  ASSUME GateInv,
         \/ \E d \in Domain : Evict(d)
         \/ \E k \in Key : Route(k)
         \/ \E n \in Domain \cup Key : Expire(n)
         \/ Outage \/ UNCHANGED certVars
  PROVE  GateInv'
<1>1. /\ UNCHANGED <<verified, delegated, since, ever, lastFail, hs, inflight, lastKick,
                     issuing>>
      /\ cert' \subseteq cert /\ up' \in BOOLEAN
      /\ verdicts' \in [Domain -> Verdict \cup {None}]
      /\ \A d \in Domain : verdicts'[d] \in {verdicts[d], None}
  <2>1. CASE \E d \in Domain : Evict(d)
    BY <2>1 DEF Evict, GateInv, GateTypes, planeVars, magicVars, wildVars
  <2>2. CASE \E k \in Key : Route(k)
    BY <2>2 DEF Route, GateInv, GateTypes, planeVars, gateVars, magicVars
  <2>3. CASE \E n \in Domain \cup Key : Expire(n)
    BY <2>3 DEF Expire, GateInv, GateTypes, planeVars, gateVars, wildVars
  <2>4. CASE Outage
    BY <2>4 DEF Outage, GateInv, GateTypes, gateVars, magicVars, wildVars
  <2>5. CASE UNCHANGED certVars
    BY <2>5 DEF certVars, GateInv, GateTypes, planeVars, gateVars, magicVars, wildVars
  <2>6. QED
    BY <2>1, <2>2, <2>3, <2>4, <2>5
<1>2. GateTypes'
  BY <1>1 DEF GateInv, GateTypes
<1>3. VerdictsAged'
  BY <1>1 DEF GateInv, VerdictsAged
<1>4. VerifiedNow' /\ QuestionsAged' /\ CooldownsEarned' /\ OneOrder'
  BY <1>1 DEF GateInv, VerifiedNow, QuestionsAged, HandshakeAged, CooldownsEarned, OneOrder
<1>5. QED
  BY <1>2, <1>3, <1>4 DEF GateInv

\* A domain's verification, removal or delegation makes no authorization older.
LEMMA VerifyStep ==
  ASSUME GateInv, NEW d \in Domain, Verify(d) \/ Delegate(d)
  PROVE  GateInv'
<1>1. /\ since' = since \/ since' = [since EXCEPT ![d] = 0]
      /\ ever' = ever \/ ever' = ever \cup {d}
      /\ UNCHANGED <<up, gateVars, magicVars, hs, wildVars>>
      /\ verified' \in [Domain -> BOOLEAN] /\ delegated' \in [Domain -> BOOLEAN]
  BY DEF Verify, Delegate, GateInv, GateTypes
<1>2. since' \in [Domain -> 0..Horizon] /\ VerdictsAged' /\ QuestionsAged'
  BY <1>1, WordStep DEF gateVars
<1>3. GateTypes'
  BY <1>1, <1>2 DEF GateInv, GateTypes, gateVars, magicVars, wildVars
<1>4. VerifiedNow'
  <2> SUFFICES ASSUME NEW e \in Domain, verified'[e]
               PROVE  e \in ever' /\ (~delegated'[e] => since'[e] = 0)
    BY DEF VerifiedNow
  <2>1. CASE Verify(d)
    BY <2>1 DEF Verify, GateInv, GateTypes, VerifiedNow
  <2>2. CASE Delegate(d)
    BY <2>2 DEF Delegate, GateInv, GateTypes, VerifiedNow
  <2>3. QED
    BY <2>1, <2>2
<1>5. CooldownsEarned' /\ OneOrder'
  BY <1>1 DEF GateInv, CooldownsEarned, OneOrder, gateVars, wildVars
<1>6. QED
  BY <1>2, <1>3, <1>4, <1>5 DEF GateInv

\* A tick ages an authorization by one and takes one from whatever may still
\* use it.
LEMMA GateTickStep ==
  ASSUME GateInv, Tick
  PROVE  GateInv'
<1>1. UNCHANGED <<verified, delegated, up, ever, cert, inflight, issuing>>
  BY DEF Tick, magicVars
<1>2. \A d \in Domain : since[d] \in 0..Horizon
  BY DEF GateInv, GateTypes
<1>3. since' = [d \in Domain |-> IF verified[d] /\ ~delegated[d] THEN 0
                                 ELSE IF since[d] = Horizon THEN Horizon
                                 ELSE since[d] + 1]
  BY DEF Tick
<1>4. \A d \in Domain : since'[d] \in 0..Horizon /\ since'[d] <= since[d] + 1
  BY <1>2, <1>3, Timers
<1>5. since' \in [Domain -> 0..Horizon]
  BY <1>3, <1>4
<1>6. VerifiedNow'
  BY <1>1, <1>3 DEF GateInv, VerifiedNow
<1>7. ASSUME NEW d \in Domain
      PROVE  /\ verdicts'[d] \in Verdict \cup {None}
             /\ verdicts[d] = None => verdicts'[d] = None
             /\ verdicts[d] # None =>
                  /\ verdicts[d] \in Verdict /\ verdicts'[d].ok = verdicts[d].ok
                  /\ verdicts'[d].left > 0 =>
                       verdicts'[d].left = verdicts[d].left - 1 /\ verdicts[d].left > 0
  <2>1. CASE verdicts[d] = None
    BY <2>1 DEF Tick
  <2>2. CASE verdicts[d] # None
    <3>1. /\ verdicts[d] \in Verdict
          /\ verdicts'[d] = [verdicts[d] EXCEPT !.left = Down(@)]
      BY <2>2 DEF Tick, GateInv, GateTypes
    <3>2. QED
      BY <2>2, <3>1, Timers DEF Verdict, Down
  <2>3. QED
    BY <2>1, <2>2
<1>8. VerdictsAged'
  <2> SUFFICES ASSUME NEW d \in Domain, verdicts'[d] # None, verdicts'[d].ok
               PROVE  /\ d \in ever
                      /\ verdicts'[d].left > 0 =>
                           since'[d] + verdicts'[d].left <= PosTTL + AskTimeout
    BY <1>1 DEF VerdictsAged
  <2>1. verdicts[d] # None /\ verdicts[d].ok /\ verdicts[d].left \in 0..PosTTL
    BY <1>7 DEF Verdict
  <2>2. QED
    BY <1>2, <1>4, <1>7, <2>1, Timers DEF GateInv, VerdictsAged
<1>9. ASSUME NEW c \in Handshake
      PROVE  /\ hs'[c] \in Handshakes /\ hs'[c].pc # "allowed"
             /\ hs'[c].pc = "answer" =>
                  /\ hs[c].pc = "answer" /\ hs'[c].name = hs[c].name /\ hs'[c].ok = hs[c].ok
                  /\ hs'[c].left = hs[c].left - 1
  <2>1. /\ hs[c].pc \in {"idle", "rest", "ask", "answer", "order", "wait"}
        /\ hs[c].pc \in {"ask", "answer"} => hs[c].left > 0
    BY DEF Tick
  <2>2. CASE hs[c].pc = "ask"
    <3>1. hs[c] \in Asking /\ hs'[c] = [hs[c] EXCEPT !.left = @ - 1]
      BY <2>2, HandshakeStages DEF Tick, GateInv
    <3>2. hs'[c] \in Asking /\ hs'[c].pc = "ask"
      BY <2>1, <2>2, <3>1, Timers DEF Asking
    <3>3. QED
      BY <3>2 DEF Handshakes
  <2>3. CASE hs[c].pc = "answer"
    <3>1. hs[c] \in Told /\ hs'[c] = [hs[c] EXCEPT !.left = @ - 1]
      BY <2>3, HandshakeStages DEF Tick, GateInv
    <3>2. /\ hs'[c] \in Told /\ hs'[c].pc = "answer" /\ hs'[c].name = hs[c].name
          /\ hs'[c].ok = hs[c].ok /\ hs'[c].left = hs[c].left - 1
      BY <2>1, <2>3, <3>1, Timers DEF Told
    <3>3. QED
      BY <2>3, <3>2 DEF Handshakes
  <2>4. CASE hs[c].pc = "rest"
    <3>1. hs'[c] = Idle
      BY <2>4 DEF Tick
    <3>2. QED
      BY <3>1, NextStages
  <2>5. CASE hs[c].pc \in {"idle", "order", "wait"}
    <3>1. hs'[c] = hs[c]
      BY <2>5 DEF Tick
    <3>2. QED
      BY <2>5, <3>1 DEF GateInv, GateTypes
  <2>6. QED
    BY <2>1, <2>2, <2>3, <2>4, <2>5
<1>10. QuestionsAged'
  <2> SUFFICES ASSUME NEW c \in Handshake PROVE HandshakeAged(hs[c])'
    BY DEF QuestionsAged
  <2>1. ASSUME hs'[c].pc = "answer", hs'[c].ok
        PROVE  since'[hs'[c].name] + hs'[c].left <= AskTimeout /\ hs'[c].name \in ever
    <3>1. /\ hs[c].pc = "answer" /\ hs'[c].name = hs[c].name /\ hs[c].ok
          /\ hs'[c].left = hs[c].left - 1
      BY <1>9, <2>1
    <3>2. hs[c].name \in Domain /\ hs[c].left \in 0..AskTimeout
      BY <3>1, HandshakeStages DEF GateInv
    <3>3. since[hs[c].name] + hs[c].left <= AskTimeout /\ hs[c].name \in ever
      BY <3>1 DEF GateInv, QuestionsAged, HandshakeAged
    <3>4. QED
      BY <1>2, <1>4, <3>1, <3>2, <3>3, Timers
  <2>2. QED
    BY <1>1, <1>9, <2>1 DEF HandshakeAged
<1>11. ASSUME NEW d \in Domain
       PROVE  /\ lastFail'[d] \in 0..FailCooldown \cup {None}
              /\ lastFail'[d] # None => lastFail[d] # None
  <2>1. lastFail'[d] = IF lastFail[d] = None THEN None ELSE Down(lastFail[d])
    BY DEF Tick
  <2>2. QED
    BY <2>1, Timers DEF GateInv, GateTypes, Down
<1>12. CooldownsEarned'
  BY <1>1, <1>11 DEF GateInv, CooldownsEarned
<1>13. GateTypes'
  <2>1. verdicts' \in [Domain -> Verdict \cup {None}]
    BY <1>7 DEF Tick
  <2>2. lastFail' \in [Domain -> 0..FailCooldown \cup {None}]
    BY <1>11 DEF Tick
  <2>3. hs' \in [Handshake -> Handshakes]
    BY <1>9 DEF Tick
  <2>4. lastKick' \in [Key -> 0..KickCooldown \cup {None}]
    <3>1. lastKick' = [k \in Key |-> IF lastKick[k] = None THEN None ELSE Down(lastKick[k])]
      BY DEF Tick
    <3>2. \A k \in Key : lastKick[k] \in 0..KickCooldown \cup {None}
      BY DEF GateInv, GateTypes
    <3>3. QED
      BY <3>1, <3>2, Timers DEF Down
  <2>5. QED
    BY <1>1, <1>5, <2>1, <2>2, <2>3, <2>4 DEF GateInv, GateTypes
<1>14. OneOrder'
  BY <1>1 DEF GateInv, OneOrder
<1>15. QED
  BY <1>6, <1>8, <1>10, <1>12, <1>13, <1>14 DEF GateInv

-----------------------------------------------------------------------------
(* The certificate gate: the theorems                                      *)

\* GateInv holds initially.
LEMMA InitGateInv == Init => GateInv
<1> SUFFICES ASSUME Init PROVE GateInv
  OBVIOUS
<1>1. GateTypes
  BY NextStages, Timers DEF Init, GateTypes
<1>2. VerifiedNow /\ VerdictsAged /\ CooldownsEarned /\ OneOrder
  BY DEF Init, VerifiedNow, VerdictsAged, CooldownsEarned, OneOrder
<1>3. QuestionsAged
  BY NextStages DEF Init, QuestionsAged, HandshakeAged
<1>4. QED
  BY <1>1, <1>2, <1>3 DEF GateInv

\* Every step keeps GateInv.
LEMMA NextGateInv ==
  ASSUME GateInv, [Next]_certVars
  PROVE  GateInv'
<1>1. ASSUME NEW c \in Handshake, Progress(c) PROVE GateInv'
  BY <1>1, StoreVerdictStep, OrderStep, RecordStep, KickStep, AskedStep DEF Progress
<1>2. ASSUME NEW c \in Handshake,
             (\E d \in Domain : Hello(c, d)) \/ (\E k \in Key : KickAllowed(c, k))
      PROVE  GateInv'
  BY <1>2, HelloStep, KickAllowedStep
<1>3. ASSUME NEW d \in Domain, Evict(d) \/ Verify(d) \/ Delegate(d)
      PROVE  GateInv'
  BY <1>3, AsideStep, VerifyStep
<1>4. ASSUME NEW k \in Key, Route(k) \/ \E ok \in BOOLEAN : IssueEnds(k, ok) PROVE GateInv'
  BY <1>4, AsideStep, IssueEndsStep
<1>5. QED
  BY <1>1, <1>2, <1>3, <1>4, AsideStep, GateTickStep DEF Next

\* The inductive invariant holds in every reachable state.
THEOREM GateInvHolds == Spec => []GateInv
<1>. QED
  BY InitGateInv, NextGateInv, PTL DEF Spec

\* No handshake is let through to an order of a domain that within PosTTL +
\* AskTimeout neither was the edge's to issue nor was let through by an answer
\* that could not be decoded, whichever verdicts overlapping handshakes store
\* (decisionGate.Decide, resolvehost.go:53-59).
THEOREM OrderAuthorizedHolds == Spec => []OrderAuthorized
<1>1. ASSUME GateInv PROVE OrderAuthorized
  BY <1>1 DEF GateInv, QuestionsAged, HandshakeAged, OrderAuthorized
<1>2. QED
  BY <1>1, GateInvHolds, PTL

\* The cooldown table holds only domains that were once verified, and a name set
\* has one order at a time, also when the routes change between issueAllowed and
\* kickWild (recordFailure, kickWild).
THEOREM IssuanceBoundedHolds == Spec => []IssuanceBounded
<1>1. ASSUME GateInv PROVE IssuanceBounded
  <2>1. TypeOK
    <3>1. \A d \in Domain : verdicts[d] # None => /\ verdicts[d].ok \in BOOLEAN
                                                  /\ verdicts[d].left \in 0..PosTTL
      BY <1>1 DEF GateInv, GateTypes, Verdict
    <3>2. QED
      BY <1>1, <3>1 DEF GateInv, GateTypes, TypeOK
  <2>2. \A k \in Key : issuing[k] <= 1 /\ (issuing[k] = 1 <=> k \in inflight)
    BY <1>1 DEF GateInv, OneOrder
  <2>3. QED
    BY <1>1, <2>1, <2>2 DEF GateInv, CooldownsEarned, IssuanceBounded
<1>2. QED
  BY <1>1, GateInvHolds, PTL

-----------------------------------------------------------------------------
(* The request log: the inductive invariant                                *)

\* Whatever a cursor has put behind it in a file that has a name is there, and
\* has been received or is corrupt.
Sound(c) ==
    c.ino \in {log, dot1} \ {NoFile} =>
        /\ c.off <= Len(content[c.ino])
        /\ \A k \in 1..c.off : content[c.ino][k] \in received \cup {Corrupt}
Cursors == Sound(cursorFile) /\ Sound(cur) /\ Sound(old)

\* <path> and <path>.1 name different files, only <path> is written, the sink
\* rotates only where it sees no <path>.1, and what has no name is empty.
Names ==
    /\ log # NoFile => log # dot1
    /\ f \in {NoFile, log}
    /\ sink = "rotate" => f # NoFile /\ (~lapsed => dot1 = NoFile)
    /\ \A i \in Inode \ {log, dot1} : content[i] = <<>>

\* No line is there twice: the lines of a file, and those on their way to it,
\* are no more than the events recorded.
Sizes ==
    /\ next - 1 \in 0..MaxEvents
    /\ Len(buf) + Len(queue) <= next - 1
    /\ \A i \in Inode : Len(content[i]) <= next - 1
    /\ log # NoFile => Len(content[log]) + Len(buf) + Len(queue) <= next - 1

\* Where the shipper is, and that the files it goes by exist.
Following == path # "log" /\ ship \in {"read", "ship", "save", "remove"}
Stages ==
    /\ ship \in {"resolve", "remove", "adopt"} => ino \in Inode
    /\ ship \in {"read", "ship", "save"} => Reading.ino \in Inode
    /\ Following => dot1 # NoFile /\ ino \in Inode
    /\ ship \in {"idle", "resolve"} => path = "log"
    /\ ship = "remove" => path # "log"

\* The <path>.1 it reads is its cursor's, its batch is what stands in the file,
\* and what it removes has been received.
Drains ==
    /\ Following => Reading.ino = dot1
    /\ ship = "remove" =>
         \A k \in 1..Len(content[dot1]) : content[dot1][k] \in received \cup {Corrupt}
    /\ ship = "ship" =>
         /\ Reading.ino \in {log, dot1}
         /\ Reading.off + Len(batch) <= Len(content[Reading.ino])
         /\ \A j \in 1..Len(batch) : content[Reading.ino][Reading.off + j] = batch[j]

\* What the writer would give up is pending, and nothing is lost uncounted; a
\* process that has ended has recorded nothing and is nowhere.
Losses ==
    /\ Len(buf) <= pending
    /\ ~running => first = next /\ sink = "run" /\ ship = "idle"
    /\ LossCounted

\* What holds whatever the file system does, and what holds until it misleads
\* the code: a drain knows its files by numbers, and the writer by a Stat.
LogInv ==
    /\ LogTypeOK /\ Names /\ Sizes /\ Stages /\ Losses
    /\ ~lapsed => Cursors /\ Drains

\* No event leaves the disk but a received one, in the same circumstances.
Kept == ~lapsed' => OnDisk \ OnDisk' \subseteq received

-----------------------------------------------------------------------------
(* Facts about lines and files                                             *)

\* A file has a number, no file none; an event is a line that is not corrupt.
LEMMA Numbers ==
  /\ MaxEvents \in Nat /\ MaxInode \in Nat /\ Buffer \in Nat /\ BatchSize \in Nat \ {0}
  /\ NoFile \notin Inode /\ Inode \subseteq Nat /\ Event \subseteq Nat
  /\ Event \subseteq Line /\ Corrupt \notin Event /\ Line = Event \cup {Corrupt}
  BY LogBounds DEF NoFile, Inode, Event, Line, Corrupt

\* The elements of a sequence, by position.
LEMMA ElementsOf ==
  ASSUME NEW S, NEW s \in Seq(S)
  PROVE  /\ \A e : e \in Elements(s) <=> \E k \in 1..Len(s) : s[k] = e
         /\ Elements(s) \subseteq S
  BY DEF Elements

\* An empty one has none.
LEMMA NoElements ==
  ASSUME NEW S, NEW s \in Seq(S), Len(s) = 0
  PROVE  Elements(s) = {}
<1>1. 1..Len(s) = {}
  OBVIOUS
<1>2. QED
  BY <1>1, ElementsOf

\* A sequence has no more elements than places.
LEMMA CountElements ==
  ASSUME NEW S, NEW s \in Seq(S)
  PROVE  IsFiniteSet(Elements(s)) /\ Cardinality(Elements(s)) <= Len(s)
<1> DEFINE g == [k \in 1..Len(s) |-> s[k]]
<1>1. Len(s) \in Nat
  OBVIOUS
<1>2. g \in Surjection(1..Len(s), Elements(s))
  BY ElementsOf DEF Surjection
<1>3. IsFiniteSet(1..Len(s)) /\ Cardinality(1..Len(s)) = Len(s)
  BY <1>1, FS_Interval
<1>4. QED
  BY <1>2, <1>3, FS_Surjection

\* Two sets have together no more elements than each for itself.
LEMMA CountUnion ==
  ASSUME NEW A, NEW B, NEW a \in Nat, NEW b \in Nat, IsFiniteSet(A), IsFiniteSet(B),
         Cardinality(A) <= a, Cardinality(B) <= b
  PROVE  IsFiniteSet(A \cup B) /\ Cardinality(A \cup B) <= a + b
<1>1. /\ IsFiniteSet(A \cup B) /\ IsFiniteSet(A \cap B)
      /\ Cardinality(A \cup B) = Cardinality(A) + Cardinality(B) - Cardinality(A \cap B)
  BY FS_Union, FS_Intersection
<1>2. Cardinality(A) \in Nat /\ Cardinality(B) \in Nat /\ Cardinality(A \cap B) \in Nat
  BY <1>1, FS_CardinalityType
<1>3. QED
  BY <1>1, <1>2

\* The event taken from the queue.
LEMMA HeadTail ==
  ASSUME NEW s \in Seq(Event), s # <<>>
  PROVE  /\ Head(s) \in Event /\ Tail(s) \in Seq(Event) /\ Len(Tail(s)) = Len(s) - 1
         /\ Elements(s) = {Head(s)} \cup Elements(Tail(s)) /\ Len(s) > 0
<1>1. /\ Head(s) \in Event /\ Tail(s) \in Seq(Event) /\ Len(Tail(s)) = Len(s) - 1
      /\ Len(s) > 0 /\ Head(s) = s[1] /\ \A k \in 1..(Len(s) - 1) : Tail(s)[k] = s[k + 1]
  OBVIOUS
<1>2. ASSUME NEW e \in Elements(s) PROVE e \in {Head(s)} \cup Elements(Tail(s))
  <2>1. PICK k \in 1..Len(s) : s[k] = e
    BY <1>2, ElementsOf
  <2>2. CASE k = 1
    BY <2>1, <2>2, <1>1
  <2>3. CASE k # 1
    <3>1. k - 1 \in 1..(Len(s) - 1) /\ Tail(s)[k - 1] = e
      BY <2>1, <2>3, <1>1
    <3> DEFINE u == Tail(s)
    <3>2. u \in Seq(Event) /\ k - 1 \in 1..Len(u) /\ u[k - 1] = e
      BY <3>1, <1>1
    <3> HIDE DEF u
    <3>3. e \in Elements(u)
      BY <3>2, ElementsOf
    <3>4. QED
      BY <3>3 DEF u
  <2>4. QED
    BY <2>2, <2>3
<1>3. ASSUME NEW e \in {Head(s)} \cup Elements(Tail(s)) PROVE e \in Elements(s)
  <2>1. CASE e = Head(s)
    BY <2>1, <1>1, ElementsOf
  <2>2. CASE e \in Elements(Tail(s))
    <3> DEFINE u == Tail(s)
    <3>a. u \in Seq(Event) /\ Len(u) = Len(s) - 1 /\ e \in Elements(u)
      BY <2>2, <1>1
    <3> HIDE DEF u
    <3>b. \E k \in 1..Len(u) : u[k] = e
      BY <3>a, ElementsOf
    <3>1. PICK k \in 1..(Len(s) - 1) : Tail(s)[k] = e
      BY <3>a, <3>b DEF u
    <3>2. k + 1 \in 1..Len(s) /\ s[k + 1] = e
      BY <3>1, <1>1
    <3>3. \A x : x \in Elements(s) <=> \E j \in 1..Len(s) : s[j] = x
      BY ElementsOf
    <3>4. QED
      BY <3>2, <3>3
  <2>3. QED
    BY <1>3, <2>1, <2>2
<1>4. QED
  BY <1>1, <1>2, <1>3

\* The lines that reach a file: as many as leave the buffer, and the same but
\* for the one that joins a fragment.
LEMMA WrittenLines ==
  ASSUME buf \in Seq(Event), NEW k \in 0..Len(buf)
  PROVE  /\ Written(k) \in Seq(Line) /\ Len(Written(k)) = k
         /\ \A j \in 1..k : Written(k)[j] = IF joined /\ j = 1 THEN Corrupt ELSE buf[j]
<1> DEFINE w == Written(k)
<1>1. k \in Nat /\ \A j \in 1..k : buf[j] \in Event
  OBVIOUS
<1>2. w \in [1..k -> Line] /\ \A j \in 1..k : w[j] = IF joined /\ j = 1 THEN Corrupt ELSE buf[j]
  BY <1>1, Numbers DEF Written
<1> HIDE DEF w
<1>3. w \in Seq(Line) /\ Len(w) = k
  BY <1>1, <1>2
<1>4. QED
  BY <1>2, <1>3 DEF w

\* They follow the ones that are there.
LEMMA PourLines ==
  ASSUME NEW s \in Seq(Line), buf \in Seq(Event), NEW k \in 0..Len(buf)
  PROVE  LET p == s \o Written(k)
         IN  /\ p \in Seq(Line) /\ Len(p) = Len(s) + k
             /\ \A j \in 1..Len(s) : p[j] = s[j]
             /\ \A j \in 1..k : p[Len(s) + j] = IF joined /\ j = 1 THEN Corrupt ELSE buf[j]
<1> DEFINE u == Written(k)
<1>1. /\ u \in Seq(Line) /\ Len(u) = k
      /\ \A j \in 1..k : u[j] = IF joined /\ j = 1 THEN Corrupt ELSE buf[j]
  BY WrittenLines
<1> HIDE DEF u
<1>2. /\ s \o u \in Seq(Line) /\ Len(s \o u) = Len(s) + k
      /\ \A j \in 1..Len(s) : (s \o u)[j] = s[j]
      /\ \A j \in 1..k : (s \o u)[Len(s) + j] = u[j]
  <2>1. s \in Seq(Line) /\ u \in Seq(Line) /\ Len(u) = k
    BY <1>1
  <2>2. s \o u \in Seq(Line) /\ Len(s \o u) = Len(s) + k
    BY ONLY <2>1
  <2>3. \A j \in 1..Len(s) : (s \o u)[j] = s[j]
    BY ONLY <2>1
  <2>4. \A j \in 1..k : (s \o u)[Len(s) + j] = u[j]
    BY ONLY <2>1
  <2>5. QED
    BY <2>2, <2>3, <2>4
<1>3. QED
  BY <1>1, <1>2 DEF u

\* The rest of a buffer.
LEMMA RestLines ==
  ASSUME NEW t \in Seq(Event), NEW k \in 0..Len(t)
  PROVE  /\ SubSeq(t, k + 1, Len(t)) \in Seq(Event)
         /\ Len(SubSeq(t, k + 1, Len(t))) = Len(t) - k
         /\ \A j \in 1..(Len(t) - k) : SubSeq(t, k + 1, Len(t))[j] = t[k + j]
  OBVIOUS

\* The whole of a buffer.
LEMMA WholeLines ==
  ASSUME NEW t \in Seq(Event)
  PROVE  SubSeq(t, 1, Len(t)) = t
  OBVIOUS

\* The event that joins a fragment, if one does.
Merged(k) == IF joined /\ k > 0 THEN {buf[1]} ELSE {}
LEMMA CountMerged ==
  ASSUME NEW k
  PROVE  /\ Joined(k) \in Nat /\ IsFiniteSet(Merged(k))
         /\ Cardinality(Merged(k)) <= Joined(k)
<1>1. IsFiniteSet({}) /\ Cardinality({}) = 0 /\ \A x : IsFiniteSet({x}) /\ Cardinality({x}) = 1
  BY FS_EmptySet, FS_Singleton
<1>2. CASE joined /\ k > 0
  <2>1. Joined(k) = 1 /\ Merged(k) = {buf[1]}
    BY <1>2 DEF Joined, Merged
  <2>2. IsFiniteSet(Merged(k)) /\ Cardinality(Merged(k)) = 1
    BY <2>1, <1>1
  <2>3. QED
    BY <2>1, <2>2
<1>3. CASE ~(joined /\ k > 0)
  <2>1. Joined(k) = 0 /\ Merged(k) = {}
    BY <1>3 DEF Joined, Merged
  <2>2. QED
    BY <2>1, <1>1
<1>4. QED
  BY <1>2, <1>3

\* What is in the buffer is in the part that goes, or in the part that stays,
\* or it joins a fragment.
LEMMA SplitElements ==
  ASSUME NEW s \in Seq(Line), buf \in Seq(Event), NEW k \in 0..Len(buf)
  PROVE  Elements(buf) \subseteq (Elements(s \o Written(k)) \ {Corrupt})
                                 \cup Elements(SubSeq(buf, k + 1, Len(buf))) \cup Merged(k)
<1> DEFINE p == s \o Written(k)
           r == SubSeq(buf, k + 1, Len(buf))
<1>1. /\ p \in Seq(Line) /\ Len(p) = Len(s) + k
      /\ \A j \in 1..k : p[Len(s) + j] = IF joined /\ j = 1 THEN Corrupt ELSE buf[j]
  BY PourLines
<1>2. /\ r \in Seq(Event) /\ Len(r) = Len(buf) - k
      /\ \A j \in 1..(Len(buf) - k) : r[j] = buf[k + j]
  BY RestLines
<1>3. Len(s) \in Nat /\ Len(buf) \in Nat /\ k \in Nat
  OBVIOUS
<1> HIDE DEF p, r
<1>4. ASSUME NEW e \in Elements(buf)
      PROVE  e \in (Elements(p) \ {Corrupt}) \cup Elements(r) \cup Merged(k)
  <2>1. PICK j \in 1..Len(buf) : buf[j] = e
    BY <1>4, ElementsOf
  <2>2. e \in Event /\ e # Corrupt
    BY <2>1, Numbers
  <2>3. CASE j <= k /\ ~(joined /\ j = 1)
    <3>1. Len(s) + j \in 1..Len(p) /\ p[Len(s) + j] = e
      BY <2>1, <2>3, <1>1, <1>3
    <3>2. \A x : x \in Elements(p) <=> \E i \in 1..Len(p) : p[i] = x
      BY <1>1, ElementsOf
    <3>3. QED
      BY <3>1, <3>2, <2>2
  <2>4. CASE j <= k /\ joined /\ j = 1
    BY <2>1, <2>4, <1>3 DEF Merged
  <2>5. CASE j > k
    <3>1. j - k \in 1..Len(r) /\ r[j - k] = e
      BY <2>1, <2>5, <1>2, <1>3
    <3>2. QED
      BY <3>1, <1>2, ElementsOf
  <2>6. QED
    BY <2>1, <2>3, <2>4, <2>5, <1>3
<1>5. QED
  BY <1>4 DEF p, r

\* A line is appended to the buffer.
LEMMA AppendElements ==
  ASSUME NEW s \in Seq(Event), NEW e \in Event
  PROVE  /\ Append(s, e) \in Seq(Event) /\ Len(Append(s, e)) = Len(s) + 1
         /\ Elements(s) \cup {e} \subseteq Elements(Append(s, e))
<1> DEFINE p == Append(s, e)
<1>1. /\ p \in Seq(Event) /\ Len(p) = Len(s) + 1 /\ p[Len(s) + 1] = e
      /\ \A k \in 1..Len(s) : p[k] = s[k] /\ Len(s) \in Nat
  OBVIOUS
<1>2. p \in Seq(Event) /\ Len(p) = Len(s) + 1 /\ p[Len(s) + 1] = e
  BY <1>1
<1> HIDE DEF p
<1>3. e \in Elements(p)
  <2>1. Len(s) + 1 \in 1..Len(p)
    BY <1>2
  <2>2. QED
    BY <1>2, <2>1, ElementsOf
<1>4. ASSUME NEW x \in Elements(s) PROVE x \in Elements(p)
  <2>1. PICK k \in 1..Len(s) : s[k] = x
    BY <1>4, ElementsOf
  <2>2. k \in 1..Len(p) /\ p[k] = x
    BY <1>1, <1>2, <2>1
  <2>3. QED
    BY <1>2, <2>2, ElementsOf
<1>5. QED
  BY <1>2, <1>3, <1>4 DEF p


-----------------------------------------------------------------------------
(* What a step of the sink leaves alone                                    *)

\* Files that have a name keep one and their lines, <path>.1 stays as it is,
\* and no cursor names a new file.
Grown ==
    /\ dot1 # NoFile => dot1' = dot1 /\ content'[dot1] = content[dot1]
    /\ {log, dot1} \ {NoFile} \subseteq {log', dot1'}
    /\ \A i \in {log', dot1'} \ {NoFile} :
         i \in {log, dot1} \/ i \notin {cursorFile.ino, cur.ino, old.ino}
    /\ \A i \in {log, dot1} \ {NoFile} :
         /\ Len(content[i]) <= Len(content'[i])
         /\ \A k \in 1..Len(content[i]) : content'[i][k] = content[i][k]

\* A cursor that names no new file stays sound where files only grow.
LEMMA SoundKept ==
  ASSUME LogTypeOK, LogTypeOK', Grown, received \subseteq received',
         NEW c \in Cursor, Sound(c), c.ino \in {log', dot1'} => c.ino \in {log, dot1}
  PROVE  Sound(c)'
<1>1. c.ino \in Inode \cup {NoFile} /\ c.off \in Nat
  BY DEF Cursor
<1>2. ASSUME c.ino \in {log', dot1'} \ {NoFile}
      PROVE  /\ c.off <= Len(content'[c.ino])
             /\ \A k \in 1..c.off : content'[c.ino][k] \in received' \cup {Corrupt}
  <2>1. c.ino \in {log, dot1} \ {NoFile} /\ c.ino \in Inode
    BY <1>1, <1>2
  <2>2. /\ c.off <= Len(content[c.ino])
        /\ \A k \in 1..c.off : content[c.ino][k] \in received \cup {Corrupt}
    BY <2>1 DEF Sound
  <2>3. /\ Len(content[c.ino]) <= Len(content'[c.ino])
        /\ \A k \in 1..Len(content[c.ino]) : content'[c.ino][k] = content[c.ino][k]
    BY <2>1 DEF Grown
  <2>4. content[c.ino] \in Seq(Line) /\ content'[c.ino] \in Seq(Line)
    BY <2>1 DEF LogTypeOK
  <2>5. Len(content[c.ino]) \in Nat /\ Len(content'[c.ino]) \in Nat
    BY <2>4
  <2>6. QED
    BY <2>2, <2>3, <2>5, <1>1
<1>3. QED
  BY <1>2 DEF Sound

\* None of the cursors does.
LEMMA CursorsKept ==
  ASSUME LogTypeOK, LogTypeOK', Cursors, Grown, received \subseteq received'
  PROVE  \A c \in {cursorFile, cur, old} : Sound(c)'
<1>1. cursorFile \in Cursor /\ cur \in Cursor /\ old \in Cursor
  BY DEF LogTypeOK
<1>2. ASSUME NEW c \in {cursorFile, cur, old} PROVE Sound(c)'
  <2>1. c \in Cursor /\ Sound(c)
    BY <1>1, <1>2 DEF Cursors
  <2>2. c.ino \in {log', dot1'} \ {NoFile} => c.ino \in {log, dot1}
    BY <1>2 DEF Grown
  <2>3. CASE c.ino = NoFile
    BY <2>3 DEF Sound
  <2>4. CASE c.ino # NoFile
    BY <2>1, <2>2, <2>4, SoundKept
  <2>5. QED
    BY <2>3, <2>4
<1>3. QED
  BY <1>2

\* The shipper's part of the invariant.
LEMMA ShipperKept ==
  ASSUME LogTypeOK, LogTypeOK', Names, Cursors, Drains, Stages, Grown,
         UNCHANGED <<cursorFile, shipVars, received>>
  PROVE  Cursors' /\ Drains'
<1>1. cursorFile' = cursorFile /\ cur' = cur /\ old' = old /\ received' = received
  BY DEF shipVars
<1>2. Cursors'
  <2>1. \A c \in {cursorFile, cur, old} : Sound(c)'
    BY <1>1, CursorsKept
  <2>2. QED
    BY <2>1, <1>1 DEF Cursors, Sound
<1>3. /\ ship' = ship /\ path' = path /\ ino' = ino /\ batch' = batch
      /\ Reading' = Reading /\ Following' = Following
  BY <1>1 DEF shipVars, Reading, Following
<1>4. dot1 # NoFile => dot1' = dot1 /\ content'[dot1] = content[dot1]
  BY DEF Grown
<1>5. Following => Reading.ino = dot1'
  BY <1>4 DEF Drains, Stages
<1>6. ship = "remove" => \A k \in 1..Len(content'[dot1']) :
                            content'[dot1'][k] \in received \cup {Corrupt}
  BY <1>4 DEF Drains, Stages, Following
<1>7. ship = "ship" =>
        /\ Reading.ino \in {log', dot1'}
        /\ Reading.off + Len(batch) <= Len(content'[Reading.ino])
        /\ \A j \in 1..Len(batch) : content'[Reading.ino][Reading.off + j] = batch[j]
  <2> SUFFICES ASSUME ship = "ship"
               PROVE  /\ Reading.ino \in {log', dot1'}
                      /\ Reading.off + Len(batch) <= Len(content'[Reading.ino])
                      /\ \A j \in 1..Len(batch) :
                           content'[Reading.ino][Reading.off + j] = batch[j]
    OBVIOUS
  <2> DEFINE i == Reading.ino
             s == content[i]
             s1 == content'[i]
             o == Reading.off
  <2>1. /\ i \in Inode /\ i \in {log, dot1} /\ o + Len(batch) <= Len(s)
        /\ \A j \in 1..Len(batch) : s[o + j] = batch[j]
    BY DEF Drains, Stages
  <2>2. i \in {log', dot1'} /\ i # NoFile
    BY <2>1, Numbers DEF Grown
  <2>3. Len(s) <= Len(s1) /\ \A k \in 1..Len(s) : s1[k] = s[k]
    BY <2>1, <2>2 DEF Grown
  <2>4. s \in Seq(Line) /\ s1 \in Seq(Line) /\ batch \in Seq(Line) /\ Reading \in Cursor
    BY <2>1 DEF LogTypeOK, Reading
  <2>5. Len(s) \in Nat /\ Len(s1) \in Nat /\ Len(batch) \in Nat /\ o \in Nat
    BY <2>4 DEF Cursor
  <2> HIDE DEF i, s, s1, o
  <2>6. o + Len(batch) <= Len(s1) /\ \A j \in 1..Len(batch) : s1[o + j] = batch[j]
    <3>1. o + Len(batch) <= Len(s1)
      BY ONLY <2>1, <2>3, <2>5
    <3>2. ASSUME NEW j \in 1..Len(batch) PROVE s1[o + j] = batch[j]
      <4>1. o + j \in 1..Len(s)
        BY ONLY <2>1, <2>5
      <4>2. QED
        BY ONLY <2>1, <2>3, <4>1
    <3>3. QED
      BY <3>1, <3>2
  <2>7. QED
    BY <2>2, <2>6 DEF i, s1, o
<1>8. QED
  BY <1>1, <1>2, <1>3, <1>5, <1>6, <1>7 DEF Drains

\* Its stages stay where nothing it sees goes away.
LEMMA StagesKept ==
  ASSUME Stages, UNCHANGED shipVars, dot1 # NoFile => dot1' # NoFile
  PROVE  Stages'
<1>1. /\ ship' = ship /\ path' = path /\ ino' = ino /\ Reading' = Reading
      /\ Following' = Following
  BY DEF shipVars, Reading, Following
<1>2. QED
  BY <1>1 DEF Stages

\* No line leaves the disk.
LEMMA DiskKept ==
  ASSUME LogTypeOK, LogTypeOK', Grown
  PROVE  OnDisk \subseteq OnDisk'
<1> SUFFICES ASSUME NEW e \in OnDisk PROVE e \in OnDisk'
  OBVIOUS
<1>0. PICK i \in {log, dot1} \ {NoFile} : e \in Elements(content[i]) /\ e # Corrupt
  BY DEF OnDisk
<1>1. i \in Inode /\ i \in {log', dot1'} \ {NoFile}
  BY DEF LogTypeOK, Grown
<1>2. content[i] \in Seq(Line) /\ content'[i] \in Seq(Line)
  BY <1>1 DEF LogTypeOK
<1>3. PICK k \in 1..Len(content[i]) : content[i][k] = e
  BY <1>0, <1>2, ElementsOf
<1>4. k \in 1..Len(content'[i]) /\ content'[i][k] = e
  BY <1>1, <1>2, <1>3 DEF Grown
<1>5. e \in Elements(content'[i])
  BY <1>2, <1>4, ElementsOf
<1>6. Elements(content'[i]) \ {Corrupt} \subseteq OnDisk'
  BY <1>1 DEF OnDisk
<1>7. QED
  BY <1>0, <1>5, <1>6

\* What this process has recorded and still has.
Held == Elements(queue) \cup Elements(buf) \cup OnDisk \cup received

\* What a step may lose, it counts.
LEMMA LossKept ==
  ASSUME LogTypeOK, LogTypeOK', LossCounted, running, NEW X, IsFiniteSet(X),
         NEW m \in Nat, Cardinality(X) <= m,
         ~lapsed' => ~lapsed /\ Lost' \subseteq Lost \cup X,
         dropped + uncounted + m <= dropped' + uncounted'
  PROVE  LossCounted'
<1> SUFFICES ASSUME ~lapsed' PROVE Cardinality(Lost') <= dropped' + uncounted'
  BY DEF LossCounted
<1>0. ~lapsed /\ Lost' \subseteq Lost \cup X
  OBVIOUS
<1>1. first \in Nat /\ next - 1 \in Int
  BY DEF LogTypeOK
<1>2. IsFiniteSet(first..(next - 1)) /\ Lost \in SUBSET (first..(next - 1))
  BY <1>1, FS_Interval DEF Lost
<1>3. IsFiniteSet(Lost)
  BY <1>2, FS_Subset
<1>4. /\ IsFiniteSet(Lost \cup X)
      /\ Cardinality(Lost \cup X) = Cardinality(Lost) + Cardinality(X) - Cardinality(Lost \cap X)
  BY <1>3, FS_Union
<1>5. IsFiniteSet(Lost \cap X)
  BY <1>3, FS_Intersection
<1>6. /\ Cardinality(Lost) \in Nat /\ Cardinality(X) \in Nat /\ Cardinality(Lost \cap X) \in Nat
      /\ Cardinality(Lost \cup X) \in Nat
  BY <1>3, <1>4, <1>5, FS_CardinalityType
<1>7. Cardinality(Lost') <= Cardinality(Lost \cup X) /\ IsFiniteSet(Lost')
  <2> DEFINE L == Lost'
             U == Lost \cup X
  <2>1. IsFiniteSet(U) /\ L \in SUBSET U
    BY <1>0, <1>4
  <2> HIDE DEF L, U
  <2>2. Cardinality(L) <= Cardinality(U) /\ IsFiniteSet(L)
    BY <2>1, FS_Subset
  <2>3. QED
    BY <2>2 DEF L, U
<1>8. Cardinality(Lost') \in Nat
  BY <1>7, FS_CardinalityType
<1>9. Cardinality(Lost) <= dropped + uncounted
  BY <1>0 DEF LossCounted
<1>10. dropped \in Nat /\ uncounted \in Nat
  BY DEF LogTypeOK
<1>a. (dropped')  \in Nat /\ (uncounted') \in Nat
  BY DEF LogTypeOK
<1>11. Cardinality(Lost') <= dropped' + uncounted'
  <2> DEFINE l == Cardinality(Lost)
             x == Cardinality(X)
             b == Cardinality(Lost \cap X)
             u == Cardinality(Lost \cup X)
             l1 == Cardinality(Lost')
  <2>1. l \in Nat /\ x \in Nat /\ b \in Nat /\ u \in Nat /\ l1 \in Nat
    BY <1>6, <1>8
  <2>2. u = l + x - b /\ l1 <= u /\ l <= dropped + uncounted /\ x <= m
    BY <1>4, <1>7, <1>9
  <2> DEFINE n == dropped + uncounted
             n1 == dropped' + uncounted'
  <2>3. n \in Nat /\ n1 \in Nat
    <3>1. dropped + uncounted \in Nat
      BY <1>10
    <3>2. \A p, q \in Nat : p + q \in Nat
      OBVIOUS
    <3>4. (dropped') + (uncounted') \in Nat
      BY ONLY <1>a, <3>2
    <3>3. QED
      BY <3>1, <3>4
  <2>6. l <= n
    BY <2>2
  <2>7. n + m <= n1
    OBVIOUS
  <2> HIDE DEF l, x, b, u, l1, n, n1
  <2>4. l1 <= n1
    BY <2>1, <2>2, <2>3, <2>6, <2>7
  <2>5. QED
    BY <2>4 DEF l1, n1
<1>12. QED
  BY <1>11

\* Of a step of the sink: what it has to show.
LEMMA SinkStays ==
  ASSUME LogInv, LogTypeOK', Names', Sizes', running' = running, running,
         ~lapsed' => ~lapsed /\ Grown, dot1 # NoFile => dot1' # NoFile,
         Len(buf') <= pending', UNCHANGED <<cursorFile, shipVars, received>>, LossCounted'
  PROVE  LogInv' /\ Kept
<1>1. ~lapsed' => Cursors' /\ Drains'
  BY ShipperKept DEF LogInv
<1>2. ~lapsed' => OnDisk \subseteq OnDisk'
  BY DiskKept DEF LogInv
<1>3. Stages' /\ Losses'
  BY StagesKept DEF Losses, LogInv
<1>4. QED
  BY <1>1, <1>2, <1>3 DEF LogInv, Kept

\* A step that leaves the files alone.
LEMMA FilesStill ==
  ASSUME LogTypeOK, UNCHANGED <<content, log, dot1>>
  PROVE  Grown /\ OnDisk' = OnDisk
<1>1. content' = content /\ log' = log /\ dot1' = dot1
  OBVIOUS
<1>2. \A i \in {log, dot1} \ {NoFile} : Len(content[i]) \in Nat
  <2> SUFFICES ASSUME NEW i \in {log, dot1} \ {NoFile} PROVE Len(content[i]) \in Nat
    OBVIOUS
  <2>1. content[i] \in Seq(Line)
    BY DEF LogTypeOK
  <2>2. QED
    BY <2>1
<1>3. OnDisk' = OnDisk
  BY <1>1 DEF OnDisk, Elements
<1>4. QED
  BY <1>1, <1>2, <1>3 DEF Grown

\* A step that leaves the disk alone.
LEMMA QuietDisk ==
  ASSUME LogTypeOK, UNCHANGED diskVars
  PROVE  Grown /\ OnDisk' = OnDisk
  BY FilesStill DEF diskVars

\* Lines reach the file.
LEMMA PourFacts ==
  ASSUME LogTypeOK, Names, f # NoFile, NEW k \in 0..Len(buf),
         content'[f] = content[f] \o Written(k)
  PROVE  /\ f = log /\ f \in Inode /\ content'[f] \in Seq(Line)
         /\ Len(content'[f]) = Len(content[f]) + k
         /\ \A j \in 1..Len(content[f]) : content'[f][j] = content[f][j]
         /\ Elements(buf) \subseteq (Elements(content'[f]) \ {Corrupt})
                                \cup Elements(SubSeq(buf, k + 1, Len(buf))) \cup Merged(k)
<1>1. f = log /\ f \in Inode /\ content \in [Inode -> Seq(Line)] /\ buf \in Seq(Event)
  BY DEF Names, LogTypeOK
<1>2. content[f] \in Seq(Line)
  BY <1>1
<1> DEFINE p == content[f] \o Written(k)
<1>3. /\ p \in Seq(Line) /\ Len(p) = Len(content[f]) + k
      /\ \A j \in 1..Len(content[f]) : p[j] = content[f][j]
  BY <1>1, <1>2, PourLines
<1>4. Elements(buf) \subseteq (Elements(p) \ {Corrupt})
                        \cup Elements(SubSeq(buf, k + 1, Len(buf))) \cup Merged(k)
  BY <1>1, <1>2, SplitElements
<1>5. content'[f] = p
  OBVIOUS
<1> HIDE DEF p
<1>6. QED
  BY <1>1, <1>3, <1>4, <1>5

LEMMA PourOne ==
  ASSUME LogTypeOK, Names, f # NoFile, NEW k \in 0..Len(buf), Pour(k)
  PROVE  /\ content' \in [Inode -> Seq(Line)]
         /\ content'[f] = content[f] \o Written(k)
         /\ \A i \in Inode \ {f} : content'[i] = content[i]
<1>1. f = log /\ f \in Inode /\ content \in [Inode -> Seq(Line)] /\ buf \in Seq(Event)
  BY DEF Names, LogTypeOK
<1> DEFINE p == content[f] \o Written(k)
<1>2. p \in Seq(Line)
  BY <1>1, PourLines
<1>3. content' = [content EXCEPT ![f] = p]
  BY DEF Pour
<1> HIDE DEF p
<1>4. content' \in [Inode -> Seq(Line)] /\ content'[f] = p
      /\ \A i \in Inode \ {f} : content'[i] = content[i]
  BY <1>1, <1>2, <1>3
<1>5. QED
  BY <1>4 DEF p

\* ... of the files that keep their names, or of one that becomes <path>.1.
LEMMA PourGrown ==
  ASSUME LogTypeOK, Names, f # NoFile, NEW k \in 0..Len(buf),
         content'[f] = content[f] \o Written(k), \A i \in Inode \ {f} : content'[i] = content[i],
         \/ log' = log /\ dot1' = dot1
         \/ dot1 = NoFile /\ dot1' = log /\ log' = NoFile
  PROVE  Grown
<1>1. /\ f = log /\ f \in Inode /\ content'[f] \in Seq(Line)
      /\ Len(content'[f]) = Len(content[f]) + k
      /\ \A j \in 1..Len(content[f]) : content'[f][j] = content[f][j]
  BY PourFacts
<1>2. \A i \in Inode : content[i] \in Seq(Line)
  BY DEF LogTypeOK
<1>3. \A i \in Inode : Len(content[i]) \in Nat /\ k \in Nat
  BY <1>2
<1>4. \A i \in Inode : /\ Len(content[i]) <= Len(content'[i])
                       /\ \A j \in 1..Len(content[i]) : content'[i][j] = content[i][j]
  <2>1. Len(content[f]) <= Len(content'[f])
    BY <1>1, <1>3
  <2>2. ASSUME NEW i \in Inode, i # f
        PROVE  /\ Len(content[i]) <= Len(content'[i])
               /\ \A j \in 1..Len(content[i]) : content'[i][j] = content[i][j]
    BY <2>2, <1>3
  <2>3. QED
    BY <2>1, <2>2, <1>1
<1>5. dot1 # NoFile => dot1' = dot1 /\ content'[dot1] = content[dot1]
  BY <1>1 DEF Names, LogTypeOK
<1>6. {log, dot1} \ {NoFile} \subseteq Inode
  BY DEF LogTypeOK
<1>7. QED
  BY <1>4, <1>5, <1>6 DEF Grown

\* <path> is opened, and created where it is missing, repaired or not; until
\* the file system misleads the code, no cursor names the new file.
LEMMA OpenFacts ==
  ASSUME LogTypeOK, Names, NEW ok \in BOOLEAN, NEW repaired \in BOOLEAN, NEW tail, NEW n,
         openOrErr(ok, repaired, tail, n)
  PROVE  /\ log' \in Inode \cup {NoFile} /\ lapsed' \in BOOLEAN /\ (lapsed => lapsed')
         /\ f' \in {NoFile, log'} /\ torn' \in BOOLEAN /\ joined' \in BOOLEAN
         /\ dropped' = n + (IF tail /\ repaired THEN 1 ELSE 0)
         /\ log # NoFile => log' = log /\ lapsed' = lapsed
         /\ log = NoFile => log' # dot1 \/ log' = NoFile
         /\ (~lapsed' /\ log = NoFile /\ log' # NoFile) =>
              log' \notin {cursorFile.ino, cur.ino, old.ino}
<1>1. /\ torn' = ~repaired /\ joined' = (ok /\ ~repaired)
      /\ dropped' = n + (IF tail /\ repaired THEN 1 ELSE 0)
      /\ f' = (IF ok THEN log' ELSE NoFile)
  BY DEF openOrErr
<1>2. log \in Inode \cup {NoFile} /\ lapsed \in BOOLEAN
  BY DEF LogTypeOK
<1>3. CASE ok /\ log = NoFile
  <2>1. /\ log' \in Inode \ {dot1}
        /\ lapsed' = (lapsed \/ log' \in {cursorFile.ino, cur.ino, old.ino})
    BY <1>3 DEF openOrErr
  <2>2. QED
    BY <1>1, <1>2, <1>3, <2>1
<1>4. CASE ~(ok /\ log = NoFile)
  <2>1. log' = log /\ lapsed' = lapsed
    BY <1>4 DEF openOrErr
  <2>2. QED
    BY <1>1, <1>2, <1>4, <2>1
<1>5. QED
  BY <1>3, <1>4

\* ... with the lines of the files as they are.
LEMMA OpenGrown ==
  ASSUME LogTypeOK, Names, NEW ok \in BOOLEAN, NEW repaired \in BOOLEAN, NEW tail, NEW n,
         openOrErr(ok, repaired, tail, n), content' = content, dot1' = dot1, ~lapsed'
  PROVE  Grown
<1>1. /\ log # NoFile => log' = log
      /\ (log = NoFile /\ log' # NoFile) => log' \notin {cursorFile.ino, cur.ino, old.ino}
  BY OpenFacts
<1>2. \A i \in {log, dot1} \ {NoFile} : Len(content[i]) \in Nat
  <2> SUFFICES ASSUME NEW i \in {log, dot1} \ {NoFile} PROVE Len(content[i]) \in Nat
    OBVIOUS
  <2>1. content[i] \in Seq(Line)
    BY DEF LogTypeOK
  <2>2. QED
    BY <2>1
<1>3. QED
  BY <1>1, <1>2 DEF Grown

-----------------------------------------------------------------------------
(* The steps of the sink                                                   *)

\* What a step loses is what it no longer holds.
LEMMA LostOf ==
  ASSUME first' = first, next' = next, NEW X, Held \subseteq Held' \cup X
  PROVE  Lost' \subseteq Lost \cup X
  BY DEF Lost, Held

\* The events of a file with a name are on disk.
LEMMA FileOnDisk ==
  ASSUME NEW i \in {log, dot1} \ {NoFile}
  PROVE  Elements(content[i]) \ {Corrupt} \subseteq OnDisk
  BY DEF OnDisk

\* A step that loses nothing.
LEMMA NothingLost ==
  ASSUME LogTypeOK, LogTypeOK', LossCounted, running, first' = first, next' = next,
         ~lapsed' => ~lapsed /\ Held \subseteq Held', uncounted' = uncounted,
         dropped <= dropped'
  PROVE  LossCounted'
<1>1. IsFiniteSet({}) /\ Cardinality({}) <= 0
  BY FS_EmptySet
<1>2. ~lapsed' => ~lapsed /\ Lost' \subseteq Lost \cup {}
  BY LostOf
<1>3. dropped \in Nat /\ uncounted \in Nat /\ dropped' \in Nat
  BY DEF LogTypeOK
<1>4. \A a, b, c \in Nat : a <= b => a + c + 0 <= b + c
  OBVIOUS
<1>5. dropped + uncounted + 0 <= (dropped') + uncounted
  BY <1>3, <1>4
<1>6. QED
  BY <1>1, <1>2, <1>5, LossKept

\* One event is one.
LEMMA Single == \A x : IsFiniteSet({x}) /\ Cardinality({x}) <= 1
<1>1. \A x : IsFiniteSet({x}) /\ Cardinality({x}) = 1
  BY FS_Singleton
<1>2. 1 <= 1
  OBVIOUS
<1>3. QED
  BY <1>1, <1>2, Zenon

\* Record queues the event, or drops and counts it.
LEMMA RecordStays ==
  ASSUME LogInv, Record
  PROVE  LogInv' /\ Kept
<1> USE Numbers DEF LogInv
<1>1. /\ UNCHANGED <<diskVars, cursorFile, processVars, stopping, sink, first, f, buf, pending,
                     writeFailed, uncounted, shipVars, received, lapsed, stuck>>
      /\ running /\ next \in Event /\ next' = next + 1
  BY DEF Record, LogTypeOK, Sizes, Event
<1>2. \/ queue' = Append(queue, next) /\ dropped' = dropped
      \/ queue' = queue /\ dropped' = dropped + 1
  BY DEF Record
<1>a. queue \in Seq(Event) /\ Len(queue) \in Nat
  BY DEF LogTypeOK
<1>b. Append(queue, next) \in Seq(Event) /\ Len(Append(queue, next)) = Len(queue) + 1
  BY <1>a, <1>1, AppendElements
<1>3. queue \in Seq(Event) /\ queue' \in Seq(Event) /\ Len(queue') <= Len(queue) + 1
  BY <1>2, <1>a, <1>b
<1>4. dropped' \in Nat /\ next' \in Nat
  BY <1>1, <1>2 DEF LogTypeOK
<1>5. LogTypeOK'
  BY <1>1, <1>3, <1>4 DEF LogTypeOK, diskVars, processVars, shipVars
<1>6. Grown /\ OnDisk' = OnDisk
  BY <1>1, QuietDisk
<1>7. Names'
  BY <1>1 DEF Names, diskVars
<1>8. Sizes'
  <2>1. next \in 1..MaxEvents /\ next' - 1 \in 0..MaxEvents
    BY <1>1 DEF Event
  <2>2. /\ content' = content /\ log' = log /\ buf' = buf
        /\ Len(queue) \in Nat /\ Len(queue') \in Nat /\ Len(buf) \in Nat
        /\ \A i \in Inode : Len(content[i]) \in Nat
    BY <1>1, <1>3 DEF diskVars, LogTypeOK
  <2>3. log # NoFile => log \in Inode
    BY DEF LogTypeOK
  <2>4. QED
    BY <2>1, <2>2, <2>3, <1>1, <1>3 DEF Sizes
<1>9. LossCounted'
  <2>1. CASE queue' = Append(queue, next) /\ dropped' = dropped
    <3>1. Elements(queue) \cup {next} \subseteq Elements(queue')
      BY <2>1, <1>1, <1>3, AppendElements
    <3>2. Elements(buf') = Elements(buf) /\ received' = received
      BY <1>1 DEF Elements
    <3>3. \A e \in first..next : e \in first..(next - 1) \/ e = next
      BY DEF LogTypeOK
    <3>4. Lost' \subseteq Lost \cup {}
      BY <3>1, <3>2, <3>3, <1>1, <1>6 DEF Lost, LogTypeOK
    <3>5. IsFiniteSet({}) /\ Cardinality({}) <= 0
      BY FS_EmptySet
    <3>6. dropped + uncounted + 0 <= dropped' + uncounted'
      BY <2>1, <1>1 DEF LogTypeOK
    <3>7. QED
      BY <3>4, <3>5, <3>6, <1>1, <1>5, LossKept DEF Losses
  <2>2. CASE queue' = queue /\ dropped' = dropped + 1
    <3>1. Elements(buf') = Elements(buf) /\ received' = received /\ Elements(queue') = Elements(queue)
      BY <1>1, <2>2 DEF Elements
    <3>2. \A e \in first..next : e \in first..(next - 1) \/ e = next
      BY DEF LogTypeOK
    <3>3. Lost' \subseteq Lost \cup {next}
      BY <3>1, <3>2, <1>1, <1>6 DEF Lost, LogTypeOK
    <3>4. IsFiniteSet({next}) /\ Cardinality({next}) <= 1 /\ 1 \in Nat
      BY Single
    <3>5. dropped + uncounted + 1 <= dropped' + uncounted'
      BY <2>2, <1>1 DEF LogTypeOK
    <3>6. QED
      BY <3>3, <3>4, <3>5, <1>1, <1>5, LossKept DEF Losses
  <2>3. QED
    BY <1>2, <2>1, <2>2
<1>10. Len(buf') <= pending' /\ running' = running /\ dot1' = dot1
  BY <1>1 DEF Losses, processVars, diskVars
<1>11. QED
  BY <1>1, <1>5, <1>6, <1>7, <1>8, <1>9, <1>10, SinkStays

\* An event is dropped and counted for want of a file or a writer.
LEMMA WriteDroppedStays ==
  ASSUME LogInv, WriteDropped
  PROVE  LogInv' /\ Kept
<1> USE Numbers DEF LogInv
<1>1. /\ UNCHANGED <<diskVars, cursorFile, processVars, stopping, sink, first, next, f, buf,
                     pending, writeFailed, uncounted, shipVars, received, lapsed, stuck>>
      /\ running /\ queue # <<>> /\ queue' = Tail(queue) /\ dropped' = dropped + 1
  BY DEF WriteDropped
<1>2. /\ queue \in Seq(Event) /\ Head(queue) \in Event /\ queue' \in Seq(Event)
      /\ Len(queue') = Len(queue) - 1 /\ Elements(queue) = {Head(queue)} \cup Elements(queue')
  BY <1>1, HeadTail DEF LogTypeOK
<1>3. LogTypeOK'
  BY <1>1, <1>2 DEF LogTypeOK, diskVars, processVars, shipVars
<1>4. Grown /\ OnDisk' = OnDisk
  BY <1>1, QuietDisk
<1>5. Names'
  BY <1>1 DEF Names, diskVars
<1>6. Sizes'
  <2>1. /\ content' = content /\ log' = log /\ buf' = buf /\ next' = next
        /\ Len(queue) \in Nat /\ Len(queue') \in Nat /\ Len(buf) \in Nat
        /\ \A i \in Inode : Len(content[i]) \in Nat
    BY <1>1, <1>2 DEF diskVars, LogTypeOK
  <2>2. (log # NoFile => log \in Inode) /\ next \in Nat
    BY DEF LogTypeOK
  <2>3. QED
    BY <2>1, <2>2, <1>2 DEF Sizes
<1>7. LossCounted'
  <2>1. Held \subseteq Held' \cup {Head(queue)}
    BY <1>1, <1>2, <1>4 DEF Held
  <2>2. Lost' \subseteq Lost \cup {Head(queue)}
    BY <2>1, <1>1, LostOf
  <2>3. IsFiniteSet({Head(queue)}) /\ Cardinality({Head(queue)}) <= 1
    BY Single
  <2>4. dropped + uncounted + 1 <= dropped' + uncounted'
    BY <1>1 DEF LogTypeOK
  <2>5. QED
    BY <2>2, <2>3, <2>4, <1>1, <1>3, LossKept DEF Losses
<1>8. Len(buf') <= pending' /\ running' = running /\ dot1' = dot1
  BY <1>1 DEF Losses, processVars, diskVars
<1>9. QED
  BY <1>1, <1>3, <1>4, <1>5, <1>6, <1>7, <1>8, SinkStays

\* Lines move from the queue to the buffer and from the buffer to the file, or
\* are given up.
LEMMA SizesMove ==
  ASSUME LogTypeOK, LogTypeOK', Sizes, f = log, f \in Inode, NEW k \in 0..Len(buf),
         \A i \in Inode \ {f} : content'[i] \in {content[i], <<>>},
         Len(content'[f]) = Len(content[f]) + k, next' = next, log' \in {log, NoFile},
         \/ Len(buf') <= Len(buf) - k /\ Len(queue') <= Len(queue)
         \/ Len(buf') <= Len(buf) - k + 1 /\ Len(queue') <= Len(queue) - 1
  PROVE  Sizes'
<1> DEFINE a == Len(content[f])
           b == Len(buf)
           q == Len(queue)
           a1 == Len(content'[f])
           b1 == Len(buf')
           q1 == Len(queue')
<1>1. /\ content[f] \in Seq(Line) /\ content'[f] \in Seq(Line)
      /\ buf \in Seq(Event) /\ buf' \in Seq(Event) /\ queue \in Seq(Event) /\ queue' \in Seq(Event)
  BY DEF LogTypeOK
<1>2. a \in Nat /\ b \in Nat /\ q \in Nat /\ a1 \in Nat /\ b1 \in Nat /\ q1 \in Nat
  BY <1>1
<1>3. a + b + q <= next - 1 /\ next \in Nat /\ next - 1 \in 0..MaxEvents
  BY Numbers DEF Sizes, LogTypeOK
<1>4. a1 = a + k /\ ((b1 <= b - k /\ q1 <= q) \/ (b1 <= b - k + 1 /\ q1 <= q - 1)) /\ k \in 0..b
  OBVIOUS
<1> HIDE DEF a, b, q, a1, b1, q1
<1>5. a1 <= next - 1 /\ b1 + q1 <= next - 1 /\ a1 + b1 + q1 <= next - 1
  BY <1>2, <1>3, <1>4
<1>6. Len(content'[f]) <= next - 1 /\ Len(buf') + Len(queue') <= next - 1
      /\ Len(content'[f]) + Len(buf') + Len(queue') <= next - 1
  BY <1>5 DEF a1, b1, q1
<1>7. \A i \in Inode : Len(content'[i]) <= next - 1
  <2>1. Len(<<>>) <= next - 1
    BY <1>3
  <2>2. \A i \in Inode : Len(content[i]) <= next - 1
    BY DEF Sizes
  <2>3. ASSUME NEW i \in Inode PROVE Len(content'[i]) <= next - 1
    <3>1. content'[i] = content[i] \/ content'[i] = <<>> \/ i = f
      OBVIOUS
    <3>2. QED
      BY <3>1, <1>6, <2>1, <2>2
  <2>4. QED
    BY <2>3
<1>8. QED
  BY <1>3, <1>6, <1>7 DEF Sizes

\* What the buffer gives up and what the file gets, of a step that pours.
LEMMA PourHeld ==
  ASSUME LogTypeOK', Grown, LogTypeOK, f = log, f \in Inode, f \in {log', dot1'},
         NEW R, received' = received,
         Elements(buf) \subseteq (Elements(content'[f]) \ {Corrupt}) \cup R
  PROVE  Elements(buf) \cup OnDisk \subseteq OnDisk' \cup R
<1>1. f # NoFile
  BY Numbers
<1>2. Elements(content'[f]) \ {Corrupt} \subseteq OnDisk'
  BY <1>1 DEF OnDisk
<1>3. OnDisk \subseteq OnDisk'
  BY DiskKept
<1>4. QED
  BY <1>2, <1>3

\* writeOne moves an event from the queue to the buffer; when that overflows,
\* what was in it reaches the file.
LEMMA WriteOneStays ==
  ASSUME LogInv, NEW spill \in BOOLEAN, NEW seen \in BOOLEAN, WriteOne(spill, seen)
  PROVE  LogInv' /\ Kept
<1> USE Numbers DEF LogInv
<1>1. /\ UNCHANGED <<log, dot1, cursorFile, processVars, stopping, first, next, f,
                     writeFailed, dropped, shipVars, received, stuck>>
      /\ running /\ queue # <<>> /\ queue' = Tail(queue) /\ pending' = pending + 1
      /\ f # NoFile /\ lapsed' = (lapsed \/ ~seen) /\ Take(spill)
  BY DEF WriteOne
<1>2. /\ queue \in Seq(Event) /\ Head(queue) \in Event /\ queue' \in Seq(Event)
      /\ Len(queue') = Len(queue) - 1 /\ Elements(queue) = {Head(queue)} \cup Elements(queue')
  BY <1>1, HeadTail DEF LogTypeOK
<1>3. buf \in Seq(Event) /\ Len(buf) \in Nat /\ Len(queue) \in Nat /\ Len(queue) > 0
  BY <1>1, <1>2, HeadTail DEF LogTypeOK
<1>4. sink' \in {"run", "rotate"} /\ (sink' = "rotate" => dot1 = NoFile \/ ~seen)
  BY DEF WriteOne
<1> DEFINE moved == IF spill THEN Len(buf) ELSE 0
<1>5. /\ Pour(moved) /\ torn' \in BOOLEAN /\ joined' \in BOOLEAN /\ moved \in 0..Len(buf)
      /\ uncounted' = uncounted + Joined(moved)
      /\ buf' \in Seq(Event) /\ Len(buf') = Len(buf) - moved + 1
      /\ Elements(SubSeq(buf, moved + 1, Len(buf))) \cup {Head(queue)} \subseteq Elements(buf')
  <2>1. CASE spill
    <3>1. /\ Spill(Len(buf), TRUE) /\ buf' = <<Head(queue)>>
          /\ uncounted' = uncounted + Joined(Len(buf))
      BY <1>1, <2>1 DEF Take
    <3>2. buf' \in Seq(Event) /\ Len(buf') = 1 /\ buf'[1] = Head(queue)
      BY <3>1, <1>2
    <3>3. Head(queue) \in Elements(buf')
      BY <3>2, ElementsOf
    <3>4. SubSeq(buf, Len(buf) + 1, Len(buf)) \in Seq(Event)
          /\ Len(SubSeq(buf, Len(buf) + 1, Len(buf))) = 0
      BY <1>3, RestLines
    <3>5. Elements(SubSeq(buf, Len(buf) + 1, Len(buf))) = {}
      BY <3>4, NoElements
    <3>6. Pour(Len(buf)) /\ torn' \in BOOLEAN /\ joined' \in BOOLEAN
      BY <3>1, <1>3 DEF Spill, Fragment
    <3>7. moved = Len(buf)
      BY <2>1
    <3> HIDE DEF moved
    <3>8. QED
      BY <1>3, <3>1, <3>2, <3>3, <3>5, <3>6, <3>7
  <2>2. CASE ~spill
    <3>1. /\ buf' = Append(buf, Head(queue)) /\ content' = content /\ torn' = torn
          /\ joined' = joined /\ uncounted' = uncounted
      BY <1>1, <2>2 DEF Take
    <3>2. /\ buf' \in Seq(Event) /\ Len(buf') = Len(buf) + 1
          /\ Elements(buf) \cup {Head(queue)} \subseteq Elements(buf')
      BY <3>1, <1>2, <1>3, AppendElements
    <3>3. f \in Inode /\ content[f] \in Seq(Line)
      BY <1>1 DEF LogTypeOK
    <3>4. content[f] \o Written(0) = content[f]
      <4> DEFINE w == Written(0)
      <4>1. w \in Seq(Line) /\ Len(w) = 0
        BY <1>3, WrittenLines
      <4> HIDE DEF w
      <4>2. w = <<>>
        BY <4>1
      <4>3. content[f] \o w = content[f]
        BY <4>2, <3>3
      <4>4. QED
        BY <4>3 DEF w
    <3>5. Pour(0)
      BY <3>1, <3>3, <3>4 DEF Pour, LogTypeOK
    <3>6. SubSeq(buf, 1, Len(buf)) = buf
      BY <1>3, WholeLines
    <3>7. moved = 0 /\ torn' \in BOOLEAN /\ joined' \in BOOLEAN
      BY <2>2, <3>1 DEF LogTypeOK
    <3> HIDE DEF moved
    <3>a. moved + 1 = 1 /\ moved \in 0..Len(buf) /\ Len(buf') = Len(buf) - moved + 1
      BY <1>3, <3>2, <3>7
    <3>8. /\ Pour(moved) /\ moved \in 0..Len(buf) /\ Len(buf') = Len(buf) - moved + 1
          /\ SubSeq(buf, moved + 1, Len(buf)) = buf
      BY ONLY <3>5, <3>6, <3>7, <3>a
    <3>9. uncounted' = uncounted + Joined(moved)
      BY <3>1, <3>7 DEF Joined, LogTypeOK
    <3>10. QED
      BY <3>2, <3>7, <3>8, <3>9
  <2>3. QED
    BY <2>1, <2>2
<1> HIDE DEF moved
<1>p. /\ content' \in [Inode -> Seq(Line)] /\ content'[f] = content[f] \o Written(moved)
      /\ \A i \in Inode \ {f} : content'[i] = content[i]
  BY <1>1, <1>5, PourOne
<1>6. /\ f = log /\ f \in Inode /\ Len(content'[f]) = Len(content[f]) + moved
      /\ Elements(buf) \subseteq (Elements(content'[f]) \ {Corrupt})
                             \cup Elements(SubSeq(buf, moved + 1, Len(buf))) \cup Merged(moved)
  BY <1>1, <1>5, <1>p, PourFacts
<1>c. Joined(moved) \in Nat /\ IsFiniteSet(Merged(moved)) /\ Cardinality(Merged(moved)) <= Joined(moved)
  BY CountMerged
<1>s. pending \in Nat /\ uncounted \in Nat /\ dropped \in Nat /\ \A a, b \in Nat : a + b \in Nat
  BY DEF LogTypeOK
<1>a. pending' \in Nat /\ uncounted' \in Nat /\ lapsed' \in BOOLEAN
  <2>1. uncounted' \in Nat
    BY ONLY <1>5, <1>c, <1>s
  <2>2. QED
    BY <2>1, <1>1, <1>s DEF LogTypeOK
<1>t. /\ content' \in [Inode -> Seq(Line)] /\ queue' \in Seq(Event) /\ buf' \in Seq(Event)
      /\ torn' \in BOOLEAN /\ joined' \in BOOLEAN /\ sink' \in {"run", "rotate", "open"}
  BY <1>2, <1>4, <1>5, <1>p
<1>7. LogTypeOK'
  <2>1. LogTypeOK
    OBVIOUS
  <2>2. /\ UNCHANGED <<log, dot1, cursorFile, processVars, stopping, first, next, f, writeFailed,
                       dropped, shipVars, received, stuck>>
    BY <1>1
  <2>3. QED
    BY ONLY <2>1, <2>2, <1>t, <1>a DEF LogTypeOK, processVars, shipVars
<1>8. Grown
  BY <1>1, <1>5, <1>p, PourGrown
<1>9. Names'
  BY <1>1, <1>4, <1>6, <1>p DEF Names
<1>10. Sizes'
  <2>1. /\ Len(buf') <= Len(buf) - moved + 1 /\ Len(queue') <= Len(queue) - 1
        /\ \A i \in Inode \ {f} : content'[i] \in {content[i], <<>>} 
    BY <1>2, <1>3, <1>5, <1>p
  <2>2. log' \in {log, NoFile} /\ next' = next /\ moved \in 0..Len(buf)
    BY <1>1, <1>5
  <2>3. QED
    BY <2>1, <2>2, <1>6, <1>7, SizesMove
<1>11. LossCounted'
  <2>1. Elements(buf) \subseteq (Elements(content'[f]) \ {Corrupt})
                            \cup (Elements(buf') \cup Merged(moved))
    BY <1>5, <1>6
  <2>2. Elements(buf) \cup OnDisk \subseteq OnDisk' \cup (Elements(buf') \cup Merged(moved))
    BY <2>1, <1>1, <1>6, <1>7, <1>8, PourHeld
  <2>3. Held \subseteq Held' \cup Merged(moved)
    BY <1>1, <1>2, <1>5, <2>2 DEF Held
  <2>4. Lost' \subseteq Lost \cup Merged(moved)
    BY <2>3, <1>1, LostOf
  <2>5. dropped + uncounted + Joined(moved) <= dropped' + uncounted'
    <3>1. \A a, b, c \in Nat : a + b + c <= a + (b + c)
      OBVIOUS
    <3>2. dropped + uncounted + Joined(moved) <= dropped + (uncounted + Joined(moved))
      BY ONLY <3>1, <1>s, <1>c
    <3>3. dropped' = dropped /\ uncounted' = uncounted + Joined(moved)
      BY <1>1, <1>5
    <3>4. QED
      BY ONLY <3>2, <3>3
  <2>6. QED
    BY <2>4, <2>5, <1>1, <1>c, <1>7, LossKept DEF Losses
<1>12. Len(buf') <= pending' /\ running' = running
  <2>1. Len(buf) <= pending /\ pending \in Nat
    BY DEF Losses, LogTypeOK
  <2>2. QED
    BY <1>1, <1>3, <1>5, <2>1 DEF processVars
<1>13. QED
  BY <1>1, <1>7, <1>8, <1>9, <1>10, <1>11, <1>12, SinkStays

\* The overflowing buffer cannot be written: part of it may have reached the
\* file, the event is counted.
LEMMA WriteErrorStays ==
  ASSUME LogInv, NEW k \in 0..Len(buf), NEW t \in BOOLEAN, WriteError(k, t)
  PROVE  LogInv' /\ Kept
<1> USE Numbers DEF LogInv
<1>1. /\ UNCHANGED <<log, dot1, cursorFile, processVars, stopping, sink, first, next, f,
                     pending, shipVars, received, lapsed, stuck>>
      /\ running /\ queue # <<>> /\ queue' = Tail(queue) /\ dropped' = dropped + 1
      /\ uncounted' = uncounted + Joined(k)
      /\ f # NoFile /\ writeFailed' = TRUE /\ Pour(k)
      /\ buf' = SubSeq(buf, k + 1, Len(buf))
      /\ torn' \in BOOLEAN /\ joined' \in BOOLEAN
  BY DEF WriteError, Spill, Fragment
<1>2. /\ queue \in Seq(Event) /\ Head(queue) \in Event /\ queue' \in Seq(Event)
      /\ Len(queue') = Len(queue) - 1 /\ Elements(queue) = {Head(queue)} \cup Elements(queue')
      /\ Len(queue) > 0 /\ Len(queue) \in Nat
  BY <1>1, HeadTail DEF LogTypeOK
<1>3. buf \in Seq(Event) /\ Len(buf) \in Nat /\ buf' \in Seq(Event) /\ Len(buf') = Len(buf) - k
  BY <1>1, RestLines DEF LogTypeOK
<1>p. /\ content' \in [Inode -> Seq(Line)] /\ content'[f] = content[f] \o Written(k)
      /\ \A i \in Inode \ {f} : content'[i] = content[i]
  BY <1>1, PourOne
<1>4. /\ f = log /\ f \in Inode /\ Len(content'[f]) = Len(content[f]) + k
      /\ Elements(buf) \subseteq (Elements(content'[f]) \ {Corrupt})
                             \cup Elements(buf') \cup Merged(k)
  BY <1>1, <1>p, PourFacts
<1>c. Joined(k) \in Nat /\ IsFiniteSet(Merged(k)) /\ Cardinality(Merged(k)) <= Joined(k)
  BY CountMerged
<1>s. uncounted \in Nat /\ dropped \in Nat /\ \A a, b \in Nat : a + b \in Nat
  BY DEF LogTypeOK
<1>j. dropped' = dropped + 1 /\ uncounted' = uncounted + Joined(k)
  BY <1>1
<1>5. dropped' \in Nat /\ uncounted' \in Nat
  BY ONLY <1>j, <1>c, <1>s
<1>6. LogTypeOK'
  <2>1. /\ content' \in [Inode -> Seq(Line)] /\ queue' \in Seq(Event) /\ buf' \in Seq(Event)
    BY <1>2, <1>3, <1>p
  <2>2. LogTypeOK /\ writeFailed' \in BOOLEAN /\ torn' \in BOOLEAN /\ joined' \in BOOLEAN
    BY <1>1
  <2>3. UNCHANGED <<log, dot1, cursorFile, processVars, stopping, sink, first, next, f,
                    pending, shipVars, received, lapsed, stuck>>
    BY <1>1
  <2>4. QED
    BY ONLY <2>1, <2>2, <2>3, <1>5 DEF LogTypeOK, processVars, shipVars
<1>7. Grown
  BY <1>1, <1>p, PourGrown
<1>8. Names'
  BY <1>1, <1>4, <1>p DEF Names
<1>9. Sizes'
  <2>1. Len(buf') <= Len(buf) - k + 1 /\ Len(queue') <= Len(queue) - 1
    BY <1>2, <1>3
  <2>2. /\ log' = log /\ next' = next
        /\ \A i \in Inode \ {f} : content'[i] \in {content[i], <<>>}
    BY <1>1, <1>p
  <2>3. QED
    BY <1>4, <1>6, <2>1, <2>2, SizesMove
<1>10. LossCounted'
  <2> DEFINE X == {Head(queue)} \cup Merged(k)
  <2>1. Elements(buf) \subseteq (Elements(content'[f]) \ {Corrupt})
                            \cup (Elements(buf') \cup Merged(k))
    BY <1>4
  <2>2. Elements(buf) \cup OnDisk \subseteq OnDisk' \cup (Elements(buf') \cup Merged(k))
    BY <2>1, <1>1, <1>4, <1>6, <1>7, PourHeld
  <2>3. Held \subseteq Held' \cup X
    BY <1>1, <1>2, <2>2 DEF Held
  <2>4. Lost' \subseteq Lost \cup X
    BY <2>3, <1>1, LostOf
  <2>5. IsFiniteSet({Head(queue)}) /\ Cardinality({Head(queue)}) <= 1 /\ 1 \in Nat
    BY Single
  <2>6. IsFiniteSet(X) /\ Cardinality(X) <= 1 + Joined(k)
    BY <2>5, <1>c, CountUnion
  <2>7. 1 + Joined(k) \in Nat /\ dropped + uncounted + (1 + Joined(k)) <= dropped' + uncounted'
    <3>1. \A a, b, c \in Nat : 1 + c \in Nat /\ a + b + (1 + c) <= (a + 1) + (b + c)
      OBVIOUS
    <3>2. dropped + uncounted + (1 + Joined(k)) <= (dropped + 1) + (uncounted + Joined(k))
      BY ONLY <3>1, <1>s, <1>c
    <3>3. QED
      BY ONLY <1>j, <3>1, <3>2, <1>s, <1>c
  <2> HIDE DEF X
  <2>8. QED
    BY <2>4, <2>6, <2>7, <1>1, <1>6, LossKept DEF Losses
<1>11. Len(buf') <= pending' /\ running' = running
  BY <1>1, <1>3 DEF Losses, processVars, LogTypeOK
<1>12. QED
  BY <1>1, <1>6, <1>7, <1>8, <1>9, <1>10, <1>11, SinkStays

\* rotate flushes, and names the file <path>.1: what it does not flush, and an
\* event that joins a fragment, are the losses that are not counted.
LEMMA RotateStays ==
  ASSUME LogInv, NEW k \in 0..Len(buf), NEW t \in BOOLEAN, NEW renamed \in BOOLEAN,
         Rotate(k, t, renamed)
  PROVE  LogInv' /\ Kept
<1> USE Numbers DEF LogInv
<1> DEFINE rest == SubSeq(buf, k + 1, Len(buf))
           m == (Len(buf) - k) + Joined(k)
<1>1. /\ UNCHANGED <<cursorFile, processVars, stopping, queue, first, next, writeFailed,
                     dropped, shipVars, received, lapsed, stuck>>
      /\ running /\ sink = "rotate" /\ f' = NoFile /\ sink' = "open" /\ pending' = 0
      /\ buf' = <<>> /\ uncounted' = uncounted + Len(buf) - k + Joined(k)
  BY DEF Rotate
<1>b. torn' \in BOOLEAN /\ joined' \in BOOLEAN
  BY DEF Rotate, Fragment
<1>3. f # NoFile /\ (~lapsed => dot1 = NoFile)
  BY <1>1 DEF Names
<1>l. f = log /\ log # dot1 /\ log \in Inode /\ dot1 \in Inode \cup {NoFile} /\ f \in Inode
  BY <1>3 DEF Names, LogTypeOK
<1>s. content \in [Inode -> Seq(Line)] /\ buf \in Seq(Event)
  BY DEF LogTypeOK
<1>w. content[f] \o Written(k) \in Seq(Line)
  BY <1>l, <1>s, PourLines
<1>2. /\ content' \in [Inode -> Seq(Line)] /\ content'[f] = content[f] \o Written(k)
      /\ \/ log' = log /\ dot1' = dot1 /\ \A i \in Inode \ {f} : content'[i] = content[i]
         \/ /\ log' = NoFile /\ dot1' = log
            /\ \A i \in Inode \ {f} : content'[i] = IF i = dot1 THEN <<>> ELSE content[i]
  <2>1. CASE renamed
    <3> DEFINE p == content[f] \o Written(k)
    <3>1. /\ content' = [i \in Inode |-> IF i = f THEN p ELSE IF i = dot1 THEN <<>> ELSE content[i]]
          /\ log' = NoFile /\ dot1' = log /\ p \in Seq(Line)
      BY <2>1, <1>w DEF Rotate
    <3> HIDE DEF p
    <3>2. <<>> \in Seq(Line)
      OBVIOUS
    <3>3. content' \in [Inode -> Seq(Line)] /\ content'[f] = p
      BY <3>1, <3>2, <1>l, <1>s
    <3>4. \A i \in Inode \ {f} : content'[i] = IF i = dot1 THEN <<>> ELSE content[i]
      BY <3>1
    <3>5. QED
      BY <3>1, <3>3, <3>4 DEF p
  <2>2. CASE ~renamed
    <3>1. Pour(k) /\ log' = log /\ dot1' = dot1
      BY <2>2 DEF Rotate
    <3>2. QED
      BY <3>1, <1>3, PourOne
  <2>3. QED
    BY <2>1, <2>2
<1>4. /\ buf \in Seq(Event) /\ Len(buf) \in Nat /\ rest \in Seq(Event) /\ Len(rest) = Len(buf) - k
      /\ buf' \in Seq(Event) /\ Len(buf') = 0
  BY <1>1, <1>s, RestLines
<1>5. /\ Len(content'[f]) = Len(content[f]) + k
      /\ Elements(buf) \subseteq (Elements(content'[f]) \ {Corrupt}) \cup Elements(rest) \cup Merged(k)
  BY <1>2, <1>3, PourFacts
<1>c. Joined(k) \in Nat /\ IsFiniteSet(Merged(k)) /\ Cardinality(Merged(k)) <= Joined(k)
  BY CountMerged
<1>6. m \in Nat /\ uncounted \in Nat /\ dropped \in Nat /\ uncounted' = uncounted + m
  <2>1. Len(buf) - k \in Nat /\ uncounted \in Nat /\ dropped \in Nat
    BY <1>4 DEF LogTypeOK
  <2>2. k \in Nat /\ \A a, b, u, j \in Nat :
          a - b \in Nat => (a - b) + j \in Nat /\ u + a - b + j = u + ((a - b) + j)
    OBVIOUS
  <2>3. QED
    BY ONLY <2>1, <2>2, <1>1, <1>4, <1>c
<1>a. uncounted' \in Nat /\ pending' \in Nat
  <2>1. \A a, b \in Nat : a + b \in Nat
    OBVIOUS
  <2>2. QED
    BY ONLY <2>1, <1>1, <1>6
<1>7. LogTypeOK'
  <2>1. LogTypeOK
    OBVIOUS
  <2>2. /\ UNCHANGED <<cursorFile, processVars, stopping, queue, first, next, writeFailed,
                       dropped, shipVars, received, lapsed, stuck>>
        /\ f' = NoFile /\ sink' = "open"
    BY <1>1
  <2>3. log' \in Inode \cup {NoFile} /\ dot1' \in Inode \cup {NoFile}
    BY <1>2, <1>l
  <2>4. content' \in [Inode -> Seq(Line)] /\ buf' \in Seq(Event)
    BY <1>2, <1>4
  <2>5. QED
    BY ONLY <2>1, <2>2, <2>3, <2>4, <1>a, <1>b, SMTT(60) DEF LogTypeOK, processVars, shipVars
<1>8. ~lapsed => Grown
  <2>1. ASSUME ~lapsed PROVE \A i \in Inode \ {f} : content'[i] = content[i]
    BY <1>2, <1>3, <2>1
  <2>2. QED
    BY <1>2, <1>3, <2>1, PourGrown
<1>9. Names'
  <2>1. /\ log' # NoFile => log' # dot1'
        /\ f' \in {NoFile, log'} /\ sink' # "rotate"
    BY <1>1, <1>2, <1>l
  <2>2. \A i \in Inode \ {log', dot1'} : content'[i] = <<>>
    BY <1>2, <1>l DEF Names
  <2>3. QED
    BY <2>1, <2>2 DEF Names
<1>10. Sizes'
  <2>1. queue \in Seq(Event) /\ queue' = queue
    BY <1>1 DEF LogTypeOK
  <2>2. Len(queue) \in Nat /\ Len(buf') <= Len(buf) - k /\ Len(queue') <= Len(queue)
    BY <2>1, <1>4
  <2>3. /\ next' = next /\ log' \in {log, NoFile}
        /\ \A i \in Inode \ {f} : content'[i] \in {content[i], <<>>}
    BY <1>1, <1>2
  <2>4. QED
    BY <1>l, <1>5, <1>7, <2>2, <2>3, SizesMove
<1> HIDE DEF rest, m
<1>11. LossCounted'
  <2> DEFINE X == Elements(rest) \cup Merged(k)
  <2>1. ASSUME ~lapsed PROVE Lost' \subseteq Lost \cup X
    <3>1. f \in {log', dot1'} /\ received' = received
      BY <1>1, <1>2, <1>l
    <3>2. Elements(buf) \subseteq (Elements(content'[f]) \ {Corrupt}) \cup X
      BY <1>5
    <3> HIDE DEF X
    <3>3. Elements(buf) \cup OnDisk \subseteq OnDisk' \cup X
      BY <2>1, <3>1, <3>2, <1>l, <1>7, <1>8, PourHeld
    <3>4. Held \subseteq Held' \cup X
      BY <1>1, <3>3 DEF Held
    <3>5. QED
      BY <3>4, <1>1, LostOf
  <2>2. IsFiniteSet(Elements(rest)) /\ Cardinality(Elements(rest)) <= Len(buf) - k
    BY <1>4, CountElements
  <2>3. Len(buf) - k \in Nat
    BY <1>4
  <2>4. IsFiniteSet(X) /\ Cardinality(X) <= m
    BY <2>2, <2>3, <1>c, CountUnion DEF m
  <2>5. \A a, b, c \in Nat : a + b + c <= a + (b + c)
    OBVIOUS
  <2>6. dropped + uncounted + m <= dropped' + uncounted'
    <3>1. dropped' = dropped
      BY <1>1
    <3>2. QED
      BY ONLY <3>1, <1>6, <2>5
  <2> HIDE DEF X
  <2>7. LossCounted /\ running /\ (~lapsed' => ~lapsed)
    BY <1>1 DEF Losses
  <2>8. QED
    BY <2>1, <2>4, <2>6, <2>7, <1>6, <1>7, LossKept
<1>12. Len(buf') <= pending' /\ running' = running /\ (dot1 # NoFile => dot1' # NoFile)
  BY <1>1, <1>2, <1>4, <1>l DEF processVars
<1>13. QED
  BY <1>1, <1>7, <1>8, <1>9, <1>10, <1>11, <1>12, SinkStays

\* <path> is opened or created, after a rotation or at a tick: the sizes and
\* the names stay right.
LEMMA OpenStays ==
  ASSUME LogTypeOK, LogTypeOK', Names, Sizes,
         NEW ok \in BOOLEAN, NEW repaired \in BOOLEAN, NEW tail, NEW n,
         openOrErr(ok, repaired, tail, n),
         content' = content, dot1' = dot1, queue' = queue, next' = next,
         buf' \in {buf, <<>>}, sink' = "run"
  PROVE  Names' /\ Sizes'
<1> USE Numbers
<1>1. /\ f' \in {NoFile, log'} /\ (log # NoFile => log' = log)
      /\ log' \in Inode \cup {NoFile} /\ (log = NoFile => log' # dot1 \/ log' = NoFile)
  BY OpenFacts
<1>2. Names'
  <2>1. log' # NoFile => log' # dot1'
    BY <1>1 DEF Names
  <2>2. \A i \in Inode \ {log', dot1'} : content'[i] = <<>>
    BY <1>1 DEF Names
  <2>3. QED
    BY <1>1, <2>1, <2>2 DEF Names
<1>3. buf \in Seq(Event) /\ queue \in Seq(Event) /\ \A i \in Inode : content[i] \in Seq(Line)
  BY DEF LogTypeOK
<1>4. /\ Len(buf) \in Nat /\ Len(queue) \in Nat /\ Len(buf') \in Nat /\ Len(buf') <= Len(buf)
      /\ \A i \in Inode : Len(content[i]) \in Nat
  BY <1>3
<1>5. /\ next \in Nat /\ Len(buf') + Len(queue) <= next - 1
      /\ next - 1 \in 0..MaxEvents /\ \A i \in Inode : Len(content[i]) <= next - 1
  BY <1>4 DEF Sizes, LogTypeOK
<1>6. log' # NoFile => Len(content[log']) + Len(buf') + Len(queue) <= next - 1
  <2>1. CASE log # NoFile
    <3>1. log \in Inode /\ log' = log
      BY <1>1, <2>1 DEF LogTypeOK
    <3>2. Len(content[log]) + Len(buf) + Len(queue) <= next - 1
      BY <2>1 DEF Sizes
    <3>3. QED
      BY <1>4, <1>5, <3>1, <3>2
  <2>2. CASE log = NoFile /\ log' # NoFile
    <3>1. log' \in Inode /\ log' \notin {log, dot1}
      BY <1>1, <2>2
    <3>2. content[log'] = <<>>
      BY <3>1 DEF Names
    <3>3. Len(content[log']) = 0
      BY <3>2
    <3>4. QED
      BY <1>4, <1>5, <3>3
  <2>3. QED
    BY <2>1, <2>2
<1>7. QED
  BY <1>2, <1>5, <1>6 DEF Sizes

\* rotate opens a fresh file; nothing is lost.
LEMMA OpenedStays ==
  ASSUME LogInv, NEW ok \in BOOLEAN, NEW repaired \in BOOLEAN, Opened(ok, repaired)
  PROVE  LogInv' /\ Kept
<1> USE Numbers DEF LogInv
<1>1. /\ UNCHANGED <<content, dot1, cursorFile, processVars, stopping, queue, first, next, buf,
                     pending, writeFailed, uncounted, shipVars, received, stuck>>
      /\ running /\ sink' = "run" /\ openOrErr(ok, repaired, torn, dropped)
  BY DEF Opened
<1>2. /\ log' \in Inode \cup {NoFile} /\ lapsed' \in BOOLEAN /\ (~lapsed' => ~lapsed)
      /\ f' \in {NoFile, log'} /\ torn' \in BOOLEAN /\ joined' \in BOOLEAN
      /\ dropped' = dropped + (IF torn /\ repaired THEN 1 ELSE 0)
  BY <1>1, OpenFacts
<1>3. dropped \in Nat /\ dropped' \in Nat /\ dropped <= dropped'
  BY <1>2 DEF LogTypeOK
<1>4. LogTypeOK'
  <2>1. LogTypeOK /\ f' \in Inode \cup {NoFile}
    BY <1>2
  <2>2. /\ UNCHANGED <<content, dot1, cursorFile, processVars, stopping, queue, first, next, buf,
                       pending, writeFailed, uncounted, shipVars, received, stuck>>
        /\ sink' = "run"
    BY <1>1
  <2>3. QED
    BY ONLY <2>1, <2>2, <1>2, <1>3 DEF LogTypeOK, processVars, shipVars
<1>5. ~lapsed' => Grown
  BY <1>1, OpenGrown
<1>6. Names' /\ Sizes'
  BY <1>1, <1>4, OpenStays
<1>7. LossCounted'
  <2>1. ~lapsed' => OnDisk \subseteq OnDisk'
    BY <1>4, <1>5, DiskKept
  <2>2. ~lapsed' => ~lapsed /\ Held \subseteq Held'
    BY <1>1, <1>2, <2>1 DEF Held
  <2>3. QED
    BY <2>2, <1>1, <1>3, <1>4, NothingLost DEF Losses
<1>8. Len(buf') <= pending' /\ running' = running
  BY <1>1 DEF Losses, processVars
<1>9. QED
  BY <1>1, <1>2, <1>4, <1>5, <1>6, <1>7, <1>8, SinkStays

\* The tick's flush moves the buffer to the file.
LEMMA FlushStays ==
  ASSUME LogInv, Flush
  PROVE  LogInv' /\ Kept
<1> USE Numbers DEF LogInv
<1>1. /\ UNCHANGED <<log, dot1, cursorFile, processVars, stopping, sink, queue, first, next,
                     f, writeFailed, dropped, shipVars, received, lapsed, stuck>>
      /\ running /\ f # NoFile /\ Pour(Len(buf)) /\ buf' = <<>> /\ pending' = 0
      /\ uncounted' = uncounted + Joined(Len(buf))
      /\ torn' \in BOOLEAN /\ joined' \in BOOLEAN
  BY DEF Flush, Spill, Fragment
<1>2. /\ buf \in Seq(Event) /\ Len(buf) \in Nat /\ Len(buf) \in 0..Len(buf)
      /\ buf' \in Seq(Event) /\ Len(buf') = 0
  BY <1>1 DEF LogTypeOK
<1> DEFINE rest == SubSeq(buf, Len(buf) + 1, Len(buf))
           n == Len(buf)
<1>a. rest \in Seq(Event) /\ Len(rest) = Len(buf) - Len(buf)
  BY <1>2, RestLines
<1>3. rest \in Seq(Event) /\ Len(rest) = 0
  BY <1>2, <1>a
<1>4. Elements(rest) = {}
  <2> HIDE DEF rest
  <2>1. QED
    BY <1>3, NoElements
<1>p. /\ content' \in [Inode -> Seq(Line)] /\ content'[f] = content[f] \o Written(n)
      /\ \A i \in Inode \ {f} : content'[i] = content[i]
  BY <1>1, <1>2, PourOne
<1>5. /\ f = log /\ f \in Inode
      /\ Len(content'[f]) = Len(content[f]) + n
      /\ Elements(buf) \subseteq (Elements(content'[f]) \ {Corrupt}) \cup Elements(rest) \cup Merged(n)
  BY <1>1, <1>2, <1>p, PourFacts
<1> HIDE DEF rest
<1>c. Joined(n) \in Nat /\ IsFiniteSet(Merged(n)) /\ Cardinality(Merged(n)) <= Joined(n)
  BY CountMerged
<1>j. uncounted \in Nat /\ dropped \in Nat /\ uncounted' = uncounted + Joined(n) /\ dropped' = dropped
  BY <1>1 DEF LogTypeOK
<1>u. uncounted' \in Nat /\ pending' \in Nat
  <2>1. \A a, b \in Nat : a + b \in Nat
    OBVIOUS
  <2>2. QED
    BY ONLY <2>1, <1>1, <1>c, <1>j
<1>6. LogTypeOK'
  <2>1. LogTypeOK
    OBVIOUS
  <2>2. /\ UNCHANGED <<log, dot1, cursorFile, processVars, stopping, sink, queue, first, next,
                       f, writeFailed, dropped, shipVars, received, lapsed, stuck>>
        /\ torn' \in BOOLEAN /\ joined' \in BOOLEAN
    BY <1>1
  <2>3. content' \in [Inode -> Seq(Line)] /\ buf' \in Seq(Event)
    BY <1>2, <1>p
  <2>4. QED
    BY ONLY <2>1, <2>2, <2>3, <1>u DEF LogTypeOK, processVars, shipVars
<1>7. Grown
  BY <1>1, <1>2, <1>p, PourGrown
<1>8. Names'
  BY <1>1, <1>5, <1>p DEF Names
<1>9. Sizes'
  <2>1. queue \in Seq(Event) /\ queue' = queue
    BY <1>1 DEF LogTypeOK
  <2>2. Len(queue) \in Nat /\ Len(buf') <= Len(buf) - n /\ Len(queue') <= Len(queue)
    BY <2>1, <1>2
  <2>3. /\ log' \in {log, NoFile} /\ next' = next /\ n \in 0..Len(buf)
        /\ \A i \in Inode \ {f} : content'[i] \in {content[i], <<>>}
    BY <1>1, <1>2, <1>p
  <2>4. QED
    BY <1>5, <1>6, <2>2, <2>3, SizesMove
<1> HIDE DEF n
<1>10. LossCounted'
  <2>1. f \in {log', dot1'} /\ received' = received
    BY <1>1, <1>5
  <2>2. Elements(buf) \subseteq (Elements(content'[f]) \ {Corrupt}) \cup Merged(n)
    BY <1>4, <1>5
  <2>3. Elements(buf) \cup OnDisk \subseteq OnDisk' \cup Merged(n)
    BY <2>1, <2>2, <1>5, <1>6, <1>7, PourHeld
  <2>4. Held \subseteq Held' \cup Merged(n)
    BY <1>1, <2>3 DEF Held
  <2>5. Lost' \subseteq Lost \cup Merged(n)
    BY <2>4, <1>1, LostOf
  <2>6. \A a, b, c \in Nat : a + b + c <= a + (b + c)
    OBVIOUS
  <2>7. dropped + uncounted + Joined(n) <= dropped' + uncounted'
    BY ONLY <2>6, <1>c, <1>j
  <2>8. LossCounted /\ running /\ (~lapsed' => ~lapsed)
    BY <1>1 DEF Losses
  <2>9. QED
    BY <2>5, <2>7, <2>8, <1>c, <1>6, LossKept
<1>11. Len(buf') <= pending' /\ running' = running
  BY <1>1, <1>2 DEF processVars
<1>12. QED
  BY <1>1, <1>6, <1>7, <1>8, <1>9, <1>10, <1>11, SinkStays

\* The losses of a writer that is replaced are no more than was pending, and
\* what joined a fragment.
LEMMA ReplacedCounted ==
  ASSUME LogTypeOK, LogTypeOK', Losses, running, first' = first, next' = next,
         NEW r \in Seq(Event), Len(r) <= pending,
         NEW M, NEW j \in Nat, IsFiniteSet(M), Cardinality(M) <= j,
         ~lapsed' => ~lapsed /\ Held \subseteq Held' \cup (Elements(r) \cup M),
         NEW e \in Nat, dropped' = (dropped + pending) + e,
         uncounted' = uncounted + j
  PROVE  LossCounted'
<1> DEFINE X == Elements(r) \cup M
<1>1. ~lapsed' => ~lapsed /\ Lost' \subseteq Lost \cup X
  BY LostOf
<1>2. IsFiniteSet(Elements(r)) /\ Cardinality(Elements(r)) <= Len(r)
  BY CountElements
<1>3. Cardinality(Elements(r)) \in Nat /\ Len(r) \in Nat /\ pending \in Nat
  BY <1>2, FS_CardinalityType DEF LogTypeOK
<1>4. Cardinality(Elements(r)) <= pending
  BY <1>2, <1>3
<1>5. IsFiniteSet(X) /\ Cardinality(X) <= pending + j /\ pending + j \in Nat
  <2>1. IsFiniteSet(Elements(r)) /\ Cardinality(Elements(r)) <= pending /\ pending \in Nat
    BY <1>2, <1>3, <1>4
  <2>2. IsFiniteSet(X) /\ Cardinality(X) <= pending + j
    BY <2>1, CountUnion
  <2>3. \A a, b \in Nat : a + b \in Nat
    OBVIOUS
  <2>4. QED
    BY <2>1, <2>2, <2>3
<1>6. dropped \in Nat /\ uncounted \in Nat
  BY DEF LogTypeOK
<1>7. \A a, b, c, d, g \in Nat : a + b + (c + d) <= ((a + c) + g) + (b + d)
  OBVIOUS
<1>8. dropped + uncounted + (pending + j) <= dropped' + uncounted'
  BY <1>3, <1>6, <1>7
<1> HIDE DEF X
<1>9. QED
  BY <1>1, <1>5, <1>8, LossKept DEF Losses

\* The tick's flush fails part way: the rest was pending, and is counted when
\* the writer is replaced.
LEMMA FlushErrorStays ==
  ASSUME LogInv, NEW k \in 0..Len(buf), NEW t \in BOOLEAN,
         NEW ok \in BOOLEAN, NEW repaired \in BOOLEAN, FlushError(k, t, ok, repaired)
  PROVE  LogInv' /\ Kept
<1> USE Numbers DEF LogInv
<1> DEFINE rest == SubSeq(buf, k + 1, Len(buf))
           e == IF Fragment(k, t) /\ repaired THEN 1 ELSE 0
<1>1. /\ UNCHANGED <<dot1, cursorFile, processVars, stopping, sink, queue, first, next,
                     shipVars, received, stuck>>
      /\ running /\ sink = "run" /\ f # NoFile /\ Pour(k) /\ buf' = <<>> /\ pending' = 0
      /\ writeFailed' = FALSE /\ openOrErr(ok, repaired, Fragment(k, t), dropped + pending)
      /\ uncounted' = uncounted + Joined(k)
  BY DEF FlushError, reopen
<1>2. /\ buf \in Seq(Event) /\ Len(buf) \in Nat /\ rest \in Seq(Event) /\ Len(rest) = Len(buf) - k
      /\ buf' \in Seq(Event) /\ Len(buf') = 0
  <2>1. buf \in Seq(Event) /\ Len(buf) \in Nat
    BY DEF LogTypeOK
  <2>2. rest \in Seq(Event) /\ Len(rest) = Len(buf) - k
    BY <2>1, RestLines
  <2>3. buf' \in Seq(Event) /\ Len(buf') = 0
    BY ONLY <1>1
  <2>4. QED
    BY <2>1, <2>2, <2>3
<1>p. /\ content' \in [Inode -> Seq(Line)] /\ content'[f] = content[f] \o Written(k)
      /\ \A i \in Inode \ {f} : content'[i] = content[i]
  BY <1>1, PourOne
<1>3. /\ f = log /\ f \in Inode /\ Len(content'[f]) = Len(content[f]) + k
      /\ Elements(buf) \subseteq (Elements(content'[f]) \ {Corrupt}) \cup Elements(rest) \cup Merged(k)
  BY <1>1, <1>p, PourFacts
<1> HIDE DEF rest
<1>4. /\ f' \in {NoFile, log'} /\ torn' \in BOOLEAN /\ joined' \in BOOLEAN
      /\ log' = log /\ lapsed' = lapsed /\ dropped' = (dropped + pending) + e
  BY <1>1, <1>3, OpenFacts
<1>c. Joined(k) \in Nat /\ IsFiniteSet(Merged(k)) /\ Cardinality(Merged(k)) <= Joined(k)
  BY CountMerged
<1>e. e \in Nat
  OBVIOUS
<1> HIDE DEF e
<1>5. dropped' \in Nat /\ uncounted' \in Nat /\ pending' \in Nat
  <2>1. dropped \in Nat /\ pending \in Nat /\ uncounted \in Nat /\ \A a, b \in Nat : a + b \in Nat
    BY DEF LogTypeOK
  <2>2. QED
    BY ONLY <2>1, <1>1, <1>4, <1>c, <1>e
<1>6. LogTypeOK'
  <2>1. LogTypeOK /\ f' \in Inode \cup {NoFile}
    BY <1>3, <1>4
  <2>2. /\ UNCHANGED <<dot1, cursorFile, processVars, stopping, sink, queue, first, next,
                       shipVars, received, stuck>>
        /\ writeFailed' \in BOOLEAN
    BY <1>1
  <2>3. content' \in [Inode -> Seq(Line)] /\ buf' \in Seq(Event)
    BY <1>2, <1>p
  <2>4. torn' \in BOOLEAN /\ joined' \in BOOLEAN /\ log' = log /\ lapsed' = lapsed
    BY <1>4
  <2>5. QED
    BY ONLY <2>1, <2>2, <2>3, <2>4, <1>5 DEF LogTypeOK, processVars, shipVars
<1>7. Grown
  BY <1>1, <1>4, <1>p, PourGrown
<1>8. Names'
  BY <1>1, <1>3, <1>4, <1>p DEF Names
<1>9. Sizes'
  <2>1. queue \in Seq(Event) /\ queue' = queue
    BY <1>1 DEF LogTypeOK
  <2>2. Len(queue) \in Nat /\ Len(buf') <= Len(buf) - k /\ Len(queue') <= Len(queue)
    BY <2>1, <1>2
  <2>3. /\ log' \in {log, NoFile} /\ next' = next
        /\ \A i \in Inode \ {f} : content'[i] \in {content[i], <<>>}
    BY <1>1, <1>4, <1>p
  <2>4. QED
    BY <1>3, <1>6, <2>2, <2>3, SizesMove
<1>10. LossCounted'
  <2> DEFINE X == Elements(rest) \cup Merged(k)
  <2>1. f \in {log', dot1'} /\ received' = received
    BY <1>1, <1>3, <1>4
  <2>2. Elements(buf) \subseteq (Elements(content'[f]) \ {Corrupt}) \cup X
    BY <1>3
  <2> HIDE DEF X
  <2>3. Elements(buf) \cup OnDisk \subseteq OnDisk' \cup X
    BY <2>1, <2>2, <1>3, <1>6, <1>7, PourHeld
  <2>4. Held \subseteq Held' \cup X
    BY <1>1, <2>3 DEF Held
  <2>5. Len(rest) <= pending
    BY <1>2 DEF Losses, LogTypeOK
  <2>6. Losses /\ running /\ first' = first /\ next' = next /\ uncounted' = uncounted + Joined(k)
        /\ (~lapsed' => ~lapsed) /\ rest \in Seq(Event)
    BY <1>1, <1>2, <1>4
  <2>7. QED
    BY <2>4, <2>5, <2>6, <1>4, <1>6, <1>c, <1>e, ReplacedCounted DEF X
<1>11. Len(buf') <= pending' /\ running' = running
  BY <1>1, <1>2 DEF processVars
<1>12. QED
  BY <1>1, <1>4, <1>6, <1>7, <1>8, <1>9, <1>10, <1>11, SinkStays

\* The tick replaces a failed writer, or opens the file that is missing: the
\* buffer it abandons was pending.
LEMMA TickReopenStays ==
  ASSUME LogInv, NEW ok \in BOOLEAN, NEW repaired \in BOOLEAN, TickReopen(ok, repaired)
  PROVE  LogInv' /\ Kept
<1> USE Numbers DEF LogInv
<1> DEFINE e == IF torn /\ repaired THEN 1 ELSE 0
<1>1. /\ UNCHANGED <<content, dot1, cursorFile, processVars, stopping, sink, queue, first, next,
                     uncounted, shipVars, received, stuck>>
      /\ running /\ sink = "run" /\ openOrErr(ok, repaired, torn, dropped + pending)
      /\ buf' = <<>> /\ pending' = 0 /\ writeFailed' = FALSE
  BY DEF TickReopen, reopen
<1>2. /\ log' \in Inode \cup {NoFile} /\ lapsed' \in BOOLEAN /\ (~lapsed' => ~lapsed)
      /\ f' \in {NoFile, log'} /\ torn' \in BOOLEAN /\ joined' \in BOOLEAN
      /\ dropped' = (dropped + pending) + e
  BY <1>1, OpenFacts
<1>e. e \in Nat
  OBVIOUS
<1> HIDE DEF e
<1>3. dropped' \in Nat /\ uncounted \in Nat /\ uncounted' = uncounted + 0
  BY <1>1, <1>2, <1>e DEF LogTypeOK
<1>a. buf' \in Seq(Event) /\ Len(buf') = 0 /\ pending' \in Nat /\ f' \in Inode \cup {NoFile}
  BY <1>1, <1>2
<1>4. LogTypeOK'
  <2>1. /\ UNCHANGED <<content, dot1, cursorFile, processVars, stopping, sink, queue, first, next,
                       uncounted, shipVars, received, stuck>>
        /\ writeFailed' \in BOOLEAN /\ LogTypeOK
    BY <1>1
  <2>2. /\ log' \in Inode \cup {NoFile} /\ lapsed' \in BOOLEAN
        /\ torn' \in BOOLEAN /\ joined' \in BOOLEAN /\ dropped' \in Nat
    BY <1>2, <1>3
  <2>3. QED
    BY ONLY <2>1, <2>2, <1>a DEF LogTypeOK, processVars, shipVars
<1>5. ~lapsed' => Grown
  BY <1>1, OpenGrown
<1>6. Names' /\ Sizes'
  BY <1>1, <1>4, OpenStays
<1>7. LossCounted'
  <2>1. ~lapsed' => OnDisk \subseteq OnDisk'
    BY <1>4, <1>5, DiskKept
  <2>2. ~lapsed' => ~lapsed /\ Held \subseteq Held' \cup (Elements(buf) \cup {})
    BY <1>1, <1>2, <2>1 DEF Held
  <2>3. IsFiniteSet({}) /\ Cardinality({}) <= 0 /\ 0 \in Nat
    BY FS_EmptySet
  <2>4. Losses /\ Len(buf) <= pending /\ buf \in Seq(Event)
    BY DEF Losses, LogTypeOK
  <2>5. running /\ first' = first /\ next' = next
    BY <1>1
  <2>6. QED
    BY <2>2, <2>3, <2>4, <2>5, <1>2, <1>3, <1>4, <1>e, ReplacedCounted
<1>8. Len(buf') <= pending' /\ running' = running
  BY <1>1, <1>a DEF processVars
<1>9. QED
  BY <1>1, <1>2, <1>4, <1>5, <1>6, <1>7, <1>8, SinkStays

-----------------------------------------------------------------------------
(* The steps of the shipper                                                *)

\* Of a step of the shipper that leaves the files alone: what it has to show.
LEMMA ShipperStays ==
  ASSUME LogInv, LogTypeOK', running, UNCHANGED <<diskVars, sinkVars, processVars, lapsed>>,
         received \subseteq received', Stages', ~lapsed => Cursors' /\ Drains'
  PROVE  LogInv' /\ Kept
<1> USE DEF LogInv
<1>1. OnDisk' = OnDisk
  BY QuietDisk
<1>2. /\ content' = content /\ log' = log /\ dot1' = dot1 /\ f' = f
      /\ sink' = sink /\ next' = next /\ buf' = buf /\ queue' = queue /\ first' = first
      /\ pending' = pending /\ dropped' = dropped /\ uncounted' = uncounted /\ running' = running
  BY DEF diskVars, sinkVars, writerVars, processVars
<1>3. Names' /\ Sizes'
  BY <1>2 DEF Names, Sizes
<1>4. LossCounted'
  <2>1. Held \subseteq Held'
    BY <1>1, <1>2 DEF Held
  <2>2. dropped \in Nat /\ dropped <= dropped'
    BY <1>2 DEF LogTypeOK
  <2>3. QED
    BY <2>1, <2>2, <1>2, NothingLost DEF Losses
<1>5. Losses'
  BY <1>2, <1>4 DEF Losses
<1>6. QED
  BY <1>1, <1>3, <1>5 DEF Kept

\* A cursor stays sound while the files stay.
LEMMA SoundStill ==
  ASSUME LogTypeOK, LogTypeOK', UNCHANGED diskVars, received \subseteq received',
         NEW c \in Cursor, Sound(c)
  PROVE  Sound(c)'
<1>1. Grown /\ log' = log /\ dot1' = dot1
  BY QuietDisk DEF diskVars
<1>2. QED
  BY <1>1, SoundKept

\* ... and so are those of the shipper that do not move.
LEMMA CursorsStill ==
  ASSUME LogTypeOK, LogTypeOK', UNCHANGED diskVars, received \subseteq received', Cursors
  PROVE  /\ cursorFile' = cursorFile => Sound(cursorFile)'
         /\ cur' = cur => Sound(cur)'
         /\ old' = old => Sound(old)'
<1>1. \A c \in Cursor : Sound(c) => Sound(c)'
  BY SoundStill
<1>2. QED
  BY <1>1 DEF Cursors, LogTypeOK, Sound

\* No cursor is sound, and so is one at the start of a file.
LEMMA SoundStart ==
  ASSUME LogTypeOK, NEW i \in Inode \cup {NoFile}
  PROVE  Sound([ino |-> i, off |-> 0]) /\ [ino |-> i, off |-> 0] \in Cursor
<1>1. [ino |-> i, off |-> 0] \in Cursor
  BY DEF Cursor
<1>2. i \in Inode => 0 <= Len(content[i])
  <2> SUFFICES ASSUME i \in Inode PROVE 0 <= Len(content[i])
    OBVIOUS
  <2>1. content[i] \in Seq(Line)
    BY DEF LogTypeOK
  <2>2. QED
    BY <2>1
<1>3. 1..0 = {}
  OBVIOUS
<1>4. QED
  BY <1>1, <1>2, <1>3 DEF Sound

\* A drain that returns.
LEMMA ReturnStays ==
  ASSUME LogInv, running, UNCHANGED <<diskVars, cursorFile, sinkVars, processVars, lapsed, stuck>>,
         received \subseteq received', received' \subseteq Event, DrainReturns
  PROVE  LogInv' /\ Kept
<1> USE DEF LogInv
<1>1. /\ ship' = "idle" /\ path' = "log" /\ old' = NoCursor /\ ino' = NoFile /\ batch' = <<>>
      /\ cur' = cur
  BY DEF DrainReturns
<1>2. NoCursor \in Cursor /\ <<>> \in Seq(Line)
  BY SoundStart DEF NoCursor
<1>3. LogTypeOK'
  BY <1>1, <1>2 DEF LogTypeOK, diskVars, sinkVars, writerVars, processVars
<1>4. Sound(NoCursor)'
  BY <1>3 DEF Sound, NoCursor
<1>5. ~lapsed => Cursors'
  <2>1. ~lapsed => Sound(cursorFile)' /\ Sound(cur)'
    BY <1>1, <1>3, CursorsStill
  <2>2. Sound(old)'
    BY <1>1, <1>4 DEF Sound
  <2>3. QED
    BY <2>1, <2>2 DEF Cursors
<1>6. Stages' /\ Drains'
  BY <1>1 DEF Stages, Drains, Following
<1>7. QED
  BY <1>3, <1>5, <1>6, ShipperStays

\* drain samples the file that <path> names.
LEMMA DrainBeginStays ==
  ASSUME LogInv, DrainBegin
  PROVE  LogInv' /\ Kept
<1> USE Numbers DEF LogInv
<1>1. /\ UNCHANGED <<diskVars, cursorFile, processVars, sinkVars, cur, old, path, batch, received,
                     lapsed, stuck>>
      /\ running /\ ship = "idle" /\ log # NoFile /\ ino' = log /\ ship' = "resolve"
  BY DEF DrainBegin
<1>2. LogTypeOK'
  BY <1>1 DEF LogTypeOK, diskVars, sinkVars, writerVars, processVars
<1>3. ~lapsed => Cursors'
  BY <1>1, <1>2, CursorsStill DEF Cursors
<1>4. log \in Inode /\ path = "log"
  BY <1>1 DEF LogTypeOK, Stages
<1>5. Stages' /\ Drains'
  BY <1>1, <1>4 DEF Stages, Drains, Following
<1>6. QED
  BY <1>1, <1>2, <1>3, <1>5, ShipperStays

\* drain decides which file to read: <path>.1 if it finds one and the cursor's
\* generation is not <path>.
LEMMA ResolveStays ==
  ASSUME LogInv, NEW seen \in BOOLEAN, Resolve(seen)
  PROVE  LogInv' /\ Kept
<1> USE Numbers DEF LogInv
<1>1. /\ UNCHANGED <<diskVars, cursorFile, processVars, sinkVars, cur, ino, batch, received, lapsed>>
      /\ running /\ ship = "resolve" /\ ino \in Inode /\ path = "log"
  BY DEF Resolve, Continue, Stages
<1>a. stuck' \in BOOLEAN
  BY DEF Resolve, LogTypeOK
<1>2. \/ cur.ino = ino /\ ship' = "read" /\ path' = "log" /\ old' = old
      \/ ship' = "adopt" /\ path' = path /\ old' = old
      \/ /\ ship' = "read" /\ old' = [ino |-> dot1, off |-> 0] /\ dot1 # NoFile
         /\ path' = IF dot1 = cur.ino THEN "tracked" ELSE "old"
  BY DEF Resolve, Continue
<1>3. dot1 # NoFile => dot1 \in Inode
  BY DEF LogTypeOK
<1>4. old' \in Cursor /\ path' \in {"log", "tracked", "old"} /\ ship' \in {"read", "adopt"}
  <2>1. dot1 # NoFile => [ino |-> dot1, off |-> 0] \in Cursor
    BY <1>3, SoundStart
  <2>2. QED
    BY <1>1, <1>2, <2>1 DEF LogTypeOK
<1>5. LogTypeOK'
  BY <1>1, <1>4, <1>a DEF LogTypeOK, diskVars, sinkVars, writerVars, processVars
<1>6. content' = content /\ log' = log /\ dot1' = dot1
  BY <1>1 DEF diskVars
<1>7. ~lapsed => Cursors'
  <2>1. ~lapsed => Sound(cursorFile)' /\ Sound(cur)'
    BY <1>1, <1>5, CursorsStill
  <2>2. ~lapsed => Sound(old)'
    <3>1. CASE old' = old
      BY <1>1, <1>5, <3>1, CursorsStill
    <3>2. CASE old' = [ino |-> dot1, off |-> 0] /\ dot1 # NoFile
      <4> DEFINE d == [ino |-> dot1, off |-> 0]
      <4>1. Sound(d)
        BY <1>3, <3>2, SoundStart
      <4>2. old' = d /\ d.ino = dot1 /\ d.off = 0
        BY <3>2
      <4>3. 1..0 = {}
        OBVIOUS
      <4>4. 0 <= Len(content[dot1])
        BY <3>2, <4>1 DEF Sound
      <4>5. QED
        BY <1>6, <4>2, <4>3, <4>4 DEF Sound
    <3>3. QED
      BY <1>2, <3>1, <3>2
  <2>3. QED
    BY <2>1, <2>2 DEF Cursors
<1>8. Stages' /\ Drains'
  <2>1. ino' = ino /\ cur' = cur /\ batch' = batch
    BY <1>1
  <2>2. CASE cur.ino = ino /\ ship' = "read" /\ path' = "log" /\ old' = old
    BY <1>1, <2>1, <2>2 DEF Stages, Drains, Following, Reading
  <2>3. CASE ship' = "adopt" /\ path' = path /\ old' = old
    BY <1>1, <2>1, <2>3 DEF Stages, Drains, Following, Reading
  <2>4. CASE /\ ship' = "read" /\ old' = [ino |-> dot1, off |-> 0] /\ dot1 # NoFile
             /\ path' = IF dot1 = cur.ino THEN "tracked" ELSE "old"
    <3>1. Reading'.ino = dot1
      BY <2>1, <2>4 DEF Reading
    <3>2. QED
      BY <1>1, <1>3, <1>6, <2>1, <2>4, <3>1 DEF Stages, Drains, Following
  <2>5. QED
    BY <1>2, <2>2, <2>3, <2>4
<1>9. QED
  BY <1>1, <1>5, <1>7, <1>8, ShipperStays

\* The cursor in use, and the file it is for.
LEMMA ReadingFacts ==
  ASSUME LogInv, ship \in {"read", "ship", "save"}
  PROVE  /\ Reading \in Cursor /\ Reading.ino \in Inode /\ Reading.off \in Nat
         /\ ~lapsed => Sound(Reading)
         /\ Reading = [ino |-> Reading.ino, off |-> Reading.off]
         /\ content[Reading.ino] \in Seq(Line) /\ Len(content[Reading.ino]) \in Nat
<1>1. Reading \in Cursor /\ Reading.ino \in Inode /\ (~lapsed => Sound(Reading))
  BY DEF LogInv, LogTypeOK, Cursors, Stages, Reading
<1>2. content[Reading.ino] \in Seq(Line)
  BY <1>1 DEF LogInv, LogTypeOK
<1>3. Reading.off \in Nat /\ Reading = [ino |-> Reading.ino, off |-> Reading.off]
  BY <1>1 DEF Cursor
<1>4. QED
  BY <1>1, <1>2, <1>3

\* The cursor in use is moved.
LEMMA MoveFacts ==
  ASSUME LogTypeOK, NEW to \in Nat, MoveTo(to), path' = path
  PROVE  /\ cur' \in Cursor /\ old' \in Cursor
         /\ Reading' = [ino |-> Reading.ino, off |-> to]
         /\ path = "old" => Reading' = old' /\ cur' = cur
         /\ path # "old" => Reading' = cur' /\ old' = old
<1>1. cur \in Cursor /\ old \in Cursor
  BY DEF LogTypeOK
<1>2. CASE path = "old"
  <2>1. old' = [old EXCEPT !.off = to] /\ cur' = cur /\ Reading = old /\ Reading' = old'
    BY <1>2 DEF MoveTo, Reading
  <2>2. QED
    BY <1>1, <1>2, <2>1 DEF Cursor
<1>3. CASE path # "old"
  <2>1. cur' = [cur EXCEPT !.off = to] /\ old' = old /\ Reading = cur /\ Reading' = cur'
    BY <1>3 DEF MoveTo, Reading
  <2>2. QED
    BY <1>1, <1>3, <2>1 DEF Cursor
<1>4. QED
  BY <1>2, <1>3

\* readBatch: the offset is not past the end, the lines it takes are there, and
\* a <path>.1 it finds drained has been received.
LEMMA ReadBatchStays ==
  ASSUME LogInv, readBatch
  PROVE  LogInv' /\ Kept
<1> USE Numbers DEF LogInv
<1> DEFINE left == Len(content[Reading.ino]) - Reading.off
           taken == IF left < BatchSize THEN left ELSE BatchSize
           drained == FileRead = NoFile \/ (FileRead = Reading.ino /\ left = 0)
<1>1. /\ UNCHANGED <<diskVars, cursorFile, processVars, sinkVars, received, lapsed, stuck>>
      /\ running /\ ship = "read"
  BY DEF readBatch
<1>2. \/ drained /\ path # "log" /\ ship' = "remove" /\ UNCHANGED <<cur, old, ino, path, batch>>
      \/ DrainReturns
      \/ /\ FileRead = Reading.ino /\ UNCHANGED <<ino, path>>
         /\ left < 0 /\ MoveTo(0) /\ ship' = "save" /\ UNCHANGED batch
      \/ /\ FileRead = Reading.ino /\ UNCHANGED <<ino, path>>
         /\ ~(left < 0) /\ ship' = "ship" /\ UNCHANGED <<cur, old>>
         /\ batch' = SubSeq(content[Reading.ino], Reading.off + 1, Reading.off + taken)
  BY DEF readBatch
<1>3. /\ Reading \in Cursor /\ Reading.ino \in Inode /\ Reading.off \in Nat
      /\ ~lapsed => Sound(Reading)
      /\ content[Reading.ino] \in Seq(Line) /\ Len(content[Reading.ino]) \in Nat
  BY <1>1, ReadingFacts
<1>4. content' = content /\ log' = log /\ dot1' = dot1 /\ received' = received
  BY <1>1 DEF diskVars
<1>5. CASE drained /\ path # "log" /\ ship' = "remove" /\ UNCHANGED <<cur, old, ino, path, batch>>
  <2>1. Following /\ dot1 # NoFile /\ ino \in Inode /\ FileRead = dot1
    BY <1>1, <1>5 DEF Stages, Following, FileRead
  <2>2. ~lapsed => Reading.ino = dot1
    BY <2>1 DEF Drains
  <2>3. ~lapsed => Reading.off = Len(content[dot1])
    BY <1>3, <1>5, <2>1, <2>2
  <2>4. ~lapsed => \A k \in 1..Len(content[dot1]) : content[dot1][k] \in received \cup {Corrupt}
    BY <2>1, <2>2, <2>3, <1>3 DEF Sound
  <2>5. LogTypeOK'
    BY <1>1, <1>5 DEF LogTypeOK, diskVars, sinkVars, writerVars, processVars
  <2>6. ~lapsed => Cursors'
    BY <1>1, <1>5, <2>5, CursorsStill DEF Cursors
  <2>7. Reading' = Reading
    BY <1>1, <1>5 DEF Reading
  <2>8. Stages' /\ (~lapsed => Drains')
    BY <1>4, <1>5, <2>1, <2>2, <2>4, <2>7 DEF Stages, Drains, Following
  <2>9. QED
    BY <1>1, <2>5, <2>6, <2>8, ShipperStays
<1>6. CASE DrainReturns
  BY <1>1, <1>6, ReturnStays DEF LogTypeOK
<1>7. CASE /\ FileRead = Reading.ino /\ UNCHANGED <<ino, path>>
           /\ left < 0 /\ MoveTo(0) /\ ship' = "save" /\ UNCHANGED batch
  <2>1. Reading.ino \in {log, dot1} \ {NoFile}
    BY <1>3, <1>7 DEF FileRead
  <2>2. lapsed
    <3>1. ~lapsed => Reading.off <= Len(content[Reading.ino])
      BY <2>1, <1>3 DEF Sound
    <3>2. QED
      BY <3>1, <1>3, <1>7
  <2>3. cur' \in Cursor /\ old' \in Cursor /\ Reading' = [ino |-> Reading.ino, off |-> 0]
    BY <1>7, MoveFacts
  <2>4. LogTypeOK'
    BY <1>1, <1>7, <2>3 DEF LogTypeOK, diskVars, sinkVars, writerVars, processVars
  <2>5. Reading'.ino = Reading.ino
    BY <2>3
  <2>6. Stages'
    BY <1>1, <1>3, <1>4, <1>7, <2>5 DEF Stages, Following
  <2>7. QED
    BY <1>1, <2>2, <2>4, <2>6, ShipperStays
<1>8. CASE /\ FileRead = Reading.ino /\ UNCHANGED <<ino, path>>
           /\ ~(left < 0) /\ ship' = "ship" /\ UNCHANGED <<cur, old>>
           /\ batch' = SubSeq(content[Reading.ino], Reading.off + 1, Reading.off + taken)
  <2>1. Reading.ino \in {log, dot1} \ {NoFile}
    BY <1>3, <1>8 DEF FileRead
  <2> DEFINE s == content[Reading.ino]
             o == Reading.off
  <2>2. left = Len(s) - o /\ s \in Seq(Line) /\ o \in Nat /\ Len(s) \in Nat /\ ~(left < 0)
    BY <1>3, <1>8
  <2>3. taken = IF left < BatchSize THEN left ELSE BatchSize
    OBVIOUS
  <2>4. batch' = SubSeq(s, o + 1, o + taken)
    BY <1>8
  <2> HIDE DEF s, o, left, taken
  <2>5. taken \in Nat /\ o + taken <= Len(s)
    BY <2>2, <2>3, Numbers
  <2>6. /\ batch' \in Seq(Line) /\ Len(batch') = taken
        /\ \A j \in 1..taken : batch'[j] = s[o + j]
    BY ONLY <2>2, <2>4, <2>5
  <2>7. LogTypeOK'
    <3>1. ino' = ino /\ path' = path /\ cur' = cur /\ old' = old /\ ship' = "ship"
      BY <1>8
    <3>2. QED
      BY <1>1, <2>6, <3>1 DEF LogTypeOK, diskVars, sinkVars, writerVars, processVars
  <2>8. ~lapsed => Cursors'
    BY <1>1, <1>8, <2>7, CursorsStill DEF Cursors
  <2>9. Reading' = Reading /\ Following' = Following
    BY <1>1, <1>8 DEF Reading, Following
  <2>10. Stages'
    BY <1>1, <1>3, <1>4, <1>8, <2>9 DEF Stages, Following
  <2>11. ~lapsed => Drains'
    <3>1. Reading.ino \in {log', dot1'} /\ Reading'.off + Len(batch') <= Len(content'[Reading.ino])
      BY <1>4, <2>1, <2>5, <2>6, <2>9 DEF s, o
    <3>2. \A j \in 1..Len(batch') : content'[Reading.ino][Reading'.off + j] = batch'[j]
      BY <1>4, <2>6, <2>9 DEF s, o
    <3>3. ~lapsed => (Following' => Reading'.ino = dot1')
      BY <1>4, <2>9 DEF Drains
    <3>4. QED
      BY <1>8, <2>9, <3>1, <3>2, <3>3 DEF Drains
  <2>12. QED
    BY <1>1, <2>7, <2>8, <2>10, <2>11, ShipperStays
<1>9. QED
  BY <1>2, <1>5, <1>6, <1>7, <1>8

\* A read error leaves it for the next tick.
LEMMA ReadErrorStays ==
  ASSUME LogInv, ReadError
  PROVE  LogInv' /\ Kept
  BY ReturnStays DEF ReadError, LogInv, LogTypeOK

\* ship: the cursor moves over a batch only when the control plane has what is
\* not corrupt of it.
LEMMA ShipStays ==
  ASSUME LogInv, NEW got \in BOOLEAN, NEW ok \in BOOLEAN, Ship(got, ok)
  PROVE  LogInv' /\ Kept
<1> USE Numbers DEF LogInv
<1>1. /\ UNCHANGED <<diskVars, cursorFile, processVars, sinkVars, lapsed, stuck>>
      /\ running /\ ship = "ship" /\ (ok => got)
      /\ received' = IF got THEN received \cup Batch ELSE received
  BY DEF Ship
<1>2. /\ Reading \in Cursor /\ Reading.ino \in Inode /\ Reading.off \in Nat
      /\ ~lapsed => Sound(Reading)
      /\ content[Reading.ino] \in Seq(Line) /\ Len(content[Reading.ino]) \in Nat
  BY <1>1, ReadingFacts
<1>3. batch \in Seq(Line) /\ Len(batch) \in Nat
  BY DEF LogTypeOK
<1>4. Batch \subseteq Event /\ \A j \in 1..Len(batch) : batch[j] \in Batch \cup {Corrupt}
  BY <1>3, ElementsOf DEF Batch
<1>5. received \subseteq received' /\ received' \subseteq Event
  BY <1>1, <1>4 DEF LogTypeOK
<1>6. CASE ~ok
  <2>1. DrainReturns
    BY <1>6 DEF Ship
  <2>2. QED
    BY <1>1, <1>5, <2>1, ReturnStays
<1>7. CASE ok
  <2> DEFINE to == Reading.off + Len(batch)
  <2>1. /\ MoveTo(to) /\ ship' = "save" /\ batch' = <<>> /\ UNCHANGED <<ino, path>>
        /\ received' = received \cup Batch
    BY <1>1, <1>7 DEF Ship
  <2>2. to \in Nat /\ Reading.off <= to
    BY <1>2, <1>3
  <2>3. to - Reading.off = Len(batch) /\ to = Reading.off + Len(batch)
    BY <1>2, <1>3
  <2> HIDE DEF to
  <2>4. /\ cur' \in Cursor /\ old' \in Cursor
        /\ Reading' = [ino |-> Reading.ino, off |-> to]
        /\ path = "old" => Reading' = old' /\ cur' = cur
        /\ path # "old" => Reading' = cur' /\ old' = old
    BY <2>1, <2>2, MoveFacts
  <2>5. LogTypeOK'
    <3>1. /\ ino' = ino /\ path' = path /\ ship' = "save" /\ batch' \in Seq(Line)
      BY <2>1
    <3>2. QED
      BY <1>1, <1>5, <2>4, <3>1 DEF LogTypeOK, diskVars, sinkVars, writerVars, processVars
  <2>6. content' = content /\ log' = log /\ dot1' = dot1
    BY <1>1 DEF diskVars
  <2>7. Reading'.ino = Reading.ino /\ Reading'.off = to
    BY <2>4
  <2>8. ~lapsed => Sound(Reading)'
    <3> SUFFICES ASSUME ~lapsed PROVE Sound(Reading)'
      OBVIOUS
    <3>1. /\ Reading.ino \in {log, dot1} /\ to <= Len(content[Reading.ino])
          /\ \A j \in 1..Len(batch) : content[Reading.ino][Reading.off + j] = batch[j]
      BY <1>1, <2>3 DEF Drains
    <3>2. \A k \in 1..Reading.off : content[Reading.ino][k] \in received \cup {Corrupt}
      BY <1>2, <3>1 DEF Sound
    <3>3. ASSUME NEW k \in 1..to PROVE content[Reading.ino][k] \in received' \cup {Corrupt}
      <4>1. CASE k <= Reading.off
        <5>1. k \in 1..Reading.off
          BY <1>2, <2>2, <4>1
        <5>2. QED
          BY <1>5, <3>2, <5>1
      <4>2. CASE ~(k <= Reading.off)
        <5>1. k - Reading.off \in 1..Len(batch) /\ Reading.off + (k - Reading.off) = k
          BY <1>2, <1>3, <2>2, <2>3, <4>2
        <5>2. content[Reading.ino][k] = batch[k - Reading.off]
          BY <3>1, <5>1
        <5>3. QED
          BY <1>4, <2>1, <5>1, <5>2
      <4>3. QED
        BY <4>1, <4>2
    <3>4. QED
      BY <2>6, <2>7, <3>1, <3>3 DEF Sound
  <2>9. ~lapsed => Cursors'
    <3>1. /\ ~lapsed => Sound(cursorFile)'
          /\ ~lapsed /\ path = "old" => Sound(cur)'
          /\ ~lapsed /\ path # "old" => Sound(old)'
      BY <1>1, <1>5, <2>4, <2>5, CursorsStill
    <3>2. /\ ~lapsed /\ path = "old" => Sound(old)'
          /\ ~lapsed /\ path # "old" => Sound(cur)'
      BY <2>4, <2>8 DEF Sound
    <3>3. QED
      BY <3>1, <3>2 DEF Cursors
  <2>10. Stages' /\ (~lapsed => Drains')
    BY <1>1, <1>2, <2>1, <2>6, <2>7 DEF Stages, Drains, Following
  <2>11. QED
    BY <1>1, <1>5, <2>5, <2>9, <2>10, ShipperStays
<1>8. QED
  BY <1>6, <1>7

\* saveCursor persists a cursor that is sound.
LEMMA SaveCursorStays ==
  ASSUME LogInv, NEW ok \in BOOLEAN, saveCursor(ok)
  PROVE  LogInv' /\ Kept
<1> USE DEF LogInv
<1>1. /\ UNCHANGED <<diskVars, processVars, sinkVars, cur, old, ino, path, batch, received, lapsed,
                     stuck>>
      /\ running /\ ship = "save" /\ ship' = "read"
      /\ cursorFile' = IF ok THEN Reading ELSE cursorFile
  BY DEF saveCursor
<1>2. Reading \in Cursor /\ (~lapsed => Sound(Reading)) /\ Reading.ino \in Inode
  BY <1>1, ReadingFacts
<1>3. LogTypeOK'
  BY <1>1, <1>2 DEF LogTypeOK, diskVars, sinkVars, writerVars, processVars
<1>4. /\ Reading' = Reading /\ dot1' = dot1 /\ log' = log /\ content' = content
      /\ received' = received
  BY <1>1 DEF Reading, diskVars
<1>5. ~lapsed => Cursors'
  <2>1. ~lapsed => Sound(cur)' /\ Sound(old)'
    BY <1>1, <1>3, CursorsStill
  <2>2. ~lapsed => Sound(cursorFile)'
    BY <1>1, <1>2, <1>4 DEF Cursors, Sound
  <2>3. QED
    BY <2>1, <2>2 DEF Cursors
<1>6. Stages' /\ (~lapsed => Drains')
  BY <1>1, <1>2, <1>4 DEF Stages, Drains, Following
<1>7. QED
  BY <1>1, <1>3, <1>5, <1>6, ShipperStays

\* A drained <path>.1 is removed, or is left where it is: every event of it has
\* been received.
LEMMA RemoveOldStays ==
  ASSUME LogInv, NEW ok \in BOOLEAN, RemoveOld(ok)
  PROVE  LogInv' /\ Kept
<1> USE Numbers DEF LogInv
<1>1. /\ UNCHANGED <<log, torn, joined, cursorFile, processVars, sinkVars, cur, old, ino, path, batch,
                     received, lapsed>>
      /\ running /\ ship = "remove" /\ ship' = "adopt" /\ stuck' = ~ok
      /\ \/ dot1' = NoFile /\ content' = [content EXCEPT ![dot1] = <<>>]
         \/ dot1' = dot1 /\ content' = content
  BY DEF RemoveOld
<1>2. /\ path # "log" /\ dot1 # NoFile /\ ino \in Inode
      /\ ~lapsed => \A k \in 1..Len(content[dot1]) : content[dot1][k] \in received \cup {Corrupt}
  BY <1>1 DEF Stages, Drains, Following
<1>3. /\ dot1 \in Inode /\ dot1' \in {dot1, NoFile} /\ content' \in [Inode -> Seq(Line)]
      /\ content'[dot1] \in {content[dot1], <<>>} /\ (dot1' = NoFile => content'[dot1] = <<>>)
      /\ dot1' = dot1 => content' = content
      /\ \A i \in Inode \ {dot1} : content'[i] = content[i]
  <2>1. dot1 \in Inode /\ content \in [Inode -> Seq(Line)] /\ <<>> \in Seq(Line)
    BY <1>2 DEF LogTypeOK
  <2>2. QED
    BY <1>1, <1>2, <2>1
<1>4. log # NoFile => log \in Inode \ {dot1}
  BY DEF Names, LogTypeOK
<1>5. LogTypeOK'
  <2>1. stuck' \in BOOLEAN
    BY <1>1
  <2>2. QED
    BY <1>1, <1>3, <2>1 DEF LogTypeOK, sinkVars, writerVars, processVars
<1>6. Names'
  <2>1. f' = f /\ sink' = sink
    BY <1>1 DEF sinkVars, writerVars
  <2>2. QED
    BY <1>1, <1>3, <2>1 DEF Names
<1>7. Sizes'
  <2>1. Len(content'[dot1]) <= next - 1
    <3>1. Len(<<>>) = 0 /\ 0 <= next - 1 /\ Len(content[dot1]) <= next - 1
      BY <1>3 DEF Sizes
    <3>2. QED
      BY <1>3, <3>1
  <2>2. next' = next /\ buf' = buf /\ queue' = queue /\ log' = log
    BY <1>1 DEF sinkVars, writerVars
  <2>3. \A i \in Inode : Len(content'[i]) <= next - 1
    BY <1>3, <2>1 DEF Sizes
  <2>4. log # NoFile => content'[log] = content[log]
    BY <1>3, <1>4
  <2>5. QED
    BY <2>2, <2>3, <2>4 DEF Sizes
<1>8. ~lapsed => Cursors'
  <2>1. ASSUME NEW c \in Cursor, Sound(c) PROVE Sound(c)'
    <3>1. c.ino \in {log', dot1'} \ {NoFile} =>
            c.ino \in {log, dot1} \ {NoFile} /\ content'[c.ino] = content[c.ino]
      BY <1>1, <1>3, <1>4
    <3>2. QED
      BY <1>1, <2>1, <3>1 DEF Sound
  <2>2. QED
    BY <1>1, <2>1 DEF Cursors, LogTypeOK, Sound
<1>9. Stages' /\ Drains'
  BY <1>1, <1>2 DEF Stages, Drains, Following
<1>10. ~lapsed => OnDisk \subseteq OnDisk' \cup received
  <2> SUFFICES ASSUME ~lapsed PROVE OnDisk \subseteq OnDisk' \cup received
    OBVIOUS
  <2>1. Elements(content[dot1]) \ {Corrupt} \subseteq received
    <3>1. content[dot1] \in Seq(Line)
      BY <1>3 DEF LogTypeOK
    <3>2. QED
      BY <1>2, <3>1, ElementsOf
  <2>2. log # NoFile => Elements(content'[log]) = Elements(content[log])
    BY <1>3, <1>4 DEF Elements
  <2>a. log # NoFile => Elements(content'[log]) \ {Corrupt} \subseteq OnDisk'
    BY <1>1 DEF OnDisk
  <2>3. log # NoFile => Elements(content[log]) \ {Corrupt} \subseteq OnDisk'
    BY <2>2, <2>a
  <2>4. QED
    BY <2>1, <2>3 DEF OnDisk
<1>11. Losses'
  <2>1. /\ queue' = queue /\ buf' = buf /\ first' = first /\ next' = next /\ running' = running
        /\ dropped' = dropped /\ uncounted' = uncounted /\ pending' = pending /\ dropped \in Nat
        /\ dropped <= dropped
    BY <1>1 DEF sinkVars, writerVars, processVars, LogTypeOK
  <2>2. ~lapsed' => ~lapsed /\ Held \subseteq Held'
    BY <1>1, <1>10, <2>1 DEF Held
  <2>3. LossCounted'
    BY <1>1, <1>5, <2>1, <2>2, NothingLost DEF Losses
  <2>4. QED
    BY <1>1, <2>1, <2>3 DEF Losses
<1>12. QED
  BY <1>1, <1>5, <1>6, <1>7, <1>8, <1>9, <1>10, <1>11 DEF Kept

\* drain goes on to the file it sampled.
LEMMA AdoptStays ==
  ASSUME LogInv, Adopt
  PROVE  LogInv' /\ Kept
<1> USE Numbers DEF LogInv
<1>1. /\ UNCHANGED <<diskVars, cursorFile, processVars, sinkVars, batch, received, lapsed, stuck>>
      /\ running /\ ship = "adopt" /\ cur' = [ino |-> ino, off |-> 0] /\ path' = "log"
      /\ old' = NoCursor /\ ino' = NoFile /\ ship' = "save" /\ ino \in Inode
  BY DEF Adopt, Stages
<1> DEFINE c1 == [ino |-> ino, off |-> 0]
<1>2. Sound(c1) /\ c1 \in Cursor /\ Sound(NoCursor) /\ NoCursor \in Cursor
  BY <1>1, SoundStart DEF NoCursor
<1>3. LogTypeOK'
  BY <1>1, <1>2 DEF LogTypeOK, diskVars, sinkVars, writerVars, processVars
<1>4. content' = content /\ log' = log /\ dot1' = dot1 /\ received' = received
  BY <1>1 DEF diskVars
<1>5. ~lapsed => Cursors'
  <2>1. ~lapsed => Sound(cursorFile)'
    BY <1>1, <1>3, CursorsStill
  <2>2. Sound(cur)'
    BY <1>1, <1>2, <1>4 DEF Sound
  <2>3. Sound(old)'
    BY <1>1, <1>2, <1>4 DEF Sound
  <2>4. QED
    BY <2>1, <2>2, <2>3 DEF Cursors
<1>6. Stages' /\ Drains'
  BY <1>1, <1>4 DEF Stages, Drains, Following, Reading
<1>7. QED
  BY <1>1, <1>3, <1>5, <1>6, ShipperStays

-----------------------------------------------------------------------------
(* The steps of the process                                                *)

\* The process ends: what is on disk stays, and the persisted cursor with it.
LEMMA EndsStays ==
  ASSUME LogInv, ProcessEnds, Grown, content' \in [Inode -> Seq(Line)], torn' \in BOOLEAN,
         stops' \in 0..MaxStops,
         \A i \in Inode \ {log, dot1} : content'[i] = <<>>,
         \A i \in Inode : Len(content'[i]) <= next - 1
  PROVE  LogInv' /\ Kept
<1> USE DEF LogInv
<1>1. /\ running' = FALSE /\ stopping' = FALSE /\ sink' = "run" /\ f' = NoFile /\ queue' = <<>>
      /\ buf' = <<>> /\ pending' = 0 /\ writeFailed' = FALSE /\ dropped' = 0 /\ uncounted' = 0
      /\ joined' = FALSE /\ first' = next /\ ship' = "idle" /\ cur' = NoCursor /\ old' = NoCursor
      /\ ino' = NoFile /\ path' = "log" /\ batch' = <<>>
      /\ UNCHANGED <<cursorFile, log, dot1, next, received, healthy, lapsed, stuck>>
  BY DEF ProcessEnds
<1>2. NoCursor \in Cursor /\ <<>> \in Seq(Event) /\ <<>> \in Seq(Line)
  BY Numbers DEF NoCursor, Cursor
<1>3. LogTypeOK'
  BY <1>1, <1>2 DEF LogTypeOK
<1>4. Names'
  BY <1>1 DEF Names
<1>5. Sizes'
  <2>1. Len(buf') = 0 /\ Len(queue') = 0 /\ next \in Nat /\ next - 1 \in 0..MaxEvents
    BY <1>1 DEF Sizes, LogTypeOK
  <2>2. \A i \in Inode : Len(content'[i]) \in Nat
    <3>1. \A i \in Inode : content'[i] \in Seq(Line)
      OBVIOUS
    <3>2. QED
      BY <3>1
  <2>3. log # NoFile => log \in Inode
    BY DEF LogTypeOK
  <2>4. 0 <= next - 1 /\ next' = next /\ log' = log
    BY <1>1, <2>1, Numbers
  <2>5. \A n \in Nat : n + 0 + 0 = n
    OBVIOUS
  <2>6. QED
    BY <1>1, <2>1, <2>2, <2>3, <2>4, <2>5 DEF Sizes
<1>6. ~lapsed => Cursors'
  <2>1. Sound(NoCursor)'
    BY <1>3 DEF Sound, NoCursor
  <2>2. ~lapsed => \A c \in {cursorFile, cur, old} : Sound(c)'
    BY <1>1, <1>3, CursorsKept
  <2>3. ~lapsed => Sound(cursorFile)'
    BY <1>1, <2>2 DEF Sound
  <2>4. QED
    BY <1>1, <2>1, <2>3 DEF Cursors, Sound
<1>7. Stages' /\ Drains'
  BY <1>1 DEF Stages, Drains, Following
<1>8. Losses'
  BY <1>1 DEF Losses, LossCounted
<1>9. OnDisk \subseteq OnDisk'
  BY <1>3, DiskKept
<1>10. QED
  BY <1>1, <1>3, <1>4, <1>5, <1>6, <1>7, <1>8, <1>9 DEF Kept

\* ... killed,
LEMMA KillStays ==
  ASSUME LogInv, Kill
  PROVE  LogInv' /\ Kept
<1> USE DEF LogInv
<1>1. /\ UNCHANGED <<content, torn>> /\ ProcessEnds /\ stops < MaxStops /\ stops' = stops + 1
  BY DEF Kill
<1>2. UNCHANGED <<log, dot1>>
  BY <1>1 DEF ProcessEnds
<1>3. Grown
  BY <1>1, <1>2, FilesStill
<1>4. stops' \in 0..MaxStops
  BY <1>1, LogBounds DEF LogTypeOK
<1>5. QED
  BY <1>1, <1>3, <1>4, EndsStays DEF LogTypeOK, Names, Sizes

\* ... or stopped, with a last flush.
LEMMA CloseEndStays ==
  ASSUME LogInv, NEW k \in 0..Len(buf), NEW t \in BOOLEAN, CloseEnd(k, t)
  PROVE  LogInv' /\ Kept
<1> USE DEF LogInv
<1>1. running /\ ProcessEnds /\ stops' = stops
  BY DEF CloseEnd
<1>2. UNCHANGED <<log, dot1>>
  BY <1>1 DEF ProcessEnds
<1>3. CASE f = NoFile
  <2>1. UNCHANGED <<content, torn>>
    BY <1>3 DEF CloseEnd
  <2>2. Grown
    BY <1>2, <2>1, FilesStill
  <2>3. QED
    BY <1>1, <2>1, <2>2, EndsStays DEF LogTypeOK, Names, Sizes
<1>4. CASE f # NoFile
  <2>1. Pour(k) /\ torn' = Fragment(k, t)
    BY <1>4 DEF CloseEnd
  <2>a. torn' \in BOOLEAN
    BY <2>1 DEF Fragment
  <2>p. /\ content' \in [Inode -> Seq(Line)] /\ content'[f] = content[f] \o Written(k)
        /\ \A i \in Inode \ {f} : content'[i] = content[i]
    BY <1>4, <2>1, PourOne
  <2>2. Grown
    BY <1>2, <1>4, <2>p, PourGrown
  <2>3. f = log /\ f \in Inode /\ Len(content'[f]) = Len(content[f]) + k
    BY <1>4, <2>p, PourFacts
  <2>4. content[f] \in Seq(Line) /\ buf \in Seq(Event) /\ queue \in Seq(Event) /\ next \in Nat
    BY <2>3 DEF LogTypeOK
  <2>5. Len(content[f]) \in Nat /\ Len(buf) \in Nat /\ Len(queue) \in Nat /\ k \in Nat /\ k <= Len(buf)
    BY <2>4
  <2>6. Len(content[f]) + Len(buf) + Len(queue) <= next - 1
    BY <1>4, <2>3 DEF Sizes
  <2>7. Len(content'[f]) <= next - 1
    BY <2>3, <2>4, <2>5, <2>6
  <2>8. \A i \in Inode : Len(content'[i]) <= next - 1
    BY <2>p, <2>3, <2>7 DEF Sizes
  <2>9. \A i \in Inode \ {log, dot1} : content'[i] = <<>>
    BY <2>p, <2>3 DEF Names
  <2>10. stops' \in 0..MaxStops
    BY <1>1 DEF LogTypeOK
  <2>11. QED
    BY <1>1, <2>a, <2>p, <2>2, <2>8, <2>9, <2>10, EndsStays
<1>5. QED
  BY <1>3, <1>4

\* A step that touches neither files nor lines nor cursors.
LEMMA IdleStays ==
  ASSUME LogInv, LogTypeOK',
         UNCHANGED <<diskVars, cursorFile, running, sink, queue, first, next, writerVars, shipVars,
                     received, lapsed>>
  PROVE  LogInv' /\ Kept
<1> USE DEF LogInv
<1>1. Grown /\ OnDisk' = OnDisk
  BY QuietDisk
<1>2. ~lapsed => Cursors' /\ Drains'
  BY <1>1, ShipperKept
<1>3. Names' /\ Sizes'
  BY DEF Names, Sizes, diskVars, writerVars
<1>4. Lost' = Lost
  BY <1>1 DEF Lost, writerVars
<1>5. Losses'
  BY <1>4 DEF Losses, LossCounted, writerVars, shipVars
<1>6. Stages'
  BY StagesKept DEF diskVars
<1>7. QED
  BY <1>1, <1>2, <1>3, <1>5, <1>6 DEF Kept

\* FileSink.Close is called.
LEMMA CloseBeginStays ==
  ASSUME LogInv, CloseBegin
  PROVE  LogInv' /\ Kept
<1>1. LogTypeOK'
  BY LogBounds DEF CloseBegin, LogInv, LogTypeOK, diskVars, writerVars, shipVars
<1>2. QED
  BY <1>1, IdleStays DEF CloseBegin

\* Disk and control plane recover.
LEMMA RecoverStays ==
  ASSUME LogInv, Recover
  PROVE  LogInv' /\ Kept
<1>1. LogTypeOK'
  BY DEF Recover, LogInv, LogTypeOK, diskVars, sinkVars, writerVars, shipVars
<1>2. QED
  BY <1>1, IdleStays DEF Recover, sinkVars

\* A new process goes on from the persisted cursor.
LEMMA RestartStays ==
  ASSUME LogInv, NEW repaired \in BOOLEAN, Restart(repaired)
  PROVE  LogInv' /\ Kept
<1> USE Numbers DEF LogInv
<1>1. /\ UNCHANGED <<content, dot1, cursorFile, stops, healthy, stopping, sink, queue, buf, pending,
                     writeFailed, uncounted, first, next, ship, old, ino, path, batch, received, stuck>>
      /\ ~running /\ running' = TRUE /\ openOrErr(TRUE, repaired, torn, 0) /\ cur' = cursorFile
  BY DEF Restart
<1>2. first = next /\ sink = "run" /\ ship = "idle"
  BY <1>1 DEF Losses
<1>3. /\ log' \in Inode \cup {NoFile} /\ lapsed' \in BOOLEAN /\ (~lapsed' => ~lapsed)
      /\ f' \in {NoFile, log'} /\ torn' \in BOOLEAN /\ joined' \in BOOLEAN
      /\ dropped' = 0 + (IF torn /\ repaired THEN 1 ELSE 0)
  BY <1>1, OpenFacts
<1>4. dropped' \in Nat
  BY <1>3
<1>5. LogTypeOK'
  <2>1. f' \in Inode \cup {NoFile} /\ cur' \in Cursor /\ running' \in BOOLEAN
    BY <1>1, <1>3 DEF LogTypeOK
  <2>2. /\ UNCHANGED <<content, dot1, cursorFile, stops, healthy, stopping, sink, queue, buf, pending,
                       writeFailed, uncounted, first, next, ship, old, ino, path, batch, received,
                       stuck>>
        /\ LogTypeOK
    BY <1>1
  <2>3. /\ log' \in Inode \cup {NoFile} /\ lapsed' \in BOOLEAN
        /\ torn' \in BOOLEAN /\ joined' \in BOOLEAN
    BY <1>3
  <2>4. QED
    BY ONLY <2>1, <2>2, <2>3, <1>4 DEF LogTypeOK
<1>6. ~lapsed' => Grown
  BY <1>1, OpenGrown
<1>7. Names' /\ Sizes'
  BY <1>1, <1>2, <1>5, OpenStays
<1>8. ~lapsed' => Cursors'
  <2>1. ~lapsed' => \A c \in {cursorFile, cur, old} : Sound(c)'
    BY <1>1, <1>3, <1>5, <1>6, CursorsKept
  <2>2. ~lapsed' => Sound(cursorFile)' /\ Sound(old)'
    BY <1>1, <2>1 DEF Sound
  <2>3. ~lapsed' => Sound(cur)'
    BY <1>1, <2>2 DEF Sound
  <2>4. QED
    BY <2>2, <2>3 DEF Cursors
<1>9. Stages' /\ Drains'
  BY <1>1, <1>2 DEF Stages, Drains, Following
<1>10. Losses'
  <2>1. first..(next - 1) = {}
    BY <1>2 DEF LogTypeOK
  <2>2. Lost' = {}
    BY <1>1, <2>1 DEF Lost
  <2>3. Cardinality(Lost') = 0
    BY <2>2, FS_EmptySet
  <2>4. uncounted \in Nat
    BY DEF LogTypeOK
  <2>5. \A a, b \in Nat : 0 <= a + b
    OBVIOUS
  <2>6. 0 <= (dropped') + uncounted
    BY <1>4, <2>4, <2>5
  <2>7. LossCounted'
    BY <1>1, <2>3, <2>6 DEF LossCounted
  <2>8. QED
    BY <1>1, <2>7 DEF Losses
<1>11. ~lapsed' => OnDisk \subseteq OnDisk'
  BY <1>5, <1>6, DiskKept
<1>12. QED
  BY <1>3, <1>5, <1>7, <1>8, <1>9, <1>10, <1>11 DEF Kept

-----------------------------------------------------------------------------
(* The invariant and the theorems                                          *)

\* It holds at the start.
LEMMA LogInvInit == LogInit => LogInv
<1> SUFFICES ASSUME LogInit PROVE LogInv
  OBVIOUS
<1> USE Numbers
<1>1. /\ 1 \in Inode /\ 0 \in 0..MaxEvents /\ 0 \in 0..MaxStops
      /\ <<>> \in Seq(Event) /\ <<>> \in Seq(Line)
  BY LogBounds DEF Inode
<1>2. NoCursor \in Cursor
  BY DEF NoCursor, Cursor
<1>3. content = [i \in Inode |-> <<>>] /\ buf = <<>> /\ queue = <<>> /\ \A i \in Inode : content[i] = <<>>
  BY DEF LogInit
<1>a. content \in [Inode -> Seq(Line)]
  BY <1>1, <1>3
<1>4. LogTypeOK
  BY <1>1, <1>2, <1>a DEF LogInit, LogTypeOK
<1>5. Names
  BY <1>1, <1>3 DEF LogInit, Names
<1>6. Sizes
  <2>1. Len(buf) = 0 /\ Len(queue) = 0 /\ next - 1 = 0 /\ log = 1 /\ \A i \in Inode : Len(content[i]) = 0
    BY <1>3 DEF LogInit
  <2>2. QED
    BY <1>1, <2>1 DEF Sizes
<1>7. Cursors
  BY DEF LogInit, Cursors, Sound, NoCursor
<1>8. Stages /\ Drains
  BY DEF LogInit, Stages, Drains, Following
<1>9. Losses
  <2>1. first..(next - 1) = {}
    BY DEF LogInit
  <2>2. Lost = {}
    BY <2>1 DEF Lost
  <2>3. Cardinality(Lost) = 0
    BY <2>2, FS_EmptySet
  <2>4. QED
    BY <1>3, <2>3 DEF LogInit, Losses, LossCounted
<1>10. QED
  BY <1>4, <1>5, <1>6, <1>7, <1>8, <1>9 DEF LogInv

\* Every step keeps it, and until the file system misleads the code none takes
\* an event from the disk that has not been received.
LEMMA LogInvNext ==
  ASSUME LogInv, LogNext
  PROVE  LogInv' /\ Kept
<1>1. CASE Record
  BY <1>1, RecordStays
<1>2. CASE Writer
  <2>1. CASE WriteDropped
    BY <2>1, WriteDroppedStays
  <2>2. CASE Flush
    BY <2>2, FlushStays
  <2>3. ASSUME NEW a \in BOOLEAN, NEW b \in BOOLEAN,
               WriteOne(a, b) \/ Opened(a, b) \/ TickReopen(a, b)
        PROVE  LogInv' /\ Kept
    BY <2>3, WriteOneStays, OpenedStays, TickReopenStays
  <2>4. ASSUME NEW k \in 0..Len(buf), NEW t \in BOOLEAN, WriteError(k, t)
        PROVE  LogInv' /\ Kept
    BY <2>4, WriteErrorStays
  <2>5. ASSUME NEW k \in 0..Len(buf), NEW t \in BOOLEAN, NEW b \in BOOLEAN, Rotate(k, t, b)
        PROVE  LogInv' /\ Kept
    BY <2>5, RotateStays
  <2>6. ASSUME NEW k \in 0..Len(buf), NEW t \in BOOLEAN, NEW a \in BOOLEAN, NEW b \in BOOLEAN,
               FlushError(k, t, a, b)
        PROVE  LogInv' /\ Kept
    BY <2>6, FlushErrorStays
  <2>7. QED
    BY <1>2, <2>1, <2>2, <2>3, <2>4, <2>5, <2>6 DEF Writer
<1>3. CASE Shipper
  <2>1. CASE DrainBegin \/ readBatch \/ ReadError \/ Adopt
    BY <2>1, DrainBeginStays, ReadBatchStays, ReadErrorStays, AdoptStays
  <2>2. ASSUME NEW got \in BOOLEAN, NEW ok \in BOOLEAN, Ship(got, ok)
        PROVE  LogInv' /\ Kept
    BY <2>2, ShipStays
  <2>3. ASSUME NEW ok \in BOOLEAN, Resolve(ok) \/ saveCursor(ok) \/ RemoveOld(ok)
        PROVE  LogInv' /\ Kept
    BY <2>3, ResolveStays, SaveCursorStays, RemoveOldStays
  <2>4. QED
    BY <1>3, <2>1, <2>2, <2>3 DEF Shipper
<1>4. CASE Process
  <2>1. CASE Kill \/ CloseBegin
    BY <2>1, KillStays, CloseBeginStays
  <2>2. ASSUME NEW repaired \in BOOLEAN, Restart(repaired)
        PROVE  LogInv' /\ Kept
    BY <2>2, RestartStays
  <2>3. ASSUME NEW k \in 0..Len(buf), NEW t \in BOOLEAN, CloseEnd(k, t)
        PROVE  LogInv' /\ Kept
    BY <2>3, CloseEndStays
  <2>4. QED
    BY <1>4, <2>1, <2>2, <2>3 DEF Process
<1>5. CASE Recover
  BY <1>5, RecoverStays
<1>6. QED
  BY <1>1, <1>2, <1>3, <1>4, <1>5 DEF LogNext

\* A step of nobody keeps it.
LEMMA LogInvStutter ==
  ASSUME LogInv, UNCHANGED logVars
  PROVE  LogInv'
<1>1. LogTypeOK'
  BY DEF LogInv, LogTypeOK, logVars, diskVars, processVars, sinkVars, writerVars, shipVars
<1>2. QED
  BY <1>1, IdleStays DEF logVars, processVars, sinkVars

\* What the invariant says of the cursors a drain may go on from.
LEMMA CoversOf == LogInv => CursorCovers
<1> SUFFICES ASSUME LogInv PROVE CursorCovers
  OBVIOUS
<1>1. ASSUME NEW c \in Cursor, Sound(c) PROVE Behind(c) \subseteq received
  <2>1. CASE c.ino = NoFile
    BY <2>1 DEF Behind
  <2>2. CASE c.ino # NoFile /\ c.ino \in {log, dot1}
    <3>1. \A k \in 1..c.off : content[c.ino][k] \in received \cup {Corrupt}
      BY <1>1, <2>2 DEF Sound
    <3>2. QED
      BY <2>2, <3>1 DEF Behind
  <2>3. CASE c.ino # NoFile /\ c.ino \notin {log, dot1}
    <3>1. c.ino \in Inode
      BY <1>1, <2>3 DEF Cursor
    <3>2. content[c.ino] = <<>>
      BY <2>3, <3>1 DEF LogInv, Names
    <3>3. DOMAIN content[c.ino] = {}
      BY <3>2
    <3>4. QED
      BY <2>3, <3>3 DEF Behind
  <2>4. QED
    BY <2>1, <2>2, <2>3
<1>2. /\ cursorFile \in Cursor /\ cur \in Cursor /\ old \in Cursor
      /\ ~lapsed => Sound(cursorFile) /\ Sound(cur) /\ Sound(old)
  BY DEF LogInv, LogTypeOK, Cursors
<1>3. QED
  BY <1>1, <1>2 DEF CursorCovers, LogInv

\* Whatever the disk and the file system do, the invariant always holds.
THEOREM LogInvHolds == LogSpec => []LogInv
<1>1. LogInit => LogInv
  BY LogInvInit
<1>2. LogInv /\ [LogNext]_logVars => LogInv'
  BY LogInvNext, LogInvStutter
<1>3. QED
  BY <1>1, <1>2, PTL DEF LogSpec

\* Nothing is skipped: every event before a cursor that a drain, a retry or a
\* restart may go on from has reached the control plane, until a new file gets
\* a number a cursor still names or the writer rotates over a <path>.1 it did
\* not see.
THEOREM CursorCoversHolds == LogSpec => []CursorCovers
<1>1. LogInv => CursorCovers
  BY CoversOf
<1>2. QED
  BY <1>1, LogInvHolds, PTL

\* Whatever the process lost is counted, but for a rotation whose flush failed
\* and an event that joined a fragment, in the same circumstances.
THEOREM LossCountedHolds == LogSpec => []LossCounted
<1>1. LogInv => LossCounted
  BY DEF LogInv, Losses
<1>2. QED
  BY <1>1, LogInvHolds, PTL

\* A line leaves the disk only once the control plane has it: in a rotation, in
\* the removal of <path>.1, in a repair after a kill, in the same circumstances.
THEOREM ShippedBeforeRemovedHolds == LogSpec => ShippedBeforeRemoved
<1>1. LogInv /\ [LogNext]_logVars => [~lapsed' => OnDisk \ OnDisk' \subseteq received]_logVars
  BY LogInvNext DEF Kept
<1>2. QED
  BY <1>1, LogInvHolds, PTL DEF LogSpec, ShippedBeforeRemoved
=============================================================================
