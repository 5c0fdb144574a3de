----------------------------- MODULE MCTokenCache -----------------------------
(* The token cache: one token whose scopes change, two that nobody was given.*)
EXTENDS TokenCache, TLC

CONSTANTS c1, c2, t1, u1, u2

MC_Unknown == [kind |-> "key", scopes |-> <<>>]
MC_Grant == {MC_Unknown, [kind |-> "session", scopes |-> <<"a", "b">>],
             [kind |-> "key", scopes |-> <<"b">>]}

\* Callers are alike, and so are the tokens nobody was given.
MC_Symmetry == Permutations({c1, c2}) \cup Permutations({u1, u2})
=============================================================================
