---------------------------- MODULE MCEdgeRoutes ----------------------------
(* Small instances of EdgeRoutes: a session and its replacement.           *)
EXTENDS EdgeRoutes, TLC

CONSTANTS s1, s2

MC_Names == {"api", "web"}

\* Hosted mode: one scope whose "api" also answers on a custom domain.  s2 is
\* the session that replaces s1.
MC_HostedHosts == {"api-acme", "api.acme.com", "web-acme"}
MC_HostedSlugOf == [s \in Session |-> "acme"]
MC_HostedNameOf == [h \in MC_HostedHosts |-> IF h = "web-acme" THEN "web" ELSE "api"]
MC_HostedHostname == "api" :> ("acme" :> "api-acme") @@ "web" :> ("acme" :> "web-acme")
MC_HostedBound == "acme" :> MC_HostedHosts
=============================================================================
