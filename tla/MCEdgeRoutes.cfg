SPECIFICATION FairSpec
CONSTANTS
    s1 = s1
    s2 = s2
    None = None
    Session = {s1, s2}
    Name <- MC_Names
    Host <- MC_HostedHosts
    Slug = {"acme"}
    SlugOf <- MC_HostedSlugOf
    NameOf <- MC_HostedNameOf
    Hostname <- MC_HostedHostname
    Bound <- MC_HostedBound
    MaxTunnelsPerToken = 2
    MaxBuffered = 1
INVARIANTS TableSound CountsExact ReplyRouted
PROPERTIES ImplementsTable DeadSessionsDropped
CHECK_DEADLOCK FALSE
