\* Two name servers, one forwarder, a lossy, duplicating, reordering
\* network and read deadlines: lazily created clients cycle through the
\* name servers, and every client created stays accounted for.
CONSTANTS
    ns1 = ns1  ns2 = ns2  f1 = f1  q1 = q1
    None = None
    NameServers <- MCNameServers
    Forwarders <- MCOneForwarder
    Questions <- MCOneQuestion
    UseDeadline = TRUE
    Faulty = TRUE
    MaxHandles = 5
    MaxPending = 2
SPECIFICATION Spec
INVARIANT TypeOK
INVARIANT RoundRobin
INVARIANT NoLeakedClient
