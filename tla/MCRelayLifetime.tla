-------------------------- MODULE MCRelayLifetime --------------------------
\* Model-checking instance of RelayLifetime.
EXTENDS RelayLifetime

CONSTANTS t1, t2

Events_ == {"opened", "closed"} \X Tunnels
Size_ == [e \in Events |-> IF e = Closed(t1) THEN 3 ELSE 1]

\* One tunnel, a log with rotation, a sink that fails and stalls, a crash.
Logging(n) ==
    [backups |-> n, hazards |-> {"sink", "timeout", "crash"}, listeners |-> {"control", "public"},
     tunnels |-> {t1}, visited |-> {}]

\* Two tunnels, every listener, failing starts, retired tunnels; the sink works.
Stopping ==
    [backups |-> 0, hazards |-> {"start", "retire"},
     listeners |-> DOMAIN Rank, tunnels |-> {t1, t2}, visited |-> {t1}]

\* Two tunnels and a sink that raises: more events than the queue has room for.
Busy ==
    [backups |-> 0, hazards |-> {"sink"}, listeners |-> {"control", "public"},
     tunnels |-> {t1, t2}, visited |-> {}]

\* Python 3.11.
Wrapped ==
    [backups |-> 0, hazards |-> {"sink", "timeout", "wrapped"}, listeners |-> {"control", "public"},
     tunnels |-> {t1}, visited |-> {}]

Environments_ == {Logging(1), Logging(2), Stopping, Busy, Wrapped}
=============================================================================
