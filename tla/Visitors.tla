------------------------------ MODULE Visitors ------------------------------
(***************************************************************************)
(* The public side of the relay: _handle_visitor of server.py, from the    *)
(* accepted connection to the release of its slots, beside the agents that *)
(* come and go in Handshake.  What happens on the opened stream is         *)
(* Tunnel's; here a relay is a stream that ends at some point.  The events *)
(* it emits go to the queue of EventQueue without a pause.                 *)
(***************************************************************************)
EXTENDS Handshake

CONSTANTS
    People,        \* visitor connections
    PersonSource,  \* [People -> source bucket, or NoSource for an exempt address]
    NoSource,
    PoolSize,      \* _visitor_sem
    MaxPerSource,  \* max_visitors_per_ip
    MaxVisitorIps, \* _VISITOR_IP_MAX_KEYS
    MaxVisitors    \* Budget.max_visitors of every account

ASSUME VisitorsAssumption ==
    /\ IsFiniteSet(People) /\ IsFiniteSet(Sources)
    /\ {PoolSize, MaxPerSource, MaxVisitorIps, MaxVisitors} \subseteq Nat
    /\ PersonSource \in [People -> Sources \cup {NoSource}]
    /\ NoSource \notin Sources

VARIABLES
    vis,      \* [visitor -> where its handler is, the connection it was routed to]
    pool,     \* free slots of _visitor_sem
    inFlight, \* _visitors_in_flight
    ips,      \* [source -> _visitor_ips]
    active    \* [account -> _account_active_visitors]

visitorVars == <<vis, pool, inFlight, ips, active>>
vars == <<handshakeVars, visitorVars>>

Accounts == {AccountOf[a] : a \in Agents}

Init ==
    /\ \E crowd \in Crowds :
          /\ HandshakeInit(crowd)
          /\ vis = [v \in People |-> [at |-> IF v \in crowd THEN "new" ELSE "gone", to |-> NoConn]]
    /\ pool = PoolSize /\ inFlight = 0
    /\ ips = [s \in Sources |-> 0]
    /\ active = [x \in Accounts |-> 0]

-----------------------------------------------------------------------------
\* _try_acquire_visitor_ip: below the limit, and a new source only while the map
\* has room.
MayEnter(v) ==
    LET s == PersonSource[v]
    IN s # NoSource =>
          /\ ips[s] < MaxPerSource
          /\ ips[s] = 0 => Cardinality({t \in Sources : ips[t] > 0}) < MaxVisitorIps

IpsWith(v, n) ==
    [s \in Sources |-> IF s = PersonSource[v] THEN ips[s] + n ELSE ips[s]]

Now(v, place) == [vis EXCEPT ![v].at = place]

\* A source over its limit is turned away and holds nothing.
Enter(v) ==
    /\ vis[v].at = "new"
    /\ IF MayEnter(v) THEN vis' = Now(v, "queued") /\ ips' = IpsWith(v, 1)
       ELSE vis' = Now(v, "gone") /\ UNCHANGED ips
    /\ UNCHANGED <<handshakeVars, pool, inFlight, active>>

\* _visitor_sem: a slot, or "busy" after _VISITOR_ACQUIRE_TIMEOUT.
TakePool(v) ==
    /\ vis[v].at = "queued" /\ pool > 0
    /\ pool' = pool - 1 /\ inFlight' = inFlight + 1
    /\ vis' = Now(v, "reading")
    /\ UNCHANGED <<handshakeVars, ips, active>>

PoolTimeout(v) ==
    /\ vis[v].at = "queued" /\ pool = 0
    /\ vis' = Now(v, "busy")
    /\ UNCHANGED <<handshakeVars, pool, inFlight, ips, active>>

\* No request head, a bad one, or one whose label nobody serves: an error page.
HeadFails(v) ==
    /\ vis[v].at = "reading"
    /\ vis' = Now(v, "replying")
    /\ UNCHANGED <<handshakeVars, pool, inFlight, ips, active>>

\* _try_acquire_visitor_budget: one more visitor for the account, or "busy".
Reserve(v, l) ==
    LET x == AccountOf[agents[l][1]]
    IN IF active[x] >= MaxVisitors THEN vis' = Now(v, "replying") /\ UNCHANGED active
       ELSE /\ active' = [active EXCEPT ![x] = @ + 1]
            /\ vis' = [vis EXCEPT ![v] = [at |-> "opening", to |-> agents[l]]]

\* The head names a served label: route and reserve without a pause.
Route(v, l) ==
    /\ vis[v].at = "reading" /\ agents[l] # NoConn
    /\ Reserve(v, l)
    /\ UNCHANGED <<handshakeVars, pool, inFlight, ips>>

\* _release_visitor_budget.
ActiveWithout(v) == [active EXCEPT ![AccountOf[vis[v].to[1]]] = IF @ <= 1 THEN 0 ELSE @ - 1]

\* mux.open returned a stream.
Opened(v) ==
    /\ vis[v].at = "opening" /\ conn[vis[v].to].at = "running"
    /\ vis' = Now(v, "relaying")
    /\ UNCHANGED <<handshakeVars, pool, inFlight, ips, active>>

\* mux.open raised: draining, no stream id or slot left, or the connection is gone.
OpenFails(v) ==
    /\ vis[v].at = "opening"
    /\ vis' = Now(v, "replying")
    /\ active' = ActiveWithout(v)
    /\ UNCHANGED <<handshakeVars, pool, inFlight, ips>>

\* _relay returns: the account's slot and the handler's own slots go back.
RelayEnds(v) ==
    /\ vis[v].at = "relaying"
    /\ active' = ActiveWithout(v)
    /\ pool' = pool + 1 /\ inFlight' = inFlight - 1
    /\ ips' = IpsWith(v, -1)
    /\ vis' = Now(v, "gone")
    /\ UNCHANGED handshakeVars

\* The error page was flushed: the finally blocks give back what was taken.
Leave(v) ==
    /\ vis[v].at \in {"replying", "busy"}
    /\ IF vis[v].at = "replying" THEN pool' = pool + 1 /\ inFlight' = inFlight - 1
       ELSE UNCHANGED <<pool, inFlight>>
    /\ ips' = IpsWith(v, -1)
    /\ vis' = Now(v, "gone")
    /\ UNCHANGED <<handshakeVars, active>>

-----------------------------------------------------------------------------
Receive(v) ==
    \/ Enter(v) \/ TakePool(v) \/ PoolTimeout(v) \/ HeadFails(v)
    \/ (\E l \in Labels : Route(v, l))
    \/ Opened(v) \/ OpenFails(v) \/ RelayEnds(v) \/ Leave(v)

Next ==
    \/ HandshakeNext /\ UNCHANGED visitorVars
    \/ \E v \in People : Receive(v)

Spec == Init /\ [][Next]_vars

\* Every wait of the two programs has a timeout: connect, hello, reply, backoff,
\* admission, event sink, drain, keepalive; pool slot, request head, socket drain.
\* Nothing is assumed of the network and of the stops that users request.
Fairness ==
    /\ \A a \in Agents : WF_vars(Supervise(a) /\ UNCHANGED visitorVars)
    /\ \A c \in Conns : WF_vars(Handle(c) /\ UNCHANGED visitorVars)

FairSpec == Spec /\ Fairness

-----------------------------------------------------------------------------
(* Properties                                                              *)

Inside == {v \in People : vis[v].at \in {"reading", "opening", "relaying", "replying"}}
Reserved == {v \in People : vis[v].at \in {"opening", "relaying"}}

\* Every count of the public side is the number of visitors it stands for, on every
\* way out of the handler (timeouts, bad heads, refusals, a tunnel that goes away
\* between routing and open(), the end of the relay), and the limits hold: max_visitors
\* across all tunnels of an account (PROTOCOL.md 4.5), max_visitors_per_ip across the
\* handlers of a source, and the cap of the source map.
VisitorsCounted ==
    /\ pool + Cardinality(Inside) = PoolSize /\ inFlight = Cardinality(Inside)
    /\ \A s \in Sources :
          /\ ips[s] = Cardinality({v \in People : PersonSource[v] = s /\ vis[v].at \notin {"new", "gone"}})
          /\ ips[s] <= MaxPerSource
    /\ \A x \in Accounts :
          /\ active[x] = Cardinality({v \in Reserved : AccountOf[vis[v].to[1]] = x})
          /\ active[x] <= MaxVisitors
    /\ Cardinality({s \in Sources : ips[s] > 0}) <= MaxVisitorIps

\* Nothing is leaked or counted twice on either side of the relay, and no map outgrows its
\* cap, whatever order agents and visitors come, time out and go in.
CountsExact == SlotsExact /\ LimiterCapped /\ VisitorsCounted
=============================================================================
