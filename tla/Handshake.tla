----------------------------- MODULE Handshake -----------------------------
(***************************************************************************)
(* Agents that connect, and the relay that lets them in: serve_forever and *)
(* _run_once of client.py, and _handle_agent of server.py with its two     *)
(* semaphores and the failed-auth limiter, up to the claim of a label.     *)
(*                                                                         *)
(* What follows the claim is Registry's; here it is what an agent can tell *)
(* apart: refused, told to come back, ready, closed, retired.  Several     *)
(* connections of one agent can be at the relay at once: the agent has     *)
(* given up the older ones and the relay has yet to notice.                *)
(***************************************************************************)
EXTENDS Integers, Sequences, FiniteSets

CONSTANTS
    Agents,       \* agent processes
    Kind,         \* [Agents -> "good", "bad" (unknown token), "old" (other version)]
    Wants,        \* [Agents -> the subdomain it asks for, or NoLabel]
    AccountOf,    \* [Agents -> account]
    Sources,      \* source address buckets (an IPv4 address or an IPv6 /64)
    SourceOf,     \* [Agents -> Sources]
    Labels,
    NoLabel,
    MaxTunnels,   \* max_tunnels of every account
    ControlSlots, \* _control_sem
    AuthSlots,    \* _auth_sem
    AuthFailMax,  \* _AUTH_FAIL_MAX
    SweepAt,      \* _AUTH_FAIL_SWEEP_AT
    MaxSources,   \* _AUTH_FAIL_MAX_IPS
    Attempts,     \* bound: [Agents -> connections it makes]
    Crowds        \* bound: who takes part, one set of agents (and visitors) at a time

Kinds == {"good", "bad", "old"}

ASSUME HandshakeAssumption ==
    /\ IsFiniteSet(Agents)
    /\ Kind \in [Agents -> Kinds] /\ Wants \in [Agents -> Labels \cup {NoLabel}]
    /\ NoLabel \notin Labels /\ SourceOf \in [Agents -> Sources]
    /\ {MaxTunnels, ControlSlots, AuthSlots, AuthFailMax, MaxSources} \subseteq Nat \ {0}
    /\ SweepAt \in Nat /\ Attempts \in [Agents -> Nat]

Conns == UNION {{a} \X (1 .. Attempts[a]) : a \in Agents}
NoConn == <<>>

VARIABLES
    sup,       \* [agent -> serve_forever: where it is, _stop, _connected, _ready_error]
    tries,     \* [agent -> connections made]; the last one is the current
    conn,      \* [conn -> its handler at the relay, its label, the answer, the link]
    agents,    \* [label -> conn]: _agents
    pending,   \* [label -> conn]: _pending_agents
    free,      \* the slots left in _control_sem and _auth_sem
    authFails  \* _auth_fails in insertion order: failures still in the window

handshakeVars == <<sup, tries, conn, agents, pending, free, authFails>>

HandshakeInit(crowd) ==
    /\ sup = [a \in Agents |-> [pc |-> IF a \in crowd THEN "idle" ELSE "stopped",
                              stop |-> FALSE, connected |-> FALSE, error |-> FALSE]]
    /\ tries = [a \in Agents |-> 0]
    /\ conn = [c \in Conns |-> [at |-> "none", label |-> NoLabel, answer |-> "none", link |-> "down"]]
    /\ agents = [l \in Labels |-> NoConn]
    /\ pending = [l \in Labels |-> NoConn]
    /\ free = [control |-> ControlSlots, auth |-> AuthSlots]
    /\ authFails = <<>>

-----------------------------------------------------------------------------
(* client.py: the supervisor of one agent                                  *)

Current(a) == <<a, tries[a]>>
Hears(a) == conn[Current(a)].link = "up"
Answer(a) == conn[Current(a)].answer
HangUp(c) == [conn EXCEPT ![c].link = "down"]
relayVars == <<agents, pending, free, authFails>>

\* serve_forever, an attempt raised: back off, unless a stop was requested.
Disconnected(r) == [r EXCEPT !.pc = IF r.stop THEN "stopped" ELSE "backoff"]

\* The top of the loop.
Attempt(a) ==
    /\ sup[a].pc = "idle" /\ ~sup[a].stop /\ tries[a] < Attempts[a]
    /\ sup' = [sup EXCEPT ![a].pc = "connecting", ![a].connected = FALSE, ![a].error = FALSE]
    /\ tries' = [tries EXCEPT ![a] = @ + 1]
    /\ UNCHANGED <<conn, relayVars>>

LoopEnds(a) ==
    /\ sup[a].pc = "idle" /\ sup[a].stop
    /\ sup' = [sup EXCEPT ![a].pc = "stopped"]
    /\ UNCHANGED <<tries, conn, relayVars>>

\* websockets.connect and the hello; it fails or gives up after open_timeout.
Connect(a) ==
    /\ sup[a].pc = "connecting"
    /\ sup' = [sup EXCEPT ![a].pc = "waiting"]
    /\ conn' = [conn EXCEPT ![Current(a)].at = "arrived", ![Current(a)].link = "up"]
    /\ UNCHANGED <<tries, relayVars>>

ConnectFails(a) ==
    /\ sup[a].pc = "connecting"
    /\ sup' = [sup EXCEPT ![a] = Disconnected(@)]
    /\ UNCHANGED <<tries, conn, relayVars>>

\* _run_once, the relay's reply: ready ...
HearReady(a) ==
    /\ sup[a].pc = "waiting" /\ Hears(a) /\ Answer(a) \in {"ready", "closed", "retired"}
    /\ sup' = [sup EXCEPT ![a].pc = "running", ![a].connected = TRUE, ![a].error = FALSE]
    /\ UNCHANGED <<tries, conn, relayVars>>

\* ... an error frame, or a close code of _FATAL_CLOSE_CODES ...
HearRefusal(a) ==
    /\ sup[a].pc = "waiting" /\ Hears(a) /\ Answer(a) = "refused"
    /\ sup' = [sup EXCEPT ![a].pc = "failed", ![a].connected = TRUE, ![a].error = TRUE]
    /\ conn' = HangUp(Current(a))
    /\ UNCHANGED <<tries, relayVars>>

\* ... or any other close, a lost connection, or no reply within the timeout: an
\* answer that is under way when it passes is never read.
HearNothing(a) ==
    /\ sup[a].pc = "waiting"
    /\ sup' = [sup EXCEPT ![a] = Disconnected(@)]
    /\ conn' = HangUp(Current(a))
    /\ UNCHANGED <<tries, relayVars>>

\* The backoff is over, or cut short by a stop.
BackoffEnds(a) ==
    /\ sup[a].pc = "backoff"
    /\ sup' = [sup EXCEPT ![a].pc = "idle"]
    /\ UNCHANGED <<tries, conn, relayVars>>

\* mux.run raises: the connection was lost, or closed with an error code.
RunRaises(a) ==
    /\ sup[a].pc = "running" /\ (~Hears(a) \/ Answer(a) = "closed")
    /\ sup' = [sup EXCEPT ![a] = Disconnected(@)]
    /\ conn' = HangUp(Current(a))
    /\ UNCHANGED <<tries, relayVars>>

\* mux.run returns: the relay drained and closed.  The loop goes on at once.
RunReturns(a) ==
    /\ sup[a].pc = "running" /\ Hears(a) /\ Answer(a) = "retired"
    /\ sup' = [sup EXCEPT ![a].pc = "idle"]
    /\ conn' = HangUp(Current(a))
    /\ UNCHANGED <<tries, relayVars>>

\* Mutant of Drain: the stop is looked at when mux.run ends.
DrainLate(a) ==
    /\ sup[a].pc = "running" /\ sup[a].stop /\ ~Hears(a)
    /\ sup' = [sup EXCEPT ![a].pc = "idle"]
    /\ conn' = HangUp(Current(a))
    /\ UNCHANGED <<tries, relayVars>>

\* A stop while connected: mux.drain, bounded by its grace, then the loop's test.
Drain(a) ==
    /\ sup[a].pc = "running" /\ sup[a].stop
    /\ sup' = [sup EXCEPT ![a].pc = "idle"]
    /\ conn' = HangUp(Current(a))
    /\ UNCHANGED <<tries, relayVars>>

\* request_stop, aclose, or stop() from another thread.
RequestStop(a) ==
    /\ ~sup[a].stop /\ sup[a].pc \notin {"stopped", "failed"}
    /\ sup' = [sup EXCEPT ![a].stop = TRUE]
    /\ UNCHANGED <<tries, conn, relayVars>>

\* External: the network loses a connection; the agent notices first.
Cut(a) ==
    /\ sup[a].pc \in {"waiting", "running"} /\ Hears(a)
    /\ conn' = HangUp(Current(a))
    /\ UNCHANGED <<sup, tries, relayVars>>

-----------------------------------------------------------------------------
(* server.py: the failed-auth limiter                                      *)

Source(c) == SourceOf[c[1]]
Failures(s) ==
    LET own == SelectSeq(authFails, LAMBDA f : f.source = s)
    IN IF own = <<>> THEN 0 ELSE own[1].fresh

\* The map without the entries at the other places, in the order it had.
Kept(q, places) ==
    [n \in 1 .. Cardinality(places) |->
        q[CHOOSE i \in places : Cardinality({j \in places : j <= i}) = n]]

\* _auth_rate_ok drops the source's entry when all its failures are too old.
Pruned(s) ==
    Kept(authFails, {i \in DOMAIN authFails : authFails[i].source # s \/ authFails[i].fresh > 0})
RateOk(s) == Failures(s) < AuthFailMax

\* _record_auth_fail: count it, sweep the stale entries, then evict the oldest.
Counted(s) ==
    IF \E i \in DOMAIN authFails : authFails[i].source = s
    THEN [i \in DOMAIN authFails |->
            IF authFails[i].source = s THEN [authFails[i] EXCEPT !.fresh = @ + 1] ELSE authFails[i]]
    ELSE Append(authFails, [source |-> s, fresh |-> 1])

\* The sweep of stale sources ...
Swept(q) == IF Len(q) > SweepAt THEN Kept(q, {i \in DOMAIN q : q[i].fresh > 0}) ELSE q

\* ... and the cap on what is left.
Recorded(s) ==
    LET q == Swept(Counted(s))
    IN IF Len(q) > MaxSources THEN SubSeq(q, Len(q) - MaxSources + 1, Len(q)) ELSE q

\* _AUTH_FAIL_WINDOW has passed since the oldest failure of one source.
WindowPasses(i) ==
    /\ i \in DOMAIN authFails /\ authFails[i].fresh > 0
    /\ authFails' = [authFails EXCEPT ![i].fresh = @ - 1]
    /\ UNCHANGED <<sup, tries, conn, agents, pending, free>>

-----------------------------------------------------------------------------
(* server.py: _handle_agent                                                *)

\* The handler leaves: a close code the agent retries ("later"), a refusal, ...
Left(c, answer) == [conn EXCEPT ![c].at = "gone", ![c].answer = answer]
At(c, place) == [conn EXCEPT ![c].at = place]
agentSide == <<sup, tries>>

\* The limiter is asked before anything is spent on the connection.
CheckRate(c) ==
    /\ conn[c].at = "arrived"
    /\ authFails' = Pruned(Source(c))
    /\ conn' = IF RateOk(Source(c)) THEN At(c, "queued") ELSE Left(c, "later")
    /\ UNCHANGED <<agentSide, agents, pending, free>>

\* _control_sem: a slot, or "server busy" after hello_timeout.
TakeSlot(c) ==
    /\ conn[c].at = "queued" /\ free.control > 0
    /\ free' = [free EXCEPT !.control = @ - 1]
    /\ conn' = At(c, "hello")
    /\ UNCHANGED <<agentSide, agents, pending, authFails>>

SlotTimeout(c) ==
    /\ conn[c].at = "queued" /\ free.control = 0
    /\ conn' = Left(c, "later")
    /\ UNCHANGED <<agentSide, agents, pending, free, authFails>>

\* The hello is read; the slot goes back before the token is looked at.  Another
\* protocol version ("old"; an invalid label likewise) is refused for good.
Hello(c) ==
    /\ conn[c].at = "hello"
    /\ free' = [free EXCEPT !.control = @ + 1]
    /\ IF Kind[c[1]] = "old"
       THEN conn' = Left(c, "refused") /\ authFails' = Recorded(Source(c))
       ELSE conn' = At(c, "authorizing") /\ UNCHANGED authFails
    /\ UNCHANGED <<agentSide, agents, pending>>

\* Mutant of HelloFails: only the good path gives the slot back.
HelloFailsKeepsSlot(c) ==
    /\ conn[c].at = "hello"
    /\ conn' = Left(c, "later")
    /\ authFails' = Recorded(Source(c))
    /\ UNCHANGED <<agentSide, agents, pending, free>>

\* No hello within hello_timeout, a malformed one, or the connection went away: 4000,
\* which the agent retries.
HelloFails(c) ==
    /\ conn[c].at = "hello"
    /\ free' = [free EXCEPT !.control = @ + 1]
    /\ conn' = Left(c, "later")
    /\ authFails' = Recorded(Source(c))
    /\ UNCHANGED <<agentSide, agents, pending>>

\* _auth_sem: a slot for the admission call, or "server busy" after auth_timeout.
TakeAuthSlot(c) ==
    /\ conn[c].at = "authorizing" /\ free.auth > 0
    /\ free' = [free EXCEPT !.auth = @ - 1]
    /\ conn' = At(c, "admitting")
    /\ UNCHANGED <<agentSide, agents, pending, authFails>>

AuthSlotTimeout(c) ==
    /\ conn[c].at = "authorizing" /\ free.auth = 0
    /\ conn' = Left(c, "later")
    /\ UNCHANGED <<agentSide, agents, pending, free, authFails>>

\* admit_tunnel raised, timed out or answered nonsense.
AdmissionFails(c) ==
    /\ conn[c].at = "admitting"
    /\ free' = [free EXCEPT !.auth = @ + 1]
    /\ conn' = Left(c, "later")
    /\ UNCHANGED <<agentSide, agents, pending, authFails>>

\* admit_tunnel answered None: a token nobody knows.
Unauthorized(c) ==
    /\ conn[c].at = "admitting" /\ Kind[c[1]] = "bad"
    /\ free' = [free EXCEPT !.auth = @ + 1]
    /\ conn' = Left(c, "refused")
    /\ authFails' = Recorded(Source(c))
    /\ UNCHANGED <<agentSide, agents, pending>>

-----------------------------------------------------------------------------
(* server.py: _serve_agent                                                 *)

Account(c) == AccountOf[c[1]]
Owned(x) == {l \in Labels : \/ agents[l] # NoConn /\ Account(agents[l]) = x
                            \/ pending[l] # NoConn /\ Account(pending[l]) = x}

\* _assign_label: the label asked for, or a random one that is free.
Assignable(c, l) ==
    IF Wants[c[1]] # NoLabel THEN l = Wants[c[1]]
    ELSE agents[l] = NoConn /\ pending[l] = NoConn

\* _authorize_claim.
MayClaim(c, l) ==
    /\ agents[l] # NoConn => Account(agents[l]) = Account(c)
    /\ pending[l] = NoConn
    /\ l \in Owned(Account(c)) \/ Cardinality(Owned(Account(c))) < MaxTunnels

\* The admission came back and the claim is settled without a pause: refused,
\* put off (relay or reconnect limit, expired lease), or pending.
Claim(c, l) ==
    /\ conn[c].at = "admitting" /\ Kind[c[1]] = "good" /\ Assignable(c, l)
    /\ free' = [free EXCEPT !.auth = @ + 1]
    /\ \/ ~MayClaim(c, l) /\ conn' = Left(c, "refused") /\ UNCHANGED pending
       \/ MayClaim(c, l) /\ conn' = Left(c, "later") /\ UNCHANGED pending
       \/ /\ MayClaim(c, l)
          /\ conn' = [conn EXCEPT ![c].at = "opening", ![c].label = l]
          /\ pending' = [pending EXCEPT ![l] = c]
    /\ UNCHANGED <<agentSide, agents, authFails>>

\* The handler looks its own claim up again after every pause.
IsPending(c) == pending[conn[c].label] = c
PendingWithout(c) == [l \in Labels |-> IF pending[l] = c THEN NoConn ELSE pending[l]]

\* The required tunnel_opened event is recorded, or not (_drop_pending_if_current).
SinkAccepts(c) ==
    /\ conn[c].at = "opening"
    /\ conn' = IF IsPending(c) THEN At(c, "readying") ELSE Left(c, "later")
    /\ UNCHANGED <<agentSide, relayVars>>

SinkFails(c) ==
    /\ conn[c].at = "opening"
    /\ conn' = Left(c, "later")
    /\ pending' = PendingWithout(c)
    /\ UNCHANGED <<agentSide, agents, free, authFails>>

\* ready is sent; a connection that was lost, or that a revocation is about to close,
\* may still take it ...
Ready(c) ==
    /\ conn[c].at = "readying"
    /\ conn' = [conn EXCEPT ![c].at = "installing",
                           ![c].answer = IF @ = "later" THEN "closed" ELSE "ready"]
    /\ UNCHANGED <<agentSide, relayVars>>

\* Mutant of ReadyFails: the claim is left behind.
ReadyFailsKeeps(c) ==
    /\ conn[c].at = "readying" /\ (conn[c].link = "down" \/ conn[c].answer = "later")
    /\ conn' = Left(c, "later")
    /\ UNCHANGED <<agentSide, agents, pending, free, authFails>>

\* ... or raise.
ReadyFails(c) ==
    /\ conn[c].at = "readying" /\ (conn[c].link = "down" \/ conn[c].answer = "later")
    /\ conn' = Left(c, "later")
    /\ pending' = PendingWithout(c)
    /\ UNCHANGED <<agentSide, agents, free, authFails>>

\* Mutant of Superseding: the connection that is replaced is not told.
SupersedingSilently(c) == [conn EXCEPT ![c].at = "running"]

\* Newest wins: the connection that held the label is closed 4003.
Superseding(c) ==
    LET previous == agents[conn[c].label]
    IN [x \in Conns |->
          IF x = c THEN [conn[x] EXCEPT !.at = "running"]
          ELSE IF x = previous THEN [conn[x] EXCEPT !.answer = "closed"]
          ELSE conn[x]]

\* _install_registration, unless the claim was revoked meanwhile (also 4003).
Install(c) ==
    /\ conn[c].at = "installing"
    /\ IF IsPending(c)
       THEN conn' = Superseding(c) /\ agents' = [agents EXCEPT ![conn[c].label] = c]
       ELSE conn' = Left(c, "closed") /\ UNCHANGED agents
    /\ pending' = PendingWithout(c)
    /\ UNCHANGED <<agentSide, free, authFails>>

\* A lease is revoked before its claim is installed: the claim is dropped and the
\* connection closed 1013.
RetirePending(c) ==
    /\ conn[c].at \in {"opening", "readying", "installing"} /\ IsPending(c)
    /\ pending' = PendingWithout(c)
    /\ conn' = [conn EXCEPT ![c].answer = IF @ = "ready" THEN "closed" ELSE "later"]
    /\ UNCHANGED <<agentSide, agents, free, authFails>>

AgentsWithout(c) == [l \in Labels |-> IF agents[l] = c THEN NoConn ELSE agents[l]]

\* A lease expires or is revoked: out of the route table, drained and closed.
Retire(c) ==
    /\ conn[c].at = "running" /\ conn[c].answer = "ready"
    /\ conn' = [conn EXCEPT ![c].answer = "retired"]
    /\ agents' = AgentsWithout(c)
    /\ UNCHANGED <<agentSide, pending, free, authFails>>

\* Mutant of RunEnds: no keepalive, an agent that vanished is not noticed.
RunEndsWhenTold(c) ==
    /\ conn[c].at = "running" /\ conn[c].answer # "ready"
    /\ conn' = At(c, "gone")
    /\ agents' = AgentsWithout(c)
    /\ UNCHANGED <<agentSide, pending, free, authFails>>

\* mux.run ends (keepalive notices a lost agent); _deregister_if_current.
RunEnds(c) ==
    /\ conn[c].at = "running"
    /\ conn[c].link = "down" \/ conn[c].answer # "ready"
    /\ conn' = At(c, "gone")
    /\ agents' = AgentsWithout(c)
    /\ UNCHANGED <<agentSide, pending, free, authFails>>

-----------------------------------------------------------------------------
Supervise(a) ==
    \/ Attempt(a) \/ LoopEnds(a) \/ Connect(a) \/ ConnectFails(a)
    \/ HearReady(a) \/ HearRefusal(a) \/ HearNothing(a) \/ BackoffEnds(a)
    \/ RunRaises(a) \/ RunReturns(a) \/ Drain(a)

Handle(c) ==
    \/ CheckRate(c) \/ TakeSlot(c) \/ SlotTimeout(c) \/ Hello(c) \/ HelloFails(c)
    \/ TakeAuthSlot(c) \/ AuthSlotTimeout(c) \/ AdmissionFails(c) \/ Unauthorized(c)
    \/ (\E l \in Labels : Claim(c, l)) \/ SinkAccepts(c) \/ SinkFails(c)
    \/ Ready(c) \/ ReadyFails(c) \/ Install(c) \/ RunEnds(c)

HandshakeNext ==
    \/ \E a \in Agents : Supervise(a) \/ RequestStop(a) \/ Cut(a)
    \/ \E c \in Conns : Handle(c) \/ RetirePending(c) \/ Retire(c)
    \/ \E i \in 1 .. MaxSources : WindowPasses(i)

-----------------------------------------------------------------------------
(* Properties                                                              *)

\* Neither semaphore loses or gains a slot on any way out of a handshake: a slot is
\* taken exactly while a handler waits for a hello, or for the admission call.
SlotsExact ==
    LET here(place) == Cardinality({c \in Conns : conn[c].at = place})
    IN free.control + here("hello") = ControlSlots /\ free.auth + here("admitting") = AuthSlots

\* The failed-auth map stays within its cap (_AUTH_FAIL_MAX_IPS) through counts, sweeps
\* and trims, however many sources fail.
LimiterCapped == Len(authFails) <= MaxSources

\* A label never points at a handler that is gone, although claims, installs,
\* supersessions and departures of several connections of one agent overlap.
RoutesAreServed ==
    \A l \in Labels :
        /\ agents[l] # NoConn => conn[agents[l]].at = "running" /\ conn[agents[l]].label = l
        /\ pending[l] # NoConn => conn[pending[l]].at \in {"opening", "readying", "installing"}

\* An agent that reports a live tunnel has the route: as long as its connection stands
\* and the relay has not told it otherwise, its label leads to it, or is about to (ready
\* is sent just before the install).  A late handshake of a connection it has long given
\* up may take the label from it, and then it is told.
ConnectedMeansRouted ==
    \A a \in Agents :
        (sup[a].pc = "running" /\ Hears(a) /\ Answer(a) = "ready") =>
            \/ agents[conn[Current(a)].label] = Current(a)
            \/ pending[conn[Current(a)].label] = Current(a)

\* client.py, request_stop: "drain in-flight streams and stop (no reconnect)",
\* whatever the supervisor is waiting for.
StopEnds == \A a \in Agents : sup[a].stop ~> sup[a].pc \in {"stopped", "failed"}

\* Every handshake ends, by success, refusal or timeout, and a lost agent's label is
\* given back.
HandlersEnd ==
    \A c \in Conns :
        (conn[c].at # "none" /\ conn[c].link = "down") ~> conn[c].at = "gone"

\* PROTOCOL.md 4.5: reconnects are "seamless" (sleep/wake, Wi-Fi flap).  An agent
\* whose token is good and whose label nobody else wants never gives up.
GivesUpOnlyForGood ==
    \A a \in Agents : (sup[a].pc = "failed" /\ Kind[a] = "good") =>
        \E b \in Agents : AccountOf[b] # AccountOf[a] /\ Wants[b] = Wants[a]

=============================================================================
