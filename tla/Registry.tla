------------------------------ MODULE Registry ------------------------------
(***************************************************************************)
(* The tunnel registry of the server (src/chute/server.py): which agent    *)
(* connection serves which label, from the admission of an agent to its    *)
(* departure, with lease renewal, lease revocation by policy updates, the  *)
(* account and lease indexes, and the account budget overrides.            *)
(*                                                                         *)
(* _serve_agent runs once per connection.  The bodies under                *)
(* _registration_lock hold no await, so the lock is never contended and    *)
(* each stretch between two real suspension points is one action:          *)
(*   Claim | (the required event) | Ready | the mux runs | Deregister.     *)
(* The control plane is external: it admits, renews, and publishes         *)
(* numbered policy updates.                                                *)
(***************************************************************************)
EXTENDS Integers, FiniteSets

CONSTANTS
    Conns,       \* agent connections; each registers at most once
    Labels,
    Accounts,
    Leases,
    None,        \* no connection, no label
    AccountOf,   \* [Conns -> Accounts]: TunnelAdmission.account_id
    LeaseOf,     \* [Conns -> Leases]: TunnelLease.lease_id
    Finite,      \* the connections whose lease has an expires_at
    MaxAgents,   \* max_agents of the relay
    MaxTunnels,  \* [Accounts -> Nat]: max_tunnels of the account's admissions
    RequireSink, \* require_event_sink
    MaxVersion,  \* bound: policy changes the control plane makes
    MaxActive    \* bound: concurrent visitor streams of one account

ASSUME RegistryAssumption ==
    /\ IsFiniteSet(Labels)
    /\ None \notin Conns /\ None \notin Labels
    /\ AccountOf \in [Conns -> Accounts]
    /\ LeaseOf \in [Conns -> Leases]
    /\ Finite \subseteq Conns
    /\ MaxAgents \in Nat /\ MaxTunnels \in [Accounts -> Nat]
    /\ RequireSink \in BOOLEAN
    /\ MaxVersion \in Nat /\ MaxActive \in Nat

VARIABLES
    pc,            \* [conn -> where its _serve_agent is]
    label,         \* [conn -> its label]
    agents,        \* [label -> conn]: _agents
    pending,       \* [label -> conn]: _pending_agents
    accountLabels, \* [account -> labels]: _account_labels
    leaseLabels,   \* [lease -> labels]: _lease_labels
    pendingLeases, \* [lease -> labels]: _pending_lease_labels
    accepting,     \* the conns with accepting_visitors
    expired,       \* the conns whose lease_expires_at has passed
    draining,      \* the conns with mux.draining (the agent's GOAWAY)
    renewal,       \* [conn -> the renewal task: "off", "asleep", "asking"]
    emitted,       \* the conns with opened_emitted
    closedEvents,  \* [conn -> number of tunnel_closed events emitted]
    active,        \* [account -> visitor streams]: _account_active_visitors
    overrides,     \* accounts in _account_budget_overrides
    version,       \* _policy_version
    poll,          \* the reply of the policy poll that is under way, if any
    cp,            \* external: the control plane's version, revoked leases, budgets
    revoked        \* history: conns registered when their revocation was applied

agentVars == <<agents, accountLabels, leaseLabels>>
pendingVars == <<pending, pendingLeases>>
policyVars == <<version, poll, cp, revoked>>
vars == <<pc, label, agentVars, pendingVars, accepting, expired, draining, renewal,
          emitted, closedEvents, active, overrides, policyVars>>

NoReply == [version |-> 0, revoke |-> {}, budgets |-> {}]

Init ==
    /\ pc = [c \in Conns |-> "idle"]
    /\ label = [c \in Conns |-> None]
    /\ agents = [l \in Labels |-> None]
    /\ pending = [l \in Labels |-> None]
    /\ accountLabels = [a \in Accounts |-> {}]
    /\ leaseLabels = [x \in Leases |-> {}]
    /\ pendingLeases = [x \in Leases |-> {}]
    /\ accepting = {} /\ expired = {} /\ draining = {} /\ emitted = {}
    /\ renewal = [c \in Conns |-> "off"]
    /\ closedEvents = [c \in Conns |-> 0]
    /\ active = [a \in Accounts |-> 0]
    /\ overrides = {}
    /\ version = 0
    /\ poll = NoReply
    /\ cp = NoReply
    /\ revoked = {}

-----------------------------------------------------------------------------
(* What the registry holds                                                 *)

Active(c) == \E l \in Labels : agents[l] = c
Pending(c) == \E l \in Labels : pending[l] = c
Held == {l \in Labels : agents[l] # None}
Claimed == {l \in Labels : pending[l] # None}

\* Mutant of Owned: only the installed labels count.
OwnedHeld(a) == accountLabels[a]

\* The labels an account holds or is about to hold, as _authorize_claim counts them.
Owned(a) == accountLabels[a] \cup {l \in Claimed : AccountOf[pending[l]] = a}

\* _account_has_local_work, over the given registry.  Bytes buffered for an account
\* belong to a live stream, and the relay closes its stream before it gives the
\* visitor's slot back: act covers them.
HasWork(a, accLabels, pend, act) ==
    \/ accLabels[a] # {}
    \/ act[a] > 0
    \/ \E l \in Labels : pend[l] # None /\ AccountOf[pend[l]] = a

\* _deregister_if_current for every current conn of S: what is left of the route
\* table, of the account index and of the lease index ...
AgentsWithout(S) == [l \in Labels |-> IF agents[l] \in S THEN None ELSE agents[l]]
AccountsWithout(S) ==
    [a \in Accounts |->
        accountLabels[a] \ {l \in Labels : agents[l] \in S /\ AccountOf[agents[l]] = a}]

\* Mutant of LeasesWithout: the lease index keeps the label.
LeasesKept(S) == leaseLabels
LeasesWithout(S) ==
    [x \in Leases |->
        leaseLabels[x] \ {l \in Labels : agents[l] \in S /\ LeaseOf[agents[l]] = x}]

\* ... and of the budget overrides (_drop_account_bandwidth_if_idle).
OverridesWithout(S) ==
    overrides \ {a \in Accounts :
                    /\ \E c \in S : Active(c) /\ AccountOf[c] = a
                    /\ ~HasWork(a, AccountsWithout(S), pending, active)}

RemoveAgents(S) ==
    /\ agents' = AgentsWithout(S)
    /\ accountLabels' = AccountsWithout(S)
    /\ leaseLabels' = LeasesWithout(S)
    /\ overrides' = OverridesWithout(S)

\* _drop_pending_if_current, for every conn of S.
PendingWithout(S) == [l \in Labels |-> IF pending[l] \in S THEN None ELSE pending[l]]

DropPending(S) ==
    /\ pending' = PendingWithout(S)
    /\ pendingLeases' =
         [x \in Leases |->
             pendingLeases[x] \ {l \in Labels : pending[l] \in S /\ LeaseOf[pending[l]] = x}]

\* _registrations_for_lease_index: by the index, or by a scan where it has no entry.
ByLease(x, index, regs) ==
    {c \in Conns : /\ LeaseOf[c] = x
                   /\ \E l \in (IF index[x] = {} THEN Labels ELSE index[x]) : regs[l] = c}

\* A tunnel_closed event goes out, if the opening one did.
EmitClosed(c) ==
    closedEvents' = [closedEvents EXCEPT ![c] = IF c \in emitted THEN @ + 1 ELSE @]

Gone(c) == pc' = [pc EXCEPT ![c] = "gone"]

-----------------------------------------------------------------------------
(* _serve_agent                                                            *)

\* External: the control plane admits the agent; its answer is on its way.
Admit(c) ==
    /\ pc[c] = "idle"
    /\ LeaseOf[c] \notin cp.revoke
    /\ pc' = [pc EXCEPT ![c] = "admitted"]
    /\ UNCHANGED <<label, agentVars, pendingVars, accepting, expired, draining, renewal,
                   emitted, closedEvents, active, overrides, policyVars>>

\* Mutant of MayClaim: whose label it is is not looked at.
MayClaimAny(c, l) ==
    LET a == AccountOf[c]
    IN /\ pending[l] = None
       /\ l \in Owned(a) \/ Cardinality(Owned(a)) < MaxTunnels[a]
       /\ agents[l] # None \/ Cardinality(Held) + Cardinality(Claimed) < MaxAgents
       /\ c \notin expired

\* _authorize_claim, _global_agent_budget_ok and the lease check.
MayClaim(c, l) ==
    LET a == AccountOf[c]
    IN /\ agents[l] # None => AccountOf[agents[l]] = a
       /\ pending[l] = None
       /\ l \in Owned(a) \/ Cardinality(Owned(a)) < MaxTunnels[a]
       /\ agents[l] # None \/ Cardinality(Held) + Cardinality(Claimed) < MaxAgents
       /\ c \notin expired

\* The first locked block, and the tunnel_opened event when it is only queued
\* (a full queue drops it).
Claim(c, l) ==
    /\ pc[c] = "admitted"
    /\ MayClaim(c, l)
    /\ pc' = [pc EXCEPT ![c] = IF RequireSink THEN "opening" ELSE "readying"]
    /\ label' = [label EXCEPT ![c] = l]
    /\ pending' = [pending EXCEPT ![l] = c]
    /\ pendingLeases' = [pendingLeases EXCEPT ![LeaseOf[c]] = @ \cup {l}]
    /\ \E queued \in BOOLEAN : emitted' = IF queued /\ ~RequireSink THEN emitted \cup {c}
                                          ELSE emitted
    /\ UNCHANGED <<agentVars, accepting, expired, draining, renewal, closedEvents, active,
                   overrides, policyVars>>

\* A refused claim: a label error, a limit (that of reconnects per minute, which is
\* not modelled here, included), or an expired lease.
Reject(c) ==
    /\ pc[c] = "admitted"
    /\ Gone(c)
    /\ UNCHANGED <<label, agentVars, pendingVars, accepting, expired, draining, renewal,
                   emitted, closedEvents, active, overrides, policyVars>>

\* Mutant of SinkAccepts: a claim withdrawn meanwhile ends without its closing event.
SinkAcceptsSilently(c) ==
    /\ pc[c] = "opening"
    /\ emitted' = emitted \cup {c}
    /\ IF pending[label[c]] = c THEN pc' = [pc EXCEPT ![c] = "readying"] ELSE Gone(c)
    /\ UNCHANGED <<label, agentVars, pendingVars, accepting, expired, draining, renewal,
                   closedEvents, active, overrides, policyVars>>

\* The required tunnel_opened event was taken; look again whether the claim stands.
SinkAccepts(c) ==
    /\ pc[c] = "opening"
    /\ emitted' = emitted \cup {c}
    /\ IF pending[label[c]] = c
       THEN pc' = [pc EXCEPT ![c] = "readying"] /\ UNCHANGED closedEvents
       ELSE Gone(c) /\ closedEvents' = [closedEvents EXCEPT ![c] = @ + 1]
    /\ UNCHANGED <<label, agentVars, pendingVars, accepting, expired, draining, renewal,
                   active, overrides, policyVars>>

\* The required event failed or timed out.
SinkFails(c) ==
    /\ pc[c] = "opening"
    /\ Gone(c)
    /\ DropPending({c})
    /\ UNCHANGED <<label, agentVars, accepting, expired, draining, renewal, emitted,
                   closedEvents, active, overrides, policyVars>>

\* Mutant of ReadyFails: the claim is left behind.
ReadyFailsKeeps(c) ==
    /\ pc[c] = "readying"
    /\ Gone(c)
    /\ EmitClosed(c)
    /\ UNCHANGED <<label, agentVars, pendingVars, accepting, expired, draining, renewal,
                   emitted, active, overrides, policyVars>>

\* The agent was gone before it could be told it is ready.
ReadyFails(c) ==
    /\ pc[c] = "readying"
    /\ Gone(c)
    /\ DropPending({c})
    /\ EmitClosed(c)
    /\ UNCHANGED <<label, agentVars, accepting, expired, draining, renewal, emitted,
                   active, overrides, policyVars>>

\* _install_registration: the newest connection takes the label over.
Install(c) ==
    LET l == label[c]
        old == agents[l]
        moved == old # None /\ AccountOf[old] # AccountOf[c]
        left == [accountLabels EXCEPT ![AccountOf[old]] = @ \ {l}]
        base == IF moved THEN left ELSE accountLabels
        open == [pending EXCEPT ![l] = None]
    IN /\ DropPending({c})
       /\ agents' = [agents EXCEPT ![l] = c]
       /\ accountLabels' = [base EXCEPT ![AccountOf[c]] = @ \cup {l}]
       /\ leaseLabels' = [x \in Leases |->
                            (IF old # None /\ LeaseOf[old] = x THEN leaseLabels[x] \ {l}
                             ELSE leaseLabels[x]) \cup (IF LeaseOf[c] = x THEN {l} ELSE {})]
       /\ overrides' = IF moved /\ ~HasWork(AccountOf[old], left, open, active)
                       THEN overrides \ {AccountOf[old]} ELSE overrides

\* Mutant of Ready: the claim is not looked at again after the send.
ReadyUnchecked(c) ==
    /\ pc[c] = "readying"
    /\ Install(c)
    /\ pc' = [pc EXCEPT ![c] = "running"]
    /\ accepting' = accepting \cup {c}
    /\ renewal' = [renewal EXCEPT ![c] = IF c \in Finite THEN "asleep" ELSE "off"]
    /\ UNCHANGED <<label, expired, draining, emitted, closedEvents, active, policyVars>>

\* "ready" was sent: install the claim, unless it was withdrawn meanwhile.
Ready(c) ==
    /\ pc[c] = "readying"
    /\ IF pending[label[c]] = c
       THEN /\ Install(c)
            /\ pc' = [pc EXCEPT ![c] = "running"]
            /\ accepting' = accepting \cup {c}
            /\ renewal' = [renewal EXCEPT ![c] = IF c \in Finite THEN "asleep" ELSE "off"]
            /\ UNCHANGED closedEvents
       ELSE /\ Gone(c)
            /\ EmitClosed(c)
            /\ UNCHANGED <<agentVars, pendingVars, accepting, renewal, overrides>>
    /\ UNCHANGED <<label, expired, draining, emitted, active, policyVars>>

\* mux.run() returns (closed, superseded, drained or lost); the renewal is cancelled.
RunEnds(c) ==
    /\ pc[c] = "running"
    /\ pc' = [pc EXCEPT ![c] = "ending"]
    /\ renewal' = [renewal EXCEPT ![c] = "off"]
    /\ UNCHANGED <<label, agentVars, pendingVars, accepting, expired, draining, emitted,
                   closedEvents, active, overrides, policyVars>>

\* The rest of the finally block.
Deregister(c) ==
    /\ pc[c] = "ending"
    /\ Gone(c)
    /\ RemoveAgents({c})
    /\ EmitClosed(c)
    /\ UNCHANGED <<label, pendingVars, accepting, expired, draining, renewal, emitted,
                   active, policyVars>>

-----------------------------------------------------------------------------
(* Leases, visitors and draining                                           *)

\* _retire_registration, for the current conns of S: no new visitors, drain.
Retire(S) ==
    /\ RemoveAgents(S)
    /\ accepting' = accepting \ {c \in S : Active(c)}

\* Time passes the lease's expires_at.
Expire(c) ==
    /\ c \in Finite \ expired
    /\ pc[c] \notin {"idle", "gone"}
    /\ expired' = expired \cup {c}
    /\ UNCHANGED <<pc, label, agentVars, pendingVars, accepting, draining, renewal, emitted,
                   closedEvents, active, overrides, policyVars>>

\* The agent announces GOAWAY: the registration stays, unrouted.
AgentGoaway(c) ==
    /\ pc[c] = "running"
    /\ draining' = draining \cup {c}
    /\ UNCHANGED <<pc, label, agentVars, pendingVars, accepting, expired, renewal, emitted,
                   closedEvents, active, overrides, policyVars>>

\* The checks after each await of the renewal task.
Current(c) == agents[label[c]] = c /\ c \notin draining

\* _renew_lease_until_closed wakes: stop, give the lease up, or ask for another.
RenewWakes(c) ==
    /\ renewal[c] = "asleep"
    /\ \/ /\ ~Current(c)
          /\ renewal' = [renewal EXCEPT ![c] = "off"]
          /\ UNCHANGED <<agentVars, accepting, overrides>>
       \/ /\ Current(c) /\ c \in expired
          /\ renewal' = [renewal EXCEPT ![c] = "off"]
          /\ Retire({c})
       \/ /\ Current(c) /\ c \notin expired
          /\ renewal' = [renewal EXCEPT ![c] = "asking"]
          /\ UNCHANGED <<agentVars, accepting, overrides>>
    /\ UNCHANGED <<pc, label, pendingVars, expired, draining, emitted, closedEvents, active,
                   policyVars>>

\* Mutant of RenewFails: one failure ends the renewal task.
RenewGivesUp(c) ==
    /\ renewal[c] = "asking"
    /\ renewal' = [renewal EXCEPT ![c] = "off"]
    /\ UNCHANGED <<pc, label, agentVars, pendingVars, accepting, expired, draining, emitted,
                   closedEvents, active, overrides, policyVars>>

\* renew_lease timed out, failed, or answered something invalid: retry later.
RenewFails(c) ==
    /\ renewal[c] = "asking"
    /\ renewal' = [renewal EXCEPT ![c] = "asleep"]
    /\ UNCHANGED <<pc, label, agentVars, pendingVars, accepting, expired, draining, emitted,
                   closedEvents, active, overrides, policyVars>>

\* renew_lease answered: None for a revoked lease, else a later expiry.
Renewed(c) ==
    /\ renewal[c] = "asking"
    /\ \/ /\ ~Current(c)
          /\ renewal' = [renewal EXCEPT ![c] = "off"]
          /\ UNCHANGED <<agentVars, accepting, overrides, expired>>
       \/ /\ Current(c) /\ LeaseOf[c] \in cp.revoke
          /\ renewal' = [renewal EXCEPT ![c] = "off"]
          /\ Retire({c})
          /\ UNCHANGED expired
       \/ /\ Current(c) /\ LeaseOf[c] \notin cp.revoke
          /\ renewal' = [renewal EXCEPT ![c] = "asleep"]
          /\ expired' = expired \ {c}
          /\ UNCHANGED <<agentVars, accepting, overrides>>
    /\ UNCHANGED <<pc, label, pendingVars, draining, emitted, closedEvents, active, policyVars>>

\* _select_agent_for_visitor: what a visitor of label l meets.
Routed(l) == agents[l] # None /\ agents[l] \in accepting /\ agents[l] \notin draining

\* A visitor finds the lease expired.
VisitExpired(l) ==
    /\ Routed(l) /\ agents[l] \in expired
    /\ Retire({agents[l]})
    /\ UNCHANGED <<pc, label, pendingVars, expired, draining, renewal, emitted, closedEvents,
                   active, policyVars>>

\* A visitor is given a stream; nothing is awaited between the choice and mux.open.
Visit(l) ==
    LET a == AccountOf[agents[l]]
    IN /\ Routed(l) /\ agents[l] \notin expired
       /\ active[a] < MaxActive
       /\ active' = [active EXCEPT ![a] = @ + 1]
       /\ UNCHANGED <<pc, label, agentVars, pendingVars, accepting, expired, draining, renewal,
                      emitted, closedEvents, overrides, policyVars>>

\* _release_visitor_budget; a visit may outlive the registration that served it.
VisitEnds(a) ==
    LET left == [active EXCEPT ![a] = @ - 1]
    IN /\ active[a] > 0
       /\ active' = left
       /\ overrides' = IF HasWork(a, accountLabels, pending, left) THEN overrides
                       ELSE overrides \ {a}
       /\ UNCHANGED <<pc, label, agentVars, pendingVars, accepting, expired, draining, renewal,
                      emitted, closedEvents, policyVars>>

-----------------------------------------------------------------------------
(* Policy updates                                                          *)

\* External: the control plane revokes a lease or sets an account's budget.
Publish ==
    /\ cp.version < MaxVersion
    /\ \/ \E x \in Leases \ cp.revoke :
            cp' = [cp EXCEPT !.version = @ + 1, !.revoke = @ \cup {x}]
       \/ \E a \in Accounts \ cp.budgets :
            cp' = [cp EXCEPT !.version = @ + 1, !.budgets = @ \cup {a}]
    /\ UNCHANGED <<pc, label, agentVars, pendingVars, accepting, expired, draining, renewal,
                   emitted, closedEvents, active, overrides, version, poll, revoked>>

\* External: the control plane answers the one poll that is outstanding.
Poll ==
    /\ poll = NoReply /\ cp.version > 0
    /\ poll' = cp
    /\ UNCHANGED <<pc, label, agentVars, pendingVars, accepting, expired, draining, renewal,
                   emitted, closedEvents, active, overrides, version, cp, revoked>>

\* revoke_lease for every lease of the update, then _set_account_budget.
ApplyUpdate(u) ==
    LET act == UNION {ByLease(x, leaseLabels, agents) : x \in u.revoke}
        pend == UNION {ByLease(x, pendingLeases, pending) : x \in u.revoke}
        works(a) == HasWork(a, AccountsWithout(act), PendingWithout(pend), active)
    IN /\ agents' = AgentsWithout(act)
       /\ accountLabels' = AccountsWithout(act)
       /\ leaseLabels' = LeasesWithout(act)
       /\ DropPending(pend)
       /\ accepting' = accepting \ (act \cup pend)
       /\ overrides' = {a \in OverridesWithout(act) \cup u.budgets : a \in u.budgets => works(a)}
       /\ revoked' = revoked \cup act \cup pend
       /\ version' = u.version

\* _apply_policy_update: an update that is not strictly newer is rejected whole.
PolicyReply ==
    /\ poll # NoReply
    /\ poll' = NoReply
    /\ IF poll.version > version
       THEN ApplyUpdate(poll)
       ELSE UNCHANGED <<agentVars, pendingVars, accepting, overrides, revoked, version>>
    /\ UNCHANGED <<pc, label, expired, draining, renewal, emitted, closedEvents, active, cp>>

-----------------------------------------------------------------------------
Serve(c) ==
    \/ SinkAccepts(c) \/ SinkFails(c) \/ Ready(c) \/ ReadyFails(c)
    \/ Deregister(c)

Renew(c) == RenewWakes(c) \/ RenewFails(c) \/ Renewed(c)

Next ==
    \/ \E c \in Conns :
         \/ Admit(c) \/ Reject(c) \/ (\E l \in Labels : Claim(c, l))
         \/ Serve(c) \/ RunEnds(c) \/ Expire(c) \/ AgentGoaway(c) \/ Renew(c)
    \/ \E l \in Labels : Visit(l) \/ VisitExpired(l)
    \/ \E a \in Accounts : VisitEnds(a)
    \/ Publish \/ Poll \/ PolicyReply

Spec == Init /\ [][Next]_vars

\* Sends and the event sink answer or fail in bounded time; the renewal task wakes
\* and its call ends; a lease that the control plane no longer renews runs out.
\* Nothing is assumed of agents, visitors and policy polls.
Fairness ==
    \A c \in Conns :
        /\ WF_vars(Serve(c))
        /\ WF_vars(RenewWakes(c)) /\ WF_vars(RenewFails(c) \/ Renewed(c))
        /\ WF_vars(LeaseOf[c] \in cp.revoke /\ Expire(c))

FairSpec == Spec /\ Fairness

-----------------------------------------------------------------------------
(* Properties                                                              *)

\* The account index and the lease indexes, which claims are counted by and
\* revocations are looked up in, name exactly the registered labels, whichever of
\* install, supersede, retire, revoke and deregister touched them last.
IndexesExact ==
    /\ \A a \in Accounts : accountLabels[a] = {l \in Held : AccountOf[agents[l]] = a}
    /\ \A x \in Leases :
          /\ leaseLabels[x] = {l \in Held : LeaseOf[agents[l]] = x}
          /\ pendingLeases[x] = {l \in Claimed : LeaseOf[pending[l]] = x}

\* PROTOCOL.md 4.5, "same account only": a label that one account holds is never
\* claimed by another, although holder, claim and install are steps apart.
NoTakeover ==
    \A l \in Labels :
        (agents[l] # None /\ pending[l] # None) => AccountOf[agents[l]] = AccountOf[pending[l]]

\* max_agents and max_tunnels hold for what is installed and claimed together,
\* however many handshakes run at once.
WithinLimits ==
    /\ Cardinality(Held \cup Claimed) <= MaxAgents
    /\ \A a \in Accounts : Cardinality(Owned(a)) <= MaxTunnels[a]

\* A tunnel whose revocation was applied while it was claimed or installed never
\* gets (back) into the route table: not by the end of its handshake, and not by
\* a renewal that was under way.
RevokedStaysOut ==
    \A c \in revoked : ~Active(c) /\ ~Pending(c) /\ c \notin accepting

\* Event sinks can pair events: tunnel_closed follows an accepted tunnel_opened, and
\* only that, exactly once on every path out of _serve_agent.
EventsPaired ==
    \A c \in Conns :
        closedEvents[c] = IF pc[c] = "gone" /\ c \in emitted THEN 1 ELSE 0

\* A label is not blocked for ever by a claim ("subdomain_pending"): every
\* handshake installs its claim or withdraws it.
ClaimsResolve == \A c \in Conns : Pending(c) ~> ~Pending(c)

\* A finite lease that the control plane revoked stops attracting visitors, also
\* when the policy update came before the admission's answer and so revoked
\* nothing: the renewal is refused, or the lease runs out.
RevokedLeaseEnds ==
    \A c \in Finite :
        (LeaseOf[c] \in cp.revoke /\ \E l \in Labels : agents[l] = c /\ Routed(l))
            ~> ~(\E l \in Labels : agents[l] = c /\ Routed(l))

=============================================================================
