--------------------------- MODULE RegistryProofs ---------------------------
(***************************************************************************)
(* Proofs about Registry, for every set of connections, labels, accounts   *)
(* and leases and for every limit.                                         *)
(*                                                                         *)
(* The properties are not inductive one by one.  They rest on where a      *)
(* handler is when its connection is found in a table (Placed), on what    *)
(* was emitted before the claim (NothingAnnounced), and on a revoked       *)
(* connection being past its claim (RevokedPast).                          *)
(***************************************************************************)
EXTENDS Registry, FiniteSetTheorems, TLAPS

Updates == [version : Nat, revoke : SUBSET Leases, budgets : SUBSET Accounts]

\* Types of the server's tables and of the control plane's answers.
TypeOK ==
    /\ pc \in [Conns -> {"idle", "admitted", "opening", "readying", "running", "ending", "gone"}]
    /\ label \in [Conns -> Labels \cup {None}]
    /\ agents \in [Labels -> Conns \cup {None}]
    /\ pending \in [Labels -> Conns \cup {None}]
    /\ accountLabels \in [Accounts -> SUBSET Labels]
    /\ leaseLabels \in [Leases -> SUBSET Labels]
    /\ pendingLeases \in [Leases -> SUBSET Labels]
    /\ accepting \subseteq Conns /\ expired \subseteq Conns /\ draining \subseteq Conns
    /\ renewal \in [Conns -> {"off", "asleep", "asking"}]
    /\ emitted \subseteq Conns
    /\ closedEvents \in [Conns -> Nat]
    /\ active \in [Accounts -> Nat]
    /\ overrides \subseteq Accounts
    /\ version \in Nat
    /\ poll \in Updates /\ cp \in Updates
    /\ revoked \subseteq Conns

\* A connection in the route table is served under its own label, one in the table
\* of claims is in the middle of its handshake under its own label.
Placed ==
    /\ \A l \in Labels : agents[l] # None =>
          label[agents[l]] = l /\ pc[agents[l]] \in {"running", "ending"}
    /\ \A l \in Labels : pending[l] # None =>
          label[pending[l]] = l /\ pc[pending[l]] \in {"opening", "readying"}
    /\ \A c \in Conns : pc[c] \in {"opening", "readying"} => label[c] \in Labels

\* No opening event before the claim and the sink's answer.
NothingAnnounced ==
    \A c \in Conns : pc[c] \in {"idle", "admitted", "opening"} => c \notin emitted

\* A revocation finds only connections that have made their claim.
RevokedPast == \A c \in revoked : pc[c] \notin {"idle", "admitted"}

Tables == TypeOK /\ Placed /\ IndexesExact /\ NoTakeover /\ WithinLimits

IInv ==
    /\ Tables
    /\ EventsPaired /\ NothingAnnounced
    /\ RevokedStaysOut /\ RevokedPast

-----------------------------------------------------------------------------
(* What the operators of the registry do                                   *)

\* The sets that the limits count are finite.
LEMMA CountedAreFinite ==
  ASSUME TypeOK
  PROVE  /\ IsFiniteSet(Held) /\ IsFiniteSet(Claimed) /\ IsFiniteSet(Held \cup Claimed)
         /\ \A a \in Accounts : IsFiniteSet(Owned(a))
<1>1. \A S \in SUBSET Labels : IsFiniteSet(S)
  BY RegistryAssumption, FS_Subset
<1>2. /\ Held \in SUBSET Labels /\ Claimed \in SUBSET Labels /\ Held \cup Claimed \in SUBSET Labels
      /\ \A a \in Accounts : Owned(a) \in SUBSET Labels
  BY DEF Held, Claimed, Owned, TypeOK
<1> QED BY <1>1, <1>2

\* Limits survive a step that adds no label to what is counted.
LEMMA LimitsShrink ==
  ASSUME TypeOK, WithinLimits,
         (Held \cup Claimed)' \subseteq Held \cup Claimed,
         \A a \in Accounts : Owned(a)' \subseteq Owned(a)
  PROVE  WithinLimits'
<1>1. Cardinality((Held \cup Claimed)') <= MaxAgents
  <2>1. /\ IsFiniteSet(Held \cup Claimed) /\ (Held \cup Claimed)' \in SUBSET (Held \cup Claimed)
    BY CountedAreFinite
  <2>2. /\ IsFiniteSet((Held \cup Claimed)')
        /\ Cardinality((Held \cup Claimed)') <= Cardinality(Held \cup Claimed)
    BY <2>1, FS_Subset
  <2>3. Cardinality((Held \cup Claimed)') \in Nat /\ Cardinality(Held \cup Claimed) \in Nat
    BY <2>1, <2>2, FS_CardinalityType
  <2> QED BY <2>2, <2>3, RegistryAssumption DEF WithinLimits
<1>2. ASSUME NEW a \in Accounts PROVE Cardinality(Owned(a)') <= MaxTunnels[a]
  <2>1. IsFiniteSet(Owned(a)) /\ Owned(a)' \in SUBSET Owned(a)
    BY CountedAreFinite
  <2>2. IsFiniteSet(Owned(a)') /\ Cardinality(Owned(a)') <= Cardinality(Owned(a))
    BY <2>1, FS_Subset
  <2>3. Cardinality(Owned(a)') \in Nat /\ Cardinality(Owned(a)) \in Nat /\ MaxTunnels[a] \in Nat
    BY <2>1, <2>2, FS_CardinalityType, RegistryAssumption
  <2> QED BY <2>2, <2>3 DEF WithinLimits
<1> QED BY <1>1, <1>2 DEF WithinLimits

\* Connections S leave the route table and T the table of claims: the indexes follow,
\* nothing is taken over and the limits hold.
LEMMA Withdrawal ==
  ASSUME TypeOK, IndexesExact, NoTakeover, WithinLimits,
         NEW S \in SUBSET Conns, NEW T \in SUBSET Conns,
         agents' = AgentsWithout(S), accountLabels' = AccountsWithout(S),
         leaseLabels' = LeasesWithout(S), DropPending(T)
  PROVE  /\ agents' \in [Labels -> Conns \cup {None}]
         /\ pending' \in [Labels -> Conns \cup {None}]
         /\ accountLabels' \in [Accounts -> SUBSET Labels]
         /\ leaseLabels' \in [Leases -> SUBSET Labels]
         /\ pendingLeases' \in [Leases -> SUBSET Labels]
         /\ \A l \in Labels : /\ agents'[l] = IF agents[l] \in S THEN None ELSE agents[l]
                              /\ pending'[l] = IF pending[l] \in T THEN None ELSE pending[l]
         /\ IndexesExact' /\ NoTakeover' /\ WithinLimits'
<1> USE RegistryAssumption
<1>1. /\ agents' \in [Labels -> Conns \cup {None}]
      /\ pending' \in [Labels -> Conns \cup {None}]
      /\ accountLabels' \in [Accounts -> SUBSET Labels]
      /\ leaseLabels' \in [Leases -> SUBSET Labels]
      /\ pendingLeases' \in [Leases -> SUBSET Labels]
  BY DEF TypeOK, AgentsWithout, AccountsWithout, LeasesWithout, DropPending, PendingWithout
<1>2. \A l \in Labels : /\ agents'[l] = IF agents[l] \in S THEN None ELSE agents[l]
                        /\ pending'[l] = IF pending[l] \in T THEN None ELSE pending[l]
  BY DEF AgentsWithout, DropPending, PendingWithout
<1>3. IndexesExact'
  <2>1. ASSUME NEW a \in Accounts
        PROVE  accountLabels'[a] = {l \in Held' : AccountOf[agents'[l]] = a}
    BY <1>2 DEF TypeOK, IndexesExact, AccountsWithout, Held
  <2>2. ASSUME NEW x \in Leases
        PROVE  leaseLabels'[x] = {l \in Held' : LeaseOf[agents'[l]] = x}
    BY <1>2 DEF TypeOK, IndexesExact, LeasesWithout, Held
  <2>3. ASSUME NEW x \in Leases
        PROVE  pendingLeases'[x] = {l \in Claimed' : LeaseOf[pending'[l]] = x}
    BY <1>2 DEF TypeOK, IndexesExact, DropPending, Claimed
  <2> QED BY <2>1, <2>2, <2>3 DEF IndexesExact
<1>4. NoTakeover'
  BY <1>2 DEF NoTakeover
<1>5. (Held \cup Claimed)' \subseteq Held \cup Claimed
  BY <1>2 DEF Held, Claimed
<1>6. \A a \in Accounts : Owned(a)' \subseteq Owned(a)
  BY <1>2, <1>3 DEF TypeOK, IndexesExact, Owned, Held, Claimed
<1> QED BY <1>1, <1>2, <1>3, <1>4, <1>5, <1>6, LimitsShrink

-----------------------------------------------------------------------------
(* The invariant                                                           *)

\* Initially all tables are empty.
LEMMA RegistryInit == Init => IInv
<1> SUFFICES ASSUME Init PROVE IInv
  OBVIOUS
<1> USE RegistryAssumption
<1>1. TypeOK
  BY DEF Init, TypeOK, NoReply, Updates
<1>2. Placed /\ NothingAnnounced /\ EventsPaired /\ RevokedPast /\ RevokedStaysOut /\ NoTakeover
  BY DEF Init, Placed, NothingAnnounced, EventsPaired, RevokedPast, RevokedStaysOut, NoTakeover
<1>3. Held = {} /\ Claimed = {} /\ \A a \in Accounts : Owned(a) = {}
  BY DEF Init, Held, Claimed, Owned
<1>4. IndexesExact
  BY <1>3 DEF Init, IndexesExact
<1>5. Held \cup Claimed = {} /\ Cardinality({}) = 0
  BY <1>3, FS_EmptySet
<1>6. WithinLimits
  BY <1>3, <1>5 DEF WithinLimits
<1> QED BY <1>1, <1>2, <1>4, <1>6 DEF IInv, Tables

\* A step that leaves the tables and indexes alone keeps what is said of them.
LEMMA TablesKept ==
  ASSUME Tables, TypeOK', Placed', UNCHANGED <<agentVars, pendingVars>>
  PROVE  Tables'
<1>1. UNCHANGED <<Held, Claimed>> /\ \A a \in Accounts : Owned(a)' = Owned(a)
  BY DEF Held, Claimed, Owned, agentVars, pendingVars
<1>2. IndexesExact' /\ NoTakeover'
  BY <1>1 DEF Tables, IndexesExact, NoTakeover, agentVars, pendingVars
<1>3. WithinLimits'
  BY <1>1 DEF Tables, WithinLimits
<1> QED BY <1>2, <1>3 DEF Tables

\* Nothing of the registry changes but what the invariant does not speak of.
LEMMA Untouched ==
  ASSUME IInv, TypeOK',
         UNCHANGED <<pc, label, agentVars, pendingVars, accepting, emitted, closedEvents, revoked>>
  PROVE  IInv'
<1>1. Placed'
  BY DEF IInv, Tables, Placed, agentVars, pendingVars
<1>2. Tables'
  BY <1>1, TablesKept DEF IInv
<1>3. EventsPaired' /\ NothingAnnounced' /\ RevokedPast'
  BY DEF IInv, EventsPaired, NothingAnnounced, RevokedPast
<1>4. RevokedStaysOut'
  BY DEF IInv, RevokedStaysOut, Active, Pending, agentVars, pendingVars
<1> QED BY <1>2, <1>3, <1>4 DEF IInv

\* Retirement of connections S, as by an expired or refused lease.
LEMMA RetireKeeps ==
  ASSUME IInv, NEW S \in SUBSET Conns, Retire(S), TypeOK',
         UNCHANGED <<pc, label, pendingVars, emitted, closedEvents, revoked>>
  PROVE  IInv'
<1> USE RegistryAssumption
<1>1. DropPending({})
  BY DEF DropPending, PendingWithout, pendingVars, IInv, Tables, TypeOK
<1>2. /\ IndexesExact' /\ NoTakeover' /\ WithinLimits'
      /\ \A l \in Labels : agents'[l] = IF agents[l] \in S THEN None ELSE agents[l]
  BY <1>1, Withdrawal DEF Retire, RemoveAgents, IInv, Tables
<1>3. Placed'
  BY <1>2 DEF IInv, Tables, Placed, pendingVars
<1>4. EventsPaired' /\ NothingAnnounced' /\ RevokedPast'
  BY DEF IInv, EventsPaired, NothingAnnounced, RevokedPast
<1>5. RevokedStaysOut'
  BY <1>2 DEF IInv, Tables, TypeOK, RevokedStaysOut, Active, Pending, Retire, pendingVars
<1> QED BY <1>2, <1>3, <1>4, <1>5 DEF IInv, Tables

\* A claim: one more label is counted, within both limits.
LEMMA ClaimKeeps ==
  ASSUME IInv, NEW c \in Conns, NEW l \in Labels, Claim(c, l)
  PROVE  IInv'
<1> USE RegistryAssumption
<1>1. /\ pc[c] = "admitted" /\ MayClaim(c, l)
      /\ pc' \in {[pc EXCEPT ![c] = "opening"], [pc EXCEPT ![c] = "readying"]}
      /\ pc'[c] = "opening" => emitted' = emitted
      /\ label' = [label EXCEPT ![c] = l]
      /\ pending' = [pending EXCEPT ![l] = c]
      /\ pendingLeases' = [pendingLeases EXCEPT ![LeaseOf[c]] = @ \cup {l}]
      /\ emitted' \in {emitted, emitted \cup {c}}
      /\ UNCHANGED <<agentVars, accepting, expired, draining, renewal, closedEvents, active,
                     overrides, policyVars>>
  BY DEF Claim, IInv, Tables, TypeOK
<1>2. TypeOK'
  BY <1>1 DEF IInv, Tables, TypeOK, agentVars, policyVars
<1>3. c \notin revoked /\ ~Pending(c) /\ ~Active(c)
  BY <1>1 DEF IInv, Tables, TypeOK, RevokedPast, Placed, Pending, Active
<1>4. Placed'
  BY <1>1, <1>3 DEF IInv, Tables, TypeOK, Placed, Pending, Active, agentVars
<1>5. Claimed' = Claimed \cup {l} /\ Held' = Held
  BY <1>1 DEF IInv, Tables, TypeOK, Claimed, Held, agentVars
<1>6. IndexesExact'
  <2>1. \A a \in Accounts : accountLabels'[a] = {m \in Held' : AccountOf[agents'[m]] = a}
    BY <1>1, <1>5 DEF IInv, Tables, IndexesExact, agentVars
  <2>2. \A x \in Leases : leaseLabels'[x] = {m \in Held' : LeaseOf[agents'[m]] = x}
    BY <1>1, <1>5 DEF IInv, Tables, IndexesExact, agentVars
  <2>3. pending[l] = None
    BY <1>1 DEF MayClaim
  <2>4. \A x \in Leases : pendingLeases'[x] = {m \in Claimed' : LeaseOf[pending'[m]] = x}
    BY <1>1, <1>5, <2>3 DEF IInv, Tables, TypeOK, IndexesExact, Claimed
  <2> QED BY <2>1, <2>2, <2>4 DEF IndexesExact
<1>7. NoTakeover'
  BY <1>1 DEF IInv, Tables, TypeOK, NoTakeover, MayClaim, agentVars
<1>8. Cardinality((Held \cup Claimed)') <= MaxAgents
  <2>1. (Held \cup Claimed)' = (Held \cup Claimed) \cup {l}
    BY <1>5
  <2>2. IsFiniteSet(Held) /\ IsFiniteSet(Claimed) /\ IsFiniteSet(Held \cup Claimed)
    BY CountedAreFinite DEF IInv, Tables
  <2>3. CASE agents[l] # None
    <3>1. l \in Held
      BY <2>3 DEF Held
    <3> QED BY <2>1, <3>1 DEF IInv, Tables, WithinLimits
  <2>4. CASE agents[l] = None
    <3>1. Cardinality(Held) + Cardinality(Claimed) < MaxAgents
      BY <1>1, <2>4 DEF MayClaim
    <3>2. /\ Cardinality(Held \cup Claimed) =
                 Cardinality(Held) + Cardinality(Claimed) - Cardinality(Held \cap Claimed)
          /\ IsFiniteSet(Held \cap Claimed)
      BY <2>2, FS_Union, FS_Intersection
    <3>3. Cardinality((Held \cup Claimed)') <= Cardinality(Held \cup Claimed) + 1
      <4>1. Cardinality((Held \cup Claimed) \cup {l})
              = IF l \in Held \cup Claimed THEN Cardinality(Held \cup Claimed)
                ELSE Cardinality(Held \cup Claimed) + 1
        BY <2>2, FS_AddElement
      <4>2. Cardinality(Held \cup Claimed) \in Nat
        BY <2>2, FS_CardinalityType
      <4>3. Cardinality((Held \cup Claimed)') = Cardinality((Held \cup Claimed) \cup {l})
        BY <2>1, Zenon
      <4> QED BY <4>1, <4>2, <4>3
    <3>4. /\ Cardinality(Held) \in Nat /\ Cardinality(Claimed) \in Nat
          /\ Cardinality(Held \cap Claimed) \in Nat /\ Cardinality(Held \cup Claimed) \in Nat
      BY <2>2, <3>2, FS_CardinalityType
    <3>5. Cardinality((Held \cup Claimed)') \in Nat
      BY <2>1, <2>2, FS_AddElement, FS_CardinalityType
    <3> QED BY <3>1, <3>2, <3>3, <3>4, <3>5
  <2> QED BY <2>3, <2>4
<1>9. ASSUME NEW a \in Accounts PROVE Cardinality(Owned(a)') <= MaxTunnels[a]
  <2>1. Owned(a)' = IF a = AccountOf[c] THEN Owned(a) \cup {l} ELSE Owned(a)
    BY <1>1, <1>5 DEF IInv, Tables, TypeOK, Owned, Claimed, agentVars, MayClaim
  <2>2. IsFiniteSet(Owned(a)) /\ Cardinality(Owned(a)) \in Nat
    BY CountedAreFinite, FS_CardinalityType DEF IInv, Tables
  <2>3. Cardinality(Owned(a)) <= MaxTunnels[a] /\ MaxTunnels[a] \in Nat
    BY DEF IInv, Tables, WithinLimits
  <2>4. CASE a # AccountOf[c] \/ l \in Owned(a)
    <3>1. Owned(a)' = Owned(a)
      BY <2>1, <2>4
    <3> QED BY <2>3, <3>1
  <2>5. CASE a = AccountOf[c] /\ l \notin Owned(a)
    <3>1. Cardinality(Owned(a)) < MaxTunnels[a]
      BY <1>1, <2>5 DEF MayClaim
    <3>2. Cardinality(Owned(a)') = Cardinality(Owned(a)) + 1
      BY <2>1, <2>2, <2>5, FS_AddElement
    <3> QED BY <2>2, <2>3, <3>1, <3>2
  <2> QED BY <2>4, <2>5
<1>10. WithinLimits'
  BY <1>8, <1>9 DEF WithinLimits
<1>11. EventsPaired' /\ NothingAnnounced' /\ RevokedPast'
  BY <1>1 DEF IInv, Tables, TypeOK, EventsPaired, NothingAnnounced, RevokedPast, policyVars
<1>12. RevokedStaysOut'
  BY <1>1, <1>3 DEF IInv, Tables, TypeOK, RevokedStaysOut, Active, Pending, agentVars, policyVars
<1> QED BY <1>2, <1>4, <1>6, <1>7, <1>10, <1>11, <1>12 DEF IInv, Tables

\* An install: the label moves from the claims to the route table, the counts stay.
LEMMA InstallKeeps ==
  ASSUME IInv, NEW c \in Conns, pc[c] = "readying", pending[label[c]] = c,
         Install(c), pc' = [pc EXCEPT ![c] = "running"], accepting' = accepting \cup {c},
         renewal' = [renewal EXCEPT ![c] = IF c \in Finite THEN "asleep" ELSE "off"],
         UNCHANGED <<closedEvents, label, expired, draining, emitted, active, policyVars>>
  PROVE  IInv'
<1> USE RegistryAssumption
<1> DEFINE l == label[c]
           old == agents[l]
<1>1. l \in Labels /\ pending[l] = c /\ c # None
  BY DEF IInv, Tables, Placed
<1>2. old # None => old \in Conns /\ AccountOf[old] = AccountOf[c]
  BY <1>1 DEF IInv, Tables, TypeOK, NoTakeover
<1>3. /\ agents' = [agents EXCEPT ![l] = c]
      /\ accountLabels' = [accountLabels EXCEPT ![AccountOf[c]] = @ \cup {l}]
      /\ leaseLabels' = [x \in Leases |->
                            (IF old # None /\ LeaseOf[old] = x THEN leaseLabels[x] \ {l}
                             ELSE leaseLabels[x]) \cup (IF LeaseOf[c] = x THEN {l} ELSE {})]
      /\ overrides' = overrides
      /\ DropPending({c})
  BY <1>2 DEF Install
<1>4. \A m \in Labels : m # l => pending[m] # c /\ agents[m] # c
  BY <1>1 DEF IInv, Tables, Placed
<1>5. pending' = [pending EXCEPT ![l] = None]
  BY <1>1, <1>3, <1>4 DEF DropPending, PendingWithout, IInv, Tables, TypeOK
<1>6. pendingLeases' \in [Leases -> SUBSET Labels]
  BY <1>3 DEF DropPending, IInv, Tables, TypeOK
<1>7. TypeOK'
  BY <1>1, <1>3, <1>5, <1>6 DEF IInv, Tables, TypeOK, policyVars
<1>8. Placed'
  BY <1>1, <1>3, <1>4, <1>5 DEF IInv, Tables, TypeOK, Placed
<1>9. Held' = Held \cup {l} /\ Claimed' = Claimed \ {l}
  BY <1>1, <1>3, <1>5 DEF IInv, Tables, TypeOK, Held, Claimed
<1>10. IndexesExact'
  <2>1. ASSUME NEW a \in Accounts
        PROVE  accountLabels'[a] = {m \in Held' : AccountOf[agents'[m]] = a}
    BY <1>1, <1>2, <1>3, <1>9 DEF IInv, Tables, TypeOK, IndexesExact, Held
  <2>2. ASSUME NEW x \in Leases
        PROVE  leaseLabels'[x] = {m \in Held' : LeaseOf[agents'[m]] = x}
    BY <1>1, <1>2, <1>3, <1>9 DEF IInv, Tables, TypeOK, IndexesExact, Held
  <2>3. ASSUME NEW x \in Leases
        PROVE  pendingLeases'[x] = {m \in Claimed' : LeaseOf[pending'[m]] = x}
    <3>1. {m \in Labels : pending[m] \in {c} /\ LeaseOf[pending[m]] = x}
              = IF LeaseOf[c] = x THEN {l} ELSE {}
      BY <1>1, <1>4
    <3>2. pendingLeases'[x] = pendingLeases[x] \ (IF LeaseOf[c] = x THEN {l} ELSE {})
      BY <1>3, <3>1 DEF DropPending
    <3>3. pendingLeases[x] = {m \in Claimed : LeaseOf[pending[m]] = x}
      BY DEF IInv, Tables, IndexesExact
    <3>4. \A m \in Claimed' : pending'[m] = pending[m]
      BY <1>1, <1>5, <1>9 DEF Claimed, IInv, Tables, TypeOK
    <3> QED BY <1>1, <1>9, <3>2, <3>3, <3>4
  <2> QED BY <2>1, <2>2, <2>3 DEF IndexesExact
<1>11. NoTakeover'
  BY <1>1, <1>3, <1>5 DEF IInv, Tables, TypeOK, NoTakeover
<1>12. WithinLimits'
  <2>1. l \in Claimed /\ (Held \cup Claimed)' \subseteq Held \cup Claimed
    BY <1>1, <1>9 DEF Claimed
  <2>2. \A a \in Accounts : Owned(a)' \subseteq Owned(a)
    BY <1>1, <1>3, <1>5, <1>9 DEF IInv, Tables, TypeOK, Owned, Claimed
  <2> QED BY <2>1, <2>2, LimitsShrink DEF IInv, Tables
<1>13. EventsPaired' /\ NothingAnnounced' /\ RevokedPast'
  BY DEF IInv, Tables, TypeOK, EventsPaired, NothingAnnounced, RevokedPast, policyVars
<1>14. c \notin revoked
  BY <1>1 DEF IInv, RevokedStaysOut, Pending
<1>15. RevokedStaysOut'
  BY <1>1, <1>3, <1>5, <1>14
  DEF IInv, Tables, TypeOK, RevokedStaysOut, Active, Pending, policyVars
<1> QED BY <1>7, <1>8, <1>10, <1>11, <1>12, <1>13, <1>15 DEF IInv, Tables

\* A handler takes back its claim, or finds it withdrawn, or never made one: the end.
LEMMA HandshakeEnds ==
  ASSUME IInv, NEW c \in Conns, pc[c] \in {"admitted", "opening", "readying"}, Gone(c),
         \/ DropPending({c})
         \/ UNCHANGED pendingVars /\ ~Pending(c),
         \/ c \in emitted' /\ closedEvents' = [closedEvents EXCEPT ![c] = @ + 1]
         \/ c \notin emitted' /\ UNCHANGED closedEvents,
         emitted' \in {emitted, emitted \cup {c}},
         UNCHANGED <<label, agentVars, accepting, expired, draining, renewal, active,
                     overrides, policyVars>>
  PROVE  IInv'
<1> USE RegistryAssumption
<1>1. DropPending({c})
  BY DEF DropPending, PendingWithout, pendingVars, Pending, IInv, Tables, TypeOK
<1>2. /\ agents' = AgentsWithout({}) /\ accountLabels' = AccountsWithout({})
      /\ leaseLabels' = LeasesWithout({})
  BY DEF AgentsWithout, AccountsWithout, LeasesWithout, agentVars, IInv, Tables, TypeOK
<1>3. /\ IndexesExact' /\ NoTakeover' /\ WithinLimits'
      /\ pending' \in [Labels -> Conns \cup {None}]
      /\ pendingLeases' \in [Leases -> SUBSET Labels]
      /\ \A m \in Labels : pending'[m] = IF pending[m] \in {c} THEN None ELSE pending[m]
  BY <1>1, <1>2, Withdrawal DEF IInv, Tables
<1>4. TypeOK'
  BY <1>3 DEF IInv, Tables, TypeOK, Gone, agentVars, policyVars
<1>5. ~Active(c)
  BY DEF IInv, Tables, Placed, Active
<1>6. Placed'
  BY <1>3, <1>5 DEF IInv, Tables, TypeOK, Placed, Gone, Active, agentVars
<1>7. EventsPaired' /\ NothingAnnounced' /\ RevokedPast'
  BY DEF IInv, Tables, TypeOK, EventsPaired, NothingAnnounced, RevokedPast, Gone, policyVars
<1>8. RevokedStaysOut'
  BY <1>3 DEF IInv, Tables, TypeOK, RevokedStaysOut, Active, Pending, agentVars, policyVars
<1> QED BY <1>3, <1>4, <1>6, <1>7, <1>8 DEF IInv, Tables

\* A policy update: the leases it revokes lose their tunnels and their claims.
LEMMA UpdateKeeps ==
  ASSUME IInv, NEW u \in Updates, ApplyUpdate(u), poll' = NoReply,
         UNCHANGED <<pc, label, expired, draining, renewal, emitted, closedEvents, active, cp>>
  PROVE  IInv'
<1> USE RegistryAssumption
<1> DEFINE act == UNION {ByLease(x, leaseLabels, agents) : x \in u.revoke}
           pend == UNION {ByLease(x, pendingLeases, pending) : x \in u.revoke}
<1>1. act \in SUBSET Conns /\ pend \in SUBSET Conns
  BY DEF ByLease
<1>2. /\ agents' = AgentsWithout(act) /\ accountLabels' = AccountsWithout(act)
      /\ leaseLabels' = LeasesWithout(act) /\ DropPending(pend)
      /\ accepting' = accepting \ (act \cup pend)
      /\ revoked' = revoked \cup act \cup pend
      /\ version' = u.version
  BY DEF ApplyUpdate
<1>3. overrides' \subseteq Accounts
  BY DEF ApplyUpdate, OverridesWithout, IInv, Tables, TypeOK, Updates
<1> HIDE DEF act, pend
<1>4. /\ agents' \in [Labels -> Conns \cup {None}]
      /\ pending' \in [Labels -> Conns \cup {None}]
      /\ accountLabels' \in [Accounts -> SUBSET Labels]
      /\ leaseLabels' \in [Leases -> SUBSET Labels]
      /\ pendingLeases' \in [Leases -> SUBSET Labels]
      /\ \A l \in Labels : /\ agents'[l] = IF agents[l] \in act THEN None ELSE agents[l]
                           /\ pending'[l] = IF pending[l] \in pend THEN None ELSE pending[l]
      /\ IndexesExact' /\ NoTakeover' /\ WithinLimits'
  BY <1>1, <1>2, Withdrawal DEF IInv, Tables
<1>5. TypeOK'
  BY <1>1, <1>2, <1>3, <1>4 DEF IInv, Tables, TypeOK, Updates, NoReply
<1>6. Placed'
  BY <1>4 DEF IInv, Tables, TypeOK, Placed
<1>7. EventsPaired' /\ NothingAnnounced'
  BY DEF IInv, EventsPaired, NothingAnnounced
<1>8. (\A c \in act : Active(c)) /\ (\A c \in pend : Pending(c))
  BY DEF act, pend, ByLease, Active, Pending, IInv, Tables, TypeOK, Updates
<1>9. RevokedPast'
  BY <1>1, <1>2, <1>8 DEF IInv, Tables, Placed, RevokedPast, Active, Pending
<1>10. \A c \in act : ~Pending(c)
  BY <1>1, <1>8 DEF IInv, Tables, Placed, Active, Pending
<1>11. \A c \in pend : ~Active(c)
  BY <1>1, <1>8 DEF IInv, Tables, Placed, Active, Pending
<1>12. RevokedStaysOut'
  BY <1>1, <1>2, <1>4, <1>10, <1>11 DEF IInv, Tables, TypeOK, RevokedStaysOut, Active, Pending
<1> QED BY <1>4, <1>5, <1>6, <1>7, <1>9, <1>12 DEF IInv, Tables

\* Every step preserves the invariant: one step per action of the module.
LEMMA RegistryStep == IInv /\ [Next]_vars => IInv'
<1> SUFFICES ASSUME IInv, [Next]_vars PROVE IInv'
  OBVIOUS
<1> USE RegistryAssumption
<1>1. ASSUME NEW c \in Conns, Admit(c) PROVE IInv'
  <2>1. /\ pc[c] = "idle" /\ pc' = [pc EXCEPT ![c] = "admitted"]
        /\ UNCHANGED <<label, agentVars, pendingVars, accepting, expired, draining, renewal,
                       emitted, closedEvents, active, overrides, policyVars>>
    BY <1>1 DEF Admit
  <2>2. TypeOK'
    BY <2>1 DEF IInv, Tables, TypeOK, agentVars, pendingVars, policyVars
  <2>3. Placed'
    BY <2>1 DEF IInv, Tables, TypeOK, Placed, agentVars, pendingVars
  <2>4. EventsPaired' /\ NothingAnnounced' /\ RevokedPast'
    BY <2>1 DEF IInv, Tables, TypeOK, EventsPaired, NothingAnnounced, RevokedPast, policyVars
  <2>5. RevokedStaysOut'
    BY <2>1 DEF IInv, RevokedStaysOut, Active, Pending, agentVars, pendingVars, policyVars
  <2> QED BY <2>1, <2>2, <2>3, <2>4, <2>5, TablesKept DEF IInv
<1>2. ASSUME NEW c \in Conns, Reject(c) PROVE IInv'
  <2>1. c \notin emitted /\ ~Pending(c)
    BY <1>2 DEF Reject, IInv, Tables, NothingAnnounced, Placed, Pending
  <2> QED BY <1>2, <2>1, HandshakeEnds DEF Reject
<1>3. ASSUME NEW c \in Conns, NEW l \in Labels, Claim(c, l) PROVE IInv'
  BY <1>3, ClaimKeeps
<1>4. ASSUME NEW c \in Conns, SinkAccepts(c) PROVE IInv'
  <2>1. /\ pc[c] = "opening" /\ emitted' = emitted \cup {c}
        /\ UNCHANGED <<label, agentVars, pendingVars, accepting, expired, draining, renewal,
                       active, overrides, policyVars>>
    BY <1>4 DEF SinkAccepts
  <2>2. CASE pending[label[c]] = c
    <3>1. pc' = [pc EXCEPT ![c] = "readying"] /\ UNCHANGED closedEvents
      BY <1>4, <2>2 DEF SinkAccepts
    <3>2. TypeOK'
      BY <2>1, <3>1 DEF IInv, Tables, TypeOK, agentVars, pendingVars, policyVars
    <3>3. Placed'
      BY <2>1, <3>1 DEF IInv, Tables, TypeOK, Placed, agentVars, pendingVars
    <3>4. EventsPaired' /\ NothingAnnounced' /\ RevokedPast'
      BY <2>1, <3>1 DEF IInv, Tables, TypeOK, EventsPaired, NothingAnnounced, RevokedPast, policyVars
    <3>5. RevokedStaysOut'
      BY <2>1 DEF IInv, RevokedStaysOut, Active, Pending, agentVars, pendingVars, policyVars
    <3> QED BY <2>1, <3>2, <3>3, <3>4, <3>5, TablesKept DEF IInv
  <2>3. CASE pending[label[c]] # c
    <3>1. Gone(c) /\ closedEvents' = [closedEvents EXCEPT ![c] = @ + 1]
      BY <1>4, <2>3 DEF SinkAccepts
    <3>2. ~Pending(c)
      BY <2>3 DEF IInv, Tables, Placed, Pending
    <3> QED BY <2>1, <3>1, <3>2, HandshakeEnds
  <2> QED BY <2>2, <2>3
<1>5. ASSUME NEW c \in Conns, SinkFails(c) PROVE IInv'
  <2>1. c \notin emitted
    BY <1>5 DEF SinkFails, IInv, NothingAnnounced
  <2> QED BY <1>5, <2>1, HandshakeEnds DEF SinkFails
<1>6. ASSUME NEW c \in Conns, Ready(c) PROVE IInv'
  <2>1. CASE pending[label[c]] = c
    BY <1>6, <2>1, InstallKeeps DEF Ready
  <2>2. CASE pending[label[c]] # c
    <3>1. ~Pending(c)
      BY <2>2 DEF IInv, Tables, Placed, Pending
    <3>2. closedEvents' = IF c \in emitted THEN [closedEvents EXCEPT ![c] = @ + 1] ELSE closedEvents
      BY <1>6, <2>2 DEF Ready, EmitClosed, IInv, Tables, TypeOK
    <3> QED BY <1>6, <2>2, <3>1, <3>2, HandshakeEnds DEF Ready
  <2> QED BY <2>1, <2>2
<1>7. ASSUME NEW c \in Conns, ReadyFails(c) PROVE IInv'
  <2>1. closedEvents' = IF c \in emitted THEN [closedEvents EXCEPT ![c] = @ + 1] ELSE closedEvents
    BY <1>7 DEF ReadyFails, EmitClosed, IInv, Tables, TypeOK
  <2> QED BY <1>7, <2>1, HandshakeEnds DEF ReadyFails
<1>8. ASSUME NEW c \in Conns, RunEnds(c) PROVE IInv'
  <2>1. /\ pc[c] = "running" /\ pc' = [pc EXCEPT ![c] = "ending"]
        /\ renewal' = [renewal EXCEPT ![c] = "off"]
        /\ UNCHANGED <<label, agentVars, pendingVars, accepting, expired, draining, emitted,
                       closedEvents, active, overrides, policyVars>>
    BY <1>8 DEF RunEnds
  <2>2. TypeOK'
    BY <2>1 DEF IInv, Tables, TypeOK, agentVars, pendingVars, policyVars
  <2>3. Placed'
    BY <2>1 DEF IInv, Tables, TypeOK, Placed, agentVars, pendingVars
  <2>4. EventsPaired' /\ NothingAnnounced' /\ RevokedPast'
    BY <2>1 DEF IInv, Tables, TypeOK, EventsPaired, NothingAnnounced, RevokedPast, policyVars
  <2>5. RevokedStaysOut'
    BY <2>1 DEF IInv, RevokedStaysOut, Active, Pending, agentVars, pendingVars, policyVars
  <2> QED BY <2>1, <2>2, <2>3, <2>4, <2>5, TablesKept DEF IInv
<1>9. ASSUME NEW c \in Conns, Deregister(c) PROVE IInv'
  <2> DEFINE S == {c}
  <2>0. S \in SUBSET Conns /\ \A d : d \in S <=> d = c
    OBVIOUS
  <2>1. /\ pc[c] = "ending" /\ pc' = [pc EXCEPT ![c] = "gone"]
        /\ closedEvents' = [closedEvents EXCEPT ![c] = IF c \in emitted THEN @ + 1 ELSE @]
        /\ agents' = AgentsWithout(S) /\ accountLabels' = AccountsWithout(S)
        /\ leaseLabels' = LeasesWithout(S) /\ overrides' \subseteq overrides
        /\ UNCHANGED <<label, pendingVars, accepting, expired, draining, renewal, emitted,
                       active, policyVars>>
    BY <1>9 DEF Deregister, Gone, EmitClosed, RemoveAgents, OverridesWithout
  <2> HIDE DEF S
  <2>2. DropPending({})
    BY <2>1 DEF DropPending, PendingWithout, pendingVars, IInv, Tables, TypeOK
  <2>3. /\ IndexesExact' /\ NoTakeover' /\ WithinLimits'
        /\ agents' \in [Labels -> Conns \cup {None}]
        /\ accountLabels' \in [Accounts -> SUBSET Labels]
        /\ leaseLabels' \in [Leases -> SUBSET Labels]
        /\ \A l \in Labels : agents'[l] = IF agents[l] \in S THEN None ELSE agents[l]
    BY <2>0, <2>1, <2>2, Withdrawal DEF IInv, Tables
  <2>4. TypeOK'
    BY <2>1, <2>3 DEF IInv, Tables, TypeOK, pendingVars, policyVars
  <2>5. Placed'
    BY <2>0, <2>1, <2>3 DEF IInv, Tables, TypeOK, Placed, pendingVars
  <2>6. EventsPaired' /\ NothingAnnounced' /\ RevokedPast'
    BY <2>1 DEF IInv, Tables, TypeOK, EventsPaired, NothingAnnounced, RevokedPast, policyVars
  <2>7. RevokedStaysOut'
    BY <2>1, <2>3 DEF IInv, Tables, TypeOK, RevokedStaysOut, Active, Pending, pendingVars, policyVars
  <2> QED BY <2>3, <2>4, <2>5, <2>6, <2>7 DEF IInv, Tables
<1>10. ASSUME NEW c \in Conns, Expire(c) \/ AgentGoaway(c) \/ RenewFails(c) PROVE IInv'
  <2>1. TypeOK'
    BY <1>10 DEF Expire, AgentGoaway, RenewFails, IInv, Tables, TypeOK, agentVars, pendingVars, policyVars
  <2> QED BY <1>10, <2>1, Untouched DEF Expire, AgentGoaway, RenewFails, policyVars
<1>11. ASSUME NEW c \in Conns, RenewWakes(c) \/ Renewed(c) PROVE IInv'
  <2>1. CASE Retire({c})
    <3>1. /\ agents' \in [Labels -> Conns \cup {None}]
          /\ accountLabels' \in [Accounts -> SUBSET Labels]
          /\ leaseLabels' \in [Leases -> SUBSET Labels]
          /\ accepting' \subseteq accepting /\ overrides' \subseteq overrides
      BY <2>1 DEF Retire, RemoveAgents, AgentsWithout, AccountsWithout, LeasesWithout,
                  OverridesWithout, IInv, Tables, TypeOK
    <3>2. /\ renewal' \in [Conns -> {"off", "asleep", "asking"}] /\ expired' \subseteq Conns
          /\ UNCHANGED <<pc, label, pendingVars, draining, emitted, closedEvents, active, policyVars>>
      BY <1>11 DEF RenewWakes, Renewed, IInv, Tables, TypeOK
    <3>3. TypeOK'
      BY <3>1, <3>2 DEF IInv, Tables, TypeOK, pendingVars, policyVars
    <3> QED BY <2>1, <3>2, <3>3, RetireKeeps DEF policyVars
  <2>2. CASE UNCHANGED <<agentVars, accepting, overrides>>
    <3>1. TypeOK'
      BY <1>11, <2>2 DEF RenewWakes, Renewed, IInv, Tables, TypeOK, agentVars, pendingVars, policyVars
    <3> QED BY <1>11, <2>2, <3>1, Untouched DEF RenewWakes, Renewed, policyVars
  <2> QED BY <1>11, <2>1, <2>2 DEF RenewWakes, Renewed
<1>12. ASSUME NEW l \in Labels, VisitExpired(l) PROVE IInv'
  <2>1. agents[l] \in Conns /\ Retire({agents[l]})
    BY <1>12 DEF VisitExpired, Routed, IInv, Tables, TypeOK
  <2>2. TypeOK'
    BY <1>12, <2>1 DEF VisitExpired, Retire, RemoveAgents, AgentsWithout, AccountsWithout,
                       LeasesWithout, OverridesWithout, IInv, Tables, TypeOK, pendingVars, policyVars
  <2> QED BY <1>12, <2>1, <2>2, RetireKeeps DEF VisitExpired, policyVars
<1>13. ASSUME NEW l \in Labels, Visit(l) PROVE IInv'
  <2>1. TypeOK'
    BY <1>13 DEF Visit, Routed, IInv, Tables, TypeOK, agentVars, pendingVars, policyVars
  <2> QED BY <1>13, <2>1, Untouched DEF Visit, policyVars
<1>14. ASSUME NEW a \in Accounts, VisitEnds(a) PROVE IInv'
  <2>1. TypeOK'
    BY <1>14 DEF VisitEnds, IInv, Tables, TypeOK, agentVars, pendingVars, policyVars
  <2> QED BY <1>14, <2>1, Untouched DEF VisitEnds, policyVars
<1>15. CASE Publish \/ Poll
  <2>1. cp' \in Updates /\ poll' \in Updates
    <3>1. CASE Publish
      <4>1. cp \in Updates /\ poll \in Updates
        BY DEF IInv, Tables, TypeOK
      <4>2. poll' = poll
        BY <3>1 DEF Publish
      <4>3. CASE \E x \in Leases \ cp.revoke :
                   cp' = [cp EXCEPT !.version = @ + 1, !.revoke = @ \cup {x}]
        <5>1. PICK x \in Leases \ cp.revoke :
                cp' = [cp EXCEPT !.version = @ + 1, !.revoke = @ \cup {x}]
          BY <4>3
        <5>2. cp.version + 1 \in Nat /\ cp.revoke \cup {x} \in SUBSET Leases
          BY <4>1 DEF Updates
        <5> QED BY <4>1, <4>2, <5>1, <5>2 DEF Updates
      <4>4. CASE \E a \in Accounts \ cp.budgets :
                   cp' = [cp EXCEPT !.version = @ + 1, !.budgets = @ \cup {a}]
        <5>1. PICK a \in Accounts \ cp.budgets :
                cp' = [cp EXCEPT !.version = @ + 1, !.budgets = @ \cup {a}]
          BY <4>4
        <5>2. cp.version + 1 \in Nat /\ cp.budgets \cup {a} \in SUBSET Accounts
          BY <4>1 DEF Updates
        <5> QED BY <4>1, <4>2, <5>1, <5>2 DEF Updates
      <4> QED BY <3>1, <4>3, <4>4 DEF Publish
    <3>2. CASE Poll
      BY <3>2 DEF Poll, IInv, Tables, TypeOK
    <3> QED BY <1>15, <3>1, <3>2
  <2>2. TypeOK'
    BY <1>15, <2>1 DEF Publish, Poll, IInv, Tables, TypeOK, agentVars, pendingVars
  <2> QED BY <1>15, <2>2, Untouched DEF Publish, Poll
<1>16. CASE PolicyReply
  <2>1. CASE poll.version > version
    BY <1>16, <2>1, UpdateKeeps DEF PolicyReply, IInv, Tables, TypeOK
  <2>2. CASE ~(poll.version > version)
    <3>1. TypeOK'
      BY <1>16, <2>2 DEF PolicyReply, IInv, Tables, TypeOK, Updates, NoReply, agentVars, pendingVars
    <3> QED BY <1>16, <2>2, <3>1, Untouched DEF PolicyReply
  <2> QED BY <2>1, <2>2
<1>17. CASE UNCHANGED vars
  <2>1. TypeOK'
    BY <1>17 DEF IInv, Tables, TypeOK, vars, agentVars, pendingVars, policyVars
  <2> QED BY <1>17, <2>1, Untouched DEF vars, policyVars
<1> QED
  BY <1>1, <1>2, <1>3, <1>4, <1>5, <1>6, <1>7, <1>8, <1>9, <1>10, <1>11, <1>12, <1>13, <1>14,
     <1>15, <1>16, <1>17
  DEF Next, Serve, Renew

\* The invariant holds in every state of every behaviour of the registry.
LEMMA RegistryInvariant == Spec => []IInv
<1>1. Init => IInv
  BY RegistryInit
<1>2. IInv /\ [Next]_vars => IInv'
  BY RegistryStep
<1> QED BY <1>1, <1>2, PTL DEF Spec

-----------------------------------------------------------------------------
(* Theorems                                                                *)

\* _account_labels, _lease_labels and _pending_lease_labels name exactly the labels in
\* the route table and in the table of claims, whichever path touched them last.
THEOREM IndexesStayExact == Spec => []IndexesExact
<1>1. IInv => IndexesExact
  BY DEF IInv, Tables
<1> QED BY <1>1, RegistryInvariant, PTL

\* No interleaving of handshakes lets an account claim a label that another one holds.
THEOREM NobodyIsTakenOver == Spec => []NoTakeover
<1>1. IInv => NoTakeover
  BY DEF IInv, Tables
<1> QED BY <1>1, RegistryInvariant, PTL

\* max_agents and max_tunnels hold for any number of handshakes at once.
THEOREM LimitsHold == Spec => []WithinLimits
<1>1. IInv => WithinLimits
  BY DEF IInv, Tables
<1> QED BY <1>1, RegistryInvariant, PTL

\* A revoked tunnel never comes back: not by its handshake, not by a renewal.
THEOREM RevocationIsFinal == Spec => []RevokedStaysOut
<1>1. IInv => RevokedStaysOut
  BY DEF IInv
<1> QED BY <1>1, RegistryInvariant, PTL

\* tunnel_closed follows an accepted tunnel_opened exactly once, on every path.
THEOREM EventsPairUp == Spec => []EventsPaired
<1>1. IInv => EventsPaired
  BY DEF IInv
<1> QED BY <1>1, RegistryInvariant, PTL
=============================================================================
