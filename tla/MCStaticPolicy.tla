--------------------------- MODULE MCStaticPolicy ---------------------------
\* Model-checking instances of StaticPolicy: two agents, of accounts A and B, and an
\* operator who makes every kind of mistake.
EXTENDS StaticPolicy, TLC

CONSTANTS c1, c2

LabelOf_ == "dev" :> "dev" @@ "Dev" :> "dev" @@ "-" :> Bad
HashOf_ == "h1" :> "h1" @@ "H1" :> "h1" @@ "h2" :> "h2" @@ "h3" :> "h3" @@ "xyz" :> Bad
TokenHash_ == c1 :> "h1" @@ c2 :> "h2"
Items_ == [list \in {"revoke", "revocations", "budgets"} |-> 2]

Cred(id, hash, account) ==
    [credential_id |-> id, token_sha256 |-> hash, account_id |-> account, max_tunnels |-> Unset,
     allowed_label |-> Unset, budget |-> Unset, lease_seconds |-> 60]
One == Cred("one", "H1", "A")
Two == Cred("two", "h2", "B")

Doc(creds) ==
    [schema_version |-> 1, credentials |-> creds, policy_version |-> Unset,
     revoke_lease_ids |-> Unset, lease_revocations |-> Unset, account_budgets |-> Unset]
Good == Doc(<<One, Two>>)

\* The first credential changes: gone, a new token, no longer renewed.
Removed == Doc(<<Two>>)
Rotated == Doc(<<Cred("one", "h3", "A"), Two>>)
Endless == Doc(<<[One EXCEPT !.lease_seconds = Unset], Two>>)

\* Updates of versions 1 and 2.
Revoking ==
    [Good EXCEPT !.policy_version = 1, !.revoke_lease_ids = <<c1>>,
                 !.lease_revocations = <<[lease_id |-> c2, action |-> Unset]>>]
Budgets == <<[account_id |-> "A", budget |-> Unset]>>
Budgeting == [Good EXCEPT !.policy_version = 2, !.account_budgets = Budgets]

\* Files that the parser has to refuse, one mistake each.
Mistakes ==
    {Bad, Unreadable, [Good EXCEPT !.schema_version = 2],
     Doc(Bad), Doc(<<>>), Doc(<<One, Two, Cred("three", "h3", "A")>>), Doc(<<One, Bad>>),
     Doc(<<One, Cred("one", "h2", "A")>>), Doc(<<One, Cred("two", "h1", "A")>>),
     Doc(<<Cred(Unset, "h1", "A")>>), Doc(<<Cred("one", "xyz", "A")>>), Doc(<<Cred("one", "h1", Bad)>>),
     Doc(<<[One EXCEPT !.max_tunnels = Bad]>>), Doc(<<[One EXCEPT !.budget = Null]>>),
     Doc(<<[One EXCEPT !.lease_seconds = 0]>>), Doc(<<[One EXCEPT !.allowed_label = "-"]>>),
     Doc(<<[One EXCEPT !.allowed_label = "dev"], [Two EXCEPT !.allowed_label = "Dev"]>>),
     [Good EXCEPT !.policy_version = 1, !.revoke_lease_ids = Bad],
     [Good EXCEPT !.revoke_lease_ids = <<c1>>],
     [Good EXCEPT !.policy_version = 1, !.revoke_lease_ids = <<c1, c1>>],
     [Good EXCEPT !.policy_version = 1, !.revoke_lease_ids = <<c1, c2, "x">>],
     [Revoking EXCEPT !.revoke_lease_ids = <<c2>>],
     [Revoking EXCEPT !.lease_revocations = <<[lease_id |-> c2, action |-> Bad]>>],
     [Budgeting EXCEPT !.account_budgets = Budgets \o Budgets]}

\* Correct files: an update without content, a label that two credentials of one
\* account share.
Harmless ==
    {[Good EXCEPT !.policy_version = 1],
     Doc(<<[One EXCEPT !.allowed_label = "dev"],
           [Two EXCEPT !.allowed_label = "Dev", !.account_id = "A"]>>)}

\* A null where the parser's messages allow one.
NullTunnels == Doc(<<[One EXCEPT !.max_tunnels = Null], Two>>)

AnyFirst == Mistakes \cup Harmless \cup {Good}
LiveEdits == {Bad, Removed, Rotated, Endless, Revoking, Budgeting, NullTunnels}
OnlyGood == {Good}
NullEdit == {NullTunnels}
=============================================================================
