----------------------------- MODULE PolicyFile -----------------------------
(***************************************************************************)
(* What a policy file says (src/chute/control.py): the parser behind       *)
(* StaticPolicyControlPlane, from the JSON value to a _StaticPolicy, and   *)
(* the relay's own check of a policy update (src/chute/server.py).         *)
(*                                                                         *)
(* A document is Bad or a record of the file's keys.  Bad stands for a     *)
(* value of the wrong JSON type, an empty string, a negative number, an    *)
(* object with an unknown key, text that is not JSON.  Unset is a key that *)
(* is absent, Null is JSON's null.  The two conversions the parser makes   *)
(* are functions: LabelOf lowers and validates a label, HashOf strips      *)
(* "sha256:" and lowers a digest.                                          *)
(***************************************************************************)
EXTENDS Integers, Sequences

CONSTANTS
    Bad, Null, Unset,
    Malformed,      \* a ValueError
    Crash,          \* any other exception
    LabelOf,        \* [written label -> label or Bad]: _optional_label
    HashOf,         \* [written digest -> digest or Bad]: _parse_token_sha256
    MaxCredentials, \* _MAX_POLICY_CREDENTIALS
    MaxRevocations, \* _MAX_POLICY_REVOKE_LEASE_IDS, _MAX_POLICY_LEASE_REVOCATIONS
    MaxBudgets,     \* _MAX_POLICY_ACCOUNT_BUDGETS
    MaxUpdateItems  \* the relay's _MAX_POLICY_UPDATE_... caps, by list

ASSUME PolicyFileAssumption ==
    /\ {MaxCredentials, MaxRevocations, MaxBudgets} \subseteq Nat
    /\ MaxUpdateItems \in [{"revoke", "revocations", "budgets"} -> Nat]

\* The relay takes lists as long as the parser lets through (the caps of server.py
\* and of control.py are equal), and no exception is the absence of one.
ASSUME CapsAssumption ==
    /\ MaxRevocations <= MaxUpdateItems["revoke"]
    /\ MaxRevocations <= MaxUpdateItems["revocations"]
    /\ MaxBudgets <= MaxUpdateItems["budgets"]
    /\ "none" \notin {Malformed, Crash}

NoUpdate == [version |-> 0]

\* A list field is absent, null, of a wrong type, or a JSON array.
IsList(x) == x \in {Bad, Null, Unset} \/ x \in Seq({x[i] : i \in DOMAIN x})

\* What json.loads may return: no document, or one whose list fields are lists.
IsDocument(d) ==
    d # Bad => \A x \in {d.credentials, d.revoke_lease_ids, d.lease_revocations, d.account_budgets} :
                  IsList(x)

-----------------------------------------------------------------------------
(* Fields                                                                  *)

Missing(x) == x \in {Unset, Null}

\* _required_str, _optional_nonnegative_int, _optional_positive_int
RequiredStr(x) == x # Bad /\ ~Missing(x)
OptionalNat(x) == x # Bad
OptionalPositive(x) == Missing(x) \/ (x # Bad /\ x > 0)
RequiredPositive(x) == ~Missing(x) /\ OptionalPositive(x)

\* _optional_label, _parse_token_sha256
Label(x) == IF Missing(x) THEN Null ELSE LabelOf[x]
Digest(x) == IF RequiredStr(x) THEN HashOf[x] ELSE Bad

\* _parse_budget: an object of optional limits; null is no object.
BudgetOk(x) == x \notin {Bad, Null}

\* _duplicates
HasDuplicates(s) == \E i, j \in DOMAIN s : i < j /\ s[i] = s[j]

-----------------------------------------------------------------------------
(* _parse_credentials                                                      *)

\* Mutant of Clashes: digests are compared as they are written.
ClashesAsWritten(a, b) ==
    \/ a.credential_id = b.credential_id
    \/ a.token_sha256 = b.token_sha256
    \/ /\ Label(a.allowed_label) # Null
       /\ Label(a.allowed_label) = Label(b.allowed_label) /\ a.account_id # b.account_id

\* One id or one digest twice, or one label for two accounts.
Clashes(a, b) ==
    \/ a.credential_id = b.credential_id
    \/ Digest(a.token_sha256) = Digest(b.token_sha256)
    \/ /\ Label(a.allowed_label) # Null
       /\ Label(a.allowed_label) = Label(b.allowed_label) /\ a.account_id # b.account_id

\* What the loop body raises for the i-th item, if the items before it were accepted.
\* A null max_tunnels passes _optional_nonnegative_int and fails the assertion.
ItemFault(raw, i) ==
    LET c == raw[i]
    IN IF \/ c = Bad
          \/ ~RequiredStr(c.credential_id) \/ Digest(c.token_sha256) = Bad
          \/ ~RequiredStr(c.account_id) \/ ~OptionalNat(c.max_tunnels)
       THEN Malformed
       ELSE IF c.max_tunnels = Null THEN Crash
       ELSE IF \/ Label(c.allowed_label) = Bad
               \/ ~BudgetOk(c.budget) \/ ~OptionalPositive(c.lease_seconds)
               \/ \E j \in 1 .. i - 1 : Clashes(raw[j], c)
       THEN Malformed ELSE "none"

Credential(c) ==
    [credential_id |-> c.credential_id, token_sha256 |-> Digest(c.token_sha256),
     account_id |-> c.account_id, allowed_label |-> Label(c.allowed_label),
     finite |-> ~Missing(c.lease_seconds)]

ParseCredentials(raw) ==
    IF Missing(raw) \/ raw = Bad \/ raw = <<>> \/ Len(raw) > MaxCredentials THEN Malformed
    ELSE LET faults == {i \in DOMAIN raw : ItemFault(raw, i) # "none"}
             first == CHOOSE i \in faults : \A j \in faults : i <= j
         IN IF faults = {} THEN [i \in DOMAIN raw |-> Credential(raw[i])]
            ELSE ItemFault(raw, first)

-----------------------------------------------------------------------------
(* _parse_policy_update                                                    *)

List(x) == IF x = Unset THEN <<>> ELSE x

ListOk(x, cap) == x \notin {Bad, Null} /\ Len(List(x)) <= cap

Keys(s, field) == [i \in DOMAIN s |-> s[i][field]]

\* _parse_revoke_lease_ids
RevokesOk(x) ==
    /\ ListOk(x, MaxRevocations)
    /\ \A i \in DOMAIN List(x) : RequiredStr(List(x)[i])
    /\ ~HasDuplicates(List(x))

\* _parse_lease_revocations; the action defaults to "drain".
RevocationsOk(x) ==
    /\ ListOk(x, MaxRevocations)
    /\ \A i \in DOMAIN List(x) :
          LET r == List(x)[i]
          IN r # Bad /\ RequiredStr(r.lease_id) /\ r.action \in {"drain", "close", Unset}
    /\ ~HasDuplicates(Keys(List(x), "lease_id"))

\* _parse_account_budget_updates
BudgetsOk(x) ==
    /\ ListOk(x, MaxBudgets)
    /\ \A i \in DOMAIN List(x) :
          LET b == List(x)[i] IN b # Bad /\ RequiredStr(b.account_id) /\ BudgetOk(b.budget)
    /\ ~HasDuplicates(Keys(List(x), "account_id"))

Revocation(r) == [lease_id |-> r.lease_id, action |-> IF r.action = Unset THEN "drain" ELSE r.action]

NoCrossDuplicates(d) ==
    ~HasDuplicates(List(d.revoke_lease_ids) \o Keys(List(d.lease_revocations), "lease_id"))

ParseUpdate(d) ==
    LET empty(x) == List(x) = <<>>
        revocations == List(d.lease_revocations)
    IN IF /\ d.policy_version = Unset /\ d.revoke_lease_ids = Unset
          /\ d.lease_revocations = Unset /\ d.account_budgets = Unset
       THEN NoUpdate
       ELSE IF ~(/\ RequiredPositive(d.policy_version)
                 /\ RevokesOk(d.revoke_lease_ids)
                 /\ RevocationsOk(d.lease_revocations)
                 /\ BudgetsOk(d.account_budgets)
                 /\ NoCrossDuplicates(d))
       THEN Malformed
       ELSE IF empty(d.revoke_lease_ids) /\ empty(d.lease_revocations) /\ empty(d.account_budgets)
       THEN NoUpdate
       ELSE [version |-> d.policy_version, revoke |-> List(d.revoke_lease_ids),
             revocations |-> [i \in DOMAIN revocations |-> Revocation(revocations[i])],
             budgets |-> List(d.account_budgets)]

\* _parse_static_policy_text
Parse(d) ==
    IF d = Bad \/ d.schema_version # 1 THEN Malformed
    ELSE LET credentials == ParseCredentials(d.credentials)
             update == ParseUpdate(d)
         IN IF credentials \in {Malformed, Crash} THEN credentials
            ELSE IF update = Malformed THEN Malformed
            ELSE [credentials |-> credentials, update |-> update]

IsPolicy(p) == p \notin {Malformed, Crash}

-----------------------------------------------------------------------------
\* server.py, _valid_policy_update
ValidUpdate(u, version) ==
    /\ u.version > version
    /\ \A list \in {"revoke", "revocations", "budgets"} : Len(u[list]) <= MaxUpdateItems[list]
    /\ ~HasDuplicates(u.revoke \o Keys(u.revocations, "lease_id"))
    /\ \A i \in DOMAIN u.revocations : u.revocations[i].action \in {"drain", "close"}
    /\ ~HasDuplicates(Keys(u.budgets, "account_id"))
    /\ \A i \in DOMAIN u.budgets : BudgetOk(u.budgets[i].budget)
=============================================================================
