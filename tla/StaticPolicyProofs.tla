------------------------- MODULE StaticPolicyProofs -------------------------
(***************************************************************************)
(* Proofs about StaticPolicy and its parser, for every set of connections, *)
(* every set of documents and every number of files.                       *)
(*                                                                         *)
(* The cache is coherent because of what a fingerprint that is remembered  *)
(* or being read says about its file (Cached, ReadOf); a live lease is     *)
(* known because a call that runs in place leaves no admission half done   *)
(* (InPlace).                                                              *)
(***************************************************************************)
EXTENDS StaticPolicy, WellFoundedInduction, TLAPS

Documents == FirstDocs \cup LaterDocs \cup {Unreadable}
Fingerprints == 1 .. Len(files)

\* Types of the files, the call and the cache.
CacheTypes ==
    /\ files \in Seq(Documents)
    /\ path \in Fingerprints
    /\ goodFp \in Fingerprints \cup {NoFp} /\ badFp \in Fingerprints \cup {NoFp}
    /\ call.kind \in {"none", "start", "admit", "renew", "poll"}
    /\ call.kind = "none" => call = NoCall
    /\ call.kind \in {"admit", "renew"} => call.who \in Conns

\* Types of the relay's side and of the leases.
RelayTypes ==
    /\ wrapped \in BOOLEAN
    /\ pc \in [Conns -> {"idle", "answered", "live", "gone"}]
    /\ lease = [c \in Conns |-> lease[c]]
    /\ leases = [c \in Conns |-> leases[c]]

\* A remembered fingerprint, unless its file was overwritten since, is the one that the
\* verdict was made of.
Cached ==
    /\ goodFp # NoFp /\ files[goodFp] # Unreadable => policy = Parse(files[goodFp])
    /\ badFp # NoFp /\ files[badFp] # Unreadable => Parse(files[badFp]) = Malformed
    /\ path = goodFp => files[path] # Unreadable

\* A read is a call's; while the two fstats would agree, nobody touched its file and
\* the text is the file's.
ReadOf ==
    /\ load = [at |-> load.at, first |-> load.first, now |-> load.now, text |-> load.text]
    /\ load.at = "no" => load = NoLoad
    /\ load.at # "no" =>
          /\ call # NoCall
          /\ load.first \in Fingerprints /\ load.now \in Fingerprints
          /\ load.now = load.first => files[load.now] # Unreadable
          /\ load.at = "read" /\ load.now = load.first => load.text = files[load.now]

\* A call that runs in place leaves no admission answered and not yet claimed.
InPlace == ~wrapped => \A c \in Conns : pc[c] # "answered"

CacheInv == CacheTypes /\ Cached /\ ReadOf
LeaseInv == RelayTypes /\ LiveLeaseKnown /\ InPlace
IInv == CacheInv /\ LeaseInv /\ InForceIsSound

-----------------------------------------------------------------------------
(* The parser                                                              *)

\* A set of positions has a first one: the parser stops at the first item it refuses.
LEMMA FirstExists ==
    ASSUME NEW T, T \subseteq Nat, T # {}
    PROVE  (CHOOSE i \in T : \A j \in T : i <= j) \in T
<1> DEFINE R == {ss \in Nat \X Nat : ss[1] < ss[2]}
<1>1. IsWellFoundedOn(R, Nat)
  BY NatLessThanWellFounded DEF OpToRel
<1>2. PICK x \in T : \A y \in T : ~ (<<y, x>> \in R)
  <2> HIDE DEF R
  <2> QED
    BY <1>1, WFMin
<1>3. SUFFICES ASSUME NEW y \in T PROVE x <= y
  OBVIOUS
<1>4. x \in Nat /\ y \in Nat
  OBVIOUS
<1>5. ~(y < x)
  BY <1>2, <1>4
<1> QED
  BY <1>4, <1>5

\* What the parser says of an item is one of three answers.
LEMMA ThreeAnswers ==
    ASSUME NEW raw, NEW i
    PROVE  ItemFault(raw, i) \in {Malformed, Crash, "none"}
BY DEF ItemFault

\* Credentials that were parsed are distinct in id and in digest, and a label is given
\* to one account.
SoundCredentials(creds) ==
    \A i, j \in DOMAIN creds :
        LET a == creds[i]  b == creds[j]
        IN i # j => /\ a.credential_id # b.credential_id
                    /\ a.token_sha256 # b.token_sha256
                    /\ a.allowed_label \notin {Null, Bad} =>
                          (a.allowed_label = b.allowed_label => a.account_id = b.account_id)

\* _parse_credentials: what it returns without an exception is sound, although the
\* check of one item looks only at those before it, and digests and labels are compared
\* after their conversion.
LEMMA CredentialsSound ==
    ASSUME NEW raw, IsList(raw), ParseCredentials(raw) \notin {Malformed, Crash}
    PROVE  SoundCredentials(ParseCredentials(raw))
<1> DEFINE faults == {i \in DOMAIN raw : ItemFault(raw, i) # "none"}
           first == CHOOSE i \in faults : \A j \in faults : i <= j
<1>1. ~Missing(raw) /\ raw # Bad
  BY DEF ParseCredentials
<1>2. raw \in Seq({raw[i] : i \in DOMAIN raw})
  BY <1>1 DEF IsList, Missing
<1>3. DOMAIN raw \subseteq Nat
  BY <1>2
<1>4. ParseCredentials(raw) = IF faults = {} THEN [i \in DOMAIN raw |-> Credential(raw[i])]
                              ELSE ItemFault(raw, first)
  BY DEF ParseCredentials
<1>5. faults = {}
  <2> SUFFICES ASSUME faults # {} PROVE FALSE
    OBVIOUS
  <2>1. first \in faults
    <3>1. faults \subseteq Nat
      BY <1>3
    <3> HIDE DEF faults
    <3> QED
      BY <3>1, FirstExists
  <2>2. ItemFault(raw, first) # "none"
    BY <2>1
  <2>3. ItemFault(raw, first) \in {Malformed, Crash}
    BY <2>2, ThreeAnswers
  <2> QED
    BY <1>4, <2>3
<1>6. ParseCredentials(raw) = [i \in DOMAIN raw |-> Credential(raw[i])]
  BY <1>4, <1>5
<1>7. \A i, j \in DOMAIN raw : i < j => ~Clashes(raw[i], raw[j])
  <2> SUFFICES ASSUME NEW i \in DOMAIN raw, NEW j \in DOMAIN raw, i < j
               PROVE  ~Clashes(raw[i], raw[j])
    OBVIOUS
  <2>1. ItemFault(raw, j) = "none"
    BY <1>5
  <2>2. i \in 1 .. j - 1
    BY <1>2
  <2> QED
    BY <2>1, <2>2, CapsAssumption DEF ItemFault
<1>8. \A i, j \in DOMAIN raw : i # j => i < j \/ j < i
  BY <1>3
<1> QED
  BY <1>6, <1>7, <1>8 DEF SoundCredentials, Credential, Clashes

\* _parse_policy_update and _valid_policy_update: the relay takes what the parser let
\* through.
LEMMA UpdatesTaken ==
    ASSUME NEW d, IsDocument(d), d # Bad,
           ParseUpdate(d) \notin {Malformed, NoUpdate}
    PROVE  ValidUpdate(ParseUpdate(d), 0)
<1> DEFINE u == ParseUpdate(d)
           revocations == List(d.lease_revocations)
<1>1. /\ RequiredPositive(d.policy_version)
      /\ RevokesOk(d.revoke_lease_ids)
      /\ RevocationsOk(d.lease_revocations)
      /\ BudgetsOk(d.account_budgets)
      /\ NoCrossDuplicates(d)
  BY DEF ParseUpdate
<1>2. u = [version |-> d.policy_version, revoke |-> List(d.revoke_lease_ids),
           revocations |-> [i \in DOMAIN revocations |-> Revocation(revocations[i])],
           budgets |-> List(d.account_budgets)]
  BY <1>1 DEF ParseUpdate
<1>3. \A x \in {d.revoke_lease_ids, d.lease_revocations, d.account_budgets} :
         x \notin {Bad, Null} => List(x) \in Seq({List(x)[i] : i \in DOMAIN List(x)})
  BY DEF IsDocument, IsList, List
<1>4. /\ DOMAIN revocations = 1 .. Len(revocations) /\ Len(revocations) \in Nat
      /\ Len(List(d.revoke_lease_ids)) \in Nat
      /\ Len(List(d.account_budgets)) \in Nat
  BY <1>1, <1>3 DEF RevokesOk, RevocationsOk, BudgetsOk, ListOk
<1>5. DOMAIN u.revocations = DOMAIN revocations /\ Len(u.revocations) = Len(revocations)
  BY <1>2, <1>4
<1>6. Keys(u.revocations, "lease_id") = Keys(revocations, "lease_id")
  BY <1>2, <1>5 DEF Keys, Revocation
<1>7. u.version > 0
  BY <1>1, <1>2 DEF RequiredPositive, OptionalPositive, Missing
<1>8. \A list \in {"revoke", "revocations", "budgets"} : Len(u[list]) <= MaxUpdateItems[list]
  <2>1. /\ Len(List(d.revoke_lease_ids)) <= MaxRevocations /\ Len(revocations) <= MaxRevocations
        /\ Len(List(d.account_budgets)) <= MaxBudgets
    BY <1>1 DEF RevokesOk, RevocationsOk, BudgetsOk, ListOk
  <2>2. /\ u["revoke"] = List(d.revoke_lease_ids) /\ u["budgets"] = List(d.account_budgets)
        /\ Len(u["revocations"]) = Len(revocations)
    BY <1>2, <1>5
  <2> HIDE DEF u, revocations
  <2> QED
    BY <1>4, <2>1, <2>2, CapsAssumption, PolicyFileAssumption
<1>9. ~HasDuplicates(u.revoke \o Keys(u.revocations, "lease_id"))
  BY <1>1, <1>2, <1>6 DEF NoCrossDuplicates
<1>10. \A i \in DOMAIN u.revocations : u.revocations[i].action \in {"drain", "close"}
  BY <1>1, <1>2 DEF RevocationsOk, Revocation
<1>11. /\ ~HasDuplicates(Keys(u.budgets, "account_id"))
       /\ \A i \in DOMAIN u.budgets : BudgetOk(u.budgets[i].budget)
  BY <1>1, <1>2 DEF BudgetsOk
<1> HIDE DEF u
<1>12. ValidUpdate(u, 0)
  BY <1>7, <1>8, <1>9, <1>10, <1>11 DEF ValidUpdate
<1> QED
  BY <1>12 DEF u

\* Whatever a document says, the policy it is parsed to is sound.
LEMMA ParsedIsSound ==
    ASSUME NEW d, IsDocument(d), IsPolicy(Parse(d))
    PROVE  /\ SoundCredentials(Parse(d).credentials)
           /\ Parse(d).update # NoUpdate => ValidUpdate(Parse(d).update, 0)
<1>1. /\ d # Bad
      /\ ParseCredentials(d.credentials) \notin {Malformed, Crash}
      /\ ParseUpdate(d) # Malformed
      /\ Parse(d) = [credentials |-> ParseCredentials(d.credentials), update |-> ParseUpdate(d)]
  BY DEF Parse, IsPolicy
<1>2. SoundCredentials(ParseCredentials(d.credentials))
  BY <1>1, CredentialsSound DEF IsDocument
<1>3. ParseUpdate(d) # NoUpdate => ValidUpdate(ParseUpdate(d), 0)
  BY <1>1, UpdatesTaken
<1> QED
  BY <1>1, <1>2, <1>3

-----------------------------------------------------------------------------
(* Leases                                                                  *)

\* Whatever a call finds in the policy, it leaves the leases in order.
LEMMA FinishKeeps ==
    ASSUME NEW p, LeaseInv, CacheTypes, call # NoCall, Finish(p), wrapped' = wrapped
    PROVE  LeaseInv'
<1> USE DEF LeaseInv, RelayTypes, LiveLeaseKnown, InPlace, Live
<1>1. CASE call.kind = "start"
  BY <1>1 DEF Finish, relayVars
<1>2. CASE call.kind = "admit"
  <2>1. call.who \in Conns /\ FinishAdmit(call.who, p)
    BY <1>2 DEF Finish, CacheTypes
  <2> QED
    BY <2>1 DEF FinishAdmit
<1>3. CASE call.kind = "renew"
  <2>1. call.who \in Conns /\ FinishRenew(call.who, p)
    BY <1>3 DEF Finish, CacheTypes
  <2> QED
    BY <2>1 DEF FinishRenew, Answer
<1>4. CASE call.kind = "poll"
  <2>1. FinishPoll(p)
    BY <1>4 DEF Finish
  <2> QED
    BY <2>1 DEF FinishPoll, Apply
<1> QED
  BY <1>1, <1>2, <1>3, <1>4 DEF CacheTypes

\* So does a call that raises.
LEMMA AbandonKeeps ==
    ASSUME LeaseInv, CacheTypes, Abandon, wrapped' = wrapped
    PROVE  LeaseInv'
BY DEF Abandon, LeaseInv, RelayTypes, LiveLeaseKnown, InPlace, Live, CacheTypes

\* The operator, the reads and the relay keep the leases in order.
LEMMA LeaseStep ==
    ASSUME LeaseInv, CacheInv, [Next]_vars
    PROVE  LeaseInv'
<1> USE DEF LeaseInv, RelayTypes, LiveLeaseKnown, InPlace, Live
<1>1. CASE UNCHANGED <<wrapped, pc, lease, leases>>
  BY <1>1
<1>2. CASE LoadError /\ UNCHANGED wrapped /\ call # NoCall
  BY <1>2, FinishKeeps, AbandonKeeps DEF LoadError, CacheInv
<1>3. CASE OpenFile
  BY <1>1, <1>2, <1>3 DEF OpenFile, relayVars
<1>4. CASE LoadFile
  <2>1. call # NoCall
    BY <1>4 DEF LoadFile, CacheInv, ReadOf
  <2>2. \/ LoadError \/ Abandon
        \/ \E p : Finish(p)
    BY <1>4 DEF LoadFile
  <2> QED
    BY <1>2, <1>4, <2>1, <2>2, FinishKeeps, AbandonKeeps DEF LoadFile, CacheInv
<1>5. ASSUME NEW c \in Conns, Claim(c) \/ Leave(c) \/ Renew(c) \/ RenewAnswer(c)
      PROVE  LeaseInv'
  BY <1>5 DEF Claim, Leave, Renew, RenewAnswer, Answer
<1>6. CASE Poll \/ PollRuns
  BY <1>6 DEF Poll, PollRuns, RunPoll, PruneInactive, relayVars
<1>7. CASE PollAnswer
  BY <1>7 DEF PollAnswer, Apply
<1>8. CASE Operator
  BY <1>1, <1>8 DEF Operator, Replace, Overwrite, Restore, relayVars
<1>9. CASE ReadText \/ Start \/ \E c \in Conns : Admit(c)
  BY <1>1, <1>9 DEF ReadText, Start, Admit, relayVars
<1>10. CASE UNCHANGED vars
  BY <1>1, <1>10 DEF vars, relayVars
<1> QED
  BY <1>3, <1>4, <1>5, <1>6, <1>7, <1>8, <1>9, <1>10 DEF Next, Reading

-----------------------------------------------------------------------------
(* The cache                                                               *)

\* A write makes a file that nobody has read, and an overwritten one is lost to the cache
\* and to a read under way.
LEMMA OperatorKeeps ==
    ASSUME CacheInv, Operator
    PROVE  CacheInv'
<1> USE DEF CacheInv, CacheTypes, Cached, ReadOf, Fingerprints, NoFp
<1> DEFINE n == Len(files)
<1>1. n \in Nat /\ UNCHANGED <<call, policy, goodFp, badFp>>
  BY DEF Operator, Replace, Overwrite, Restore, cacheVars
<1>2. ASSUME NEW d \in LaterDocs, Replace(d)
      PROVE  CacheInv'
  <2>1. /\ files' \in Seq(Documents) /\ Len(files') = n + 1 /\ path' = n + 1 /\ load' = load
        /\ \A i \in 1 .. n : files'[i] = files[i]
    BY <1>2 DEF Replace, Documents
  <2> QED
    BY <1>1, <2>1
<1>3. ASSUME NEW d \in LaterDocs, Overwrite(d)
      PROVE  CacheInv'
  <2>1. /\ files' \in Seq(Documents) /\ Len(files') = n + 1 /\ path' = n + 1
        /\ \A i \in 1 .. n : files'[i] = IF i = path THEN Unreadable ELSE files[i]
    <3> DEFINE g == [files EXCEPT ![path] = Unreadable]
    <3>1. g \in Seq(Documents) /\ Len(g) = n
      BY DEF Documents
    <3>2. \A i \in 1 .. n : g[i] = IF i = path THEN Unreadable ELSE files[i]
      OBVIOUS
    <3>3. files' = Append(g, d) /\ path' = n + 1 /\ d \in Documents
      BY <1>3 DEF Overwrite, Documents
    <3> HIDE DEF g
    <3> QED
      BY <1>1, <3>1, <3>2, <3>3
  <2>2. load' = IF load.now = path THEN [load EXCEPT !.now = n + 1] ELSE load
    BY <1>3 DEF Overwrite
  <2>3. CacheTypes' /\ Cached'
    BY <1>1, <2>1
  <2>4. ReadOf'
    <3>1. CASE load.now = path
      <4>1. load.at # "no" /\ load.now # n + 1 /\ load.first # n + 1
        BY <1>1, <3>1 DEF NoLoad
      <4>2. load' = [at |-> load.at, first |-> load.first, now |-> n + 1, text |-> load.text]
        BY <2>2, <3>1
      <4> QED
        BY <1>1, <2>1, <4>1, <4>2
    <3>2. CASE load.now # path
      BY <1>1, <2>1, <2>2, <3>2
    <3> QED
      BY <3>1, <3>2
  <2> QED
    BY <2>3, <2>4
<1>4. ASSUME NEW i \in DOMAIN files, Restore(i)
      PROVE  CacheInv'
  BY <1>1, <1>4 DEF Restore
<1> QED
  BY <1>2, <1>3, <1>4 DEF Operator

\* A call that returns lets go of the file.
LEMMA ReturnKeeps ==
    ASSUME Return
    PROVE  /\ ReadOf'
           /\ call'.kind = "none" /\ call' = NoCall
BY DEF Return, ReadOf, NoLoad, NoCall

\* What a read leaves in the cache is what the file says, and it is sound.
LEMMA ReadingKeeps ==
    ASSUME CacheInv, InForceIsSound, Reading
    PROVE  CacheInv' /\ InForceIsSound'
<1> USE DEF CacheInv, CacheTypes, Cached, Fingerprints, NoFp
<1>1. UNCHANGED <<files, path>>
  BY DEF Reading, OpenFile, ReadText, LoadFile, fileVars
<1>2. CASE Return /\ UNCHANGED cacheVars
  BY <1>1, <1>2, ReturnKeeps DEF cacheVars, InForceIsSound
<1>3. CASE OpenFile
  <2>1. CASE files[path] = Unreadable
    BY <1>2, <1>3, <2>1 DEF OpenFile, LoadError, cacheVars
  <2>2. CASE files[path] # Unreadable
    <3>1. /\ load' = [at |-> "opened", first |-> path, now |-> path, text |-> Null]
          /\ call # NoCall /\ UNCHANGED <<call, policy, goodFp, badFp>>
      BY <1>3, <2>2 DEF OpenFile, NoLoad, cacheVars
    <3>2. ReadOf'
      BY <1>1, <2>2, <3>1 DEF ReadOf
    <3> QED
      BY <1>1, <3>1, <3>2 DEF InForceIsSound
  <2> QED
    BY <2>1, <2>2
<1>4. CASE ReadText
  <2>1. /\ load.at = "opened"
        /\ load' = [at |-> "read", first |-> load.first, now |-> load.now, text |-> files[load.now]]
        /\ UNCHANGED <<call, policy, goodFp, badFp>>
    BY <1>4 DEF ReadText, ReadOf, cacheVars
  <2>2. ReadOf'
    BY <1>1, <2>1 DEF ReadOf
  <2> QED
    BY <1>1, <2>1, <2>2 DEF InForceIsSound
<1>5. CASE LoadFile
  <2> DEFINE fp == load.now
  <2>1. CASE UNCHANGED cacheVars
    <3>1. Return
      BY <1>5 DEF LoadFile, LoadError
    <3> QED
      BY <1>2, <2>1, <3>1
  <2>2. CASE ~UNCHANGED cacheVars
    <3>1. load.at = "read" /\ load.now = load.first
      BY <1>5, <2>2 DEF LoadFile, LoadError, Unchanged, cacheVars
    <3>2. /\ fp \in 1 .. Len(files) /\ files[fp] # Unreadable /\ load.text = files[fp]
      BY <3>1 DEF ReadOf
    <3>3. Return
      BY <1>5 DEF LoadFile, LoadError
    <3>4. \/ /\ Parse(files[fp]) = Malformed /\ badFp' = fp
             /\ UNCHANGED <<policy, goodFp>>
          \/ /\ IsPolicy(Parse(files[fp]))
             /\ policy' = Parse(files[fp]) /\ goodFp' = fp /\ badFp' = NoFp
      BY <1>5, <2>2, <3>1, <3>2 DEF LoadFile, LoadError, Unchanged, cacheVars, IsPolicy
    <3>5. CacheInv'
      BY <1>1, <3>2, <3>3, <3>4, ReturnKeeps
    <3>6. IsDocument(files[fp])
      <4>1. files[fp] \in Documents
        BY <3>2
      <4> QED
        BY <3>2, <4>1, DocumentsAssumption DEF Documents
    <3>7. InForceIsSound'
      BY <3>4, <3>6, ParsedIsSound DEF InForceIsSound, SoundCredentials
    <3> QED
      BY <3>5, <3>7
  <2> QED
    BY <2>1, <2>2
<1> QED
  BY <1>3, <1>4, <1>5 DEF Reading

\* The relay starts calls and leaves the cache to them.
LEMMA CacheStep ==
    ASSUME CacheInv, InForceIsSound, [Next]_vars
    PROVE  CacheInv' /\ InForceIsSound'
<1> USE DEF CacheInv, CacheTypes, Cached, ReadOf, Fingerprints, InForceIsSound, vars, fileVars,
            cacheVars
<1>1. CASE UNCHANGED <<files, path, load, policy, goodFp, badFp, call>>
  BY <1>1
<1>2. ASSUME UNCHANGED <<files, path, load, policy, goodFp, badFp>>, call = NoCall,
             \/ call'.kind \in {"start", "poll"}
             \/ call'.kind \in {"admit", "renew"} /\ call'.who \in Conns
      PROVE  CacheInv' /\ InForceIsSound'
  BY <1>2 DEF NoLoad, NoCall
<1>3. CASE Operator
  <2>1. UNCHANGED policy
    BY <1>3 DEF Operator, Replace, Overwrite, Restore
  <2> QED
    BY <1>3, <2>1, OperatorKeeps
<1>4. CASE Reading
  BY <1>4, ReadingKeeps
<1>5. CASE Start \/ Poll \/ PollRuns
  BY <1>1, <1>2, <1>5 DEF Start, Poll, PollRuns, RunPoll, Idle, NoCall
<1>6. ASSUME NEW c \in Conns, Admit(c) \/ Renew(c)
      PROVE  CacheInv' /\ InForceIsSound'
  BY <1>1, <1>2, <1>6 DEF Admit, Renew, Idle
<1>7. CASE PollAnswer \/ \E c \in Conns : Claim(c) \/ Leave(c) \/ RenewAnswer(c)
  BY <1>1, <1>7 DEF PollAnswer, Claim, Leave, RenewAnswer
<1> QED
  BY <1>1, <1>3, <1>4, <1>5, <1>6, <1>7 DEF Next

-----------------------------------------------------------------------------
(* The invariant                                                           *)

\* A relay that is being started has remembered nothing.
LEMMA PolicyInit == Init => IInv
<1> SUFFICES ASSUME Init PROVE IInv
  OBVIOUS
<1>1. PICK d \in FirstDocs : files = <<d>>
  BY DEF Init
<1>2. files \in Seq(Documents) /\ Len(files) = 1
  BY <1>1 DEF Documents
<1>3. CacheInv
  BY <1>2 DEF Init, CacheInv, CacheTypes, Cached, ReadOf, Fingerprints, NoFp, NoCall, NoLoad
<1>4. LeaseInv
  BY StaticPolicyAssumption DEF Init, LeaseInv, RelayTypes, LiveLeaseKnown, InPlace, Live
<1> QED
  BY <1>3, <1>4 DEF IInv, Init, InForceIsSound

\* The inductive invariant holds in every reachable state.
LEMMA PolicyInvariant == Spec => []IInv
<1>1. IInv /\ [Next]_vars => IInv'
  BY LeaseStep, CacheStep DEF IInv
<1> QED
  BY PolicyInit, <1>1, PTL DEF Spec

\* _load_policy: a fingerprint that is remembered stands for the verdict on the file that
\* has it, for any number of files moved into place, overwritten during a read or
\* moved back.
THEOREM CacheStaysCoherent == Spec => []CacheCoherent
<1>1. IInv => CacheCoherent
  BY DEF IInv, CacheInv, CacheTypes, Cached, Fingerprints, NoFp, CacheCoherent, OnDisk
<1> QED
  BY PolicyInvariant, <1>1, PTL

\* _parse_static_policy_text: whatever documents the operator writes, the policy in force
\* has no two credentials that clash, and its update passes the relay's own check.
THEOREM PolicyInForceIsSound == Spec => []InForceIsSound
<1>1. IInv => InForceIsSound
  BY DEF IInv
<1> QED
  BY PolicyInvariant, <1>1, PTL

\* _prune_inactive_leases: where calls run in place, no live finite lease is forgotten,
\* for any number of connections.
THEOREM LiveLeasesStayKnown == Spec => []LiveLeaseKnown
<1>1. IInv => LiveLeaseKnown
  BY DEF IInv, LeaseInv
<1> QED
  BY PolicyInvariant, <1>1, PTL
=============================================================================
