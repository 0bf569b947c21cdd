---------------------------- MODULE StaticPolicy ----------------------------
(***************************************************************************)
(* The file-backed control plane (src/chute/control.py,                    *)
(* StaticPolicyControlPlane) between an operator who edits the policy file *)
(* and the relay that asks it to admit agents, to renew leases and for     *)
(* policy updates (src/chute/server.py).                                   *)
(*                                                                         *)
(* Each call of the control plane is synchronous: it holds the event loop  *)
(* while it reads the file, and only the operator moves meanwhile.  How    *)
(* the relay hands a call over depends on the interpreter.  From Python    *)
(* 3.12, asyncio.wait_for runs it in place, and its caller goes on in the  *)
(* same stretch.  In 3.11, which the project supports, the call is a task  *)
(* of its own: other tasks run between the request and the call, and       *)
(* between the call and the moment its caller hears the answer.            *)
(*                                                                         *)
(* A lease id is the connection it was issued to.                          *)
(***************************************************************************)
EXTENDS PolicyFile, FiniteSets

CONSTANTS
    Conns,      \* agent connections, each admitted at most once
    TokenHash,  \* [Conns -> digest of the agent's token]
    NoConn,
    FirstDocs,  \* the policy files a relay may find when it is started
    LaterDocs,  \* what the operator writes later
    Unreadable, \* a file that is missing, too large, not private or not owned
    Wrapped,    \* subset of BOOLEAN: whether wait_for makes a task of each call
    MaxFiles    \* bound: files written

ASSUME StaticPolicyAssumption ==
    /\ Wrapped \subseteq BOOLEAN /\ Wrapped # {}
    /\ NoConn \notin Conns
    /\ MaxFiles \in Nat \ {0}

ASSUME DocumentsAssumption ==
    \A d \in (FirstDocs \cup LaterDocs) \ {Unreadable} : IsDocument(d)

VARIABLES
    files,    \* external: [fingerprint -> content]; a write makes a new fingerprint
    path,     \* external: the fingerprint of the file that the path names
    wrapped,  \* does wait_for make tasks?
    up,       \* the relay has a control plane
    call,     \* the call that holds the event loop
    load,     \* its read of the file
    policy,   \* _policy
    goodFp,   \* _policy_fingerprint
    badFp,    \* _bad_policy_fingerprint
    leases,   \* [conn -> its _LeaseState in _leases, or Null]
    pc,       \* [conn -> the relay's side: "idle", "answered", "live", "gone"]
    lease,    \* [conn -> the credential of its registration, or Null]
    renewal,  \* [conn -> "idle", or an answer on its way: "refused", "renewed"]
    poll,     \* the poll under way
    version,  \* _policy_version of the relay
    raised    \* history: a call failed although a policy had been loaded

fileVars == <<files, path>>
cacheVars == <<policy, goodFp, badFp>>
relayVars == <<pc, lease, renewal, poll, version>>
vars == <<fileVars, wrapped, up, call, load, cacheVars, leases, relayVars, raised>>

NoFp == 0
NoCall == [kind |-> "none", who |-> NoConn]
NoLoad == [at |-> "no", first |-> NoFp, now |-> NoFp, text |-> Null]
NoPoll == [at |-> "off", active |-> {}, version |-> 0, update |-> NoUpdate]

Init ==
    /\ \E d \in FirstDocs : files = <<d>>
    /\ path = 1
    /\ wrapped \in Wrapped
    /\ up = FALSE
    /\ call = NoCall /\ load = NoLoad
    /\ policy = Null /\ goodFp = NoFp /\ badFp = NoFp
    /\ leases = [c \in Conns |-> Null]
    /\ pc = [c \in Conns |-> "idle"]
    /\ lease = [c \in Conns |-> Null]
    /\ renewal = [c \in Conns |-> "idle"]
    /\ poll = NoPoll
    /\ version = 0
    /\ raised = FALSE

-----------------------------------------------------------------------------
(* External: the operator                                                  *)

\* The new file is moved into place: a read under way keeps the old one.
Replace(d) ==
    /\ Len(files) < MaxFiles
    /\ files' = Append(files, d)
    /\ path' = Len(files) + 1
    /\ UNCHANGED <<wrapped, up, call, load, cacheVars, leases, relayVars, raised>>

\* The file is written in place: a read under way sees it.
Overwrite(d) ==
    /\ Len(files) < MaxFiles
    /\ files' = Append([files EXCEPT ![path] = Unreadable], d)
    /\ path' = Len(files) + 1
    /\ load' = IF load.now = path THEN [load EXCEPT !.now = Len(files) + 1] ELSE load
    /\ UNCHANGED <<wrapped, up, call, cacheVars, leases, relayVars, raised>>

\* An older file is moved back, fingerprint and all.
Restore(i) ==
    /\ i # path /\ files[i] # Unreadable
    /\ path' = i
    /\ UNCHANGED <<files, wrapped, up, call, load, cacheVars, leases, relayVars, raised>>

-----------------------------------------------------------------------------
(* What a call does once the policy is there                               *)

Live == {c \in Conns : pc[c] = "live"}

\* The first of the credentials that were found, or Null.
FirstOf(found) == IF found = <<>> THEN Null ELSE Head(found)

\* admit_tunnel: look the token up, remember a finite lease.  Without a task of its
\* own the caller claims in the same stretch, and may be refused there.
FinishAdmit(c, p) ==
    LET Matches(x) == x.token_sha256 = TokenHash[c]
        found == FirstOf(SelectSeq(p.credentials, Matches))
    IN /\ lease' = [lease EXCEPT ![c] = found]
       /\ leases' = [leases EXCEPT ![c] = IF found # Null /\ found.finite THEN found ELSE @]
       /\ \E claimed \in BOOLEAN :
            pc' = [pc EXCEPT ![c] = IF found = Null THEN "gone" ELSE IF wrapped THEN "answered"
                                    ELSE IF claimed THEN "live" ELSE "gone"]
       /\ UNCHANGED <<renewal, poll, version>>

\* The answer of a renewal reaches _try_renew_lease, now or later.
Answer(c, answer) ==
    IF wrapped THEN renewal' = [renewal EXCEPT ![c] = answer] /\ UNCHANGED pc
    ELSE /\ pc' = [pc EXCEPT ![c] = IF answer = "refused" THEN "gone" ELSE @]
         /\ UNCHANGED renewal

\* Mutant of SameCredential: the digest is not compared.
SameIds(x, state) ==
    x.credential_id = state.credential_id /\ x.account_id = state.account_id

\* renew_lease: the credential that issued the lease, by id, account and digest.
SameCredential(x, state) ==
    /\ x.credential_id = state.credential_id /\ x.account_id = state.account_id
    /\ x.token_sha256 = state.token_sha256

FinishRenew(c, p) ==
    LET Matches(x) == SameCredential(x, leases[c])
        found == FirstOf(SelectSeq(p.credentials, Matches))
        refused == found = Null \/ ~found.finite
    IN /\ leases' = [leases EXCEPT ![c] = IF refused THEN Null ELSE found]
       /\ Answer(c, IF refused THEN "refused" ELSE "renewed")
       /\ UNCHANGED <<lease, poll, version>>

\* _apply_policy_update; the connections whose lease the update revokes are retired.
Apply(u) ==
    LET revoked == {u.revoke[i] : i \in DOMAIN u.revoke}
                     \cup {u.revocations[i].lease_id : i \in DOMAIN u.revocations}
    IN /\ poll' = NoPoll
       /\ IF ValidUpdate(u, version)
          THEN /\ version' = u.version
               /\ pc' = [c \in Conns |-> IF c \in Live \cap revoked THEN "gone" ELSE pc[c]]
          ELSE UNCHANGED <<version, pc>>

\* Mutant of Newer: versions have to be consecutive.
NextOnly(u, v) == u # NoUpdate /\ u.version = v + 1

\* There is an update, strictly newer than what the relay has.
Newer(u, v) == u # NoUpdate /\ u.version > v

\* poll_policy_updates, after the pruning.
FinishPoll(p) ==
    /\ IF ~Newer(p.update, poll.version)
       THEN poll' = NoPoll /\ UNCHANGED <<version, pc>>
       ELSE IF wrapped
       THEN poll' = [poll EXCEPT !.at = "answered", !.update = p.update] /\ UNCHANGED <<version, pc>>
       ELSE Apply(p.update)
    /\ UNCHANGED <<leases, lease, renewal>>

Finish(p) ==
    CASE call.kind = "start" -> up' = TRUE /\ UNCHANGED <<leases, relayVars>>
      [] call.kind = "admit" -> FinishAdmit(call.who, p) /\ UNCHANGED up
      [] call.kind = "renew" -> FinishRenew(call.who, p) /\ UNCHANGED up
      [] call.kind = "poll" -> FinishPoll(p) /\ UNCHANGED up

\* The call raised: a start is abandoned, an agent is told to try again later, a
\* renewal and a poll are tried again.
Abandon ==
    /\ pc' = IF call.kind = "admit" THEN [pc EXCEPT ![call.who] = "gone"] ELSE pc
    /\ poll' = IF call.kind = "poll" THEN NoPoll ELSE poll
    /\ raised' = (raised \/ policy # Null)
    /\ UNCHANGED <<up, leases, lease, renewal, version>>

-----------------------------------------------------------------------------
(* _load_policy and read_private_text_file_snapshot                        *)

Return == call' = NoCall /\ load' = NoLoad

\* _handle_policy_load_error: the last good policy, if there is one.
LoadError ==
    /\ Return
    /\ UNCHANGED <<policy, goodFp>>
    /\ IF policy = Null THEN Abandon ELSE Finish(policy) /\ UNCHANGED raised

\* open and the first fstat, or an error before them.
OpenFile ==
    /\ call # NoCall /\ load = NoLoad
    /\ IF files[path] = Unreadable
       THEN LoadError /\ UNCHANGED badFp
       ELSE /\ load' = [NoLoad EXCEPT !.at = "opened", !.first = path, !.now = path]
            /\ UNCHANGED <<up, call, cacheVars, leases, relayVars, raised>>
    /\ UNCHANGED <<fileVars, wrapped>>

ReadText ==
    /\ load.at = "opened"
    /\ load' = [load EXCEPT !.at = "read", !.text = files[load.now]]
    /\ UNCHANGED <<fileVars, wrapped, up, call, cacheVars, leases, relayVars, raised>>

\* Mutant of Unchanged: the file is not looked at again after it was read.
AnyChange == TRUE

\* The second fstat agrees with the first.
Unchanged == load.now = load.first

\* The second fstat, and the rest of _load_policy with what was read.
LoadFile ==
    LET fp == load.now
        parsed == Parse(load.text)
    IN /\ load.at = "read"
       /\ IF ~Unchanged
          THEN LoadError /\ UNCHANGED badFp
          ELSE IF policy # Null /\ fp \in {goodFp, badFp}
          THEN Return /\ Finish(policy) /\ UNCHANGED <<cacheVars, raised>>
          ELSE IF parsed = Malformed
          THEN badFp' = fp /\ LoadError
          ELSE IF parsed = Crash
          THEN Return /\ Abandon /\ UNCHANGED cacheVars
          ELSE /\ Return
               /\ policy' = parsed /\ goodFp' = fp /\ badFp' = NoFp
               /\ Finish(parsed)
               /\ UNCHANGED raised
       /\ UNCHANGED <<fileVars, wrapped>>

-----------------------------------------------------------------------------
(* The relay                                                               *)

Idle == up /\ call = NoCall

\* StaticPolicyControlPlane.__init__
Start ==
    /\ ~up /\ call = NoCall
    /\ call' = [NoCall EXCEPT !.kind = "start"]
    /\ UNCHANGED <<fileVars, wrapped, up, load, cacheVars, leases, relayVars, raised>>

Admit(c) ==
    /\ Idle /\ pc[c] = "idle"
    /\ call' = [kind |-> "admit", who |-> c]
    /\ UNCHANGED <<fileVars, wrapped, up, load, cacheVars, leases, relayVars, raised>>

\* _serve_agent goes on with the admission: the claim is made, or refused.
Claim(c) ==
    /\ Idle /\ pc[c] = "answered"
    /\ \E at \in {"live", "gone"} : pc' = [pc EXCEPT ![c] = at]
    /\ UNCHANGED <<fileVars, wrapped, up, call, load, cacheVars, leases, lease, renewal, poll,
                   version, raised>>

\* The tunnel ends, for whatever reason the relay or the agent has.
Leave(c) ==
    /\ Idle /\ pc[c] = "live"
    /\ pc' = [pc EXCEPT ![c] = "gone"]
    /\ UNCHANGED <<fileVars, wrapped, up, call, load, cacheVars, leases, lease, renewal, poll,
                   version, raised>>

\* _try_renew_lease calls renew_lease, which knows the lease or answers None at once.
Renew(c) ==
    /\ Idle /\ pc[c] = "live" /\ lease[c].finite /\ renewal[c] = "idle"
    /\ IF leases[c] = Null
       THEN Answer(c, "refused") /\ UNCHANGED call
       ELSE call' = [kind |-> "renew", who |-> c] /\ UNCHANGED <<pc, renewal>>
    /\ UNCHANGED <<fileVars, wrapped, up, load, cacheVars, leases, lease, poll, version, raised>>

\* _try_renew_lease hears the answer; a tunnel that is gone ignores it.
RenewAnswer(c) ==
    /\ Idle /\ renewal[c] # "idle"
    /\ renewal' = [renewal EXCEPT ![c] = "idle"]
    /\ pc' = [pc EXCEPT ![c] = IF renewal[c] = "refused" /\ @ = "live" THEN "gone" ELSE @]
    /\ UNCHANGED <<fileVars, wrapped, up, call, load, cacheVars, leases, lease, poll, version,
                   raised>>

\* Mutant of PruneInactive: the test the wrong way round.
PruneActive(active) ==
    leases' = [c \in Conns |-> IF c \in active THEN Null ELSE leases[c]]

\* Mutant of PruneInactive: an empty list of leases is taken for no list.
PruneIfAny(active) ==
    leases' = [c \in Conns |-> IF c \in active \/ active = {} THEN leases[c] ELSE Null]

\* _prune_inactive_leases; a relay that sends no ids says with its count whether it
\* has none, so an empty snapshot prunes too.
PruneInactive(active) ==
    leases' = [c \in Conns |-> IF c \in active THEN leases[c] ELSE Null]

RunPoll(active) ==
    /\ call' = [NoCall EXCEPT !.kind = "poll"]
    /\ PruneInactive(active)

\* _poll_policy_updates makes its request: version and active leases, as of now.
Poll ==
    /\ Idle /\ poll = NoPoll
    /\ poll' = [NoPoll EXCEPT !.at = "asked", !.active = Live, !.version = version]
    /\ IF wrapped THEN UNCHANGED <<call, leases>> ELSE RunPoll(Live)
    /\ UNCHANGED <<fileVars, wrapped, up, load, cacheVars, pc, lease, renewal, version, raised>>

\* The task of the call starts.
PollRuns ==
    /\ Idle /\ wrapped /\ poll.at = "asked"
    /\ RunPoll(poll.active)
    /\ UNCHANGED <<fileVars, wrapped, up, load, cacheVars, relayVars, raised>>

PollAnswer ==
    /\ Idle /\ poll.at = "answered"
    /\ Apply(poll.update)
    /\ UNCHANGED <<fileVars, wrapped, up, call, load, cacheVars, leases, lease, renewal, raised>>

-----------------------------------------------------------------------------
Operator ==
    \/ \E d \in LaterDocs : Replace(d) \/ Overwrite(d)
    \/ \E i \in DOMAIN files : Restore(i)

Reading == OpenFile \/ ReadText \/ LoadFile

Next ==
    \/ Operator \/ Reading \/ Start \/ Poll \/ PollRuns \/ PollAnswer
    \/ \E c \in Conns : Admit(c) \/ Claim(c) \/ Leave(c) \/ Renew(c) \/ RenewAnswer(c)

Spec == Init /\ [][Next]_vars

\* A read ends; the poll loop and the renewal tasks run at their intervals, also when
\* admissions keep the event loop busy (SF: they wait for it in turn); every caller
\* hears its answer.  Nothing is assumed of the operator and of agents.
Fairness ==
    /\ WF_vars(Reading) /\ WF_vars(Start)
    /\ SF_vars(Poll) /\ SF_vars(PollRuns) /\ SF_vars(PollAnswer)
    /\ \A c \in Conns : SF_vars(Claim(c)) /\ SF_vars(Renew(c)) /\ SF_vars(RenewAnswer(c))

FairSpec == Spec /\ Fairness

-----------------------------------------------------------------------------
(* Properties                                                              *)

OnDisk == IF files[path] = Unreadable THEN Malformed ELSE Parse(files[path])

\* A cached verdict is about the file it was made of: while the path names a file
\* whose fingerprint is remembered, the policy in force is what that file says, or
\* the file is malformed, although files are written while they are read and older
\* ones are moved back.
CacheCoherent ==
    /\ path = goodFp => policy = OnDisk
    /\ path = badFp => OnDisk = Malformed

\* Whatever was written to the file, the policy in force names each credential and
\* each token once and gives a label to one account, and the relay's own check takes
\* every update that the file check let through.
InForceIsSound ==
    policy # Null =>
        /\ \A i, j \in DOMAIN policy.credentials :
              LET a == policy.credentials[i]  b == policy.credentials[j]
              IN i # j => /\ a.credential_id # b.credential_id
                          /\ a.token_sha256 # b.token_sha256
                          /\ a.allowed_label \notin {Null, Bad} =>
                                (a.allowed_label = b.allowed_label => a.account_id = b.account_id)
        /\ policy.update # NoUpdate => ValidUpdate(policy.update, 0)

\* A live finite lease is one the control plane knows, so that only the policy can
\* refuse to renew it: pruning forgets no tunnel that is claimed or installed.  Stated
\* for calls that run in place; a task per call breaks it.
LiveLeaseKnown ==
    ~wrapped => \A c \in Live : lease[c].finite => leases[c] # Null

\* The policy p renews the lease of connection c.
Grants(p, c) ==
    \E i \in DOMAIN p.credentials :
        /\ p.credentials[i].finite
        /\ \A f \in {"credential_id", "account_id", "token_sha256"} :
              p.credentials[i][f] = lease[c][f]

FiniteLive(c) == pc[c] = "live" /\ lease[c].finite
Withdrawn(c) == up /\ IsPolicy(OnDisk) /\ (FiniteLive(c) => ~Grants(OnDisk, c))

\* docs/CONTROL-PLANE.md, "Removing a finite-lease credential or changing it to a
\* non-renewable credential revokes that lease": whatever was cached, malformed or
\* half-read before, the tunnel goes once the file settles without the credential.
RemovedCredentialEnds ==
    \A c \in Conns : <>[]Withdrawn(c) => <>[]~FiniteLive(c)

Behind == up /\ IsPolicy(OnDisk) /\ OnDisk.update.version > version

\* A valid update that stays in the file reaches the relay, although polls read the
\* file while it is edited and keep the last good policy.
UpdateReachesRelay == []<>~Behind

\* The lease of a tunnel that is gone is forgotten, also when its admission was
\* refused after the control plane had recorded it.
GoneLeasesForgotten ==
    \A c \in Conns : (pc[c] = "gone" /\ up) ~> (leases[c] = Null)

\* docs/CONTROL-PLANE.md, "malformed live edits keep the last-good policy until a
\* valid replacement appears": once a policy was loaded, no call fails.
LastGoodServes == ~raised
=============================================================================
