--------------------------- MODULE VisitorsProofs ---------------------------
(***************************************************************************)
(* Proofs about Handshake and Visitors, for every number of agents,        *)
(* visitors, labels, slots and limits.                                     *)
(*                                                                         *)
(* That routes are served, and that an agent which reports a tunnel has    *)
(* the route, rests on what a handler has answered at each place           *)
(* (Replies) and on an agent's next connection being untouched (Tracked).  *)
(* The counts are exact because a step moves one handler between two of    *)
(* the sets they count.                                                    *)
(***************************************************************************)
EXTENDS Visitors, FiniteSetTheorems, TLAPS

Early == {"none", "arrived", "queued", "hello", "authorizing", "admitting"}
Places == Early \cup {"opening", "readying", "installing", "running", "gone"}
Answers == {"none", "later", "refused", "ready", "closed", "retired"}
ConnRecs == [at : Places, label : Labels \cup {NoLabel}, answer : Answers, link : {"up", "down"}]
SupRecs ==
    [pc : {"idle", "connecting", "waiting", "running", "backoff", "stopped", "failed"},
     stop : BOOLEAN, connected : BOOLEAN, error : BOOLEAN]

\* Types of the agents' side and of the handlers.
HandshakeTypes ==
    /\ sup \in [Agents -> SupRecs]
    /\ tries \in [Agents -> Nat]
    /\ conn \in [Conns -> ConnRecs]
    /\ agents \in [Labels -> Conns \cup {NoConn}]
    /\ pending \in [Labels -> Conns \cup {NoConn}]
    /\ free \in [control : Nat, auth : Nat]

\* The connection an agent works with is one of its own, and the relay has not seen
\* those it has yet to make.
Tracked ==
    /\ \A a \in Agents :
          sup[a].pc \in {"connecting", "waiting", "running"} => tries[a] \in 1 .. Attempts[a]
    /\ \A a \in Agents : sup[a].pc = "connecting" => conn[Current(a)].at = "none"
    /\ \A c \in Conns : c[2] > tries[c[1]] => conn[c].at = "none"

\* A claim in the table is its handler's own label.
OwnLabels == \A l \in Labels : pending[l] # NoConn => conn[pending[l]].label = l

\* What a handler has told the agent, by the place it is at: the answer is the refusal
\* of a claim exactly when the claim was revoked, and ready means the claim or the route.
ReplyOf(c) ==
    /\ conn[c].at \in Early => conn[c].answer = "none"
    /\ conn[c].at \in {"opening", "readying"} =>
          /\ conn[c].label \in Labels
          /\ conn[c].answer = IF IsPending(c) THEN "none" ELSE "later"
    /\ conn[c].at = "installing" =>
          /\ conn[c].label \in Labels
          /\ conn[c].answer = IF IsPending(c) THEN "ready" ELSE "closed"
    /\ conn[c].at = "running" =>
          /\ conn[c].label \in Labels
          /\ conn[c].answer = "ready" => agents[conn[c].label] = c
    /\ conn[c].at = "gone" /\ conn[c].answer = "ready" => conn[c].link = "down"
Replies == \A c \in Conns : ReplyOf(c)

Tables == RoutesAreServed /\ OwnLabels /\ Replies
HandshakeInv == HandshakeTypes /\ Tracked /\ Tables /\ SlotsExact

VisitorPlaces == {"new", "queued", "reading", "opening", "relaying", "replying", "busy", "gone"}
VisitorRecs == [at : VisitorPlaces, to : Conns \cup {NoConn}]

\* Types of the public side; a visitor that holds an account's slot was routed.
VisitorTypes ==
    /\ vis \in [People -> VisitorRecs]
    /\ \A v \in Reserved : vis[v].to \in Conns
    /\ pool \in Nat /\ inFlight \in Nat
    /\ ips \in [Sources -> Nat] /\ active \in [Accounts -> Nat]

VisitorInv == VisitorTypes /\ VisitorsCounted
IInv == HandshakeInv /\ VisitorInv

-----------------------------------------------------------------------------
(* Connections                                                             *)

\* A connection is an agent and the number of its attempt.
LEMMA ConnsArePairs ==
    /\ \A c \in Conns : c[1] \in Agents /\ c[2] \in 1 .. Attempts[c[1]] /\ c = <<c[1], c[2]>>
    /\ \A a \in Agents : \A n \in 1 .. Attempts[a] : <<a, n>> \in Conns
    /\ NoConn \notin Conns
BY DEF Conns, NoConn

\* There are finitely many.
LEMMA ConnsAreFinite == IsFiniteSet(Conns)
<1> DEFINE f == [a \in Agents |-> {a} \X (1 .. Attempts[a])]
           T == {{a} \X (1 .. Attempts[a]) : a \in Agents}
<1>1. f \in Surjection(Agents, T)
  BY DEF Surjection
<1>2. IsFiniteSet(T)
  <2> HIDE DEF f, T
  <2> QED
    BY <1>1, FS_Surjection, HandshakeAssumption
<1>3. \A a \in Agents : IsFiniteSet({a} \X (1 .. Attempts[a]))
  <2> SUFFICES ASSUME NEW a \in Agents PROVE IsFiniteSet({a} \X (1 .. Attempts[a]))
    OBVIOUS
  <2>1. IsFiniteSet({a})
    BY FS_Singleton
  <2>2. IsFiniteSet(1 .. Attempts[a])
    BY HandshakeAssumption, FS_Interval
  <2> QED
    BY <2>1, <2>2, FS_Product
<1>4. \A S \in T : IsFiniteSet(S)
  BY <1>3
<1> HIDE DEF T
<1>5. IsFiniteSet(UNION T)
  BY <1>2, <1>4, FS_UNION
<1> QED
  BY <1>5 DEF T, Conns

\* The handler of c, and no other, is now as r says.
Changed(new, c, r) ==
    /\ new \in [Conns -> ConnRecs]
    /\ new[c] = r
    /\ \A x \in Conns : x # c => new[x] = conn[x]
Rec(at, label, answer, link) == [at |-> at, label |-> label, answer |-> answer, link |-> link]

\* A handler goes on to another place.
LEMMA AtChanges ==
    ASSUME conn \in [Conns -> ConnRecs], NEW c \in Conns, NEW p \in Places
    PROVE  Changed(At(c, p), c, Rec(p, conn[c].label, conn[c].answer, conn[c].link))
BY Zenon DEF At, Changed, Rec, ConnRecs, Places, Answers

\* A record with one field replaced, written out.
LEMMA RecMoves ==
    ASSUME NEW r \in ConnRecs, NEW p
    PROVE  /\ [r EXCEPT !.at = p] = Rec(p, r.label, r.answer, r.link)
           /\ [r EXCEPT !.answer = p] = Rec(r.at, r.label, p, r.link)
BY DEF ConnRecs, Rec

\* A handler is over, with its last answer.
LEMMA LeftChanges ==
    ASSUME conn \in [Conns -> ConnRecs], NEW c \in Conns, NEW a \in Answers
    PROVE  Changed(Left(c, a), c, Rec("gone", conn[c].label, a, conn[c].link))
BY ZenonT(40) DEF Left, Changed, Rec, ConnRecs, Places, Answers

\* A connection goes down.
LEMMA HangUpChanges ==
    ASSUME conn \in [Conns -> ConnRecs], NEW c \in Conns
    PROVE  Changed(HangUp(c), c, Rec(conn[c].at, conn[c].label, conn[c].answer, "down"))
BY Zenon DEF HangUp, Changed, Rec, ConnRecs, Places, Answers

\* A handler answers.
LEMMA AnswerChanges ==
    ASSUME conn \in [Conns -> ConnRecs], NEW c \in Conns, NEW a \in Answers
    PROVE  Changed([conn EXCEPT ![c].answer = a], c,
                   Rec(conn[c].at, conn[c].label, a, conn[c].link))
BY Zenon DEF Changed, Rec, ConnRecs, Places, Answers

\* A connection arrives.
LEMMA ConnectChanges ==
    ASSUME conn \in [Conns -> ConnRecs], NEW c \in Conns
    PROVE  Changed([conn EXCEPT ![c].at = "arrived", ![c].link = "up"], c,
                   Rec("arrived", conn[c].label, conn[c].answer, "up"))
BY Zenon DEF Changed, Rec, ConnRecs, Early, Places, Answers

\* A handler has claimed a label.
LEMMA ClaimChanges ==
    ASSUME conn \in [Conns -> ConnRecs], NEW c \in Conns, NEW l \in Labels
    PROVE  Changed([conn EXCEPT ![c].at = "opening", ![c].label = l], c,
                   Rec("opening", l, conn[c].answer, conn[c].link))
BY ZenonT(40) DEF Changed, Rec, ConnRecs, Early, Places, Answers

\* A handler answers and goes on to install its agent.
LEMMA ReadyChanges ==
    ASSUME conn \in [Conns -> ConnRecs], NEW c \in Conns, NEW a \in Answers
    PROVE  Changed([conn EXCEPT ![c].at = "installing", ![c].answer = a], c,
                   Rec("installing", conn[c].label, a, conn[c].link))
BY ZenonT(40) DEF Changed, Rec, ConnRecs, Early, Places, Answers

\* The supervisor of a, and no other, is now at p.
SupMoved(new, a, p) ==
    /\ new \in [Agents -> SupRecs]
    /\ new[a].pc = p
    /\ \A b \in Agents : b # a => new[b] = sup[b]
SupPlaces == {"idle", "connecting", "waiting", "running", "backoff", "stopped", "failed"}

\* A supervisor goes on to another place.
LEMMA PlaceMoves ==
    ASSUME sup \in [Agents -> SupRecs], NEW a \in Agents, NEW p \in SupPlaces
    PROVE  SupMoved([sup EXCEPT ![a].pc = p], a, p)
BY Zenon DEF SupMoved, SupRecs, SupPlaces

\* A supervisor goes on and reports.
LEMMA ReportMoves ==
    ASSUME sup \in [Agents -> SupRecs], NEW a \in Agents, NEW p \in SupPlaces,
           NEW u \in BOOLEAN, NEW v \in BOOLEAN
    PROVE  SupMoved([sup EXCEPT ![a].pc = p, ![a].connected = u, ![a].error = v], a, p)
BY ZenonT(40) DEF SupMoved, SupRecs, SupPlaces

\* A supervisor is told to stop.
LEMMA StopMoves ==
    ASSUME sup \in [Agents -> SupRecs], NEW a \in Agents
    PROVE  SupMoved([sup EXCEPT ![a].stop = TRUE], a, sup[a].pc)
BY Zenon DEF SupMoved, SupRecs

\* A supervisor has lost its connection.
LEMMA LossMoves ==
    ASSUME sup \in [Agents -> SupRecs], NEW a \in Agents
    PROVE  \E p \in {"stopped", "backoff"} : SupMoved([sup EXCEPT ![a] = Disconnected(@)], a, p)
<1> DEFINE p == IF sup[a].stop THEN "stopped" ELSE "backoff"
<1>1. p \in {"stopped", "backoff"} /\ p \in SupPlaces
  BY DEF SupPlaces
<1>2. Disconnected(sup[a]) = [sup[a] EXCEPT !.pc = p]
  BY DEF Disconnected
<1> HIDE DEF p
<1>3. SupMoved([sup EXCEPT ![a].pc = p], a, p)
  BY <1>1, PlaceMoves
<1>4. SupMoved([sup EXCEPT ![a] = Disconnected(@)], a, p)
  BY <1>2, <1>3, Zenon
<1> QED
  BY <1>1, <1>4

-----------------------------------------------------------------------------
(* The semaphores                                                          *)

\* One element more or less: what the counts of a set do.
LEMMA CountMoves ==
    ASSUME NEW S, NEW T, NEW x, IsFiniteSet(S), \A y : y # x => (y \in T <=> y \in S)
    PROVE  /\ Cardinality(S) \in Nat /\ Cardinality(T) \in Nat
           /\ x \in S => Cardinality(S) > 0
           /\ Cardinality(T) = Cardinality(S) + (IF x \in T THEN 1 ELSE 0)
                                              - (IF x \in S THEN 1 ELSE 0)
<1>1. Cardinality(S) \in Nat
  BY FS_CardinalityType
<1>2. CASE x \in T
  <2>1. T = S \cup {x}
    BY <1>2
  <2>2. Cardinality(T) = IF x \in S THEN Cardinality(S) ELSE Cardinality(S) + 1
    BY <2>1, FS_AddElement
  <2>3. x \in S => Cardinality(S) > 0
    BY <1>1, FS_RemoveElement, FS_CardinalityType, FS_EmptySet
  <2> QED
    BY <1>1, <1>2, <2>2, <2>3
<1>3. CASE x \notin T
  <2>1. T = S \ {x}
    BY <1>3
  <2>2. Cardinality(T) \in Nat
    BY <2>1, FS_RemoveElement, FS_CardinalityType
  <2> QED
    BY <1>1, <1>3, <2>1, <2>2, FS_RemoveElement, SMTT(30)
<1> QED
  BY <1>2, <1>3

\* When one handler moves, and takes and gives back the slots of the places it leaves
\* and enters, the semaphores still count.
LEMMA SlotsMove ==
    ASSUME HandshakeTypes, SlotsExact, NEW c \in Conns, NEW p,
           \A x \in Conns : conn'[x].at = IF x = c THEN p ELSE conn[x].at,
           free'.control = free.control + (IF conn[c].at = "hello" THEN 1 ELSE 0)
                                        - (IF p = "hello" THEN 1 ELSE 0),
           free'.auth = free.auth + (IF conn[c].at = "admitting" THEN 1 ELSE 0)
                                  - (IF p = "admitting" THEN 1 ELSE 0)
    PROVE  SlotsExact'
<1> DEFINE H(place) == {x \in Conns : conn[x].at = place}
           G(place) == {x \in Conns : conn'[x].at = place}
<1>1. ASSUME NEW place
      PROVE  /\ Cardinality(H(place)) \in Nat /\ Cardinality(G(place)) \in Nat
             /\ Cardinality(G(place)) = Cardinality(H(place)) + (IF p = place THEN 1 ELSE 0)
                                                  - (IF conn[c].at = place THEN 1 ELSE 0)
  <2>1. IsFiniteSet(H(place))
    BY ConnsAreFinite, FS_Subset
  <2>2. \A y : y # c => (y \in G(place) <=> y \in H(place))
    OBVIOUS
  <2>3. (c \in G(place) <=> p = place) /\ (c \in H(place) <=> conn[c].at = place)
    OBVIOUS
  <2> HIDE DEF H, G
  <2> QED
    BY <2>1, <2>2, <2>3, CountMoves
<1>2. free.control \in Int /\ free.auth \in Int
  BY DEF HandshakeTypes
<1>3. /\ free.control + Cardinality(H("hello")) = ControlSlots
      /\ free.auth + Cardinality(H("admitting")) = AuthSlots
  BY DEF SlotsExact
<1>4. /\ free'.control + Cardinality(G("hello")) = ControlSlots
      /\ free'.auth + Cardinality(G("admitting")) = AuthSlots
  <2> HIDE DEF G, H
  <2> QED
    BY <1>1, <1>2, <1>3
<1> QED
  BY <1>4 DEF SlotsExact

-----------------------------------------------------------------------------
(* The agents' side                                                        *)

\* A handler keeps its place and its answer, or has just been accepted; the relay's
\* tables are untouched.
LEMMA AgentMoves ==
    ASSUME HandshakeInv, NEW c \in Conns, NEW p, NEW k,
           \/ p = conn[c].at /\ k = "down"
           \/ conn[c].at = "none" /\ p = "arrived",
           Changed(conn', c, Rec(p, conn[c].label, conn[c].answer, k)),
           UNCHANGED <<agents, pending, free>>
    PROVE  Tables' /\ SlotsExact'
<1> USE DEF HandshakeInv
<1>1. /\ \A x \in Conns : conn'[x].label = conn[x].label /\ conn'[x].answer = conn[x].answer
      /\ \A x \in Conns : conn'[x].at = IF x = c THEN p ELSE conn[x].at
      /\ \A x \in Conns : x # c => conn'[x].link = conn[x].link
      /\ conn'[c].link = k
  BY DEF Changed, Rec
<1>2. SlotsExact'
  <2>1. free.control \in Int /\ free.auth \in Int
    BY DEF HandshakeTypes
  <2>2. /\ free'.control = free.control + (IF conn[c].at = "hello" THEN 1 ELSE 0)
                                        - (IF p = "hello" THEN 1 ELSE 0)
        /\ free'.auth = free.auth + (IF conn[c].at = "admitting" THEN 1 ELSE 0)
                                  - (IF p = "admitting" THEN 1 ELSE 0)
    BY <2>1
  <2> QED
    BY <1>1, <2>2, SlotsMove
<1>3. RoutesAreServed' /\ OwnLabels'
  BY <1>1 DEF Tables, RoutesAreServed, OwnLabels, HandshakeTypes
<1>4. Replies'
  BY <1>1 DEF Tables, Replies, ReplyOf, IsPending, Early
<1> QED
  BY <1>2, <1>3, <1>4 DEF Tables

\* Every step of serve_forever and of the network.
LEMMA AgentStep ==
    ASSUME HandshakeInv, NEW a \in Agents, Supervise(a) \/ RequestStop(a) \/ Cut(a)
    PROVE  HandshakeInv'
<1> USE DEF HandshakeInv
<1> DEFINE c == Current(a)
<1>1. UNCHANGED <<agents, pending, free>>
  BY DEF Supervise, RequestStop, Cut, Attempt, LoopEnds, Connect, ConnectFails, HearReady, HearRefusal,
         HearNothing, BackoffEnds, RunRaises, RunReturns, Drain, relayVars
<1>2. tries[a] \in 1 .. Attempts[a] => c \in Conns /\ c[1] = a /\ c[2] = tries[a]
  BY ConnsArePairs DEF Current
<1>3. sup \in [Agents -> SupRecs]
  BY DEF HandshakeTypes
<1>4. CASE Attempt(a)
  <2>0. SupMoved(sup', a, "connecting")
    BY <1>3, <1>4, ReportMoves DEF Attempt, SupPlaces
  <2>1. /\ sup[a].pc = "idle" /\ tries[a] < Attempts[a]
        /\ tries' = [tries EXCEPT ![a] = @ + 1] /\ conn' = conn
    BY <1>4 DEF Attempt
  <2>2. /\ tries' \in [Agents -> Nat] /\ tries'[a] = tries[a] + 1 /\ tries'[a] \in 1 .. Attempts[a]
        /\ \A b \in Agents : b # a => tries'[b] = tries[b]
    <3>1. tries \in [Agents -> Nat] /\ Attempts[a] \in Nat
      BY HandshakeAssumption DEF HandshakeTypes
    <3> QED
      BY <2>1, <3>1
  <2>3. <<a, tries'[a]>> \in Conns
    BY <2>2, ConnsArePairs
  <2>4. conn[<<a, tries'[a]>>].at = "none"
    BY <2>2, <2>3 DEF Tracked, HandshakeTypes
  <2>5. Tracked'
    BY <2>0, <2>1, <2>2, <2>4, ConnsArePairs, HandshakeAssumption
    DEF Tracked, HandshakeTypes, Current, SupMoved
  <2> QED
    BY <1>1, <2>0, <2>1, <2>2, <2>5
    DEF HandshakeTypes, SupMoved, Tables, RoutesAreServed, OwnLabels, Replies, ReplyOf, IsPending, SlotsExact
<1>5. CASE LoopEnds(a) \/ ConnectFails(a) \/ HearReady(a) \/ BackoffEnds(a) \/ RequestStop(a)
  <2>0. PICK p : /\ SupMoved(sup', a, p)
                 /\ \/ p \in {"idle", "backoff", "stopped"}
                    \/ p = "running" /\ sup[a].pc = "waiting"
                    \/ p = sup[a].pc
    <3>1. CASE LoopEnds(a) \/ BackoffEnds(a)
      BY <1>3, <3>1, PlaceMoves DEF LoopEnds, BackoffEnds, SupPlaces
    <3>2. CASE ConnectFails(a)
      BY <1>3, <3>2, LossMoves DEF ConnectFails
    <3>3. CASE HearReady(a)
      BY <1>3, <3>3, ReportMoves DEF HearReady, SupPlaces
    <3>4. CASE RequestStop(a)
      BY <1>3, <3>4, StopMoves DEF RequestStop
    <3> QED
      BY <1>5, <3>1, <3>2, <3>3, <3>4
  <2>1. conn' = conn /\ tries' = tries
    BY <1>5 DEF LoopEnds, ConnectFails, HearReady, BackoffEnds, RequestStop
  <2>2. Tracked'
    BY <2>0, <2>1 DEF Tracked, Current, SupMoved
  <2> QED
    BY <1>1, <2>0, <2>1, <2>2
    DEF HandshakeTypes, SupMoved, Tables, RoutesAreServed, OwnLabels, Replies, ReplyOf, IsPending, SlotsExact
<1>6. CASE Connect(a)
  <2>0. SupMoved(sup', a, "waiting")
    BY <1>3, <1>6, PlaceMoves DEF Connect, SupPlaces
  <2>1. /\ sup[a].pc = "connecting" /\ tries' = tries
        /\ conn' = [conn EXCEPT ![c].at = "arrived", ![c].link = "up"]
    BY <1>6 DEF Connect
  <2>2. c \in Conns /\ conn[c].at = "none" /\ tries[a] \in 1 .. Attempts[a]
    BY <1>2, <2>1 DEF Tracked
  <2> HIDE DEF c
  <2>3. Changed(conn', c, Rec("arrived", conn[c].label, conn[c].answer, "up"))
    BY <2>1, <2>2, ConnectChanges DEF HandshakeTypes
  <2>4. Tables' /\ SlotsExact'
    BY <1>1, <2>2, <2>3, AgentMoves
  <2>5. Tracked'
    <3>1. ASSUME NEW b \in Agents, sup'[b].pc = "connecting"
          PROVE  conn'[Current(b)'].at = "none"
      <4>1. b # a /\ sup[b].pc = "connecting" /\ Current(b)' = Current(b)
        BY <2>0, <2>1, <3>1 DEF Current, SupMoved
      <4>2. Current(b) \in Conns /\ Current(b) # c /\ conn[Current(b)].at = "none"
        BY <4>1, ConnsArePairs DEF Tracked, Current, c
      <4> QED
        BY <2>3, <4>1, <4>2 DEF Changed
    <3>2. ASSUME NEW x \in Conns, x[2] > tries'[x[1]]
          PROVE  conn'[x].at = "none"
      <4>1. x # c
        BY <1>2, <2>1, <2>2, <3>2 DEF HandshakeTypes, c
      <4> QED
        BY <2>1, <2>3, <3>2, <4>1 DEF Changed, Tracked
    <3> QED
      BY <2>0, <2>1, <2>2, <3>1, <3>2 DEF Tracked, SupMoved
  <2> QED
    BY <1>1, <2>0, <2>1, <2>3, <2>4, <2>5 DEF HandshakeTypes, Changed, SupMoved
<1>7. CASE \/ HearRefusal(a) \/ HearNothing(a) \/ RunRaises(a) \/ RunReturns(a) \/ Drain(a) \/ Cut(a)
  <2>0. PICK p : /\ SupMoved(sup', a, p)
                 /\ p \in {"failed", "idle", "backoff", "stopped"} \/ p = sup[a].pc
    <3>1. CASE HearRefusal(a)
      BY <1>3, <3>1, ReportMoves DEF HearRefusal, SupPlaces
    <3>2. CASE HearNothing(a) \/ RunRaises(a)
      BY <1>3, <3>2, LossMoves DEF HearNothing, RunRaises
    <3>3. CASE RunReturns(a) \/ Drain(a)
      BY <1>3, <3>3, PlaceMoves DEF RunReturns, Drain, SupPlaces
    <3>4. CASE Cut(a)
      BY <1>3, <3>4 DEF Cut, SupMoved
    <3> QED
      BY <1>7, <3>1, <3>2, <3>3, <3>4
  <2>1. sup[a].pc \in {"waiting", "running"} /\ conn' = HangUp(c) /\ tries' = tries
    BY <1>7 DEF HearRefusal, HearNothing, RunRaises, RunReturns, Drain, Cut
  <2>2. c \in Conns
    BY <1>2, <2>1 DEF Tracked
  <2> HIDE DEF c
  <2>3. Changed(conn', c, Rec(conn[c].at, conn[c].label, conn[c].answer, "down"))
    BY <2>1, <2>2, HangUpChanges DEF HandshakeTypes
  <2>4. Tables' /\ SlotsExact'
    BY <1>1, <2>2, <2>3, AgentMoves
  <2>5. \A x \in Conns : conn'[x].at = conn[x].at
    BY <2>3 DEF Changed, Rec
  <2>6. Tracked'
    BY <2>0, <2>1, <2>5, ConnsArePairs DEF Tracked, Current, SupMoved
  <2> QED
    BY <1>1, <2>0, <2>1, <2>3, <2>4, <2>6 DEF HandshakeTypes, Changed, SupMoved
<1> QED
  BY <1>4, <1>5, <1>6, <1>7 DEF Supervise

-----------------------------------------------------------------------------
(* The relay's side                                                        *)

\* One slot more or less.
LEMMA FreeMoves ==
    ASSUME free \in [control : Nat, auth : Nat], NEW n \in Nat
    PROVE  /\ [free EXCEPT !.control = n] \in [control : Nat, auth : Nat]
           /\ [free EXCEPT !.control = n].control = n
           /\ [free EXCEPT !.control = n].auth = free.auth
           /\ [free EXCEPT !.auth = n] \in [control : Nat, auth : Nat]
           /\ [free EXCEPT !.auth = n].control = free.control
           /\ [free EXCEPT !.auth = n].auth = n
BY Zenon

\* A handler moves from p to q: what becomes of the slots, and of the agents' side.
Balanced(p, q) ==
    /\ free' \in [control : Nat, auth : Nat]
    /\ free'.control = free.control + (IF p = "hello" THEN 1 ELSE 0) - (IF q = "hello" THEN 1 ELSE 0)
    /\ free'.auth = free.auth + (IF p = "admitting" THEN 1 ELSE 0) - (IF q = "admitting" THEN 1 ELSE 0)

\* The slots stay exact when one handler's place changes.
LEMMA PlacesMove ==
    ASSUME HandshakeInv, NEW c \in Conns, NEW q,
           conn[c].at # "none", q # "none",
           \A x \in Conns : conn'[x].at = IF x = c THEN q ELSE conn[x].at,
           Balanced(conn[c].at, q),
           UNCHANGED <<sup, tries>>
    PROVE  Tracked' /\ SlotsExact'
<1>1. SlotsExact'
  BY SlotsMove DEF HandshakeInv, Balanced
<1>2. ASSUME NEW b \in Agents, sup'[b].pc = "connecting"
      PROVE  conn'[Current(b)'].at = "none"
  <2>1. Current(b) \in Conns /\ conn[Current(b)].at = "none" /\ Current(b)' = Current(b)
    BY <1>2, ConnsArePairs DEF HandshakeInv, Tracked, Current
  <2> QED
    BY <2>1
<1>3. Tracked'
  BY <1>2 DEF HandshakeInv, Tracked
<1> QED
  BY <1>1, <1>3

\* The same, from what the operators on a handler's record do.
LEMMA HandlerMoves ==
    ASSUME HandshakeInv, NEW c \in Conns, NEW q, NEW l, NEW a,
           conn[c].at # "none", q # "none",
           Changed(conn', c, Rec(q, l, a, conn[c].link)),
           Balanced(conn[c].at, q),
           UNCHANGED <<sup, tries>>
    PROVE  Tracked' /\ SlotsExact'
<1>1. \A x \in Conns : conn'[x].at = IF x = c THEN q ELSE conn[x].at
  BY DEF Changed, Rec
<1> QED
  BY <1>1, PlacesMove

\* A handler that has no claim goes on, or leaves without having said ready.
LEMMA EarlyMoves ==
    ASSUME HandshakeInv, NEW c \in Conns,
           NEW q \in (Early \ {"none"}) \cup {"gone"}, NEW a \in {"none", "later", "refused"},
           q # "gone" => a = "none",
           conn[c].at \in Early \ {"none"},
           Changed(conn', c, Rec(q, conn[c].label, a, conn[c].link)),
           Balanced(conn[c].at, q),
           UNCHANGED <<sup, tries, agents, pending>>
    PROVE  HandshakeInv'
<1> USE DEF HandshakeInv
<1>1. Tracked' /\ SlotsExact'
  BY HandlerMoves DEF Early
<1>2. Tables'
  <2>1. \A x \in Conns : x # c => conn'[x] = conn[x]
    BY DEF Changed
  <2>2. conn'[c].at = q /\ conn'[c].answer = a
    BY DEF Changed, Rec
  <2>3. \A l \in Labels : agents[l] # c /\ pending[l] # c
    BY ConnsArePairs DEF Tables, RoutesAreServed, Early
  <2>4. RoutesAreServed' /\ OwnLabels'
    BY <2>1, <2>3 DEF Tables, RoutesAreServed, OwnLabels, HandshakeTypes
  <2>5. Replies'
    BY <2>1, <2>2 DEF Tables, Replies, ReplyOf, IsPending, Early
  <2> QED
    BY <2>4, <2>5 DEF Tables
<1> QED
  BY <1>1, <1>2 DEF HandshakeTypes, Changed, Balanced

\* A handshake before the claim.
LEMMA EarlyStep ==
    ASSUME HandshakeInv, NEW c \in Conns,
           \/ CheckRate(c) \/ TakeSlot(c) \/ SlotTimeout(c) \/ Hello(c) \/ HelloFails(c)
           \/ TakeAuthSlot(c) \/ AuthSlotTimeout(c) \/ AdmissionFails(c) \/ Unauthorized(c)
    PROVE  HandshakeInv'
<1> USE DEF HandshakeInv
<1>1. conn \in [Conns -> ConnRecs] /\ free \in [control : Nat, auth : Nat]
  BY DEF HandshakeTypes
<1>2. /\ UNCHANGED <<sup, tries, agents, pending>>
      /\ conn[c].at \in Early \ {"none"}
  BY DEF CheckRate, TakeSlot, SlotTimeout, Hello, HelloFails, TakeAuthSlot, AuthSlotTimeout,
         AdmissionFails, Unauthorized, agentSide, Early
<1>3. PICK q \in (Early \ {"none"}) \cup {"gone"}, a \in {"none", "later", "refused"} :
        /\ q # "gone" => a = "none"
        /\ Changed(conn', c, Rec(q, conn[c].label, a, conn[c].link))
        /\ Balanced(conn[c].at, q)
  <2> DEFINE Goal(q, a) == /\ q # "gone" => a = "none"
                           /\ Changed(conn', c, Rec(q, conn[c].label, a, conn[c].link))
                           /\ Balanced(conn[c].at, q)
  <2>1. conn[c].answer = "none"
    BY <1>2 DEF Tables, Replies, ReplyOf, Early
  <2>2. ASSUME NEW q \in Early \ {"none"}, conn' = At(c, q), Balanced(conn[c].at, q)
        PROVE  Goal(q, "none")
    <3>1. q \in Places
      BY DEF Places
    <3> QED
      BY <1>1, <2>1, <2>2, <3>1, AtChanges DEF Early
  <2>3. ASSUME NEW a \in {"later", "refused"}, conn' = Left(c, a), Balanced(conn[c].at, "gone")
        PROVE  Goal("gone", a)
    <3>1. a \in Answers
      BY DEF Answers
    <3> QED
      BY <1>1, <2>3, <3>1, LeftChanges
  <2>4. free.control \in Nat /\ free.auth \in Nat
    BY <1>1
  <2>5. \A p, q : free' = free /\ p \notin {"hello", "admitting"} /\ q \notin {"hello", "admitting"}
                  => Balanced(p, q)
    BY <1>1, <2>4 DEF Balanced
  <2>6. \A n \in Nat :
           /\ free' = [free EXCEPT !.control = n] =>
                 free' \in [control : Nat, auth : Nat] /\ free'.control = n /\ free'.auth = free.auth
           /\ free' = [free EXCEPT !.auth = n] =>
                 free' \in [control : Nat, auth : Nat] /\ free'.auth = n /\ free'.control = free.control
    BY <1>1, FreeMoves, Zenon
  <2> HIDE DEF Goal
  <2>7. \A q \in Early \ {"none"} :
           conn' = At(c, q) /\ Balanced(conn[c].at, q) => Goal(q, "none")
    BY <2>2
  <2>8. \A a \in {"later", "refused"} :
           conn' = Left(c, a) /\ Balanced(conn[c].at, "gone") => Goal("gone", a)
    BY <2>3
  <2>9. \E q \in (Early \ {"none"}) \cup {"gone"}, a \in {"none", "later", "refused"} : Goal(q, a)
    <3>1. CASE CheckRate(c)
      BY <2>5, <2>7, <2>8, <3>1 DEF CheckRate, Early
    <3>2. CASE TakeSlot(c)
      <4>1. free' = [free EXCEPT !.control = free.control - 1] /\ free.control - 1 \in Nat
        BY <2>4, <3>2 DEF TakeSlot
      <4>2. free' \in [control : Nat, auth : Nat] /\ free'.control = free.control - 1
            /\ free'.auth = free.auth
        BY <2>6, <4>1, Zenon
      <4>3. Balanced(conn[c].at, "hello")
        BY <2>4, <3>2, <4>2 DEF TakeSlot, Balanced
      <4> QED
        BY <2>7, <3>2, <4>3 DEF TakeSlot, Early
    <3>3. CASE SlotTimeout(c) \/ AuthSlotTimeout(c)
      BY <2>5, <2>8, <3>3 DEF SlotTimeout, AuthSlotTimeout, Early
    <3>4. CASE Hello(c) \/ HelloFails(c)
      <4>1. free' = [free EXCEPT !.control = free.control + 1] /\ conn[c].at = "hello"
        BY <3>4 DEF Hello, HelloFails
      <4>2. free.control + 1 \in Nat
        BY <2>4
      <4>3. free' \in [control : Nat, auth : Nat] /\ free'.control = free.control + 1 /\ free'.auth = free.auth
        BY <2>6, <4>1, <4>2, Zenon
      <4>4. Balanced(conn[c].at, "gone") /\ Balanced(conn[c].at, "authorizing")
        BY <2>4, <4>1, <4>3 DEF Balanced
      <4> QED
        BY <2>7, <2>8, <3>4, <4>4 DEF Hello, HelloFails, Early
    <3>5. CASE TakeAuthSlot(c)
      <4>1. free' = [free EXCEPT !.auth = free.auth - 1] /\ free.auth - 1 \in Nat
        BY <2>4, <3>5 DEF TakeAuthSlot
      <4>2. free' \in [control : Nat, auth : Nat] /\ free'.auth = free.auth - 1
            /\ free'.control = free.control
        BY <2>6, <4>1, Zenon
      <4>3. Balanced(conn[c].at, "admitting")
        BY <2>4, <3>5, <4>2 DEF TakeAuthSlot, Balanced
      <4> QED
        BY <2>7, <3>5, <4>3 DEF TakeAuthSlot, Early
    <3>6. CASE AdmissionFails(c) \/ Unauthorized(c)
      <4>1. free' = [free EXCEPT !.auth = free.auth + 1] /\ conn[c].at = "admitting"
        BY <3>6 DEF AdmissionFails, Unauthorized
      <4>2. free.auth + 1 \in Nat
        BY <2>4
      <4>3. free' \in [control : Nat, auth : Nat] /\ free'.auth = free.auth + 1 /\ free'.control = free.control
        BY <2>6, <4>1, <4>2, Zenon
      <4>4. Balanced(conn[c].at, "gone")
        BY <2>4, <4>1, <4>3 DEF Balanced
      <4> QED
        BY <2>8, <3>6, <4>4 DEF AdmissionFails, Unauthorized
    <3> QED
      BY <3>1, <3>2, <3>3, <3>4, <3>5, <3>6
  <2> QED
    BY <2>9 DEF Goal
<1> QED
  BY <1>2, <1>3, EarlyMoves

\* The admission came back: the claim is made or not, and the slot is free again.
LEMMA ClaimStep ==
    ASSUME HandshakeInv, NEW c \in Conns, NEW l \in Labels, Claim(c, l)
    PROVE  HandshakeInv'
<1> USE DEF HandshakeInv
<1>1. /\ conn \in [Conns -> ConnRecs] /\ free \in [control : Nat, auth : Nat]
      /\ free.control \in Nat /\ free.auth \in Nat
  BY DEF HandshakeTypes
<1>2. /\ conn[c].at = "admitting" /\ UNCHANGED <<sup, tries, agents>>
      /\ free' = [free EXCEPT !.auth = free.auth + 1]
  BY DEF Claim, agentSide
<1>3. free.auth + 1 \in Nat
  BY <1>1
<1>4. free' \in [control : Nat, auth : Nat] /\ free'.auth = free.auth + 1 /\ free'.control = free.control
  BY <1>1, <1>2, <1>3, FreeMoves, Zenon
<1>5. \A q \in {"opening", "gone"} : Balanced(conn[c].at, q)
  BY <1>1, <1>2, <1>4 DEF Balanced
<1>6. ASSUME NEW a \in {"later", "refused"}, conn' = Left(c, a), UNCHANGED pending
      PROVE  HandshakeInv'
  <2>1. Changed(conn', c, Rec("gone", conn[c].label, a, conn[c].link))
    BY <1>1, <1>6, LeftChanges DEF Answers
  <2> QED
    BY <1>2, <1>5, <1>6, <2>1, EarlyMoves DEF Early
<1>7. CASE /\ MayClaim(c, l)
           /\ conn' = [conn EXCEPT ![c].at = "opening", ![c].label = l]
           /\ pending' = [pending EXCEPT ![l] = c]
  <2>1. Changed(conn', c, Rec("opening", l, conn[c].answer, conn[c].link))
    BY <1>1, <1>7, ClaimChanges
  <2>2. Tracked' /\ SlotsExact'
    BY <1>2, <1>5, <2>1, HandlerMoves
  <2>3. /\ \A x \in Conns : x # c => conn'[x] = conn[x]
        /\ conn'[c].at = "opening" /\ conn'[c].label = l /\ conn'[c].answer = "none"
    BY <1>2, <2>1 DEF Changed, Rec, Tables, Replies, ReplyOf, Early
  <2>4. /\ pending[l] = NoConn /\ pending' \in [Labels -> Conns \cup {NoConn}]
        /\ pending'[l] = c /\ \A m \in Labels : m # l => pending'[m] = pending[m]
    BY <1>7 DEF MayClaim, HandshakeTypes
  <2>5. \A m \in Labels : agents[m] # c /\ pending[m] # c
    BY <1>2, ConnsArePairs DEF Tables, RoutesAreServed
  <2>6. RoutesAreServed' /\ OwnLabels'
    BY <1>2, <2>3, <2>4, <2>5 DEF Tables, RoutesAreServed, OwnLabels, HandshakeTypes
  <2>7. Replies'
    BY <1>2, <2>3, <2>4, ConnsArePairs DEF Tables, Replies, ReplyOf, IsPending, Early
  <2> QED
    BY <1>2, <1>4, <2>1, <2>2, <2>4, <2>6, <2>7 DEF HandshakeTypes, Tables, Changed
<1> QED
  BY <1>6, <1>7 DEF Claim

\* After the claim: the sink's answer, ready, the install and the end, and a lease that
\* is revoked or expires on the way.
LEMMA LateStep ==
    ASSUME HandshakeInv, NEW c \in Conns,
           \/ SinkAccepts(c) \/ SinkFails(c) \/ Ready(c) \/ ReadyFails(c) \/ Install(c) \/ RunEnds(c)
           \/ RetirePending(c) \/ Retire(c)
    PROVE  HandshakeInv'
<1> USE DEF HandshakeInv
<1>1. conn \in [Conns -> ConnRecs] /\ free \in [control : Nat, auth : Nat]
  BY DEF HandshakeTypes
<1>2. /\ UNCHANGED <<sup, tries, free>>
      /\ conn[c].at \in {"opening", "readying", "installing", "running"}
  BY DEF SinkAccepts, SinkFails, Ready, ReadyFails, Install, RunEnds, RetirePending, Retire, agentSide,
         relayVars
<1>3. \A q : q \notin {"hello", "admitting"} => Balanced(conn[c].at, q)
  BY <1>1, <1>2 DEF Balanced
<1>4. ASSUME NEW q \in {"opening", "readying", "installing", "running", "gone"}, NEW a \in Answers,
             Changed(conn', c, Rec(q, conn[c].label, a, conn[c].link)),
             agents' \in [Labels -> Conns \cup {NoConn}], pending' \in [Labels -> Conns \cup {NoConn}],
             Tables'
      PROVE  HandshakeInv'
  <2>1. Tracked' /\ SlotsExact'
    BY <1>2, <1>3, <1>4, HandlerMoves
  <2> QED
    BY <1>2, <1>4, <2>1 DEF HandshakeTypes, Changed
<1>5. /\ PendingWithout(c) \in [Labels -> Conns \cup {NoConn}]
      /\ AgentsWithout(c) \in [Labels -> Conns \cup {NoConn}]
      /\ agents \in [Labels -> Conns \cup {NoConn}] /\ pending \in [Labels -> Conns \cup {NoConn}]
  BY DEF PendingWithout, AgentsWithout, HandshakeTypes
<1>6. (\A x \in Conns : conn'[x].at = IF x = c THEN "running" ELSE conn[x].at)
         => Tracked' /\ SlotsExact'
  BY <1>2, <1>3, PlacesMove
<1> USE DEF Tables, RoutesAreServed, OwnLabels, Replies, ReplyOf, IsPending
<1>7. CASE SinkAccepts(c)
  <2>1. CASE IsPending(c)
    <3>1. Changed(conn', c, Rec("readying", conn[c].label, conn[c].answer, conn[c].link))
      BY <1>1, <1>7, <2>1, AtChanges DEF SinkAccepts, Places
    <3>2. conn[c].at = "opening" /\ UNCHANGED <<agents, pending>> /\ conn[c].answer \in Answers
      BY <1>1, <1>7 DEF SinkAccepts, relayVars, ConnRecs
    <3>3. Tables'
      BY <1>5, <3>1, <3>2 DEF Changed, Rec, Early
    <3> QED
      BY <1>4, <1>5, <3>1, <3>2, <3>3
  <2>2. CASE ~IsPending(c)
    <3>1. Changed(conn', c, Rec("gone", conn[c].label, "later", conn[c].link))
      BY <1>1, <1>7, <2>2, LeftChanges DEF SinkAccepts, Answers
    <3>2. Tables'
      BY <1>5, <1>7, <2>2, <3>1 DEF SinkAccepts, Changed, Rec, Early, relayVars
    <3> QED
      BY <1>4, <1>5, <1>7, <3>1, <3>2 DEF SinkAccepts, relayVars, Answers
  <2> QED
    BY <2>1, <2>2
<1>8. CASE SinkFails(c) \/ ReadyFails(c)
  <2>1. /\ conn[c].at \in {"opening", "readying"} /\ conn' = Left(c, "later")
        /\ pending' = PendingWithout(c) /\ agents' = agents
    BY <1>8 DEF SinkFails, ReadyFails
  <2>2. Changed(conn', c, Rec("gone", conn[c].label, "later", conn[c].link))
    BY <1>1, <2>1, LeftChanges DEF Answers
  <2>3. Tables'
    BY <1>5, <2>1, <2>2, ConnsArePairs DEF Changed, Rec, Early, PendingWithout
  <2> QED
    BY <1>4, <1>5, <2>1, <2>2, <2>3 DEF Answers
<1>9. CASE Ready(c)
  <2> DEFINE a == IF conn[c].answer = "later" THEN "closed" ELSE "ready"
  <2>1. /\ conn[c].at = "readying" /\ UNCHANGED <<agents, pending>> /\ a \in Answers
        /\ conn' = [conn EXCEPT ![c].at = "installing", ![c].answer = a]
    BY <1>9 DEF Ready, relayVars, Answers
  <2>2. a = IF IsPending(c) THEN "ready" ELSE "closed"
    BY <2>1
  <2> HIDE DEF a
  <2>3. Changed(conn', c, Rec("installing", conn[c].label, a, conn[c].link))
    BY <1>1, <2>1, ReadyChanges
  <2>4. Tables'
    BY <1>5, <2>1, <2>2, <2>3 DEF Changed, Rec, Early
  <2> QED
    BY <1>4, <1>5, <2>1, <2>3, <2>4
<1>10. CASE RetirePending(c)
  <2> DEFINE a == IF conn[c].answer = "ready" THEN "closed" ELSE "later"
  <2>1. /\ conn[c].at \in {"opening", "readying", "installing"} /\ a \in Answers
        /\ pending' = PendingWithout(c) /\ agents' = agents
        /\ conn' = [conn EXCEPT ![c].answer = a]
    BY <1>10 DEF RetirePending, Answers
  <2>2. /\ conn[c].at = "installing" => a = "closed"
        /\ conn[c].at \in {"opening", "readying"} => a = "later"
    BY <1>10 DEF RetirePending
  <2> HIDE DEF a
  <2>3. Changed(conn', c, Rec(conn[c].at, conn[c].label, a, conn[c].link))
    BY <1>1, <2>1, AnswerChanges
  <2>4. Tables'
    BY <1>5, <2>1, <2>2, <2>3, ConnsArePairs DEF Changed, Rec, Early, PendingWithout
  <2> QED
    BY <1>4, <1>5, <2>1, <2>3, <2>4
<1>11. CASE Retire(c)
  <2>1. /\ conn[c].at = "running" /\ pending' = pending /\ agents' = AgentsWithout(c)
        /\ conn' = [conn EXCEPT ![c].answer = "retired"]
    BY <1>11 DEF Retire
  <2>2. Changed(conn', c, Rec(conn[c].at, conn[c].label, "retired", conn[c].link))
    BY <1>1, <2>1, AnswerChanges DEF Answers
  <2>3. Tables'
    BY <1>5, <2>1, <2>2, ConnsArePairs DEF Changed, Rec, Early, AgentsWithout
  <2> QED
    BY <1>4, <1>5, <2>1, <2>2, <2>3 DEF Answers
<1>12. CASE RunEnds(c)
  <2>1. /\ conn[c].at = "running" /\ pending' = pending /\ agents' = AgentsWithout(c)
        /\ conn' = At(c, "gone") /\ (conn[c].link = "down" \/ conn[c].answer # "ready")
    BY <1>12 DEF RunEnds
  <2>2. Changed(conn', c, Rec("gone", conn[c].label, conn[c].answer, conn[c].link))
    BY <1>1, <2>1, AtChanges DEF Places
  <2>3. Tables'
    BY <1>5, <2>1, <2>2, ConnsArePairs DEF Changed, Rec, Early, AgentsWithout
  <2> QED
    BY <1>1, <1>4, <1>5, <2>1, <2>2, <2>3 DEF ConnRecs
<1>13. CASE Install(c) /\ ~IsPending(c)
  <2>1. /\ conn[c].at = "installing" /\ pending' = PendingWithout(c) /\ agents' = agents
        /\ conn' = Left(c, "closed")
    BY <1>13 DEF Install
  <2>2. Changed(conn', c, Rec("gone", conn[c].label, "closed", conn[c].link))
    BY <1>1, <2>1, LeftChanges DEF Answers
  <2>3. Tables'
    BY <1>5, <2>1, <2>2, ConnsArePairs DEF Changed, Rec, Early, PendingWithout
  <2> QED
    BY <1>4, <1>5, <2>1, <2>2, <2>3 DEF Answers
<1>14. CASE Install(c) /\ IsPending(c)
  <2> DEFINE l == conn[c].label
             old == agents[l]
  <2>1. /\ conn[c].at = "installing" /\ l \in Labels /\ pending[l] = c
        /\ pending' = PendingWithout(c) /\ agents' = [agents EXCEPT ![l] = c]
        /\ conn' = Superseding(c) /\ conn[c].label = l
    BY <1>14 DEF Install
  <2>2. /\ conn' \in [Conns -> ConnRecs]
        /\ conn'[c] = Rec("running", l, conn[c].answer, conn[c].link)
        /\ \A x \in Conns : x # c /\ x # old => conn'[x] = conn[x]
        /\ old \in Conns /\ old # c =>
              conn'[old] = Rec(conn[old].at, conn[old].label, "closed", conn[old].link)
    <3>1. \A x \in Conns :
             /\ [conn[x] EXCEPT !.at = "running"]
                    = Rec("running", conn[x].label, conn[x].answer, conn[x].link)
             /\ [conn[x] EXCEPT !.answer = "closed"]
                    = Rec(conn[x].at, conn[x].label, "closed", conn[x].link)
      BY <1>1, RecMoves
    <3>2. \A x \in Conns :
             /\ Rec("running", conn[x].label, conn[x].answer, conn[x].link) \in ConnRecs
             /\ Rec(conn[x].at, conn[x].label, "closed", conn[x].link) \in ConnRecs
      BY <1>1 DEF Rec, ConnRecs, Places, Answers
    <3>3. conn' = [x \in Conns |-> IF x = c THEN [conn[x] EXCEPT !.at = "running"]
                                   ELSE IF x = old THEN [conn[x] EXCEPT !.answer = "closed"]
                                   ELSE conn[x]]
      BY <2>1, Zenon DEF Superseding
    <3>4. /\ DOMAIN conn' = Conns /\ conn' = [x \in Conns |-> conn'[x]]
          /\ \A x \in Conns :
                conn'[x] = IF x = c THEN Rec("running", conn[x].label, conn[x].answer, conn[x].link)
                           ELSE IF x = old THEN Rec(conn[x].at, conn[x].label, "closed", conn[x].link)
                           ELSE conn[x]
      BY <3>1, <3>3, ZenonT(40)
    <3>5. conn' \in [Conns -> ConnRecs]
      BY <1>1, <3>2, <3>4
    <3> QED
      BY <3>4, <3>5
  <2>3. old # NoConn => old \in Conns /\ old # c /\ conn[old].at = "running" /\ conn[old].label = l
    BY <1>5, <2>1
  <2> HIDE DEF l, old
  <2>4. \A x \in Conns : conn'[x].at = IF x = c THEN "running" ELSE conn[x].at
    BY <2>2, <2>3, ConnsArePairs DEF Rec
  <2>5. Tracked' /\ SlotsExact'
    BY <1>6, <2>4
  <2>6. agents' \in [Labels -> Conns \cup {NoConn}] /\ pending' \in [Labels -> Conns \cup {NoConn}]
    BY <1>5, <2>1
  <2>7. /\ \A m \in Labels : m # l => agents'[m] = agents[m] /\ pending'[m] = pending[m]
        /\ agents'[l] = c /\ pending'[l] = NoConn
    BY <1>5, <2>1, ConnsArePairs DEF PendingWithout
  <2>8. RoutesAreServed' /\ OwnLabels'
    BY <1>5, <2>1, <2>2, <2>3, <2>7, ConnsArePairs, SMTT(30) DEF Rec
  <2>9. Replies'
    <3> SUFFICES ASSUME NEW x \in Conns PROVE ReplyOf(x)'
      OBVIOUS
    <3>1. CASE x = c
      BY <1>5, <2>1, <2>2, <2>7, <3>1 DEF Rec, Early
    <3>2. CASE x # c /\ x = old
      BY <1>5, <2>1, <2>2, <2>3, <2>7, <3>2, ConnsArePairs DEF Rec, Early
    <3>3. CASE x # c /\ x # old
      <4>1. conn'[x] = conn[x]
        BY <2>2, <3>3
      <4>2. \A m \in Labels : (pending'[m] = x <=> pending[m] = x) /\ (agents'[m] = x <=> agents[m] = x)
        BY <1>5, <2>1, <2>7, <3>3, ConnsArePairs DEF old
      <4> QED
        BY <4>1, <4>2
    <3> QED
      BY <3>1, <3>2, <3>3
  <2> QED
    BY <1>2, <2>2, <2>5, <2>6, <2>8, <2>9 DEF HandshakeTypes
<1> QED
  BY <1>7, <1>8, <1>9, <1>10, <1>11, <1>12, <1>13, <1>14

\* Every step of the handshake keeps its part of the invariant.
LEMMA HandshakeStep ==
    ASSUME HandshakeInv, HandshakeNext
    PROVE  HandshakeInv'
<1>1. ASSUME NEW i, WindowPasses(i)
      PROVE  HandshakeInv'
  BY <1>1 DEF WindowPasses, HandshakeInv, HandshakeTypes, Tracked, Current, Tables, RoutesAreServed,
              OwnLabels, Replies, ReplyOf, IsPending, SlotsExact
<1>2. ASSUME NEW c \in Conns, Handle(c)
      PROVE  HandshakeInv'
  BY <1>2, EarlyStep, ClaimStep, LateStep DEF Handle
<1> QED
  BY <1>1, <1>2, AgentStep, LateStep DEF HandshakeNext

\* Nobody has connected yet.
LEMMA HandshakeStarts ==
    ASSUME NEW crowd, HandshakeInit(crowd)
    PROVE  HandshakeInv
<1>1. HandshakeTypes
  <2>1. sup \in [Agents -> SupRecs] /\ conn \in [Conns -> ConnRecs]
    BY DEF HandshakeInit, SupRecs, ConnRecs, Early, Places, Answers
  <2> QED
    BY <2>1, HandshakeAssumption DEF HandshakeInit, HandshakeTypes
<1>2. \A c \in Conns : conn[c].at = "none" /\ conn[c].answer = "none"
  BY DEF HandshakeInit
<1>3. \A a \in Agents : sup[a].pc \in {"idle", "stopped"}
  BY DEF HandshakeInit
<1>4. Tracked
  BY <1>2, <1>3 DEF Tracked
<1>5. Tables
  BY <1>2 DEF HandshakeInit, Tables, RoutesAreServed, OwnLabels, Replies, ReplyOf, Early
<1>6. SlotsExact
  <2>1. \A place : place # "none" => {c \in Conns : conn[c].at = place} = {}
    BY <1>2
  <2>2. /\ Cardinality({c \in Conns : conn[c].at = "hello"}) = 0
        /\ Cardinality({c \in Conns : conn[c].at = "admitting"}) = 0
    BY <2>1, FS_EmptySet
  <2> QED
    BY <2>2, HandshakeAssumption DEF SlotsExact, HandshakeInit
<1> QED
  BY <1>1, <1>4, <1>5, <1>6 DEF HandshakeInv

-----------------------------------------------------------------------------
(* Visitors                                                                *)

\* The visitors a source, an account counts.
Present(s) == {v \in People : PersonSource[v] = s /\ vis[v].at \notin {"new", "gone"}}
Holding(x) == {v \in Reserved : AccountOf[vis[v].to[1]] = x}

One(test) == IF test THEN 1 ELSE 0

\* The counts follow v into and out of the sets they count, and stay within their limits.
SlotsFollow(v) ==
    /\ inFlight' = inFlight + One(v \in Inside') - One(v \in Inside)
    /\ pool' = pool - One(v \in Inside') + One(v \in Inside) /\ pool' >= 0
IpsFollow(v) ==
    /\ ips' = [s \in Sources |-> ips'[s]]
    /\ \A s \in Sources :
          /\ ips'[s] = ips[s] + One(v \in Present(s)') - One(v \in Present(s))
          /\ ips'[s] > ips[s] =>
                /\ ips[s] < MaxPerSource
                /\ ips[s] = 0 => Cardinality({t \in Sources : ips[t] > 0}) < MaxVisitorIps
ActiveFollows(v) ==
    /\ active' = [x \in Accounts |-> active'[x]]
    /\ \A x \in Accounts :
          /\ active'[x] = active[x] + One(v \in Holding(x)') - One(v \in Holding(x))
          /\ active'[x] > active[x] => active[x] < MaxVisitors

\* A visitor moves and every count follows it.
LEMMA VisitorMoves ==
    ASSUME VisitorInv, NEW v \in People,
           \A w \in People : w # v => vis'[w] = vis[w],
           SlotsFollow(v), IpsFollow(v), ActiveFollows(v)
    PROVE  /\ pool' + Cardinality(Inside') = PoolSize /\ inFlight' = Cardinality(Inside')
           /\ \A s \in Sources : ips'[s] = Cardinality(Present(s)')
           /\ \A x \in Accounts : active'[x] = Cardinality(Holding(x)')
<1> USE DEF VisitorInv, SlotsFollow, IpsFollow, ActiveFollows
<1>1. \A w : w # v => /\ w \in Inside' <=> w \in Inside
                      /\ \A s : w \in Present(s)' <=> w \in Present(s)
                      /\ \A x : w \in Holding(x)' <=> w \in Holding(x)
  BY DEF Inside, Present, Holding, Reserved
<1>2. /\ IsFiniteSet(Inside)
      /\ \A s : IsFiniteSet(Present(s))
      /\ \A x : IsFiniteSet(Holding(x))
  BY VisitorsAssumption, FS_Subset DEF Inside, Present, Holding, Reserved
<1>3. /\ pool \in Int /\ inFlight \in Int /\ PoolSize \in Int
      /\ \A s \in Sources : ips[s] \in Int
      /\ \A x \in Accounts : active[x] \in Int
  BY VisitorsAssumption DEF VisitorTypes
<1>4. pool' + Cardinality(Inside') = PoolSize /\ inFlight' = Cardinality(Inside')
  <2>1. /\ Cardinality(Inside) \in Nat /\ Cardinality(Inside') \in Nat
        /\ Cardinality(Inside') = Cardinality(Inside) + One(v \in Inside') - One(v \in Inside)
    BY <1>1, <1>2, CountMoves DEF One
  <2>2. pool + Cardinality(Inside) = PoolSize /\ inFlight = Cardinality(Inside)
    BY DEF VisitorsCounted
  <2> QED
    BY <1>3, <2>1, <2>2 DEF One
<1>5. ASSUME NEW s \in Sources
      PROVE  ips'[s] = Cardinality(Present(s)')
  <2> DEFINE S == Present(s)
             T == Present(s)'
  <2>1. IsFiniteSet(S) /\ \A w : w # v => (w \in T <=> w \in S)
    BY <1>1, <1>2
  <2>2. /\ Cardinality(S) \in Nat /\ Cardinality(T) \in Nat
        /\ Cardinality(T) = Cardinality(S) + One(v \in T) - One(v \in S)
    <3> HIDE DEF S, T
    <3> QED
      BY <2>1, CountMoves DEF One
  <2>3. ips[s] = Cardinality(Present(s))
    BY DEF VisitorsCounted, Present
  <2> QED
    BY <1>3, <2>2, <2>3 DEF One
<1>6. ASSUME NEW x \in Accounts
      PROVE  active'[x] = Cardinality(Holding(x)')
  <2> DEFINE S == Holding(x)
             T == Holding(x)'
  <2>1. IsFiniteSet(S) /\ \A w : w # v => (w \in T <=> w \in S)
    BY <1>1, <1>2
  <2>2. /\ Cardinality(S) \in Nat /\ Cardinality(T) \in Nat
        /\ Cardinality(T) = Cardinality(S) + One(v \in T) - One(v \in S)
    <3> HIDE DEF S, T
    <3> QED
      BY <2>1, CountMoves DEF One
  <2>3. active[x] = Cardinality(Holding(x))
    BY DEF VisitorsCounted, Holding
  <2> QED
    BY <1>3, <2>2, <2>3 DEF One
<1> QED
  BY <1>4, <1>5, <1>6

\* The handler of v, and of no other visitor, is now as r says.
VisitorChanged(new, v, r) ==
    /\ new \in [People -> VisitorRecs]
    /\ new[v] = r
    /\ \A w \in People : w # v => new[w] = vis[w]

\* What Now does.
LEMMA NowChanges ==
    ASSUME vis \in [People -> VisitorRecs], NEW v \in People, NEW p \in VisitorPlaces
    PROVE  VisitorChanged(Now(v, p), v, [at |-> p, to |-> vis[v].to])
BY Zenon DEF Now, VisitorChanged, VisitorRecs, VisitorPlaces

\* A visitor that moves, with every count following it and none passing its limit,
\* keeps the invariant.
LEMMA VisitorKeeps ==
    ASSUME VisitorInv, NEW v \in People, NEW r,
           VisitorChanged(vis', v, r),
           r.at \in {"opening", "relaying"} => r.to \in Conns,
           SlotsFollow(v), IpsFollow(v), ActiveFollows(v)
    PROVE  VisitorInv'
<1>1. /\ pool' + Cardinality(Inside') = PoolSize /\ inFlight' = Cardinality(Inside')
      /\ \A s \in Sources : ips'[s] = Cardinality(Present(s)')
      /\ \A x \in Accounts : active'[x] = Cardinality(Holding(x)')
  BY VisitorMoves DEF VisitorChanged
<1> USE DEF SlotsFollow, IpsFollow, ActiveFollows
<1>2. /\ IsFiniteSet(Inside') /\ \A s : IsFiniteSet(Present(s)') /\ \A x : IsFiniteSet(Holding(x)')
  BY VisitorsAssumption, FS_Subset DEF Inside, Present, Holding, Reserved
<1>3. /\ inFlight' \in Nat
      /\ \A s \in Sources : ips'[s] \in Nat
      /\ \A x \in Accounts : active'[x] \in Nat
  BY <1>1, <1>2, FS_CardinalityType
<1>4. /\ pool \in Nat /\ \A s \in Sources : ips[s] \in Nat
      /\ \A x \in Accounts : active[x] \in Nat
      /\ \A s \in Sources : ips[s] <= MaxPerSource
      /\ \A x \in Accounts : active[x] <= MaxVisitors
      /\ {MaxPerSource, MaxVisitorIps, MaxVisitors} \subseteq Nat
  BY VisitorsAssumption DEF VisitorInv, VisitorTypes, VisitorsCounted
<1>5. VisitorTypes'
  <2>1. \A w \in Reserved' : vis'[w].to \in Conns
    BY DEF VisitorInv, VisitorTypes, Reserved, VisitorChanged
  <2>2. pool' \in Nat
    BY <1>4 DEF One
  <2> QED
    BY <1>3, <2>1, <2>2 DEF VisitorTypes, VisitorChanged
<1>6. \A s \in Sources : ips'[s] <= MaxPerSource
  <2> SUFFICES ASSUME NEW s \in Sources PROVE ips'[s] <= MaxPerSource
    OBVIOUS
  <2> DEFINE i == ips[s]
             j == ips'[s]
  <2>1. j = i + One(v \in Present(s)') - One(v \in Present(s))
    OBVIOUS
  <2>2. (j > i => i < MaxPerSource) /\ i \in Nat /\ j \in Nat /\ i <= MaxPerSource /\ MaxPerSource \in Nat
    BY <1>3, <1>4
  <2> HIDE DEF i, j
  <2>3. j <= MaxPerSource
    BY <2>1, <2>2 DEF One
  <2> QED
    BY <2>3 DEF j
<1>7. \A x \in Accounts : active'[x] <= MaxVisitors
  BY <1>3, <1>4 DEF One
<1>8. Cardinality({s \in Sources : ips'[s] > 0}) <= MaxVisitorIps
  <2> DEFINE S == {s \in Sources : ips[s] > 0}
             T == {s \in Sources : ips'[s] > 0}
             u == PersonSource[v]
  <2>1. \A s \in Sources : s # u => ips'[s] = ips[s]
    <3> SUFFICES ASSUME NEW s \in Sources, s # u PROVE ips'[s] = ips[s]
      OBVIOUS
    <3>1. v \notin Present(s) /\ v \notin Present(s)'
      BY DEF Present
    <3>2. ips[s] \in Nat /\ ips'[s] = ips[s] + One(v \in Present(s)') - One(v \in Present(s))
      BY <1>4
    <3> HIDE DEF u
    <3> QED
      BY <3>1, <3>2 DEF One
  <2>2. IsFiniteSet(S) /\ \A s : s # u => (s \in T <=> s \in S)
    BY <2>1, VisitorsAssumption, FS_Subset
  <2>3. u \in T /\ u \notin S => Cardinality(S) < MaxVisitorIps
    <3> SUFFICES ASSUME u \in T, u \notin S PROVE Cardinality(S) < MaxVisitorIps
      OBVIOUS
    <3>1. u \in Sources /\ ips[u] = 0 /\ ips'[u] > ips[u]
      BY <1>3, <1>4
    <3> QED
      BY <3>1
  <2>4. Cardinality(S) <= MaxVisitorIps
    BY DEF VisitorInv, VisitorsCounted
  <2>5. MaxVisitorIps \in Nat
    BY VisitorsAssumption
  <2> HIDE DEF S, T, u
  <2>6. /\ Cardinality(S) \in Nat /\ Cardinality(T) \in Nat
        /\ Cardinality(T) = Cardinality(S) + One(u \in T) - One(u \in S)
    BY <2>2, CountMoves DEF One
  <2>7. Cardinality(T) <= MaxVisitorIps
    BY <2>3, <2>4, <2>5, <2>6 DEF One
  <2> QED
    BY <2>7 DEF T
<1> QED
  BY <1>1, <1>5, <1>6, <1>7, <1>8 DEF VisitorInv, VisitorsCounted, Present, Holding

\* Which of the counts a visitor's place puts it in.
LEMMA VisitorCounts ==
    ASSUME NEW v \in People, NEW r, VisitorChanged(vis', v, r)
    PROVE  /\ v \in Inside <=> vis[v].at \in {"reading", "opening", "relaying", "replying"}
           /\ v \in Inside' <=> r.at \in {"reading", "opening", "relaying", "replying"}
           /\ \A s : v \in Present(s) <=> PersonSource[v] = s /\ vis[v].at \notin {"new", "gone"}
           /\ \A s : v \in Present(s)' <=> PersonSource[v] = s /\ r.at \notin {"new", "gone"}
           /\ \A x : v \in Holding(x) <=>
                        vis[v].at \in {"opening", "relaying"} /\ AccountOf[vis[v].to[1]] = x
           /\ \A x : v \in Holding(x)' <=> r.at \in {"opening", "relaying"} /\ AccountOf[r.to[1]] = x
BY DEF VisitorChanged, Inside, Present, Holding, Reserved

\* Between the first slot and the last, what the handler does to the counts of sources
\* and accounts: nothing, unless it says so.
LEMMA IpsMove ==
    ASSUME VisitorTypes, NEW v \in People
    PROVE  /\ ips = [s \in Sources |-> ips[s]] /\ active = [x \in Accounts |-> active[x]]
           /\ \A n \in {1, -1} :
                 /\ IpsWith(v, n) = [s \in Sources |-> IpsWith(v, n)[s]]
                 /\ \A s \in Sources :
                       IpsWith(v, n)[s] = IF s = PersonSource[v] THEN ips[s] + n ELSE ips[s]
           /\ \A s \in Sources : ips[s] \in Nat
           /\ \A x \in Accounts : active[x] \in Nat
           /\ pool \in Nat /\ inFlight \in Nat
BY DEF VisitorTypes, IpsWith

\* The floor of _release_visitor_budget is never reached by a visitor that holds a slot.
LEMMA ActiveMoves ==
    ASSUME VisitorInv, NEW v \in Reserved
    PROVE  LET y == AccountOf[vis[v].to[1]] IN
           /\ y \in Accounts
           /\ ActiveWithout(v) = [x \in Accounts |-> ActiveWithout(v)[x]]
           /\ \A x \in Accounts :
                 ActiveWithout(v)[x] = IF x = y THEN active[x] - 1 ELSE active[x]
<1> DEFINE y == AccountOf[vis[v].to[1]]
<1>1. y \in Accounts
  BY ConnsArePairs DEF VisitorInv, VisitorTypes, Accounts
<1>2. active \in [Accounts -> Nat]
  BY DEF VisitorInv, VisitorTypes
<1>3. active[y] >= 1
  <2>1. IsFiniteSet(Holding(y)) /\ v \in Holding(y)
    BY VisitorsAssumption, FS_Subset DEF Holding, Reserved
  <2>2. active[y] = Cardinality(Holding(y))
    BY <1>1 DEF VisitorInv, VisitorsCounted, Holding
  <2> HIDE DEF y
  <2>3. Cardinality(Holding(y)) > 0 /\ Cardinality(Holding(y)) \in Nat
    BY <2>1, CountMoves
  <2> QED
    BY <2>2, <2>3
<1>4. ActiveWithout(v) = [active EXCEPT ![y] = active[y] - 1]
  <2>1. (IF active[y] <= 1 THEN 0 ELSE active[y] - 1) = active[y] - 1
    BY <1>1, <1>2, <1>3
  <2>2. ActiveWithout(v) = [active EXCEPT ![y] = IF active[y] <= 1 THEN 0 ELSE active[y] - 1]
    BY Zenon DEF ActiveWithout
  <2> QED
    BY <2>1, <2>2, Zenon
<1> HIDE DEF y
<1>5. /\ ActiveWithout(v) = [x \in Accounts |-> ActiveWithout(v)[x]]
      /\ \A x \in Accounts :
            ActiveWithout(v)[x] = IF x = y THEN active[x] - 1 ELSE active[x]
  BY <1>1, <1>2, <1>4
<1> QED
  BY <1>1, <1>5 DEF y

\* A count that neither changes nor should change follows.
LEMMA StaysFollow ==
    ASSUME VisitorTypes, NEW v \in People
    PROVE  /\ UNCHANGED <<pool, inFlight>> /\ (v \in Inside' <=> v \in Inside) => SlotsFollow(v)
           /\ UNCHANGED ips /\ (\A s \in Sources : v \in Present(s)' <=> v \in Present(s))
                 => IpsFollow(v)
           /\ UNCHANGED active /\ (\A x \in Accounts : v \in Holding(x)' <=> v \in Holding(x))
                 => ActiveFollows(v)
BY DEF VisitorTypes, SlotsFollow, IpsFollow, ActiveFollows, One

\* _release_visitor_ip and _release_visitor_budget follow a visitor that leaves.
LEMMA ReleasesFollow ==
    ASSUME VisitorInv, NEW v \in People
    PROVE  /\ ips' = IpsWith(v, -1) /\ vis[v].at \notin {"new", "gone"} /\ (\A s : v \notin Present(s)')
                 => IpsFollow(v)
           /\ active' = ActiveWithout(v) /\ v \in Reserved /\ (\A x : v \notin Holding(x)')
                 => ActiveFollows(v)
<1>1. VisitorTypes
  BY DEF VisitorInv
<1>2. ASSUME ips' = IpsWith(v, -1), vis[v].at \notin {"new", "gone"}, \A s : v \notin Present(s)'
      PROVE  IpsFollow(v)
  <2>1. \A s \in Sources : ips[s] \in Nat /\ ips'[s] = IF s = PersonSource[v] THEN ips[s] - 1 ELSE ips[s]
    BY <1>1, <1>2 DEF VisitorTypes, IpsWith
  <2>2. ips' = [s \in Sources |-> ips'[s]]
    BY <1>1, <1>2, IpsMove
  <2>3. \A s \in Sources : v \in Present(s) <=> s = PersonSource[v]
    BY <1>2 DEF Present
  <2>4. \A s \in Sources : ips'[s] = ips[s] + One(v \in Present(s)') - One(v \in Present(s))
    BY <1>2, <2>1, <2>3 DEF One
  <2>5. \A s \in Sources : ~(ips'[s] > ips[s])
    BY <2>1
  <2> QED
    BY <2>2, <2>4, <2>5, Zenon DEF IpsFollow
<1>3. ASSUME active' = ActiveWithout(v), v \in Reserved, \A x : v \notin Holding(x)'
      PROVE  ActiveFollows(v)
  <2> DEFINE y == AccountOf[vis[v].to[1]]
  <2>1. /\ active' = [x \in Accounts |-> active'[x]]
        /\ \A x \in Accounts : active'[x] = IF x = y THEN active[x] - 1 ELSE active[x]
    BY <1>3, ActiveMoves
  <2>2. \A x \in Accounts : active[x] \in Nat /\ (v \in Holding(x) <=> x = y)
    BY <1>1, <1>3 DEF Holding, VisitorTypes
  <2> HIDE DEF y
  <2>4. \A x \in Accounts : active'[x] = active[x] + One(v \in Holding(x)') - One(v \in Holding(x))
    BY <1>3, <2>1, <2>2 DEF One
  <2>5. \A x \in Accounts : ~(active'[x] > active[x])
    BY <2>1, <2>2
  <2> QED
    BY <2>1, <2>4, <2>5, Zenon DEF ActiveFollows
<1> QED
  BY <1>2, <1>3

\* Every step of _handle_visitor keeps the counts exact and within their limits.
LEMMA VisitorStep ==
    ASSUME HandshakeTypes, VisitorInv, NEW v \in People, Receive(v)
    PROVE  VisitorInv'
<1>1. VisitorTypes /\ vis \in [People -> VisitorRecs]
  BY DEF VisitorInv, VisitorTypes
<1>2. ASSUME NEW p \in VisitorPlaces, vis' = Now(v, p)
      PROVE  VisitorChanged(vis', v, [at |-> p, to |-> vis[v].to])
  BY <1>1, <1>2, NowChanges
<1> DEFINE In == {"reading", "opening", "relaying", "replying"}
           Held == {"opening", "relaying"}
           Out == {"new", "gone"}
<1>3. ASSUME NEW p \in VisitorPlaces, vis' = Now(v, p), p \in Held => vis[v].at \in Held,
             SlotsFollow(v), IpsFollow(v), ActiveFollows(v)
      PROVE  VisitorInv'
  <2> DEFINE r == [at |-> p, to |-> vis[v].to]
  <2>1. VisitorChanged(vis', v, r)
    BY <1>2, <1>3
  <2>2. r.at \in {"opening", "relaying"} => r.to \in Conns
    BY <1>1, <1>3 DEF VisitorTypes, Reserved
  <2> HIDE DEF r
  <2> QED
    BY <1>3, <2>1, <2>2, VisitorKeeps
<1>4. ASSUME NEW p \in VisitorPlaces, vis' = Now(v, p)
      PROVE  /\ v \in Inside <=> vis[v].at \in In
             /\ v \in Inside' <=> p \in In
             /\ \A s : v \in Present(s) <=> PersonSource[v] = s /\ vis[v].at \notin Out
             /\ \A s : v \in Present(s)' <=> PersonSource[v] = s /\ p \notin Out
             /\ \A x : v \in Holding(x) <=> vis[v].at \in Held /\ AccountOf[vis[v].to[1]] = x
             /\ \A x : v \in Holding(x)' <=> p \in Held /\ AccountOf[vis[v].to[1]] = x
  <2> DEFINE r == [at |-> p, to |-> vis[v].to]
  <2>1. VisitorChanged(vis', v, r) /\ r.at = p /\ r.to = vis[v].to
    BY <1>2, <1>4
  <2> HIDE DEF r
  <2> QED
    BY <2>1, VisitorCounts
<1>5. pool \in Nat /\ inFlight \in Nat /\ (v \in Reserved <=> vis[v].at \in {"opening", "relaying"})
  BY <1>1, Zenon DEF VisitorTypes, Reserved
<1>6. \A p : p \in VisitorPlaces <=> p \in In \cup Out \cup {"queued", "busy"}
  BY DEF VisitorPlaces
<1>7. CASE Enter(v)
  <2>1. CASE ~MayEnter(v)
    <3>1. vis[v].at = "new" /\ vis' = Now(v, "gone") /\ UNCHANGED <<ips, pool, inFlight, active>>
      BY <1>7, <2>1 DEF Enter
    <3>2. SlotsFollow(v) /\ IpsFollow(v) /\ ActiveFollows(v)
      BY <1>1, <1>4, <1>6, <3>1, StaysFollow
    <3> QED
      BY <1>3, <1>6, <3>1, <3>2
  <2>2. CASE MayEnter(v)
    <3>1. /\ vis[v].at = "new" /\ vis' = Now(v, "queued") /\ ips' = IpsWith(v, 1)
          /\ UNCHANGED <<pool, inFlight, active>>
      BY <1>7, <2>2 DEF Enter
    <3>2. SlotsFollow(v) /\ ActiveFollows(v)
      BY <1>1, <1>4, <1>6, <3>1, StaysFollow
    <3>3. \A s \in Sources : s = PersonSource[v] =>
             /\ ips[s] < MaxPerSource
             /\ ips[s] = 0 => Cardinality({t \in Sources : ips[t] > 0}) < MaxVisitorIps
      BY <2>2, VisitorsAssumption DEF MayEnter
    <3>4. \A s \in Sources : v \notin Present(s) /\ (v \in Present(s)' <=> s = PersonSource[v])
      BY <1>4, <1>6, <3>1
    <3>5. \A s \in Sources : ips[s] \in Nat /\ ips'[s] = IF s = PersonSource[v] THEN ips[s] + 1 ELSE ips[s]
      BY <1>1, <3>1 DEF VisitorTypes, IpsWith
    <3>6. \A s \in Sources : ips'[s] = ips[s] + One(v \in Present(s)') - One(v \in Present(s))
      BY <3>4, <3>5 DEF One
    <3>7. \A s \in Sources : ips'[s] > ips[s] => s = PersonSource[v]
      BY <3>5
    <3>8. ips' = [s \in Sources |-> ips'[s]]
      BY <1>1, <3>1, IpsMove
    <3>9. IpsFollow(v)
      BY <3>3, <3>6, <3>7, <3>8, Zenon DEF IpsFollow
    <3> QED
      BY <1>3, <1>6, <3>1, <3>2, <3>9
  <2> QED
    BY <2>1, <2>2
<1>8. CASE TakePool(v)
  <2>1. /\ vis[v].at = "queued" /\ vis' = Now(v, "reading") /\ UNCHANGED <<ips, active>>
        /\ pool > 0 /\ pool' = pool - 1 /\ inFlight' = inFlight + 1
    BY <1>8 DEF TakePool
  <2>2. IpsFollow(v) /\ ActiveFollows(v)
    BY <1>1, <1>4, <1>6, <2>1, StaysFollow
  <2>3. v \in Inside' /\ v \notin Inside
    BY <1>4, <1>6, <2>1
  <2>4. SlotsFollow(v)
    BY <1>5, <2>1, <2>3 DEF SlotsFollow, One
  <2> QED
    BY <1>3, <1>6, <2>1, <2>2, <2>4
<1>9. CASE \/ PoolTimeout(v) \/ HeadFails(v) \/ Opened(v)
           \/ \E l \in Labels : Route(v, l) /\ vis' = Now(v, "replying") /\ UNCHANGED active
  <2>1. PICK p \in {"busy", "replying", "relaying"} :
           /\ vis' = Now(v, p) /\ UNCHANGED <<ips, active, pool, inFlight>>
           /\ <<vis[v].at, p>> \in {<<"queued", "busy">>, <<"reading", "replying">>, <<"opening", "relaying">>}
    BY <1>9 DEF PoolTimeout, HeadFails, Opened, Route
  <2>2. SlotsFollow(v) /\ IpsFollow(v) /\ ActiveFollows(v)
    BY <1>1, <1>4, <1>6, <2>1, StaysFollow
  <2> QED
    BY <1>3, <1>6, <2>1, <2>2
<1>10. CASE OpenFails(v)
  <2>1. /\ vis[v].at = "opening" /\ vis' = Now(v, "replying") /\ UNCHANGED <<ips, pool, inFlight>>
        /\ active' = ActiveWithout(v)
    BY <1>10 DEF OpenFails
  <2>2. SlotsFollow(v) /\ IpsFollow(v)
    BY <1>1, <1>4, <1>6, <2>1, StaysFollow
  <2>3. ActiveFollows(v)
    BY <1>4, <1>5, <1>6, <2>1, ReleasesFollow
  <2> QED
    BY <1>3, <1>6, <2>1, <2>2, <2>3
<1>11. CASE RelayEnds(v)
  <2>1. /\ vis[v].at = "relaying" /\ vis' = Now(v, "gone") /\ ips' = IpsWith(v, -1)
        /\ active' = ActiveWithout(v) /\ pool' = pool + 1 /\ inFlight' = inFlight - 1
    BY <1>11 DEF RelayEnds
  <2>2. IpsFollow(v) /\ ActiveFollows(v)
    BY <1>4, <1>5, <1>6, <2>1, ReleasesFollow
  <2>3. v \notin Inside' /\ v \in Inside
    BY <1>4, <1>6, <2>1
  <2>4. SlotsFollow(v)
    BY <1>5, <2>1, <2>3 DEF SlotsFollow, One
  <2> QED
    BY <1>3, <1>6, <2>1, <2>2, <2>4
<1>12. CASE Leave(v)
  <2>1. /\ vis[v].at \in {"replying", "busy"} /\ vis' = Now(v, "gone") /\ ips' = IpsWith(v, -1)
        /\ UNCHANGED active
    BY <1>12 DEF Leave
  <2>2. IpsFollow(v)
    BY <1>4, <1>6, <2>1, ReleasesFollow
  <2>3. ActiveFollows(v)
    BY <1>1, <1>4, <1>6, <2>1, StaysFollow
  <2>4. v \notin Inside' /\ (v \in Inside <=> vis[v].at = "replying")
    BY <1>4, <1>6, <2>1
  <2>5. SlotsFollow(v)
    BY <1>5, <1>12, <2>4 DEF Leave, SlotsFollow, One
  <2> QED
    BY <1>3, <1>6, <2>1, <2>2, <2>3, <2>5
<1>13. ASSUME NEW l \in Labels, Route(v, l), ~(vis' = Now(v, "replying") /\ UNCHANGED active)
       PROVE  VisitorInv'
  <2> DEFINE y == AccountOf[agents[l][1]]
             r == [at |-> "opening", to |-> agents[l]]
  <2>1. /\ vis[v].at = "reading" /\ agents[l] \in Conns /\ UNCHANGED <<ips, pool, inFlight>>
        /\ ~(active[y] >= MaxVisitors)
        /\ active' = [active EXCEPT ![y] = active[y] + 1]
        /\ vis' = [vis EXCEPT ![v] = r]
    BY <1>13 DEF Route, Reserve, HandshakeTypes
  <2>2. y \in Accounts
    BY <2>1, ConnsArePairs DEF Accounts
  <2>3. VisitorChanged(vis', v, r)
    <3>1. r \in VisitorRecs
      BY <2>1 DEF VisitorRecs, VisitorPlaces
    <3> HIDE DEF r
    <3> QED
      BY <1>1, <2>1, <3>1 DEF VisitorChanged
  <2>4. r.at = "opening" /\ r.to \in Conns /\ AccountOf[r.to[1]] = y
    BY <2>1
  <2> HIDE DEF r, y
  <2>5. /\ v \in Inside /\ v \in Inside'
        /\ \A s \in Sources : v \in Present(s)' <=> v \in Present(s)
        /\ \A x \in Accounts : v \notin Holding(x) /\ (v \in Holding(x)' <=> x = y)
    BY <2>1, <2>3, <2>4, VisitorCounts
  <2>6. SlotsFollow(v) /\ IpsFollow(v)
    BY <1>1, <2>1, <2>5, StaysFollow
  <2>7. /\ active' = [x \in Accounts |-> active'[x]] /\ MaxVisitors \in Nat
        /\ \A x \in Accounts : active[x] \in Nat /\ active'[x] = IF x = y THEN active[x] + 1 ELSE active[x]
    BY <1>1, <2>1, <2>2, VisitorsAssumption DEF VisitorTypes
  <2>8. \A x \in Accounts : active'[x] = active[x] + One(v \in Holding(x)') - One(v \in Holding(x))
    BY <2>5, <2>7 DEF One
  <2>9. \A x \in Accounts : active'[x] > active[x] => active[x] < MaxVisitors
    BY <2>1, <2>7
  <2>10. ActiveFollows(v)
    BY <2>7, <2>8, <2>9, Zenon DEF ActiveFollows
  <2> QED
    BY <2>3, <2>4, <2>6, <2>10, VisitorKeeps
<1> QED
  BY <1>7, <1>8, <1>9, <1>10, <1>11, <1>12, <1>13 DEF Receive

-----------------------------------------------------------------------------
(* Theorems                                                                *)

\* The invariant holds initially: nobody is inside.
LEMMA VisitorsStart == Init => IInv
<1> SUFFICES ASSUME Init PROVE IInv
  OBVIOUS
<1>1. PICK crowd \in Crowds :
         /\ HandshakeInit(crowd)
         /\ vis = [v \in People |-> [at |-> IF v \in crowd THEN "new" ELSE "gone", to |-> NoConn]]
  BY DEF Init
<1>2. HandshakeInv
  BY <1>1, HandshakeStarts
<1>3. vis \in [People -> VisitorRecs] /\ \A v \in People : vis[v].at \in {"new", "gone"}
  BY <1>1 DEF VisitorRecs, VisitorPlaces
<1>4. /\ Inside = {} /\ Reserved = {}
      /\ \A s : Present(s) = {}
      /\ \A x : Holding(x) = {}
      /\ {s \in Sources : ips[s] > 0} = {}
  BY <1>3 DEF Init, Inside, Reserved, Present, Holding
<1>5. VisitorTypes
  BY <1>3, <1>4, VisitorsAssumption DEF Init, VisitorTypes
<1>6. VisitorsCounted
  <2>1. /\ pool + Cardinality(Inside) = PoolSize /\ inFlight = Cardinality(Inside)
        /\ \A s \in Sources : ips[s] = Cardinality(Present(s)) /\ ips[s] <= MaxPerSource
        /\ \A x \in Accounts : active[x] = Cardinality(Holding(x)) /\ active[x] <= MaxVisitors
        /\ Cardinality({s \in Sources : ips[s] > 0}) <= MaxVisitorIps
    BY <1>4, VisitorsAssumption, FS_EmptySet DEF Init
  <2> QED
    BY <2>1 DEF VisitorsCounted, Present, Holding
<1> QED
  BY <1>2, <1>5, <1>6 DEF IInv, VisitorInv

\* Every step of the two programs keeps it.
LEMMA VisitorsKeep == IInv /\ [Next]_vars => IInv'
<1> SUFFICES ASSUME IInv, [Next]_vars PROVE IInv'
  OBVIOUS
<1> USE DEF IInv
<1>1. CASE HandshakeNext /\ UNCHANGED visitorVars
  <2>1. HandshakeInv'
    BY <1>1, HandshakeStep
  <2>2. VisitorInv'
    BY <1>1 DEF visitorVars, VisitorInv, VisitorTypes, VisitorsCounted, Inside, Reserved
  <2> QED
    BY <2>1, <2>2
<1>2. ASSUME NEW v \in People, Receive(v)
      PROVE  IInv'
  <2>1. UNCHANGED handshakeVars
    BY <1>2 DEF Receive, Enter, TakePool, PoolTimeout, HeadFails, Route, Opened, OpenFails, RelayEnds, Leave
  <2>2. HandshakeInv'
    BY <2>1 DEF handshakeVars, agentSide, relayVars, HandshakeInv, HandshakeTypes, Tracked, Current, Tables,
                RoutesAreServed, OwnLabels, Replies, ReplyOf, IsPending, SlotsExact
  <2>3. VisitorInv'
    BY <1>2, VisitorStep DEF HandshakeInv
  <2> QED
    BY <2>2, <2>3
<1>3. CASE UNCHANGED vars
  BY <1>3, SMTT(30) DEF vars, visitorVars, handshakeVars, agentSide, relayVars, HandshakeInv, HandshakeTypes, Tracked,
              Current, Tables, RoutesAreServed, OwnLabels, Replies, ReplyOf, IsPending, SlotsExact,
              VisitorInv, VisitorTypes, VisitorsCounted, Inside, Reserved
<1> QED
  BY <1>1, <1>2, <1>3 DEF Next

\* The inductive invariant holds in every reachable state of the two programs.
THEOREM InvariantHolds == Spec => []IInv
BY VisitorsStart, VisitorsKeep, PTL DEF Spec

\* The routing table names only connections whose handler is running under that label,
\* for any number of agents, attempts and interleavings of claims, revocations,
\* takeovers and ends (_agents of server.py).
THEOREM RoutesStayServed == Spec => []RoutesAreServed
<1>1. IInv => RoutesAreServed
  BY DEF IInv, HandshakeInv, Tables
<1> QED
  BY <1>1, InvariantHolds, PTL

\* An agent that reports its tunnel and still hears the relay has the claim or the
\* route of its label, however late its ready frame was and whatever happened to the
\* lease meanwhile (_handle_agent and the client's serve_forever).
THEOREM ConnectedIsRouted == Spec => []ConnectedMeansRouted
<1>1. IInv => ConnectedMeansRouted
  <2> SUFFICES ASSUME IInv, NEW a \in Agents, sup[a].pc = "running", Hears(a), Answer(a) = "ready"
               PROVE  \/ agents[conn[Current(a)].label] = Current(a)
                      \/ pending[conn[Current(a)].label] = Current(a)
    BY DEF ConnectedMeansRouted
  <2> DEFINE c == Current(a)
  <2>1. c \in Conns
    BY ConnsArePairs DEF IInv, HandshakeInv, Tracked, Current
  <2>2. conn[c].link = "up" /\ conn[c].answer = "ready"
    BY DEF Hears, Answer
  <2>3. ReplyOf(c) /\ conn[c] \in ConnRecs
    BY <2>1 DEF IInv, HandshakeInv, HandshakeTypes, Tables, Replies
  <2> HIDE DEF c
  <2>4. agents[conn[c].label] = c \/ pending[conn[c].label] = c
    BY <2>2, <2>3 DEF ReplyOf, IsPending, ConnRecs, Places
  <2> QED
    BY <2>4 DEF c
<1> QED
  BY <1>1, InvariantHolds, PTL

-----------------------------------------------------------------------------
(* The failed-auth map                                                     *)

IsSeq(q) == q \in Seq({q[i] : i \in DOMAIN q})
LimiterInv == IsSeq(authFails) /\ LimiterCapped

\* What has the places 1 .. n is a sequence of n entries.
LEMMA PlacesMakeSeq ==
    ASSUME NEW n \in Nat, NEW q, DOMAIN q = 1 .. n, q = [i \in 1 .. n |-> q[i]]
    PROVE  IsSeq(q) /\ Len(q) = n
<1> DEFINE S == {q[i] : i \in DOMAIN q}
<1>1. q \in [1 .. n -> S]
  OBVIOUS
<1> HIDE DEF S
<1>2. q \in Seq(S) /\ Len(q) = n
  BY <1>1
<1> QED
  BY <1>2 DEF S, IsSeq

\* A sequence has as many places as its length says.
LEMMA SeqPlaces ==
    ASSUME NEW q, IsSeq(q)
    PROVE  Len(q) \in Nat /\ DOMAIN q = 1 .. Len(q)
BY DEF IsSeq

\* Dropping entries leaves a sequence that is no longer than it was.
LEMMA KeptIsShorter ==
    ASSUME NEW q, IsSeq(q), NEW places \in SUBSET DOMAIN q
    PROVE  IsSeq(Kept(q, places)) /\ Len(Kept(q, places)) <= Len(q)
<1>1. Len(q) \in Nat /\ DOMAIN q = 1 .. Len(q)
  BY SeqPlaces
<1>2. IsFiniteSet(1 .. Len(q)) /\ Cardinality(1 .. Len(q)) = Len(q)
  BY <1>1, FS_Interval
<1>3. IsFiniteSet(places) /\ Cardinality(places) <= Len(q)
  BY <1>1, <1>2, FS_Subset
<1>4. Cardinality(places) \in Nat
  BY <1>3, FS_CardinalityType
<1> DEFINE n == Cardinality(places)
           z == Kept(q, places)
<1>5. DOMAIN z = 1 .. n /\ z = [i \in 1 .. n |-> z[i]]
  BY DEF Kept
<1> HIDE DEF n, z
<1>6. n \in Nat /\ n <= Len(q)
  BY <1>3, <1>4 DEF n
<1>7. IsSeq(z) /\ Len(z) = n
  BY <1>5, <1>6, PlacesMakeSeq
<1> QED
  BY <1>6, <1>7 DEF z

\* _record_auth_fail leaves a map within the cap, whatever the sweep found.
LEMMA RecordedIsCapped ==
    ASSUME LimiterInv, NEW s
    PROVE  IsSeq(Recorded(s)) /\ Len(Recorded(s)) <= MaxSources
<1> DEFINE c == Counted(s)
           q == Swept(c)
<1>0. MaxSources \in Nat
  BY HandshakeAssumption
<1>1. IsSeq(c)
  <2> DEFINE n == Len(authFails)
             f == [source |-> s, fresh |-> 1]
             a == [i \in DOMAIN authFails |->
                     IF authFails[i].source = s THEN [authFails[i] EXCEPT !.fresh = @ + 1] ELSE authFails[i]]
             b == Append(authFails, f)
  <2>1. n \in Nat /\ DOMAIN authFails = 1 .. n
    BY SeqPlaces DEF LimiterInv
  <2>2. IsSeq(a)
    <3>1. DOMAIN a = 1 .. n /\ a = [i \in 1 .. n |-> a[i]]
      BY <2>1
    <3> HIDE DEF a, n
    <3> QED
      BY <2>1, <3>1, PlacesMakeSeq
  <2>3. IsSeq(b)
    <3> DEFINE S == {authFails[i] : i \in DOMAIN authFails} \cup {f}
    <3>1. authFails \in Seq(S) /\ f \in S
      BY DEF LimiterInv, IsSeq
    <3> HIDE DEF S, f
    <3>2. b \in Seq(S)
      BY <3>1
    <3> HIDE DEF b
    <3>3. Len(b) \in Nat /\ b \in [1 .. Len(b) -> S]
      BY <3>2
    <3>4. DOMAIN b = 1 .. Len(b) /\ b = [i \in 1 .. Len(b) |-> b[i]]
      BY <3>3
    <3> QED
      BY <3>3, <3>4, PlacesMakeSeq
  <2> HIDE DEF n, f, a, b
  <2>4. c = a \/ c = b
    BY DEF Counted, a, b, f
  <2> QED
    BY <2>2, <2>3, <2>4
<1> HIDE DEF c
<1>2. IsSeq(q)
  <2>1. {i \in DOMAIN c : c[i].fresh > 0} \in SUBSET DOMAIN c
    OBVIOUS
  <2> QED
    BY <1>1, <2>1, KeptIsShorter DEF Swept
<1> HIDE DEF q
<1>3. Len(q) \in Nat /\ DOMAIN q = 1 .. Len(q)
  BY <1>2, SeqPlaces
<1>4. Recorded(s) = IF Len(q) > MaxSources THEN SubSeq(q, Len(q) - MaxSources + 1, Len(q)) ELSE q
  BY DEF Recorded, q, c
<1>5. CASE Len(q) > MaxSources
  <2> DEFINE z == SubSeq(q, Len(q) - MaxSources + 1, Len(q))
             S == {q[i] : i \in DOMAIN q}
  <2>1. q \in Seq(S)
    BY <1>2 DEF IsSeq
  <2> HIDE DEF S
  <2>2. DOMAIN z = 1 .. MaxSources /\ z = [i \in 1 .. MaxSources |-> z[i]]
    BY <1>0, <1>3, <1>5, <2>1
  <2> HIDE DEF z
  <2>3. IsSeq(z) /\ Len(z) = MaxSources
    BY <1>0, <2>2, PlacesMakeSeq
  <2> QED
    BY <1>0, <1>4, <1>5, <2>3 DEF z
<1>6. CASE ~(Len(q) > MaxSources)
  BY <1>0, <1>2, <1>3, <1>4, <1>6
<1> QED
  BY <1>5, <1>6

\* What a step does to the map.
LEMMA LimiterMoves ==
    ASSUME [Next]_vars
    PROVE  \/ authFails' = authFails
           \/ \E c \in Conns : authFails' \in {Pruned(Source(c)), Recorded(Source(c))}
           \/ \E i \in DOMAIN authFails : authFails' = [authFails EXCEPT ![i].fresh = @ - 1]
<1>1. ASSUME NEW a \in Agents, Supervise(a) \/ RequestStop(a) \/ Cut(a)
      PROVE  authFails' = authFails
  BY <1>1 DEF Supervise, Attempt, LoopEnds, Connect, ConnectFails, HearReady, HearRefusal, HearNothing,
              BackoffEnds, RunRaises, RunReturns, Drain, RequestStop, Cut, relayVars
<1>2. ASSUME NEW c \in Conns, Handle(c) \/ RetirePending(c) \/ Retire(c)
      PROVE  authFails' = authFails \/ authFails' \in {Pruned(Source(c)), Recorded(Source(c))}
  BY <1>2 DEF Handle, CheckRate, TakeSlot, SlotTimeout, Hello, HelloFails, TakeAuthSlot, AuthSlotTimeout,
              AdmissionFails, Unauthorized, Claim, SinkAccepts, SinkFails, Ready, ReadyFails, Install,
              RunEnds, RetirePending, Retire, relayVars
<1>3. ASSUME NEW v \in People, Receive(v)
      PROVE  authFails' = authFails
  BY <1>3 DEF Receive, Enter, TakePool, PoolTimeout, HeadFails, Route, Reserve, Opened, OpenFails,
              RelayEnds, Leave, handshakeVars
<1>4. ASSUME NEW i, WindowPasses(i)
      PROVE  \E j \in DOMAIN authFails : authFails' = [authFails EXCEPT ![j].fresh = @ - 1]
  BY <1>4 DEF WindowPasses
<1>5. UNCHANGED vars => authFails' = authFails
  BY DEF vars, handshakeVars
<1> QED
  BY <1>1, <1>2, <1>3, <1>4, <1>5 DEF Next, HandshakeNext

\* The map stays a sequence within its cap.
LEMMA LimiterKeeps == LimiterInv /\ [Next]_vars => LimiterInv'
<1> SUFFICES ASSUME LimiterInv, [Next]_vars PROVE IsSeq(authFails') /\ Len(authFails') <= MaxSources
  BY DEF LimiterInv, LimiterCapped
<1>0. /\ MaxSources \in Nat /\ Len(authFails) \in Nat /\ Len(authFails) <= MaxSources
      /\ DOMAIN authFails = 1 .. Len(authFails) /\ IsSeq(authFails)
  BY HandshakeAssumption, SeqPlaces DEF LimiterInv, LimiterCapped
<1>1. CASE authFails' = authFails
  BY <1>0, <1>1
<1>2. ASSUME NEW c \in Conns, authFails' = Pruned(Source(c))
      PROVE  IsSeq(authFails') /\ Len(authFails') <= MaxSources
  <2> DEFINE T == {i \in DOMAIN authFails : authFails[i].source # Source(c) \/ authFails[i].fresh > 0}
  <2>1. T \in SUBSET DOMAIN authFails /\ authFails' = Kept(authFails, T)
    BY <1>2 DEF Pruned
  <2> HIDE DEF T
  <2>2. IsSeq(authFails') /\ Len(authFails') <= Len(authFails)
    BY <1>0, <2>1, KeptIsShorter
  <2>3. Len(authFails') \in Nat
    BY <2>2, SeqPlaces
  <2> QED
    BY <1>0, <2>2, <2>3
<1>3. ASSUME NEW c \in Conns, authFails' = Recorded(Source(c))
      PROVE  IsSeq(authFails') /\ Len(authFails') <= MaxSources
  BY <1>3, RecordedIsCapped
<1>4. ASSUME NEW i \in DOMAIN authFails, authFails' = [authFails EXCEPT ![i].fresh = @ - 1]
      PROVE  IsSeq(authFails') /\ Len(authFails') <= MaxSources
  <2>1. DOMAIN authFails' = DOMAIN authFails /\ authFails' = [j \in DOMAIN authFails |-> authFails'[j]]
    BY <1>4
  <2>2. IsSeq(authFails') /\ Len(authFails') = Len(authFails)
    BY <1>0, <2>1, PlacesMakeSeq
  <2> QED
    BY <1>0, <2>2
<1> QED
  BY <1>1, <1>2, <1>3, <1>4, LimiterMoves

\* The semaphores, the source map and the accounts' counts are exactly what the
\* handlers in their sections hold, no count passes its limit and the failed-auth map
\* keeps to its cap: nothing leaks on any path through _handle_agent and _handle_visitor.
THEOREM CountsStayExact == Spec => []CountsExact
<1>1. IInv /\ LimiterInv => CountsExact
  BY DEF IInv, HandshakeInv, VisitorInv, LimiterInv, CountsExact
<1>2. Init => LimiterInv
  <2> SUFFICES ASSUME Init PROVE LimiterInv
    OBVIOUS
  <2>1. authFails = <<>>
    BY DEF Init, HandshakeInit
  <2> QED
    BY <2>1, HandshakeAssumption DEF LimiterInv, IsSeq, LimiterCapped
<1> QED
  BY <1>1, <1>2, LimiterKeeps, InvariantHolds, PTL DEF Spec

=============================================================================
