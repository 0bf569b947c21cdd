------------------------------ MODULE MuxProofs ------------------------------
(***************************************************************************)
(* Proofs about Mux, for every window, limit, number of streams and        *)
(* environment: first the invariant IInv and what follows from it, then    *)
(* that terminals are final, then that every direction of every stream is  *)
(* a CreditLane, which needs LanesOK beside IInv.                          *)
(***************************************************************************)
EXTENDS Mux, SumProofs, FiniteSetTheorems

Places == {"absent", "live", "closed"}
Terminals == {"OPEN", "EOF", "RESET"}
StreamRecs ==
    [st : Places, recv : Terminals, incoming : Seq(Nat), buffered : Nat, frames : Nat,
     unacked : Nat, window : Nat, ended : BOOLEAN, left : Nat, parked : BOOLEAN,
     waiter : BOOLEAN, held : Nat, over : BOOLEAN, resetTask : BOOLEAN]
Breaches == {"stream_bytes", "stream_frames", "connection_bytes", "connection_frames", "account_buffer"}
MuxRecs ==
    [buffered : Nat, frames : Nat, account : Nat, goingAway : BOOLEAN,
     peerGoingAway : BOOLEAN, ignored : Nat, resetSends : SUBSET Sids,
     ws : {"open", "closing", "lost"}, running : BOOLEAN, drain : {"no", "waiting", "done"},
     breach : SUBSET Breaches]
LogRecs == [sent : Nat, fed : Nat, resets : Nat]

\* Types, and what is known of the environment.
MuxTypes ==
    /\ stream \in [Ends -> [Sids -> StreamRecs]]
    /\ mux \in [Ends -> MuxRecs]
    /\ wire \in [Ends -> Seq(Frames)]
    /\ nextId \in Nat \ {0}
    /\ log \in [Ends -> [Sids -> LogRecs]]
EnvTypes ==
    /\ {"maxStreams", "account", "chunks", "injected"} \subseteq DOMAIN env
    /\ env.maxStreams \in Nat /\ env.account \in Nat /\ env.chunks \subseteq Nat \ {0}
    /\ env.injected \in BOOLEAN

\* A stream's own counters are what is in its queue while it is live, and nothing
\* otherwise; only its terminal puts the sentinel there.
StreamOK(r) ==
    /\ r.st = "absent" => r = NoStream
    /\ r.st # "live" => r.buffered = 0 /\ r.frames = 0
    /\ r.st = "live" => r.buffered = QueuedBytes(r) /\ r.frames = QueuedFrames(r)
    /\ r.recv = "OPEN" => ~r.over /\ \A i \in DOMAIN r.incoming : r.incoming[i] # None
    /\ r.buffered <= StreamHardMax /\ r.frames <= MaxQueuedFrames /\ r.window <= MaxSendWindow
StreamsOK == \A e \in Ends, s \in Sids : StreamOK(stream[e][s])

\* The connection's counters are the sums over its streams, and within the limits.
ConnOK(e) ==
    /\ mux[e].buffered = SumSeq([s \in Sids |-> stream[e][s].buffered])
    /\ mux[e].frames = SumSeq([s \in Sids |-> stream[e][s].frames])
    /\ mux[e].account = IF e = Server THEN mux[e].buffered ELSE 0
    /\ mux[e].buffered <= MaxConnBuffered /\ mux[e].frames <= MaxConnFrames
    /\ mux[e].account <= env.account
    /\ Cardinality(LiveStreams(e)) <= env.maxStreams
Books == StreamsOK /\ \A e \in Ends : ConnOK(e)

\* The order of the frames of stream s among those under way.
Ordered(w, s) ==
    \A i, j \in DOMAIN w : (i < j /\ w[i].sid = s /\ w[j].sid = s) =>
        /\ w[i].type # "RESET" /\ w[j].type # "OPEN"
        /\ w[i].type = "EOF" => w[j].type \in {"WINDOW_UPDATE", "RESET"}

\* What end e and its half of the wire say about stream s.
Kinds(w, s) == {t \in FrameTypes : Has(w, s, t)}
ViewOf(r, l, resetSends, w, s) ==
    [st |-> r.st, recv |-> r.recv, ended |-> r.ended, window |-> r.window, held |-> r.held,
     unacked |-> r.unacked, queued |-> QueuedBytes(r), sent |-> l.sent, fed |-> l.fed,
     resets |-> l.resets, due |-> IF s \in resetSends THEN 1 ELSE 0, under |-> Kinds(w, s),
     data |-> Bytes(w, s, "DATA"), grants |-> Bytes(w, s, "WINDOW_UPDATE")]
Views ==
    [st : Places, recv : Terminals, ended : BOOLEAN, window : Nat, held : Nat, unacked : Nat,
     queued : Nat, sent : Nat, fed : Nat, resets : Nat, due : {0, 1}, under : SUBSET FrameTypes,
     data : Nat, grants : Nat]
View(e, s) == ViewOf(stream[e][s], log[e][s], mux[e].resetSends, wire[e], s)

\* An id is opened once, in order, and the agent has neither seen nor refused one whose
\* OPEN is still under way; only the agent refuses ids.  v is what end e says, q its peer.
IdsOK(e, v, q, s, next) ==
    LET server == IF e = Server THEN v ELSE q
        agent == IF e = Server THEN q ELSE v
    IN /\ server.st = "absent" <=> s >= next
       /\ s >= next =>
             /\ agent.st = "absent"
             /\ server.resets = 0 /\ agent.resets = 0 /\ agent.due = 0
       /\ "OPEN" \notin agent.under
       /\ "OPEN" \in server.under =>
             agent.st = "absent" /\ agent.resets = 0 /\ agent.due = 0
       /\ server.due = 0

\* What an end has put on the wire agrees with what it has done.
SentOK(v) ==
    /\ v.st = "absent" => v.sent = 0 /\ v.fed = 0 /\ v.under \subseteq {"RESET"}
    /\ v.resets <= 1
    /\ v.resets # 0 => v.st # "live" /\ v.due = 0
    /\ "RESET" \in v.under => v.resets # 0
    /\ v.due # 0 => v.st = "absent"
    /\ "EOF" \in v.under => v.ended

\* One direction, from v to q: a byte framed is queued at the peer or under way as long
\* as the peer listens, a clean end has everything (but the server's own, for an OPEN
\* that could not be sent or never arrived), and no credit is minted.
LaneOK(v, q) ==
    /\ (q.st = "live" /\ q.recv = "OPEN") \/ "OPEN" \in v.under => q.fed + v.data = v.sent
    /\ q.fed <= v.sent
    /\ q.recv = "EOF" =>
          \/ v.ended /\ q.fed = v.sent
          \/ v.st = "absent" /\ "OPEN" \notin q.under
    /\ v.window + (v.sent - q.fed) + q.queued + q.held + q.unacked + q.grants
          <= IF v.st = "absent" THEN 0 ELSE W

Agree(e, v, q, s, next) ==
    /\ IdsOK(e, v, q, s, next)
    /\ SentOK(v) /\ SentOK(q) /\ LaneOK(v, q) /\ LaneOK(q, v)

SidOK(s) ==
    /\ Agree(Server, View(Server, s), View(Agent, s), s, nextId)
    /\ \A e \in Ends : Ordered(wire[e], s)

\* What holds between two chute ends.
Protocol ==
    /\ \A e \in Ends : \A i \in DOMAIN wire[e] : wire[e][i].ok
    /\ \A e \in Ends : mux[e].breach \cap {"stream_bytes", "stream_frames"} = {}
    /\ \A s \in Sids : SidOK(s)

\* The server has no stream under an id it has not given out.
Fresh == \A s \in Sids : s >= nextId => stream[Server][s].st = "absent"

IInv == MuxTypes /\ EnvTypes /\ Books /\ Fresh /\ (Compliant => Protocol)

-----------------------------------------------------------------------------
(* Frames under way                                                        *)

\* The amounts Bytes adds up.
Amounts(w, s, t) == [i \in DOMAIN w |-> IF w[i].sid = s /\ w[i].type = t THEN w[i].n ELSE 0]
Match(f, s, t) == IF f.sid = s /\ f.type = t THEN f.n ELSE 0

\* The fields of a frame.
LEMMA FrameFields ==
    /\ \A f \in Frames : f.type \in FrameTypes /\ f.sid \in 0 .. MaxSid /\ f.n \in Nat /\ f.ok \in BOOLEAN
    /\ \A f \in Frames : \A s, t : Match(f, s, t) \in Nat
BY DEF Frames, Match

\* They are a sequence of numbers.
LEMMA AmountsType ==
    ASSUME NEW w \in Seq(Frames), NEW s, NEW t
    PROVE  /\ Amounts(w, s, t) \in Seq(Nat) /\ Len(Amounts(w, s, t)) = Len(w)
           /\ \A i \in 1 .. Len(w) : Amounts(w, s, t)[i] = Match(w[i], s, t)
<1>1. \A i \in 1 .. Len(w) : Match(w[i], s, t) \in Nat
  <2>1. \A i \in 1 .. Len(w) : w[i] \in Frames
    OBVIOUS
  <2> QED
    BY <2>1, FrameFields
<1>2. DOMAIN w = 1 .. Len(w) /\ Len(w) \in Nat
  OBVIOUS
<1>3. Amounts(w, s, t) = [i \in 1 .. Len(w) |-> Match(w[i], s, t)]
  BY <1>2, Zenon DEF Amounts, Match
<1> QED
  BY <1>1, <1>2, <1>3

\* A frame is sent.
LEMMA WireAppend ==
    ASSUME NEW w \in Seq(Frames), NEW f \in Frames, NEW s
    PROVE  LET v == Append(w, f) IN
           /\ v \in Seq(Frames)
           /\ \A t : Has(v, s, t) <=> Has(w, s, t) \/ (f.sid = s /\ f.type = t)
           /\ \A t : Bytes(v, s, t) = Bytes(w, s, t) + Match(f, s, t)
           /\ ( /\ Ordered(w, s)
                /\ f.sid = s =>
                     /\ ~Has(w, s, "RESET")
                     /\ Has(w, s, "EOF") => f.type \in {"WINDOW_UPDATE", "RESET"}
                     /\ f.type = "OPEN" => \A t \in FrameTypes : ~Has(w, s, t) )
              => Ordered(v, s)
<1> DEFINE v == Append(w, f)
<1>1. /\ v \in Seq(Frames) /\ Len(v) = Len(w) + 1 /\ v[Len(w) + 1] = f /\ Len(w) \in Nat
      /\ \A i \in 1 .. Len(w) : v[i] = w[i]
      /\ DOMAIN v = 1 .. Len(w) + 1 /\ DOMAIN w = 1 .. Len(w)
  OBVIOUS
<1>2. \A i \in DOMAIN w : w[i] \in Frames
  OBVIOUS
<1>3. ASSUME NEW t
      PROVE  Bytes(v, s, t) = Bytes(w, s, t) + Match(f, s, t)
  <2>1. Amounts(v, s, t) = Append(Amounts(w, s, t), Match(f, s, t))
    <3> HIDE DEF v
    <3>1. Match(f, s, t) \in Nat
      BY DEF Match, Frames
    <3>2. /\ Amounts(w, s, t) \in Seq(Nat) /\ Len(Amounts(w, s, t)) = Len(w)
          /\ \A i \in 1 .. Len(w) : Amounts(w, s, t)[i] = Match(w[i], s, t)
      BY AmountsType
    <3>3. /\ Amounts(v, s, t) \in Seq(Nat) /\ Len(Amounts(v, s, t)) = Len(w) + 1
          /\ \A i \in 1 .. Len(w) + 1 : Amounts(v, s, t)[i] = Match(v[i], s, t)
      BY <1>1, AmountsType
    <3> HIDE DEF Match
    <3>4. \A i \in 1 .. Len(w) : Amounts(v, s, t)[i] = Amounts(w, s, t)[i]
      BY <1>1, <3>2, <3>3
    <3>5. Amounts(v, s, t)[Len(w) + 1] = Match(f, s, t)
      BY <1>1, <3>3
    <3> QED
      BY <1>1, <3>1, <3>2, <3>3, <3>4, <3>5
  <2>2. Amounts(w, s, t) \in Seq(Nat) /\ Match(f, s, t) \in Nat
    BY AmountsType DEF Match, Frames
  <2>3. Bytes(v, s, t) = SumSeq(Amounts(v, s, t)) /\ Bytes(w, s, t) = SumSeq(Amounts(w, s, t))
    BY DEF Bytes, Amounts
  <2> HIDE DEF v
  <2> QED
    BY <2>1, <2>2, <2>3, SumAppend
<1> HIDE DEF v
<1>4. ASSUME NEW t
      PROVE  Has(v, s, t) <=> Has(w, s, t) \/ (f.sid = s /\ f.type = t)
  <2>1. \A i \in DOMAIN v : i \in DOMAIN w \/ i = Len(w) + 1
    BY <1>1
  <2>2. Has(v, s, t) => Has(w, s, t) \/ (f.sid = s /\ f.type = t)
    BY <1>1, <2>1 DEF Has
  <2>3. Has(w, s, t) \/ (f.sid = s /\ f.type = t) => Has(v, s, t)
    BY <1>1 DEF Has
  <2> QED
    BY <2>2, <2>3
<1>5. ASSUME Ordered(w, s),
             f.sid = s =>
                /\ ~Has(w, s, "RESET")
                /\ Has(w, s, "EOF") => f.type \in {"WINDOW_UPDATE", "RESET"}
                /\ f.type = "OPEN" => \A t \in FrameTypes : ~Has(w, s, t)
      PROVE  Ordered(v, s)
  <2> SUFFICES ASSUME NEW i \in DOMAIN v, NEW j \in DOMAIN v, i < j, v[i].sid = s, v[j].sid = s
               PROVE  /\ v[i].type # "RESET" /\ v[j].type # "OPEN"
                      /\ v[i].type = "EOF" => v[j].type \in {"WINDOW_UPDATE", "RESET"}
    BY DEF Ordered
  <2>1. i \in DOMAIN w /\ v[i] = w[i] /\ v[i].type \in FrameTypes
    <3>1. i \in DOMAIN w /\ v[i] = w[i]
      BY <1>1
    <3> QED
      BY <1>2, <3>1, FrameFields
  <2>2. CASE j \in DOMAIN w
    BY <1>1, <1>5, <2>1, <2>2 DEF Ordered
  <2>3. CASE j = Len(w) + 1
    BY <1>1, <1>5, <2>1, <2>3 DEF Has
  <2> QED
    BY <1>1, <2>2, <2>3
<1> QED
  BY <1>1, <1>3, <1>4, <1>5 DEF v

\* What a tail is, element by element.
LEMMA TailIs ==
    ASSUME NEW q \in Seq(Nat), q # <<>>, NEW z \in Seq(Nat), Len(z) = Len(q) - 1,
           \A i \in 1 .. Len(z) : z[i] = q[i + 1]
    PROVE  z = Tail(q)
OBVIOUS

\* The oldest frame is taken.  An OPEN that is under way is the first of its stream's
\* frames and the only OPEN; behind an EOF there is no data.
LEMMA WireTail ==
    ASSUME NEW w \in Seq(Frames), w # <<>>, NEW s
    PROVE  LET f == Head(w)
               v == Tail(w)
           IN /\ f \in Frames /\ v \in Seq(Frames)
              /\ Has(w, f.sid, f.type)
              /\ \A t : Has(v, s, t) => Has(w, s, t)
              /\ \A t : Bytes(w, s, t) = Match(f, s, t) + Bytes(v, s, t)
              /\ \A t : Has(w, s, t) => Has(v, s, t) \/ (f.sid = s /\ f.type = t)
              /\ Ordered(w, s) =>
                    /\ Ordered(v, s)
                    /\ f.sid = s => ~Has(v, s, "OPEN")
                    /\ f.sid = s /\ f.type = "EOF" => ~Has(v, s, "DATA")
<1> DEFINE f == Head(w)
           v == Tail(w)
<1>1. /\ f \in Frames /\ v \in Seq(Frames) /\ Len(v) = Len(w) - 1 /\ f = w[1] /\ Len(w) \in Nat \ {0}
      /\ \A i \in 1 .. Len(v) : v[i] = w[i + 1]
      /\ DOMAIN v = 1 .. Len(w) - 1 /\ DOMAIN w = 1 .. Len(w)
  OBVIOUS
<1>2. ASSUME NEW t
      PROVE  Bytes(w, s, t) = Match(f, s, t) + Bytes(v, s, t)
  <2>1. /\ Amounts(w, s, t) \in Seq(Nat) /\ Len(Amounts(w, s, t)) = Len(w)
        /\ \A i \in 1 .. Len(w) : Amounts(w, s, t)[i] = Match(w[i], s, t)
    BY AmountsType
  <2>2. /\ Amounts(v, s, t) \in Seq(Nat) /\ Len(Amounts(v, s, t)) = Len(v)
        /\ \A i \in 1 .. Len(v) : Amounts(v, s, t)[i] = Match(v[i], s, t)
    <3> HIDE DEF v
    <3> QED
      BY <1>1, AmountsType
  <2> DEFINE q == Amounts(w, s, t)
             z == Amounts(v, s, t)
  <2>3. q # <<>> /\ q[1] = Match(f, s, t)
    BY <1>1, <2>1
  <2>4. z = Tail(q)
    <3>1. \A i \in 1 .. Len(z) : i + 1 \in 1 .. Len(w) /\ z[i] = q[i + 1]
      BY <1>1, <2>1, <2>2
    <3>2. Len(z) = Len(q) - 1 /\ z \in Seq(Nat) /\ q \in Seq(Nat)
      BY <1>1, <2>1, <2>2
    <3> HIDE DEF q, z
    <3> QED
      BY <2>3, <3>1, <3>2, TailIs
  <2>5. Bytes(v, s, t) = SumSeq(z) /\ Bytes(w, s, t) = SumSeq(q)
    BY DEF Bytes, Amounts
  <2>6. q \in Seq(Nat)
    BY <2>1
  <2> HIDE DEF q, z
  <2> QED
    BY <2>3, <2>4, <2>5, <2>6, SumTail
<1> HIDE DEF f, v
<1>3. \A i \in DOMAIN v : i + 1 \in DOMAIN w /\ 1 < i + 1 /\ v[i] = w[i + 1]
  BY <1>1
<1>4. 1 \in DOMAIN w /\ \A i \in DOMAIN w : i = 1 \/ (i - 1 \in DOMAIN v /\ (i - 1) + 1 = i)
  BY <1>1
<1>5. ASSUME NEW t
      PROVE  /\ Has(v, s, t) => Has(w, s, t)
             /\ Has(w, s, t) => Has(v, s, t) \/ (f.sid = s /\ f.type = t)
  <2>1. Has(v, s, t) => Has(w, s, t)
    BY <1>3 DEF Has
  <2>2. ASSUME Has(w, s, t) PROVE Has(v, s, t) \/ (f.sid = s /\ f.type = t)
    <3>1. PICK i \in DOMAIN w : w[i].sid = s /\ w[i].type = t
      BY <2>2 DEF Has
    <3>2. CASE i = 1
      BY <1>1, <3>1, <3>2
    <3>3. CASE i # 1
      <4>1. i - 1 \in DOMAIN v /\ v[i - 1] = w[i]
        BY <1>3, <1>4, <3>3
      <4> QED
        BY <3>1, <4>1 DEF Has
    <3> QED
      BY <3>2, <3>3
  <2> QED
    BY <2>1, <2>2
<1>6. ASSUME Ordered(w, s)
      PROVE  /\ Ordered(v, s)
             /\ f.sid = s => ~Has(v, s, "OPEN")
             /\ f.sid = s /\ f.type = "EOF" => ~Has(v, s, "DATA")
  <2>1. Ordered(v, s)
    <3> SUFFICES ASSUME NEW i \in DOMAIN v, NEW j \in DOMAIN v, i < j, v[i].sid = s, v[j].sid = s
                 PROVE  /\ v[i].type # "RESET" /\ v[j].type # "OPEN"
                        /\ v[i].type = "EOF" => v[j].type \in {"WINDOW_UPDATE", "RESET"}
      BY DEF Ordered
    <3>1. i + 1 < j + 1
      BY <1>1
    <3> QED
      BY <1>3, <1>6, <3>1 DEF Ordered
  <2>2. f.sid = s => ~Has(v, s, "OPEN")
    BY <1>1, <1>3, <1>4, <1>6 DEF Has, Ordered
  <2>3. f.sid = s /\ f.type = "EOF" => ~Has(v, s, "DATA")
    BY <1>1, <1>3, <1>4, <1>6 DEF Has, Ordered
  <2> QED
    BY <2>1, <2>2, <2>3
<1>7. Has(w, f.sid, f.type)
  BY <1>1, <1>4 DEF Has
<1> QED
  BY <1>1, <1>2, <1>5, <1>6, <1>7 DEF f, v

\* Amounts are numbers, and zero where there is no such frame; nothing is on an empty wire.
LEMMA WireBytes ==
    ASSUME NEW w \in Seq(Frames), NEW s
    PROVE  /\ \A t : Bytes(w, s, t) \in Nat
           /\ \A t : ~Has(w, s, t) => Bytes(w, s, t) = 0
<1>1. ASSUME NEW t
      PROVE  Bytes(w, s, t) \in Nat /\ (~Has(w, s, t) => Bytes(w, s, t) = 0)
  <2> DEFINE q == Amounts(w, s, t)
  <2>1. q \in Seq(Nat) /\ Len(q) = Len(w) /\ \A i \in 1 .. Len(w) : q[i] = Match(w[i], s, t)
    BY AmountsType
  <2>2. Bytes(w, s, t) = SumSeq(q)
    BY DEF Bytes, Amounts
  <2>3. ~Has(w, s, t) => \A i \in 1 .. Len(w) : Match(w[i], s, t) = 0
    BY DEF Has, Match
  <2> HIDE DEF q
  <2> QED
    BY <2>1, <2>2, <2>3, SumBounds, SumZero
<1> QED
  BY <1>1

\* Nothing is on an empty wire.
LEMMA WireEmpty ==
    /\ <<>> \in Seq(Frames)
    /\ \A s, t : ~Has(<<>>, s, t) /\ Bytes(<<>>, s, t) = 0
    /\ \A s : Ordered(<<>>, s)
<1>1. <<>> \in Seq(Frames)
  OBVIOUS
<1>2. \A s, t : ~Has(<<>>, s, t)
  BY DEF Has
<1>3. \A s, t : Bytes(<<>>, s, t) = 0
  BY <1>1, <1>2, WireBytes
<1>4. \A s : Ordered(<<>>, s)
  BY DEF Ordered
<1> QED
  BY <1>1, <1>2, <1>3, <1>4

-----------------------------------------------------------------------------
(* One stream, seen from both ends                                         *)

\* The view a record gives.
LEMMA ViewType ==
    ASSUME NEW r \in StreamRecs, NEW l \in LogRecs, NEW R, NEW w \in Seq(Frames), NEW s
    PROVE  ViewOf(r, l, R, w, s) \in Views
<1>1. QueuedBytes(r) \in Nat
  <2>1. r.incoming \in Seq(Nat)
    BY DEF StreamRecs
  <2> QED
    BY <2>1, SumBounds DEF QueuedBytes
<1>2. Bytes(w, s, "DATA") \in Nat /\ Bytes(w, s, "WINDOW_UPDATE") \in Nat
  BY WireBytes
<1>3. Kinds(w, s) \in SUBSET FrameTypes
  BY DEF Kinds
<1>4. (IF s \in R THEN 1 ELSE 0) \in {0, 1}
  OBVIOUS
<1> HIDE DEF QueuedBytes, Bytes, Kinds
<1> QED
  BY <1>1, <1>2, <1>3, <1>4 DEF ViewOf, Views, StreamRecs, LogRecs

\* A frame of the peer's is taken and lost: nobody was listening for its bytes.
LEMMA FrameLost ==
    ASSUME NEW e \in Ends, NEW v \in Views, NEW q \in Views, NEW s \in Sids, NEW next \in Nat,
           Agree(e, v, q, s, next),
           NEW U \in SUBSET q.under,
           NEW n \in Nat,
           NEW m \in Nat,
           "OPEN" \notin U, n <= q.data, m <= q.grants,
           v.st = "live" /\ v.recv = "OPEN" => n = q.data,
           NEW y \in Views, y.st = q.st, y.recv = q.recv, y.ended = q.ended, y.window = q.window,
           y.held = q.held, y.unacked = q.unacked, y.queued = q.queued, y.sent = q.sent,
           y.fed = q.fed, y.resets = q.resets, y.due = q.due, y.under = U,
           y.data = n, y.grants = m
    PROVE  Agree(e, v, y, s, next)
<1>1. IdsOK(e, v, y, s, next)
  BY MuxAssumption DEF Agree, IdsOK, SentOK, Views, Ends, Sids
<1>2. SentOK(v) /\ SentOK(y)
  BY MuxAssumption DEF Agree, SentOK, IdsOK, Views
<1>3. LaneOK(v, y)
  BY MuxAssumption DEF Agree, LaneOK, SentOK, IdsOK, Views
<1>4. LaneOK(y, v)
  BY MuxAssumption DEF Agree, LaneOK, SentOK, IdsOK, Views
<1> QED
  BY <1>1, <1>2, <1>3, <1>4 DEF Agree

\* send() frames n bytes within its credit.
LEMMA DataSent ==
    ASSUME NEW e \in Ends, NEW v \in Views, NEW q \in Views, NEW s \in Sids, NEW next \in Nat,
           Agree(e, v, q, s, next),
           NEW n \in Nat,
           v.st = "live", ~v.ended, n <= v.window,
           NEW x \in Views, x.st = v.st, x.recv = v.recv, x.ended = v.ended, x.window = v.window - n,
           x.held = v.held, x.unacked = v.unacked, x.queued = v.queued, x.sent = v.sent + n,
           x.fed = v.fed, x.resets = v.resets, x.due = v.due, x.under = v.under \cup {"DATA"},
           x.data = v.data + n, x.grants = v.grants
    PROVE  Agree(e, x, q, s, next)
<1>1. IdsOK(e, x, q, s, next)
  BY MuxAssumption DEF Agree, IdsOK, SentOK, Views, Ends, Sids
<1>2. SentOK(x) /\ SentOK(q)
  BY MuxAssumption DEF Agree, SentOK, IdsOK, Views
<1>3. LaneOK(x, q)
  <2>1. ~(q.recv = "EOF")
    BY DEF Agree, LaneOK
  <2>2. v.sent - q.fed \in Nat /\ v.window - n \in Nat
    BY DEF Agree, LaneOK, Views
  <2>3. (q.st = "live" /\ q.recv = "OPEN") \/ "OPEN" \in x.under => q.fed + x.data = x.sent
    BY DEF Agree, LaneOK, Views
  <2>4. q.fed <= x.sent
    BY DEF Agree, LaneOK, Views
  <2>5. x.window + (x.sent - q.fed) = v.window + (v.sent - q.fed)
    BY <2>2 DEF Views
  <2> QED
    BY <2>1, <2>3, <2>4, <2>5 DEF Agree, LaneOK
<1>4. LaneOK(q, x)
  BY MuxAssumption DEF Agree, LaneOK, SentOK, IdsOK, Views
<1> QED
  BY <1>1, <1>2, <1>3, <1>4 DEF Agree

\* Credit is spent on a frame that could not be sent.
LEMMA CreditSpent ==
    ASSUME NEW e \in Ends, NEW v \in Views, NEW q \in Views, NEW s \in Sids, NEW next \in Nat,
           Agree(e, v, q, s, next),
           NEW n \in Nat,
           n <= v.window,
           NEW x \in Views, x.st = v.st, x.recv = v.recv, x.ended = v.ended, x.window = v.window - n,
           x.held = v.held, x.unacked = v.unacked, x.queued = v.queued, x.sent = v.sent,
           x.fed = v.fed, x.resets = v.resets, x.due = v.due, x.under = v.under,
           x.data = v.data, x.grants = v.grants
    PROVE  Agree(e, x, q, s, next)
<1>1. IdsOK(e, x, q, s, next)
  BY MuxAssumption DEF Agree, IdsOK, SentOK, Views, Ends, Sids
<1>2. SentOK(x) /\ SentOK(q)
  BY MuxAssumption DEF Agree, SentOK, IdsOK, Views
<1>3. LaneOK(x, q)
  BY MuxAssumption DEF Agree, LaneOK, SentOK, IdsOK, Views
<1>4. LaneOK(q, x)
  BY MuxAssumption DEF Agree, LaneOK, SentOK, IdsOK, Views
<1> QED
  BY <1>1, <1>2, <1>3, <1>4 DEF Agree

\* send_eof() half-closes, and sends an EOF if it can.
LEMMA HalfClosed ==
    ASSUME NEW e \in Ends, NEW v \in Views, NEW q \in Views, NEW s \in Sids, NEW next \in Nat,
           Agree(e, v, q, s, next),
           NEW K \in SUBSET {"EOF"},
           v.st = "live",
           NEW x \in Views, x.st = v.st, x.recv = v.recv, x.ended = TRUE, x.window = v.window,
           x.held = v.held, x.unacked = v.unacked, x.queued = v.queued, x.sent = v.sent,
           x.fed = v.fed, x.resets = v.resets, x.due = v.due, x.under = v.under \cup K,
           x.data = v.data, x.grants = v.grants
    PROVE  Agree(e, x, q, s, next)
<1>1. IdsOK(e, x, q, s, next)
  BY MuxAssumption DEF Agree, IdsOK, SentOK, Views, Ends, Sids
<1>2. SentOK(x) /\ SentOK(q)
  BY MuxAssumption DEF Agree, SentOK, IdsOK, Views
<1>3. LaneOK(x, q)
  BY MuxAssumption DEF Agree, LaneOK, SentOK, IdsOK, Views
<1>4. LaneOK(q, x)
  BY MuxAssumption DEF Agree, LaneOK, SentOK, IdsOK, Views
<1> QED
  BY <1>1, <1>2, <1>3, <1>4 DEF Agree

\* read() takes a chunk off the queue.
LEMMA ChunkRead ==
    ASSUME NEW e \in Ends, NEW v \in Views, NEW q \in Views, NEW s \in Sids, NEW next \in Nat,
           Agree(e, v, q, s, next),
           NEW n \in Nat,
           v.held = 0, n <= v.queued,
           NEW x \in Views, x.st = v.st, x.recv = v.recv, x.ended = v.ended, x.window = v.window,
           x.held = n, x.unacked = v.unacked, x.queued = v.queued - n, x.sent = v.sent,
           x.fed = v.fed, x.resets = v.resets, x.due = v.due, x.under = v.under,
           x.data = v.data, x.grants = v.grants
    PROVE  Agree(e, x, q, s, next)
<1>1. IdsOK(e, x, q, s, next)
  BY MuxAssumption DEF Agree, IdsOK, SentOK, Views, Ends, Sids
<1>2. SentOK(x) /\ SentOK(q)
  BY MuxAssumption DEF Agree, SentOK, IdsOK, Views
<1>3. LaneOK(x, q)
  BY MuxAssumption DEF Agree, LaneOK, SentOK, IdsOK, Views
<1>4. LaneOK(q, x)
  BY MuxAssumption DEF Agree, LaneOK, SentOK, IdsOK, Views
<1> QED
  BY <1>1, <1>2, <1>3, <1>4 DEF Agree

\* ack() adds the chunk to the batch, grants the batch or drops it.
LEMMA ChunkAcked ==
    ASSUME NEW e \in Ends, NEW v \in Views, NEW q \in Views, NEW s \in Sids, NEW next \in Nat,
           Agree(e, v, q, s, next),
           NEW u \in Nat,
           NEW g \in Nat,
           NEW K \in SUBSET {"WINDOW_UPDATE"},
           v.st # "absent", u + g <= v.unacked + v.held,
           NEW x \in Views, x.st = v.st, x.recv = v.recv, x.ended = v.ended, x.window = v.window,
           x.held = 0, x.unacked = u, x.queued = v.queued, x.sent = v.sent,
           x.fed = v.fed, x.resets = v.resets, x.due = v.due, x.under = v.under \cup K,
           x.data = v.data, x.grants = v.grants + g
    PROVE  Agree(e, x, q, s, next)
<1>1. IdsOK(e, x, q, s, next)
  BY MuxAssumption DEF Agree, IdsOK, SentOK, Views, Ends, Sids
<1>2. SentOK(x) /\ SentOK(q)
  BY MuxAssumption DEF Agree, SentOK, IdsOK, Views
<1>3. LaneOK(x, q)
  BY MuxAssumption DEF Agree, LaneOK, SentOK, IdsOK, Views
<1>4. LaneOK(q, x)
  BY MuxAssumption DEF Agree, LaneOK, SentOK, IdsOK, Views
<1> QED
  BY <1>1, <1>2, <1>3, <1>4 DEF Agree

\* A live stream is torn down, and one RESET is sent or none.
LEMMA TornDown ==
    ASSUME NEW e \in Ends, NEW v \in Views, NEW q \in Views, NEW s \in Sids, NEW next \in Nat,
           Agree(e, v, q, s, next),
           NEW k \in {0, 1},
           NEW K \in SUBSET {"RESET"},
           v.st = "live",
           K # {} => k = 1,
           NEW x \in Views, x.st = "closed", x.recv = v.recv \/ (v.recv = "OPEN" /\ x.recv = "RESET"), x.ended = v.ended, x.window = v.window,
           x.held = v.held, x.unacked = v.unacked, x.queued = v.queued, x.sent = v.sent,
           x.fed = v.fed, x.resets = v.resets + k, x.due = v.due, x.under = v.under \cup K,
           x.data = v.data, x.grants = v.grants
    PROVE  Agree(e, x, q, s, next)
<1>1. IdsOK(e, x, q, s, next)
  BY MuxAssumption DEF Agree, IdsOK, SentOK, Views, Ends, Sids
<1>2. SentOK(x) /\ SentOK(q)
  BY MuxAssumption DEF Agree, SentOK, IdsOK, Views
<1>3. LaneOK(x, q)
  BY MuxAssumption DEF Agree, LaneOK, SentOK, IdsOK, Views
<1>4. LaneOK(q, x)
  BY MuxAssumption DEF Agree, LaneOK, SentOK, IdsOK, Views
<1> QED
  BY <1>1, <1>2, <1>3, <1>4 DEF Agree

\* The _send_reset task is over, with a RESET or cancelled.
LEMMA TaskDone ==
    ASSUME NEW e \in Ends, NEW v \in Views, NEW q \in Views, NEW s \in Sids, NEW next \in Nat,
           Agree(e, v, q, s, next),
           NEW k \in {0, 1},
           NEW K \in SUBSET {"RESET"},
           k = 1 => v.due = 1, K # {} => k = 1,
           NEW x \in Views, x.st = v.st, x.recv = v.recv, x.ended = v.ended, x.window = v.window,
           x.held = v.held, x.unacked = v.unacked, x.queued = v.queued, x.sent = v.sent,
           x.fed = v.fed, x.resets = v.resets + k, x.due = 0, x.under = v.under \cup K,
           x.data = v.data, x.grants = v.grants
    PROVE  Agree(e, x, q, s, next)
<1>1. IdsOK(e, x, q, s, next)
  BY MuxAssumption DEF Agree, IdsOK, SentOK, Views, Ends, Sids
<1>2. SentOK(x) /\ SentOK(q)
  <2>1. SentOK(x)
    <3>1. k = 0 => K = {} /\ x.resets = v.resets /\ x.under = v.under
      BY DEF Views
    <3>2. k = 1 => v.due = 1 /\ v.resets = 0 /\ v.st = "absent" /\ x.resets = 1
      BY DEF Agree, SentOK
    <3>3. CASE k = 0
      BY <3>1, <3>3 DEF Agree, SentOK
    <3>4. CASE k = 1
      <4>1. x.resets = 1 /\ x.st = "absent" /\ x.due = 0 /\ x.sent = 0 /\ x.fed = 0
        BY <3>2, <3>4 DEF Agree, SentOK
      <4>2. x.under \subseteq {"RESET"} /\ "EOF" \notin x.under
        BY <3>2, <3>4 DEF Agree, SentOK
      <4> QED
        BY <4>1, <4>2 DEF SentOK
    <3> QED
      BY <3>3, <3>4
  <2> QED
    BY <2>1 DEF Agree
<1>3. LaneOK(x, q)
  BY MuxAssumption DEF Agree, LaneOK, SentOK, IdsOK, Views
<1>4. LaneOK(q, x)
  BY MuxAssumption DEF Agree, LaneOK, SentOK, IdsOK, Views
<1> QED
  BY <1>1, <1>2, <1>3, <1>4 DEF Agree

\* A breach ends the receive direction.
LEMMA Deafened ==
    ASSUME NEW e \in Ends, NEW v \in Views, NEW q \in Views, NEW s \in Sids, NEW next \in Nat,
           Agree(e, v, q, s, next),
           v.recv = "OPEN",
           NEW x \in Views, x.st = v.st, x.recv = "RESET", x.ended = v.ended, x.window = v.window,
           x.held = v.held, x.unacked = v.unacked, x.queued = v.queued, x.sent = v.sent,
           x.fed = v.fed, x.resets = v.resets, x.due = v.due, x.under = v.under,
           x.data = v.data, x.grants = v.grants
    PROVE  Agree(e, x, q, s, next)
<1>1. IdsOK(e, x, q, s, next)
  BY MuxAssumption DEF Agree, IdsOK, SentOK, Views, Ends, Sids
<1>2. SentOK(x) /\ SentOK(q)
  BY MuxAssumption DEF Agree, SentOK, IdsOK, Views
<1>3. LaneOK(x, q)
  BY MuxAssumption DEF Agree, LaneOK, SentOK, IdsOK, Views
<1>4. LaneOK(q, x)
  BY MuxAssumption DEF Agree, LaneOK, SentOK, IdsOK, Views
<1> QED
  BY <1>1, <1>2, <1>3, <1>4 DEF Agree

\* The agent refuses an OPEN it has taken.
LEMMA IdRefused ==
    ASSUME NEW e \in Ends, NEW v \in Views, NEW q \in Views, NEW s \in Sids, NEW next \in Nat,
           Agree(e, v, q, s, next),
           e = Agent, v.st = "absent", v.resets = 0, s < next, "OPEN" \notin q.under,
           NEW x \in Views, x.st = v.st, x.recv = v.recv, x.ended = v.ended, x.window = v.window,
           x.held = v.held, x.unacked = v.unacked, x.queued = v.queued, x.sent = v.sent,
           x.fed = v.fed, x.resets = v.resets, x.due = 1, x.under = v.under,
           x.data = v.data, x.grants = v.grants
    PROVE  Agree(e, x, q, s, next)
<1>1. IdsOK(e, x, q, s, next)
  BY MuxAssumption DEF Agree, IdsOK, SentOK, Views, Ends, Sids
<1>2. SentOK(x) /\ SentOK(q)
  BY MuxAssumption DEF Agree, SentOK, IdsOK, Views
<1>3. LaneOK(x, q)
  BY MuxAssumption DEF Agree, LaneOK, SentOK, IdsOK, Views
<1>4. LaneOK(q, x)
  BY MuxAssumption DEF Agree, LaneOK, SentOK, IdsOK, Views
<1> QED
  BY <1>1, <1>2, <1>3, <1>4 DEF Agree

\* The agent accepts an OPEN.
LEMMA IdAccepted ==
    ASSUME NEW e \in Ends, NEW v \in Views, NEW q \in Views, NEW s \in Sids, NEW next \in Nat,
           Agree(e, v, q, s, next),
           NEW U \in SUBSET q.under,
           e = Agent, v.st = "absent", v.recv = "OPEN", "OPEN" \in q.under, "OPEN" \notin U,
           NEW x \in Views, x.st = "live", x.recv = v.recv, x.ended = v.ended, x.window = W,
           x.held = v.held, x.unacked = v.unacked, x.queued = v.queued, x.sent = v.sent,
           x.fed = v.fed, x.resets = v.resets, x.due = v.due, x.under = v.under,
           x.data = v.data, x.grants = v.grants,
           NEW y \in Views, y.st = q.st, y.recv = q.recv, y.ended = q.ended, y.window = q.window,
           y.held = q.held, y.unacked = q.unacked, y.queued = q.queued, y.sent = q.sent,
           y.fed = q.fed, y.resets = q.resets, y.due = q.due, y.under = U,
           y.data = q.data, y.grants = q.grants
    PROVE  Agree(e, x, y, s, next)
<1>1. IdsOK(e, x, y, s, next)
  BY MuxAssumption DEF Agree, IdsOK, SentOK, Views, Ends, Sids
<1>2. SentOK(x) /\ SentOK(y)
  BY MuxAssumption DEF Agree, SentOK, IdsOK, Views
<1>3. LaneOK(x, y)
  BY MuxAssumption DEF Agree, LaneOK, SentOK, IdsOK, Views
<1>4. LaneOK(y, x)
  BY MuxAssumption DEF Agree, LaneOK, SentOK, IdsOK, Views
<1> QED
  BY <1>1, <1>2, <1>3, <1>4 DEF Agree

\* _feed queues the bytes of a frame.
LEMMA BytesQueued ==
    ASSUME NEW e \in Ends, NEW v \in Views, NEW q \in Views, NEW s \in Sids, NEW next \in Nat,
           Agree(e, v, q, s, next),
           NEW U \in SUBSET q.under,
           NEW n \in Nat,
           v.st = "live", v.recv = "OPEN", n <= q.data, "OPEN" \notin U,
           NEW x \in Views, x.st = v.st, x.recv = v.recv, x.ended = v.ended, x.window = v.window,
           x.held = v.held, x.unacked = v.unacked, x.queued = v.queued + n, x.sent = v.sent,
           x.fed = v.fed + n, x.resets = v.resets, x.due = v.due, x.under = v.under,
           x.data = v.data, x.grants = v.grants,
           NEW y \in Views, y.st = q.st, y.recv = q.recv, y.ended = q.ended, y.window = q.window,
           y.held = q.held, y.unacked = q.unacked, y.queued = q.queued, y.sent = q.sent,
           y.fed = q.fed, y.resets = q.resets, y.due = q.due, y.under = U,
           y.data = q.data - n, y.grants = q.grants
    PROVE  Agree(e, x, y, s, next)
<1>1. IdsOK(e, x, y, s, next)
  BY MuxAssumption DEF Agree, IdsOK, SentOK, Views, Ends, Sids
<1>2. SentOK(x) /\ SentOK(y)
  BY MuxAssumption DEF Agree, SentOK, IdsOK, Views
<1>3. LaneOK(x, y)
  BY MuxAssumption DEF Agree, LaneOK, SentOK, IdsOK, Views
<1>4. LaneOK(y, x)
  BY MuxAssumption DEF Agree, LaneOK, SentOK, IdsOK, Views
<1> QED
  BY <1>1, <1>2, <1>3, <1>4 DEF Agree

\* An EOF behind which there is no data ends the receive direction.
LEMMA EndHeard ==
    ASSUME NEW e \in Ends, NEW v \in Views, NEW q \in Views, NEW s \in Sids, NEW next \in Nat,
           Agree(e, v, q, s, next),
           v.st = "live", v.recv = "OPEN", q.ended, q.data = 0,
           NEW x \in Views, x.st = v.st, x.recv = "EOF", x.ended = v.ended, x.window = v.window,
           x.held = v.held, x.unacked = v.unacked, x.queued = v.queued, x.sent = v.sent,
           x.fed = v.fed, x.resets = v.resets, x.due = v.due, x.under = v.under,
           x.data = v.data, x.grants = v.grants
    PROVE  Agree(e, x, q, s, next)
<1>1. IdsOK(e, x, q, s, next)
  BY MuxAssumption DEF Agree, IdsOK, SentOK, Views, Ends, Sids
<1>2. SentOK(x) /\ SentOK(q)
  BY MuxAssumption DEF Agree, SentOK, IdsOK, Views
<1>3. LaneOK(x, q)
  BY MuxAssumption DEF Agree, LaneOK, SentOK, IdsOK, Views
<1>4. LaneOK(q, x)
  BY MuxAssumption DEF Agree, LaneOK, SentOK, IdsOK, Views
<1> QED
  BY <1>1, <1>2, <1>3, <1>4 DEF Agree

\* A grant is taken.
LEMMA CreditGranted ==
    ASSUME NEW e \in Ends, NEW v \in Views, NEW q \in Views, NEW s \in Sids, NEW next \in Nat,
           Agree(e, v, q, s, next),
           NEW U \in SUBSET q.under,
           NEW n \in Nat,
           NEW m \in Nat,
           v.st = "live", n <= q.grants, m <= v.window + n, "OPEN" \notin U,
           NEW x \in Views, x.st = v.st, x.recv = v.recv, x.ended = v.ended, x.window = m,
           x.held = v.held, x.unacked = v.unacked, x.queued = v.queued, x.sent = v.sent,
           x.fed = v.fed, x.resets = v.resets, x.due = v.due, x.under = v.under,
           x.data = v.data, x.grants = v.grants,
           NEW y \in Views, y.st = q.st, y.recv = q.recv, y.ended = q.ended, y.window = q.window,
           y.held = q.held, y.unacked = q.unacked, y.queued = q.queued, y.sent = q.sent,
           y.fed = q.fed, y.resets = q.resets, y.due = q.due, y.under = U,
           y.data = q.data, y.grants = q.grants - n
    PROVE  Agree(e, x, y, s, next)
<1>1. IdsOK(e, x, y, s, next)
  BY MuxAssumption DEF Agree, IdsOK, SentOK, Views, Ends, Sids
<1>2. SentOK(x) /\ SentOK(y)
  BY MuxAssumption DEF Agree, SentOK, IdsOK, Views
<1>3. LaneOK(x, y)
  BY MuxAssumption DEF Agree, LaneOK, SentOK, IdsOK, Views
<1>4. LaneOK(y, x)
  BY MuxAssumption DEF Agree, LaneOK, SentOK, IdsOK, Views
<1> QED
  BY <1>1, <1>2, <1>3, <1>4 DEF Agree

\* Towards a stream that does not exist nothing is outstanding.
LEMMA AbsentOwesNothing ==
    ASSUME NEW v \in Views, NEW q \in Views, LaneOK(v, q), v.st = "absent", v.sent = 0, q.fed = 0
    PROVE  q.queued = 0 /\ q.held = 0 /\ q.unacked = 0 /\ q.grants = 0
<1> DEFINE a == v.window
           b == q.queued
           c == q.held
           d == q.unacked
           g == q.grants
<1>1. a \in Nat /\ b \in Nat /\ c \in Nat /\ d \in Nat /\ g \in Nat
  BY DEF Views
<1>2. a + (0 - 0) + b + c + d + g <= 0
  BY Zenon DEF LaneOK
<1> HIDE DEF a, b, c, d, g
<1>3. b = 0 /\ c = 0 /\ d = 0 /\ g = 0
  BY <1>1, <1>2
<1> QED
  BY <1>3 DEF b, c, d, g

\* open() takes the next id and puts its OPEN on the wire.
LEMMA IdOpened ==
    ASSUME NEW e \in Ends, NEW v \in Views, NEW q \in Views, NEW s \in Sids, NEW next \in Nat,
           Agree(e, v, q, s, next),
           e = Server, s = next, v.recv = "OPEN", q.recv = "OPEN", v.data = 0, q.data = 0,
           NEW x \in Views, x.st = "live", x.recv = v.recv, x.ended = v.ended, x.window = W,
           x.held = v.held, x.unacked = v.unacked, x.queued = v.queued, x.sent = v.sent,
           x.fed = v.fed, x.resets = v.resets, x.due = v.due, x.under = v.under \cup {"OPEN"},
           x.data = v.data, x.grants = v.grants
    PROVE  Agree(e, x, q, s, next + 1)
<1>1. IdsOK(e, x, q, s, next + 1)
  BY MuxAssumption DEF Agree, IdsOK, SentOK, Views, Ends, Sids
<1>2. SentOK(x) /\ SentOK(q)
  BY MuxAssumption DEF Agree, SentOK, IdsOK, Views
<1>3. LaneOK(x, q)
  <2>1. v.sent = 0 /\ q.fed = 0 /\ v.st = "absent" /\ q.st = "absent"
    BY DEF Agree, SentOK, IdsOK, Sids
  <2>2. q.queued = 0 /\ q.held = 0 /\ q.unacked = 0 /\ q.grants = 0
    BY <2>1, AbsentOwesNothing DEF Agree
  <2>3. W \in Nat
    BY MuxAssumption
  <2> QED
    BY <2>1, <2>2, <2>3 DEF LaneOK, Views
<1>4. LaneOK(q, x)
  BY MuxAssumption DEF Agree, LaneOK, SentOK, IdsOK, Views
<1> QED
  BY <1>1, <1>2, <1>3, <1>4 DEF Agree

\* open() takes the next id and finds the connection closed.
LEMMA IdWasted ==
    ASSUME NEW e \in Ends, NEW v \in Views, NEW q \in Views, NEW s \in Sids, NEW next \in Nat,
           Agree(e, v, q, s, next),
           e = Server, s = next, q.recv = "OPEN",
           NEW x \in Views, x.st = "closed", x.recv = "EOF", x.ended = v.ended, x.window = W,
           x.held = v.held, x.unacked = v.unacked, x.queued = v.queued, x.sent = v.sent,
           x.fed = v.fed, x.resets = v.resets, x.due = v.due, x.under = v.under,
           x.data = v.data, x.grants = v.grants
    PROVE  Agree(e, x, q, s, next + 1)
<1>1. IdsOK(e, x, q, s, next + 1)
  BY MuxAssumption DEF Agree, IdsOK, SentOK, Views, Ends, Sids
<1>2. SentOK(x) /\ SentOK(q)
  BY MuxAssumption DEF Agree, SentOK, IdsOK, Views
<1>3. LaneOK(x, q)
  <2>1. v.sent = 0 /\ q.fed = 0 /\ v.st = "absent" /\ q.st = "absent"
    BY DEF Agree, SentOK, IdsOK, Sids
  <2>2. q.queued = 0 /\ q.held = 0 /\ q.unacked = 0 /\ q.grants = 0
    BY <2>1, AbsentOwesNothing DEF Agree
  <2>3. W \in Nat
    BY MuxAssumption
  <2>4. x.window + (x.sent - q.fed) + q.queued + q.held + q.unacked + q.grants = W
    <3>1. x.window = W /\ x.sent = 0
      BY <2>1
    <3> QED
      BY <2>1, <2>2, <2>3, <3>1
  <2>5. x.st # "absent" /\ "OPEN" \notin x.under /\ q.fed <= x.sent
    BY <2>1 DEF Agree, SentOK
  <2> QED
    BY <2>1, <2>3, <2>4, <2>5 DEF LaneOK
<1>4. LaneOK(q, x)
  BY MuxAssumption DEF Agree, LaneOK, SentOK, IdsOK, Views
<1> QED
  BY <1>1, <1>2, <1>3, <1>4 DEF Agree

\* Another id is opened.
LEMMA IdUntouched ==
    ASSUME NEW e \in Ends, NEW v \in Views, NEW q \in Views, NEW s \in Sids, NEW next \in Nat,
           Agree(e, v, q, s, next), s # next
    PROVE  Agree(e, v, q, s, next + 1)
<1>1. s \in Int /\ (s >= next + 1 <=> s >= next)
  BY DEF Sids
<1> QED
  BY <1>1 DEF Agree, IdsOK

\* It does not matter whose side it is told from.
LEMMA AgreeFlips ==
    ASSUME NEW v, NEW q, NEW s, NEW next
    PROVE  Agree(Server, v, q, s, next) <=> Agree(Agent, q, v, s, next)
BY DEF Agree, IdsOK, Server, Agent

-----------------------------------------------------------------------------
(* What an action does to a view                                           *)

\* The fields of a view, and its type.
LEMMA ViewFields ==
    ASSUME NEW r \in StreamRecs, NEW l \in LogRecs, NEW R, NEW w \in Seq(Frames), NEW s
    PROVE  LET x == ViewOf(r, l, R, w, s)
           IN /\ x \in Views
              /\ x.st = r.st /\ x.recv = r.recv /\ x.ended = r.ended /\ x.window = r.window
              /\ x.held = r.held /\ x.unacked = r.unacked /\ x.queued = QueuedBytes(r)
              /\ x.sent = l.sent /\ x.fed = l.fed /\ x.resets = l.resets
              /\ x.due = (IF s \in R THEN 1 ELSE 0) /\ x.under = Kinds(w, s)
              /\ x.data = Bytes(w, s, "DATA") /\ x.grants = Bytes(w, s, "WINDOW_UPDATE")
<1>1. ViewOf(r, l, R, w, s) \in Views
  BY ViewType
<1> QED
  BY <1>1 DEF ViewOf

\* From w to z nothing changes for stream s.
Quiet(w, z, s) ==
    \/ z = w
    \/ \E f \in Frames : f.sid # s /\ z = Append(w, f)
    \/ w # <<>> /\ Head(w).sid # s /\ z = Tail(w)

\* What is on the wire for that stream stays as it was.
LEMMA QuietWire ==
    ASSUME NEW w \in Seq(Frames), NEW z, NEW s, Quiet(w, z, s)
    PROVE  /\ \A t : Has(z, s, t) <=> Has(w, s, t)
           /\ \A t : Bytes(z, s, t) = Bytes(w, s, t)
           /\ Kinds(z, s) = Kinds(w, s)
           /\ Ordered(w, s) => Ordered(z, s)
<1>0. \A t : Bytes(w, s, t) \in Nat
  BY WireBytes
<1>1. CASE z = w
  BY <1>1
<1>2. ASSUME NEW f \in Frames, f.sid # s, z = Append(w, f)
      PROVE  /\ \A t : Has(z, s, t) <=> Has(w, s, t)
             /\ \A t : Bytes(z, s, t) = Bytes(w, s, t)
             /\ Ordered(w, s) => Ordered(z, s)
  <2>1. \A t : Match(f, s, t) = 0
    BY <1>2 DEF Match
  <2>2. /\ \A t : Has(z, s, t) <=> Has(w, s, t) \/ (f.sid = s /\ f.type = t)
        /\ \A t : Bytes(z, s, t) = Bytes(w, s, t) + Match(f, s, t)
        /\ Ordered(w, s) => Ordered(z, s)
    BY <1>2, WireAppend
  <2> QED
    BY <1>0, <1>2, <2>1, <2>2
<1>3. CASE w # <<>> /\ Head(w).sid # s /\ z = Tail(w)
  <2> DEFINE f == Head(w)
  <2>1. \A t : Match(f, s, t) = 0
    BY <1>3 DEF Match
  <2>2. /\ z \in Seq(Frames)
        /\ \A t : Has(z, s, t) => Has(w, s, t)
        /\ \A t : Bytes(w, s, t) = Match(f, s, t) + Bytes(z, s, t)
        /\ \A t : Has(w, s, t) => Has(z, s, t) \/ (f.sid = s /\ f.type = t)
        /\ Ordered(w, s) => Ordered(z, s)
    BY <1>3, WireTail
  <2>3. \A t : Bytes(z, s, t) \in Nat
    BY <2>2, WireBytes
  <2> HIDE DEF f
  <2>4. \A t : Bytes(z, s, t) = Bytes(w, s, t)
    BY <2>1, <2>2, <2>3
  <2>5. \A t : Has(w, s, t) => Has(z, s, t)
    BY <1>3, <2>2 DEF f
  <2>6. Ordered(w, s) => Ordered(z, s)
    BY <2>2
  <2>7. \A t : Has(z, s, t) => Has(w, s, t)
    BY <2>2
  <2>8. Kinds(z, s) = Kinds(w, s)
    BY <2>5, <2>7 DEF Kinds
  <2> QED
    BY <2>4, <2>5, <2>6, <2>7, <2>8
<1>4. /\ \A t : Has(z, s, t) <=> Has(w, s, t)
      /\ \A t : Bytes(z, s, t) = Bytes(w, s, t)
      /\ Ordered(w, s) => Ordered(z, s)
  BY <1>1, <1>2, <1>3 DEF Quiet
<1> QED
  BY <1>4 DEF Kinds

\* Replacing one stream, one end's own fields, one stream's history.
SetStream(e, s, z) == stream' = [stream EXCEPT ![e][s] = z]
SetMux(e, m) == mux' = [mux EXCEPT ![e] = m]
SetLog(e, s, l) == log' = [log EXCEPT ![e][s] = l]

\* One stream object is replaced.
LEMMA PutStream ==
    ASSUME MuxTypes, NEW e \in Ends, NEW s \in Sids, NEW z \in StreamRecs,
           SetStream(e, s, z)
    PROVE  /\ stream' \in [Ends -> [Sids -> StreamRecs]]
           /\ stream'[e][s] = z
           /\ \A d \in Ends, x \in Sids : d # e \/ x # s => stream'[d][x] = stream[d][x]
BY DEF MuxTypes, SetStream

\* One stream's history is replaced.
LEMMA PutLog ==
    ASSUME MuxTypes, NEW e \in Ends, NEW s \in Sids, NEW l \in LogRecs,
           SetLog(e, s, l)
    PROVE  /\ log' \in [Ends -> [Sids -> LogRecs]]
           /\ log'[e][s] = l
           /\ \A d \in Ends, x \in Sids : d # e \/ x # s => log'[d][x] = log[d][x]
BY DEF MuxTypes, SetLog

\* One end's own fields are replaced.
LEMMA PutMux ==
    ASSUME MuxTypes, NEW e \in Ends, NEW m \in MuxRecs, SetMux(e, m)
    PROVE  mux' \in [Ends -> MuxRecs] /\ mux'[e] = m /\ \A d \in Ends : d # e => mux'[d] = mux[d]
BY DEF MuxTypes, SetMux

-----------------------------------------------------------------------------
(* The books                                                               *)

\* A number per stream is a sequence.
LEMMA PerStream ==
    ASSUME NEW h \in [Sids -> Nat]
    PROVE  h \in Seq(Nat) /\ Len(h) = MaxSid /\ DOMAIN h = 1 .. MaxSid
<1>1. MaxSid \in Nat
  BY MuxAssumption
<1> QED
  BY <1>1 DEF Sids

\* One stream's counters move and the connection's follow.
LEMMA BooksStep ==
    ASSUME MuxTypes, EnvTypes, Books, NEW e \in Ends, NEW s \in Sids,
           NEW z \in StreamRecs, NEW m \in MuxRecs,
           SetStream(e, s, z), SetMux(e, m), env' = env,
           StreamOK(z),
           m.buffered = mux[e].buffered - stream[e][s].buffered + z.buffered,
           m.frames = mux[e].frames - stream[e][s].frames + z.frames,
           m.account = IF e = Server THEN m.buffered ELSE 0,
           m.buffered <= MaxConnBuffered, m.frames <= MaxConnFrames, m.account <= env.account,
           z.st = "live" =>
              stream[e][s].st = "live" \/ Cardinality(LiveStreams(e)) < env.maxStreams
    PROVE  Books'
<1>1. /\ stream' \in [Ends -> [Sids -> StreamRecs]] /\ stream'[e][s] = z
      /\ \A d \in Ends, x \in Sids : d # e \/ x # s => stream'[d][x] = stream[d][x]
  BY PutStream
<1>2. mux' \in [Ends -> MuxRecs] /\ mux'[e] = m /\ \A d \in Ends : d # e => mux'[d] = mux[d]
  BY PutMux
<1>3. StreamsOK'
  <2> SUFFICES ASSUME NEW d \in Ends, NEW x \in Sids PROVE StreamOK(stream'[d][x])
    BY DEF StreamsOK, StreamOK, QueuedBytes, QueuedFrames
  <2> QED
    BY <1>1 DEF Books, StreamsOK
<1>4. ASSUME NEW d \in Ends, d # e PROVE ConnOK(d)'
  <2>1. stream'[d] = stream[d] /\ mux'[d] = mux[d]
    BY <1>2, <1>4 DEF MuxTypes, SetStream
  <2>2. ConnOK(d)
    BY DEF Books
  <2>3. LiveStreams(d)' = LiveStreams(d)
    BY <2>1 DEF LiveStreams, Live
  <2> QED
    BY <2>1, <2>2, <2>3 DEF ConnOK
<1>5. ConnOK(e)'
  <2> DEFINE b == [x \in Sids |-> stream[e][x].buffered]
             c == [x \in Sids |-> stream'[e][x].buffered]
             f == [x \in Sids |-> stream[e][x].frames]
             g == [x \in Sids |-> stream'[e][x].frames]
  <2>1. \A x \in Sids : stream[e][x] \in StreamRecs /\ stream'[e][x] \in StreamRecs
    BY <1>1 DEF MuxTypes
  <2>2. \A r \in StreamRecs : r.buffered \in Nat /\ r.frames \in Nat
    BY DEF StreamRecs
  <2>3. MaxSid \in Nat
    BY MuxAssumption
  <2>4. /\ b \in Seq(Nat) /\ c \in Seq(Nat) /\ f \in Seq(Nat) /\ g \in Seq(Nat)
        /\ Len(b) = MaxSid /\ Len(c) = MaxSid /\ Len(f) = MaxSid /\ Len(g) = MaxSid
    <3>1. b \in [Sids -> Nat] /\ c \in [Sids -> Nat] /\ f \in [Sids -> Nat] /\ g \in [Sids -> Nat]
      BY <2>1, <2>2
    <3> HIDE DEF b, c, f, g
    <3> QED
      BY <3>1, PerStream
  <2>5. /\ s \in 1 .. Len(b) /\ s \in 1 .. Len(f)
        /\ \A x \in 1 .. Len(b) : x # s => c[x] = b[x]
        /\ \A x \in 1 .. Len(f) : x # s => g[x] = f[x]
    BY <1>1, <2>4 DEF Sids
  <2>6. b[s] = stream[e][s].buffered /\ c[s] = z.buffered /\ f[s] = stream[e][s].frames /\ g[s] = z.frames
    BY <1>1
  <2>7. mux[e].buffered = SumSeq(b) /\ mux[e].frames = SumSeq(f)
    BY Zenon DEF Books, ConnOK
  <2>8. SumSeq(c) = SumSeq(b) - b[s] + c[s] /\ SumSeq(g) = SumSeq(f) - f[s] + g[s]
    <3> HIDE DEF b, c, f, g
    <3> QED
      BY <2>4, <2>5, SumUpdate
  <2>9. m.buffered = SumSeq(c) /\ m.frames = SumSeq(g)
    BY <2>6, <2>7, <2>8, Zenon
  <2>10. Cardinality(LiveStreams(e)') <= env.maxStreams
    <3> DEFINE L == LiveStreams(e)
               M == LiveStreams(e)'
    <3>1. L \subseteq 1 .. MaxSid /\ IsFiniteSet(1 .. MaxSid)
      <4>1. IsFiniteSet(1 .. MaxSid)
        BY <2>3, FS_Interval
      <4> QED
        BY <4>1 DEF LiveStreams, Sids
    <3>2. IsFiniteSet(L) /\ Cardinality(L) \in Nat
      BY <3>1, FS_Subset, FS_CardinalityType
    <3>3. Cardinality(L) <= env.maxStreams /\ env.maxStreams \in Nat
      BY DEF Books, ConnOK, EnvTypes
    <3>4. M \subseteq L \cup {s} /\ (z.st # "live" \/ stream[e][s].st = "live" => M \subseteq L)
      BY <1>1 DEF LiveStreams, Live
    <3> HIDE DEF L, M
    <3>5. CASE M \subseteq L
      <4>1. Cardinality(M) \in Nat /\ Cardinality(M) <= Cardinality(L)
        BY <3>2, <3>5, FS_Subset, FS_CardinalityType
      <4> QED
        BY <3>2, <3>3, <4>1 DEF M
    <3>6. CASE ~(M \subseteq L)
      <4>1. Cardinality(L) < env.maxStreams
        BY <3>4, <3>6 DEF L
      <4>2. IsFiniteSet(L \cup {s}) /\ Cardinality(L \cup {s}) <= Cardinality(L) + 1
        <5>1. /\ IsFiniteSet(L \cup {s})
              /\ Cardinality(L \cup {s}) = IF s \in L THEN Cardinality(L) ELSE Cardinality(L) + 1
          BY <3>2, FS_AddElement
        <5> QED
          BY <3>2, <5>1
      <4>3. /\ Cardinality(M) \in Nat /\ Cardinality(M) <= Cardinality(L \cup {s})
            /\ Cardinality(L \cup {s}) \in Nat
        BY <3>4, <4>2, FS_Subset, FS_CardinalityType
      <4> QED
        BY <3>2, <3>3, <4>1, <4>2, <4>3 DEF M
    <3> QED
      BY <3>5, <3>6
  <2> QED
    BY <1>2, <2>9, <2>10 DEF ConnOK
<1> QED
  BY <1>3, <1>4, <1>5 DEF Books

-----------------------------------------------------------------------------
(* A step that touches one stream                                          *)

\* What the two ends say about a stream does not change unless something they are about does.
LEMMA ViewKept ==
    ASSUME MuxTypes, NEW d \in Ends, NEW x \in Sids,
           stream'[d][x] = stream[d][x], log'[d][x] = log[d][x],
           x \in mux'[d].resetSends <=> x \in mux[d].resetSends, Quiet(wire[d], wire'[d], x)
    PROVE  /\ View(d, x)' = View(d, x)
           /\ Ordered(wire[d], x) => Ordered(wire'[d], x)
<1>1. wire[d] \in Seq(Frames)
  BY DEF MuxTypes
<1>2. /\ \A t : Bytes(wire'[d], x, t) = Bytes(wire[d], x, t)
      /\ Kinds(wire'[d], x) = Kinds(wire[d], x)
      /\ Ordered(wire[d], x) => Ordered(wire'[d], x)
  BY <1>1, QuietWire
<1>3. (IF x \in mux'[d].resetSends THEN 1 ELSE 0) = (IF x \in mux[d].resetSends THEN 1 ELSE 0)
  OBVIOUS
<1>4. View(d, x)' = ViewOf(stream'[d][x], log'[d][x], mux'[d].resetSends, wire'[d], x)
  BY DEF View, ViewOf, Kinds, Has, Bytes, QueuedBytes
<1>5. ViewOf(stream'[d][x], log'[d][x], mux'[d].resetSends, wire'[d], x) = View(d, x)
  BY <1>2, <1>3, Zenon DEF View, ViewOf
<1> QED
  BY <1>2, <1>4, <1>5

\* For no other stream the wire or the RESETs to send change.
Elsewhere(e, s, m) ==
    \A x \in Sids : x # s =>
        /\ \A d \in Ends : Quiet(wire[d], wire'[d], x)
        /\ x \in m.resetSends <=> x \in mux[e].resetSends

\* Protocol holds of stream s when end e has replaced it by z, its own fields by m and
\* the history by l.
Faithful(e, s, z, m, l) ==
    /\ \A d \in Ends : \A i \in DOMAIN wire'[d] : wire'[d][i].ok
    /\ m.breach \cap {"stream_bytes", "stream_frames"} = {}
    /\ \A d \in Ends : Ordered(wire'[d], s)
    /\ Agree(e, ViewOf(z, l, m.resetSends, wire'[e], s),
             ViewOf(stream[Peer(e)][s], log[Peer(e)][s], mux[Peer(e)].resetSends, wire'[Peer(e)], s),
             s, nextId')

\* End e replaces one stream, its own fields and the history of that stream; the wire
\* changes for that stream at most.  Then the books of e and what both ends say about
\* the stream are all there is to show.
LEMMA OneStream ==
    ASSUME IInv, NEW e \in Ends, NEW s \in Sids,
           NEW z \in StreamRecs, NEW m \in MuxRecs, NEW l \in LogRecs,
           SetStream(e, s, z), SetMux(e, m), SetLog(e, s, l), env' = env,
           wire' \in [Ends -> Seq(Frames)],
           Elsewhere(e, s, m),
           nextId' = nextId \/ (s = nextId /\ nextId' = nextId + 1),
           StreamOK(z),
           m.buffered = mux[e].buffered - stream[e][s].buffered + z.buffered,
           m.frames = mux[e].frames - stream[e][s].frames + z.frames,
           m.account = IF e = Server THEN m.buffered ELSE 0,
           m.buffered <= MaxConnBuffered, m.frames <= MaxConnFrames, m.account <= env.account,
           z.st = "live" =>
              stream[e][s].st = "live" \/ Cardinality(LiveStreams(e)) < env.maxStreams,
           z.st = "absent" \/ stream[e][s].st # "absent" \/ e = Agent \/ nextId' = s + 1,
           Compliant => Faithful(e, s, z, m, l)
    PROVE  IInv'
<1>0. MuxTypes
  BY DEF IInv
<1>1. /\ stream' \in [Ends -> [Sids -> StreamRecs]] /\ stream'[e][s] = z
      /\ \A d \in Ends, x \in Sids : d # e \/ x # s => stream'[d][x] = stream[d][x]
  BY <1>0, PutStream
<1>2. mux' \in [Ends -> MuxRecs] /\ mux'[e] = m /\ \A d \in Ends : d # e => mux'[d] = mux[d]
  BY <1>0, PutMux
<1>3. /\ log' \in [Ends -> [Sids -> LogRecs]] /\ log'[e][s] = l
      /\ \A d \in Ends, x \in Sids : d # e \/ x # s => log'[d][x] = log[d][x]
  BY <1>0, PutLog
<1>4. MuxTypes' /\ EnvTypes'
  <2>1. nextId' \in Nat \ {0}
    BY DEF IInv, MuxTypes
  <2> QED
    BY <1>1, <1>2, <1>3, <2>1 DEF MuxTypes, IInv, EnvTypes
<1>5. Books'
  BY BooksStep DEF IInv
<1>6. ASSUME Compliant' PROVE Protocol'
  <2>1. Compliant /\ Protocol
    BY <1>6 DEF IInv, Compliant
  <2>2. \A d \in Ends : mux'[d].breach \cap {"stream_bytes", "stream_frames"} = {}
    BY <1>2, <2>1 DEF Protocol, Faithful
  <2>3. ASSUME NEW x \in Sids, x # s PROVE SidOK(x)'
    <3>1. ASSUME NEW d \in Ends
          PROVE  View(d, x)' = View(d, x) /\ (Ordered(wire[d], x) => Ordered(wire'[d], x))
      <4>1. stream'[d][x] = stream[d][x] /\ log'[d][x] = log[d][x]
        BY <1>1, <1>3, <2>3
      <4>2. x \in mux'[d].resetSends <=> x \in mux[d].resetSends
        BY <1>2, <2>3 DEF Elsewhere
      <4>3. Quiet(wire[d], wire'[d], x)
        BY <2>3 DEF Elsewhere
      <4> QED
        BY <4>1, <4>2, <4>3, ViewKept DEF IInv
    <3>2. \A d \in Ends : Ordered(wire'[d], x)
      BY <2>1, <3>1 DEF Protocol, SidOK
    <3>3. Agree(Server, View(Server, x)', View(Agent, x)', x, nextId')
      <4>1. Agree(Server, View(Server, x), View(Agent, x), x, nextId)
        BY <2>1 DEF Protocol, SidOK
      <4>2. View(Server, x)' = View(Server, x) /\ View(Agent, x)' = View(Agent, x)
        BY <3>1 DEF Ends
      <4>3. nextId \in Nat /\ View(Server, x) \in Views /\ View(Agent, x) \in Views
        BY ViewType DEF IInv, MuxTypes, Ends, View
      <4>4. Agree(Server, View(Server, x), View(Agent, x), x, nextId')
        BY <2>3, <4>1, <4>3, IdUntouched DEF Ends
      <4> QED
        BY <4>2, <4>4
    <3> QED
      BY <3>2, <3>3 DEF SidOK
  <2>4. SidOK(s)'
    <3>1. View(e, s)' = ViewOf(z, l, m.resetSends, wire'[e], s)
      BY <1>1, <1>2, <1>3 DEF View
    <3>2. View(Peer(e), s)' = ViewOf(stream[Peer(e)][s], log[Peer(e)][s], mux[Peer(e)].resetSends, wire'[Peer(e)], s)
      <4>1. Peer(e) \in Ends /\ Peer(e) # e
        BY DEF Peer, Ends, Server, Agent
      <4> QED
        BY <1>1, <1>2, <1>3, <4>1 DEF View
    <3>3. Agree(e, View(e, s)', View(Peer(e), s)', s, nextId')
      BY <2>1, <3>1, <3>2 DEF Faithful
    <3>4. Agree(Server, View(Server, s)', View(Agent, s)', s, nextId')
      <4>1. CASE e = Server
        BY <3>3, <4>1 DEF Peer
      <4>2. CASE e = Agent
        <5>1. Peer(Agent) = Server
          BY DEF Peer, Server, Agent
        <5> QED
          BY <3>3, <4>2, <5>1, AgreeFlips
      <4> QED
        BY <4>1, <4>2 DEF Ends
    <3> QED
      BY <2>1, <3>4 DEF SidOK, Faithful
  <2>5. \A d \in Ends : \A i \in DOMAIN wire'[d] : wire'[d][i].ok
    BY <2>1 DEF Faithful
  <2> QED
    BY <2>2, <2>3, <2>4, <2>5 DEF Protocol
<1>7. Fresh'
  <2> SUFFICES ASSUME NEW x \in Sids, x >= nextId' PROVE stream'[Server][x].st = "absent"
    BY DEF Fresh
  <2>1. nextId \in Nat /\ x \in Nat /\ x >= nextId /\ stream[Server][x].st = "absent"
    <3>1. nextId \in Nat /\ x \in Nat
      BY <1>0 DEF MuxTypes, Sids
    <3>2. x >= nextId
      BY <3>1
    <3> QED
      BY <3>1, <3>2 DEF IInv, Fresh
  <2>2. CASE e = Server /\ x = s
    <3>1. nextId' # s + 1
      BY <2>1, <2>2
    <3>2. e # Agent
      BY <2>2 DEF Server, Agent
    <3> QED
      BY <1>1, <2>1, <2>2, <3>1, <3>2
  <2>3. CASE e # Server \/ x # s
    BY <1>1, <2>1, <2>3 DEF Ends
  <2> QED
    BY <2>2, <2>3
<1> QED
  BY <1>4, <1>5, <1>6, <1>7 DEF IInv

\* The record of an id no Stream has had, and that of a new Stream.
LEMMA NoStreamFields ==
    /\ NoStream \in StreamRecs /\ NewStream \in StreamRecs
    /\ NoStream.st = "absent" /\ NoStream.recv = "OPEN" /\ NoStream.incoming = <<>> /\ NoStream.left = 0
    /\ NoStream.buffered = 0 /\ NoStream.frames = 0 /\ ~NoStream.ended /\ ~NoStream.parked
    /\ NoStream.held = 0 /\ ~NoStream.over /\ ~NoStream.resetTask /\ NoStream.unacked = 0
    /\ NoStream.window = 0
    /\ NewStream.st = "live" /\ NewStream.recv = "OPEN" /\ NewStream.incoming = <<>> /\ NewStream.left = 0
    /\ NewStream.buffered = 0 /\ NewStream.frames = 0 /\ ~NewStream.ended /\ ~NewStream.parked
    /\ NewStream.held = 0 /\ ~NewStream.over /\ ~NewStream.resetTask /\ NewStream.unacked = 0
    /\ NewStream.window = W
<1>1. W \in Nat
  BY MuxAssumption
<1>2. NewStream \in StreamRecs
  BY <1>1 DEF NewStream, StreamRecs, Places, Terminals
<1>3. /\ NewStream.st = "live" /\ NewStream.recv = "OPEN" /\ NewStream.incoming = <<>> /\ NewStream.left = 0
      /\ NewStream.buffered = 0 /\ NewStream.frames = 0 /\ ~NewStream.ended /\ ~NewStream.parked
      /\ NewStream.held = 0 /\ ~NewStream.over /\ ~NewStream.resetTask /\ NewStream.unacked = 0
      /\ NewStream.window = W
  BY DEF NewStream
<1>4. NoStream \in StreamRecs
  BY <1>2 DEF NoStream, StreamRecs, Places
<1>5. /\ NoStream.st = "absent" /\ NoStream.recv = "OPEN" /\ NoStream.incoming = <<>> /\ NoStream.left = 0
      /\ NoStream.buffered = 0 /\ NoStream.frames = 0 /\ ~NoStream.ended /\ ~NoStream.parked
      /\ NoStream.held = 0 /\ ~NoStream.over /\ ~NoStream.resetTask /\ NoStream.unacked = 0
      /\ NoStream.window = 0
  BY <1>2, <1>3 DEF NoStream, StreamRecs
<1> QED
  BY <1>2, <1>3, <1>4, <1>5

\* An end and its peer.
LEMMA PeerFacts ==
    ASSUME NEW e \in Ends
    PROVE  Peer(e) \in Ends /\ Peer(e) # e /\ Peer(Peer(e)) = e /\ \A d \in Ends : d = e \/ d = Peer(e)
BY DEF Peer, Ends, Server, Agent

\* What the invariant says of one stream of one end.
LEMMA StreamFacts ==
    ASSUME IInv, NEW e \in Ends, NEW s \in Sids
    PROVE  /\ stream[e][s] \in StreamRecs /\ log[e][s] \in LogRecs /\ mux[e] \in MuxRecs
           /\ wire[e] \in Seq(Frames) /\ wire[Peer(e)] \in Seq(Frames)
           /\ stream[Peer(e)][s] \in StreamRecs /\ log[Peer(e)][s] \in LogRecs /\ mux[Peer(e)] \in MuxRecs
           /\ StreamOK(stream[e][s])
           /\ stream[e][s].st = "absent" => stream[e][s] = NoStream
           /\ View(e, s) \in Views /\ View(Peer(e), s) \in Views
           /\ nextId \in Nat
<1>1. Peer(e) \in Ends
  BY PeerFacts
<1>2. MuxTypes /\ StreamOK(stream[e][s])
  BY DEF IInv, Books, StreamsOK
<1>3. /\ stream[e][s] \in StreamRecs /\ log[e][s] \in LogRecs /\ mux[e] \in MuxRecs
      /\ wire[e] \in Seq(Frames) /\ wire[Peer(e)] \in Seq(Frames)
      /\ stream[Peer(e)][s] \in StreamRecs /\ log[Peer(e)][s] \in LogRecs /\ mux[Peer(e)] \in MuxRecs
      /\ nextId \in Nat
  BY <1>1, <1>2 DEF MuxTypes
<1>4. View(e, s) \in Views /\ View(Peer(e), s) \in Views
  BY <1>1, <1>3, ViewType DEF View
<1> QED
  BY <1>2, <1>3, <1>4 DEF StreamOK

\* The counters of an end are within its limits.
LEMMA ConnFacts ==
    ASSUME IInv, NEW e \in Ends
    PROVE  /\ mux[e].buffered \in Nat /\ mux[e].frames \in Nat /\ mux[e].account \in Nat
           /\ mux[e].account = IF e = Server THEN mux[e].buffered ELSE 0
           /\ mux[e].buffered <= MaxConnBuffered /\ mux[e].frames <= MaxConnFrames
           /\ mux[e].account <= env.account /\ env.account \in Nat /\ MaxConnBuffered \in Nat
           /\ MaxConnFrames \in Nat
<1>1. MuxTypes /\ EnvTypes /\ ConnOK(e)
  BY DEF IInv, Books
<1>2. mux[e] \in MuxRecs
  BY <1>1 DEF MuxTypes
<1>3. mux[e].buffered \in Nat /\ mux[e].frames \in Nat /\ mux[e].account \in Nat
  BY <1>2 DEF MuxRecs
<1> QED
  BY <1>1, <1>3, MuxAssumption DEF ConnOK, EnvTypes

\* What is not assigned is set to what it was.
LEMMA Unassigned ==
    ASSUME MuxTypes, NEW e \in Ends, NEW s \in Sids
    PROVE  /\ UNCHANGED stream => SetStream(e, s, stream[e][s])
           /\ UNCHANGED mux => SetMux(e, mux[e])
           /\ UNCHANGED log => SetLog(e, s, log[e][s])
BY DEF MuxTypes, SetStream, SetMux, SetLog

\* What is taken off and put back.
LEMMA Restored ==
    ASSUME NEW a \in Nat, NEW b \in Nat
    PROVE  a - b + b = a
OBVIOUS

\* A step that leaves the counters alone.
LEMMA CountersKept ==
    ASSUME IInv, NEW e \in Ends, NEW s \in Sids, NEW z \in StreamRecs, NEW l \in LogRecs,
           SetStream(e, s, z), UNCHANGED mux, SetLog(e, s, l), UNCHANGED <<env, nextId>>,
           wire' \in [Ends -> Seq(Frames)], Elsewhere(e, s, mux[e]),
           StreamOK(z), z.st = stream[e][s].st,
           z.buffered = stream[e][s].buffered, z.frames = stream[e][s].frames,
           Compliant => Faithful(e, s, z, mux[e], l)
    PROVE  IInv'
<1>1. MuxTypes /\ mux[e] \in MuxRecs /\ stream[e][s] \in StreamRecs
  BY StreamFacts DEF IInv
<1>2. SetMux(e, mux[e])
  BY <1>1, Unassigned
<1>3. /\ mux[e].buffered = mux[e].buffered - stream[e][s].buffered + z.buffered
      /\ mux[e].frames = mux[e].frames - stream[e][s].frames + z.frames
  <2>1. \A r \in StreamRecs : r.buffered \in Nat /\ r.frames \in Nat
    BY DEF StreamRecs
  <2> QED
    BY <1>1, <2>1, ConnFacts, Restored
<1> QED
  BY <1>1, <1>2, <1>3, ConnFacts, OneStream

\* A step that leaves the streams and the counters alone.
LEMMA StreamsKept ==
    ASSUME IInv, NEW e \in Ends, NEW s \in Sids, NEW m \in MuxRecs, NEW l \in LogRecs,
           UNCHANGED stream, SetMux(e, m), SetLog(e, s, l), UNCHANGED <<env, nextId>>,
           wire' \in [Ends -> Seq(Frames)], Elsewhere(e, s, m),
           m.buffered = mux[e].buffered, m.frames = mux[e].frames, m.account = mux[e].account,
           Compliant => Faithful(e, s, stream[e][s], m, l)
    PROVE  IInv'
<1> DEFINE z == stream[e][s]
<1>1. MuxTypes /\ mux[e] \in MuxRecs /\ z \in StreamRecs /\ StreamOK(z)
  BY StreamFacts DEF IInv
<1>2. SetStream(e, s, z)
  BY <1>1, Unassigned
<1>3. /\ m.buffered = mux[e].buffered - z.buffered + z.buffered
      /\ m.frames = mux[e].frames - z.frames + z.frames
  <2>1. z.buffered \in Nat /\ z.frames \in Nat
    BY <1>1 DEF StreamRecs
  <2> QED
    BY <2>1, ConnFacts, Restored
<1>4. m.account = IF e = Server THEN m.buffered ELSE 0
  BY ConnFacts
<1>5. m.buffered <= MaxConnBuffered /\ m.frames <= MaxConnFrames /\ m.account <= env.account
  BY ConnFacts
<1> HIDE DEF z
<1> QED
  BY <1>1, <1>2, <1>3, <1>4, <1>5, OneStream DEF z

-----------------------------------------------------------------------------
(* The wire                                                                *)

\* All frames are well formed.
AllOk(w) == \A d \in Ends : \A i \in DOMAIN w[d] : w[d][i].ok

\* End e sends a frame of stream s, or of the connection.
LEMMA SentWire ==
    ASSUME IInv, NEW e \in Ends, NEW f \in Frames, f.ok, wire' = Sent(e, f)
    PROVE  /\ wire' \in [Ends -> Seq(Frames)] /\ wire'[Peer(e)] = wire[Peer(e)]
           /\ wire'[e] = IF mux[e].ws = "open" THEN Append(wire[e], f) ELSE wire[e]
           /\ \A x : x # f.sid => \A d \in Ends : Quiet(wire[d], wire'[d], x)
           /\ AllOk(wire) => AllOk(wire')
<1>1. MuxTypes /\ Peer(e) \in Ends /\ Peer(e) # e /\ \A d \in Ends : d = e \/ d = Peer(e)
  BY PeerFacts DEF IInv
<1>2. /\ wire \in [Ends -> Seq(Frames)] /\ wire[e] \in Seq(Frames)
      /\ wire' = [wire EXCEPT ![e] = IF mux[e].ws = "open" THEN Append(wire[e], f) ELSE wire[e]]
  BY <1>1 DEF MuxTypes, Sent
<1> DEFINE z == IF mux[e].ws = "open" THEN Append(wire[e], f) ELSE wire[e]
<1>3. z \in Seq(Frames) /\ \A i \in DOMAIN z : (i \in DOMAIN wire[e] /\ z[i] = wire[e][i]) \/ z[i] = f
  <2>1. CASE mux[e].ws = "open"
    <3> DEFINE w == wire[e]
    <3>1. w \in Seq(Frames)
      BY <1>2
    <3> HIDE DEF w
    <3>2. Append(w, f) \in Seq(Frames) /\ \A i \in DOMAIN Append(w, f) : (i \in DOMAIN w /\ Append(w, f)[i] = w[i]) \/ Append(w, f)[i] = f
      BY <3>1
    <3> QED
      BY <2>1, <3>2 DEF w
  <2>2. CASE mux[e].ws # "open"
    BY <1>2, <2>2
  <2> QED
    BY <2>1, <2>2
<1>4. z = wire[e] \/ z = Append(wire[e], f)
  OBVIOUS
<1> HIDE DEF z
<1>5. wire' \in [Ends -> Seq(Frames)] /\ wire'[e] = z /\ wire'[Peer(e)] = wire[Peer(e)]
  BY <1>1, <1>2, <1>3 DEF z
<1>6. \A x : x # f.sid => \A d \in Ends : Quiet(wire[d], wire'[d], x)
  BY <1>1, <1>4, <1>5 DEF Quiet
<1>7. AllOk(wire) => AllOk(wire')
  BY <1>1, <1>3, <1>5 DEF AllOk
<1> QED
  BY <1>5, <1>6, <1>7 DEF z

\* What the frame does to its own stream.
LEMMA SentView ==
    ASSUME IInv, NEW e \in Ends, NEW s \in Sids, NEW f \in Frames, f.ok, f.sid = s, wire' = Sent(e, f)
    PROVE  /\ Kinds(wire'[e], s) = Kinds(wire[e], s) \cup (IF mux[e].ws = "open" THEN {f.type} ELSE {})
           /\ \A t : Bytes(wire'[e], s, t)
                       = Bytes(wire[e], s, t) + (IF mux[e].ws = "open" THEN Match(f, s, t) ELSE 0)
           /\ ( /\ Ordered(wire[e], s) /\ "RESET" \notin Kinds(wire[e], s)
                /\ "EOF" \in Kinds(wire[e], s) => f.type \in {"WINDOW_UPDATE", "RESET"}
                /\ f.type = "OPEN" => Kinds(wire[e], s) = {} )
              => Ordered(wire'[e], s)
<1>1. wire[e] \in Seq(Frames) /\ wire'[e] = IF mux[e].ws = "open" THEN Append(wire[e], f) ELSE wire[e]
  BY SentWire, StreamFacts
<1> DEFINE w == wire[e]
           z == Append(w, f)
<1>2. \A t : t \in Kinds(w, s) <=> t \in FrameTypes /\ Has(w, s, t)
  BY DEF Kinds
<1>3. f.type \in FrameTypes /\ w \in Seq(Frames)
  BY <1>1, FrameFields
<1> HIDE DEF w
<1>4. /\ \A t : Has(z, s, t) <=> Has(w, s, t) \/ f.type = t
      /\ \A t : Bytes(z, s, t) = Bytes(w, s, t) + Match(f, s, t)
      /\ ( /\ Ordered(w, s) /\ ~Has(w, s, "RESET")
           /\ Has(w, s, "EOF") => f.type \in {"WINDOW_UPDATE", "RESET"}
           /\ f.type = "OPEN" => \A t \in FrameTypes : ~Has(w, s, t) )
         => Ordered(z, s)
  BY <1>3, WireAppend
<1>5. \A t : Bytes(w, s, t) \in Nat
  BY <1>1, WireBytes DEF w
<1> HIDE DEF z
<1>6. Kinds(z, s) = Kinds(w, s) \cup {f.type}
  BY <1>3, <1>4 DEF Kinds
<1>7. ( /\ Ordered(w, s) /\ "RESET" \notin Kinds(w, s)
        /\ "EOF" \in Kinds(w, s) => f.type \in {"WINDOW_UPDATE", "RESET"}
        /\ f.type = "OPEN" => Kinds(w, s) = {} )
      => Ordered(z, s)
  <2>1. "RESET" \in FrameTypes /\ "EOF" \in FrameTypes
    BY DEF FrameTypes
  <2> QED
    BY <1>2, <1>4, <2>1
<1>8. CASE mux[e].ws = "open"
  <2>1. wire'[e] = z
    BY <1>1, <1>8 DEF w, z
  <2> QED
    BY <1>4, <1>6, <1>7, <1>8, <2>1 DEF w
<1>9. CASE mux[e].ws # "open"
  <2>1. wire'[e] = w
    BY <1>1, <1>9 DEF w
  <2> QED
    BY <1>5, <1>9, <2>1 DEF w
<1> QED
  BY <1>8, <1>9

\* End e takes a frame.
LEMMA TakenWire ==
    ASSUME IInv, NEW e \in Ends, wire[Peer(e)] # <<>>, wire' = Taken(e)
    PROVE  LET f == Arrived(e)
           IN /\ wire' \in [Ends -> Seq(Frames)] /\ wire'[e] = wire[e]
              /\ wire'[Peer(e)] = Tail(wire[Peer(e)])
              /\ f \in Frames
              /\ \A x : x # f.sid => \A d \in Ends : Quiet(wire[d], wire'[d], x)
              /\ AllOk(wire) => AllOk(wire') /\ f.ok
<1>1. MuxTypes /\ Peer(e) \in Ends /\ Peer(e) # e /\ \A d \in Ends : d = e \/ d = Peer(e)
  BY PeerFacts DEF IInv
<1> DEFINE w == wire[Peer(e)]
           z == Tail(w)
<1>2. wire \in [Ends -> Seq(Frames)] /\ w \in Seq(Frames) /\ w # <<>>
  BY <1>1 DEF MuxTypes
<1>3. wire' = [wire EXCEPT ![Peer(e)] = z]
  BY DEF Taken
<1> HIDE DEF w
<1>4. /\ z \in Seq(Frames) /\ Head(w) \in Frames /\ 1 \in DOMAIN w /\ Head(w) = w[1]
      /\ \A i \in DOMAIN z : i + 1 \in DOMAIN w /\ z[i] = w[i + 1]
  BY <1>2
<1>5. Arrived(e) = Head(w)
  BY DEF Arrived, w
<1> HIDE DEF z
<1>7. wire' \in [Ends -> Seq(Frames)] /\ wire'[e] = wire[e] /\ wire'[Peer(e)] = z
  BY <1>1, <1>2, <1>3, <1>4
<1>8. \A x : x # Head(w).sid => \A d \in Ends : Quiet(wire[d], wire'[d], x)
  BY <1>1, <1>2, <1>7 DEF Quiet, w, z
<1>9. AllOk(wire) => AllOk(wire') /\ Head(w).ok
  <2>1. ASSUME AllOk(wire) PROVE AllOk(wire') /\ w[1].ok
    <3>1. \A i \in DOMAIN w : w[i].ok
      BY <1>1, <2>1 DEF AllOk, w
    <3>2. \A i \in DOMAIN z : z[i].ok
      BY <1>4, <3>1
    <3>3. \A d \in Ends : wire'[d] = z \/ wire'[d] = wire[d]
      BY <1>1, <1>7
    <3> QED
      BY <1>4, <2>1, <3>1, <3>2, <3>3 DEF AllOk
  <2> QED
    BY <1>4, <2>1
<1> QED
  BY <1>4, <1>5, <1>7, <1>8, <1>9 DEF w, z

\* What that does to the frame's own stream.
LEMMA TakenView ==
    ASSUME IInv, NEW e \in Ends, NEW s \in Sids, wire[Peer(e)] # <<>>, wire' = Taken(e), Arrived(e).sid = s
    PROVE  LET f == Arrived(e)
               d == Peer(e)
               U == Kinds(wire'[d], s)
           IN /\ U \subseteq Kinds(wire[d], s) /\ f.type \in Kinds(wire[d], s)
              /\ f.type = "DATA" => Bytes(wire[d], s, "DATA") = f.n + Bytes(wire'[d], s, "DATA")
              /\ f.type # "DATA" => Bytes(wire[d], s, "DATA") = Bytes(wire'[d], s, "DATA")
              /\ f.type = "WINDOW_UPDATE" =>
                    Bytes(wire[d], s, "WINDOW_UPDATE") = f.n + Bytes(wire'[d], s, "WINDOW_UPDATE")
              /\ f.type # "WINDOW_UPDATE" =>
                    Bytes(wire[d], s, "WINDOW_UPDATE") = Bytes(wire'[d], s, "WINDOW_UPDATE")
              /\ \A t : Bytes(wire[d], s, t) \in Nat /\ Bytes(wire'[d], s, t) \in Nat
              /\ Ordered(wire[d], s) =>
                    /\ Ordered(wire'[d], s) /\ "OPEN" \notin U
                    /\ f.type = "EOF" => Bytes(wire'[d], s, "DATA") = 0
<1> DEFINE w == wire[Peer(e)]
           z == Tail(w)
           f == Head(w)
<1>1. w \in Seq(Frames) /\ w # <<>> /\ wire'[Peer(e)] = z /\ Arrived(e) = f /\ f.sid = s
  BY StreamFacts, TakenWire DEF Arrived
<1> HIDE DEF w
<1>2. /\ f \in Frames /\ z \in Seq(Frames) /\ Has(w, f.sid, f.type)
      /\ \A t : Has(z, s, t) => Has(w, s, t)
      /\ \A t : Bytes(w, s, t) = Match(f, s, t) + Bytes(z, s, t)
      /\ Ordered(w, s) =>
            /\ Ordered(z, s)
            /\ f.sid = s => ~Has(z, s, "OPEN")
            /\ f.sid = s /\ f.type = "EOF" => ~Has(z, s, "DATA")
  BY <1>1, WireTail
<1> HIDE DEF z, f
<1>3. \A t : Bytes(w, s, t) \in Nat /\ Bytes(z, s, t) \in Nat
  BY <1>1, <1>2, WireBytes
<1>4. f.type \in FrameTypes /\ f.n \in Nat
  BY <1>2, FrameFields
<1>5. Kinds(z, s) \subseteq Kinds(w, s) /\ f.type \in Kinds(w, s)
  BY <1>1, <1>2, <1>4 DEF Kinds
<1>6. \A t : Match(f, s, t) = IF f.type = t THEN f.n ELSE 0
  BY <1>1 DEF Match
<1>7. \A t : Bytes(w, s, t) = (IF f.type = t THEN f.n ELSE 0) + Bytes(z, s, t)
  BY <1>2, <1>6
<1>8. Ordered(w, s) =>
         /\ Ordered(z, s) /\ "OPEN" \notin Kinds(z, s)
         /\ f.type = "EOF" => Bytes(z, s, "DATA") = 0
  <2>1. ~Has(z, s, "DATA") => Bytes(z, s, "DATA") = 0
    BY <1>2, WireBytes
  <2> QED
    BY <1>1, <1>2, <2>1 DEF Kinds
<1>9. /\ f.type = "DATA" => Bytes(w, s, "DATA") = f.n + Bytes(z, s, "DATA")
      /\ f.type # "DATA" => Bytes(w, s, "DATA") = Bytes(z, s, "DATA")
      /\ f.type = "WINDOW_UPDATE" => Bytes(w, s, "WINDOW_UPDATE") = f.n + Bytes(z, s, "WINDOW_UPDATE")
      /\ f.type # "WINDOW_UPDATE" => Bytes(w, s, "WINDOW_UPDATE") = Bytes(z, s, "WINDOW_UPDATE")
  BY <1>3, <1>7
<1> QED
  BY <1>1, <1>3, <1>5, <1>8, <1>9 DEF w

-----------------------------------------------------------------------------
(* Stream: the send direction                                              *)

\* The protocol holds of every stream, told from either end.
LEMMA AgreeNow ==
    ASSUME IInv, Compliant, NEW e \in Ends, NEW s \in Sids
    PROVE  /\ AllOk(wire) /\ mux[e].breach \cap {"stream_bytes", "stream_frames"} = {}
           /\ \A d \in Ends : Ordered(wire[d], s)
           /\ Agree(e, View(e, s), View(Peer(e), s), s, nextId)
<1>1. Protocol
  BY DEF IInv
<1>2. /\ AllOk(wire) /\ mux[e].breach \cap {"stream_bytes", "stream_frames"} = {}
      /\ SidOK(s)
  BY <1>1 DEF Protocol, AllOk
<1>3. CASE e = Server
  BY <1>2, <1>3 DEF SidOK, Peer
<1>4. CASE e = Agent
  <2>1. Peer(e) = Server
    BY <1>4 DEF Peer, Server, Agent
  <2> QED
    BY <1>2, <1>4, <2>1, AgreeFlips DEF SidOK
<1> QED
  BY <1>3, <1>4 DEF Ends

\* What an end says of a stream now.
LEMMA ViewNow ==
    ASSUME IInv, NEW e \in Ends, NEW s \in Sids
    PROVE  LET v == View(e, s)
               r == stream[e][s]
               l == log[e][s]
           IN /\ v \in Views /\ View(Peer(e), s) \in Views /\ nextId \in Nat
              /\ v.st = r.st /\ v.recv = r.recv /\ v.ended = r.ended /\ v.window = r.window
              /\ v.held = r.held /\ v.unacked = r.unacked /\ v.queued = QueuedBytes(r)
              /\ v.sent = l.sent /\ v.fed = l.fed /\ v.resets = l.resets
              /\ v.due = (IF s \in mux[e].resetSends THEN 1 ELSE 0) /\ v.under = Kinds(wire[e], s)
              /\ v.data = Bytes(wire[e], s, "DATA") /\ v.grants = Bytes(wire[e], s, "WINDOW_UPDATE")
<1>1. /\ stream[e][s] \in StreamRecs /\ log[e][s] \in LogRecs /\ wire[e] \in Seq(Frames)
      /\ View(Peer(e), s) \in Views /\ nextId \in Nat
  BY StreamFacts
<1> QED
  BY <1>1, ViewFields DEF View

\* The protocol holds after end e has sent at most a frame of stream s.
LEMMA FaithfulSent ==
    ASSUME IInv, Compliant, NEW e \in Ends, NEW s \in Sids, NEW z, NEW m, NEW l,
           AllOk(wire) => AllOk(wire'), wire'[Peer(e)] = wire[Peer(e)], UNCHANGED nextId,
           m.breach = mux[e].breach, Ordered(wire'[e], s),
           Agree(e, ViewOf(z, l, m.resetSends, wire'[e], s), View(Peer(e), s), s, nextId)
    PROVE  Faithful(e, s, z, m, l)
<1>1. /\ AllOk(wire) /\ mux[e].breach \cap {"stream_bytes", "stream_frames"} = {}
      /\ \A d \in Ends : Ordered(wire[d], s)
  BY AgreeNow
<1>2. \A d \in Ends : Ordered(wire'[d], s)
  BY <1>1, PeerFacts
<1> QED
  BY <1>1, <1>2 DEF Faithful, AllOk, View

\* A stream's own conditions, when its queue and its counters stay.
LEMMA StreamKept ==
    ASSUME NEW r \in StreamRecs, NEW z \in StreamRecs, StreamOK(r), r.st # "absent",
           z.st = r.st, z.recv = r.recv, z.incoming = r.incoming, z.buffered = r.buffered,
           z.frames = r.frames, z.over = r.over, z.window <= MaxSendWindow
    PROVE  StreamOK(z)
BY DEF StreamOK, QueuedBytes, QueuedFrames

\* A step of the sender that nobody else can see.
LEMMA UnheardStep ==
    ASSUME IInv, NEW e \in Ends, NEW s \in Sids, NEW z \in StreamRecs, SetStream(e, s, z),
           UNCHANGED <<mux, wire, nextId, env, log>>, stream[e][s].st # "absent",
           z.st = stream[e][s].st, z.recv = stream[e][s].recv, z.incoming = stream[e][s].incoming,
           z.buffered = stream[e][s].buffered, z.frames = stream[e][s].frames,
           z.unacked = stream[e][s].unacked, z.window = stream[e][s].window,
           z.ended = stream[e][s].ended, z.held = stream[e][s].held, z.over = stream[e][s].over
    PROVE  IInv'
<1> DEFINE r == stream[e][s]
           l == log[e][s]
<1>1. /\ MuxTypes /\ r \in StreamRecs /\ StreamOK(r) /\ l \in LogRecs
      /\ wire' \in [Ends -> Seq(Frames)]
  BY StreamFacts DEF IInv, MuxTypes
<1>2. SetLog(e, s, l)
  BY <1>1, Unassigned
<1>3. Elsewhere(e, s, mux[e])
  BY DEF Elsewhere, Quiet
<1>4. StreamOK(z)
  <2>1. r.window <= MaxSendWindow
    BY <1>1 DEF StreamOK
  <2> HIDE DEF r
  <2> QED
    BY <1>1, <2>1, StreamKept DEF r
<1>5. ASSUME Compliant PROVE Faithful(e, s, z, mux[e], l)
  <2>1. ViewOf(z, l, mux[e].resetSends, wire[e], s) = View(e, s)
    BY Zenon DEF View, ViewOf, QueuedBytes
  <2>2. /\ AllOk(wire) /\ mux[e].breach \cap {"stream_bytes", "stream_frames"} = {}
        /\ \A d \in Ends : Ordered(wire[d], s)
        /\ Agree(e, View(e, s), View(Peer(e), s), s, nextId)
    BY <1>5, AgreeNow
  <2> QED
    BY <2>1, <2>2 DEF Faithful, AllOk, View
<1> HIDE DEF r, l
<1> QED
  BY <1>1, <1>2, <1>3, <1>4, <1>5, CountersKept DEF r

\* A send begins.
LEMMA StartSendKeeps ==
    ASSUME IInv, NEW e \in Ends, NEW s \in Sids, NEW n \in env.chunks, StartSend(e, s, n)
    PROVE  IInv'
<1> DEFINE r == stream[e][s]
           z == [r EXCEPT !.left = n]
<1>1. r \in StreamRecs /\ n \in Nat /\ r.st = "live"
  BY StreamFacts DEF StartSend, IInv, EnvTypes, Live
<1>2. SetStream(e, s, z)
  BY Zenon DEF StartSend, SetStream
<1> HIDE DEF r
<1>3. /\ z \in StreamRecs
      /\ z.st = r.st /\ z.recv = r.recv /\ z.incoming = r.incoming /\ z.buffered = r.buffered
      /\ z.frames = r.frames /\ z.unacked = r.unacked /\ z.window = r.window
      /\ z.ended = r.ended /\ z.held = r.held /\ z.over = r.over
  BY <1>1 DEF StreamRecs
<1> HIDE DEF z
<1> QED
  BY <1>1, <1>2, <1>3, UnheardStep DEF StartSend, r

\* A parked sender wakes.
LEMMA WakeSenderKeeps ==
    ASSUME IInv, NEW e \in Ends, NEW s \in Sids, WakeSender(e, s)
    PROVE  IInv'
<1> DEFINE r == stream[e][s]
           z == [r EXCEPT !.parked = FALSE]
<1>1. r \in StreamRecs /\ r.st # "absent"
  <2>1. r \in StreamRecs /\ (r.st = "absent" => r = NoStream)
    BY StreamFacts
  <2>2. r.parked
    BY DEF WakeSender
  <2> QED
    BY <2>1, <2>2, NoStreamFields
<1>2. SetStream(e, s, z)
  BY Zenon DEF WakeSender, SetStream
<1> HIDE DEF r
<1>3. /\ z \in StreamRecs
      /\ z.st = r.st /\ z.recv = r.recv /\ z.incoming = r.incoming /\ z.buffered = r.buffered
      /\ z.frames = r.frames /\ z.unacked = r.unacked /\ z.window = r.window
      /\ z.ended = r.ended /\ z.held = r.held /\ z.over = r.over
  BY <1>1 DEF StreamRecs
<1> HIDE DEF z
<1> QED
  BY <1>1, <1>2, <1>3, UnheardStep DEF WakeSender, r

\* A parked sender gives up.
LEMMA CreditStallKeeps ==
    ASSUME IInv, NEW e \in Ends, NEW s \in Sids, CreditStall(e, s)
    PROVE  IInv'
<1> DEFINE r == stream[e][s]
           z == [r EXCEPT !.left = 0, !.parked = FALSE]
<1>1. r \in StreamRecs /\ r.st # "absent"
  <2>1. r \in StreamRecs /\ (r.st = "absent" => r = NoStream)
    BY StreamFacts
  <2>2. r.parked
    BY DEF CreditStall
  <2> QED
    BY <2>1, <2>2, NoStreamFields
<1>2. SetStream(e, s, z)
  BY Zenon DEF CreditStall, SetStream
<1> HIDE DEF r
<1>3. /\ z \in StreamRecs
      /\ z.st = r.st /\ z.recv = r.recv /\ z.incoming = r.incoming /\ z.buffered = r.buffered
      /\ z.frames = r.frames /\ z.unacked = r.unacked /\ z.window = r.window
      /\ z.ended = r.ended /\ z.held = r.held /\ z.over = r.over
  BY <1>1 DEF StreamRecs
<1> HIDE DEF z
<1> QED
  BY <1>1, <1>2, <1>3, UnheardStep DEF CreditStall, r

\* A sender is cancelled.
LEMMA CancelSendKeeps ==
    ASSUME IInv, NEW e \in Ends, NEW s \in Sids, CancelSend(e, s)
    PROVE  IInv'
<1> DEFINE r == stream[e][s]
           z == [r EXCEPT !.left = 0, !.parked = FALSE]
<1>1. r \in StreamRecs /\ r.st # "absent"
  <2>1. r \in StreamRecs /\ (r.st = "absent" => r = NoStream)
    BY StreamFacts
  <2>2. r.left > 0
    BY DEF CancelSend
  <2> QED
    BY <2>1, <2>2, NoStreamFields
<1>2. SetStream(e, s, z)
  BY Zenon DEF CancelSend, SetStream
<1> HIDE DEF r
<1>3. /\ z \in StreamRecs
      /\ z.st = r.st /\ z.recv = r.recv /\ z.incoming = r.incoming /\ z.buffered = r.buffered
      /\ z.frames = r.frames /\ z.unacked = r.unacked /\ z.window = r.window
      /\ z.ended = r.ended /\ z.held = r.held /\ z.over = r.over
  BY <1>1 DEF StreamRecs
<1> HIDE DEF z
<1> QED
  BY <1>1, <1>2, <1>3, UnheardStep DEF CancelSend, r

\* The least of some numbers.
LEMMA MinIs ==
    ASSUME NEW S \in SUBSET Nat, S # {}
    PROVE  Min(S) \in S /\ Min(S) \in Nat /\ \A y \in S : Min(S) <= y
<1>1. \E x \in S : \A y \in S : x <= y
  BY LeastExists
<1>2. Min(S) \in S /\ \A y \in S : Min(S) <= y
  BY <1>1 DEF Min
<1> QED
  BY <1>2

\* A frame that the code builds.
LEMMA FrameIs ==
    ASSUME NEW t \in FrameTypes, NEW s \in 0 .. MaxSid, NEW n \in Nat
    PROVE  LET f == Frame(t, s, n)
           IN f \in Frames /\ f.ok /\ f.sid = s /\ f.type = t /\ f.n = n
BY DEF Frame, Frames

\* send() finds the stream gone, parks, or frames what its credit allows.
LEMMA SendStepKeeps ==
    ASSUME IInv, NEW e \in Ends, NEW s \in Sids, SendStep(e, s)
    PROVE  IInv'
<1> DEFINE r == stream[e][s]
           l == log[e][s]
           n == Min({r.left, r.window, MaxFrame})
           up == mux[e].ws = "open"
<1>0. r \in StreamRecs /\ (r.st = "absent" => r = NoStream) /\ StreamOK(r) /\ l \in LogRecs
  BY StreamFacts
<1>1. r.st # "absent"
  BY <1>0, NoStreamFields DEF SendStep
<1>2. CASE SendOver(r) /\ stream' = [stream EXCEPT ![e][s].left = 0] /\ UNCHANGED <<wire, log>>
  <2> DEFINE z == [r EXCEPT !.left = 0]
  <2>1. SetStream(e, s, z)
    BY <1>2, Zenon DEF SetStream
  <2>2. UNCHANGED <<mux, wire, nextId, env, log>>
    BY <1>2 DEF SendStep
  <2> HIDE DEF r
  <2>3. /\ z \in StreamRecs
        /\ z.st = r.st /\ z.recv = r.recv /\ z.incoming = r.incoming /\ z.buffered = r.buffered
        /\ z.frames = r.frames /\ z.unacked = r.unacked /\ z.window = r.window
        /\ z.ended = r.ended /\ z.held = r.held /\ z.over = r.over
    BY <1>0 DEF StreamRecs
  <2> HIDE DEF z
  <2> QED
    BY <1>1, <2>1, <2>2, <2>3, UnheardStep DEF r
<1>3. CASE /\ stream' = [stream EXCEPT ![e][s].parked = TRUE, ![e][s].waiter = FALSE]
           /\ UNCHANGED <<wire, log>>
  <2> DEFINE z == [r EXCEPT !.parked = TRUE, !.waiter = FALSE]
  <2>1. SetStream(e, s, z)
    BY <1>0, <1>3 DEF SetStream
  <2>2. UNCHANGED <<mux, wire, nextId, env, log>>
    BY <1>3 DEF SendStep
  <2> HIDE DEF r
  <2>3. /\ z \in StreamRecs
        /\ z.st = r.st /\ z.recv = r.recv /\ z.incoming = r.incoming /\ z.buffered = r.buffered
        /\ z.frames = r.frames /\ z.unacked = r.unacked /\ z.window = r.window
        /\ z.ended = r.ended /\ z.held = r.held /\ z.over = r.over
    BY <1>0 DEF StreamRecs
  <2> HIDE DEF z
  <2> QED
    BY <1>1, <2>1, <2>2, <2>3, UnheardStep DEF r
<1>4. CASE /\ ~SendOver(r) /\ r.window > 0
           /\ stream' = [stream EXCEPT ![e][s].window = @ - n, ![e][s].left = IF up THEN @ - n ELSE 0]
           /\ wire' = Sent(e, Frame("DATA", s, n))
           /\ log' = [log EXCEPT ![e][s].sent = IF up THEN @ + n ELSE @]
  <2> DEFINE k == IF up THEN r.left - n ELSE 0
             z == [r EXCEPT !.window = r.window - n, !.left = k]
             b == IF up THEN l.sent + n ELSE l.sent
             h == [l EXCEPT !.sent = b]
             f == Frame("DATA", s, n)
  <2>1. n \in Nat /\ n <= r.window /\ n <= r.left /\ r.window \in Nat /\ r.left \in Nat
    <3>1. r.window \in Nat /\ r.left \in Nat
      BY <1>0 DEF StreamRecs
    <3> DEFINE S == {r.left, r.window, MaxFrame}
    <3>2. S \in SUBSET Nat /\ S # {} /\ r.left \in S /\ r.window \in S
      BY <3>1, MuxAssumption
    <3> HIDE DEF S
    <3>3. Min(S) \in Nat /\ Min(S) <= r.window /\ Min(S) <= r.left
      BY <3>2, MinIs
    <3> QED
      BY <3>1, <3>3 DEF S
  <2>2. SetStream(e, s, z)
    BY <1>4, Zenon DEF SetStream
  <2>3. SetLog(e, s, h)
    BY <1>4, Zenon DEF SetLog
  <2>4. UNCHANGED <<mux, nextId, env>>
    BY DEF SendStep
  <2>5. r.st = "live" /\ ~r.ended
    BY <1>0, <1>1, <1>4 DEF SendOver, StreamRecs, Places
  <2>6. f \in Frames /\ f.ok /\ f.sid = s /\ f.type = "DATA" /\ f.n = n
    <3>1. "DATA" \in FrameTypes /\ s \in 0 .. MaxSid
      BY DEF FrameTypes, Sids
    <3> HIDE DEF n
    <3> QED
      BY <2>1, <3>1, FrameIs
  <2> HIDE DEF n, f
  <2>7. /\ wire' \in [Ends -> Seq(Frames)] /\ wire'[Peer(e)] = wire[Peer(e)]
        /\ \A x : x # f.sid => \A d \in Ends : Quiet(wire[d], wire'[d], x)
        /\ AllOk(wire) => AllOk(wire')
    BY <1>4, <2>6, SentWire DEF f
  <2>8. Elsewhere(e, s, mux[e])
    BY <2>6, <2>7 DEF Elsewhere
  <2>9. k \in Nat /\ b \in Nat /\ l.sent \in Nat /\ r.window - n \in Nat
    BY <1>0, <2>1 DEF LogRecs
  <2> HIDE DEF k, b, r, l
  <2>10. /\ z \in StreamRecs
         /\ z.st = r.st /\ z.recv = r.recv /\ z.incoming = r.incoming /\ z.buffered = r.buffered
         /\ z.frames = r.frames /\ z.unacked = r.unacked /\ z.window = r.window - n
         /\ z.ended = r.ended /\ z.held = r.held /\ z.over = r.over
    <3> DEFINE d == r.window - n
    <3>1. d \in Nat
      BY <2>9
    <3> HIDE DEF d
    <3>2. [r EXCEPT !.window = d, !.left = k] \in StreamRecs
      BY <1>0, <2>9, <3>1 DEF StreamRecs
    <3> QED
      BY <1>0, <3>2 DEF StreamRecs, d
  <2>11. h \in LogRecs /\ h.sent = b /\ h.fed = l.fed /\ h.resets = l.resets
    BY <1>0, <2>9 DEF LogRecs
  <2> HIDE DEF z, h
  <2>12. StreamOK(z)
    <3>1. z.window <= MaxSendWindow
      BY <1>0, <2>1, <2>10, MuxAssumption DEF StreamOK
    <3> QED
      BY <1>0, <1>1, <2>10, <3>1, StreamKept
  <2>13. ASSUME Compliant PROVE Faithful(e, s, z, mux[e], h)
    <3> DEFINE v == View(e, s)
               q == View(Peer(e), s)
               x == ViewOf(z, h, mux[e].resetSends, wire'[e], s)
    <3>1. /\ mux[e].breach \cap {"stream_bytes", "stream_frames"} = {}
          /\ Ordered(wire[e], s) /\ Agree(e, v, q, s, nextId)
      BY <2>13, AgreeNow
    <3>2. /\ v \in Views /\ q \in Views /\ nextId \in Nat
          /\ v.st = r.st /\ v.recv = r.recv /\ v.ended = r.ended /\ v.window = r.window
          /\ v.held = r.held /\ v.unacked = r.unacked /\ v.queued = QueuedBytes(r)
          /\ v.sent = l.sent /\ v.fed = l.fed /\ v.resets = l.resets
          /\ v.due = (IF s \in mux[e].resetSends THEN 1 ELSE 0) /\ v.under = Kinds(wire[e], s)
          /\ v.data = Bytes(wire[e], s, "DATA") /\ v.grants = Bytes(wire[e], s, "WINDOW_UPDATE")
      BY ViewNow DEF r, l
    <3>3. /\ x \in Views
          /\ x.st = z.st /\ x.recv = z.recv /\ x.ended = z.ended /\ x.window = z.window
          /\ x.held = z.held /\ x.unacked = z.unacked /\ x.queued = QueuedBytes(z)
          /\ x.sent = h.sent /\ x.fed = h.fed /\ x.resets = h.resets
          /\ x.due = (IF s \in mux[e].resetSends THEN 1 ELSE 0) /\ x.under = Kinds(wire'[e], s)
          /\ x.data = Bytes(wire'[e], s, "DATA") /\ x.grants = Bytes(wire'[e], s, "WINDOW_UPDATE")
      <4>1. wire'[e] \in Seq(Frames)
        BY <2>7
      <4> QED
        BY <2>10, <2>11, <4>1, ViewFields
    <3>4. QueuedBytes(z) = QueuedBytes(r)
      BY <2>10 DEF QueuedBytes
    <3>5. /\ Kinds(wire'[e], s) = Kinds(wire[e], s) \cup (IF up THEN {"DATA"} ELSE {})
          /\ Bytes(wire'[e], s, "DATA") = Bytes(wire[e], s, "DATA") + (IF up THEN n ELSE 0)
          /\ Bytes(wire'[e], s, "WINDOW_UPDATE") = Bytes(wire[e], s, "WINDOW_UPDATE")
          /\ Ordered(wire'[e], s)
      <4>1. "RESET" \notin Kinds(wire[e], s) /\ "EOF" \notin Kinds(wire[e], s)
        BY <2>5, <3>1, <3>2 DEF Agree, SentOK
      <4>2. /\ Match(f, s, "DATA") = n /\ Match(f, s, "WINDOW_UPDATE") = 0
            /\ \A t : Bytes(wire[e], s, t) \in Nat
        <5>1. wire[e] \in Seq(Frames)
          BY StreamFacts
        <5> QED
          BY <2>6, <5>1, WireBytes DEF Match
      <4>3. /\ Kinds(wire'[e], s) = Kinds(wire[e], s) \cup (IF up THEN {f.type} ELSE {})
            /\ \A t : Bytes(wire'[e], s, t) = Bytes(wire[e], s, t) + (IF up THEN Match(f, s, t) ELSE 0)
            /\ ( /\ Ordered(wire[e], s) /\ "RESET" \notin Kinds(wire[e], s)
                 /\ "EOF" \in Kinds(wire[e], s) => f.type \in {"WINDOW_UPDATE", "RESET"}
                 /\ f.type = "OPEN" => Kinds(wire[e], s) = {} )
               => Ordered(wire'[e], s)
        BY <1>4, <2>6, SentView DEF f
      <4> QED
        BY <2>6, <3>1, <4>1, <4>2, <4>3
    <3> HIDE DEF v, q, x
    <3>6. Agree(e, x, q, s, nextId)
      <4>1. CASE up
        BY <2>1, <2>5, <2>10, <2>11, <3>1, <3>2, <3>3, <3>4, <3>5, <4>1, DataSent DEF b
      <4>2. CASE ~up
        BY <2>1, <2>5, <2>10, <2>11, <3>1, <3>2, <3>3, <3>4, <3>5, <4>2, CreditSpent DEF b
      <4> QED
        BY <4>1, <4>2
    <3> QED
      BY <2>4, <2>7, <2>13, <3>1, <3>5, <3>6, FaithfulSent DEF x, q
  <2> QED
    BY <2>2, <2>3, <2>4, <2>7, <2>8, <2>10, <2>11, <2>12, <2>13, CountersKept DEF r
<1> QED
  BY <1>2, <1>3, <1>4 DEF SendStep

\* send_eof() marks the half-close and sends it.
LEMMA SendEofKeeps ==
    ASSUME IInv, NEW e \in Ends, NEW s \in Sids, SendEof(e, s)
    PROVE  IInv'
<1> DEFINE r == stream[e][s]
           l == log[e][s]
           z == [r EXCEPT !.ended = TRUE]
           f == Frame("EOF", s, 0)
           up == mux[e].ws = "open"
<1>1. /\ r \in StreamRecs /\ StreamOK(r) /\ l \in LogRecs /\ wire[e] \in Seq(Frames)
      /\ MuxTypes /\ r.st = "live" /\ ~r.ended
  BY StreamFacts DEF SendEof, Live, IInv
<1>2. SetStream(e, s, z)
  BY Zenon DEF SendEof, SetStream
<1>3. SetLog(e, s, l)
  BY <1>1, Unassigned DEF SendEof
<1>4. f \in Frames /\ f.ok /\ f.sid = s /\ f.type = "EOF" /\ wire' = Sent(e, f)
  <2>1. "EOF" \in FrameTypes /\ s \in 0 .. MaxSid
    BY DEF FrameTypes, Sids
  <2> QED
    BY <2>1, FrameIs DEF SendEof
<1> HIDE DEF f, r, l
<1>5. /\ wire' \in [Ends -> Seq(Frames)] /\ wire'[Peer(e)] = wire[Peer(e)]
      /\ \A x : x # f.sid => \A d \in Ends : Quiet(wire[d], wire'[d], x)
      /\ AllOk(wire) => AllOk(wire')
  BY <1>4, SentWire
<1>6. Elsewhere(e, s, mux[e])
  BY <1>4, <1>5 DEF Elsewhere
<1>7. /\ z \in StreamRecs /\ z.ended = TRUE
      /\ z.st = r.st /\ z.recv = r.recv /\ z.incoming = r.incoming /\ z.buffered = r.buffered
      /\ z.frames = r.frames /\ z.unacked = r.unacked /\ z.window = r.window
      /\ z.held = r.held /\ z.over = r.over
  BY <1>1 DEF StreamRecs
<1> HIDE DEF z
<1>8. StreamOK(z) /\ QueuedBytes(z) = QueuedBytes(r)
  <2>1. z.window <= MaxSendWindow
    BY <1>1, <1>7 DEF StreamOK
  <2>2. StreamOK(z)
    BY <1>1, <1>7, <2>1, StreamKept
  <2> QED
    BY <1>7, <2>2 DEF QueuedBytes
<1>9. ASSUME Compliant PROVE Faithful(e, s, z, mux[e], l)
  <2> DEFINE v == View(e, s)
             q == View(Peer(e), s)
             x == ViewOf(z, l, mux[e].resetSends, wire'[e], s)
             K == IF up THEN {"EOF"} ELSE {}
  <2>1. Ordered(wire[e], s) /\ Agree(e, v, q, s, nextId)
    BY <1>9, AgreeNow
  <2>2. /\ v \in Views /\ q \in Views /\ nextId \in Nat
        /\ v.st = r.st /\ v.recv = r.recv /\ v.ended = r.ended /\ v.window = r.window
        /\ v.held = r.held /\ v.unacked = r.unacked /\ v.queued = QueuedBytes(r)
        /\ v.sent = l.sent /\ v.fed = l.fed /\ v.resets = l.resets
        /\ v.due = (IF s \in mux[e].resetSends THEN 1 ELSE 0) /\ v.under = Kinds(wire[e], s)
        /\ v.data = Bytes(wire[e], s, "DATA") /\ v.grants = Bytes(wire[e], s, "WINDOW_UPDATE")
    BY ViewNow DEF r, l
  <2>3. wire'[e] \in Seq(Frames)
    BY <1>5
  <2>4. /\ x \in Views
        /\ x.st = z.st /\ x.recv = z.recv /\ x.ended = z.ended /\ x.window = z.window
        /\ x.held = z.held /\ x.unacked = z.unacked /\ x.queued = QueuedBytes(z)
        /\ x.sent = l.sent /\ x.fed = l.fed /\ x.resets = l.resets
        /\ x.due = (IF s \in mux[e].resetSends THEN 1 ELSE 0) /\ x.under = Kinds(wire'[e], s)
        /\ x.data = Bytes(wire'[e], s, "DATA") /\ x.grants = Bytes(wire'[e], s, "WINDOW_UPDATE")
    BY <1>1, <1>7, <2>3, ViewFields
  <2> HIDE DEF v, q, x
  <2>5. "RESET" \notin Kinds(wire[e], s) /\ "EOF" \notin Kinds(wire[e], s)
    BY <1>1, <2>1, <2>2 DEF Agree, SentOK
  <2>6. /\ Kinds(wire'[e], s) = Kinds(wire[e], s) \cup (IF up THEN {f.type} ELSE {})
        /\ \A t : Bytes(wire'[e], s, t) = Bytes(wire[e], s, t) + (IF up THEN Match(f, s, t) ELSE 0)
        /\ ( /\ Ordered(wire[e], s) /\ "RESET" \notin Kinds(wire[e], s)
             /\ "EOF" \in Kinds(wire[e], s) => f.type \in {"WINDOW_UPDATE", "RESET"}
             /\ f.type = "OPEN" => Kinds(wire[e], s) = {} )
           => Ordered(wire'[e], s)
    BY <1>4, SentView
  <2>7. Match(f, s, "DATA") = 0 /\ Match(f, s, "WINDOW_UPDATE") = 0
    BY <1>4 DEF Match
  <2>8. /\ Kinds(wire'[e], s) = Kinds(wire[e], s) \cup K
        /\ Bytes(wire'[e], s, "DATA") = Bytes(wire[e], s, "DATA")
        /\ Bytes(wire'[e], s, "WINDOW_UPDATE") = Bytes(wire[e], s, "WINDOW_UPDATE")
        /\ Ordered(wire'[e], s)
    <3>1. \A t : Bytes(wire[e], s, t) \in Nat
      BY <1>1, WireBytes
    <3> QED
      BY <1>4, <2>1, <2>5, <2>6, <2>7, <3>1
  <2>9. K \in SUBSET {"EOF"}
    OBVIOUS
  <2> HIDE DEF K
  <2>10. Agree(e, x, q, s, nextId)
    <3>1. /\ x.st = v.st /\ x.recv = v.recv /\ x.ended = TRUE /\ x.window = v.window
          /\ x.held = v.held /\ x.unacked = v.unacked /\ x.queued = v.queued /\ x.sent = v.sent
          /\ x.fed = v.fed /\ x.resets = v.resets /\ x.due = v.due /\ x.under = v.under \cup K
          /\ x.data = v.data /\ x.grants = v.grants
      BY <1>7, <1>8, <2>2, <2>4, <2>8
    <3>2. v.st = "live"
      BY <1>1, <2>2
    <3> QED
      BY <2>1, <2>2, <2>4, <2>9, <3>1, <3>2, HalfClosed
  <2>11. UNCHANGED nextId
    BY DEF SendEof
  <2> QED
    BY <1>5, <1>9, <2>8, <2>10, <2>11, FaithfulSent DEF x, q
<1> QED
  BY <1>1, <1>2, <1>3, <1>5, <1>6, <1>7, <1>8, <1>9, CountersKept DEF SendEof, r

-----------------------------------------------------------------------------
(* Stream: the receive direction                                           *)

\* The frames QueuedFrames counts.
Counts(q) == [i \in DOMAIN q |-> IF q[i] = None THEN 0 ELSE 1]

\* They are a sequence of zeros and ones.
LEMMA CountsType ==
    ASSUME NEW q \in Seq(Nat)
    PROVE  /\ Counts(q) \in Seq(Nat) /\ Len(Counts(q)) = Len(q)
           /\ \A i \in 1 .. Len(q) : Counts(q)[i] = IF q[i] = None THEN 0 ELSE 1
<1>1. DOMAIN q = 1 .. Len(q) /\ Len(q) \in Nat
  OBVIOUS
<1> QED
  BY <1>1 DEF Counts

\* A queue holds at least a byte for every frame.
LEMMA QueueTypes ==
    ASSUME NEW r \in StreamRecs
    PROVE  /\ QueuedBytes(r) \in Nat /\ QueuedFrames(r) \in Nat
           /\ QueuedFrames(r) <= QueuedBytes(r)
           /\ QueuedBytes(r) = SumSeq(r.incoming) /\ QueuedFrames(r) = SumSeq(Counts(r.incoming))
<1> DEFINE q == r.incoming
           c == Counts(q)
<1>1. q \in Seq(Nat)
  BY DEF StreamRecs
<1>2. QueuedBytes(r) = SumSeq(q) /\ QueuedFrames(r) = SumSeq(c)
  BY DEF QueuedBytes, QueuedFrames, Counts
<1> HIDE DEF q
<1>3. c \in Seq(Nat) /\ Len(c) = Len(q) /\ \A i \in 1 .. Len(q) : c[i] = IF q[i] = None THEN 0 ELSE 1
  BY <1>1, CountsType
<1>4. \A i \in 1 .. Len(c) : c[i] <= q[i]
  <2>1. \A i \in 1 .. Len(c) : q[i] \in Nat
    BY <1>1, <1>3
  <2> QED
    BY <1>3, <2>1 DEF None
<1> HIDE DEF c
<1>5. SumSeq(c) \in Nat /\ SumSeq(q) \in Nat /\ SumSeq(c) <= SumSeq(q)
  BY <1>1, <1>3, <1>4, SumBounds, SumMonotone
<1> QED
  BY <1>2, <1>5 DEF c, q

\* A chunk is read.
LEMMA QueueTail ==
    ASSUME NEW r \in StreamRecs, r.incoming # <<>>, NEW z \in StreamRecs, z.incoming = Tail(r.incoming)
    PROVE  LET n == Head(r.incoming)
           IN /\ n \in Nat /\ n = r.incoming[1] /\ 1 \in DOMAIN r.incoming
              /\ QueuedBytes(r) = n + QueuedBytes(z)
              /\ QueuedFrames(r) = (IF n = None THEN 0 ELSE 1) + QueuedFrames(z)
              /\ \A i \in DOMAIN z.incoming : \E j \in DOMAIN r.incoming : z.incoming[i] = r.incoming[j]
<1> DEFINE q == r.incoming
           t == Tail(q)
           c == Counts(q)
           d == Counts(t)
           n == Head(q)
<1>1. q \in Seq(Nat) /\ q # <<>>
  BY DEF StreamRecs
<1>2. QueuedBytes(r) = SumSeq(q) /\ QueuedFrames(r) = SumSeq(c)
  BY QueueTypes
<1>3. QueuedBytes(z) = SumSeq(t) /\ QueuedFrames(z) = SumSeq(d)
  BY QueueTypes
<1>0. z.incoming = t
  OBVIOUS
<1> HIDE DEF q
<1>4. /\ t \in Seq(Nat) /\ Len(t) = Len(q) - 1 /\ Len(q) \in Nat \ {0} /\ n \in Nat /\ n = q[1]
      /\ \A i \in 1 .. Len(t) : t[i] = q[i + 1] /\ i + 1 \in 1 .. Len(q)
      /\ DOMAIN q = 1 .. Len(q) /\ DOMAIN t = 1 .. Len(t) /\ 1 \in DOMAIN q
  BY <1>1
<1>5. c \in Seq(Nat) /\ Len(c) = Len(q) /\ \A i \in 1 .. Len(q) : c[i] = IF q[i] = None THEN 0 ELSE 1
  BY <1>1, CountsType
<1> HIDE DEF t, n
<1>6. d \in Seq(Nat) /\ Len(d) = Len(t) /\ \A i \in 1 .. Len(t) : d[i] = IF t[i] = None THEN 0 ELSE 1
  BY <1>4, CountsType
<1> HIDE DEF c, d
<1>7. d = Tail(c)
  <2>1. c # <<>> /\ Len(d) = Len(c) - 1
    BY <1>4, <1>5, <1>6
  <2>2. \A i \in 1 .. Len(d) : d[i] = c[i + 1]
    BY <1>4, <1>5, <1>6
  <2> QED
    BY <1>5, <1>6, <2>1, <2>2, TailIs
<1>8. c # <<>> /\ c[1] = IF n = None THEN 0 ELSE 1
  BY <1>4, <1>5
<1>9. SumSeq(q) = n + SumSeq(t)
  BY <1>1, <1>4, SumTail DEF t
<1>10. SumSeq(c) = c[1] + SumSeq(d)
  BY <1>5, <1>7, <1>8, SumTail
<1>11. \A i \in DOMAIN t : \E j \in DOMAIN q : t[i] = q[j]
  BY <1>4
<1> QED
  BY <1>0, <1>2, <1>3, <1>4, <1>8, <1>9, <1>10, <1>11 DEF q, n

\* A chunk or the sentinel is queued.
LEMMA QueueAppend ==
    ASSUME NEW r \in StreamRecs, NEW n \in Nat, NEW z \in StreamRecs, z.incoming = Append(r.incoming, n)
    PROVE  /\ QueuedBytes(z) = QueuedBytes(r) + n
           /\ QueuedFrames(z) = QueuedFrames(r) + (IF n = None THEN 0 ELSE 1)
           /\ \A i \in DOMAIN z.incoming :
                z.incoming[i] = n \/ \E j \in DOMAIN r.incoming : z.incoming[i] = r.incoming[j]
<1> DEFINE q == r.incoming
           t == Append(q, n)
           c == Counts(q)
           d == Counts(t)
           k == IF n = None THEN 0 ELSE 1
<1>1. q \in Seq(Nat)
  BY DEF StreamRecs
<1>2. QueuedBytes(r) = SumSeq(q) /\ QueuedFrames(r) = SumSeq(c)
  BY QueueTypes
<1>3. QueuedBytes(z) = SumSeq(t) /\ QueuedFrames(z) = SumSeq(d)
  BY QueueTypes
<1>0. z.incoming = t
  OBVIOUS
<1> HIDE DEF q
<1>4. /\ t \in Seq(Nat) /\ Len(t) = Len(q) + 1 /\ Len(q) \in Nat /\ t[Len(q) + 1] = n
      /\ \A i \in 1 .. Len(q) : t[i] = q[i]
      /\ DOMAIN q = 1 .. Len(q) /\ DOMAIN t = 1 .. Len(q) + 1
  BY <1>1
<1>5. c \in Seq(Nat) /\ Len(c) = Len(q) /\ \A i \in 1 .. Len(q) : c[i] = IF q[i] = None THEN 0 ELSE 1
  BY <1>1, CountsType
<1> HIDE DEF t
<1>6. d \in Seq(Nat) /\ Len(d) = Len(t) /\ \A i \in 1 .. Len(t) : d[i] = IF t[i] = None THEN 0 ELSE 1
  BY <1>4, CountsType
<1> HIDE DEF c, d
<1>7. d = Append(c, k)
  <2>1. Len(d) = Len(c) + 1 /\ k \in Nat
    BY <1>4, <1>5, <1>6
  <2>2. \A i \in 1 .. Len(c) : d[i] = c[i]
    BY <1>4, <1>5, <1>6, SMTT(30)
  <2>3. d[Len(c) + 1] = k
    BY <1>4, <1>5, <1>6
  <2> HIDE DEF k
  <2> QED
    BY <1>5, <1>6, <2>1, <2>2, <2>3
<1>8. SumSeq(t) = SumSeq(q) + n
  BY <1>1, SumAppend DEF t
<1>9. SumSeq(d) = SumSeq(c) + k
  <2>1. k \in Nat
    OBVIOUS
  <2> HIDE DEF k
  <2> QED
    BY <1>5, <1>7, <2>1, SumAppend
<1>10. \A i \in DOMAIN t : t[i] = n \/ \E j \in DOMAIN q : t[i] = q[j]
  BY <1>4
<1> QED
  BY <1>0, <1>2, <1>3, <1>8, <1>9, <1>10 DEF q

\* What one stream holds is within what the connection holds.
LEMMA StreamWithin ==
    ASSUME IInv, NEW e \in Ends, NEW s \in Sids
    PROVE  /\ stream[e][s].buffered \in Nat /\ stream[e][s].frames \in Nat
           /\ stream[e][s].buffered <= mux[e].buffered /\ stream[e][s].frames <= mux[e].frames
<1> DEFINE b == [x \in Sids |-> stream[e][x].buffered]
           f == [x \in Sids |-> stream[e][x].frames]
<1>1. \A x \in Sids : stream[e][x].buffered \in Nat /\ stream[e][x].frames \in Nat
  <2>1. \A x \in Sids : stream[e][x] \in StreamRecs
    BY DEF IInv, MuxTypes
  <2>2. \A r \in StreamRecs : r.buffered \in Nat /\ r.frames \in Nat
    BY DEF StreamRecs
  <2> QED
    BY <2>1, <2>2
<1>2. b \in [Sids -> Nat] /\ f \in [Sids -> Nat]
  BY <1>1
<1>3. mux[e].buffered = SumSeq(b) /\ mux[e].frames = SumSeq(f)
  BY Zenon DEF IInv, Books, ConnOK
<1>4. b[s] = stream[e][s].buffered /\ f[s] = stream[e][s].frames
  OBVIOUS
<1> HIDE DEF b, f
<1>5. s \in 1 .. MaxSid
  BY DEF Sids
<1>6. /\ b \in Seq(Nat) /\ Len(b) = MaxSid /\ f \in Seq(Nat) /\ Len(f) = MaxSid
  BY <1>2, PerStream
<1>7. b[s] <= SumSeq(b) /\ f[s] <= SumSeq(f)
  BY <1>5, <1>6, SumBounds
<1> QED
  BY <1>1, <1>3, <1>4, <1>7

\* The account follows the connection's bytes, on the server.
LEMMA ReleasedIs ==
    ASSUME NEW e \in Ends, NEW b \in Nat, NEW n \in Nat, n <= b, NEW a, a = IF e = Server THEN b ELSE 0
    PROVE  Released(e, a, n) = IF e = Server THEN b - n ELSE 0
<1>1. e = Server \/ e = Agent
  BY DEF Ends
<1>2. Server # Agent
  BY DEF Server, Agent
<1> QED
  BY <1>1, <1>2 DEF Released

\* read() takes the oldest chunk; a live stream's counters follow.
LEMMA ReadRecord ==
    ASSUME NEW r \in StreamRecs, StreamOK(r), r.incoming # <<>>
    PROVE  LET n == Head(r.incoming)
               taken == [r EXCEPT !.incoming = Tail(@), !.held = n, !.over = n = None]
               counted == n # None /\ r.st = "live"
               z == IF counted THEN [taken EXCEPT !.buffered = @ - n, !.frames = @ - 1] ELSE taken
           IN /\ n \in Nat /\ z \in StreamRecs /\ StreamOK(z)
              /\ z.st = r.st /\ z.recv = r.recv /\ z.ended = r.ended /\ z.window = r.window
              /\ z.held = n /\ z.unacked = r.unacked /\ QueuedBytes(r) = n + QueuedBytes(z)
              /\ z.buffered = (IF counted THEN r.buffered - n ELSE r.buffered)
              /\ z.frames = (IF counted THEN r.frames - 1 ELSE r.frames)
              /\ counted => n <= r.buffered /\ 1 <= r.frames
<1> DEFINE n == Head(r.incoming)
           t == Tail(r.incoming)
           o == n = None
           taken == [r EXCEPT !.incoming = t, !.held = n, !.over = o]
           counted == n # None /\ r.st = "live"
           b == IF counted THEN r.buffered - n ELSE r.buffered
           f == IF counted THEN r.frames - 1 ELSE r.frames
           z == IF counted THEN [taken EXCEPT !.buffered = b, !.frames = f] ELSE taken
<1>1. r.incoming \in Seq(Nat) /\ n \in Nat /\ t \in Seq(Nat) /\ o \in BOOLEAN
  <2>1. r.incoming \in Seq(Nat)
    BY DEF StreamRecs
  <2> QED
    BY <2>1
<1>2. /\ taken \in StreamRecs /\ taken.incoming = t
      /\ taken.buffered = r.buffered /\ taken.frames = r.frames
  <2> HIDE DEF n, t, o
  <2> QED
    BY <1>1 DEF StreamRecs
<1>3. /\ QueuedBytes(r) = n + QueuedBytes(taken)
      /\ QueuedFrames(r) = (IF n = None THEN 0 ELSE 1) + QueuedFrames(taken)
      /\ n = r.incoming[1] /\ 1 \in DOMAIN r.incoming
      /\ \A i \in DOMAIN t : \E j \in DOMAIN r.incoming : t[i] = r.incoming[j]
  <2> HIDE DEF taken, o
  <2>1. /\ QueuedBytes(r) = n + QueuedBytes(taken)
        /\ QueuedFrames(r) = (IF n = None THEN 0 ELSE 1) + QueuedFrames(taken)
        /\ n = r.incoming[1] /\ 1 \in DOMAIN r.incoming
        /\ \A i \in DOMAIN taken.incoming :
              \E j \in DOMAIN r.incoming : taken.incoming[i] = r.incoming[j]
    BY <1>2, QueueTail, Zenon
  <2> QED
    BY <1>2, <2>1, Zenon
<1>4. /\ QueuedBytes(taken) \in Nat /\ QueuedFrames(taken) \in Nat
      /\ QueuedBytes(r) \in Nat /\ QueuedFrames(r) \in Nat
  <2> HIDE DEF taken
  <2> QED
    BY <1>2, QueueTypes
<1>5. r.buffered \in Nat /\ r.frames \in Nat
  BY DEF StreamRecs
<1>6. counted => n <= r.buffered /\ 1 <= r.frames
  <2>1. counted => r.buffered = QueuedBytes(r) /\ r.frames = QueuedFrames(r) /\ n # None
    BY DEF StreamOK
  <2> HIDE DEF taken, n
  <2> QED
    BY <1>1, <1>3, <1>4, <2>1
<1>7. b \in Nat /\ f \in Nat /\ b <= r.buffered /\ f <= r.frames
  <2> HIDE DEF n, counted
  <2> QED
    BY <1>1, <1>5, <1>6
<1>8. /\ z \in StreamRecs /\ z.st = r.st /\ z.recv = r.recv /\ z.ended = r.ended /\ z.window = r.window
      /\ z.held = n /\ z.unacked = r.unacked /\ z.incoming = t /\ z.over = o
      /\ z.buffered = b /\ z.frames = f
  <2>1. /\ taken.st = r.st /\ taken.recv = r.recv /\ taken.ended = r.ended /\ taken.window = r.window
        /\ taken.held = n /\ taken.unacked = r.unacked /\ taken.incoming = t /\ taken.over = o
        /\ taken.buffered = r.buffered /\ taken.frames = r.frames
    <3> HIDE DEF n, t, o
    <3> QED
      BY DEF StreamRecs
  <2>2. (b = r.buffered /\ f = r.frames) \/ counted
    OBVIOUS
  <2> HIDE DEF taken, b, f, counted, o, n, t
  <2>3. CASE counted
    BY <1>2, <1>7, <2>1, <2>3 DEF StreamRecs
  <2>4. CASE ~counted
    BY <1>2, <1>7, <2>1, <2>2, <2>4
  <2> QED
    BY <2>3, <2>4
<1>9. QueuedBytes(z) = QueuedBytes(taken) /\ QueuedFrames(z) = QueuedFrames(taken)
  BY <1>2, <1>8 DEF QueuedBytes, QueuedFrames
<1>10. StreamOK(z)
  <2>1. r.st # "absent"
    BY NoStreamFields DEF StreamOK
  <2>2. z.st # "live" => z.buffered = 0 /\ z.frames = 0
    BY <1>8 DEF StreamOK
  <2>3. z.st = "live" => z.buffered = QueuedBytes(z) /\ z.frames = QueuedFrames(z)
    <3>1. r.st = "live" => r.buffered = QueuedBytes(r) /\ r.frames = QueuedFrames(r)
      BY DEF StreamOK
    <3>2. r.st = "live" => (counted <=> n # None)
      OBVIOUS
    <3>3. /\ b = IF counted THEN r.buffered - n ELSE r.buffered
          /\ f = IF counted THEN r.frames - 1 ELSE r.frames
      OBVIOUS
    <3> HIDE DEF z, taken, counted, n, b, f
    <3>4. CASE n = None
      <4>1. n = 0
        BY <3>4 DEF None
      <4> QED
        BY <1>3, <1>4, <1>8, <1>9, <3>1, <3>2, <3>3, <3>4, <4>1
    <3>5. CASE n # None
      <4>1. z.st = "live" => b = r.buffered - n /\ f = r.frames - 1
        BY <1>8, <3>2, <3>3, <3>5
      <4>2. QueuedBytes(r) - n = QueuedBytes(taken) /\ QueuedFrames(r) - 1 = QueuedFrames(taken)
        <5>1. n \in Nat /\ QueuedBytes(r) = n + QueuedBytes(taken) /\ QueuedFrames(r) = 1 + QueuedFrames(taken)
          BY <1>1, <1>3, <3>5
        <5> QED
          BY <1>4, <5>1
      <4> QED
        BY <1>8, <1>9, <3>1, <4>1, <4>2, Zenon
    <3> QED
      BY <3>4, <3>5
  <2>4. z.recv = "OPEN" => ~z.over /\ \A i \in DOMAIN z.incoming : z.incoming[i] # None
    <3>1. r.recv = "OPEN" => \A i \in DOMAIN r.incoming : r.incoming[i] # None
      BY DEF StreamOK
    <3>2. r.recv = "OPEN" => n # None
      BY <1>3, <3>1
    <3> HIDE DEF z, t, n
    <3> QED
      BY <1>3, <1>8, <3>1, <3>2
  <2>5. z.buffered <= StreamHardMax /\ z.frames <= MaxQueuedFrames /\ z.window <= MaxSendWindow
    <3>1. r.buffered <= StreamHardMax /\ r.frames <= MaxQueuedFrames /\ r.window <= MaxSendWindow
      BY DEF StreamOK
    <3>2. StreamHardMax \in Nat /\ MaxQueuedFrames \in Nat
      BY MuxAssumption DEF StreamHardMax, MaxQueuedFrames
    <3> HIDE DEF z, b, f
    <3> QED
      BY <1>5, <1>7, <1>8, <3>1, <3>2
  <2> HIDE DEF z
  <2> QED
    BY <1>8, <2>1, <2>2, <2>3, <2>4, <2>5 DEF StreamOK
<1> QED
  <2>1. z = IF n # None /\ r.st = "live"
            THEN [[r EXCEPT !.incoming = Tail(@), !.held = n, !.over = n = None]
                    EXCEPT !.buffered = @ - n, !.frames = @ - 1]
            ELSE [r EXCEPT !.incoming = Tail(@), !.held = n, !.over = n = None]
    <3>1. taken = [r EXCEPT !.incoming = Tail(@), !.held = n, !.over = n = None]
      BY Zenon
    <3>2. counted => b = taken.buffered - n /\ f = taken.frames - 1
      BY <1>2
    <3>3. counted => z = [taken EXCEPT !.buffered = @ - n, !.frames = @ - 1]
      <4> HIDE DEF taken, b, f, counted
      <4> QED
        BY <3>2, Zenon
    <3>4. ~counted => z = taken
      BY Zenon
    <3> QED
      <4> HIDE DEF taken, z
      <4> QED
        BY <3>1, <3>3, <3>4, Zenon
  <2> QED
    BY <1>1, <1>3, <1>6, <1>8, <1>9, <1>10, <2>1, Zenon

\* Stream.read: the counters of the stream, the connection and the account move together.
LEMMA ReadKeeps ==
    ASSUME IInv, NEW e \in Ends, NEW s \in Sids, Read(e, s)
    PROVE  IInv'
<1> DEFINE r == stream[e][s]
           l == log[e][s]
           p == mux[e]
           n == Head(r.incoming)
           counted == n # None /\ r.st = "live"
           taken == [r EXCEPT !.incoming = Tail(@), !.held = n, !.over = n = None]
           z == IF counted THEN [taken EXCEPT !.buffered = @ - n, !.frames = @ - 1] ELSE taken
           m == IF counted
                THEN [p EXCEPT !.buffered = p.buffered - n, !.frames = p.frames - 1,
                               !.account = Released(e, p.account, n)]
                ELSE p
<1>1. /\ r \in StreamRecs /\ StreamOK(r) /\ l \in LogRecs /\ p \in MuxRecs /\ wire[e] \in Seq(Frames)
      /\ MuxTypes /\ r.incoming # <<>> /\ r.held = 0 /\ wire' \in [Ends -> Seq(Frames)]
  BY StreamFacts DEF Read, IInv, MuxTypes
<1>2. SetStream(e, s, z)
  BY Zenon DEF Read, SetStream, Counted
<1>3. SetLog(e, s, l)
  BY <1>1, Unassigned DEF Read
<1>4. SetMux(e, m)
  <2>1. CASE counted
    <3>1. mux' = [mux EXCEPT ![e].buffered = @ - n, ![e].frames = @ - 1, ![e].account = Released(e, @, n)]
      BY <2>1, Zenon DEF Read, Counted
    <3>2. mux' = [mux EXCEPT ![e] = [p EXCEPT !.buffered = p.buffered - n, !.frames = p.frames - 1,
                                            !.account = Released(e, p.account, n)]]
      BY <3>1, Zenon
    <3> QED
      BY <2>1, <3>2, Zenon DEF SetMux
  <2>2. CASE ~counted
    <3>1. mux' = mux
      BY <2>2, Zenon DEF Read, Counted
    <3>2. SetMux(e, mux[e])
      BY <1>1, <3>1, Unassigned
    <3>3. m = mux[e]
      BY <2>2, Zenon
    <3> QED
      BY <3>2, <3>3, Zenon
  <2> QED
    BY <2>1, <2>2
<1>5. UNCHANGED <<wire, nextId, env, log>>
  BY DEF Read
<1>6. /\ n \in Nat /\ z \in StreamRecs /\ StreamOK(z)
      /\ z.st = r.st /\ z.recv = r.recv /\ z.ended = r.ended /\ z.window = r.window
      /\ z.held = n /\ z.unacked = r.unacked /\ QueuedBytes(r) = n + QueuedBytes(z)
      /\ z.buffered = (IF counted THEN r.buffered - n ELSE r.buffered)
      /\ z.frames = (IF counted THEN r.frames - 1 ELSE r.frames)
      /\ counted => n <= r.buffered /\ 1 <= r.frames
  <2> HIDE DEF r
  <2> QED
    BY <1>1, ReadRecord
<1>7. /\ r.buffered \in Nat /\ r.frames \in Nat /\ r.buffered <= p.buffered /\ r.frames <= p.frames
      /\ p.buffered \in Nat /\ p.frames \in Nat /\ p.account \in Nat
      /\ p.account = IF e = Server THEN p.buffered ELSE 0
      /\ p.buffered <= MaxConnBuffered /\ p.frames <= MaxConnFrames
      /\ p.account <= env.account /\ env.account \in Nat /\ MaxConnBuffered \in Nat
      /\ MaxConnFrames \in Nat
  BY StreamWithin, ConnFacts
<1> HIDE DEF r, l, p, n, z
<1>8. /\ m \in MuxRecs /\ m.resetSends = p.resetSends /\ m.breach = p.breach
      /\ m.buffered = p.buffered - r.buffered + z.buffered
      /\ m.frames = p.frames - r.frames + z.frames
      /\ m.account = (IF e = Server THEN m.buffered ELSE 0)
      /\ m.buffered <= MaxConnBuffered /\ m.frames <= MaxConnFrames /\ m.account <= env.account
  <2>1. CASE counted
    <3> DEFINE b == p.buffered - n
               f == p.frames - 1
               a == Released(e, p.account, n)
    <3>1. n <= r.buffered /\ 1 <= r.frames /\ z.buffered = r.buffered - n /\ z.frames = r.frames - 1
      BY <1>6, <2>1
    <3>2. b \in Nat /\ f \in Nat /\ n <= p.buffered /\ b <= p.buffered /\ f <= p.frames
      BY <1>6, <1>7, <3>1
    <3>3. a = IF e = Server THEN b ELSE 0
      BY <1>6, <1>7, <3>2, ReleasedIs
    <3>4. a \in Nat /\ a <= p.account
      BY <1>7, <3>2, <3>3
    <3>5. b = p.buffered - r.buffered + z.buffered /\ f = p.frames - r.frames + z.frames
      BY <1>6, <1>7, <3>1
    <3>6. b <= MaxConnBuffered /\ f <= MaxConnFrames /\ a <= env.account
      BY <1>7, <3>2, <3>4
    <3> HIDE DEF b, f, a, counted
    <3>7. m = [p EXCEPT !.buffered = b, !.frames = f, !.account = a]
      BY <2>1, Zenon DEF b, f, a
    <3>8. /\ m \in MuxRecs /\ m.resetSends = p.resetSends /\ m.breach = p.breach
          /\ m.buffered = b /\ m.frames = f /\ m.account = a
      <4> HIDE DEF m
      <4> QED
        BY <1>1, <3>2, <3>4, <3>7 DEF MuxRecs
    <3> HIDE DEF m
    <3> QED
      BY <3>3, <3>5, <3>6, <3>8
  <2>2. CASE ~counted
    <3>1. m = p /\ z.buffered = r.buffered /\ z.frames = r.frames
      BY <1>6, <2>2
    <3> HIDE DEF m
    <3>2. p.buffered = p.buffered - r.buffered + r.buffered /\ p.frames = p.frames - r.frames + r.frames
      BY <1>7, Restored
    <3> QED
      BY <1>1, <1>7, <3>1, <3>2
  <2> QED
    BY <2>1, <2>2
<1> HIDE DEF m
<1>9. Elsewhere(e, s, m)
  BY <1>5, <1>8 DEF Elsewhere, Quiet, p
<1>10. ASSUME Compliant PROVE Faithful(e, s, z, m, l)
  <2> DEFINE v == View(e, s)
             q == View(Peer(e), s)
             x == ViewOf(z, l, m.resetSends, wire'[e], s)
  <2>1. AllOk(wire) /\ Ordered(wire[e], s) /\ Agree(e, v, q, s, nextId)
    BY <1>10, AgreeNow
  <2>2. /\ v \in Views /\ q \in Views /\ nextId \in Nat
        /\ v.st = r.st /\ v.recv = r.recv /\ v.ended = r.ended /\ v.window = r.window
        /\ v.held = r.held /\ v.unacked = r.unacked /\ v.queued = QueuedBytes(r)
        /\ v.sent = l.sent /\ v.fed = l.fed /\ v.resets = l.resets
        /\ v.due = (IF s \in mux[e].resetSends THEN 1 ELSE 0) /\ v.under = Kinds(wire[e], s)
        /\ v.data = Bytes(wire[e], s, "DATA") /\ v.grants = Bytes(wire[e], s, "WINDOW_UPDATE")
    BY ViewNow DEF r, l
  <2>3. wire'[e] \in Seq(Frames) /\ wire' = wire
    BY <1>1, <1>5
  <2>4. /\ x \in Views
        /\ x.st = z.st /\ x.recv = z.recv /\ x.ended = z.ended /\ x.window = z.window
        /\ x.held = z.held /\ x.unacked = z.unacked /\ x.queued = QueuedBytes(z)
        /\ x.sent = l.sent /\ x.fed = l.fed /\ x.resets = l.resets
        /\ x.due = (IF s \in m.resetSends THEN 1 ELSE 0) /\ x.under = Kinds(wire'[e], s)
        /\ x.data = Bytes(wire'[e], s, "DATA") /\ x.grants = Bytes(wire'[e], s, "WINDOW_UPDATE")
    BY <1>1, <1>6, <2>3, ViewFields
  <2> HIDE DEF v, q, x
  <2>5. /\ n <= v.queued /\ v.queued - n = QueuedBytes(z) /\ v.held = 0
    <3>1. QueuedBytes(z) \in Nat /\ QueuedBytes(r) \in Nat
      BY <1>1, <1>6, QueueTypes
    <3> QED
      BY <1>1, <1>6, <2>2, <3>1
  <2>6. /\ x.st = v.st /\ x.recv = v.recv /\ x.ended = v.ended /\ x.window = v.window
        /\ x.held = n /\ x.unacked = v.unacked /\ x.queued = v.queued - n /\ x.sent = v.sent
        /\ x.fed = v.fed /\ x.resets = v.resets /\ x.due = v.due /\ x.under = v.under
        /\ x.data = v.data /\ x.grants = v.grants
    BY <1>6, <1>8, <2>2, <2>3, <2>4, <2>5 DEF p
  <2>7. Agree(e, x, q, s, nextId)
    BY <1>6, <2>1, <2>2, <2>4, <2>5, <2>6, ChunkRead
  <2> QED
    BY <1>5, <1>8, <1>10, <2>1, <2>7, FaithfulSent DEF x, q, p
<1> QED
  BY <1>1, <1>2, <1>3, <1>4, <1>5, <1>6, <1>8, <1>9, <1>10, OneStream DEF r, p

\* Stream.ack: the batch grows, is granted, or is dropped with the lane.
LEMMA AckKeeps ==
    ASSUME IInv, NEW e \in Ends, NEW s \in Sids, Ack(e, s)
    PROVE  IInv'
<1> DEFINE r == stream[e][s]
           l == log[e][s]
           z == Acked(r)
           due == r.unacked + r.held
           f == Frame("WINDOW_UPDATE", s, due)
           up == mux[e].ws = "open"
           grant == ~AckDead(r) /\ due >= Threshold
           u == IF AckDead(r) THEN r.unacked ELSE IF due >= Threshold THEN 0 ELSE due
           g == IF grant /\ up THEN due ELSE 0
           K == IF grant /\ up THEN {"WINDOW_UPDATE"} ELSE {}
<1>1. /\ r \in StreamRecs /\ StreamOK(r) /\ l \in LogRecs /\ wire[e] \in Seq(Frames)
      /\ MuxTypes /\ wire \in [Ends -> Seq(Frames)]
  BY StreamFacts DEF IInv, MuxTypes
<1>2. r.st # "absent"
  BY StreamFacts, NoStreamFields DEF Ack
<1>3. SetStream(e, s, z)
  BY DEF Ack, SetStream
<1>4. SetLog(e, s, l)
  BY <1>1, Unassigned DEF Ack
<1>5. UNCHANGED <<mux, nextId, env>>
  BY DEF Ack
<1>6. wire' = IF grant THEN Sent(e, f) ELSE wire
  BY DEF Ack
<1> HIDE DEF r, l
<1>7. r.unacked \in Nat /\ r.held \in Nat /\ due \in Nat
  BY <1>1 DEF StreamRecs
<1> HIDE DEF due
<1>8. u \in Nat /\ g \in Nat /\ u + g <= due /\ K \in SUBSET {"WINDOW_UPDATE"}
  <2>1. r.unacked <= due
    BY <1>7 DEF due
  <2> QED
    BY <1>7, <2>1
<1>9. /\ z \in StreamRecs /\ z.held = 0 /\ z.unacked = u
      /\ z.st = r.st /\ z.recv = r.recv /\ z.incoming = r.incoming /\ z.buffered = r.buffered
      /\ z.frames = r.frames /\ z.ended = r.ended /\ z.window = r.window
      /\ z.over = r.over
  <2>1. z = [r EXCEPT !.held = 0, !.unacked = u]
    <3>1. CASE AckDead(r)
      <4>1. z = [r EXCEPT !.held = 0]
        BY <3>1 DEF Acked
      <4>2. u = r.unacked
        BY <3>1
      <4> HIDE DEF u, z
      <4> QED
        BY <1>1, <4>1, <4>2 DEF StreamRecs
    <3>2. CASE ~AckDead(r)
      <4>1. u = IF r.unacked + r.held >= Threshold THEN 0 ELSE r.unacked + r.held
        BY <3>2 DEF due
      <4> HIDE DEF u
      <4> QED
        BY <3>2, <4>1, Zenon DEF Acked
    <3> QED
      BY <3>1, <3>2
  <2> HIDE DEF u, z
  <2> QED
    BY <1>1, <1>8, <2>1 DEF StreamRecs
<1> HIDE DEF z, u
<1>10. f \in Frames /\ f.ok /\ f.sid = s /\ f.type = "WINDOW_UPDATE" /\ f.n = due
  <2>1. "WINDOW_UPDATE" \in FrameTypes /\ s \in 0 .. MaxSid
    BY DEF FrameTypes, Sids
  <2> QED
    BY <1>7, <2>1, FrameIs
<1> HIDE DEF f
<1>11. /\ wire' \in [Ends -> Seq(Frames)] /\ wire'[Peer(e)] = wire[Peer(e)]
       /\ \A x : x # f.sid => \A d \in Ends : Quiet(wire[d], wire'[d], x)
       /\ AllOk(wire) => AllOk(wire')
  <2>1. CASE grant
    BY <1>6, <1>10, <2>1, SentWire
  <2>2. CASE ~grant
    <3>1. wire' = wire
      BY <1>6, <2>2
    <3> QED
      BY <1>1, <3>1 DEF Quiet
  <2> QED
    BY <2>1, <2>2
<1>12. Elsewhere(e, s, mux[e])
  BY <1>10, <1>11 DEF Elsewhere
<1>13. StreamOK(z) /\ QueuedBytes(z) = QueuedBytes(r)
  <2>1. z.window <= MaxSendWindow
    BY <1>1, <1>9 DEF StreamOK
  <2>2. StreamOK(z)
    BY <1>1, <1>2, <1>9, <2>1, StreamKept
  <2> QED
    BY <1>9, <2>2 DEF QueuedBytes
<1>14. ASSUME Compliant PROVE Faithful(e, s, z, mux[e], l)
  <2> DEFINE v == View(e, s)
             q == View(Peer(e), s)
             x == ViewOf(z, l, mux[e].resetSends, wire'[e], s)
  <2>1. Ordered(wire[e], s) /\ Agree(e, v, q, s, nextId)
    BY <1>14, AgreeNow
  <2>2. /\ v \in Views /\ q \in Views /\ nextId \in Nat
        /\ v.st = r.st /\ v.recv = r.recv /\ v.ended = r.ended /\ v.window = r.window
        /\ v.held = r.held /\ v.unacked = r.unacked /\ v.queued = QueuedBytes(r)
        /\ v.sent = l.sent /\ v.fed = l.fed /\ v.resets = l.resets
        /\ v.due = (IF s \in mux[e].resetSends THEN 1 ELSE 0) /\ v.under = Kinds(wire[e], s)
        /\ v.data = Bytes(wire[e], s, "DATA") /\ v.grants = Bytes(wire[e], s, "WINDOW_UPDATE")
    BY ViewNow DEF r, l
  <2>3. wire'[e] \in Seq(Frames)
    BY <1>11
  <2>4. /\ x \in Views
        /\ x.st = z.st /\ x.recv = z.recv /\ x.ended = z.ended /\ x.window = z.window
        /\ x.held = z.held /\ x.unacked = z.unacked /\ x.queued = QueuedBytes(z)
        /\ x.sent = l.sent /\ x.fed = l.fed /\ x.resets = l.resets
        /\ x.due = (IF s \in mux[e].resetSends THEN 1 ELSE 0) /\ x.under = Kinds(wire'[e], s)
        /\ x.data = Bytes(wire'[e], s, "DATA") /\ x.grants = Bytes(wire'[e], s, "WINDOW_UPDATE")
    BY <1>1, <1>9, <2>3, ViewFields
  <2> HIDE DEF v, q, x
  <2>5. \A t : Bytes(wire[e], s, t) \in Nat
    BY <1>1, WireBytes
  <2>6. /\ Kinds(wire'[e], s) = Kinds(wire[e], s) \cup K
        /\ Bytes(wire'[e], s, "DATA") = Bytes(wire[e], s, "DATA")
        /\ Bytes(wire'[e], s, "WINDOW_UPDATE") = Bytes(wire[e], s, "WINDOW_UPDATE") + g
        /\ Ordered(wire'[e], s)
    <3>1. CASE grant
      <4>1. "RESET" \notin Kinds(wire[e], s)
        <5>1. r.st = "live"
          BY <1>1, <1>2, <3>1 DEF AckDead, StreamRecs, Places
        <5> QED
          BY <2>1, <2>2, <5>1 DEF Agree, SentOK
      <4>2. /\ Kinds(wire'[e], s) = Kinds(wire[e], s) \cup (IF up THEN {f.type} ELSE {})
            /\ \A t : Bytes(wire'[e], s, t) = Bytes(wire[e], s, t) + (IF up THEN Match(f, s, t) ELSE 0)
            /\ ( /\ Ordered(wire[e], s) /\ "RESET" \notin Kinds(wire[e], s)
                 /\ "EOF" \in Kinds(wire[e], s) => f.type \in {"WINDOW_UPDATE", "RESET"}
                 /\ f.type = "OPEN" => Kinds(wire[e], s) = {} )
               => Ordered(wire'[e], s)
        BY <1>6, <1>10, <3>1, SentView
      <4>3. Match(f, s, "DATA") = 0 /\ Match(f, s, "WINDOW_UPDATE") = due
        BY <1>10 DEF Match
      <4> QED
        BY <1>10, <2>1, <2>5, <3>1, <4>1, <4>2, <4>3
    <3>2. CASE ~grant
      <4>1. wire' = wire /\ K = {} /\ g = 0
        BY <1>6, <3>2
      <4> HIDE DEF K, g
      <4> QED
        BY <2>1, <2>5, <4>1
    <3> QED
      BY <3>1, <3>2
  <2> HIDE DEF K, g
  <2>7. /\ x.st = v.st /\ x.recv = v.recv /\ x.ended = v.ended /\ x.window = v.window
        /\ x.held = 0 /\ x.unacked = u /\ x.queued = v.queued /\ x.sent = v.sent
        /\ x.fed = v.fed /\ x.resets = v.resets /\ x.due = v.due /\ x.under = v.under \cup K
        /\ x.data = v.data /\ x.grants = v.grants + g
    BY <1>9, <1>13, <2>2, <2>4, <2>6
  <2>8. v.st # "absent" /\ u + g <= v.unacked + v.held
    BY <1>2, <1>8, <2>2 DEF due
  <2>9. Agree(e, x, q, s, nextId)
    <3>1. x \in Views /\ v \in Views /\ q \in Views /\ nextId \in Nat
      BY <2>2, <2>4
    <3> QED
      BY <1>8, <2>1, <2>7, <2>8, <3>1, ChunkAcked, Zenon
  <2> QED
    BY <1>5, <1>11, <1>14, <2>6, <2>9, FaithfulSent DEF x, q
<1> QED
  BY <1>3, <1>4, <1>5, <1>1, <1>9, <1>11, <1>12, <1>13, <1>14, CountersKept DEF r

-----------------------------------------------------------------------------
(* Teardown                                                                *)

\* z is r torn down with terminal t, whatever its other flags say.
TornDownTo(z, r, t) ==
    /\ z \in StreamRecs /\ StreamOK(z)
    /\ z.st = "closed" /\ z.buffered = 0 /\ z.frames = 0
    /\ z.recv = (IF r.recv = "OPEN" THEN t ELSE r.recv)
    /\ z.ended = r.ended /\ z.window = r.window /\ z.held = r.held /\ z.unacked = r.unacked
    /\ QueuedBytes(z) = QueuedBytes(r)

\* Stream._end_recv.
LEMMA EndRecvRecord ==
    ASSUME NEW r \in StreamRecs, NEW t \in {"EOF", "RESET"}
    PROVE  LET z == EndRecv(r, t)
           IN /\ z \in StreamRecs
              /\ z.st = r.st /\ z.buffered = r.buffered /\ z.frames = r.frames
              /\ z.recv = (IF r.recv = "OPEN" THEN t ELSE r.recv) /\ z.recv # "OPEN"
              /\ z.ended = r.ended /\ z.window = r.window /\ z.held = r.held
              /\ z.unacked = r.unacked /\ z.over = r.over
              /\ QueuedBytes(z) = QueuedBytes(r) /\ QueuedFrames(z) = QueuedFrames(r)
<1> DEFINE z == EndRecv(r, t)
<1>1. CASE r.recv # "OPEN"
  BY <1>1 DEF EndRecv
<1>2. CASE r.recv = "OPEN"
  <2> DEFINE w == Append(r.incoming, None)
  <2>1. r.incoming \in Seq(Nat) /\ None \in Nat /\ w \in Seq(Nat)
    <3>1. r.incoming \in Seq(Nat) /\ None \in Nat
      BY DEF StreamRecs, None
    <3> QED
      BY <3>1
  <2>2. z = [r EXCEPT !.recv = t, !.incoming = w]
    BY <1>2, Zenon DEF EndRecv
  <2> HIDE DEF z
  <2>3. z.incoming = Append(r.incoming, None)
    BY <2>2 DEF StreamRecs
  <2> HIDE DEF w
  <2>4. /\ z \in StreamRecs
        /\ z.st = r.st /\ z.buffered = r.buffered /\ z.frames = r.frames /\ z.recv = t
        /\ z.ended = r.ended /\ z.window = r.window /\ z.held = r.held
        /\ z.unacked = r.unacked /\ z.over = r.over
    BY <2>1, <2>2 DEF StreamRecs, Terminals
  <2>5. QueuedBytes(z) = QueuedBytes(r) /\ QueuedFrames(z) = QueuedFrames(r)
    <3>1. QueuedBytes(z) = QueuedBytes(r) + 0 /\ QueuedFrames(z) = QueuedFrames(r) + 0
      BY <2>1, <2>3, <2>4, QueueAppend DEF None
    <3>2. QueuedBytes(r) \in Nat /\ QueuedFrames(r) \in Nat
      BY QueueTypes
    <3> QED
      BY <3>1, <3>2
  <2> QED
    BY <1>2, <2>4, <2>5 DEF z
<1> QED
  BY <1>1, <1>2

\* Stream._close_local, with or without the end of its reset task.
LEMMA ClosedRecord ==
    ASSUME NEW r \in StreamRecs, StreamOK(r), r.st = "live", NEW t \in {"EOF", "RESET"}
    PROVE  /\ TornDownTo(Closed(r, t), r, t)
           /\ TornDownTo([Closed(r, t) EXCEPT !.resetTask = FALSE], r, t)
<1> DEFINE c == [r EXCEPT !.st = "closed", !.waiter = TRUE, !.buffered = 0, !.frames = 0]
           z == EndRecv(c, t)
           y == [z EXCEPT !.resetTask = FALSE]
<1>1. Closed(r, t) = z
  BY Zenon DEF Closed
<1>2. /\ c \in StreamRecs /\ c.st = "closed" /\ c.buffered = 0 /\ c.frames = 0 /\ c.recv = r.recv
      /\ c.ended = r.ended /\ c.window = r.window /\ c.held = r.held /\ c.unacked = r.unacked
      /\ c.incoming = r.incoming
  BY DEF StreamRecs, Places
<1>3. QueuedBytes(c) = QueuedBytes(r)
  BY <1>2 DEF QueuedBytes
<1> HIDE DEF c
<1>4. /\ z \in StreamRecs /\ z.st = "closed" /\ z.buffered = 0 /\ z.frames = 0
      /\ z.recv = (IF r.recv = "OPEN" THEN t ELSE r.recv) /\ z.recv # "OPEN"
      /\ z.ended = r.ended /\ z.window = r.window /\ z.held = r.held /\ z.unacked = r.unacked
      /\ QueuedBytes(z) = QueuedBytes(r)
  BY <1>2, <1>3, EndRecvRecord
<1> HIDE DEF z
<1>5. /\ y \in StreamRecs /\ y.st = "closed" /\ y.buffered = 0 /\ y.frames = 0
      /\ y.recv = z.recv /\ y.incoming = z.incoming
      /\ y.ended = r.ended /\ y.window = r.window /\ y.held = r.held /\ y.unacked = r.unacked
  BY <1>4 DEF StreamRecs
<1>6. QueuedBytes(y) = QueuedBytes(z)
  BY <1>5 DEF QueuedBytes
<1> HIDE DEF y
<1>7. r.window <= MaxSendWindow /\ 0 <= StreamHardMax /\ 0 <= MaxQueuedFrames
  BY MuxAssumption DEF StreamOK, StreamHardMax, MaxQueuedFrames
<1>8. StreamOK(z) /\ StreamOK(y)
  BY <1>4, <1>5, <1>7 DEF StreamOK
<1> QED
  BY <1>1, <1>4, <1>5, <1>6, <1>8 DEF TornDownTo, y

\* The connection's counters give up what a stream held.
LEMMA ReconciledIs ==
    ASSUME IInv, NEW e \in Ends, NEW s \in Sids
    PROVE  LET m == Reconciled(e, mux[e], stream[e][s])
           IN /\ m \in MuxRecs
              /\ m.buffered = mux[e].buffered - stream[e][s].buffered
              /\ m.frames = mux[e].frames - stream[e][s].frames
              /\ m.account = (IF e = Server THEN m.buffered ELSE 0)
              /\ m.buffered <= MaxConnBuffered /\ m.frames <= MaxConnFrames /\ m.account <= env.account
              /\ m.resetSends = mux[e].resetSends /\ m.breach = mux[e].breach
<1> DEFINE r == stream[e][s]
           p == mux[e]
           b == p.buffered - r.buffered
           f == p.frames - r.frames
           a == Released(e, p.account, r.buffered)
           m == Reconciled(e, p, r)
<1>1. /\ r.buffered \in Nat /\ r.frames \in Nat /\ r.buffered <= p.buffered /\ r.frames <= p.frames
      /\ p.buffered \in Nat /\ p.frames \in Nat /\ p.account \in Nat
      /\ p.account = IF e = Server THEN p.buffered ELSE 0
      /\ p.buffered <= MaxConnBuffered /\ p.frames <= MaxConnFrames
      /\ p.account <= env.account /\ env.account \in Nat /\ MaxConnBuffered \in Nat
      /\ MaxConnFrames \in Nat /\ p \in MuxRecs
  BY StreamWithin, ConnFacts, StreamFacts
<1> HIDE DEF r, p
<1>2. b \in Nat /\ f \in Nat /\ b <= p.buffered /\ f <= p.frames
  BY <1>1
<1>3. a = IF e = Server THEN b ELSE 0
  BY <1>1, ReleasedIs
<1>4. a \in Nat /\ a <= p.account
  BY <1>1, <1>2, <1>3
<1>5. m = [p EXCEPT !.buffered = b, !.frames = f, !.account = a]
  BY Zenon DEF Reconciled
<1>6. b <= MaxConnBuffered /\ f <= MaxConnFrames /\ a <= env.account
  BY <1>1, <1>2, <1>4
<1>7. b = p.buffered - r.buffered /\ f = p.frames - r.frames
  OBVIOUS
<1> HIDE DEF b, f, a, m
<1>8. /\ m \in MuxRecs /\ m.resetSends = p.resetSends /\ m.breach = p.breach
      /\ m.buffered = b /\ m.frames = f /\ m.account = a
  BY <1>1, <1>2, <1>4, <1>5 DEF MuxRecs
<1> QED
  BY <1>3, <1>6, <1>7, <1>8 DEF m, p, r

\* A live stream is torn down; what is left to show is what the peer can see.
LEMMA TeardownStep ==
    ASSUME IInv, NEW e \in Ends, NEW s \in Sids, stream[e][s].st = "live", NEW t, NEW z, NEW l \in LogRecs,
           TornDownTo(z, stream[e][s], t), NEW m \in MuxRecs,
           SetStream(e, s, z), SetMux(e, m), SetLog(e, s, l), UNCHANGED <<env, nextId>>,
           m.buffered = mux[e].buffered - stream[e][s].buffered,
           m.frames = mux[e].frames - stream[e][s].frames,
           m.account = (IF e = Server THEN m.buffered ELSE 0),
           m.buffered <= MaxConnBuffered, m.frames <= MaxConnFrames, m.account <= env.account,
           wire' \in [Ends -> Seq(Frames)], Elsewhere(e, s, m),
           Compliant => Faithful(e, s, z, m, l)
    PROVE  IInv'
<1>1. z \in StreamRecs /\ StreamOK(z) /\ z.st = "closed" /\ z.buffered = 0 /\ z.frames = 0
  BY DEF TornDownTo
<1>2. m.buffered \in Nat /\ m.frames \in Nat
  BY DEF MuxRecs
<1>3. /\ m.buffered = mux[e].buffered - stream[e][s].buffered + z.buffered
      /\ m.frames = mux[e].frames - stream[e][s].frames + z.frames
  <2>1. m.buffered = m.buffered + z.buffered /\ m.frames = m.frames + z.frames
    BY <1>1, <1>2
  <2> QED
    BY <2>1
<1> QED
  BY <1>1, <1>3, OneStream

\* A live stream is torn down and one RESET is sent, if it can be.
LEMMA ResetSent ==
    ASSUME IInv, NEW e \in Ends, NEW s \in Sids, stream[e][s].st = "live", NEW z,
           TornDownTo(z, stream[e][s], "RESET"), SetStream(e, s, z),
           SetMux(e, Reconciled(e, mux[e], stream[e][s])),
           wire' = Sent(e, Frame("RESET", s, 0)),
           SetLog(e, s, [log[e][s] EXCEPT !.resets = IF mux[e].ws = "open" THEN @ + 1 ELSE @]),
           UNCHANGED <<nextId, env>>
    PROVE  IInv'
<1> DEFINE r == stream[e][s]
           l == log[e][s]
           k == IF mux[e].ws = "open" THEN 1 ELSE 0
           h == [l EXCEPT !.resets = IF mux[e].ws = "open" THEN @ + 1 ELSE @]
           m == Reconciled(e, mux[e], r)
           f == Frame("RESET", s, 0)
           up == mux[e].ws = "open"
<1>1. /\ r \in StreamRecs /\ StreamOK(r) /\ l \in LogRecs /\ wire[e] \in Seq(Frames)
      /\ MuxTypes /\ r.st = "live"
  BY StreamFacts DEF IInv
<1>2. SetStream(e, s, z) /\ SetMux(e, m) /\ SetLog(e, s, h) /\ TornDownTo(z, r, "RESET")
  OBVIOUS
<1>3. /\ m \in MuxRecs
      /\ m.buffered = mux[e].buffered - stream[e][s].buffered
      /\ m.frames = mux[e].frames - stream[e][s].frames
      /\ m.account = (IF e = Server THEN m.buffered ELSE 0)
      /\ m.buffered <= MaxConnBuffered /\ m.frames <= MaxConnFrames /\ m.account <= env.account
      /\ m.resetSends = mux[e].resetSends /\ m.breach = mux[e].breach
  BY ReconciledIs
<1>4. f \in Frames /\ f.ok /\ f.sid = s /\ f.type = "RESET" /\ wire' = Sent(e, f)
  <2>1. "RESET" \in FrameTypes /\ s \in 0 .. MaxSid
    BY DEF FrameTypes, Sids
  <2> QED
    BY <2>1, FrameIs
<1>5. h \in LogRecs /\ h.sent = l.sent /\ h.fed = l.fed /\ h.resets = l.resets + k /\ k \in {0, 1}
  BY <1>1 DEF LogRecs
<1> HIDE DEF f, r, l, m, h
<1>6. /\ wire' \in [Ends -> Seq(Frames)] /\ wire'[Peer(e)] = wire[Peer(e)]
      /\ \A x : x # f.sid => \A d \in Ends : Quiet(wire[d], wire'[d], x)
      /\ AllOk(wire) => AllOk(wire')
  BY <1>4, SentWire
<1>7. Elsewhere(e, s, m)
  BY <1>3, <1>4, <1>6 DEF Elsewhere
<1>8. /\ z \in StreamRecs /\ z.st = "closed" /\ z.recv = (IF r.recv = "OPEN" THEN "RESET" ELSE r.recv)
      /\ z.ended = r.ended /\ z.window = r.window /\ z.held = r.held /\ z.unacked = r.unacked
      /\ QueuedBytes(z) = QueuedBytes(r)
  BY <1>2 DEF TornDownTo
<1>9. ASSUME Compliant PROVE Faithful(e, s, z, m, h)
  <2> DEFINE v == View(e, s)
             q == View(Peer(e), s)
             x == ViewOf(z, h, m.resetSends, wire'[e], s)
             K == IF up THEN {"RESET"} ELSE {}
  <2>1. Ordered(wire[e], s) /\ Agree(e, v, q, s, nextId)
    BY <1>9, AgreeNow
  <2>2. /\ v \in Views /\ q \in Views /\ nextId \in Nat
        /\ v.st = r.st /\ v.recv = r.recv /\ v.ended = r.ended /\ v.window = r.window
        /\ v.held = r.held /\ v.unacked = r.unacked /\ v.queued = QueuedBytes(r)
        /\ v.sent = l.sent /\ v.fed = l.fed /\ v.resets = l.resets
        /\ v.due = (IF s \in mux[e].resetSends THEN 1 ELSE 0) /\ v.under = Kinds(wire[e], s)
        /\ v.data = Bytes(wire[e], s, "DATA") /\ v.grants = Bytes(wire[e], s, "WINDOW_UPDATE")
    BY ViewNow DEF r, l
  <2>3. wire'[e] \in Seq(Frames)
    BY <1>6
  <2>4. /\ x \in Views
        /\ x.st = z.st /\ x.recv = z.recv /\ x.ended = z.ended /\ x.window = z.window
        /\ x.held = z.held /\ x.unacked = z.unacked /\ x.queued = QueuedBytes(z)
        /\ x.sent = h.sent /\ x.fed = h.fed /\ x.resets = h.resets
        /\ x.due = (IF s \in m.resetSends THEN 1 ELSE 0) /\ x.under = Kinds(wire'[e], s)
        /\ x.data = Bytes(wire'[e], s, "DATA") /\ x.grants = Bytes(wire'[e], s, "WINDOW_UPDATE")
    BY <1>5, <1>8, <2>3, ViewFields
  <2> HIDE DEF v, q, x
  <2>5. "RESET" \notin Kinds(wire[e], s)
    BY <1>1, <2>1, <2>2 DEF Agree, SentOK
  <2>6. /\ Kinds(wire'[e], s) = Kinds(wire[e], s) \cup (IF up THEN {f.type} ELSE {})
        /\ \A t : Bytes(wire'[e], s, t) = Bytes(wire[e], s, t) + (IF up THEN Match(f, s, t) ELSE 0)
        /\ ( /\ Ordered(wire[e], s) /\ "RESET" \notin Kinds(wire[e], s)
             /\ "EOF" \in Kinds(wire[e], s) => f.type \in {"WINDOW_UPDATE", "RESET"}
             /\ f.type = "OPEN" => Kinds(wire[e], s) = {} )
           => Ordered(wire'[e], s)
    BY <1>4, SentView
  <2>7. Match(f, s, "DATA") = 0 /\ Match(f, s, "WINDOW_UPDATE") = 0
    BY <1>4 DEF Match
  <2>8. /\ Kinds(wire'[e], s) = Kinds(wire[e], s) \cup K
        /\ Bytes(wire'[e], s, "DATA") = Bytes(wire[e], s, "DATA")
        /\ Bytes(wire'[e], s, "WINDOW_UPDATE") = Bytes(wire[e], s, "WINDOW_UPDATE")
        /\ Ordered(wire'[e], s)
    <3>1. \A t : Bytes(wire[e], s, t) \in Nat
      BY <1>1, WireBytes
    <3> QED
      BY <1>4, <2>1, <2>5, <2>6, <2>7, <3>1
  <2>9. K \in SUBSET {"RESET"} /\ (K # {} => k = 1)
    OBVIOUS
  <2> HIDE DEF K, k
  <2>10. Agree(e, x, q, s, nextId)
    <3>1. /\ x.st = "closed" /\ x.ended = v.ended /\ x.window = v.window /\ x.held = v.held
          /\ x.unacked = v.unacked /\ x.queued = v.queued /\ x.sent = v.sent /\ x.fed = v.fed
          /\ x.resets = v.resets + k /\ x.due = v.due /\ x.under = v.under \cup K /\ x.data = v.data
          /\ x.grants = v.grants
      BY <1>3, <1>5, <1>8, <2>2, <2>4, <2>8
    <3>2. v.st = "live" /\ (x.recv = v.recv \/ (v.recv = "OPEN" /\ x.recv = "RESET"))
      BY <1>1, <1>8, <2>2, <2>4
    <3>3. x \in Views /\ v \in Views /\ q \in Views /\ nextId \in Nat /\ k \in {0, 1}
      BY <1>5, <2>2, <2>4
    <3> QED
      BY <2>1, <2>9, <3>1, <3>2, <3>3, TornDown, ZenonT(60)
  <2> QED
    BY <1>3, <1>6, <1>9, <2>8, <2>10, FaithfulSent DEF x, q
<1> QED
  BY <1>2, <1>3, <1>5, <1>6, <1>7, <1>9, TeardownStep DEF r

\* Stream.reset.
LEMMA ResetNowKeeps ==
    ASSUME IInv, NEW e \in Ends, NEW s \in Sids, ResetNow(e, s)
    PROVE  IInv'
<1> DEFINE z == Closed(stream[e][s], "RESET")
<1>1. stream[e][s] \in StreamRecs /\ StreamOK(stream[e][s]) /\ stream[e][s].st = "live"
  BY StreamFacts DEF ResetNow, Live
<1>2. TornDownTo(z, stream[e][s], "RESET")
  BY <1>1, ClosedRecord
<1>3. SetStream(e, s, z)
  BY Zenon DEF ResetNow, CloseLocal, SetStream
<1>4. SetMux(e, Reconciled(e, mux[e], stream[e][s]))
  BY Zenon DEF ResetNow, CloseLocal, SetMux
<1>5. SetLog(e, s, [log[e][s] EXCEPT !.resets = IF mux[e].ws = "open" THEN @ + 1 ELSE @])
  BY Zenon DEF ResetNow, SetLog
<1> QED
  BY <1>1, <1>2, <1>3, <1>4, <1>5, ResetSent DEF ResetNow

\* The reset() task of a breach; when the stream is closed already there is nothing to do.
LEMMA ResetTaskKeeps ==
    ASSUME IInv, NEW e \in Ends, NEW s \in Sids, ResetTask(e, s)
    PROVE  IInv'
<1> DEFINE r == stream[e][s]
           z == [Closed(r, "RESET") EXCEPT !.resetTask = FALSE]
<1>1. /\ r \in StreamRecs /\ StreamOK(r) /\ (r.st = "absent" => r = NoStream) /\ r.resetTask
      /\ MuxTypes /\ mux[e] \in MuxRecs /\ log[e][s] \in LogRecs
  BY StreamFacts DEF ResetTask, IInv
<1>2. r.st # "absent"
  BY <1>1, NoStreamFields
<1>3. SetStream(e, s, z) /\ SetMux(e, Reconciled(e, mux[e], r))
  BY DEF ResetTask, SetStream, SetMux
<1>4. CASE r.st = "live"
  <2>1. TornDownTo(z, r, "RESET")
    BY <1>1, <1>4, ClosedRecord
  <2>2. wire' = Sent(e, Frame("RESET", s, 0))
    BY <1>4 DEF ResetTask
  <2>3. SetLog(e, s, [log[e][s] EXCEPT !.resets = IF mux[e].ws = "open" THEN @ + 1 ELSE @])
    BY <1>4, Zenon DEF ResetTask, SetLog
  <2> QED
    BY <1>3, <1>4, <2>1, <2>2, <2>3, ResetSent DEF ResetTask
<1>5. CASE r.st # "live"
  <2>1. z = [r EXCEPT !.resetTask = FALSE]
    BY <1>5 DEF Closed
  <2>2. /\ z \in StreamRecs /\ z.st = r.st /\ z.recv = r.recv /\ z.incoming = r.incoming
        /\ z.buffered = r.buffered /\ z.frames = r.frames /\ z.unacked = r.unacked
        /\ z.window = r.window /\ z.ended = r.ended /\ z.held = r.held /\ z.over = r.over
    BY <1>1, <2>1 DEF StreamRecs
  <2>3. Reconciled(e, mux[e], r) = mux[e]
    <3>1. r.buffered = 0 /\ r.frames = 0
      BY <1>1, <1>5 DEF StreamOK
    <3>2. /\ mux[e].buffered \in Nat /\ mux[e].frames \in Nat /\ mux[e].account \in Nat
          /\ mux[e].account = IF e = Server THEN mux[e].buffered ELSE 0
      BY ConnFacts
    <3>3. Released(e, mux[e].account, 0) = mux[e].account
      BY <3>2 DEF Released, Ends, Server, Agent
    <3>4. mux[e].buffered - 0 = mux[e].buffered /\ mux[e].frames - 0 = mux[e].frames
      BY <3>2
    <3>5. Reconciled(e, mux[e], r) = [mux[e] EXCEPT !.buffered = mux[e].buffered,
                                                    !.frames = mux[e].frames,
                                                    !.account = mux[e].account]
      BY <3>1, <3>3, <3>4, Zenon DEF Reconciled
    <3> QED
      BY <1>1, <3>5 DEF MuxRecs
  <2>4. UNCHANGED mux
    BY <1>1, <1>3, <2>3 DEF SetMux, MuxTypes
  <2>5. UNCHANGED wire
    BY <1>5 DEF ResetTask
  <2>6. UNCHANGED log
    <3>1. SetLog(e, s, [log[e][s] EXCEPT !.resets = @])
      BY <1>5, Zenon DEF ResetTask, SetLog
    <3>2. [log[e][s] EXCEPT !.resets = @] = log[e][s]
      BY <1>1 DEF LogRecs
    <3> QED
      BY <1>1, <3>1, <3>2 DEF SetLog, MuxTypes
  <2>7. UNCHANGED <<mux, wire, nextId, env, log>>
    BY <2>4, <2>5, <2>6 DEF ResetTask
  <2> HIDE DEF z
  <2> QED
    BY <1>2, <1>3, <2>2, <2>7, UnheardStep
<1> QED
  BY <1>4, <1>5

\* A live stream is torn down and nothing is sent.
LEMMA QuietTeardown ==
    ASSUME IInv, NEW e \in Ends, NEW s \in Sids, stream[e][s].st = "live", NEW t \in {"EOF", "RESET"}, NEW z,
           TornDownTo(z, stream[e][s], t), SetStream(e, s, z),
           SetMux(e, Reconciled(e, mux[e], stream[e][s])),
           UNCHANGED <<wire, nextId, env, log>>, t = "EOF" => stream[e][s].recv # "OPEN"
    PROVE  IInv'
<1> DEFINE r == stream[e][s]
           l == log[e][s]
           m == Reconciled(e, mux[e], r)
<1>1. /\ r \in StreamRecs /\ StreamOK(r) /\ l \in LogRecs /\ wire[e] \in Seq(Frames)
      /\ MuxTypes /\ r.st = "live"
  BY StreamFacts DEF IInv
<1>2. SetStream(e, s, z) /\ SetMux(e, m) /\ SetLog(e, s, l) /\ TornDownTo(z, r, t)
  BY <1>1, Unassigned
<1>3. /\ m \in MuxRecs
      /\ m.buffered = mux[e].buffered - stream[e][s].buffered
      /\ m.frames = mux[e].frames - stream[e][s].frames
      /\ m.account = (IF e = Server THEN m.buffered ELSE 0)
      /\ m.buffered <= MaxConnBuffered /\ m.frames <= MaxConnFrames /\ m.account <= env.account
      /\ m.resetSends = mux[e].resetSends /\ m.breach = mux[e].breach
  BY ReconciledIs
<1> HIDE DEF r, l, m
<1>4. /\ wire' \in [Ends -> Seq(Frames)] /\ wire'[e] = wire[e] /\ wire'[Peer(e)] = wire[Peer(e)]
      /\ AllOk(wire) => AllOk(wire')
  BY <1>1 DEF MuxTypes, AllOk
<1>5. Elsewhere(e, s, m)
  BY <1>3 DEF Elsewhere, Quiet
<1>6. /\ z \in StreamRecs /\ z.st = "closed" /\ z.recv = (IF r.recv = "OPEN" THEN t ELSE r.recv)
      /\ z.ended = r.ended /\ z.window = r.window /\ z.held = r.held /\ z.unacked = r.unacked
      /\ QueuedBytes(z) = QueuedBytes(r)
  BY <1>2 DEF TornDownTo
<1>7. ASSUME Compliant PROVE Faithful(e, s, z, m, l)
  <2> DEFINE v == View(e, s)
             q == View(Peer(e), s)
             x == ViewOf(z, l, m.resetSends, wire'[e], s)
  <2>1. Ordered(wire[e], s) /\ Agree(e, v, q, s, nextId)
    BY <1>7, AgreeNow
  <2>2. /\ v \in Views /\ q \in Views /\ nextId \in Nat
        /\ v.st = r.st /\ v.recv = r.recv /\ v.ended = r.ended /\ v.window = r.window
        /\ v.held = r.held /\ v.unacked = r.unacked /\ v.queued = QueuedBytes(r)
        /\ v.sent = l.sent /\ v.fed = l.fed /\ v.resets = l.resets
        /\ v.due = (IF s \in mux[e].resetSends THEN 1 ELSE 0) /\ v.under = Kinds(wire[e], s)
        /\ v.data = Bytes(wire[e], s, "DATA") /\ v.grants = Bytes(wire[e], s, "WINDOW_UPDATE")
    BY ViewNow DEF r, l
  <2>3. /\ x \in Views
        /\ x.st = z.st /\ x.recv = z.recv /\ x.ended = z.ended /\ x.window = z.window
        /\ x.held = z.held /\ x.unacked = z.unacked /\ x.queued = QueuedBytes(z)
        /\ x.sent = l.sent /\ x.fed = l.fed /\ x.resets = l.resets
        /\ x.due = (IF s \in m.resetSends THEN 1 ELSE 0) /\ x.under = Kinds(wire'[e], s)
        /\ x.data = Bytes(wire'[e], s, "DATA") /\ x.grants = Bytes(wire'[e], s, "WINDOW_UPDATE")
    BY <1>1, <1>4, <1>6, ViewFields
  <2> HIDE DEF v, q, x
  <2>4. Agree(e, x, q, s, nextId)
    <3>0. {} \in SUBSET {"RESET"} /\ 0 \in {0, 1} /\ v.under \cup {} = v.under
      <4>1. {} \in SUBSET {"RESET"} /\ 0 \in {0, 1}
        OBVIOUS
      <4>2. v.under \cup {} = v.under
        BY Zenon
      <4> QED
        BY <4>1, <4>2
    <3>1. v.resets + 0 = v.resets
      BY <2>2 DEF Views
    <3>2. /\ x.st = "closed" /\ x.ended = v.ended /\ x.window = v.window /\ x.held = v.held
          /\ x.unacked = v.unacked /\ x.queued = v.queued /\ x.sent = v.sent /\ x.fed = v.fed
          /\ x.resets = v.resets + 0 /\ x.due = v.due /\ x.under = v.under \cup {} /\ x.data = v.data
          /\ x.grants = v.grants
      BY <1>3, <1>4, <1>6, <2>2, <2>3, <3>0, <3>1
    <3>3. v.st = "live" /\ (x.recv = v.recv \/ (v.recv = "OPEN" /\ x.recv = "RESET"))
      BY <1>1, <1>6, <2>2, <2>3 DEF r
    <3> QED
      BY <2>1, <2>2, <2>3, <3>0, <3>2, <3>3, TornDown
  <2> QED
    BY <1>3, <1>4, <1>7, <2>1, <2>4, FaithfulSent DEF x, q
<1> QED
  BY <1>1, <1>2, <1>3, <1>4, <1>5, <1>7, TeardownStep DEF r

\* Stream.close, once the peer's half is over.
LEMMA CloseKeeps ==
    ASSUME IInv, NEW e \in Ends, NEW s \in Sids, Close(e, s)
    PROVE  IInv'
<1> DEFINE z == Closed(stream[e][s], "EOF")
<1>1. stream[e][s] \in StreamRecs /\ StreamOK(stream[e][s]) /\ stream[e][s].st = "live"
  BY StreamFacts DEF Close, CloseNow, Live
<1>2. TornDownTo(z, stream[e][s], "EOF")
  BY <1>1, ClosedRecord
<1>3. SetStream(e, s, z)
  BY Zenon DEF Close, CloseNow, CloseLocal, SetStream
<1>4. SetMux(e, Reconciled(e, mux[e], stream[e][s]))
  BY Zenon DEF Close, CloseNow, CloseLocal, SetMux
<1>5. stream[e][s].recv # "OPEN"
  BY <1>1 DEF Close, StreamOK
<1> QED
  BY <1>1, <1>2, <1>3, <1>4, <1>5, QuietTeardown DEF Close, CloseNow

\* Mux._send_reset: the task of a refused id sends its RESET.
LEMMA SendOnceKeeps ==
    ASSUME IInv, NEW e \in Ends, NEW s \in Sids, SendOnce(e, s)
    PROVE  IInv'
<1> DEFINE r == stream[e][s]
           l == log[e][s]
           k == IF mux[e].ws = "open" THEN 1 ELSE 0
           h == [l EXCEPT !.resets = IF mux[e].ws = "open" THEN @ + 1 ELSE @]
           m == [mux[e] EXCEPT !.resetSends = @ \ {s}]
           f == Frame("RESET", s, 0)
           up == mux[e].ws = "open"
<1>1. /\ r \in StreamRecs /\ StreamOK(r) /\ l \in LogRecs /\ wire[e] \in Seq(Frames)
      /\ MuxTypes /\ mux[e] \in MuxRecs /\ s \in mux[e].resetSends
  BY StreamFacts DEF IInv, SendOnce
<1>2. SetMux(e, m) /\ SetLog(e, s, h)
  BY Zenon DEF SendOnce, SetMux, SetLog
<1>3. /\ m \in MuxRecs /\ m.buffered = mux[e].buffered /\ m.frames = mux[e].frames
      /\ m.account = mux[e].account /\ m.breach = mux[e].breach
      /\ m.resetSends = mux[e].resetSends \ {s}
  BY <1>1 DEF MuxRecs
<1>4. f \in Frames /\ f.ok /\ f.sid = s /\ f.type = "RESET" /\ wire' = Sent(e, f)
  <2>1. "RESET" \in FrameTypes /\ s \in 0 .. MaxSid
    BY DEF FrameTypes, Sids
  <2> QED
    BY <2>1, FrameIs DEF SendOnce
<1>5. h \in LogRecs /\ h.sent = l.sent /\ h.fed = l.fed /\ h.resets = l.resets + k /\ k \in {0, 1}
  BY <1>1 DEF LogRecs
<1> HIDE DEF f, r, l, m, h
<1>6. /\ wire' \in [Ends -> Seq(Frames)] /\ wire'[Peer(e)] = wire[Peer(e)]
      /\ \A x : x # f.sid => \A d \in Ends : Quiet(wire[d], wire'[d], x)
      /\ AllOk(wire) => AllOk(wire')
  BY <1>4, SentWire
<1>7. Elsewhere(e, s, m)
  BY <1>3, <1>4, <1>6 DEF Elsewhere
<1>8. ASSUME Compliant PROVE Faithful(e, s, r, m, h)
  <2> DEFINE v == View(e, s)
             q == View(Peer(e), s)
             x == ViewOf(r, h, m.resetSends, wire'[e], s)
             K == IF up THEN {"RESET"} ELSE {}
  <2>1. Ordered(wire[e], s) /\ Agree(e, v, q, s, nextId)
    BY <1>8, AgreeNow
  <2>2. /\ v \in Views /\ q \in Views /\ nextId \in Nat
        /\ v.st = r.st /\ v.recv = r.recv /\ v.ended = r.ended /\ v.window = r.window
        /\ v.held = r.held /\ v.unacked = r.unacked /\ v.queued = QueuedBytes(r)
        /\ v.sent = l.sent /\ v.fed = l.fed /\ v.resets = l.resets
        /\ v.due = (IF s \in mux[e].resetSends THEN 1 ELSE 0) /\ v.under = Kinds(wire[e], s)
        /\ v.data = Bytes(wire[e], s, "DATA") /\ v.grants = Bytes(wire[e], s, "WINDOW_UPDATE")
    BY ViewNow DEF r, l
  <2>3. wire'[e] \in Seq(Frames)
    BY <1>6
  <2>4. /\ x \in Views
        /\ x.st = r.st /\ x.recv = r.recv /\ x.ended = r.ended /\ x.window = r.window
        /\ x.held = r.held /\ x.unacked = r.unacked /\ x.queued = QueuedBytes(r)
        /\ x.sent = h.sent /\ x.fed = h.fed /\ x.resets = h.resets
        /\ x.due = (IF s \in m.resetSends THEN 1 ELSE 0) /\ x.under = Kinds(wire'[e], s)
        /\ x.data = Bytes(wire'[e], s, "DATA") /\ x.grants = Bytes(wire'[e], s, "WINDOW_UPDATE")
    BY <1>1, <1>5, <2>3, ViewFields
  <2> HIDE DEF v, q, x
  <2>5. v.due = 1 /\ x.due = 0 /\ "RESET" \notin Kinds(wire[e], s)
    <3>1. v.due = 1 /\ x.due = 0
      BY <1>1, <1>3, <2>2, <2>4
    <3> QED
      BY <2>1, <2>2, <3>1 DEF Agree, SentOK
  <2>6. /\ Kinds(wire'[e], s) = Kinds(wire[e], s) \cup (IF up THEN {f.type} ELSE {})
        /\ \A t : Bytes(wire'[e], s, t) = Bytes(wire[e], s, t) + (IF up THEN Match(f, s, t) ELSE 0)
        /\ ( /\ Ordered(wire[e], s) /\ "RESET" \notin Kinds(wire[e], s)
             /\ "EOF" \in Kinds(wire[e], s) => f.type \in {"WINDOW_UPDATE", "RESET"}
             /\ f.type = "OPEN" => Kinds(wire[e], s) = {} )
           => Ordered(wire'[e], s)
    BY <1>4, SentView
  <2>7. Match(f, s, "DATA") = 0 /\ Match(f, s, "WINDOW_UPDATE") = 0
    BY <1>4 DEF Match
  <2>8. /\ Kinds(wire'[e], s) = Kinds(wire[e], s) \cup K
        /\ Bytes(wire'[e], s, "DATA") = Bytes(wire[e], s, "DATA")
        /\ Bytes(wire'[e], s, "WINDOW_UPDATE") = Bytes(wire[e], s, "WINDOW_UPDATE")
        /\ Ordered(wire'[e], s)
    <3>1. \A t : Bytes(wire[e], s, t) \in Nat
      BY <1>1, WireBytes
    <3> QED
      BY <1>4, <2>1, <2>5, <2>6, <2>7, <3>1
  <2>9. K \in SUBSET {"RESET"} /\ (K # {} => k = 1)
    OBVIOUS
  <2> HIDE DEF K, k
  <2>10. Agree(e, x, q, s, nextId)
    <3>1. /\ x.st = v.st /\ x.recv = v.recv /\ x.ended = v.ended /\ x.window = v.window
          /\ x.held = v.held /\ x.unacked = v.unacked /\ x.queued = v.queued /\ x.sent = v.sent
          /\ x.fed = v.fed /\ x.resets = v.resets + k /\ x.due = 0 /\ x.under = v.under \cup K
          /\ x.data = v.data /\ x.grants = v.grants
      BY <1>5, <2>2, <2>4, <2>5, <2>8
    <3>2. x \in Views /\ v \in Views /\ q \in Views /\ nextId \in Nat /\ k \in {0, 1} /\ (k = 1 => v.due = 1)
      BY <1>5, <2>2, <2>4, <2>5
    <3> QED
      BY <2>1, <2>9, <3>1, <3>2, TaskDone
  <2>11. UNCHANGED nextId
    BY DEF SendOnce
  <2> QED
    BY <1>3, <1>6, <1>8, <2>8, <2>10, <2>11, FaithfulSent DEF x, q
<1> QED
  BY <1>2, <1>3, <1>5, <1>6, <1>7, <1>8, StreamsKept DEF SendOnce, r

-----------------------------------------------------------------------------
(* A frame is taken                                                        *)

\* The protocol holds after end e has taken a frame of stream s.
LEMMA FaithfulTaken ==
    ASSUME IInv, Compliant, NEW e \in Ends, NEW s \in Sids, NEW z, NEW m, NEW l,
           wire[Peer(e)] # <<>>, wire' = Taken(e), Arrived(e).sid = s, UNCHANGED nextId,
           m.breach \cap {"stream_bytes", "stream_frames"} = {},
           Agree(e, ViewOf(z, l, m.resetSends, wire[e], s),
                 ViewOf(stream[Peer(e)][s], log[Peer(e)][s], mux[Peer(e)].resetSends, wire'[Peer(e)], s),
                 s, nextId)
    PROVE  Faithful(e, s, z, m, l)
<1>1. /\ AllOk(wire) /\ \A d \in Ends : Ordered(wire[d], s)
  BY AgreeNow
<1>2. AllOk(wire') /\ wire'[e] = wire[e]
  BY <1>1, TakenWire
<1>3. Ordered(wire'[Peer(e)], s)
  <2>1. Peer(e) \in Ends
    BY PeerFacts
  <2> QED
    BY <1>1, <2>1, TakenView
<1>4. \A d \in Ends : Ordered(wire'[d], s)
  BY <1>1, <1>2, <1>3, PeerFacts
<1> QED
  BY <1>2, <1>4 DEF Faithful, AllOk

\* What the peer says of a stream after a frame of it was taken.
LEMMA PeerTaken ==
    ASSUME IInv, Compliant, NEW e \in Ends, NEW s \in Sids,
           wire[Peer(e)] # <<>>, wire' = Taken(e), Arrived(e).sid = s
    PROVE  LET f == Arrived(e)
               d == Peer(e)
               q == View(d, s)
               y == ViewOf(stream[d][s], log[d][s], mux[d].resetSends, wire'[d], s)
           IN /\ q \in Views /\ y \in Views /\ f \in Frames /\ f.ok
              /\ y.st = q.st /\ y.recv = q.recv /\ y.ended = q.ended /\ y.window = q.window
              /\ y.held = q.held /\ y.unacked = q.unacked /\ y.queued = q.queued /\ y.sent = q.sent
              /\ y.fed = q.fed /\ y.resets = q.resets /\ y.due = q.due
              /\ y.under \subseteq q.under /\ f.type \in q.under /\ "OPEN" \notin y.under
              /\ f.type = "DATA" => q.data = f.n + y.data
              /\ f.type # "DATA" => y.data = q.data
              /\ f.type = "WINDOW_UPDATE" => q.grants = f.n + y.grants
              /\ f.type # "WINDOW_UPDATE" => y.grants = q.grants
              /\ f.type = "EOF" => y.data = 0
<1> DEFINE f == Arrived(e)
           d == Peer(e)
           q == View(d, s)
           y == ViewOf(stream[d][s], log[d][s], mux[d].resetSends, wire'[d], s)
           U == Kinds(wire'[d], s)
<1>1. d \in Ends /\ Ordered(wire[d], s) /\ AllOk(wire)
  BY AgreeNow, PeerFacts
<1>2. f \in Frames /\ f.ok /\ wire' \in [Ends -> Seq(Frames)]
  BY <1>1, TakenWire
<1>3. /\ stream[d][s] \in StreamRecs /\ log[d][s] \in LogRecs /\ wire[d] \in Seq(Frames)
      /\ wire'[d] \in Seq(Frames)
  BY <1>1, <1>2, StreamFacts
<1>4. /\ U \subseteq Kinds(wire[d], s) /\ f.type \in Kinds(wire[d], s)
      /\ f.type = "DATA" => Bytes(wire[d], s, "DATA") = f.n + Bytes(wire'[d], s, "DATA")
      /\ f.type # "DATA" => Bytes(wire[d], s, "DATA") = Bytes(wire'[d], s, "DATA")
      /\ f.type = "WINDOW_UPDATE" =>
            Bytes(wire[d], s, "WINDOW_UPDATE") = f.n + Bytes(wire'[d], s, "WINDOW_UPDATE")
      /\ f.type # "WINDOW_UPDATE" =>
            Bytes(wire[d], s, "WINDOW_UPDATE") = Bytes(wire'[d], s, "WINDOW_UPDATE")
      /\ "OPEN" \notin U
      /\ f.type = "EOF" => Bytes(wire'[d], s, "DATA") = 0
  BY <1>1, TakenView
<1> DEFINE r == stream[d][s]
           l == log[d][s]
           R == mux[d].resetSends
<1>5. /\ y \in Views
      /\ y.st = r.st /\ y.recv = r.recv /\ y.ended = r.ended /\ y.window = r.window
      /\ y.held = r.held /\ y.unacked = r.unacked /\ y.queued = QueuedBytes(r)
      /\ y.sent = l.sent /\ y.fed = l.fed /\ y.resets = l.resets
      /\ y.due = (IF s \in R THEN 1 ELSE 0) /\ y.under = U
      /\ y.data = Bytes(wire'[d], s, "DATA") /\ y.grants = Bytes(wire'[d], s, "WINDOW_UPDATE")
  BY <1>3, ViewFields
<1>6. /\ q \in Views
      /\ q.st = r.st /\ q.recv = r.recv /\ q.ended = r.ended /\ q.window = r.window
      /\ q.held = r.held /\ q.unacked = r.unacked /\ q.queued = QueuedBytes(r)
      /\ q.sent = l.sent /\ q.fed = l.fed /\ q.resets = l.resets
      /\ q.due = (IF s \in R THEN 1 ELSE 0) /\ q.under = Kinds(wire[d], s)
      /\ q.data = Bytes(wire[d], s, "DATA") /\ q.grants = Bytes(wire[d], s, "WINDOW_UPDATE")
  BY <1>1, ViewNow
<1> HIDE DEF y, q, f, U, r, l, R
<1>7. /\ q \in Views /\ y \in Views /\ f \in Frames /\ f.ok
      /\ y.st = q.st /\ y.recv = q.recv /\ y.ended = q.ended /\ y.window = q.window
      /\ y.held = q.held /\ y.unacked = q.unacked /\ y.queued = q.queued /\ y.sent = q.sent
      /\ y.fed = q.fed /\ y.resets = q.resets /\ y.due = q.due
  BY <1>2, <1>5, <1>6
<1>8. /\ y.under \subseteq q.under /\ f.type \in q.under /\ "OPEN" \notin y.under
      /\ f.type = "DATA" => q.data = f.n + y.data
      /\ f.type # "DATA" => y.data = q.data
      /\ f.type = "WINDOW_UPDATE" => q.grants = f.n + y.grants
      /\ f.type # "WINDOW_UPDATE" => y.grants = q.grants
      /\ f.type = "EOF" => y.data = 0
  BY <1>4, <1>5, <1>6
<1> QED
  BY <1>7, <1>8 DEF y, q, f, r, l, R

\* A frame is taken and its bytes, if any, were not expected.
LEMMA LostFrame ==
    ASSUME IInv, Compliant, NEW e \in Ends, NEW s \in Sids,
           wire[Peer(e)] # <<>>, wire' = Taken(e), Arrived(e).sid = s, NEW x \in Views,
           Agree(e, x, View(Peer(e), s), s, nextId),
           x.st = "live" /\ x.recv = "OPEN" /\ Arrived(e).type = "DATA" => Arrived(e).n = 0
    PROVE  Agree(e, x, ViewOf(stream[Peer(e)][s], log[Peer(e)][s], mux[Peer(e)].resetSends,
                              wire'[Peer(e)], s), s, nextId)
<1> DEFINE f == Arrived(e)
           d == Peer(e)
           q == View(d, s)
           y == ViewOf(stream[d][s], log[d][s], mux[d].resetSends, wire'[d], s)
<1>1. /\ q \in Views /\ y \in Views /\ f \in Frames
      /\ y.st = q.st /\ y.recv = q.recv /\ y.ended = q.ended /\ y.window = q.window
      /\ y.held = q.held /\ y.unacked = q.unacked /\ y.queued = q.queued /\ y.sent = q.sent
      /\ y.fed = q.fed /\ y.resets = q.resets /\ y.due = q.due
      /\ y.under \subseteq q.under /\ "OPEN" \notin y.under
      /\ f.type = "DATA" => q.data = f.n + y.data
      /\ f.type # "DATA" => y.data = q.data
      /\ f.type = "WINDOW_UPDATE" => q.grants = f.n + y.grants
      /\ f.type # "WINDOW_UPDATE" => y.grants = q.grants
  BY PeerTaken
<1>2. nextId \in Nat /\ Agree(e, x, q, s, nextId)
  BY StreamFacts
<1>3. x.st = "live" /\ x.recv = "OPEN" /\ f.type = "DATA" => f.n = 0
  OBVIOUS
<1> HIDE DEF f, q, y
<1>4. y.data \in Nat /\ q.data \in Nat /\ y.grants \in Nat /\ q.grants \in Nat /\ f.n \in Nat
  BY <1>1, FrameFields DEF Views
<1>5. /\ y.data <= q.data /\ y.grants <= q.grants
      /\ x.st = "live" /\ x.recv = "OPEN" => y.data = q.data
  BY <1>1, <1>3, <1>4
<1>6. Agree(e, x, y, s, nextId)
  BY <1>1, <1>2, <1>4, <1>5, FrameLost
<1> QED
  BY <1>6 DEF y

\* A step of end e that touches no stream: neither its record nor its frames.
LEMMA NoStreamTouched ==
    ASSUME IInv, NEW e \in Ends, NEW m \in MuxRecs, SetMux(e, m),
           UNCHANGED <<stream, nextId, env, log>>, wire' \in [Ends -> Seq(Frames)],
           \A x \in Sids, d \in Ends : Quiet(wire[d], wire'[d], x),
           AllOk(wire) => AllOk(wire'),
           m.buffered = mux[e].buffered, m.frames = mux[e].frames, m.account = mux[e].account,
           m.resetSends = mux[e].resetSends, m.breach = mux[e].breach
    PROVE  IInv'
<1>1. 1 \in Sids
  BY MuxAssumption DEF Sids
<1>2. MuxTypes /\ log[e][1] \in LogRecs /\ wire[e] \in Seq(Frames)
  BY <1>1, StreamFacts DEF IInv
<1>3. SetLog(e, 1, log[e][1])
  BY <1>1, <1>2, Unassigned
<1>4. Elsewhere(e, 1, m)
  BY DEF Elsewhere
<1>5. ASSUME Compliant PROVE Faithful(e, 1, stream[e][1], m, log[e][1])
  <2>1. /\ AllOk(wire) /\ mux[e].breach \cap {"stream_bytes", "stream_frames"} = {}
        /\ \A d \in Ends : Ordered(wire[d], 1)
        /\ Agree(e, View(e, 1), View(Peer(e), 1), 1, nextId)
    BY <1>1, <1>5, AgreeNow
  <2>2. ASSUME NEW d \in Ends
        PROVE  /\ \A t : Bytes(wire'[d], 1, t) = Bytes(wire[d], 1, t)
               /\ Kinds(wire'[d], 1) = Kinds(wire[d], 1)
               /\ Ordered(wire'[d], 1)
    <3>1. wire[d] \in Seq(Frames) /\ Quiet(wire[d], wire'[d], 1)
      BY <1>1, <1>2 DEF MuxTypes
    <3> QED
      BY <2>1, <3>1, QuietWire
  <2>3. ViewOf(stream[e][1], log[e][1], m.resetSends, wire'[e], 1) = View(e, 1)
    BY <2>2, Zenon DEF View, ViewOf
  <2>4. ViewOf(stream[Peer(e)][1], log[Peer(e)][1], mux[Peer(e)].resetSends, wire'[Peer(e)], 1) = View(Peer(e), 1)
    BY <2>2, PeerFacts, Zenon DEF View, ViewOf
  <2>5. \A d \in Ends : Ordered(wire'[d], 1)
    BY <2>2
  <2> QED
    BY <2>1, <2>3, <2>4, <2>5 DEF Faithful, AllOk
<1> QED
  BY <1>1, <1>2, <1>3, <1>4, <1>5, StreamsKept

\* Mux.goaway.
LEMMA GoAwayKeeps ==
    ASSUME IInv, NEW e \in Ends, GoAway(e)
    PROVE  IInv'
<1> DEFINE m == [mux[e] EXCEPT !.goingAway = TRUE, !.drain = "waiting"]
           f == Frame("GOAWAY", 0, 0)
<1>1. mux[e] \in MuxRecs
  BY DEF IInv, MuxTypes
<1>2. SetMux(e, m)
  BY DEF GoAway, SetMux
<1>3. f \in Frames /\ f.ok /\ f.sid = 0 /\ wire' = Sent(e, f)
  <2>1. "GOAWAY" \in FrameTypes /\ 0 \in 0 .. MaxSid
    BY MuxAssumption DEF FrameTypes
  <2> QED
    BY <2>1, FrameIs DEF GoAway
<1> HIDE DEF f
<1>4. /\ wire' \in [Ends -> Seq(Frames)]
      /\ \A x : x # f.sid => \A d \in Ends : Quiet(wire[d], wire'[d], x)
      /\ AllOk(wire) => AllOk(wire')
  BY <1>3, SentWire
<1>5. \A x \in Sids, d \in Ends : Quiet(wire[d], wire'[d], x)
  <2>1. \A x \in Sids : x # 0
    BY DEF Sids
  <2> QED
    BY <1>3, <1>4, <2>1
<1>6. /\ m \in MuxRecs /\ m.buffered = mux[e].buffered /\ m.frames = mux[e].frames
      /\ m.account = mux[e].account /\ m.resetSends = mux[e].resetSends /\ m.breach = mux[e].breach
  BY <1>1 DEF MuxRecs
<1> HIDE DEF m
<1> QED
  BY <1>2, <1>4, <1>5, <1>6, NoStreamTouched DEF GoAway

\* The state of the websocket and of the drain is nobody else's business.
LEMMA SocketKeeps ==
    ASSUME IInv, NEW e \in Ends, NEW m \in MuxRecs, SetMux(e, m),
           UNCHANGED <<stream, wire, nextId, env, log>>,
           m.buffered = mux[e].buffered, m.frames = mux[e].frames, m.account = mux[e].account,
           m.resetSends = mux[e].resetSends, m.breach = mux[e].breach
    PROVE  IInv'
<1>1. wire' \in [Ends -> Seq(Frames)] /\ (AllOk(wire) => AllOk(wire'))
  BY DEF IInv, MuxTypes, AllOk
<1>2. \A x \in Sids, d \in Ends : Quiet(wire[d], wire'[d], x)
  BY DEF Quiet
<1> QED
  BY <1>1, <1>2, NoStreamTouched

\* Mux.drain closes the connection.
LEMMA DrainCloseKeeps ==
    ASSUME IInv, NEW e \in Ends, DrainClose(e)
    PROVE  IInv'
<1> DEFINE m == [mux[e] EXCEPT !.drain = "done", !.ws = IF @ = "open" THEN "closing" ELSE @]
<1>1. mux[e] \in MuxRecs
  BY DEF IInv, MuxTypes
<1>2. SetMux(e, m)
  BY DEF DrainClose, SetMux
<1>3. /\ m \in MuxRecs /\ m.buffered = mux[e].buffered /\ m.frames = mux[e].frames
      /\ m.account = mux[e].account /\ m.resetSends = mux[e].resetSends /\ m.breach = mux[e].breach
  BY <1>1 DEF MuxRecs
<1> HIDE DEF m
<1> QED
  BY <1>2, <1>3, SocketKeeps DEF DrainClose

\* The connection is lost at one end.
LEMMA LoseKeeps ==
    ASSUME IInv, NEW e \in Ends, Lose(e)
    PROVE  IInv'
<1> DEFINE m == [mux[e] EXCEPT !.ws = "lost"]
<1>1. mux[e] \in MuxRecs
  BY DEF IInv, MuxTypes
<1>2. SetMux(e, m)
  BY Zenon DEF Lose, SetMux
<1>3. /\ m \in MuxRecs /\ m.buffered = mux[e].buffered /\ m.frames = mux[e].frames
      /\ m.account = mux[e].account /\ m.resetSends = mux[e].resetSends /\ m.breach = mux[e].breach
  BY <1>1 DEF MuxRecs
<1> HIDE DEF m
<1> QED
  BY <1>2, <1>3, SocketKeeps DEF Lose

\* The other end notices.
LEMMA NoticeKeeps ==
    ASSUME IInv, NEW e \in Ends, Notice(e)
    PROVE  IInv'
<1> DEFINE m == [mux[e] EXCEPT !.ws = mux[Peer(e)].ws]
<1>1. mux[e] \in MuxRecs /\ mux[Peer(e)] \in MuxRecs
  BY PeerFacts DEF IInv, MuxTypes
<1>2. SetMux(e, m)
  BY Zenon DEF Notice, SetMux
<1>3. /\ m \in MuxRecs /\ m.buffered = mux[e].buffered /\ m.frames = mux[e].frames
      /\ m.account = mux[e].account /\ m.resetSends = mux[e].resetSends /\ m.breach = mux[e].breach
  BY <1>1 DEF MuxRecs
<1> HIDE DEF m
<1> QED
  BY <1>2, <1>3, SocketKeeps DEF Notice

\* A frame is taken that changes nothing but the fields of the Mux.
LEMMA FrameDropped ==
    ASSUME IInv, NEW e \in Ends, wire[Peer(e)] # <<>>, wire' = Taken(e), NEW m \in MuxRecs, SetMux(e, m),
           UNCHANGED <<stream, nextId, env, log>>,
           m.buffered = mux[e].buffered, m.frames = mux[e].frames, m.account = mux[e].account,
           m.resetSends = mux[e].resetSends, m.breach = mux[e].breach,
           \/ Arrived(e).type # "DATA" \/ Arrived(e).n = 0
           \/ Arrived(e).sid \in Sids =>
                 stream[e][Arrived(e).sid].st # "live" \/ stream[e][Arrived(e).sid].recv # "OPEN"
    PROVE  IInv'
<1> DEFINE f == Arrived(e)
<1>1. /\ wire' \in [Ends -> Seq(Frames)] /\ wire'[e] = wire[e]
      /\ f \in Frames
      /\ \A x : x # f.sid => \A d \in Ends : Quiet(wire[d], wire'[d], x)
      /\ AllOk(wire) => AllOk(wire') /\ f.ok
  BY TakenWire
<1>2. CASE f.sid \in Sids
  <2> DEFINE s == f.sid
  <2>1. s \in Sids /\ f.sid = s
    BY <1>2
  <2> HIDE DEF s
  <2>2. MuxTypes /\ log[e][s] \in LogRecs
    BY <2>1, StreamFacts DEF IInv
  <2>3. SetLog(e, s, log[e][s])
    BY <2>1, <2>2, Unassigned
  <2>4. Elsewhere(e, s, m)
    BY <1>1, <2>1 DEF Elsewhere
  <2>5. ASSUME Compliant PROVE Faithful(e, s, stream[e][s], m, log[e][s])
    <3> DEFINE x == View(e, s)
    <3>1. /\ Agree(e, x, View(Peer(e), s), s, nextId)
          /\ mux[e].breach \cap {"stream_bytes", "stream_frames"} = {}
      BY <2>1, <2>5, AgreeNow
    <3>2. x \in Views /\ x.st = stream[e][s].st /\ x.recv = stream[e][s].recv
      BY <2>1, ViewNow
    <3>3. x = ViewOf(stream[e][s], log[e][s], m.resetSends, wire[e], s)
      BY Zenon DEF View
    <3> HIDE DEF x
    <3>4. x.st = "live" /\ x.recv = "OPEN" /\ f.type = "DATA" => f.n = 0
      BY <2>1, <3>2
    <3>5. Agree(e, x, ViewOf(stream[Peer(e)][s], log[Peer(e)][s], mux[Peer(e)].resetSends,
                             wire'[Peer(e)], s), s, nextId)
      BY <2>1, <2>5, <3>1, <3>2, <3>4, LostFrame
    <3> QED
      BY <2>1, <2>5, <3>1, <3>3, <3>5, FaithfulTaken
  <2> QED
    BY <1>1, <2>1, <2>2, <2>3, <2>4, <2>5, StreamsKept
<1>3. CASE f.sid \notin Sids
  <2>1. \A x \in Sids, d \in Ends : Quiet(wire[d], wire'[d], x)
    BY <1>1, <1>3
  <2> QED
    BY <1>1, <2>1, NoStreamTouched
<1> QED
  BY <1>2, <1>3

\* The fields of a Mux with one more RESET to send.
LEMMA WithSendResetIs ==
    ASSUME NEW m \in MuxRecs, NEW s \in Sids
    PROVE  LET z == WithSendReset(m, s)
           IN /\ z \in MuxRecs /\ z.buffered = m.buffered /\ z.frames = m.frames
              /\ z.account = m.account /\ z.breach = m.breach
              /\ z = m \/ z.resetSends = m.resetSends \cup {s}
<1> DEFINE z == [m EXCEPT !.resetSends = @ \cup {s}]
<1>1. /\ z \in MuxRecs /\ z.buffered = m.buffered /\ z.frames = m.frames
      /\ z.account = m.account /\ z.breach = m.breach /\ z.resetSends = m.resetSends \cup {s}
  BY DEF MuxRecs
<1>2. WithSendReset(m, s) = m \/ WithSendReset(m, s) = z
  BY Zenon DEF WithSendReset
<1> HIDE DEF z
<1> QED
  BY <1>1, <1>2

\* The agent refuses an OPEN.
LEMMA RefuseOpenKeeps ==
    ASSUME IInv, NEW e \in Ends, NEW s \in Sids, wire[Peer(e)] # <<>>, e = Agent,
           Arrived(e).sid = s, Arrived(e).type = "OPEN", RefuseOpen(e, s), UNCHANGED <<nextId, env, log>>
    PROVE  IInv'
<1> DEFINE f == Arrived(e)
           m == WithSendReset(mux[e], s)
           r == stream[e][s]
           l == log[e][s]
<1>0. wire' = Taken(e) /\ UNCHANGED stream
  BY DEF RefuseOpen
<1>1. /\ MuxTypes /\ r \in StreamRecs /\ l \in LogRecs /\ mux[e] \in MuxRecs /\ wire[e] \in Seq(Frames)
      /\ (r.st = "absent" => r = NoStream)
  BY StreamFacts DEF IInv
<1>2. SetMux(e, m)
  BY Zenon DEF RefuseOpen, SetMux
<1>3. /\ m \in MuxRecs /\ m.buffered = mux[e].buffered /\ m.frames = mux[e].frames
      /\ m.account = mux[e].account /\ m.breach = mux[e].breach
      /\ m = mux[e] \/ m.resetSends = mux[e].resetSends \cup {s}
  BY <1>1, WithSendResetIs
<1> HIDE DEF m
<1>4. CASE m = mux[e]
  BY <1>0, <1>2, <1>3, <1>4, FrameDropped
<1>5. CASE m.resetSends = mux[e].resetSends \cup {s}
  <2>1. /\ wire' \in [Ends -> Seq(Frames)]
        /\ \A x : x # f.sid => \A d \in Ends : Quiet(wire[d], wire'[d], x)
    BY <1>0, TakenWire
  <2>2. Elsewhere(e, s, m)
    BY <1>5, <2>1 DEF Elsewhere
  <2>3. SetLog(e, s, l)
    BY <1>1, Unassigned
  <2>4. ASSUME Compliant PROVE Faithful(e, s, r, m, l)
    <3> DEFINE v == View(e, s)
               q == View(Peer(e), s)
               x == ViewOf(r, l, m.resetSends, wire[e], s)
               y == ViewOf(stream[Peer(e)][s], log[Peer(e)][s], mux[Peer(e)].resetSends, wire'[Peer(e)], s)
    <3> HIDE DEF r, l
    <3>1. Agree(e, v, q, s, nextId) /\ mux[e].breach \cap {"stream_bytes", "stream_frames"} = {}
      BY <2>4, AgreeNow
    <3>2. /\ v \in Views /\ q \in Views /\ nextId \in Nat
          /\ v.st = r.st /\ v.recv = r.recv /\ v.ended = r.ended /\ v.window = r.window
          /\ v.held = r.held /\ v.unacked = r.unacked /\ v.queued = QueuedBytes(r)
          /\ v.sent = l.sent /\ v.fed = l.fed /\ v.resets = l.resets
          /\ v.due = (IF s \in mux[e].resetSends THEN 1 ELSE 0) /\ v.under = Kinds(wire[e], s)
          /\ v.data = Bytes(wire[e], s, "DATA") /\ v.grants = Bytes(wire[e], s, "WINDOW_UPDATE")
      BY ViewNow DEF r, l
    <3>3. /\ x \in Views
          /\ x.st = r.st /\ x.recv = r.recv /\ x.ended = r.ended /\ x.window = r.window
          /\ x.held = r.held /\ x.unacked = r.unacked /\ x.queued = QueuedBytes(r)
          /\ x.sent = l.sent /\ x.fed = l.fed /\ x.resets = l.resets
          /\ x.due = (IF s \in m.resetSends THEN 1 ELSE 0) /\ x.under = Kinds(wire[e], s)
          /\ x.data = Bytes(wire[e], s, "DATA") /\ x.grants = Bytes(wire[e], s, "WINDOW_UPDATE")
      BY <1>1, ViewFields
    <3>4. q \in Views /\ y \in Views /\ "OPEN" \notin y.under /\ "OPEN" \in q.under
      BY <1>0, <2>4, PeerTaken
    <3>5. Agree(e, v, y, s, nextId)
      BY <1>0, <2>4, <3>1, <3>2, LostFrame
    <3> HIDE DEF v, q, x, y
    <3>6. v.st = "absent" /\ v.resets = 0 /\ s < nextId
      <4>1. q.st # "absent"
        BY <3>1, <3>4 DEF Agree, SentOK
      <4>2. v.st = "absent" /\ v.resets = 0 /\ ~(s >= nextId)
        BY <3>1, <3>4, <4>1 DEF Agree, IdsOK, Server, Agent
      <4>3. s \in Nat
        BY DEF Sids
      <4> QED
        BY <3>2, <4>2, <4>3
    <3>7. Agree(e, x, y, s, nextId)
      <4>1. /\ x.st = v.st /\ x.recv = v.recv /\ x.ended = v.ended /\ x.window = v.window
            /\ x.held = v.held /\ x.unacked = v.unacked /\ x.queued = v.queued /\ x.sent = v.sent
            /\ x.fed = v.fed /\ x.resets = v.resets /\ x.due = 1 /\ x.under = v.under
            /\ x.data = v.data /\ x.grants = v.grants
        BY <1>5, <3>2, <3>3
      <4>2. x \in Views /\ v \in Views /\ y \in Views /\ nextId \in Nat
        BY <3>2, <3>3, <3>4
      <4> QED
        BY <3>4, <3>5, <3>6, <4>1, <4>2, IdRefused
    <3> QED
      BY <1>0, <1>3, <2>4, <3>1, <3>7, FaithfulTaken DEF x, y
  <2> QED
    BY <1>0, <1>1, <1>2, <1>3, <2>1, <2>2, <2>3, <2>4, StreamsKept
<1> QED
  BY <1>3, <1>4, <1>5

\* A new stream's own conditions.
LEMMA NewStreamOK ==
    /\ StreamOK(NewStream) /\ QueuedBytes(NewStream) = 0 /\ QueuedFrames(NewStream) = 0
    /\ QueuedBytes(NoStream) = 0
<1>1. SumSeq(<<>>) = 0 /\ <<>> \in Seq(Nat)
  BY SumEmpty
<1>2. [i \in DOMAIN <<>> |-> IF <<>>[i] = None THEN 0 ELSE 1] = <<>>
  OBVIOUS
<1>3. /\ QueuedBytes(NewStream) = 0 /\ QueuedBytes(NoStream) = 0
  BY <1>1, NoStreamFields DEF QueuedBytes
<1>4. QueuedFrames(NewStream) = 0
  <2>1. QueuedFrames(NewStream) = SumSeq([i \in DOMAIN NewStream.incoming |->
                                             IF NewStream.incoming[i] = None THEN 0 ELSE 1])
    BY Zenon DEF QueuedFrames
  <2> QED
    BY <1>1, <1>2, <2>1, NoStreamFields
<1>5. 0 <= StreamHardMax /\ 0 <= MaxQueuedFrames /\ W <= MaxSendWindow
  BY MuxAssumption DEF StreamHardMax, MaxQueuedFrames
<1> QED
  BY <1>3, <1>4, <1>5, NoStreamFields DEF StreamOK

\* The agent accepts an OPEN, also, from a foreign peer, that of an id it knew.
LEMMA AcceptKeeps ==
    ASSUME IInv, NEW e \in Ends, NEW s \in Sids, wire[Peer(e)] # <<>>, e = Agent,
           Arrived(e).sid = s, Arrived(e).type = "OPEN", wire' = Taken(e),
           stream[e][s].st # "live", Cardinality(LiveStreams(e)) < env.maxStreams,
           SetStream(e, s, NewStream), UNCHANGED <<mux, nextId, env, log>>
    PROVE  IInv'
<1> DEFINE f == Arrived(e)
           m == mux[e]
           r == stream[e][s]
           l == log[e][s]
           z == NewStream
<1>1. /\ MuxTypes /\ r \in StreamRecs /\ l \in LogRecs /\ mux[e] \in MuxRecs /\ wire[e] \in Seq(Frames)
      /\ (r.st = "absent" => r = NoStream) /\ StreamOK(r)
  BY StreamFacts DEF IInv
<1>2. SetMux(e, m) /\ SetLog(e, s, l) /\ SetStream(e, s, z)
  BY <1>1, Unassigned
<1>3. /\ z \in StreamRecs /\ StreamOK(z) /\ z.st = "live" /\ z.buffered = 0 /\ z.frames = 0
      /\ z.recv = "OPEN" /\ z.ended = FALSE /\ z.window = W /\ z.held = 0 /\ z.unacked = 0
      /\ QueuedBytes(z) = 0
  BY NoStreamFields, NewStreamOK DEF NewStream
<1> HIDE DEF z
<1>4. /\ wire' \in [Ends -> Seq(Frames)]
      /\ \A x : x # f.sid => \A d \in Ends : Quiet(wire[d], wire'[d], x)
  BY TakenWire
<1>5. Elsewhere(e, s, m)
  BY <1>4 DEF Elsewhere
<1>6. /\ m.buffered = mux[e].buffered - stream[e][s].buffered + z.buffered
      /\ m.frames = mux[e].frames - stream[e][s].frames + z.frames
      /\ m.account = (IF e = Server THEN m.buffered ELSE 0)
      /\ m.buffered <= MaxConnBuffered /\ m.frames <= MaxConnFrames /\ m.account <= env.account
  <2>1. stream[e][s].buffered = 0 /\ stream[e][s].frames = 0
    BY <1>1 DEF StreamOK
  <2>2. /\ m.buffered \in Nat /\ m.frames \in Nat
        /\ m.account = (IF e = Server THEN m.buffered ELSE 0)
        /\ m.buffered <= MaxConnBuffered /\ m.frames <= MaxConnFrames /\ m.account <= env.account
    BY ConnFacts
  <2> QED
    BY <1>3, <2>1, <2>2
<1>7. ASSUME Compliant PROVE Faithful(e, s, z, m, l)
  <2> DEFINE v == View(e, s)
             q == View(Peer(e), s)
             x == ViewOf(z, l, m.resetSends, wire[e], s)
             y == ViewOf(stream[Peer(e)][s], log[Peer(e)][s], mux[Peer(e)].resetSends, wire'[Peer(e)], s)
  <2> HIDE DEF r, l
  <2>1. Agree(e, v, q, s, nextId) /\ mux[e].breach \cap {"stream_bytes", "stream_frames"} = {}
    BY <1>7, AgreeNow
  <2>2. /\ v \in Views /\ q \in Views /\ nextId \in Nat
        /\ v.st = r.st /\ v.recv = r.recv /\ v.ended = r.ended /\ v.window = r.window
        /\ v.held = r.held /\ v.unacked = r.unacked /\ v.queued = QueuedBytes(r)
        /\ v.sent = l.sent /\ v.fed = l.fed /\ v.resets = l.resets
        /\ v.due = (IF s \in mux[e].resetSends THEN 1 ELSE 0) /\ v.under = Kinds(wire[e], s)
        /\ v.data = Bytes(wire[e], s, "DATA") /\ v.grants = Bytes(wire[e], s, "WINDOW_UPDATE")
    BY ViewNow DEF r, l
  <2>3. /\ x \in Views
        /\ x.st = z.st /\ x.recv = z.recv /\ x.ended = z.ended /\ x.window = z.window
        /\ x.held = z.held /\ x.unacked = z.unacked /\ x.queued = QueuedBytes(z)
        /\ x.sent = l.sent /\ x.fed = l.fed /\ x.resets = l.resets
        /\ x.due = (IF s \in m.resetSends THEN 1 ELSE 0) /\ x.under = Kinds(wire[e], s)
        /\ x.data = Bytes(wire[e], s, "DATA") /\ x.grants = Bytes(wire[e], s, "WINDOW_UPDATE")
    BY <1>1, <1>3, ViewFields
  <2>4. /\ q \in Views /\ y \in Views
        /\ y.st = q.st /\ y.recv = q.recv /\ y.ended = q.ended /\ y.window = q.window
        /\ y.held = q.held /\ y.unacked = q.unacked /\ y.queued = q.queued /\ y.sent = q.sent
        /\ y.fed = q.fed /\ y.resets = q.resets /\ y.due = q.due
        /\ y.under \subseteq q.under /\ "OPEN" \notin y.under /\ "OPEN" \in q.under
        /\ y.data = q.data /\ y.grants = q.grants
    BY <1>7, PeerTaken
  <2> HIDE DEF v, q, x, y, m
  <2>5. v.st = "absent"
    BY <2>1, <2>4 DEF Agree, IdsOK, Server, Agent
  <2>6. /\ v.recv = "OPEN" /\ v.ended = FALSE /\ v.held = 0 /\ v.unacked = 0 /\ v.queued = 0
    <3>1. r = NoStream
      BY <1>1, <2>2, <2>5 DEF r
    <3> QED
      BY <2>2, <3>1, NoStreamFields, NewStreamOK
  <2>7. Agree(e, x, y, s, nextId)
    <3>1. /\ x.st = "live" /\ x.recv = v.recv /\ x.ended = v.ended /\ x.window = W
          /\ x.held = v.held /\ x.unacked = v.unacked /\ x.queued = v.queued /\ x.sent = v.sent
          /\ x.fed = v.fed /\ x.resets = v.resets /\ x.due = v.due /\ x.under = v.under
          /\ x.data = v.data /\ x.grants = v.grants
      BY <1>3, <2>2, <2>3, <2>6, ZenonT(60) DEF m
    <3>2. x \in Views /\ v \in Views /\ nextId \in Nat /\ y.under \in SUBSET q.under
      BY <2>2, <2>3, <2>4
    <3> QED
      BY <2>1, <2>4, <2>5, <2>6, <3>1, <3>2, IdAccepted
  <2> QED
    BY <1>7, <2>1, <2>7, FaithfulTaken DEF x, y, m
<1> QED
  BY <1>1, <1>2, <1>3, <1>4, <1>5, <1>6, <1>7, OneStream

-----------------------------------------------------------------------------
(* Stream._feed                                                            *)

\* A breach is one of the limits of _feed; without one all of them hold.
LEMMA BreachIs ==
    ASSUME NEW e \in Ends, NEW s \in Sids, NEW n \in Nat
    PROVE  LET r == stream[e][s]
               m == mux[e]
               b == Breach(e, s, n)
           IN /\ b \in Breaches \cup {"none"}
              /\ b = "stream_bytes" => r.buffered + n > StreamHardMax
              /\ b = "stream_frames" => r.frames + 1 > MaxQueuedFrames
              /\ b = "none" =>
                    /\ ~(r.buffered + n > StreamHardMax) /\ ~(r.frames + 1 > MaxQueuedFrames)
                    /\ ~(m.buffered + n > MaxConnBuffered) /\ ~(m.frames + 1 > MaxConnFrames)
                    /\ e = Server => ~(m.account + n > env.account)
<1>1. Breach(e, s, n) \in Breaches \cup {"none"}
  BY DEF Breach, Breaches
<1>2. LET r == stream[e][s]
          m == mux[e]
          b == Breach(e, s, n)
      IN /\ b = "stream_bytes" => r.buffered + n > StreamHardMax
         /\ b = "stream_frames" => r.frames + 1 > MaxQueuedFrames
         /\ b = "none" =>
               /\ ~(r.buffered + n > StreamHardMax) /\ ~(r.frames + 1 > MaxQueuedFrames)
               /\ ~(m.buffered + n > MaxConnBuffered) /\ ~(m.frames + 1 > MaxConnFrames)
               /\ e = Server => ~(m.account + n > env.account)
  BY DEF Breach
<1> QED
  BY <1>1, <1>2

\* The record of a stream with one more chunk.
LEMMA FedRecord ==
    ASSUME NEW r \in StreamRecs, StreamOK(r), r.st = "live", r.recv = "OPEN", NEW n \in Nat \ {0},
           ~(r.buffered + n > StreamHardMax), ~(r.frames + 1 > MaxQueuedFrames)
    PROVE  LET z == [r EXCEPT !.incoming = Append(@, n), !.buffered = @ + n, !.frames = @ + 1]
           IN /\ z \in StreamRecs /\ StreamOK(z)
              /\ z.st = r.st /\ z.recv = r.recv /\ z.ended = r.ended /\ z.window = r.window
              /\ z.held = r.held /\ z.unacked = r.unacked /\ QueuedBytes(z) = QueuedBytes(r) + n
              /\ z.buffered = r.buffered + n /\ z.frames = r.frames + 1
<1> DEFINE z == [r EXCEPT !.incoming = Append(@, n), !.buffered = @ + n, !.frames = @ + 1]
<1>1. /\ z \in StreamRecs
      /\ z.st = r.st /\ z.recv = r.recv /\ z.ended = r.ended /\ z.window = r.window
      /\ z.held = r.held /\ z.unacked = r.unacked /\ z.over = r.over
      /\ z.buffered = r.buffered + n /\ z.frames = r.frames + 1
      /\ z.incoming = Append(r.incoming, n)
      /\ r.buffered \in Nat /\ r.frames \in Nat
  <2> DEFINE i == Append(r.incoming, n)
             b == r.buffered + n
             c == r.frames + 1
  <2>1. r.buffered \in Nat /\ r.frames \in Nat /\ r.incoming \in Seq(Nat)
    BY DEF StreamRecs
  <2>2. i \in Seq(Nat) /\ b \in Nat /\ c \in Nat
    BY <2>1
  <2>3. z = [r EXCEPT !.incoming = i, !.buffered = b, !.frames = c]
    BY Zenon
  <2> HIDE DEF i, b, c, z
  <2>4. /\ z \in StreamRecs
        /\ z.st = r.st /\ z.recv = r.recv /\ z.ended = r.ended /\ z.window = r.window
        /\ z.held = r.held /\ z.unacked = r.unacked /\ z.over = r.over
        /\ z.buffered = b /\ z.frames = c /\ z.incoming = i
    BY <2>2, <2>3 DEF StreamRecs
  <2> QED
    BY <2>1, <2>4 DEF i, b, c
<1> HIDE DEF z
<1>2. /\ QueuedBytes(z) = QueuedBytes(r) + n
      /\ QueuedFrames(z) = QueuedFrames(r) + 1
      /\ \A i \in DOMAIN z.incoming :
           z.incoming[i] = n \/ \E j \in DOMAIN r.incoming : z.incoming[i] = r.incoming[j]
  <2>1. n # None
    BY DEF None
  <2> QED
    BY <1>1, <2>1, QueueAppend
<1>3. StreamHardMax \in Nat /\ MaxQueuedFrames \in Nat
  BY MuxAssumption DEF StreamHardMax, MaxQueuedFrames
<1>4. z.buffered = QueuedBytes(z) /\ z.frames = QueuedFrames(z)
  BY <1>1, <1>2 DEF StreamOK
<1>5. ~z.over /\ \A i \in DOMAIN z.incoming : z.incoming[i] # None
  BY <1>1, <1>2 DEF StreamOK, None
<1>6. z.buffered <= StreamHardMax /\ z.frames <= MaxQueuedFrames /\ z.window <= MaxSendWindow
  <2>1. r.window <= MaxSendWindow
    BY DEF StreamOK
  <2> QED
    BY <1>1, <1>3, <2>1
<1>7. StreamOK(z)
  BY <1>1, <1>4, <1>5, <1>6 DEF StreamOK
<1> QED
  BY <1>1, <1>2, <1>7 DEF z

\* The fields of a Mux whose end has queued n more bytes.
LEMMA FedMux ==
    ASSUME IInv, NEW e \in Ends, NEW n \in Nat,
           ~(mux[e].buffered + n > MaxConnBuffered), ~(mux[e].frames + 1 > MaxConnFrames),
           e = Server => ~(mux[e].account + n > env.account)
    PROVE  LET m == [mux[e] EXCEPT !.buffered = @ + n, !.frames = @ + 1,
                                   !.account = IF e = Server THEN @ + n ELSE @]
           IN /\ m \in MuxRecs /\ m.resetSends = mux[e].resetSends /\ m.breach = mux[e].breach
              /\ m.buffered = mux[e].buffered + n /\ m.frames = mux[e].frames + 1
              /\ m.account = (IF e = Server THEN m.buffered ELSE 0)
              /\ m.buffered <= MaxConnBuffered /\ m.frames <= MaxConnFrames /\ m.account <= env.account
<1> DEFINE p == mux[e]
           a == IF e = Server THEN p.account + n ELSE p.account
           b == p.buffered + n
           c == p.frames + 1
           m == [p EXCEPT !.buffered = @ + n, !.frames = @ + 1,
                          !.account = IF e = Server THEN @ + n ELSE @]
<1>1. /\ p.buffered \in Nat /\ p.frames \in Nat /\ p.account \in Nat
      /\ p.account = (IF e = Server THEN p.buffered ELSE 0)
      /\ p.buffered <= MaxConnBuffered /\ p.frames <= MaxConnFrames
      /\ p.account <= env.account /\ env.account \in Nat /\ MaxConnBuffered \in Nat
      /\ MaxConnFrames \in Nat
  BY ConnFacts
<1>2. p \in MuxRecs
  BY DEF IInv, MuxTypes
<1>3. /\ ~(p.buffered + n > MaxConnBuffered) /\ ~(p.frames + 1 > MaxConnFrames)
      /\ e = Server => ~(p.account + n > env.account)
  OBVIOUS
<1> HIDE DEF p
<1>4. a \in Nat /\ a <= env.account /\ a = (IF e = Server THEN p.buffered + n ELSE 0)
  BY <1>1, <1>3
<1>5. /\ m \in MuxRecs /\ m.resetSends = p.resetSends /\ m.breach = p.breach
      /\ m.buffered = b /\ m.frames = c /\ m.account = a
  <2>1. m = [p EXCEPT !.buffered = b, !.frames = c, !.account = a]
    BY Zenon
  <2>2. b \in Nat /\ c \in Nat
    BY <1>1
  <2> HIDE DEF a, b, c, m
  <2> QED
    BY <1>2, <1>4, <2>1, <2>2 DEF MuxRecs
<1> HIDE DEF a, m
<1>6. m.buffered <= MaxConnBuffered /\ m.frames <= MaxConnFrames /\ m.account <= env.account
  BY <1>1, <1>3, <1>4, <1>5
<1> QED
  BY <1>4, <1>5, <1>6 DEF m, p, b, c

\* A frame is taken and its bytes are queued.
LEMMA FedKeeps ==
    ASSUME IInv, NEW e \in Ends, NEW s \in Sids, wire[Peer(e)] # <<>>, wire' = Taken(e),
           Arrived(e).sid = s, Arrived(e).type = "DATA", Arrived(e).n > 0,
           stream[e][s].st = "live", stream[e][s].recv = "OPEN",
           Feed(e, s, Arrived(e).n), Breach(e, s, Arrived(e).n) = "none", UNCHANGED <<nextId, env>>
    PROVE  IInv'
<1> DEFINE f == Arrived(e)
           n == f.n
           r == stream[e][s]
           l == log[e][s]
           z == [r EXCEPT !.incoming = Append(@, n), !.buffered = @ + n, !.frames = @ + 1]
           h == [l EXCEPT !.fed = @ + n]
           m == [mux[e] EXCEPT !.buffered = @ + n, !.frames = @ + 1,
                               !.account = IF e = Server THEN @ + n ELSE @]
<1>1. /\ MuxTypes /\ r \in StreamRecs /\ l \in LogRecs /\ mux[e] \in MuxRecs /\ wire[e] \in Seq(Frames)
      /\ StreamOK(r) /\ r.st = "live" /\ r.recv = "OPEN"
  BY StreamFacts DEF IInv
<1>2. /\ wire' \in [Ends -> Seq(Frames)] /\ wire'[e] = wire[e] /\ f \in Frames
      /\ \A x : x # f.sid => \A d \in Ends : Quiet(wire[d], wire'[d], x)
  BY TakenWire
<1>3. n \in Nat \ {0} /\ n \in Nat
  BY <1>2, FrameFields
<1>4. SetStream(e, s, z)
  <2>1. stream' = [stream EXCEPT ![e][s].incoming = Append(@, n), ![e][s].buffered = @ + n,
                                 ![e][s].frames = @ + 1]
    BY DEF Feed
  <2>2. stream \in [Ends -> [Sids -> StreamRecs]]
    BY <1>1 DEF MuxTypes
  <2> HIDE DEF n
  <2> QED
    BY <2>1, <2>2, ZenonT(60) DEF SetStream, StreamRecs
<1>5. SetMux(e, m)
  BY DEF Feed, SetMux
<1>6. SetLog(e, s, h)
  BY DEF Feed, SetLog
<1>7. /\ ~(r.buffered + n > StreamHardMax) /\ ~(r.frames + 1 > MaxQueuedFrames)
      /\ ~(mux[e].buffered + n > MaxConnBuffered) /\ ~(mux[e].frames + 1 > MaxConnFrames)
      /\ e = Server => ~(mux[e].account + n > env.account)
  BY <1>3, BreachIs
<1>8. /\ m \in MuxRecs /\ m.resetSends = mux[e].resetSends /\ m.breach = mux[e].breach
      /\ m.buffered = mux[e].buffered + n /\ m.frames = mux[e].frames + 1
      /\ m.account = (IF e = Server THEN m.buffered ELSE 0)
      /\ m.buffered <= MaxConnBuffered /\ m.frames <= MaxConnFrames /\ m.account <= env.account
  BY <1>3, <1>7, FedMux
<1>9. h \in LogRecs /\ h.sent = l.sent /\ h.fed = l.fed + n /\ h.resets = l.resets
  BY <1>1, <1>3 DEF LogRecs
<1>10. f.sid = s /\ f.type = "DATA" /\ n = f.n
  OBVIOUS
<1> HIDE DEF f, n, r
<1>11. /\ z \in StreamRecs /\ StreamOK(z)
       /\ z.st = r.st /\ z.recv = r.recv /\ z.ended = r.ended /\ z.window = r.window
       /\ z.held = r.held /\ z.unacked = r.unacked /\ QueuedBytes(z) = QueuedBytes(r) + n
       /\ z.buffered = r.buffered + n /\ z.frames = r.frames + 1
  BY <1>1, <1>3, <1>7, FedRecord
<1> HIDE DEF z, m, h, l
<1>12. /\ m.buffered = mux[e].buffered - stream[e][s].buffered + z.buffered
       /\ m.frames = mux[e].frames - stream[e][s].frames + z.frames
  <2> DEFINE a == mux[e].buffered
             b == mux[e].frames
             c == r.buffered
             d == r.frames
  <2>1. a \in Nat /\ b \in Nat /\ c \in Nat /\ d \in Nat
    BY <1>1, ConnFacts DEF StreamRecs
  <2>2. m.buffered = a + n /\ m.frames = b + 1 /\ z.buffered = c + n /\ z.frames = d + 1
    BY <1>8, <1>11
  <2> HIDE DEF a, b, c, d
  <2>3. a + n = a - c + (c + n) /\ b + 1 = b - d + (d + 1)
    BY <1>3, <2>1
  <2>4. m.buffered = a - c + z.buffered /\ m.frames = b - d + z.frames
    BY <2>2, <2>3
  <2> QED
    BY <2>4 DEF a, b, c, d, r
<1>13. Elsewhere(e, s, m)
  BY <1>2, <1>8, <1>10 DEF Elsewhere
<1>14. ASSUME Compliant PROVE Faithful(e, s, z, m, h)
  <2> DEFINE v == View(e, s)
             q == View(Peer(e), s)
             x == ViewOf(z, h, m.resetSends, wire[e], s)
             y == ViewOf(stream[Peer(e)][s], log[Peer(e)][s], mux[Peer(e)].resetSends, wire'[Peer(e)], s)
  <2>1. Agree(e, v, q, s, nextId) /\ mux[e].breach \cap {"stream_bytes", "stream_frames"} = {}
    BY <1>14, AgreeNow
  <2>2. /\ v \in Views /\ q \in Views /\ nextId \in Nat
        /\ v.st = r.st /\ v.recv = r.recv /\ v.ended = r.ended /\ v.window = r.window
        /\ v.held = r.held /\ v.unacked = r.unacked /\ v.queued = QueuedBytes(r)
        /\ v.sent = l.sent /\ v.fed = l.fed /\ v.resets = l.resets
        /\ v.due = (IF s \in mux[e].resetSends THEN 1 ELSE 0) /\ v.under = Kinds(wire[e], s)
        /\ v.data = Bytes(wire[e], s, "DATA") /\ v.grants = Bytes(wire[e], s, "WINDOW_UPDATE")
    BY ViewNow DEF r, l
  <2>3. /\ x \in Views
        /\ x.st = z.st /\ x.recv = z.recv /\ x.ended = z.ended /\ x.window = z.window
        /\ x.held = z.held /\ x.unacked = z.unacked /\ x.queued = QueuedBytes(z)
        /\ x.sent = h.sent /\ x.fed = h.fed /\ x.resets = h.resets
        /\ x.due = (IF s \in m.resetSends THEN 1 ELSE 0) /\ x.under = Kinds(wire[e], s)
        /\ x.data = Bytes(wire[e], s, "DATA") /\ x.grants = Bytes(wire[e], s, "WINDOW_UPDATE")
    BY <1>1, <1>9, <1>11, ViewFields
  <2>4. /\ q \in Views /\ y \in Views
        /\ y.st = q.st /\ y.recv = q.recv /\ y.ended = q.ended /\ y.window = q.window
        /\ y.held = q.held /\ y.unacked = q.unacked /\ y.queued = q.queued /\ y.sent = q.sent
        /\ y.fed = q.fed /\ y.resets = q.resets /\ y.due = q.due
        /\ y.under \subseteq q.under /\ "OPEN" \notin y.under
        /\ q.data = f.n + y.data /\ y.grants = q.grants
    BY <1>14, PeerTaken DEF f
  <2> HIDE DEF v, q, x, y
  <2>5. y.data = q.data - n /\ n <= q.data
    <3>1. y.data \in Nat /\ q.data = n + y.data
      BY <1>10, <2>4 DEF Views
    <3> QED
      BY <1>3, <3>1
  <2>6. Agree(e, x, y, s, nextId)
    <3>1. /\ x.st = v.st /\ x.recv = v.recv /\ x.ended = v.ended /\ x.window = v.window
          /\ x.held = v.held /\ x.unacked = v.unacked /\ x.queued = v.queued + n /\ x.sent = v.sent
          /\ x.fed = v.fed + n /\ x.resets = v.resets /\ x.due = v.due /\ x.under = v.under
          /\ x.data = v.data /\ x.grants = v.grants
      BY <1>8, <1>9, <1>11, <2>2, <2>3
    <3>2. /\ x \in Views /\ v \in Views /\ nextId \in Nat /\ y.under \in SUBSET q.under
          /\ v.st = "live" /\ v.recv = "OPEN"
      BY <1>1, <2>2, <2>3, <2>4
    <3>3. /\ q \in Views /\ y \in Views
          /\ y.st = q.st /\ y.recv = q.recv /\ y.ended = q.ended /\ y.window = q.window
          /\ y.held = q.held /\ y.unacked = q.unacked /\ y.queued = q.queued /\ y.sent = q.sent
          /\ y.fed = q.fed /\ y.resets = q.resets /\ y.due = q.due /\ "OPEN" \notin y.under
          /\ y.data = q.data - n /\ y.grants = q.grants /\ n <= q.data /\ n \in Nat
      BY <1>3, <2>4, <2>5
    <3> QED
      BY <2>1, <3>1, <3>2, <3>3, BytesQueued
  <2> QED
    BY <1>8, <1>14, <2>1, <2>6, FaithfulTaken DEF x, y
<1> QED
  BY <1>1, <1>2, <1>4, <1>5, <1>6, <1>8, <1>9, <1>11, <1>12, <1>13, <1>14, OneStream DEF r

\* z is the live r with its receive direction ended by t.
EndedBy(z, r, t) ==
    /\ z \in StreamRecs /\ StreamOK(z)
    /\ z.st = r.st /\ z.buffered = r.buffered /\ z.frames = r.frames
    /\ z.recv = (IF r.recv = "OPEN" THEN t ELSE r.recv)
    /\ z.ended = r.ended /\ z.window = r.window /\ z.held = r.held /\ z.unacked = r.unacked
    /\ QueuedBytes(z) = QueuedBytes(r)

\* Stream._end_recv, with or without a reset task.
LEMMA EndedRecord ==
    ASSUME NEW r \in StreamRecs, StreamOK(r), r.st = "live", NEW t \in {"EOF", "RESET"}
    PROVE  /\ EndedBy(EndRecv(r, t), r, t)
           /\ EndedBy([EndRecv(r, t) EXCEPT !.resetTask = TRUE], r, t)
<1> DEFINE z == EndRecv(r, t)
           y == [z EXCEPT !.resetTask = TRUE]
<1>1. /\ z \in StreamRecs /\ z.st = r.st /\ z.buffered = r.buffered /\ z.frames = r.frames
      /\ z.recv = (IF r.recv = "OPEN" THEN t ELSE r.recv) /\ z.recv # "OPEN"
      /\ z.ended = r.ended /\ z.window = r.window /\ z.held = r.held /\ z.unacked = r.unacked
      /\ QueuedBytes(z) = QueuedBytes(r) /\ QueuedFrames(z) = QueuedFrames(r)
  BY EndRecvRecord
<1> HIDE DEF z
<1>2. /\ y \in StreamRecs /\ y.st = z.st /\ y.buffered = z.buffered /\ y.frames = z.frames
      /\ y.recv = z.recv /\ y.incoming = z.incoming
      /\ y.ended = z.ended /\ y.window = z.window /\ y.held = z.held /\ y.unacked = z.unacked
  BY <1>1 DEF StreamRecs
<1>3. QueuedBytes(y) = QueuedBytes(z) /\ QueuedFrames(y) = QueuedFrames(z)
  BY <1>2 DEF QueuedBytes, QueuedFrames
<1> HIDE DEF y
<1>4. r.window <= MaxSendWindow /\ r.buffered <= StreamHardMax /\ r.frames <= MaxQueuedFrames
  BY DEF StreamOK
<1>5. r.buffered = QueuedBytes(r) /\ r.frames = QueuedFrames(r)
  BY DEF StreamOK
<1>6. StreamOK(z) /\ StreamOK(y)
  BY <1>1, <1>2, <1>3, <1>4, <1>5 DEF StreamOK
<1> QED
  BY <1>1, <1>2, <1>3, <1>6 DEF EndedBy, y, z

\* Between chute ends no frame breaches the limits of its stream: what is queued and what
\* is under way stay within the window.
LEMMA NoStreamBreach ==
    ASSUME IInv, Compliant, NEW e \in Ends, NEW s \in Sids, wire[Peer(e)] # <<>>, wire' = Taken(e),
           Arrived(e).sid = s, Arrived(e).type = "DATA", Arrived(e).n > 0,
           stream[e][s].st = "live", stream[e][s].recv = "OPEN"
    PROVE  Breach(e, s, Arrived(e).n) \notin {"stream_bytes", "stream_frames"}
<1> DEFINE f == Arrived(e)
           n == f.n
           r == stream[e][s]
           l == log[e][s]
           v == View(e, s)
           q == View(Peer(e), s)
           y == ViewOf(stream[Peer(e)][s], log[Peer(e)][s], mux[Peer(e)].resetSends, wire'[Peer(e)], s)
<1>1. r \in StreamRecs /\ StreamOK(r) /\ r.st = "live" /\ r.recv = "OPEN"
  BY StreamFacts
<1>2. Agree(e, v, q, s, nextId)
  BY AgreeNow
<1>3. f \in Frames /\ q \in Views /\ y \in Views /\ q.data = n + y.data
  BY PeerTaken
<1>4. n \in Nat /\ n > 0
  BY <1>3, FrameFields
<1>5. v \in Views /\ v.st = r.st /\ v.recv = r.recv /\ v.queued = QueuedBytes(r)
  BY ViewNow
<1>6. /\ QueuedBytes(r) \in Nat /\ QueuedFrames(r) \in Nat /\ QueuedFrames(r) <= QueuedBytes(r)
      /\ r.buffered = QueuedBytes(r) /\ r.frames = QueuedFrames(r)
  BY <1>1, QueueTypes DEF StreamOK
<1> HIDE DEF f, n, r, l, v, q, y
<1>7. v.queued + n <= W
  <2> DEFINE a == q.window
             b == q.sent
             c == v.fed
             g == v.queued
             h == v.held
             u == v.unacked
             k == v.grants
             d == q.data
             j == y.data
  <2>1. /\ a \in Nat /\ b \in Nat /\ c \in Nat /\ g \in Nat /\ h \in Nat /\ u \in Nat
        /\ k \in Nat /\ d \in Nat /\ j \in Nat
    BY <1>3, <1>5 DEF Views
  <2>2. LaneOK(q, v)
    BY <1>2 DEF Agree
  <2>3. c + d = b
    BY <1>1, <1>5, <2>2 DEF LaneOK
  <2>4. a + (b - c) + g + h + u + k <= IF q.st = "absent" THEN 0 ELSE W
    BY <2>2, Zenon DEF LaneOK
  <2>5. d = n + j /\ W \in Nat
    BY <1>3, MuxAssumption
  <2> HIDE DEF a, b, c, g, h, u, k, d, j
  <2>6. g + n <= W
    <3>1. CASE q.st = "absent"
      <4>1. a + (b - c) + g + h + u + k <= 0
        BY <2>4, <3>1
      <4>2. b - c = n + j
        BY <1>4, <2>1, <2>3, <2>5
      <4>3. a + (n + j) + g + h + u + k <= 0
        BY <4>1, <4>2
      <4>4. FALSE
        BY <1>4, <2>1, <4>3
      <4> QED
        BY <4>4
    <3>2. CASE q.st # "absent"
      <4>1. a + (b - c) + g + h + u + k <= W
        BY <2>4, <3>2
      <4> QED
        BY <1>4, <2>1, <2>3, <2>5, <4>1
    <3> QED
      BY <3>1, <3>2
  <2> QED
    BY <2>6 DEF g
<1>8. ~(r.buffered + n > StreamHardMax) /\ ~(r.frames + 1 > MaxQueuedFrames)
  <2> DEFINE b == QueuedBytes(r)
             c == QueuedFrames(r)
  <2>1. b + n <= W /\ b \in Nat /\ c \in Nat /\ c <= b /\ W \in Nat
    BY <1>5, <1>6, <1>7, MuxAssumption
  <2>2. StreamHardMax = 2 * W /\ MaxQueuedFrames = W
    BY DEF StreamHardMax, MaxQueuedFrames
  <2> HIDE DEF b, c
  <2>3. ~(b + n > 2 * W) /\ ~(c + 1 > W)
    BY <1>4, <2>1
  <2> QED
    BY <1>6, <2>2, <2>3 DEF b, c
<1> QED
  BY <1>4, <1>8, BreachIs DEF r, n, f

\* A frame breaches a limit: the receive direction ends and a reset task is spawned.
LEMMA BreachKeeps ==
    ASSUME IInv, NEW e \in Ends, NEW s \in Sids, wire[Peer(e)] # <<>>, wire' = Taken(e),
           Arrived(e).sid = s, Arrived(e).type = "DATA", Arrived(e).n > 0,
           stream[e][s].st = "live", stream[e][s].recv = "OPEN",
           Feed(e, s, Arrived(e).n), Breach(e, s, Arrived(e).n) # "none", UNCHANGED <<nextId, env>>
    PROVE  IInv'
<1> DEFINE f == Arrived(e)
           b == Breach(e, s, f.n)
           r == stream[e][s]
           l == log[e][s]
           z == [EndRecv(r, "RESET") EXCEPT !.resetTask = TRUE]
           m == [mux[e] EXCEPT !.breach = @ \cup {b}]
<1>1. /\ MuxTypes /\ r \in StreamRecs /\ l \in LogRecs /\ mux[e] \in MuxRecs /\ wire[e] \in Seq(Frames)
      /\ StreamOK(r) /\ r.st = "live" /\ r.recv = "OPEN"
  BY StreamFacts DEF IInv
<1>2. /\ wire' \in [Ends -> Seq(Frames)] /\ wire'[e] = wire[e] /\ f \in Frames
      /\ \A x : x # f.sid => \A d \in Ends : Quiet(wire[d], wire'[d], x)
  BY TakenWire
<1>3. f.n \in Nat /\ f.sid = s
  BY <1>2, FrameFields
<1>4. SetStream(e, s, z)
  BY Zenon DEF Feed, SetStream
<1>5. SetMux(e, m)
  BY Zenon DEF Feed, SetMux
<1>6. SetLog(e, s, l)
  <2>1. UNCHANGED log
    BY Zenon DEF Feed
  <2> QED
    BY <1>1, <2>1, Unassigned
<1>7. b \in Breaches
  BY <1>3, BreachIs
<1>8. ASSUME Compliant PROVE b \notin {"stream_bytes", "stream_frames"}
  BY <1>8, NoStreamBreach
<1> HIDE DEF b
<1>9. /\ m \in MuxRecs /\ m.resetSends = mux[e].resetSends /\ m.breach = mux[e].breach \cup {b}
      /\ m.buffered = mux[e].buffered /\ m.frames = mux[e].frames /\ m.account = mux[e].account
  BY <1>1, <1>7 DEF MuxRecs
<1> HIDE DEF f, r
<1>10. EndedBy(z, r, "RESET")
  BY <1>1, EndedRecord
<1>11. /\ z \in StreamRecs /\ StreamOK(z)
       /\ z.st = r.st /\ z.recv = "RESET" /\ z.ended = r.ended /\ z.window = r.window
       /\ z.held = r.held /\ z.unacked = r.unacked /\ QueuedBytes(z) = QueuedBytes(r)
       /\ z.buffered = r.buffered /\ z.frames = r.frames
  BY <1>1, <1>10 DEF EndedBy
<1> HIDE DEF z, m, l
<1>12. /\ m.buffered = mux[e].buffered - stream[e][s].buffered + z.buffered
       /\ m.frames = mux[e].frames - stream[e][s].frames + z.frames
       /\ m.account = (IF e = Server THEN m.buffered ELSE 0)
       /\ m.buffered <= MaxConnBuffered /\ m.frames <= MaxConnFrames /\ m.account <= env.account
  <2>1. /\ mux[e].buffered \in Nat /\ mux[e].frames \in Nat
        /\ mux[e].account = (IF e = Server THEN mux[e].buffered ELSE 0)
        /\ mux[e].buffered <= MaxConnBuffered /\ mux[e].frames <= MaxConnFrames
        /\ mux[e].account <= env.account
    BY ConnFacts
  <2>2. r.buffered \in Nat /\ r.frames \in Nat
    BY <1>1 DEF StreamRecs
  <2>3. /\ mux[e].buffered - r.buffered + r.buffered = mux[e].buffered
        /\ mux[e].frames - r.frames + r.frames = mux[e].frames
    BY <2>1, <2>2, Restored
  <2> QED
    BY <1>9, <1>11, <2>1, <2>3 DEF r
<1>13. Elsewhere(e, s, m)
  BY <1>2, <1>3, <1>9 DEF Elsewhere
<1>14. ASSUME Compliant PROVE Faithful(e, s, z, m, l)
  <2> DEFINE v == View(e, s)
             q == View(Peer(e), s)
             x == ViewOf(z, l, m.resetSends, wire[e], s)
             y == ViewOf(stream[Peer(e)][s], log[Peer(e)][s], mux[Peer(e)].resetSends, wire'[Peer(e)], s)
  <2>1. Agree(e, v, q, s, nextId) /\ mux[e].breach \cap {"stream_bytes", "stream_frames"} = {}
    BY <1>14, AgreeNow
  <2>2. /\ v \in Views /\ q \in Views /\ nextId \in Nat
        /\ v.st = r.st /\ v.recv = r.recv /\ v.ended = r.ended /\ v.window = r.window
        /\ v.held = r.held /\ v.unacked = r.unacked /\ v.queued = QueuedBytes(r)
        /\ v.sent = l.sent /\ v.fed = l.fed /\ v.resets = l.resets
        /\ v.due = (IF s \in mux[e].resetSends THEN 1 ELSE 0) /\ v.under = Kinds(wire[e], s)
        /\ v.data = Bytes(wire[e], s, "DATA") /\ v.grants = Bytes(wire[e], s, "WINDOW_UPDATE")
    BY ViewNow DEF r, l
  <2>3. /\ x \in Views
        /\ x.st = z.st /\ x.recv = z.recv /\ x.ended = z.ended /\ x.window = z.window
        /\ x.held = z.held /\ x.unacked = z.unacked /\ x.queued = QueuedBytes(z)
        /\ x.sent = l.sent /\ x.fed = l.fed /\ x.resets = l.resets
        /\ x.due = (IF s \in m.resetSends THEN 1 ELSE 0) /\ x.under = Kinds(wire[e], s)
        /\ x.data = Bytes(wire[e], s, "DATA") /\ x.grants = Bytes(wire[e], s, "WINDOW_UPDATE")
    BY <1>1, <1>11, ViewFields
  <2>4. Agree(e, x, q, s, nextId)
    <3> HIDE DEF v, q, x
    <3>1. /\ x.st = v.st /\ x.recv = "RESET" /\ x.ended = v.ended /\ x.window = v.window
          /\ x.held = v.held /\ x.unacked = v.unacked /\ x.queued = v.queued /\ x.sent = v.sent
          /\ x.fed = v.fed /\ x.resets = v.resets /\ x.due = v.due /\ x.under = v.under
          /\ x.data = v.data /\ x.grants = v.grants
      BY <1>9, <1>11, <2>2, <2>3
    <3>2. x \in Views /\ v \in Views /\ q \in Views /\ nextId \in Nat /\ v.recv = "OPEN"
      BY <1>1, <2>2, <2>3
    <3> QED
      BY <2>1, <3>1, <3>2, Deafened
  <2>5. x \in Views /\ x.recv = "RESET"
    BY <1>11, <2>3
  <2> HIDE DEF x
  <2>6. Agree(e, x, y, s, nextId)
    BY <1>3, <1>14, <2>4, <2>5, LostFrame DEF f
  <2>7. m.breach \cap {"stream_bytes", "stream_frames"} = {}
    BY <1>8, <1>9, <1>14, <2>1
  <2> QED
    BY <1>3, <1>14, <2>6, <2>7, FaithfulTaken DEF x, f
<1> QED
  BY <1>1, <1>2, <1>4, <1>5, <1>6, <1>9, <1>11, <1>12, <1>13, <1>14, OneStream DEF r

-----------------------------------------------------------------------------
(* The other frames of a live stream                                       *)

\* An EOF ends the receive direction, if nothing ended it before.
LEMMA EofKeeps ==
    ASSUME IInv, NEW e \in Ends, NEW s \in Sids, wire[Peer(e)] # <<>>, wire' = Taken(e),
           Arrived(e).sid = s, Arrived(e).type = "EOF", stream[e][s].st = "live",
           SetStream(e, s, EndRecv(stream[e][s], "EOF")), UNCHANGED <<mux, nextId, env, log>>
    PROVE  IInv'
<1> DEFINE f == Arrived(e)
           r == stream[e][s]
           l == log[e][s]
           z == EndRecv(r, "EOF")
<1>1. /\ MuxTypes /\ r \in StreamRecs /\ l \in LogRecs /\ mux[e] \in MuxRecs /\ wire[e] \in Seq(Frames)
      /\ StreamOK(r) /\ r.st = "live"
  BY StreamFacts DEF IInv
<1>2. /\ wire' \in [Ends -> Seq(Frames)] /\ wire'[e] = wire[e] /\ f \in Frames
      /\ \A x : x # f.sid => \A d \in Ends : Quiet(wire[d], wire'[d], x)
  BY TakenWire
<1>3. f.sid = s /\ f.type = "EOF" /\ SetStream(e, s, z)
  OBVIOUS
<1>4. SetLog(e, s, l) /\ SetMux(e, mux[e])
  BY <1>1, Unassigned
<1>5. CASE r.recv # "OPEN"
  <2>1. z = r
    BY <1>5 DEF EndRecv
  <2>2. UNCHANGED stream
    BY <1>1, <2>1 DEF SetStream, MuxTypes
  <2> QED
    BY <1>1, <1>4, <2>2, FrameDropped
<1>6. CASE r.recv = "OPEN"
  <2>1. EndedBy(z, r, "EOF")
    BY <1>1, EndedRecord
  <2> HIDE DEF r, z, l
  <2>2. /\ z \in StreamRecs /\ StreamOK(z)
        /\ z.st = r.st /\ z.recv = "EOF" /\ z.ended = r.ended /\ z.window = r.window
        /\ z.held = r.held /\ z.unacked = r.unacked /\ QueuedBytes(z) = QueuedBytes(r)
        /\ z.buffered = r.buffered /\ z.frames = r.frames
    BY <1>6, <2>1 DEF EndedBy
  <2>3. Elsewhere(e, s, mux[e])
    BY <1>2 DEF Elsewhere
  <2>4. ASSUME Compliant PROVE Faithful(e, s, z, mux[e], l)
    <3> DEFINE v == View(e, s)
               q == View(Peer(e), s)
               x == ViewOf(z, l, mux[e].resetSends, wire[e], s)
               y == ViewOf(stream[Peer(e)][s], log[Peer(e)][s], mux[Peer(e)].resetSends, wire'[Peer(e)], s)
    <3>1. Agree(e, v, q, s, nextId) /\ mux[e].breach \cap {"stream_bytes", "stream_frames"} = {}
      BY <2>4, AgreeNow
    <3>2. /\ v \in Views /\ q \in Views /\ nextId \in Nat
          /\ v.st = r.st /\ v.recv = r.recv /\ v.ended = r.ended /\ v.window = r.window
          /\ v.held = r.held /\ v.unacked = r.unacked /\ v.queued = QueuedBytes(r)
          /\ v.sent = l.sent /\ v.fed = l.fed /\ v.resets = l.resets
          /\ v.due = (IF s \in mux[e].resetSends THEN 1 ELSE 0) /\ v.under = Kinds(wire[e], s)
          /\ v.data = Bytes(wire[e], s, "DATA") /\ v.grants = Bytes(wire[e], s, "WINDOW_UPDATE")
      BY ViewNow DEF r, l
    <3>3. /\ x \in Views
          /\ x.st = z.st /\ x.recv = z.recv /\ x.ended = z.ended /\ x.window = z.window
          /\ x.held = z.held /\ x.unacked = z.unacked /\ x.queued = QueuedBytes(z)
          /\ x.sent = l.sent /\ x.fed = l.fed /\ x.resets = l.resets
          /\ x.due = (IF s \in mux[e].resetSends THEN 1 ELSE 0) /\ x.under = Kinds(wire[e], s)
          /\ x.data = Bytes(wire[e], s, "DATA") /\ x.grants = Bytes(wire[e], s, "WINDOW_UPDATE")
      BY <1>1, <2>2, ViewFields
    <3>4. q \in Views /\ y \in Views /\ y.ended = q.ended /\ "EOF" \in q.under /\ y.data = 0
      BY <2>4, PeerTaken
    <3>5. Agree(e, v, y, s, nextId)
      BY <2>4, <3>1, <3>2, LostFrame
    <3> HIDE DEF v, q, x, y
    <3>6. y.ended
      BY <3>1, <3>4 DEF Agree, SentOK
    <3>7. Agree(e, x, y, s, nextId)
      <4>1. /\ x.st = v.st /\ x.recv = "EOF" /\ x.ended = v.ended /\ x.window = v.window
            /\ x.held = v.held /\ x.unacked = v.unacked /\ x.queued = v.queued /\ x.sent = v.sent
            /\ x.fed = v.fed /\ x.resets = v.resets /\ x.due = v.due /\ x.under = v.under
            /\ x.data = v.data /\ x.grants = v.grants
        BY <2>2, <3>2, <3>3
      <4>2. /\ x \in Views /\ v \in Views /\ y \in Views /\ nextId \in Nat /\ v.st = "live"
            /\ v.recv = "OPEN"
        BY <1>1, <1>6, <3>2, <3>3, <3>4
      <4>3. y.data = 0
        BY <3>4
      <4> QED
        BY <3>5, <3>6, <4>1, <4>2, <4>3, EndHeard
    <3> QED
      BY <2>4, <3>1, <3>7, FaithfulTaken DEF x, y
  <2> QED
    BY <1>1, <1>2, <1>3, <1>4, <2>2, <2>3, <2>4, CountersKept DEF r
<1> QED
  BY <1>5, <1>6

\* A grant is added to the window; the cap of _grant is out of reach between chute ends.
LEMMA GrantKeeps ==
    ASSUME IInv, NEW e \in Ends, NEW s \in Sids, wire[Peer(e)] # <<>>, wire' = Taken(e),
           Arrived(e).sid = s, Arrived(e).type = "WINDOW_UPDATE", stream[e][s].st = "live",
           SetStream(e, s, Granted(stream[e][s], Arrived(e).n)), UNCHANGED <<mux, nextId, env, log>>
    PROVE  IInv'
<1> DEFINE f == Arrived(e)
           n == f.n
           r == stream[e][s]
           l == log[e][s]
           w == Min({r.window + n, MaxSendWindow})
           z == Granted(r, n)
<1>1. /\ MuxTypes /\ r \in StreamRecs /\ l \in LogRecs /\ mux[e] \in MuxRecs /\ wire[e] \in Seq(Frames)
      /\ StreamOK(r) /\ r.st = "live"
  BY StreamFacts DEF IInv
<1>2. /\ wire' \in [Ends -> Seq(Frames)] /\ wire'[e] = wire[e] /\ f \in Frames
      /\ \A x : x # f.sid => \A d \in Ends : Quiet(wire[d], wire'[d], x)
  BY TakenWire
<1>3. f.sid = s /\ f.type = "WINDOW_UPDATE" /\ SetStream(e, s, z) /\ n = f.n
  OBVIOUS
<1>4. SetLog(e, s, l)
  BY <1>1, Unassigned
<1>5. n \in Nat
  BY <1>2, FrameFields
<1>6. w \in Nat /\ w <= r.window + n /\ w <= MaxSendWindow
  <2> DEFINE S == {r.window + n, MaxSendWindow}
  <2>1. r.window \in Nat /\ MaxSendWindow \in Nat
    BY <1>1, MuxAssumption DEF StreamRecs
  <2>2. S \in SUBSET Nat /\ S # {}
    BY <1>5, <2>1
  <2>3. Min(S) \in Nat /\ \A i \in S : Min(S) <= i
    <3> HIDE DEF S
    <3> QED
      BY <2>2, MinIs
  <2> QED
    BY <2>3
<1>7. z = [r EXCEPT !.window = w, !.waiter = TRUE]
  BY Zenon DEF Granted
<1> HIDE DEF r, z, l, w, f, n
<1>8. /\ z \in StreamRecs /\ z.recv = r.recv /\ z.incoming = r.incoming /\ z.over = r.over
      /\ z.st = r.st /\ z.ended = r.ended /\ z.window = w
      /\ z.held = r.held /\ z.unacked = r.unacked
      /\ z.buffered = r.buffered /\ z.frames = r.frames
  BY <1>1, <1>6, <1>7 DEF StreamRecs
<1>9. StreamOK(z) /\ QueuedBytes(z) = QueuedBytes(r)
  <2>1. StreamOK(z)
    <3>1. r.st # "absent" /\ z.window <= MaxSendWindow
      BY <1>1, <1>6, <1>8
    <3> QED
      BY <1>1, <1>8, <3>1, StreamKept
  <2> QED
    BY <1>8, <2>1 DEF QueuedBytes
<1>10. Elsewhere(e, s, mux[e])
  BY <1>2, <1>3 DEF Elsewhere
<1>11. ASSUME Compliant PROVE Faithful(e, s, z, mux[e], l)
  <2> DEFINE v == View(e, s)
             q == View(Peer(e), s)
             x == ViewOf(z, l, mux[e].resetSends, wire[e], s)
             y == ViewOf(stream[Peer(e)][s], log[Peer(e)][s], mux[Peer(e)].resetSends, wire'[Peer(e)], s)
  <2>1. Agree(e, v, q, s, nextId) /\ mux[e].breach \cap {"stream_bytes", "stream_frames"} = {}
    BY <1>11, AgreeNow
  <2>2. /\ v \in Views /\ q \in Views /\ nextId \in Nat
        /\ v.st = r.st /\ v.recv = r.recv /\ v.ended = r.ended /\ v.window = r.window
        /\ v.held = r.held /\ v.unacked = r.unacked /\ v.queued = QueuedBytes(r)
        /\ v.sent = l.sent /\ v.fed = l.fed /\ v.resets = l.resets
        /\ v.due = (IF s \in mux[e].resetSends THEN 1 ELSE 0) /\ v.under = Kinds(wire[e], s)
        /\ v.data = Bytes(wire[e], s, "DATA") /\ v.grants = Bytes(wire[e], s, "WINDOW_UPDATE")
    BY ViewNow DEF r, l
  <2>3. /\ x \in Views
        /\ x.st = z.st /\ x.recv = z.recv /\ x.ended = z.ended /\ x.window = z.window
        /\ x.held = z.held /\ x.unacked = z.unacked /\ x.queued = QueuedBytes(z)
        /\ x.sent = l.sent /\ x.fed = l.fed /\ x.resets = l.resets
        /\ x.due = (IF s \in mux[e].resetSends THEN 1 ELSE 0) /\ x.under = Kinds(wire[e], s)
        /\ x.data = Bytes(wire[e], s, "DATA") /\ x.grants = Bytes(wire[e], s, "WINDOW_UPDATE")
    BY <1>1, <1>8, ViewFields
  <2>4. /\ q \in Views /\ y \in Views
          /\ y.st = q.st /\ y.recv = q.recv /\ y.ended = q.ended /\ y.window = q.window
          /\ y.held = q.held /\ y.unacked = q.unacked /\ y.queued = q.queued /\ y.sent = q.sent
          /\ y.fed = q.fed /\ y.resets = q.resets /\ y.due = q.due /\ "OPEN" \notin y.under
        /\ y.under \in SUBSET q.under /\ y.data = q.data /\ q.grants = n + y.grants
    BY <1>3, <1>11, PeerTaken DEF f
  <2> HIDE DEF v, q, x, y
  <2>5. y.grants = q.grants - n /\ n <= q.grants
    <3>1. y.grants \in Nat /\ q.grants = n + y.grants
      BY <2>4 DEF Views
    <3> QED
      BY <1>5, <3>1
  <2>6. Agree(e, x, y, s, nextId)
    <3>1. /\ x.st = v.st /\ x.recv = v.recv /\ x.ended = v.ended /\ x.window = w
          /\ x.held = v.held /\ x.unacked = v.unacked /\ x.queued = v.queued /\ x.sent = v.sent
          /\ x.fed = v.fed /\ x.resets = v.resets /\ x.due = v.due /\ x.under = v.under
          /\ x.data = v.data /\ x.grants = v.grants
      BY <1>8, <1>9, <2>2, <2>3
    <3>2. /\ x \in Views /\ v \in Views /\ nextId \in Nat /\ w \in Nat /\ n \in Nat
          /\ v.st = "live" /\ w <= v.window + n /\ n <= q.grants
      BY <1>1, <1>5, <1>6, <2>2, <2>3, <2>5
    <3>3. /\ q \in Views /\ y \in Views
          /\ y.st = q.st /\ y.recv = q.recv /\ y.ended = q.ended /\ y.window = q.window
          /\ y.held = q.held /\ y.unacked = q.unacked /\ y.queued = q.queued /\ y.sent = q.sent
          /\ y.fed = q.fed /\ y.resets = q.resets /\ y.due = q.due /\ "OPEN" \notin y.under
          /\ y.under \in SUBSET q.under /\ y.data = q.data /\ y.grants = q.grants - n
      BY <2>4, <2>5
    <3> QED
      BY <2>1, <3>1, <3>2, <3>3, CreditGranted
  <2> QED
    BY <1>3, <1>11, <2>1, <2>6, FaithfulTaken DEF x, y, f
<1> QED
  BY <1>1, <1>2, <1>3, <1>4, <1>8, <1>9, <1>10, <1>11, CountersKept DEF r

\* A RESET tears the stream down.
LEMMA AbortKeeps ==
    ASSUME IInv, NEW e \in Ends, NEW s \in Sids, wire[Peer(e)] # <<>>, wire' = Taken(e),
           Arrived(e).sid = s, Arrived(e).type = "RESET", stream[e][s].st = "live",
           CloseLocal(e, s, "RESET"), UNCHANGED <<nextId, env, log>>
    PROVE  IInv'
<1> DEFINE f == Arrived(e)
           r == stream[e][s]
           l == log[e][s]
           z == Closed(r, "RESET")
           m == Reconciled(e, mux[e], r)
<1>1. /\ MuxTypes /\ r \in StreamRecs /\ l \in LogRecs /\ mux[e] \in MuxRecs /\ wire[e] \in Seq(Frames)
      /\ StreamOK(r) /\ r.st = "live"
  BY StreamFacts DEF IInv
<1>2. /\ wire' \in [Ends -> Seq(Frames)] /\ wire'[e] = wire[e] /\ f \in Frames
      /\ \A x : x # f.sid => \A d \in Ends : Quiet(wire[d], wire'[d], x)
  BY TakenWire
<1>3. f.sid = s /\ f.type = "RESET"
  OBVIOUS
<1>4. SetLog(e, s, l) /\ SetStream(e, s, z) /\ SetMux(e, m)
  <2>1. SetStream(e, s, z) /\ SetMux(e, m)
    BY Zenon DEF CloseLocal, SetStream, SetMux
  <2> QED
    BY <1>1, <2>1, Unassigned
<1>5. /\ m \in MuxRecs
      /\ m.buffered = mux[e].buffered - stream[e][s].buffered
      /\ m.frames = mux[e].frames - stream[e][s].frames
      /\ m.account = (IF e = Server THEN m.buffered ELSE 0)
      /\ m.buffered <= MaxConnBuffered /\ m.frames <= MaxConnFrames /\ m.account <= env.account
      /\ m.resetSends = mux[e].resetSends /\ m.breach = mux[e].breach
  BY ReconciledIs
<1>6. TornDownTo(z, r, "RESET")
  BY <1>1, ClosedRecord
<1> HIDE DEF r, z, l, m, f
<1>7. /\ z \in StreamRecs /\ z.st = "closed" /\ z.recv = (IF r.recv = "OPEN" THEN "RESET" ELSE r.recv)
      /\ z.ended = r.ended /\ z.window = r.window /\ z.held = r.held /\ z.unacked = r.unacked
      /\ QueuedBytes(z) = QueuedBytes(r)
  BY <1>6 DEF TornDownTo
<1>8. Elsewhere(e, s, m)
  BY <1>2, <1>3, <1>5 DEF Elsewhere
<1>9. ASSUME Compliant PROVE Faithful(e, s, z, m, l)
  <2> DEFINE v == View(e, s)
             q == View(Peer(e), s)
             x == ViewOf(z, l, m.resetSends, wire[e], s)
             y == ViewOf(stream[Peer(e)][s], log[Peer(e)][s], mux[Peer(e)].resetSends, wire'[Peer(e)], s)
  <2>1. Agree(e, v, q, s, nextId) /\ mux[e].breach \cap {"stream_bytes", "stream_frames"} = {}
    BY <1>9, AgreeNow
  <2>2. /\ v \in Views /\ q \in Views /\ nextId \in Nat
        /\ v.st = r.st /\ v.recv = r.recv /\ v.ended = r.ended /\ v.window = r.window
        /\ v.held = r.held /\ v.unacked = r.unacked /\ v.queued = QueuedBytes(r)
        /\ v.sent = l.sent /\ v.fed = l.fed /\ v.resets = l.resets
        /\ v.due = (IF s \in mux[e].resetSends THEN 1 ELSE 0) /\ v.under = Kinds(wire[e], s)
        /\ v.data = Bytes(wire[e], s, "DATA") /\ v.grants = Bytes(wire[e], s, "WINDOW_UPDATE")
    BY ViewNow DEF r, l
  <2>3. /\ x \in Views
        /\ x.st = z.st /\ x.recv = z.recv /\ x.ended = z.ended /\ x.window = z.window
        /\ x.held = z.held /\ x.unacked = z.unacked /\ x.queued = QueuedBytes(z)
        /\ x.sent = l.sent /\ x.fed = l.fed /\ x.resets = l.resets
        /\ x.due = (IF s \in m.resetSends THEN 1 ELSE 0) /\ x.under = Kinds(wire[e], s)
        /\ x.data = Bytes(wire[e], s, "DATA") /\ x.grants = Bytes(wire[e], s, "WINDOW_UPDATE")
    BY <1>1, <1>7, ViewFields
  <2>4. y \in Views
    BY <1>3, <1>9, PeerTaken DEF f
  <2>5. Agree(e, v, y, s, nextId)
    BY <1>3, <1>9, <2>1, <2>2, LostFrame DEF f
  <2> HIDE DEF v, q, x, y
  <2>6. Agree(e, x, y, s, nextId)
    <3>0. {} \in SUBSET {"RESET"} /\ 0 \in {0, 1} /\ v.under \cup {} = v.under
      <4>1. {} \in SUBSET {"RESET"} /\ 0 \in {0, 1}
        OBVIOUS
      <4>2. v.under \cup {} = v.under
        BY Zenon
      <4> QED
        BY <4>1, <4>2
    <3>1. v.resets + 0 = v.resets
      BY <2>2 DEF Views
    <3>2. /\ x.st = "closed" /\ x.ended = v.ended /\ x.window = v.window /\ x.held = v.held
          /\ x.unacked = v.unacked /\ x.queued = v.queued /\ x.sent = v.sent /\ x.fed = v.fed
          /\ x.resets = v.resets + 0 /\ x.due = v.due /\ x.under = v.under \cup {} /\ x.data = v.data
          /\ x.grants = v.grants
      BY <1>5, <1>7, <2>2, <2>3, <3>0, <3>1
    <3>3. /\ v.st = "live" /\ (x.recv = v.recv \/ (v.recv = "OPEN" /\ x.recv = "RESET"))
          /\ x \in Views /\ v \in Views /\ y \in Views /\ nextId \in Nat
      BY <1>1, <1>7, <2>2, <2>3, <2>4 DEF r
    <3> QED
      BY <2>5, <3>0, <3>2, <3>3, TornDown
  <2> QED
    BY <1>3, <1>5, <1>9, <2>1, <2>6, FaithfulTaken DEF x, y, f
<1> QED
  BY <1>1, <1>2, <1>4, <1>5, <1>6, <1>8, <1>9, TeardownStep DEF r

\* A malformed frame tears the stream down; no chute end sends one.
LEMMA RefuseStreamKeeps ==
    ASSUME IInv, NEW e \in Ends, NEW s \in Sids, wire[Peer(e)] # <<>>, Arrived(e).sid = s,
           ~Arrived(e).ok, stream[e][s].st = "live", RefuseStream(e, s), UNCHANGED <<nextId, env, log>>
    PROVE  IInv'
<1> DEFINE f == Arrived(e)
           r == stream[e][s]
           l == log[e][s]
           z == Closed(r, "RESET")
           p == Reconciled(e, mux[e], r)
           m == WithSendReset(p, s)
<1>0. wire' = Taken(e)
  BY DEF RefuseStream
<1>1. MuxTypes /\ r \in StreamRecs /\ l \in LogRecs /\ StreamOK(r) /\ r.st = "live"
  BY StreamFacts DEF IInv
<1>2. /\ wire' \in [Ends -> Seq(Frames)] /\ (AllOk(wire) => f.ok)
      /\ \A x : x # f.sid => \A d \in Ends : Quiet(wire[d], wire'[d], x)
  BY <1>0, TakenWire
<1>3. SetLog(e, s, l) /\ SetStream(e, s, z) /\ SetMux(e, m)
  <2>1. SetStream(e, s, z)
    BY Zenon DEF RefuseStream, SetStream
  <2>2. SetMux(e, m)
    BY Zenon DEF RefuseStream, SetMux
  <2> QED
    BY <1>1, <2>1, <2>2, Unassigned
<1>4. /\ p \in MuxRecs
      /\ p.buffered = mux[e].buffered - stream[e][s].buffered
      /\ p.frames = mux[e].frames - stream[e][s].frames
      /\ p.account = (IF e = Server THEN p.buffered ELSE 0)
      /\ p.buffered <= MaxConnBuffered /\ p.frames <= MaxConnFrames /\ p.account <= env.account
      /\ p.resetSends = mux[e].resetSends
  BY ReconciledIs
<1> HIDE DEF p
<1>5. /\ m \in MuxRecs /\ m.buffered = p.buffered /\ m.frames = p.frames /\ m.account = p.account
      /\ m = p \/ m.resetSends = p.resetSends \cup {s}
  BY <1>4, WithSendResetIs
<1>6. TornDownTo(z, r, "RESET")
  BY <1>1, ClosedRecord
<1> HIDE DEF m, z
<1>7. Elsewhere(e, s, m)
  BY <1>2, <1>4, <1>5 DEF Elsewhere
<1>8. ~Compliant
  <2>1. Compliant => AllOk(wire)
    BY AgreeNow
  <2> QED
    BY <1>2, <2>1
<1> QED
  BY <1>1, <1>2, <1>3, <1>4, <1>5, <1>6, <1>7, <1>8, TeardownStep

-----------------------------------------------------------------------------
(* The end of run()                                                        *)

\* All streams of an end are aborted, its tasks cancelled and what was on the way to it lost.
LEMMA RunOver ==
    ASSUME NEW e \in Ends, NEW v \in Views, NEW q \in Views, NEW s \in Sids, NEW next \in Nat,
           Agree(e, v, q, s, next),
           NEW x \in Views, x.st = (IF v.st = "live" THEN "closed" ELSE v.st),
           x.recv = (IF v.st = "live" /\ v.recv = "OPEN" THEN "RESET" ELSE v.recv),
           x.ended = v.ended, x.window = v.window,
           x.held = v.held, x.unacked = v.unacked, x.queued = v.queued, x.sent = v.sent,
           x.fed = v.fed, x.resets = v.resets, x.due = 0, x.under = v.under,
           x.data = v.data, x.grants = v.grants,
           NEW y \in Views, y.st = q.st, y.recv = q.recv, y.ended = q.ended, y.window = q.window,
           y.held = q.held, y.unacked = q.unacked, y.queued = q.queued, y.sent = q.sent,
           y.fed = q.fed, y.resets = q.resets, y.due = q.due, y.under = {},
           y.data = 0, y.grants = 0
    PROVE  Agree(e, x, y, s, next)
<1>1. IdsOK(e, x, y, s, next)
  BY MuxAssumption DEF Agree, IdsOK, SentOK, Views, Ends, Sids
<1>2. SentOK(x) /\ SentOK(y)
  BY MuxAssumption DEF Agree, SentOK, IdsOK, Views
<1>3. LaneOK(x, y)
  <2> DEFINE a == v.window
             b == v.sent
             c == q.fed
             d == q.queued
             h == q.held
             u == q.unacked
             g == q.grants
  <2>1. LaneOK(v, q)
    BY DEF Agree
  <2>2. /\ (y.st = "live" /\ y.recv = "OPEN") \/ "OPEN" \in x.under => y.fed + x.data = x.sent
        /\ y.fed <= x.sent
    BY <2>1 DEF LaneOK
  <2>3. y.recv = "EOF" =>
          \/ x.ended /\ y.fed = x.sent
          \/ x.st = "absent" /\ "OPEN" \notin y.under
    BY <2>1 DEF LaneOK
  <2>4. x.window + (x.sent - y.fed) + y.queued + y.held + y.unacked + y.grants
          <= IF x.st = "absent" THEN 0 ELSE W
    <3>1. /\ a \in Nat /\ b \in Nat /\ c \in Nat /\ d \in Nat /\ h \in Nat /\ u \in Nat
          /\ g \in Nat /\ W \in Nat
      BY MuxAssumption DEF Views
    <3>2. a + (b - c) + d + h + u + g <= IF v.st = "absent" THEN 0 ELSE W
      BY <2>1, Zenon DEF LaneOK
    <3>3. (x.st = "absent") <=> (v.st = "absent")
      OBVIOUS
    <3> HIDE DEF a, b, c, d, h, u, g
    <3>4. a + (b - c) + d + h + u + 0 <= a + (b - c) + d + h + u + g
      BY <3>1
    <3>5. a + (b - c) + d + h + u + 0 <= IF x.st = "absent" THEN 0 ELSE W
      BY <3>1, <3>2, <3>3, <3>4
    <3>6. x.window = a /\ x.sent = b /\ y.fed = c /\ y.queued = d /\ y.held = h /\ y.unacked = u
      BY DEF a, b, c, d, h, u
    <3> QED
      BY <3>5, <3>6
  <2> QED
    BY <2>2, <2>3, <2>4 DEF LaneOK
<1>4. LaneOK(y, x)
  BY MuxAssumption DEF Agree, LaneOK, SentOK, IdsOK, Views
<1> QED
  BY <1>1, <1>2, <1>3, <1>4 DEF Agree

\* What the finally block makes of a stream.
Stopped(r) == [Closed(r, "RESET") EXCEPT !.resetTask = FALSE]

\* It holds nothing any more.
LEMMA StoppedRecord ==
    ASSUME NEW r \in StreamRecs, StreamOK(r)
    PROVE  LET z == Stopped(r)
           IN /\ z \in StreamRecs /\ StreamOK(z) /\ z.buffered = 0 /\ z.frames = 0 /\ z.st # "live"
              /\ z.st = (IF r.st = "live" THEN "closed" ELSE r.st)
              /\ z.recv = (IF r.st = "live" /\ r.recv = "OPEN" THEN "RESET" ELSE r.recv)
              /\ z.ended = r.ended /\ z.window = r.window /\ z.held = r.held /\ z.unacked = r.unacked
              /\ QueuedBytes(z) = QueuedBytes(r)
<1> DEFINE z == Stopped(r)
<1>1. CASE r.st = "live"
  <2>1. TornDownTo(z, r, "RESET")
    BY <1>1, ClosedRecord DEF Stopped
  <2> HIDE DEF z
  <2>2. /\ z \in StreamRecs /\ StreamOK(z) /\ z.buffered = 0 /\ z.frames = 0 /\ z.st # "live"
        /\ z.st = (IF r.st = "live" THEN "closed" ELSE r.st)
        /\ z.recv = (IF r.st = "live" /\ r.recv = "OPEN" THEN "RESET" ELSE r.recv)
        /\ z.ended = r.ended /\ z.window = r.window /\ z.held = r.held /\ z.unacked = r.unacked
        /\ QueuedBytes(z) = QueuedBytes(r)
    BY <1>1, <2>1 DEF TornDownTo
  <2> QED
    BY <2>2 DEF z
<1>2. CASE r.st # "live"
  <2>1. z = [r EXCEPT !.resetTask = FALSE]
    BY <1>2 DEF Stopped, Closed
  <2> HIDE DEF z
  <2>2. /\ z \in StreamRecs /\ z.st = r.st /\ z.recv = r.recv /\ z.incoming = r.incoming
        /\ z.buffered = r.buffered /\ z.frames = r.frames /\ z.unacked = r.unacked
        /\ z.window = r.window /\ z.ended = r.ended /\ z.held = r.held /\ z.over = r.over
    BY <2>1 DEF StreamRecs
  <2>3. z.buffered = 0 /\ z.frames = 0
    BY <1>2, <2>2 DEF StreamOK
  <2>4. QueuedBytes(z) = QueuedBytes(r)
    BY <2>2 DEF QueuedBytes
  <2>5. StreamOK(z)
    <3>1. CASE r.st = "absent"
      <4>1. r = NoStream
        BY <3>1 DEF StreamOK
      <4>2. ~NoStream.resetTask /\ NoStream \in StreamRecs
        BY NoStreamFields
      <4>3. z = r
        BY <2>1, <4>1, <4>2 DEF StreamRecs
      <4> QED
        BY <4>3
    <3>2. CASE r.st # "absent"
      <4>1. z.window <= MaxSendWindow
        BY <2>2 DEF StreamOK
      <4> QED
        BY <2>2, <3>2, <4>1, StreamKept
    <3> QED
      BY <3>1, <3>2
  <2> QED
    BY <1>2, <2>2, <2>3, <2>4, <2>5 DEF z
<1> QED
  BY <1>1, <1>2

\* What the live streams hold is all there is.
LEMMA LiveHoldAll ==
    ASSUME IInv, NEW e \in Ends
    PROVE  /\ SumSeq([s \in Sids |-> IF Live(e, s) THEN stream[e][s].buffered ELSE 0]) = mux[e].buffered
           /\ SumSeq([s \in Sids |-> IF Live(e, s) THEN stream[e][s].frames ELSE 0]) = mux[e].frames
<1>1. ASSUME NEW s \in Sids
      PROVE  /\ (IF Live(e, s) THEN stream[e][s].buffered ELSE 0) = stream[e][s].buffered
             /\ (IF Live(e, s) THEN stream[e][s].frames ELSE 0) = stream[e][s].frames
  <2>1. StreamOK(stream[e][s])
    BY StreamFacts
  <2> QED
    BY <2>1 DEF StreamOK, Live
<1>2. [s \in Sids |-> IF Live(e, s) THEN stream[e][s].buffered ELSE 0] = [s \in Sids |-> stream[e][s].buffered]
  BY <1>1
<1>3. [s \in Sids |-> IF Live(e, s) THEN stream[e][s].frames ELSE 0] = [s \in Sids |-> stream[e][s].frames]
  BY <1>1
<1>4. /\ mux[e].buffered = SumSeq([s \in Sids |-> stream[e][s].buffered])
      /\ mux[e].frames = SumSeq([s \in Sids |-> stream[e][s].frames])
  BY DEF IInv, Books, ConnOK
<1> QED
  BY <1>2, <1>3, <1>4, Zenon

\* run() is over: no stream of this end is live, and its books are empty.
LEMMA StopRunKeeps ==
    ASSUME IInv, NEW e \in Ends, NEW m \in MuxRecs, StopRun(e, m), UNCHANGED <<nextId, env, log>>,
           m.buffered = mux[e].buffered, m.frames = mux[e].frames, m.account = mux[e].account,
           m.breach = mux[e].breach
    PROVE  IInv'
<1> DEFINE bytes == SumSeq([s \in Sids |-> IF Live(e, s) THEN stream[e][s].buffered ELSE 0])
           count == SumSeq([s \in Sids |-> IF Live(e, s) THEN stream[e][s].frames ELSE 0])
           n == [m EXCEPT !.buffered = @ - bytes, !.frames = @ - count,
                          !.account = Released(e, @, bytes),
                          !.running = FALSE, !.resetSends = {}]
<1>1. /\ stream' = [stream EXCEPT ![e] = [s \in Sids |-> Stopped(stream[e][s])]]
      /\ mux' = [mux EXCEPT ![e] = n]
      /\ wire' = [wire EXCEPT ![Peer(e)] = <<>>]
  BY Zenon DEF StopRun, Stopped
<1>2. bytes = mux[e].buffered /\ count = mux[e].frames
  BY LiveHoldAll
<1> HIDE DEF bytes, count
<1>3. MuxTypes /\ EnvTypes /\ Books
  BY DEF IInv
<1>4. /\ n \in MuxRecs /\ n.buffered = 0 /\ n.frames = 0 /\ n.account = 0 /\ n.resetSends = {}
      /\ n.breach = mux[e].breach
  <2>1. /\ m.buffered \in Nat /\ m.frames \in Nat
        /\ m.account = (IF e = Server THEN m.buffered ELSE 0)
    BY ConnFacts
  <2>2. m.buffered - bytes = 0 /\ m.frames - count = 0
    BY <1>2, <2>1
  <2>3. Released(e, m.account, bytes) = 0
    <3>1. m.account <= bytes
      BY <1>2, <2>1
    <3> QED
      BY <3>1 DEF Released
  <2>4. n = [m EXCEPT !.buffered = 0, !.frames = 0, !.account = 0, !.running = FALSE, !.resetSends = {}]
    BY <2>2, <2>3, Zenon
  <2> HIDE DEF n
  <2> QED
    BY <2>4 DEF MuxRecs
<1> HIDE DEF n
<1>5. ASSUME NEW s \in Sids
      PROVE  LET r == stream[e][s]
                 z == stream'[e][s]
             IN /\ z \in StreamRecs /\ StreamOK(z) /\ z.buffered = 0 /\ z.frames = 0 /\ z.st # "live"
                /\ z.st = (IF r.st = "live" THEN "closed" ELSE r.st)
                /\ z.recv = (IF r.st = "live" /\ r.recv = "OPEN" THEN "RESET" ELSE r.recv)
                /\ z.ended = r.ended /\ z.window = r.window /\ z.held = r.held /\ z.unacked = r.unacked
                /\ QueuedBytes(z) = QueuedBytes(r)
  <2>1. stream[e][s] \in StreamRecs /\ StreamOK(stream[e][s])
    BY StreamFacts
  <2>2. stream'[e][s] = Stopped(stream[e][s])
    BY <1>1, <1>3 DEF MuxTypes
  <2> QED
    BY <2>1, <2>2, StoppedRecord
<1>6. ASSUME NEW d \in Ends, d # e
      PROVE  stream'[d] = stream[d] /\ mux'[d] = mux[d]
  BY <1>1, <1>3, <1>6 DEF MuxTypes
<1>7. mux'[e] = n /\ wire'[Peer(e)] = <<>> /\ wire'[e] = wire[e] /\ <<>> \in Seq(Frames)
  BY <1>1, <1>3, PeerFacts DEF MuxTypes
<1>8. MuxTypes' /\ EnvTypes'
  <2>1. stream' \in [Ends -> [Sids -> StreamRecs]]
    <3>1. [s \in Sids |-> Stopped(stream[e][s])] \in [Sids -> StreamRecs]
      <4>1. \A s \in Sids : stream'[e][s] = Stopped(stream[e][s])
        BY <1>1, <1>3 DEF MuxTypes
      <4>2. \A s \in Sids : Stopped(stream[e][s]) \in StreamRecs
        BY <1>5, <4>1
      <4> QED
        BY <4>2
    <3> DEFINE g == [s \in Sids |-> Stopped(stream[e][s])]
    <3>2. stream' = [stream EXCEPT ![e] = g] /\ g \in [Sids -> StreamRecs]
      BY <1>1, <3>1
    <3> HIDE DEF g
    <3> QED
      BY <1>3, <3>2 DEF MuxTypes
  <2>2. mux' \in [Ends -> MuxRecs]
    BY <1>1, <1>3, <1>4 DEF MuxTypes
  <2>3. wire' \in [Ends -> Seq(Frames)]
    BY <1>1, <1>3, <1>7 DEF MuxTypes
  <2> QED
    BY <1>3, <2>1, <2>2, <2>3 DEF MuxTypes, EnvTypes
<1>9. Books'
  <2>1. StreamsOK'
    <3> SUFFICES ASSUME NEW d \in Ends, NEW s \in Sids PROVE StreamOK(stream'[d][s])
      BY DEF StreamsOK, StreamOK, QueuedBytes, QueuedFrames
    <3>1. CASE d = e
      BY <1>5, <3>1
    <3>2. CASE d # e
      BY <1>3, <1>6, <3>2 DEF Books, StreamsOK
    <3> QED
      BY <3>1, <3>2
  <2>2. ASSUME NEW d \in Ends, d # e PROVE ConnOK(d)'
    <3>1. stream'[d] = stream[d] /\ mux'[d] = mux[d]
      BY <1>6, <2>2
    <3>2. ConnOK(d)
      BY <1>3 DEF Books
    <3>3. LiveStreams(d)' = LiveStreams(d)
      BY <3>1 DEF LiveStreams, Live
    <3> QED
      BY <3>1, <3>2, <3>3 DEF ConnOK
  <2>3. ConnOK(e)'
    <3> DEFINE b == [s \in Sids |-> stream'[e][s].buffered]
               c == [s \in Sids |-> stream'[e][s].frames]
    <3>1. b \in [Sids -> Nat] /\ c \in [Sids -> Nat] /\ \A s \in Sids : b[s] = 0 /\ c[s] = 0
      BY <1>5
    <3>2. SumSeq(b) = 0 /\ SumSeq(c) = 0
      <4> HIDE DEF b, c
      <4>1. /\ b \in Seq(Nat) /\ c \in Seq(Nat) /\ Len(b) = MaxSid /\ Len(c) = MaxSid
        BY <3>1, PerStream
      <4>2. (\A i \in 1 .. Len(b) : b[i] = 0) /\ (\A i \in 1 .. Len(c) : c[i] = 0)
        BY <3>1, <4>1 DEF Sids
      <4> QED
        BY <4>1, <4>2, SumZero
    <3>3. LiveStreams(e)' = {}
      BY <1>5 DEF LiveStreams, Live
    <3>4. Cardinality({}) = 0
      BY FS_EmptySet
    <3>5. /\ 0 <= MaxConnBuffered /\ 0 <= MaxConnFrames /\ 0 <= env.account /\ 0 <= env.maxStreams
      BY <1>3, MuxAssumption DEF EnvTypes
    <3>6. mux'[e].buffered = 0 /\ mux'[e].frames = 0 /\ mux'[e].account = 0
      BY <1>4, <1>7
    <3> QED
      BY <3>2, <3>3, <3>4, <3>5, <3>6 DEF ConnOK
  <2> QED
    BY <2>1, <2>2, <2>3 DEF Books
<1>10. ASSUME Compliant' PROVE Protocol'
  <2>1. Compliant
    BY <1>10 DEF Compliant
  <2>2. Protocol
    BY <2>1 DEF IInv
  <2>3. \A d \in Ends : \A i \in DOMAIN wire'[d] : wire'[d][i].ok
    <3>1. \A i \in DOMAIN wire'[e] : wire'[e][i].ok
      BY <1>7, <2>2 DEF Protocol
    <3>2. \A i \in DOMAIN wire'[Peer(e)] : wire'[Peer(e)][i].ok
      BY <1>7
    <3> QED
      BY <3>1, <3>2, PeerFacts
  <2>4. \A d \in Ends : mux'[d].breach \cap {"stream_bytes", "stream_frames"} = {}
    BY <1>4, <1>6, <1>7, <2>2 DEF Protocol
  <2>5. ASSUME NEW s \in Sids PROVE SidOK(s)'
    <3> DEFINE r == stream[e][s]
               z == stream'[e][s]
               l == log[e][s]
               k == Peer(e)
               v == View(e, s)
               q == View(k, s)
               x == ViewOf(z, l, n.resetSends, wire[e], s)
               y == ViewOf(stream[k][s], log[k][s], mux[k].resetSends, wire'[k], s)
    <3>1. Agree(e, v, q, s, nextId) /\ \A d \in Ends : Ordered(wire[d], s)
      BY <2>1, AgreeNow
    <3>2. k \in Ends /\ k # e
      BY PeerFacts
    <3>3. /\ l \in LogRecs /\ log[k][s] \in LogRecs /\ stream[k][s] \in StreamRecs
          /\ wire[e] \in Seq(Frames)
      BY StreamFacts
    <3>4. View(e, s)' = x /\ View(k, s)' = y
      BY <1>6, <1>7, <3>2 DEF View
    <3>5. /\ v \in Views /\ q \in Views /\ nextId \in Nat
          /\ v.st = r.st /\ v.recv = r.recv /\ v.ended = r.ended /\ v.window = r.window
          /\ v.held = r.held /\ v.unacked = r.unacked /\ v.queued = QueuedBytes(r)
          /\ v.sent = l.sent /\ v.fed = l.fed /\ v.resets = l.resets
          /\ v.due = (IF s \in mux[e].resetSends THEN 1 ELSE 0) /\ v.under = Kinds(wire[e], s)
          /\ v.data = Bytes(wire[e], s, "DATA") /\ v.grants = Bytes(wire[e], s, "WINDOW_UPDATE")
      BY ViewNow 
    <3>6. /\ x \in Views
          /\ x.st = z.st /\ x.recv = z.recv /\ x.ended = z.ended /\ x.window = z.window
          /\ x.held = z.held /\ x.unacked = z.unacked /\ x.queued = QueuedBytes(z)
          /\ x.sent = l.sent /\ x.fed = l.fed /\ x.resets = l.resets
          /\ x.due = (IF s \in n.resetSends THEN 1 ELSE 0) /\ x.under = Kinds(wire[e], s)
          /\ x.data = Bytes(wire[e], s, "DATA") /\ x.grants = Bytes(wire[e], s, "WINDOW_UPDATE")
      BY <1>5, <3>3, ViewFields
    <3>7. /\ y \in Views
          /\ y.st = q.st /\ y.recv = q.recv /\ y.ended = q.ended /\ y.window = q.window
          /\ y.held = q.held /\ y.unacked = q.unacked /\ y.queued = q.queued /\ y.sent = q.sent
          /\ y.fed = q.fed /\ y.resets = q.resets /\ y.due = q.due /\ y.under = {}
          /\ y.data = 0 /\ y.grants = 0
      <4> DEFINE a == stream[k][s]
                 b == log[k][s]
                 R == mux[k].resetSends
      <4>1. /\ y \in Views
            /\ y.st = a.st /\ y.recv = a.recv /\ y.ended = a.ended /\ y.window = a.window
            /\ y.held = a.held /\ y.unacked = a.unacked /\ y.queued = QueuedBytes(a)
            /\ y.sent = b.sent /\ y.fed = b.fed /\ y.resets = b.resets
            /\ y.due = (IF s \in R THEN 1 ELSE 0) /\ y.under = Kinds(wire'[k], s)
            /\ y.data = Bytes(wire'[k], s, "DATA") /\ y.grants = Bytes(wire'[k], s, "WINDOW_UPDATE")
        <5>1. wire'[k] \in Seq(Frames)
          BY <1>7
        <5> QED
          BY <3>3, <5>1, ViewFields
      <4>2. /\ q.st = a.st /\ q.recv = a.recv /\ q.ended = a.ended /\ q.window = a.window
            /\ q.held = a.held /\ q.unacked = a.unacked /\ q.queued = QueuedBytes(a)
            /\ q.sent = b.sent /\ q.fed = b.fed /\ q.resets = b.resets
            /\ q.due = (IF s \in R THEN 1 ELSE 0)
        BY <3>2, ViewNow
      <4>3. Kinds(wire'[k], s) = {} /\ \A t : Bytes(wire'[k], s, t) = 0
        BY <1>7, WireEmpty DEF Kinds
      <4> HIDE DEF q, y, a, b, R, k
      <4> QED
        BY <4>1, <4>2, <4>3
    <3> HIDE DEF v, q, x, y, r, z, l, k
    <3>8. Agree(e, x, y, s, nextId)
      <4>1. /\ x.st = (IF v.st = "live" THEN "closed" ELSE v.st) /\ x.recv = (IF v.st = "live" /\ v.recv = "OPEN" THEN "RESET" ELSE v.recv) /\ x.ended = v.ended /\ x.window = v.window
            /\ x.held = v.held /\ x.unacked = v.unacked /\ x.queued = v.queued /\ x.sent = v.sent
            /\ x.fed = v.fed /\ x.resets = v.resets /\ x.due = 0 /\ x.under = v.under
            /\ x.data = v.data /\ x.grants = v.grants
        BY <1>4, <1>5, <3>5, <3>6 DEF r, z
      <4>2. v \in Views /\ q \in Views /\ x \in Views /\ nextId \in Nat
        BY <3>5, <3>6
      <4> QED
        BY <3>1, <3>7, <4>1, <4>2, RunOver
    <3>9. Agree(Server, View(Server, s)', View(Agent, s)', s, nextId')
      <4>1. Agree(e, View(e, s)', View(k, s)', s, nextId')
        BY <3>4, <3>8
      <4>2. CASE e = Server
        <5>1. k = Agent
          BY <4>2 DEF k, Peer
        <5> QED
          BY <4>1, <4>2, <5>1
      <4>3. CASE e = Agent
        <5>1. k = Server
          BY <4>3 DEF k, Peer, Server, Agent
        <5> QED
          BY <4>1, <4>3, <5>1, AgreeFlips
      <4> QED
        BY <4>2, <4>3 DEF Ends
    <3>10. \A d \in Ends : Ordered(wire'[d], s)
      <4>1. Ordered(wire'[e], s)
        BY <1>7, <3>1
      <4>2. Ordered(wire'[Peer(e)], s)
        BY <1>7, WireEmpty
      <4> QED
        BY <4>1, <4>2, PeerFacts
    <3> QED
      BY <3>9, <3>10 DEF SidOK
  <2> QED
    BY <2>3, <2>4, <2>5 DEF Protocol
<1>11. Fresh'
  <2> SUFFICES ASSUME NEW x \in Sids, x >= nextId PROVE stream'[Server][x].st = "absent"
    BY DEF Fresh
  <2>1. stream[Server][x].st = "absent"
    BY DEF IInv, Fresh
  <2> QED
    BY <1>5, <1>6, <2>1 DEF Ends
<1> QED
  BY <1>8, <1>9, <1>10, <1>11 DEF IInv

-----------------------------------------------------------------------------
(* Opening a stream                                                        *)

\* What is known of an id that is not given out yet.
LEMMA NextIdIsFree ==
    ASSUME IInv, Compliant, nextId \in Sids
    PROVE  LET v == View(Server, nextId)
               q == View(Agent, nextId)
           IN /\ v.under = {} /\ v.data = 0 /\ v.recv = "OPEN" /\ v.st = "absent"
              /\ q.data = 0 /\ q.recv = "OPEN"
              /\ Agree(Server, v, q, nextId, nextId)
<1> DEFINE s == nextId
           v == View(Server, s)
           q == View(Agent, s)
<1>1. Server \in Ends /\ Agent \in Ends /\ Peer(Server) = Agent /\ s \in Sids /\ s \in Nat
  BY DEF Ends, Peer, Sids
<1>2. Agree(Server, v, q, s, nextId)
  BY <1>1, AgreeNow
<1>3. /\ v \in Views /\ v.st = stream[Server][s].st /\ v.recv = stream[Server][s].recv
      /\ v.under = Kinds(wire[Server], s) /\ v.data = Bytes(wire[Server], s, "DATA")
  BY <1>1, ViewNow
<1>4. /\ q \in Views /\ q.st = stream[Agent][s].st /\ q.recv = stream[Agent][s].recv
      /\ q.under = Kinds(wire[Agent], s) /\ q.data = Bytes(wire[Agent], s, "DATA")
  BY <1>1, ViewNow
<1>5. /\ stream[Server][s].st = "absent" => stream[Server][s] = NoStream
      /\ stream[Agent][s].st = "absent" => stream[Agent][s] = NoStream
      /\ wire[Server] \in Seq(Frames) /\ wire[Agent] \in Seq(Frames)
  BY <1>1, StreamFacts
<1> HIDE DEF v, q
<1>6. s >= nextId
  BY <1>1
<1>7. v.st = "absent" /\ q.st = "absent" /\ v.resets = 0
  BY <1>2, <1>6 DEF Agree, IdsOK
<1>8. v.under = {} /\ q.under \subseteq {"RESET"}
  <2>1. v.under \subseteq {"RESET"} /\ q.under \subseteq {"RESET"} /\ "RESET" \notin v.under
    BY <1>2, <1>7 DEF Agree, SentOK
  <2> QED
    BY <2>1
<1>9. v.recv = "OPEN" /\ q.recv = "OPEN"
  BY <1>3, <1>4, <1>5, <1>7, NoStreamFields
<1>10. v.data = 0 /\ q.data = 0
  <2>1. "DATA" \in FrameTypes /\ "DATA" \notin Kinds(wire[Server], s) /\ "DATA" \notin Kinds(wire[Agent], s)
    BY <1>3, <1>4, <1>8 DEF FrameTypes
  <2>2. ~Has(wire[Server], s, "DATA") /\ ~Has(wire[Agent], s, "DATA")
    BY <2>1 DEF Kinds
  <2> QED
    BY <1>3, <1>4, <1>5, <2>2, WireBytes
<1> QED
  BY <1>2, <1>7, <1>8, <1>9, <1>10 DEF v, q

\* Mux.open: an id is used up, and its OPEN is sent if it can be.
LEMMA OpenKeeps ==
    ASSUME IInv, Open
    PROVE  IInv'
<1> DEFINE e == Server
           s == nextId
           r == stream[e][s]
           l == log[e][s]
           f == Frame("OPEN", s, 0)
           up == mux[e].ws = "open"
           z == IF up THEN NewStream ELSE Closed(NewStream, "EOF")
<1>1. /\ s \in Nat /\ s \in Sids /\ e \in Ends /\ Peer(e) = Agent /\ Agent \in Ends /\ e # Agent
      /\ MuxTypes /\ nextId' = nextId + 1 /\ nextId' = s + 1
  <2>1. nextId \in Nat \ {0} /\ MuxTypes
    BY DEF IInv, MuxTypes
  <2>2. nextId <= MaxSid /\ nextId' = nextId + 1
    BY DEF Open
  <2> QED
    BY <2>1, <2>2, MuxAssumption DEF Sids, Ends, Peer, Server, Agent
<1>2. r.st = "absent"
  <2>1. s >= nextId
    BY <1>1
  <2> QED
    BY <1>1, <2>1 DEF IInv, Fresh
<1>3. SetStream(e, s, z) /\ UNCHANGED <<mux, env, log>> /\ wire' = Sent(e, f)
  BY Zenon DEF Open, SetStream
<1>4. SetMux(e, mux[e]) /\ SetLog(e, s, l)
  BY <1>1, <1>3, Unassigned
<1>5. Cardinality(LiveStreams(e)) < env.maxStreams
  BY DEF Open
<1>6. f \in Frames /\ f.ok /\ f.sid = s /\ f.type = "OPEN"
  <2>1. "OPEN" \in FrameTypes /\ s \in 0 .. MaxSid
    BY <1>1 DEF FrameTypes, Sids
  <2> QED
    BY <2>1, FrameIs
<1> HIDE DEF e, s, f, r, l, z
<1>7. /\ l \in LogRecs /\ mux[e] \in MuxRecs /\ wire[e] \in Seq(Frames) /\ r = NoStream
  BY <1>1, <1>2, StreamFacts DEF r, l
<1>8. /\ z \in StreamRecs /\ StreamOK(z) /\ z.buffered = 0 /\ z.frames = 0
      /\ z.st = (IF up THEN "live" ELSE "closed") /\ z.recv = (IF up THEN "OPEN" ELSE "EOF")
      /\ z.ended = FALSE /\ z.window = W /\ z.held = 0 /\ z.unacked = 0 /\ QueuedBytes(z) = 0
  <2>1. /\ NewStream \in StreamRecs /\ StreamOK(NewStream) /\ NewStream.st = "live"
        /\ NewStream.recv = "OPEN" /\ NewStream.ended = FALSE /\ NewStream.window = W
        /\ NewStream.held = 0 /\ NewStream.unacked = 0 /\ QueuedBytes(NewStream) = 0
        /\ NewStream.buffered = 0 /\ NewStream.frames = 0
    BY NoStreamFields, NewStreamOK DEF NewStream
  <2>2. CASE up
    <3>1. z = NewStream
      BY <2>2 DEF z
    <3> QED
      BY <2>1, <2>2, <3>1
  <2>3. CASE ~up
    <3>1. TornDownTo(z, NewStream, "EOF")
      BY <2>1, <2>3, ClosedRecord DEF z
    <3> QED
      BY <2>1, <2>3, <3>1 DEF TornDownTo
  <2> QED
    BY <2>2, <2>3
<1>9. /\ wire' \in [Ends -> Seq(Frames)] /\ wire'[Peer(e)] = wire[Peer(e)]
      /\ \A x : x # f.sid => \A d \in Ends : Quiet(wire[d], wire'[d], x)
      /\ AllOk(wire) => AllOk(wire')
  BY <1>1, <1>3, <1>6, SentWire
<1>10. Elsewhere(e, s, mux[e])
  BY <1>6, <1>9 DEF Elsewhere
<1>11. /\ mux[e].buffered = mux[e].buffered - stream[e][s].buffered + z.buffered
       /\ mux[e].frames = mux[e].frames - stream[e][s].frames + z.frames
       /\ mux[e].account = (IF e = Server THEN mux[e].buffered ELSE 0)
       /\ mux[e].buffered <= MaxConnBuffered /\ mux[e].frames <= MaxConnFrames
       /\ mux[e].account <= env.account
  <2>1. stream[e][s].buffered = 0 /\ stream[e][s].frames = 0
    BY <1>7, NoStreamFields DEF r
  <2>2. /\ mux[e].buffered \in Nat /\ mux[e].frames \in Nat
        /\ mux[e].account = (IF e = Server THEN mux[e].buffered ELSE 0)
        /\ mux[e].buffered <= MaxConnBuffered /\ mux[e].frames <= MaxConnFrames
        /\ mux[e].account <= env.account
    BY <1>1, ConnFacts
  <2> QED
    BY <1>8, <2>1, <2>2
<1>12. ASSUME Compliant PROVE Faithful(e, s, z, mux[e], l)
  <2> DEFINE v == View(e, s)
             q == View(Peer(e), s)
             x == ViewOf(z, l, mux[e].resetSends, wire'[e], s)
             K == IF up THEN {"OPEN"} ELSE {}
  <2>1. /\ AllOk(wire) /\ mux[e].breach \cap {"stream_bytes", "stream_frames"} = {}
        /\ \A d \in Ends : Ordered(wire[d], s)
    BY <1>1, <1>12, AgreeNow
  <2>2. /\ v.under = {} /\ v.data = 0 /\ v.recv = "OPEN" /\ v.st = "absent" /\ q.data = 0 /\ q.recv = "OPEN"
        /\ Agree(e, v, q, s, nextId)
    BY <1>1, <1>12, NextIdIsFree DEF e, s
  <2>3. /\ v \in Views /\ q \in Views /\ nextId \in Nat
        /\ v.st = r.st /\ v.recv = r.recv /\ v.ended = r.ended /\ v.window = r.window
        /\ v.held = r.held /\ v.unacked = r.unacked /\ v.queued = QueuedBytes(r)
        /\ v.sent = l.sent /\ v.fed = l.fed /\ v.resets = l.resets
        /\ v.due = (IF s \in mux[e].resetSends THEN 1 ELSE 0) /\ v.under = Kinds(wire[e], s)
        /\ v.data = Bytes(wire[e], s, "DATA") /\ v.grants = Bytes(wire[e], s, "WINDOW_UPDATE")
    BY <1>1, ViewNow DEF r, l
  <2>4. wire'[e] \in Seq(Frames)
    BY <1>1, <1>9
  <2>5. /\ x \in Views
        /\ x.st = z.st /\ x.recv = z.recv /\ x.ended = z.ended /\ x.window = z.window
        /\ x.held = z.held /\ x.unacked = z.unacked /\ x.queued = QueuedBytes(z)
        /\ x.sent = l.sent /\ x.fed = l.fed /\ x.resets = l.resets
        /\ x.due = (IF s \in mux[e].resetSends THEN 1 ELSE 0) /\ x.under = Kinds(wire'[e], s)
        /\ x.data = Bytes(wire'[e], s, "DATA") /\ x.grants = Bytes(wire'[e], s, "WINDOW_UPDATE")
    BY <1>7, <1>8, <2>4, ViewFields
  <2>6. ViewOf(stream[Peer(e)][s], log[Peer(e)][s], mux[Peer(e)].resetSends, wire'[Peer(e)], s) = q
    BY <1>9, Zenon DEF View
  <2> HIDE DEF v, q, x
  <2>7. /\ Kinds(wire'[e], s) = Kinds(wire[e], s) \cup (IF up THEN {f.type} ELSE {})
        /\ \A t : Bytes(wire'[e], s, t) = Bytes(wire[e], s, t) + (IF up THEN Match(f, s, t) ELSE 0)
        /\ ( /\ Ordered(wire[e], s) /\ "RESET" \notin Kinds(wire[e], s)
             /\ "EOF" \in Kinds(wire[e], s) => f.type \in {"WINDOW_UPDATE", "RESET"}
             /\ f.type = "OPEN" => Kinds(wire[e], s) = {} )
           => Ordered(wire'[e], s)
    BY <1>1, <1>3, <1>6, SentView
  <2>8. Match(f, s, "DATA") = 0 /\ Match(f, s, "WINDOW_UPDATE") = 0
    BY <1>6 DEF Match
  <2>9. /\ Kinds(wire'[e], s) = Kinds(wire[e], s) \cup K
        /\ Bytes(wire'[e], s, "DATA") = Bytes(wire[e], s, "DATA")
        /\ Bytes(wire'[e], s, "WINDOW_UPDATE") = Bytes(wire[e], s, "WINDOW_UPDATE")
        /\ Ordered(wire'[e], s)
    <3>1. \A t : Bytes(wire[e], s, t) \in Nat
      BY <1>7, WireBytes
    <3>2. Ordered(wire[e], s) /\ Kinds(wire[e], s) = {}
      BY <1>1, <2>1, <2>2, <2>3
    <3> QED
      BY <1>6, <2>7, <2>8, <3>1, <3>2
  <2>10. \A d \in Ends : Ordered(wire'[d], s)
    BY <1>1, <1>9, <2>1, <2>9, PeerFacts
  <2>11. /\ x.ended = v.ended /\ x.window = W /\ x.held = v.held /\ x.unacked = v.unacked
         /\ x.queued = v.queued /\ x.sent = v.sent /\ x.fed = v.fed /\ x.resets = v.resets
         /\ x.due = v.due /\ x.data = v.data /\ x.grants = v.grants
         /\ x \in Views /\ v \in Views /\ q \in Views /\ nextId \in Nat
    <3>1. r.ended = FALSE /\ r.held = 0 /\ r.unacked = 0 /\ QueuedBytes(r) = 0
      BY <1>7, NoStreamFields, NewStreamOK DEF NoStream, NewStream
    <3>2. /\ x.ended = v.ended /\ x.window = W /\ x.held = v.held /\ x.unacked = v.unacked
          /\ x.queued = v.queued
      BY <1>8, <2>3, <2>5, <3>1
    <3>3. /\ x.sent = v.sent /\ x.fed = v.fed /\ x.resets = v.resets
          /\ x.due = v.due /\ x.data = v.data /\ x.grants = v.grants
      BY <2>3, <2>5, <2>9
    <3> QED
      BY <2>3, <2>5, <3>2, <3>3
  <2>12. Agree(e, x, q, s, nextId + 1)
    <3>1. CASE up
      <4>1. x.st = "live" /\ x.recv = v.recv /\ x.under = v.under \cup {"OPEN"}
        BY <1>8, <2>2, <2>3, <2>5, <2>9, <3>1
      <4> QED
        BY <1>1, <2>2, <2>11, <4>1, IdOpened DEF e, s
    <3>2. CASE ~up
      <4>1. x.st = "closed" /\ x.recv = "EOF" /\ x.under = v.under
        BY <1>8, <2>2, <2>3, <2>5, <2>9, <3>2
      <4> QED
        BY <1>1, <2>2, <2>11, <4>1, IdWasted DEF e, s
    <3> QED
      BY <3>1, <3>2
  <2>13. \A d \in Ends : \A i \in DOMAIN wire'[d] : wire'[d][i].ok
    BY <1>9, <2>1 DEF AllOk
  <2>14. Agree(e, x, ViewOf(stream[Peer(e)][s], log[Peer(e)][s], mux[Peer(e)].resetSends, wire'[Peer(e)], s),
               s, nextId')
    BY <1>1, <2>6, <2>12
  <2> QED
    BY <2>1, <2>10, <2>13, <2>14 DEF Faithful, x
<1> QED
  <2>1. nextId' = nextId \/ (s = nextId /\ nextId' = nextId + 1)
    BY <1>1 DEF s
  <2>2. env' = env
    BY <1>3
  <2> QED
    BY <1>1, <1>3, <1>4, <1>5, <1>7, <1>8, <1>9, <1>10, <1>11, <1>12, <2>1, <2>2, OneStream

\* A foreign frame is put on the wire: only the books are known from here on.
LEMMA InjectKeeps ==
    ASSUME IInv, NEW e \in Ends, NEW f \in Frames, Inject(e, f)
    PROVE  IInv'
<1>1. MuxTypes /\ EnvTypes /\ Books /\ Fresh
  BY DEF IInv
<1>2. wire' \in [Ends -> Seq(Frames)]
  <2>1. wire' = [wire EXCEPT ![e] = Append(@, f)] \/ wire' = wire
    BY DEF Inject, Sent
  <2>2. Append(wire[e], f) \in Seq(Frames)
    BY <1>1 DEF MuxTypes
  <2> QED
    BY <1>1, <2>1, <2>2 DEF MuxTypes
<1>3. MuxTypes'
  BY <1>1, <1>2 DEF MuxTypes, Inject
<1>4. /\ env'.maxStreams = env.maxStreams /\ env'.account = env.account /\ env'.chunks = env.chunks
      /\ env'.injected = TRUE /\ DOMAIN env' = DOMAIN env
  BY <1>1 DEF EnvTypes, Inject
<1>5. EnvTypes'
  BY <1>1, <1>4 DEF EnvTypes
<1>6. Books'
  <2>1. UNCHANGED <<stream, mux>>
    BY DEF Inject
  <2>2. StreamsOK'
    BY <1>1, <2>1 DEF Books, StreamsOK, StreamOK, QueuedBytes, QueuedFrames
  <2>3. ASSUME NEW d \in Ends PROVE ConnOK(d)'
    <3>1. ConnOK(d) /\ LiveStreams(d)' = LiveStreams(d)
      BY <1>1, <2>1 DEF Books, LiveStreams, Live
    <3> QED
      BY <1>4, <2>1, <3>1 DEF ConnOK
  <2> QED
    BY <2>2, <2>3 DEF Books
<1>7. Fresh'
  BY <1>1 DEF Fresh, Inject
<1>8. ~Compliant'
  BY <1>4 DEF Compliant
<1> QED
  BY <1>3, <1>5, <1>6, <1>7, <1>8 DEF IInv

-----------------------------------------------------------------------------
(* Mux.run, frame by frame                                                 *)

\* A caller's reset.
LEMMA ResetKeeps ==
    ASSUME IInv, NEW e \in Ends, NEW s \in Sids, Reset(e, s)
    PROVE  IInv'
BY ResetNowKeeps DEF Reset

\* What the frame at the head of the wire is.
LEMMA ArrivedIs ==
    ASSUME IInv, NEW e \in Ends, wire[Peer(e)] # <<>>
    PROVE  Arrived(e) \in Frames /\ (Arrived(e).sid # 0 => Arrived(e).sid \in Sids) /\ Arrived(e).n \in Nat
<1>1. wire[Peer(e)] \in Seq(Frames)
  BY PeerFacts DEF IInv, MuxTypes
<1>2. Arrived(e) \in Frames
  BY <1>1 DEF Arrived
<1>3. Arrived(e).sid \in 0 .. MaxSid /\ Arrived(e).n \in Nat
  BY <1>2 DEF Frames
<1>4. \A i \in 0 .. MaxSid : i # 0 => i \in 1 .. MaxSid
  BY MuxAssumption
<1> QED
  BY <1>2, <1>3, <1>4 DEF Sids

\* A frame that is counted and ignored; at the limit the connection is given up.
LEMMA IgnoreFrameKeeps ==
    ASSUME IInv, NEW e \in Ends, wire[Peer(e)] # <<>>, IgnoreFrame(e), UNCHANGED <<nextId, env, log>>,
           Arrived(e).type # "DATA" \/ ~Known(e, Arrived(e).sid)
    PROVE  IInv'
<1> DEFINE m == [mux[e] EXCEPT !.ignored = @ + 1]
           n == [m EXCEPT !.ws = "lost"]
<1>1. mux[e] \in MuxRecs
  BY DEF IInv, MuxTypes
<1>2. /\ m \in MuxRecs /\ m.buffered = mux[e].buffered /\ m.frames = mux[e].frames
      /\ m.account = mux[e].account /\ m.resetSends = mux[e].resetSends /\ m.breach = mux[e].breach
  BY <1>1 DEF MuxRecs
<1>3. \/ SetMux(e, m) /\ wire' = Taken(e) /\ UNCHANGED stream
      \/ StopRun(e, n)
  BY Zenon DEF IgnoreFrame, SetMux
<1> HIDE DEF m
<1>4. /\ n \in MuxRecs /\ n.buffered = mux[e].buffered /\ n.frames = mux[e].frames
      /\ n.account = mux[e].account /\ n.breach = mux[e].breach
  BY <1>2 DEF MuxRecs
<1> HIDE DEF n
<1>5. CASE StopRun(e, n)
  BY <1>4, <1>5, StopRunKeeps
<1>6. CASE SetMux(e, m) /\ wire' = Taken(e) /\ UNCHANGED stream
  <2>1. \/ Arrived(e).type # "DATA"
        \/ Arrived(e).sid \in Sids => stream[e][Arrived(e).sid].st # "live"
    BY DEF Known, Live
  <2> QED
    BY <1>2, <1>6, <2>1, FrameDropped
<1> QED
  BY <1>3, <1>5, <1>6

\* An OPEN arrives.
LEMMA RecvOpenKeeps ==
    ASSUME IInv, NEW e \in Ends, RecvOpen(e)
    PROVE  IInv'
<1> DEFINE s == Arrived(e).sid
<1>1. wire[Peer(e)] # <<>> /\ Arrived(e).type = "OPEN" /\ UNCHANGED <<nextId, env, log>>
  BY DEF RecvOpen, Arrives, Arrived
<1>2. \/ IgnoreFrame(e)
      \/ s # 0 /\ e = Agent /\ RefuseOpen(e, s)
      \/ /\ s # 0 /\ e = Agent /\ ~Known(e, s) /\ ~(Cardinality(LiveStreams(e)) >= env.maxStreams)
         /\ stream' = [stream EXCEPT ![e][s] = NewStream] /\ wire' = Taken(e) /\ UNCHANGED mux
  BY Zenon DEF RecvOpen
<1>3. CASE IgnoreFrame(e)
  BY <1>1, <1>3, IgnoreFrameKeeps
<1>4. CASE s # 0 /\ e = Agent /\ RefuseOpen(e, s)
  <2>1. s \in Sids
    BY <1>1, <1>4, ArrivedIs
  <2> QED
    BY <1>1, <1>4, <2>1, RefuseOpenKeeps
<1>5. CASE /\ s # 0 /\ e = Agent /\ ~Known(e, s) /\ ~(Cardinality(LiveStreams(e)) >= env.maxStreams)
           /\ stream' = [stream EXCEPT ![e][s] = NewStream] /\ wire' = Taken(e) /\ UNCHANGED mux
  <2>1. s \in Sids
    BY <1>1, <1>5, ArrivedIs
  <2>2. stream[e][s].st # "live" /\ SetStream(e, s, NewStream)
    BY <1>5, <2>1 DEF Known, Live, SetStream
  <2>3. Cardinality(LiveStreams(e)) < env.maxStreams
    <3>1. Cardinality(LiveStreams(e)) \in Nat
      <4>1. IsFiniteSet(Sids)
        BY FS_Interval, MuxAssumption DEF Sids
      <4>2. LiveStreams(e) \subseteq Sids
        BY DEF LiveStreams
      <4>3. IsFiniteSet(LiveStreams(e))
        BY <4>1, <4>2, FS_Subset
      <4> QED
        BY <4>3, FS_CardinalityType
    <3>2. env.maxStreams \in Nat
      BY DEF IInv, EnvTypes
    <3> QED
      BY <1>5, <3>1, <3>2
  <2> QED
    BY <1>1, <1>5, <2>1, <2>2, <2>3, AcceptKeeps
<1> QED
  BY <1>2, <1>3, <1>4, <1>5

\* DATA arrives.
LEMMA RecvDataKeeps ==
    ASSUME IInv, NEW e \in Ends, RecvData(e)
    PROVE  IInv'
<1> DEFINE s == Arrived(e).sid
           n == Arrived(e).n
<1>1. wire[Peer(e)] # <<>> /\ Arrived(e).type = "DATA" /\ UNCHANGED <<nextId, env>>
  BY DEF RecvData, Arrives, Arrived
<1>2. \/ ~Known(e, s) /\ IgnoreFrame(e) /\ UNCHANGED log
      \/ /\ Known(e, s) /\ (stream[e][s].recv # "OPEN" \/ n = 0)
         /\ wire' = Taken(e) /\ UNCHANGED <<stream, mux, log>>
      \/ /\ Known(e, s) /\ stream[e][s].recv = "OPEN" /\ n > 0 /\ Feed(e, s, n)
         /\ wire' = Taken(e)
  BY Zenon DEF RecvData
<1>3. CASE ~Known(e, s) /\ IgnoreFrame(e) /\ UNCHANGED log
  BY <1>1, <1>3, IgnoreFrameKeeps
<1>4. CASE /\ Known(e, s) /\ (stream[e][s].recv # "OPEN" \/ n = 0)
           /\ wire' = Taken(e) /\ UNCHANGED <<stream, mux, log>>
  <2>1. s \in Sids /\ MuxTypes /\ mux[e] \in MuxRecs
    BY <1>4 DEF Known, IInv, MuxTypes
  <2>2. SetMux(e, mux[e])
    BY <1>4, <2>1, Unassigned
  <2> QED
    BY <1>1, <1>4, <2>1, <2>2, FrameDropped
<1>5. CASE /\ Known(e, s) /\ stream[e][s].recv = "OPEN" /\ n > 0 /\ Feed(e, s, n)
           /\ wire' = Taken(e)
  <2>1. s \in Sids /\ stream[e][s].st = "live"
    BY <1>5 DEF Known, Live
  <2>2. CASE Breach(e, s, n) = "none"
    BY <1>1, <1>5, <2>1, <2>2, FedKeeps
  <2>3. CASE Breach(e, s, n) # "none"
    BY <1>1, <1>5, <2>1, <2>3, BreachKeeps
  <2> QED
    BY <2>2, <2>3
<1> QED
  BY <1>2, <1>3, <1>4, <1>5

\* An EOF arrives.
LEMMA RecvEofKeeps ==
    ASSUME IInv, NEW e \in Ends, RecvEof(e)
    PROVE  IInv'
<1> DEFINE s == Arrived(e).sid
<1>1. wire[Peer(e)] # <<>> /\ Arrived(e).type = "EOF" /\ UNCHANGED <<nextId, env, log>>
  BY DEF RecvEof, Arrives, Arrived
<1>2. \/ IgnoreFrame(e)
      \/ Known(e, s) /\ ~Arrived(e).ok /\ RefuseStream(e, s)
      \/ /\ Known(e, s) /\ SetStream(e, s, EndRecv(stream[e][s], "EOF"))
         /\ wire' = Taken(e) /\ UNCHANGED mux
  BY Zenon DEF RecvEof, SetStream
<1>3. Known(e, s) => s \in Sids /\ stream[e][s].st = "live"
  BY DEF Known, Live
<1>4. CASE IgnoreFrame(e)
  BY <1>1, <1>4, IgnoreFrameKeeps
<1>5. CASE Known(e, s) /\ ~Arrived(e).ok /\ RefuseStream(e, s)
  BY <1>1, <1>3, <1>5, RefuseStreamKeeps
<1>6. CASE /\ Known(e, s) /\ SetStream(e, s, EndRecv(stream[e][s], "EOF"))
           /\ wire' = Taken(e) /\ UNCHANGED mux
  BY <1>1, <1>3, <1>6, EofKeeps
<1> QED
  BY <1>2, <1>4, <1>5, <1>6

\* A WINDOW_UPDATE arrives.
LEMMA RecvWindowUpdateKeeps ==
    ASSUME IInv, NEW e \in Ends, RecvWindowUpdate(e)
    PROVE  IInv'
<1> DEFINE s == Arrived(e).sid
<1>1. wire[Peer(e)] # <<>> /\ Arrived(e).type = "WINDOW_UPDATE" /\ UNCHANGED <<nextId, env, log>>
  BY DEF RecvWindowUpdate, Arrives, Arrived
<1>2. \/ IgnoreFrame(e)
      \/ Known(e, s) /\ ~Arrived(e).ok /\ RefuseStream(e, s)
      \/ /\ Known(e, s) /\ SetStream(e, s, Granted(stream[e][s], Arrived(e).n))
         /\ wire' = Taken(e) /\ UNCHANGED mux
  BY Zenon DEF RecvWindowUpdate, SetStream
<1>3. Known(e, s) => s \in Sids /\ stream[e][s].st = "live"
  BY DEF Known, Live
<1>4. CASE IgnoreFrame(e)
  BY <1>1, <1>4, IgnoreFrameKeeps
<1>5. CASE Known(e, s) /\ ~Arrived(e).ok /\ RefuseStream(e, s)
  BY <1>1, <1>3, <1>5, RefuseStreamKeeps
<1>6. CASE /\ Known(e, s) /\ SetStream(e, s, Granted(stream[e][s], Arrived(e).n))
           /\ wire' = Taken(e) /\ UNCHANGED mux
  BY <1>1, <1>3, <1>6, GrantKeeps
<1> QED
  BY <1>2, <1>4, <1>5, <1>6

\* A RESET arrives.
LEMMA RecvResetKeeps ==
    ASSUME IInv, NEW e \in Ends, RecvReset(e)
    PROVE  IInv'
<1> DEFINE s == Arrived(e).sid
<1>1. wire[Peer(e)] # <<>> /\ Arrived(e).type = "RESET" /\ UNCHANGED <<nextId, env, log>>
  BY DEF RecvReset, Arrives, Arrived
<1>2. IgnoreFrame(e) \/ (Known(e, s) /\ CloseLocal(e, s, "RESET") /\ wire' = Taken(e))
  BY Zenon DEF RecvReset
<1>3. Known(e, s) => s \in Sids /\ stream[e][s].st = "live"
  BY DEF Known, Live
<1>4. CASE IgnoreFrame(e)
  BY <1>1, <1>4, IgnoreFrameKeeps
<1>5. CASE Known(e, s) /\ CloseLocal(e, s, "RESET") /\ wire' = Taken(e)
  BY <1>1, <1>3, <1>5, AbortKeeps
<1> QED
  BY <1>2, <1>4, <1>5

\* A GOAWAY arrives.
LEMMA RecvGoawayKeeps ==
    ASSUME IInv, NEW e \in Ends, RecvGoaway(e)
    PROVE  IInv'
<1> DEFINE m == [mux[e] EXCEPT !.peerGoingAway = TRUE]
<1>1. wire[Peer(e)] # <<>> /\ Arrived(e).type = "GOAWAY" /\ UNCHANGED <<nextId, env, log>>
  BY DEF RecvGoaway, Arrives, Arrived
<1>2. IgnoreFrame(e) \/ (SetMux(e, m) /\ wire' = Taken(e) /\ UNCHANGED stream)
  BY Zenon DEF RecvGoaway, SetMux
<1>3. mux[e] \in MuxRecs
  BY DEF IInv, MuxTypes
<1>4. /\ m \in MuxRecs /\ m.buffered = mux[e].buffered /\ m.frames = mux[e].frames
      /\ m.account = mux[e].account /\ m.resetSends = mux[e].resetSends /\ m.breach = mux[e].breach
  BY <1>3 DEF MuxRecs
<1> HIDE DEF m
<1>5. CASE IgnoreFrame(e)
  BY <1>1, <1>5, IgnoreFrameKeeps
<1>6. CASE SetMux(e, m) /\ wire' = Taken(e) /\ UNCHANGED stream
  BY <1>1, <1>4, <1>6, FrameDropped
<1> QED
  BY <1>2, <1>5, <1>6

\* Anything else arrives.
LEMMA RecvOtherKeeps ==
    ASSUME IInv, NEW e \in Ends, RecvOther(e)
    PROVE  IInv'
<1>1. wire[Peer(e)] # <<>> /\ Arrived(e).type = "OTHER" /\ UNCHANGED <<nextId, env, log>>
  BY DEF RecvOther, Arrives, Arrived
<1> QED
  BY <1>1, IgnoreFrameKeeps DEF RecvOther

\* The loop ends with its connection.
LEMMA RunEndsKeeps ==
    ASSUME IInv, NEW e \in Ends, RunEnds(e)
    PROVE  IInv'
<1>1. mux[e] \in MuxRecs
  BY DEF IInv, MuxTypes
<1> QED
  BY <1>1, StopRunKeeps DEF RunEnds

-----------------------------------------------------------------------------
(* The inductive invariant                                                 *)

\* Two ends that know nothing of an id agree about it.
LEMMA NobodyKnows ==
    ASSUME NEW v \in Views, NEW s \in Sids, NEW next \in Nat, s >= next,
           v.st = "absent", v.recv = "OPEN", v.sent = 0, v.fed = 0, v.resets = 0, v.due = 0,
           v.under = {}, v.data = 0, v.grants = 0, v.window = 0, v.held = 0, v.unacked = 0, v.queued = 0
    PROVE  Agree(Server, v, v, s, next)
<1>1. IdsOK(Server, v, v, s, next)
  BY DEF IdsOK
<1>2. SentOK(v)
  BY DEF SentOK
<1>3. LaneOK(v, v)
  BY DEF LaneOK
<1> QED
  BY <1>1, <1>2, <1>3 DEF Agree

\* A new connection has neither streams nor frames.
LEMMA InitHolds == Init => IInv
<1> SUFFICES ASSUME Init PROVE IInv
  OBVIOUS
<1>1. NoStream \in StreamRecs /\ NewMux \in MuxRecs /\ [sent |-> 0, fed |-> 0, resets |-> 0] \in LogRecs
  BY NoStreamFields DEF NewMux, MuxRecs, LogRecs
<1>2. MuxTypes
  BY <1>1, WireEmpty DEF Init, MuxTypes
<1>3. EnvTypes
  BY MuxAssumption DEF Init, EnvTypes
<1>4. /\ \A e \in Ends, s \in Sids : stream[e][s] = NoStream
      /\ \A e \in Ends : mux[e] = NewMux /\ wire[e] = <<>>
      /\ \A e \in Ends, s \in Sids : log[e][s] = [sent |-> 0, fed |-> 0, resets |-> 0]
      /\ nextId = 1
  BY DEF Init
<1>5. StreamOK(NoStream)
  <2>1. 0 <= StreamHardMax /\ 0 <= MaxQueuedFrames /\ 0 <= MaxSendWindow
    BY MuxAssumption DEF StreamHardMax, MaxQueuedFrames
  <2> QED
    BY <2>1, NoStreamFields DEF StreamOK
<1>6. ASSUME NEW e \in Ends PROVE ConnOK(e)
  <2> DEFINE h == [s \in Sids |-> stream[e][s].buffered]
             g == [s \in Sids |-> stream[e][s].frames]
  <2>1. h \in [Sids -> Nat] /\ g \in [Sids -> Nat] /\ \A s \in Sids : h[s] = 0 /\ g[s] = 0
    BY <1>4, NoStreamFields
  <2> HIDE DEF h, g
  <2>2. SumSeq(h) = 0 /\ SumSeq(g) = 0
    BY <2>1, PerStream, SumZero DEF Sids
  <2>3. LiveStreams(e) = {}
    BY <1>4, NoStreamFields DEF LiveStreams, Live
  <2>4. Cardinality(LiveStreams(e)) = 0
    BY <2>3, FS_EmptySet
  <2>5. mux[e].buffered = 0 /\ mux[e].frames = 0 /\ mux[e].account = 0
    BY <1>4 DEF NewMux
  <2> QED
    BY <1>3, <2>2, <2>4, <2>5, MuxAssumption DEF ConnOK, EnvTypes, h, g
<1>7. Books
  BY <1>4, <1>5, <1>6 DEF Books, StreamsOK
<1>8. Fresh
  BY <1>4, NoStreamFields DEF Fresh, Ends
<1>9. ASSUME NEW s \in Sids PROVE SidOK(s)
  <2> DEFINE l == [sent |-> 0, fed |-> 0, resets |-> 0]
             v == ViewOf(NoStream, l, {}, <<>>, s)
  <2>0. l \in LogRecs /\ l.sent = 0 /\ l.fed = 0 /\ l.resets = 0
    BY <1>1
  <2>1. View(Server, s) = v /\ View(Agent, s) = v
    <3>1. ASSUME NEW e \in Ends PROVE View(e, s) = v
      <4>1. stream[e][s] = NoStream /\ log[e][s] = l /\ wire[e] = <<>> /\ mux[e].resetSends = {}
        BY <1>4 DEF NewMux
      <4> HIDE DEF l
      <4> QED
        BY <4>1, Zenon DEF View
    <3>2. Server \in Ends /\ Agent \in Ends
      BY DEF Ends
    <3> QED
      BY <3>1, <3>2, Zenon
  <2> HIDE DEF l
  <2>2. Kinds(<<>>, s) = {} /\ Bytes(<<>>, s, "DATA") = 0 /\ Bytes(<<>>, s, "WINDOW_UPDATE") = 0
    BY WireEmpty DEF Kinds
  <2>3. /\ v \in Views /\ v.st = "absent" /\ v.recv = "OPEN" /\ v.sent = 0 /\ v.fed = 0 /\ v.resets = 0
        /\ v.due = 0 /\ v.under = {} /\ v.data = 0 /\ v.grants = 0 /\ v.window = 0 /\ v.held = 0
        /\ v.unacked = 0 /\ v.queued = 0
    <3>1. /\ v \in Views /\ v.st = NoStream.st /\ v.recv = NoStream.recv /\ v.window = NoStream.window
          /\ v.held = NoStream.held /\ v.unacked = NoStream.unacked /\ v.queued = QueuedBytes(NoStream)
          /\ v.sent = l.sent /\ v.fed = l.fed /\ v.resets = l.resets
          /\ v.due = (IF s \in {} THEN 1 ELSE 0) /\ v.under = Kinds(<<>>, s)
          /\ v.data = Bytes(<<>>, s, "DATA") /\ v.grants = Bytes(<<>>, s, "WINDOW_UPDATE")
      <4> DEFINE R == {}
                 w == <<>>
                 r == NoStream
                 x == ViewOf(r, l, R, w, s)
      <4>1. r \in StreamRecs /\ w \in Seq(Frames) /\ l \in LogRecs
        BY <1>1, <2>0
      <4> HIDE DEF R, w, r
      <4>2. /\ x \in Views /\ x.st = r.st /\ x.recv = r.recv /\ x.window = r.window
            /\ x.held = r.held /\ x.unacked = r.unacked /\ x.queued = QueuedBytes(r)
            /\ x.sent = l.sent /\ x.fed = l.fed /\ x.resets = l.resets
            /\ x.due = (IF s \in R THEN 1 ELSE 0) /\ x.under = Kinds(w, s)
            /\ x.data = Bytes(w, s, "DATA") /\ x.grants = Bytes(w, s, "WINDOW_UPDATE")
        BY <4>1, ViewFields
      <4> QED
        BY <4>2, Zenon DEF R, w, r
    <3> HIDE DEF v
    <3> QED
      BY <2>0, <2>2, <3>1, NoStreamFields, NewStreamOK
  <2> HIDE DEF v
  <2>4. s >= nextId /\ nextId \in Nat
    BY <1>4, MuxAssumption DEF Sids
  <2>5. Agree(Server, v, v, s, nextId)
    BY <2>3, <2>4, NobodyKnows
  <2> QED
    BY <1>4, <2>1, <2>5, WireEmpty DEF SidOK
<1>10. Protocol
  BY <1>4, <1>9 DEF Protocol, NewMux
<1> QED
  BY <1>2, <1>3, <1>7, <1>8, <1>10 DEF IInv

\* Nothing happens.
LEMMA StutterKeeps ==
    ASSUME IInv, UNCHANGED vars
    PROVE  IInv'
<1>1. UNCHANGED <<stream, mux, wire, nextId, env, log>>
  BY DEF vars
<1>2. SetMux(Server, mux[Server]) /\ mux[Server] \in MuxRecs /\ Server \in Ends
  BY <1>1 DEF SetMux, IInv, MuxTypes, Ends
<1> QED
  BY <1>1, <1>2, SocketKeeps

\* Every step of a task that owns a stream keeps the invariant.
LEMMA StreamTaskKeeps ==
    ASSUME IInv, NEW e \in Ends, NEW s \in Sids, StreamTask(e, s)
    PROVE  IInv'
<1>1. CASE \E n \in env.chunks : StartSend(e, s, n)
  <2>1. env.chunks \subseteq Nat
    BY DEF IInv, EnvTypes
  <2> QED
    BY <1>1, <2>1, StartSendKeeps
<1>2. CASE SendStep(e, s)
  BY <1>2, SendStepKeeps
<1>3. CASE WakeSender(e, s) \/ CreditStall(e, s) \/ CancelSend(e, s) \/ SendEof(e, s)
  BY <1>3, WakeSenderKeeps, CreditStallKeeps, CancelSendKeeps, SendEofKeeps
<1>4. CASE Read(e, s) \/ Ack(e, s)
  BY <1>4, ReadKeeps, AckKeeps
<1>5. CASE Reset(e, s) \/ ResetTask(e, s) \/ Close(e, s) \/ SendOnce(e, s)
  BY <1>5, ResetKeeps, ResetTaskKeeps, CloseKeeps, SendOnceKeeps
<1> QED
  BY <1>1, <1>2, <1>3, <1>4, <1>5 DEF StreamTask

\* Every frame taken off the wire keeps the invariant.
LEMMA DemuxKeeps ==
    ASSUME IInv, NEW e \in Ends, Demux(e)
    PROVE  IInv'
BY RecvOpenKeeps, RecvDataKeeps, RecvEofKeeps, RecvWindowUpdateKeeps, RecvResetKeeps,
   RecvGoawayKeeps, RecvOtherKeeps DEF Demux

\* So does whatever happens to the connection itself.
LEMMA ConnectionKeeps ==
    ASSUME IInv, NEW e \in Ends, Connection(e)
    PROVE  IInv'
BY GoAwayKeeps, DrainCloseKeeps, LoseKeeps, NoticeKeeps, RunEndsKeeps DEF Connection

\* Every step of the multiplexer keeps the invariant.
LEMMA StepHolds ==
    ASSUME IInv, [Next]_vars
    PROVE  IInv'
<1>1. CASE Open
  BY <1>1, OpenKeeps
<1>2. CASE \E e \in Ends : Demux(e) \/ Connection(e)
  BY <1>2, DemuxKeeps, ConnectionKeeps
<1>3. CASE \E e \in Ends, s \in Sids : StreamTask(e, s)
  BY <1>3, StreamTaskKeeps
<1>4. CASE \E j \in Junk : Inject(j[1], j[2])
  <2>1. PICK j \in Junk : Inject(j[1], j[2])
    BY <1>4
  <2>2. j[1] \in Ends /\ j[2] \in Frames
    BY MuxAssumption
  <2> QED
    BY <2>1, <2>2, InjectKeeps
<1>5. CASE UNCHANGED vars
  BY <1>5, StutterKeeps
<1> QED
  BY <1>1, <1>2, <1>3, <1>4, <1>5 DEF Next

\* The inductive invariant holds of every behaviour of the multiplexer: the books are exact
\* whatever arrives, and as long as both ends are chute each stream's two records, the
\* frames between them and the histories agree.
THEOREM InvariantHolds == Spec => []IInv
<1>1. IInv /\ [Next]_vars => IInv'
  BY StepHolds
<1> QED
  BY InitHolds, <1>1, PTL DEF Spec

-----------------------------------------------------------------------------
(* What the invariant says                                                 *)

\* PROTOCOL.md 10, "The buffer counters reconcile on teardown, so they never drift": in every
\* reachable state, whatever frames arrived, the counters of each end of the connection and
\* the account's reservation are what the queues of its live streams hold.
THEOREM CountersNeverDrift == Spec => []CountersReconcile
<1>1. IInv => CountersReconcile
  <2> SUFFICES ASSUME IInv, NEW e \in Ends
               PROVE  /\ mux[e].buffered = SumSeq([s \in Sids |-> IF Live(e, s) THEN QueuedBytes(stream[e][s]) ELSE 0])
                      /\ mux[e].frames = SumSeq([s \in Sids |-> IF Live(e, s) THEN QueuedFrames(stream[e][s]) ELSE 0])
                      /\ mux[e].account = IF e = Server THEN mux[e].buffered ELSE 0
    BY DEF CountersReconcile
  <2>1. ASSUME NEW s \in Sids
        PROVE  /\ (IF Live(e, s) THEN QueuedBytes(stream[e][s]) ELSE 0)
                     = IF Live(e, s) THEN stream[e][s].buffered ELSE 0
               /\ (IF Live(e, s) THEN QueuedFrames(stream[e][s]) ELSE 0)
                     = IF Live(e, s) THEN stream[e][s].frames ELSE 0
    <3>1. StreamOK(stream[e][s])
      BY StreamFacts
    <3> QED
      BY <3>1 DEF StreamOK, Live
  <2>2. [s \in Sids |-> IF Live(e, s) THEN QueuedBytes(stream[e][s]) ELSE 0]
           = [s \in Sids |-> IF Live(e, s) THEN stream[e][s].buffered ELSE 0]
    BY <2>1
  <2>3. [s \in Sids |-> IF Live(e, s) THEN QueuedFrames(stream[e][s]) ELSE 0]
           = [s \in Sids |-> IF Live(e, s) THEN stream[e][s].frames ELSE 0]
    BY <2>1
  <2>4. /\ SumSeq([s \in Sids |-> IF Live(e, s) THEN stream[e][s].buffered ELSE 0]) = mux[e].buffered
        /\ SumSeq([s \in Sids |-> IF Live(e, s) THEN stream[e][s].frames ELSE 0]) = mux[e].frames
    BY LiveHoldAll
  <2>5. mux[e].account = IF e = Server THEN mux[e].buffered ELSE 0
    BY ConnFacts
  <2> QED
    BY <2>2, <2>3, <2>4, <2>5, Zenon
<1> QED
  BY <1>1, InvariantHolds, PTL

\* mux.py, _STREAM_HARD_MAX ("can never false-positive"): what an end has queued is within
\* every limit of _feed whatever arrives, and between two chute ends no stream ever breaches a
\* per-stream limit, because no interleaving mints credit.
THEOREM BuffersStayBounded == Spec => []BuffersBounded
<1>1. IInv => BuffersBounded
  <2> SUFFICES ASSUME IInv, NEW e \in Ends
               PROVE  /\ mux[e].buffered <= MaxConnBuffered /\ mux[e].frames <= MaxConnFrames
                      /\ mux[e].account <= env.account
                      /\ Cardinality(LiveStreams(e)) <= env.maxStreams
                      /\ \A s \in Sids :
                            /\ stream[e][s].buffered <= StreamHardMax
                            /\ stream[e][s].frames <= MaxQueuedFrames
                            /\ stream[e][s].window <= IF Compliant THEN W ELSE MaxSendWindow
                      /\ Compliant => mux[e].breach \cap {"stream_bytes", "stream_frames"} = {}
    BY DEF BuffersBounded
  <2>1. ConnOK(e)
    BY DEF IInv, Books
  <2>2. ASSUME NEW s \in Sids
        PROVE  /\ stream[e][s].buffered <= StreamHardMax
               /\ stream[e][s].frames <= MaxQueuedFrames
               /\ stream[e][s].window <= IF Compliant THEN W ELSE MaxSendWindow
    <3>1. StreamOK(stream[e][s])
      BY StreamFacts
    <3>2. CASE Compliant
      <4> DEFINE v == View(e, s)
                 q == View(Peer(e), s)
      <4>1. LaneOK(v, q) /\ v \in Views /\ q \in Views /\ v.window = stream[e][s].window
        BY <3>2, AgreeNow, ViewNow DEF Agree
      <4> HIDE DEF v, q
      <4> DEFINE a == v.sent - q.fed
                 b == q.queued
                 c == q.held
                 d == q.unacked
                 g == q.grants
                 n == v.window
      <4>2. /\ a \in Nat /\ b \in Nat /\ c \in Nat /\ d \in Nat /\ g \in Nat /\ n \in Nat
            /\ n + a + b + c + d + g <= W
        <5>1. v.sent \in Nat /\ q.fed \in Nat /\ q.fed <= v.sent
          BY <4>1 DEF LaneOK, Views
        <5>2. a \in Nat
          BY <5>1
        <5>3. n + a + b + c + d + g <= IF v.st = "absent" THEN 0 ELSE W
          BY <4>1 DEF LaneOK
        <5>4. b \in Nat /\ c \in Nat /\ d \in Nat /\ g \in Nat /\ n \in Nat
          BY <4>1 DEF Views
        <5> HIDE DEF a, b, c, d, g, n
        <5> QED
          BY <5>2, <5>3, <5>4, MuxAssumption
      <4> HIDE DEF a, b, c, d, g
      <4>3. v.window <= W
        <5> HIDE DEF n
        <5>1. n <= W
          BY <4>2, MuxAssumption
        <5> QED
          BY <5>1 DEF n
      <4> QED
        BY <3>1, <3>2, <4>1, <4>3 DEF StreamOK
    <3>3. CASE ~Compliant
      BY <3>1, <3>3 DEF StreamOK
    <3> QED
      BY <3>2, <3>3
  <2>3. Compliant => mux[e].breach \cap {"stream_bytes", "stream_frames"} = {}
    BY DEF IInv, Protocol
  <2> QED
    BY <2>1, <2>2, <2>3 DEF ConnOK
<1> QED
  BY <1>1, InvariantHolds, PTL

\* A clean end is never a truncation: where a stream reads as EOF, the peer half-closed it and
\* every byte it framed had been queued here.
THEOREM CleanEndsAreComplete == Spec => []EofIsComplete
<1>1. IInv => EofIsComplete
  <2> SUFFICES ASSUME IInv, Compliant, NEW e \in Ends, NEW s \in Sids,
                      stream[e][s].recv = "EOF", stream[Peer(e)][s].st # "absent"
               PROVE  stream[Peer(e)][s].ended /\ log[e][s].fed = log[Peer(e)][s].sent
    BY DEF EofIsComplete
  <2> DEFINE q == View(e, s)
             v == View(Peer(e), s)
  <2>1. Peer(e) \in Ends
    BY PeerFacts
  <2>2. LaneOK(v, q)
    BY AgreeNow DEF Agree
  <2>3. /\ q.recv = stream[e][s].recv /\ q.fed = log[e][s].fed
        /\ v.st = stream[Peer(e)][s].st /\ v.ended = stream[Peer(e)][s].ended
        /\ v.sent = log[Peer(e)][s].sent
    BY <2>1, ViewNow
  <2> HIDE DEF v, q
  <2> QED
    BY <2>2, <2>3 DEF LaneOK
<1> QED
  BY <1>1, InvariantHolds, PTL

\* After its EOF an end sends no DATA on the stream, after its RESET nothing, and it sends at
\* most one RESET (PROTOCOL.md 8, "exactly one RESET frame"), however its tasks interleave.
THEOREM EndsStayQuiet == Spec => []QuietAfterEnd
<1>1. IInv => QuietAfterEnd
  <2> SUFFICES ASSUME IInv, Compliant, NEW e \in Ends
               PROVE  /\ \A i, j \in DOMAIN wire[e] :
                            (i < j /\ wire[e][i].sid = wire[e][j].sid /\ wire[e][i].sid # 0) =>
                               /\ wire[e][i].type = "EOF" => wire[e][j].type \in {"WINDOW_UPDATE", "RESET"}
                               /\ wire[e][i].type # "RESET"
                      /\ \A s \in Sids : log[e][s].resets <= 1
    BY DEF QuietAfterEnd
  <2>1. ASSUME NEW i \in DOMAIN wire[e], NEW j \in DOMAIN wire[e],
               i < j, wire[e][i].sid = wire[e][j].sid, wire[e][i].sid # 0
        PROVE  /\ wire[e][i].type = "EOF" => wire[e][j].type \in {"WINDOW_UPDATE", "RESET"}
               /\ wire[e][i].type # "RESET"
    <3> DEFINE s == wire[e][i].sid
    <3>1. wire[e] \in Seq(Frames)
      BY DEF IInv, MuxTypes
    <3>2. wire[e][i] \in Frames
      BY <3>1
    <3>3. s \in Sids
      <4>1. s \in 0 .. MaxSid /\ s # 0
        BY <2>1, <3>2 DEF Frames
      <4>2. \A x \in 0 .. MaxSid : x # 0 => x \in 1 .. MaxSid
        BY MuxAssumption
      <4> QED
        BY <4>1, <4>2 DEF Sids
    <3>4. Ordered(wire[e], s)
      BY <3>3, AgreeNow
    <3> QED
      BY <2>1, <3>4 DEF Ordered
  <2>2. ASSUME NEW s \in Sids PROVE log[e][s].resets <= 1
    <3>1. SentOK(View(e, s)) /\ View(e, s).resets = log[e][s].resets
      BY AgreeNow, ViewNow DEF Agree
    <3> QED
      BY <3>1 DEF SentOK
  <2> QED
    BY <2>1, <2>2
<1> QED
  BY <1>1, InvariantHolds, PTL

-----------------------------------------------------------------------------
(* Terminals are final                                                     *)

\* From r to z a terminal and the end of a stream stay.
Final(r, z) ==
    /\ r.recv # "OPEN" => z.recv = r.recv
    /\ r.st = "closed" => z.st = "closed"
AllFinal == \A e \in Ends, s \in Sids : Final(stream[e][s], stream'[e][s])

\* It is enough to look at the stream that is replaced.
LEMMA OneFinal ==
    ASSUME IInv, NEW e \in Ends, NEW s \in Sids, NEW z, SetStream(e, s, z), Final(stream[e][s], z)
    PROVE  AllFinal
<1>1. stream \in [Ends -> [Sids -> StreamRecs]]
  BY DEF IInv, MuxTypes
<1>2. /\ stream'[e][s] = z
      /\ \A d \in Ends, x \in Sids : d # e \/ x # s => stream'[d][x] = stream[d][x]
  BY <1>1 DEF SetStream
<1>3. ASSUME NEW d \in Ends, NEW x \in Sids PROVE Final(stream[d][x], stream'[d][x])
  <2>1. CASE d = e /\ x = s
    BY <1>2, <2>1, Zenon
  <2>2. CASE d # e \/ x # s
    <3>1. stream'[d][x] = stream[d][x]
      BY <1>2, <2>2
    <3> QED
      BY <3>1 DEF Final
  <2> QED
    BY <2>1, <2>2
<1> QED
  BY <1>3 DEF AllFinal

\* Nothing to look at.
LEMMA NoneFinal ==
    ASSUME UNCHANGED stream
    PROVE  AllFinal
BY DEF AllFinal, Final

\* The fields a sender uses are not among them.
LEMMA SenderFinal ==
    ASSUME IInv, NEW e \in Ends, NEW s \in Sids,
           \/ \E n \in env.chunks : StartSend(e, s, n)
           \/ SendStep(e, s) \/ WakeSender(e, s) \/ CreditStall(e, s) \/ CancelSend(e, s)
           \/ SendEof(e, s)
    PROVE  AllFinal
<1> DEFINE r == stream[e][s]
<1>0. stream \in [Ends -> [Sids -> StreamRecs]] /\ r \in StreamRecs
  BY DEF IInv, MuxTypes
<1>1. \E z : SetStream(e, s, z) /\ z.st = r.st /\ z.recv = r.recv
  <2>1. ASSUME NEW k, StartSend(e, s, k) PROVE SetStream(e, s, [r EXCEPT !.left = k])
    BY <2>1, Zenon DEF StartSend, SetStream
  <2>2. ASSUME WakeSender(e, s) PROVE SetStream(e, s, [r EXCEPT !.parked = FALSE])
    BY <2>2, Zenon DEF WakeSender, SetStream
  <2>3. ASSUME SendEof(e, s) PROVE SetStream(e, s, [r EXCEPT !.ended = TRUE])
    BY <2>3, Zenon DEF SendEof, SetStream
  <2>4. ASSUME CreditStall(e, s) \/ CancelSend(e, s)
        PROVE  SetStream(e, s, [r EXCEPT !.left = 0, !.parked = FALSE])
    <3>1. stream' = [stream EXCEPT ![e][s].left = 0, ![e][s].parked = FALSE]
      BY <2>4, Zenon DEF CreditStall, CancelSend
    <3> QED
      BY <1>0, <3>1 DEF SetStream, StreamRecs
  <2>5. ASSUME SendStep(e, s)
        PROVE  \/ SetStream(e, s, [r EXCEPT !.left = 0])
               \/ SetStream(e, s, [r EXCEPT !.parked = TRUE, !.waiter = FALSE])
               \/ \E w, k : SetStream(e, s, [r EXCEPT !.window = w, !.left = k])
    <3> DEFINE n == Min({r.left, r.window, MaxFrame})
               w == r.window - n
               k == IF mux[e].ws = "open" THEN r.left - n ELSE 0
    <3>1. \/ stream' = [stream EXCEPT ![e][s].left = 0]
          \/ stream' = [stream EXCEPT ![e][s].parked = TRUE, ![e][s].waiter = FALSE]
          \/ stream' = [stream EXCEPT ![e][s].window = @ - n,
                                      ![e][s].left = IF mux[e].ws = "open" THEN @ - n ELSE 0]
      BY <2>5, Zenon DEF SendStep
    <3>2. CASE stream' = [stream EXCEPT ![e][s].left = 0]
      BY <3>2, Zenon DEF SetStream
    <3>3. CASE stream' = [stream EXCEPT ![e][s].parked = TRUE, ![e][s].waiter = FALSE]
      BY <1>0, <3>3 DEF SetStream, StreamRecs
    <3>4. CASE stream' = [stream EXCEPT ![e][s].window = @ - n,
                                        ![e][s].left = IF mux[e].ws = "open" THEN @ - n ELSE 0]
      <4>1. SetStream(e, s, [r EXCEPT !.window = w, !.left = k])
        <5> HIDE DEF n
        <5> QED
          BY <1>0, <3>4 DEF SetStream, StreamRecs
      <4> QED
        BY <4>1, Zenon
    <3> QED
      BY <3>1, <3>2, <3>3, <3>4
  <2>6. \A a : /\ [r EXCEPT !.left = a].st = r.st /\ [r EXCEPT !.left = a].recv = r.recv
                /\ [r EXCEPT !.parked = a].st = r.st /\ [r EXCEPT !.parked = a].recv = r.recv
                /\ [r EXCEPT !.ended = a].st = r.st /\ [r EXCEPT !.ended = a].recv = r.recv
    BY <1>0 DEF StreamRecs
  <2> HIDE DEF r
  <2>8. CASE \E k \in env.chunks : StartSend(e, s, k)
    <3>1. PICK k \in env.chunks : StartSend(e, s, k)
      BY <2>8
    <3>2. SetStream(e, s, [r EXCEPT !.left = k])
      BY <2>1, <3>1
    <3> QED
      BY <2>6, <3>2, Zenon
  <2>9. CASE WakeSender(e, s)
    BY <2>2, <2>6, <2>9, Zenon
  <2>10. CASE SendEof(e, s)
    BY <2>3, <2>6, <2>10, Zenon
  <2>11. CASE CreditStall(e, s) \/ CancelSend(e, s)
    <3> DEFINE z == [r EXCEPT !.left = 0, !.parked = FALSE]
    <3>1. SetStream(e, s, z)
      BY <2>4, <2>11
    <3>2. z.st = r.st /\ z.recv = r.recv
      BY <1>0 DEF StreamRecs
    <3> HIDE DEF z
    <3> QED
      BY <3>1, <3>2, Zenon
  <2>12. CASE SendStep(e, s)
    <3>1. CASE SetStream(e, s, [r EXCEPT !.left = 0])
      BY <2>6, <3>1, Zenon
    <3>2. CASE SetStream(e, s, [r EXCEPT !.parked = TRUE, !.waiter = FALSE])
      <4> DEFINE z == [r EXCEPT !.parked = TRUE, !.waiter = FALSE]
      <4>1. SetStream(e, s, z)
        BY <3>2
      <4>2. z.st = r.st /\ z.recv = r.recv
        BY <1>0 DEF StreamRecs
      <4> HIDE DEF z
      <4> QED
        BY <4>1, <4>2, Zenon
    <3>3. ASSUME NEW w, NEW k, SetStream(e, s, [r EXCEPT !.window = w, !.left = k])
          PROVE  \E z : SetStream(e, s, z) /\ z.st = r.st /\ z.recv = r.recv
      <4> DEFINE z == [r EXCEPT !.window = w, !.left = k]
      <4>1. SetStream(e, s, z)
        BY <3>3
      <4>2. z.st = r.st /\ z.recv = r.recv
        BY <1>0 DEF StreamRecs
      <4> HIDE DEF z
      <4> QED
        BY <4>1, <4>2, Zenon
    <3> QED
      BY <2>5, <2>12, <3>1, <3>2, <3>3
  <2> QED
    BY <2>8, <2>9, <2>10, <2>11, <2>12
<1>2. PICK z : SetStream(e, s, z) /\ z.st = r.st /\ z.recv = r.recv
  BY <1>1
<1>3. Final(r, z)
  BY <1>2 DEF Final
<1> QED
  BY <1>2, <1>3, OneFinal

\* Nor are those of a consumer.
LEMMA ConsumerFinal ==
    ASSUME IInv, NEW e \in Ends, NEW s \in Sids, Read(e, s) \/ Ack(e, s)
    PROVE  AllFinal
<1> DEFINE r == stream[e][s]
<1>1. r \in StreamRecs /\ StreamOK(r)
  BY StreamFacts
<1>2. CASE Read(e, s)
  <2> DEFINE n == Head(r.incoming)
             taken == [r EXCEPT !.incoming = Tail(@), !.held = n, !.over = n = None]
             counted == n # None /\ r.st = "live"
             z == IF counted THEN [taken EXCEPT !.buffered = @ - n, !.frames = @ - 1] ELSE taken
  <2>1. r.incoming # <<>> /\ SetStream(e, s, z)
    BY <1>2, Zenon DEF Read, Counted, SetStream
  <2>2. z \in StreamRecs /\ z.st = r.st /\ z.recv = r.recv
    BY <1>1, <2>1, ReadRecord
  <2> HIDE DEF z
  <2>3. Final(r, z)
    BY <2>2 DEF Final
  <2> QED
    BY <2>1, <2>2, <2>3, OneFinal
<1>3. CASE Ack(e, s)
  <2> DEFINE z == Acked(r)
  <2>1. SetStream(e, s, z)
    BY <1>3, Zenon DEF Ack, SetStream
  <2>2. z \in StreamRecs /\ z.st = r.st /\ z.recv = r.recv
    <3> DEFINE u == r.unacked + r.held
    <3>1. u \in Nat /\ 0 \in Nat
      BY <1>1 DEF StreamRecs
    <3>2. \/ z = [r EXCEPT !.held = 0] \/ z = [r EXCEPT !.held = 0, !.unacked = 0]
          \/ z = [r EXCEPT !.held = 0, !.unacked = u]
      BY <1>1 DEF Acked, StreamRecs
    <3> HIDE DEF u, z
    <3> QED
      BY <1>1, <3>1, <3>2 DEF StreamRecs
  <2> HIDE DEF z
  <2>3. Final(r, z)
    BY <2>2 DEF Final
  <2> QED
    BY <2>1, <2>2, <2>3, OneFinal
<1> QED
  BY <1>2, <1>3

\* A teardown keeps a terminal that is there.
LEMMA TeardownFinal ==
    ASSUME IInv, NEW e \in Ends, NEW s \in Sids, NEW t \in {"EOF", "RESET"},
           \/ SetStream(e, s, Closed(stream[e][s], t))
           \/ SetStream(e, s, [Closed(stream[e][s], t) EXCEPT !.resetTask = FALSE])
    PROVE  AllFinal
<1> DEFINE r == stream[e][s]
<1>1. r \in StreamRecs /\ StreamOK(r)
  BY StreamFacts
<1>2. PICK z : SetStream(e, s, z) /\ (z = Closed(r, t) \/ z = [Closed(r, t) EXCEPT !.resetTask = FALSE])
  OBVIOUS
<1>3. CASE r.st = "live"
  <2>1. TornDownTo(z, r, t)
    BY <1>1, <1>2, <1>3, ClosedRecord
  <2>2. z \in StreamRecs /\ Final(r, z)
    BY <2>1 DEF TornDownTo, Final
  <2> QED
    BY <1>2, <2>2, OneFinal
<1>4. CASE r.st # "live"
  <2>1. z = r \/ z = [r EXCEPT !.resetTask = FALSE]
    BY <1>2, <1>4 DEF Closed
  <2>2. z \in StreamRecs /\ Final(r, z)
    BY <1>1, <2>1 DEF StreamRecs, Final
  <2> QED
    BY <1>2, <2>2, OneFinal
<1> QED
  BY <1>3, <1>4

\* So does the end of run().
LEMMA StopFinal ==
    ASSUME IInv, NEW e \in Ends, NEW m, StopRun(e, m)
    PROVE  AllFinal
<1>1. stream' = [stream EXCEPT ![e] = [s \in Sids |-> Stopped(stream[e][s])]]
  BY Zenon DEF StopRun, Stopped
<1>2. stream \in [Ends -> [Sids -> StreamRecs]]
  BY DEF IInv, MuxTypes
<1>3. ASSUME NEW d \in Ends, NEW x \in Sids PROVE Final(stream[d][x], stream'[d][x])
  <2>1. CASE d = e
    <3>1. stream'[d][x] = Stopped(stream[d][x])
      BY <1>1, <1>2, <2>1
    <3>2. stream[d][x] \in StreamRecs /\ StreamOK(stream[d][x])
      BY StreamFacts
    <3>3. LET z == Stopped(stream[d][x])
              r == stream[d][x]
          IN /\ z.st = (IF r.st = "live" THEN "closed" ELSE r.st)
             /\ z.recv = (IF r.st = "live" /\ r.recv = "OPEN" THEN "RESET" ELSE r.recv)
      BY <3>2, StoppedRecord
    <3> QED
      BY <3>1, <3>3 DEF Final
  <2>2. CASE d # e
    <3>1. stream'[d][x] = stream[d][x]
      BY <1>1, <1>2, <2>2
    <3> QED
      BY <3>1 DEF Final
  <2> QED
    BY <2>1, <2>2
<1> QED
  BY <1>3 DEF AllFinal

\* Only an id nobody has used is opened.
LEMMA OpenFinal ==
    ASSUME IInv, Open
    PROVE  AllFinal
<1> DEFINE s == nextId
           r == stream[Server][s]
<1>1. s \in Sids /\ Server \in Ends
  BY MuxAssumption DEF Open, IInv, MuxTypes, Sids, Ends
<1>2. r.st = "absent"
  BY <1>1 DEF IInv, Fresh, Sids
<1>3. r.recv = "OPEN"
  BY <1>1, <1>2, StreamFacts, NoStreamFields
<1>4. \A z : Final(r, z)
  BY <1>2, <1>3 DEF Final
<1>5. PICK z : SetStream(Server, s, z) /\ z \in StreamRecs
  <2>1. SetStream(Server, s, IF mux[Server].ws = "open" THEN NewStream ELSE Closed(NewStream, "EOF"))
    BY Zenon DEF Open, SetStream
  <2>2. NewStream \in StreamRecs /\ Closed(NewStream, "EOF") \in StreamRecs
    BY NoStreamFields, NewStreamOK, ClosedRecord DEF TornDownTo
  <2> QED
    BY <2>1, <2>2
<1> HIDE DEF r, s
<1>6. Final(stream[Server][s], z)
  BY <1>4 DEF r
<1> QED
  BY <1>1, <1>5, <1>6, OneFinal

\* No frame reopens a stream or replaces its terminal: an OPEN is only under way for an id
\* the agent has not seen.
LEMMA DemuxFinal ==
    ASSUME IInv, NEW e \in Ends, Demux(e), Compliant
    PROVE  AllFinal
<1> DEFINE f == Arrived(e)
           s == f.sid
           r == stream[e][s]
<1>0. wire[Peer(e)] # <<>>
  BY DEF Demux, RecvOpen, RecvData, RecvEof, RecvWindowUpdate, RecvReset, RecvGoaway, RecvOther, Arrives
<1>1. s # 0 => s \in Sids /\ r \in StreamRecs /\ StreamOK(r)
  BY <1>0, ArrivedIs, StreamFacts
<1>2. Known(e, s) => s # 0 /\ r.st = "live"
  BY DEF Known, Live, Sids
<1>3. CASE IgnoreFrame(e)
  <2>1. UNCHANGED stream \/ \E m : StopRun(e, m)
    BY <1>3, Zenon DEF IgnoreFrame
  <2> QED
    BY <2>1, NoneFinal, StopFinal
<1>4. CASE UNCHANGED stream
  BY <1>4, NoneFinal
<1>5. CASE Known(e, s) /\ (RefuseStream(e, s) \/ CloseLocal(e, s, "RESET"))
  <2>1. SetStream(e, s, Closed(r, "RESET"))
    BY <1>5, Zenon DEF RefuseStream, CloseLocal, SetStream
  <2> QED
    BY <1>1, <1>2, <1>5, <2>1, TeardownFinal
<1>6. CASE RecvOpen(e) /\ s # 0 /\ SetStream(e, s, NewStream)
  <2>1. f.type = "OPEN" /\ f \in Frames /\ wire[Peer(e)] \in Seq(Frames)
    BY <1>0, <1>6, PeerFacts DEF RecvOpen, Arrives, Arrived, IInv, MuxTypes
  <2>2. Has(wire[Peer(e)], s, "OPEN")
    <3>1. 1 \in DOMAIN wire[Peer(e)] /\ wire[Peer(e)][1] = f
      BY <1>0, <2>1 DEF Arrived
    <3> QED
      BY <2>1, <3>1 DEF Has
  <2>3. "OPEN" \in View(Peer(e), s).under
    BY <1>1, <1>6, <2>2, PeerFacts, ViewNow DEF Kinds, FrameTypes
  <2>4. View(e, s).st = r.st /\ IdsOK(e, View(e, s), View(Peer(e), s), s, nextId)
    BY <1>1, <1>6, ViewNow, AgreeNow DEF Agree
  <2>5. r.st = "absent"
    BY <2>3, <2>4 DEF IdsOK
  <2>6. r.recv = "OPEN"
    BY <1>1, <1>6, <2>5, NoStreamFields DEF StreamOK
  <2>7. Final(r, NewStream)
    BY <2>5, <2>6 DEF Final
  <2> QED
    BY <1>1, <1>6, <2>7, NoStreamFields, OneFinal
<1>7. CASE Known(e, s) /\ SetStream(e, s, EndRecv(r, "EOF"))
  <2> DEFINE z == EndRecv(r, "EOF")
  <2>1. z \in StreamRecs /\ z.st = r.st /\ z.recv = (IF r.recv = "OPEN" THEN "EOF" ELSE r.recv)
    BY <1>1, <1>2, <1>7, EndRecvRecord
  <2> HIDE DEF z
  <2>2. Final(r, z)
    BY <2>1 DEF Final
  <2> QED
    BY <1>1, <1>2, <1>7, <2>1, <2>2, OneFinal DEF z
<1>8. CASE Known(e, s) /\ r.recv = "OPEN" /\ Feed(e, s, f.n)
  <2>1. \A z : Final(r, z)
    BY <1>2, <1>8 DEF Final
  <2>2. \A d \in Ends, x \in Sids : d # e \/ x # s => stream'[d][x] = stream[d][x]
    <3>1. stream \in [Ends -> [Sids -> StreamRecs]]
      BY DEF IInv, MuxTypes
    <3>2. \E z : stream' = [stream EXCEPT ![e][s] = z]
      <4>1. CASE Breach(e, s, f.n) = "none"
        <5> DEFINE n == f.n
        <5>1. stream' = [stream EXCEPT ![e][s].incoming = Append(@, n),
                                       ![e][s].buffered = @ + n, ![e][s].frames = @ + 1]
          BY <1>8, <4>1, Zenon DEF Feed
        <5> HIDE DEF n
        <5>2. stream' = [stream EXCEPT ![e][s] =
                 [r EXCEPT !.incoming = Append(@, n), !.buffered = @ + n, !.frames = @ + 1]]
          BY <1>1, <1>2, <1>8, <3>1, <5>1 DEF StreamRecs
        <5> QED
          BY <5>2
      <4>2. CASE Breach(e, s, f.n) # "none"
        <5>1. stream' = [stream EXCEPT ![e][s] = [EndRecv(@, "RESET") EXCEPT !.resetTask = TRUE]]
          BY <1>8, <4>2, Zenon DEF Feed
        <5> QED
          BY <5>1, Zenon
      <4> QED
        BY <4>1, <4>2
    <3> QED
      BY <1>1, <1>2, <1>8, <3>1, <3>2
  <2>3. ASSUME NEW d \in Ends, NEW x \in Sids PROVE Final(stream[d][x], stream'[d][x])
    <3>1. CASE d = e /\ x = s
      BY <2>1, <3>1, Zenon
    <3>2. CASE d # e \/ x # s
      <4>1. stream'[d][x] = stream[d][x]
        BY <2>2, <3>2
      <4> QED
        BY <4>1 DEF Final
    <3> QED
      BY <3>1, <3>2
  <2> QED
    BY <2>3 DEF AllFinal
<1>9. CASE Known(e, s) /\ SetStream(e, s, Granted(r, f.n))
  <2> DEFINE w == Min({r.window + f.n, MaxSendWindow})
             z == Granted(r, f.n)
  <2>1. z = [r EXCEPT !.window = w, !.waiter = TRUE]
    BY Zenon DEF Granted
  <2>2. w \in Nat
    <3>1. r.window \in Nat /\ f.n \in Nat /\ MaxSendWindow \in Nat
      BY <1>0, <1>1, <1>2, <1>9, ArrivedIs, MuxAssumption DEF StreamRecs
    <3>2. r.window + f.n \in Nat
      BY <3>1
    <3> QED
      BY <3>1, <3>2, MinIs
  <2> HIDE DEF w, z
  <2>3. z \in StreamRecs /\ Final(r, z)
    BY <1>1, <1>2, <1>9, <2>1, <2>2 DEF StreamRecs, Final
  <2> QED
    BY <1>1, <1>2, <1>9, <2>3, OneFinal DEF z
<1>10. \/ IgnoreFrame(e) \/ UNCHANGED stream
       \/ Known(e, s) /\ (RefuseStream(e, s) \/ CloseLocal(e, s, "RESET"))
       \/ RecvOpen(e) /\ s # 0 /\ SetStream(e, s, NewStream)
       \/ Known(e, s) /\ SetStream(e, s, EndRecv(r, "EOF"))
       \/ Known(e, s) /\ r.recv = "OPEN" /\ Feed(e, s, f.n)
       \/ Known(e, s) /\ SetStream(e, s, Granted(r, f.n))
  <2>1. CASE RecvOpen(e)
    BY <2>1, Zenon DEF RecvOpen, RefuseOpen, SetStream
  <2>2. CASE RecvData(e)
    BY <2>2, Zenon DEF RecvData
  <2>3. CASE RecvEof(e)
    BY <2>3, Zenon DEF RecvEof, SetStream
  <2>4. CASE RecvWindowUpdate(e)
    BY <2>4, Zenon DEF RecvWindowUpdate, SetStream
  <2>5. CASE RecvReset(e)
    BY <2>5, Zenon DEF RecvReset
  <2>6. CASE RecvGoaway(e) \/ RecvOther(e)
    BY <2>6, Zenon DEF RecvGoaway, RecvOther
  <2> QED
    BY <2>1, <2>2, <2>3, <2>4, <2>5, <2>6 DEF Demux
<1> QED
  BY <1>3, <1>4, <1>5, <1>6, <1>7, <1>8, <1>9, <1>10

\* PROTOCOL.md 6.3: between chute ends no step replaces a stream's terminal, and none brings a
\* closed stream back, so a late RESET never rewrites a delivered EOF and an id is used once.
THEOREM TerminalsStay == Spec => TerminalsAreFinal
<1>1. ASSUME IInv, [Next]_vars, Compliant' PROVE AllFinal
  <2>1. CASE Open
    BY <1>1, <2>1, OpenFinal
  <2>2. ASSUME NEW e \in Ends, Demux(e) PROVE AllFinal
    <3>1. Compliant
      <4>1. UNCHANGED env
        BY <2>2 DEF Demux, RecvOpen, RecvData, RecvEof, RecvWindowUpdate, RecvReset, RecvGoaway, RecvOther
      <4> QED
        BY <1>1, <4>1 DEF Compliant
    <3> QED
      BY <1>1, <2>2, <3>1, DemuxFinal
  <2>3. ASSUME NEW e \in Ends, Connection(e) PROVE AllFinal
    <3>1. UNCHANGED stream \/ \E m : StopRun(e, m)
      BY <2>3, Zenon DEF Connection, GoAway, DrainClose, Lose, Notice, RunEnds
    <3> QED
      BY <1>1, <3>1, NoneFinal, StopFinal
  <2>4. ASSUME NEW e \in Ends, NEW s \in Sids, StreamTask(e, s) PROVE AllFinal
    <3>1. CASE Reset(e, s) \/ ResetTask(e, s) \/ Close(e, s)
      <4>1. \E t \in {"EOF", "RESET"} :
               \/ SetStream(e, s, Closed(stream[e][s], t))
               \/ SetStream(e, s, [Closed(stream[e][s], t) EXCEPT !.resetTask = FALSE])
        <5>1. CASE Reset(e, s)
          BY <5>1, Zenon DEF Reset, ResetNow, CloseLocal, SetStream
        <5>2. CASE ResetTask(e, s)
          BY <5>2, Zenon DEF ResetTask, SetStream
        <5>3. CASE Close(e, s)
          BY <5>3, Zenon DEF Close, CloseNow, CloseLocal, SetStream
        <5> QED
          BY <3>1, <5>1, <5>2, <5>3
      <4> QED
        BY <1>1, <4>1, TeardownFinal
    <3>2. CASE SendOnce(e, s)
      BY <3>2, NoneFinal DEF SendOnce
    <3>3. CASE Read(e, s) \/ Ack(e, s)
      BY <1>1, <3>3, ConsumerFinal
    <3> QED
      BY <1>1, <2>4, <3>1, <3>2, <3>3, SenderFinal DEF StreamTask
  <2>5. CASE \E j \in Junk : Inject(j[1], j[2])
    BY <2>5, NoneFinal DEF Inject
  <2>6. CASE UNCHANGED vars
    BY <2>6, NoneFinal DEF vars
  <2> QED
    BY <1>1, <2>1, <2>2, <2>3, <2>4, <2>5, <2>6 DEF Next
<1>2. IInv /\ [Next]_vars =>
        [Compliant' => \A e \in Ends, s \in Sids :
           /\ stream[e][s].recv # "OPEN" => stream'[e][s].recv = stream[e][s].recv
           /\ stream[e][s].st = "closed" => stream'[e][s].st = "closed"]_vars
  BY <1>1 DEF AllFinal, Final
<1> QED
  BY <1>2, InvariantHolds, PTL DEF Spec, TerminalsAreFinal

-----------------------------------------------------------------------------
(* Every direction of every stream is a lane                               *)

\* Where the credit of the lane from e to its peer is.
Purse(e, s) ==
    [window |-> stream[e][s].window,
     wire |-> Bytes(wire[e], s, "DATA"), wireFrames |-> Count(wire[e], s, "DATA"),
     queued |-> stream[Peer(e)][s].buffered, qFrames |-> stream[Peer(e)][s].frames,
     held |-> stream[Peer(e)][s].held, unacked |-> stream[Peer(e)][s].unacked,
     grants |-> Bytes(wire[Peer(e)], s, "WINDOW_UPDATE")]

\* The parts of a purse, and what the steps of a lane do to them.
SameWindow(p, z) == z.window = p.window
SameWire(p, z) == z.wire = p.wire /\ z.wireFrames = p.wireFrames
SameQueue(p, z) == z.queued = p.queued /\ z.qFrames = p.qFrames
SameDebts(p, z) == z.unacked = p.unacked /\ z.grants = p.grants
Spends(p, z) ==
    \E n \in 1 .. W :
        /\ n <= p.window /\ n <= MaxFrame
        /\ z.window = p.window - n /\ z.wire = p.wire + n /\ z.wireFrames = p.wireFrames + 1
        /\ SameQueue(p, z) /\ z.held = p.held /\ SameDebts(p, z)
Delivers(p, z) ==
    \E n \in 1 .. W :
        /\ p.wireFrames > 0 /\ n <= p.wire - (p.wireFrames - 1)
        /\ p.wireFrames = 1 => n = p.wire
        /\ p.queued + n <= StreamHardMax /\ p.qFrames + 1 <= MaxQueuedFrames
        /\ z.wire = p.wire - n /\ z.wireFrames = p.wireFrames - 1
        /\ z.queued = p.queued + n /\ z.qFrames = p.qFrames + 1
        /\ SameWindow(p, z) /\ z.held = p.held /\ SameDebts(p, z)
Consumes(p, z) ==
    \E n \in 1 .. W :
        /\ p.held = 0 /\ p.qFrames > 0
        /\ n <= p.queued - (p.qFrames - 1)
        /\ p.qFrames = 1 => n = p.queued
        /\ z.queued = p.queued - n /\ z.qFrames = p.qFrames - 1 /\ z.held = n
        /\ SameWindow(p, z) /\ SameWire(p, z) /\ SameDebts(p, z)
Returns(p, z) ==
    /\ p.held > 0 /\ z.held = 0
    /\ \/ /\ p.unacked + p.held < Threshold
          /\ z.unacked = p.unacked + p.held /\ z.grants = p.grants
       \/ /\ p.unacked + p.held >= Threshold
          /\ z.unacked = 0 /\ z.grants = p.grants + p.unacked + p.held
    /\ SameWindow(p, z) /\ SameWire(p, z) /\ SameQueue(p, z)
Recovers(p, z) ==
    \E n \in 1 .. W :
        /\ n <= p.grants /\ z.grants = p.grants - n /\ z.window = p.window + n
        /\ SameWire(p, z) /\ SameQueue(p, z) /\ z.held = p.held /\ z.unacked = p.unacked
Rests(p, z) ==
    SameWindow(p, z) /\ SameWire(p, z) /\ SameQueue(p, z) /\ z.held = p.held /\ SameDebts(p, z)
Flows(p, z) ==
    \/ Rests(p, z)
    \/ Spends(p, z) \/ Delivers(p, z) \/ Consumes(p, z) \/ Returns(p, z) \/ Recovers(p, z)

\* A lane begins with one window of credit.
Whole(z) ==
    /\ z.window = W /\ z.wire = 0 /\ z.wireFrames = 0 /\ z.queued = 0 /\ z.qFrames = 0
    /\ z.held = 0 /\ z.unacked = 0 /\ z.grants = 0

LaneStep(e, s) == Lane(e, s)!Next \/ UNCHANGED Lane(e, s)!vars

\* The mapping of a lane that is live, and of one that is not.
Mapped(e, s, p) ==
    /\ LanePhase(e, s) = "live" /\ Amount(e, s, stream[e][s].window) = p.window
    /\ Amount(e, s, Bytes(wire[e], s, "DATA")) = p.wire
    /\ Amount(e, s, Count(wire[e], s, "DATA")) = p.wireFrames
    /\ Amount(e, s, stream[Peer(e)][s].buffered) = p.queued
    /\ Amount(e, s, stream[Peer(e)][s].frames) = p.qFrames
    /\ Amount(e, s, stream[Peer(e)][s].held) = p.held
    /\ Amount(e, s, stream[Peer(e)][s].unacked) = p.unacked
    /\ Amount(e, s, Bytes(wire[Peer(e)], s, "WINDOW_UPDATE")) = p.grants
MappedNull(e, s, phase) ==
    /\ LanePhase(e, s) = phase /\ Amount(e, s, stream[e][s].window) = 0
    /\ Amount(e, s, Bytes(wire[e], s, "DATA")) = 0
    /\ Amount(e, s, Count(wire[e], s, "DATA")) = 0
    /\ Amount(e, s, stream[Peer(e)][s].buffered) = 0
    /\ Amount(e, s, stream[Peer(e)][s].frames) = 0
    /\ Amount(e, s, stream[Peer(e)][s].held) = 0
    /\ Amount(e, s, stream[Peer(e)][s].unacked) = 0
    /\ Amount(e, s, Bytes(wire[Peer(e)], s, "WINDOW_UPDATE")) = 0

\* Which of them it is.
LEMMA MappedNow ==
    ASSUME NEW e, NEW s
    PROVE  /\ LaneLive(e, s) => Mapped(e, s, Purse(e, s))
           /\ ~LaneLive(e, s) => MappedNull(e, s, IF stream[e][s].st = "absent" THEN "new" ELSE "dead")
<1>1. LaneLive(e, s) => stream[e][s].st # "absent"
  BY DEF LaneLive, Live
<1> QED
  BY <1>1, Zenon DEF LanePhase, Amount, Purse, Mapped, MappedNull

\* The same after a step.
LEMMA MappedThen ==
    ASSUME NEW e, NEW s
    PROVE  /\ LaneLive(e, s)' => Mapped(e, s, Purse(e, s))'
           /\ ~LaneLive(e, s)' => MappedNull(e, s, IF stream[e][s].st = "absent" THEN "new" ELSE "dead")'
<1>1. LaneLive(e, s)' => stream'[e][s].st # "absent"
  BY DEF LaneLive, Live
<1> QED
  BY <1>1, Zenon DEF LanePhase, Amount, Purse, Mapped, MappedNull

\* A live lane flows.
LEMMA LaneFlows ==
    ASSUME NEW e, NEW s, NEW p, NEW z, Mapped(e, s, p), Mapped(e, s, z)', Flows(p, z)
    PROVE  LaneStep(e, s)
<1>1. CASE Rests(p, z)
  BY <1>1 DEF Rests, SameWindow, SameWire, SameQueue, SameDebts, Mapped, LaneStep, Lane!vars
<1>2. CASE Spends(p, z)
  BY <1>2 DEF Spends, SameQueue, SameDebts, Mapped, LaneStep, Lane!Next, Lane!Sizes, Lane!Send
<1>3. CASE Delivers(p, z)
  BY <1>3 DEF Delivers, SameWindow, SameDebts, Mapped, LaneStep, Lane!Next, Lane!Sizes, Lane!Feed,
     StreamHardMax, MaxQueuedFrames, Lane!StreamHardMax, Lane!MaxQueuedFrames
<1>4. CASE Consumes(p, z)
  BY <1>4 DEF Consumes, SameWindow, SameWire, SameDebts, Mapped, LaneStep, Lane!Next, Lane!Sizes, Lane!Read
<1>5. CASE Returns(p, z)
  BY <1>5 DEF Returns, SameWindow, SameWire, SameQueue, Mapped, LaneStep, Lane!Next, Lane!Ack,
     Threshold, Lane!Threshold
<1>6. CASE Recovers(p, z)
  BY <1>6 DEF Recovers, SameWire, SameQueue, Mapped, LaneStep, Lane!Next, Lane!Sizes, Lane!Grant
<1> QED
  BY <1>1, <1>2, <1>3, <1>4, <1>5, <1>6 DEF Flows

\* A lane begins, ends, or stays what it is.
LEMMA LaneBegins ==
    ASSUME NEW e, NEW s, NEW z, MappedNull(e, s, "new"), Mapped(e, s, z)', Whole(z)
    PROVE  LaneStep(e, s)
BY DEF Whole, Mapped, MappedNull, LaneStep, Lane!Next, Lane!Open
LEMMA LaneEnds ==
    ASSUME NEW e, NEW s, MappedNull(e, s, "new") \/ \E p : Mapped(e, s, p), MappedNull(e, s, "dead")'
    PROVE  LaneStep(e, s)
BY DEF Mapped, MappedNull, LaneStep, Lane!Next, Lane!Die, Lane!Forget
LEMMA LaneStays ==
    ASSUME NEW e, NEW s, NEW phase, MappedNull(e, s, phase), MappedNull(e, s, phase)'
    PROVE  LaneStep(e, s)
BY DEF MappedNull, LaneStep, Lane!vars

\* What there is to show about a lane over a step.
LEMMA LaneDecides ==
    ASSUME NEW e \in Ends, NEW s \in Sids,
           LaneLive(e, s)' => LaneLive(e, s) \/ stream[e][s].st = "absent",
           stream[e][s].st # "absent" => stream'[e][s].st # "absent",
           LaneLive(e, s) /\ LaneLive(e, s)' => Flows(Purse(e, s), Purse(e, s)'),
           stream[e][s].st = "absent" /\ LaneLive(e, s)' => Whole(Purse(e, s)')
    PROVE  LaneStep(e, s)
<1>1. PICK p : p = Purse(e, s)
  OBVIOUS
<1>2. PICK z : z = Purse(e, s)'
  OBVIOUS
<1>3. /\ LaneLive(e, s) => Mapped(e, s, p)
      /\ ~LaneLive(e, s) => MappedNull(e, s, IF stream[e][s].st = "absent" THEN "new" ELSE "dead")
  BY <1>1, MappedNow
<1>4. /\ LaneLive(e, s)' => Mapped(e, s, Purse(e, s))'
      /\ ~LaneLive(e, s)' => MappedNull(e, s, IF stream[e][s].st = "absent" THEN "new" ELSE "dead")'
  BY MappedThen
<1>5. LaneLive(e, s)' => Mapped(e, s, z)'
  BY <1>2, <1>4, Zenon DEF Mapped
<1>6. ~LaneLive(e, s)' => /\ stream'[e][s].st = "absent" => MappedNull(e, s, "new")'
                          /\ stream'[e][s].st # "absent" => MappedNull(e, s, "dead")'
  BY <1>4, Zenon DEF MappedNull
<1>7. ~LaneLive(e, s) => /\ stream[e][s].st = "absent" => MappedNull(e, s, "new")
                         /\ stream[e][s].st # "absent" => MappedNull(e, s, "dead")
  BY <1>3, Zenon DEF MappedNull
<1>8. LaneLive(e, s) => stream[e][s].st # "absent"
  BY DEF LaneLive, Live
<1>9. CASE LaneLive(e, s) /\ LaneLive(e, s)'
  <2>1. Mapped(e, s, p) /\ Mapped(e, s, z)' /\ Flows(p, z)
    BY <1>1, <1>2, <1>3, <1>5, <1>9
  <2> QED
    BY <2>1, LaneFlows
<1>10. CASE LaneLive(e, s) /\ ~LaneLive(e, s)'
  <2>1. Mapped(e, s, p) /\ MappedNull(e, s, "dead")'
    BY <1>3, <1>6, <1>8, <1>10
  <2> QED
    BY <2>1, LaneEnds
<1>11. CASE ~LaneLive(e, s) /\ LaneLive(e, s)'
  <2>1. MappedNull(e, s, "new") /\ Mapped(e, s, z)' /\ Whole(z)
    BY <1>2, <1>5, <1>7, <1>11
  <2> QED
    BY <2>1, LaneBegins
<1>12. CASE ~LaneLive(e, s) /\ ~LaneLive(e, s)'
  <2>1. CASE stream[e][s].st # "absent"
    BY <1>6, <1>7, <1>12, <2>1, LaneStays
  <2>2. CASE stream[e][s].st = "absent" /\ stream'[e][s].st = "absent"
    BY <1>6, <1>7, <1>12, <2>2, LaneStays
  <2>3. CASE stream[e][s].st = "absent" /\ stream'[e][s].st # "absent"
    BY <1>6, <1>7, <1>12, <2>3, LaneEnds
  <2> QED
    BY <2>1, <2>2, <2>3
<1> QED
  BY <1>9, <1>10, <1>11, <1>12

-----------------------------------------------------------------------------
(* The number of frames under way                                          *)

\* The ones Count adds up.
Hit(f, s, t) == IF f.sid = s /\ f.type = t THEN 1 ELSE 0
Hits(w, s, t) == [i \in DOMAIN w |-> IF w[i].sid = s /\ w[i].type = t THEN 1 ELSE 0]

\* They are a sequence of numbers.
LEMMA HitsType ==
    ASSUME NEW w \in Seq(Frames), NEW s, NEW t
    PROVE  /\ Hits(w, s, t) \in Seq(Nat) /\ Len(Hits(w, s, t)) = Len(w)
           /\ \A i \in 1 .. Len(w) : Hits(w, s, t)[i] = Hit(w[i], s, t)
           /\ Count(w, s, t) = SumSeq(Hits(w, s, t))
<1>1. \A f : Hit(f, s, t) \in Nat
  BY DEF Hit
<1>2. DOMAIN w = 1 .. Len(w) /\ Len(w) \in Nat
  OBVIOUS
<1>3. Hits(w, s, t) = [i \in 1 .. Len(w) |-> Hit(w[i], s, t)]
  BY <1>2, Zenon DEF Hits, Hit
<1>4. Count(w, s, t) = SumSeq(Hits(w, s, t))
  BY Zenon DEF Count, Hits
<1> QED
  BY <1>1, <1>2, <1>3, <1>4

\* A frame is sent, the oldest one is taken.
LEMMA CountAppend ==
    ASSUME NEW w \in Seq(Frames), NEW f \in Frames, NEW s, NEW t
    PROVE  Count(Append(w, f), s, t) = Count(w, s, t) + Hit(f, s, t)
<1> DEFINE v == Append(w, f)
           q == Hits(w, s, t)
           z == Hits(v, s, t)
           h == Hit(f, s, t)
<1>1. /\ v \in Seq(Frames) /\ Len(v) = Len(w) + 1 /\ v[Len(w) + 1] = f /\ Len(w) \in Nat
      /\ \A i \in 1 .. Len(w) : v[i] = w[i]
  OBVIOUS
<1>2. h \in Nat
  BY DEF Hit
<1> HIDE DEF v
<1>3. q \in Seq(Nat) /\ Len(q) = Len(w) /\ Count(w, s, t) = SumSeq(q) /\ \A i \in 1 .. Len(w) : q[i] = Hit(w[i], s, t)
  BY HitsType
<1>4. z \in Seq(Nat) /\ Len(z) = Len(v) /\ Count(v, s, t) = SumSeq(z) /\ \A i \in 1 .. Len(v) : z[i] = Hit(v[i], s, t)
  BY <1>1, HitsType
<1> HIDE DEF q, z
<1>5. \A i \in 1 .. Len(w) : z[i] = q[i]
  BY <1>1, <1>3, <1>4
<1>6. z[Len(w) + 1] = h
  BY <1>1, <1>4
<1> HIDE DEF h
<1>7. z = Append(q, h)
  BY <1>1, <1>2, <1>3, <1>4, <1>5, <1>6
<1> QED
  BY <1>2, <1>3, <1>4, <1>7, SumAppend DEF v, h

LEMMA CountTail ==
    ASSUME NEW w \in Seq(Frames), w # <<>>, NEW s, NEW t
    PROVE  Count(w, s, t) = Hit(Head(w), s, t) + Count(Tail(w), s, t)
<1> DEFINE v == Tail(w)
           q == Hits(w, s, t)
           z == Hits(v, s, t)
<1>1. /\ v \in Seq(Frames) /\ Len(v) = Len(w) - 1 /\ Head(w) = w[1] /\ Len(w) \in Nat \ {0}
      /\ \A i \in 1 .. Len(v) : v[i] = w[i + 1]
  OBVIOUS
<1> HIDE DEF v
<1>2. q \in Seq(Nat) /\ Len(q) = Len(w) /\ Count(w, s, t) = SumSeq(q) /\ \A i \in 1 .. Len(w) : q[i] = Hit(w[i], s, t)
  BY HitsType
<1>3. z \in Seq(Nat) /\ Len(z) = Len(v) /\ Count(v, s, t) = SumSeq(z) /\ \A i \in 1 .. Len(v) : z[i] = Hit(v[i], s, t)
  BY <1>1, HitsType
<1> HIDE DEF q, z
<1>4. q # <<>> /\ q[1] = Hit(Head(w), s, t)
  BY <1>1, <1>2
<1>5. ASSUME NEW i \in 1 .. Len(z) PROVE z[i] = q[i + 1]
  <2>1. i \in 1 .. Len(v) /\ i + 1 \in 1 .. Len(w) /\ v[i] = w[i + 1]
    BY <1>1, <1>3
  <2>2. z[i] = Hit(v[i], s, t) /\ q[i + 1] = Hit(w[i + 1], s, t)
    BY <1>2, <1>3, <2>1
  <2> QED
    BY <2>1, <2>2
<1>6. Len(z) = Len(q) - 1
  BY <1>1, <1>2, <1>3
<1>7. z = Tail(q)
  BY <1>2, <1>3, <1>4, <1>5, <1>6, TailIs
<1>8. SumSeq(q) = q[1] + SumSeq(z)
  BY <1>2, <1>4, <1>7, SumTail
<1> QED
  BY <1>2, <1>3, <1>4, <1>8 DEF v

\* Frames that all carry something carry at least one byte each.
LEMMA CountBounds ==
    ASSUME NEW w \in Seq(Frames), NEW s, NEW t
    PROVE  /\ Count(w, s, t) \in Nat
           /\ ~Has(w, s, t) => Count(w, s, t) = 0
           /\ Count(w, s, t) = 0 => Bytes(w, s, t) = 0
           /\ (\A i \in DOMAIN w : w[i].type = t => w[i].n > 0) => Count(w, s, t) <= Bytes(w, s, t)
<1> DEFINE q == Hits(w, s, t)
           z == Amounts(w, s, t)
<1>1. q \in Seq(Nat) /\ Len(q) = Len(w) /\ Count(w, s, t) = SumSeq(q) /\ \A i \in 1 .. Len(w) : q[i] = Hit(w[i], s, t)
  BY HitsType
<1>2. z \in Seq(Nat) /\ Len(z) = Len(w) /\ \A i \in 1 .. Len(w) : z[i] = Match(w[i], s, t)
  BY AmountsType
<1>3. Bytes(w, s, t) = SumSeq(z)
  BY DEF Bytes, Amounts
<1> HIDE DEF q, z
<1>4. SumSeq(q) \in Nat /\ \A i \in 1 .. Len(q) : q[i] <= SumSeq(q)
  BY <1>1, SumBounds
<1>5. ASSUME ~Has(w, s, t) PROVE Count(w, s, t) = 0
  <2>1. \A i \in 1 .. Len(q) : q[i] = 0
    BY <1>1, <1>5 DEF Has, Hit
  <2> QED
    BY <1>1, <2>1, SumZero
<1>6. ASSUME Count(w, s, t) = 0 PROVE Bytes(w, s, t) = 0
  <2>1. \A i \in 1 .. Len(q) : q[i] = 0
    BY <1>1, <1>4, <1>6
  <2>2. \A i \in 1 .. Len(z) : z[i] = 0
    BY <1>1, <1>2, <2>1 DEF Hit, Match
  <2> QED
    BY <1>2, <1>3, <2>2, SumZero
<1>7. ASSUME \A i \in DOMAIN w : w[i].type = t => w[i].n > 0 PROVE Count(w, s, t) <= Bytes(w, s, t)
  <2>1. \A i \in 1 .. Len(w) : Hit(w[i], s, t) <= Match(w[i], s, t)
    <3>1. \A i \in 1 .. Len(w) : w[i].n \in Nat
      BY FrameFields
    <3> QED
      BY <1>7, <3>1 DEF Hit, Match
  <2>2. \A i \in 1 .. Len(q) : q[i] <= z[i]
    BY <1>1, <1>2, <2>1
  <2> QED
    BY <1>1, <1>2, <1>3, <2>2, SumMonotone
<1> QED
  BY <1>1, <1>4, <1>5, <1>6, <1>7

\* A change of other streams' frames.
LEMMA QuietCount ==
    ASSUME NEW w \in Seq(Frames), NEW z, NEW s, Quiet(w, z, s), NEW t
    PROVE  Count(z, s, t) = Count(w, s, t)
<1>1. Count(w, s, t) \in Nat
  BY CountBounds
<1>2. ASSUME NEW f \in Frames, f.sid # s, z = Append(w, f) PROVE Count(z, s, t) = Count(w, s, t)
  <2>1. Hit(f, s, t) = 0
    BY <1>2 DEF Hit
  <2> QED
    BY <1>1, <1>2, <2>1, CountAppend
<1>3. CASE w # <<>> /\ Head(w).sid # s /\ z = Tail(w)
  <2>1. Hit(Head(w), s, t) = 0
    BY <1>3 DEF Hit
  <2>2. z \in Seq(Frames)
    BY <1>3
  <2>3. Count(z, s, t) \in Nat
    BY <2>2, CountBounds
  <2> QED
    BY <1>1, <1>3, <2>1, <2>3, CountTail
<1> QED
  BY <1>2, <1>3 DEF Quiet

-----------------------------------------------------------------------------
(* The lanes over a step                                                   *)

\* Frames that carry an amount carry a positive one, and behind the end of a stream there
\* is no data for it.
Loaded(w) ==
    \A d \in Ends : \A i \in DOMAIN w[d] : w[d][i].type \in {"DATA", "WINDOW_UPDATE"} => w[d][i].n > 0
Drained(e, s) ==
    stream[Peer(e)][s].st = "live" /\ stream[Peer(e)][s].recv = "EOF" => ~Has(wire[e], s, "DATA")
LanesOK == Loaded(wire) /\ \A e \in Ends, s \in Sids : Drained(e, s)

LanesKept ==
    /\ \A e \in Ends, s \in Sids : LaneStep(e, s)
    /\ Loaded(wire') /\ \A e \in Ends, s \in Sids : Drained(e, s)'

\* The sockets only go down.
SocketsFall == \A d \in Ends : mux'[d].ws = "open" => mux[d].ws = "open"

\* A stream that no end and no frame touches.
LEMMA LaneStill ==
    ASSUME IInv, LanesOK, NEW e \in Ends, NEW s \in Sids, SocketsFall,
           \A d \in Ends : stream'[d][s] = stream[d][s] /\ Quiet(wire[d], wire'[d], s)
    PROVE  LaneStep(e, s) /\ Drained(e, s)'
<1> DEFINE q == Peer(e)
<1>1. q \in Ends /\ wire[e] \in Seq(Frames) /\ wire[q] \in Seq(Frames)
  BY PeerFacts, StreamFacts
<1>2. stream'[e][s] = stream[e][s] /\ stream'[q][s] = stream[q][s]
  BY <1>1
<1>3. \A t : /\ Has(wire'[e], s, t) <=> Has(wire[e], s, t)
             /\ Bytes(wire'[e], s, t) = Bytes(wire[e], s, t) /\ Bytes(wire'[q], s, t) = Bytes(wire[q], s, t)
             /\ Count(wire'[e], s, t) = Count(wire[e], s, t)
  BY <1>1, QuietWire, QuietCount
<1>4. mux'[e].ws = "open" => mux[e].ws = "open"
  BY DEF SocketsFall
<1>5. mux'[q].ws = "open" => mux[q].ws = "open"
  BY <1>1 DEF SocketsFall
<1>6. LaneLive(e, s)' => LaneLive(e, s)
  BY <1>2, <1>3, <1>4, <1>5 DEF LaneLive, Live
<1>7. Purse(e, s)' = Purse(e, s)
  BY <1>2, <1>3, Zenon DEF Purse
<1>8. Flows(Purse(e, s), Purse(e, s)')
  BY <1>7 DEF Flows, Rests, SameWindow, SameWire, SameQueue, SameDebts
<1>9. LaneLive(e, s) => stream[e][s].st # "absent"
  BY DEF LaneLive, Live
<1>10. LaneStep(e, s)
  BY <1>2, <1>6, <1>8, <1>9, LaneDecides
<1>11. Drained(e, s)'
  BY <1>2, <1>3 DEF LanesOK, Drained
<1> QED
  BY <1>10, <1>11

\* No stream is touched.
LEMMA LanesStill ==
    ASSUME IInv, LanesOK, SocketsFall, UNCHANGED stream, Loaded(wire'),
           \A s \in Sids : \A d \in Ends : Quiet(wire[d], wire'[d], s)
    PROVE  LanesKept
BY LaneStill DEF LanesKept

\* End x replaces one of its streams, with at most a frame of that stream sent or taken.
LEMMA LaneSides ==
    ASSUME IInv, LanesOK, SocketsFall, NEW x \in Ends, NEW t \in Sids, NEW z \in StreamRecs,
           SetStream(x, t, z), Final(stream[x][t], z),
           z.st = "absent" <=> stream[x][t].st = "absent",
           \A s \in Sids : s # t => \A d \in Ends : Quiet(wire[d], wire'[d], s),
           \A d \in Ends : Has(wire'[d], t, "OPEN") => Has(wire[d], t, "OPEN"),
           Loaded(wire'), Drained(x, t)', Drained(Peer(x), t)',
           LaneLive(x, t) /\ LaneLive(x, t)' => Flows(Purse(x, t), Purse(x, t)'),
           LaneLive(Peer(x), t) /\ LaneLive(Peer(x), t)' => Flows(Purse(Peer(x), t), Purse(Peer(x), t)')
    PROVE  LanesKept
<1> DEFINE y == Peer(x)
           r == stream[x][t]
           q == stream[y][t]
<1>1. y \in Ends /\ y # x /\ Peer(y) = x /\ \A d \in Ends : d = x \/ d = y
  BY PeerFacts
<1>2. /\ stream'[x][t] = z
      /\ \A d \in Ends, s \in Sids : d # x \/ s # t => stream'[d][s] = stream[d][s]
  BY PutStream DEF IInv
<1>3. stream'[y][t] = q
  BY <1>1, <1>2
<1>4. r \in StreamRecs /\ r.st \in Places /\ z.st \in Places
  BY StreamFacts DEF StreamRecs
<1>5. z.st = "live" => r.st = "live"
  BY <1>4 DEF Places, Final
<1>6. r.recv = "RESET" => z.recv = "RESET"
  BY DEF Final
<1>7. mux'[x].ws = "open" => mux[x].ws = "open"
  BY DEF SocketsFall
<1>8. mux'[y].ws = "open" => mux[y].ws = "open"
  BY <1>1 DEF SocketsFall
<1>9. Has(wire'[x], t, "OPEN") => Has(wire[x], t, "OPEN")
  OBVIOUS
<1>10. Has(wire'[y], t, "OPEN") => Has(wire[y], t, "OPEN")
  BY <1>1
<1>11. LaneStep(x, t)
  <2>1. LaneLive(x, t)' => LaneLive(x, t)
    <3> HIDE DEF r
    <3> QED
      BY <1>2, <1>3, <1>5, <1>7, <1>8, <1>9 DEF LaneLive, Live, r
  <2>2. r.st = "absent" => ~LaneLive(x, t)
    BY DEF LaneLive, Live
  <2>3. r.st # "absent" => stream'[x][t].st # "absent"
    BY <1>2
  <2> QED
    BY <2>1, <2>2, <2>3, LaneDecides
<1>12. LaneStep(y, t)
  <2>1. LaneLive(y, t)' => LaneLive(y, t)
    <3> HIDE DEF y
    <3> QED
      BY <1>1, <1>2, <1>3, <1>5, <1>6, <1>7, <1>8, <1>10 DEF LaneLive, Live
  <2>2. q.st = "absent" => ~LaneLive(y, t)
    BY DEF LaneLive, Live
  <2>3. q.st # "absent" => stream'[y][t].st # "absent"
    BY <1>3
  <2> QED
    BY <1>1, <2>1, <2>2, <2>3, LaneDecides
<1>13. ASSUME NEW e \in Ends, NEW s \in Sids PROVE LaneStep(e, s) /\ Drained(e, s)'
  <2>1. CASE s = t
    BY <1>1, <1>11, <1>12, <2>1
  <2>2. CASE s # t
    <3>1. \A d \in Ends : stream'[d][s] = stream[d][s] /\ Quiet(wire[d], wire'[d], s)
      BY <1>2, <2>2
    <3> QED
      BY <3>1, LaneStill
  <2> QED
    BY <2>1, <2>2
<1> QED
  BY <1>13 DEF LanesKept

\* What a purse holds.
LEMMA PurseNow ==
    ASSUME IInv, NEW e \in Ends, NEW s \in Sids
    PROVE  LET p == Purse(e, s)
               r == stream[e][s]
               q == stream[Peer(e)][s]
           IN /\ p.window = r.window /\ p.queued = q.buffered /\ p.qFrames = q.frames
              /\ p.held = q.held /\ p.unacked = q.unacked
              /\ p.wire = Bytes(wire[e], s, "DATA") /\ p.wireFrames = Count(wire[e], s, "DATA")
              /\ p.grants = Bytes(wire[Peer(e)], s, "WINDOW_UPDATE")
              /\ p.window \in Nat /\ p.queued \in Nat /\ p.qFrames \in Nat /\ p.held \in Nat
              /\ p.unacked \in Nat /\ p.wire \in Nat /\ p.wireFrames \in Nat /\ p.grants \in Nat
<1> DEFINE r == stream[e][s]
           q == stream[Peer(e)][s]
<1>1. r \in StreamRecs /\ q \in StreamRecs /\ wire[e] \in Seq(Frames) /\ wire[Peer(e)] \in Seq(Frames)
  BY StreamFacts
<1>2. /\ r.window \in Nat /\ q.buffered \in Nat /\ q.frames \in Nat /\ q.held \in Nat /\ q.unacked \in Nat
  BY <1>1 DEF StreamRecs
<1>3. /\ Bytes(wire[e], s, "DATA") \in Nat /\ Count(wire[e], s, "DATA") \in Nat
      /\ Bytes(wire[Peer(e)], s, "WINDOW_UPDATE") \in Nat
  BY <1>1, WireBytes, CountBounds
<1> QED
  BY <1>2, <1>3 DEF Purse

\* What the purses of a stream hold after end x has replaced it by z.
LEMMA PurseSides ==
    ASSUME IInv, NEW x \in Ends, NEW t \in Sids, NEW z \in StreamRecs, SetStream(x, t, z)
    PROVE  LET y == Peer(x)
               p == Purse(x, t)'
               q == Purse(y, t)'
           IN /\ p.window = z.window /\ SameQueue(Purse(x, t), p)
              /\ p.held = Purse(x, t).held /\ p.unacked = Purse(x, t).unacked
              /\ p.wire = Bytes(wire'[x], t, "DATA") /\ p.wireFrames = Count(wire'[x], t, "DATA")
              /\ p.grants = Bytes(wire'[y], t, "WINDOW_UPDATE")
              /\ q.window = Purse(y, t).window
              /\ q.queued = z.buffered /\ q.qFrames = z.frames /\ q.held = z.held /\ q.unacked = z.unacked
              /\ q.wire = Bytes(wire'[y], t, "DATA") /\ q.wireFrames = Count(wire'[y], t, "DATA")
              /\ q.grants = Bytes(wire'[x], t, "WINDOW_UPDATE")
<1> DEFINE y == Peer(x)
<1>1. y \in Ends /\ y # x /\ Peer(y) = x
  BY PeerFacts
<1>2. stream'[x][t] = z /\ stream'[y][t] = stream[y][t]
  BY <1>1, PutStream DEF IInv
<1> HIDE DEF y
<1>3. Peer(x) = y
  BY DEF y
<1> QED
  BY <1>1, <1>2, <1>3 DEF Purse, SameQueue

\* A frame of stream t is sent.
LEMMA LaneSent ==
    ASSUME IInv, NEW x \in Ends, NEW t \in Sids, NEW f \in Frames, f.ok, f.sid = t, wire' = Sent(x, f)
    PROVE  LET y == Peer(x)
               up == mux[x].ws = "open"
           IN /\ \A s \in Sids : s # t => \A d \in Ends : Quiet(wire[d], wire'[d], s)
              /\ wire'[y] = wire[y]
              /\ \A k : Has(wire'[x], t, k) <=> Has(wire[x], t, k) \/ (up /\ f.type = k)
              /\ \A k : Bytes(wire'[x], t, k) = Bytes(wire[x], t, k) + (IF up /\ f.type = k THEN f.n ELSE 0)
              /\ \A k : Count(wire'[x], t, k) = Count(wire[x], t, k) + (IF up /\ f.type = k THEN 1 ELSE 0)
              /\ Loaded(wire) /\ (f.type \in {"DATA", "WINDOW_UPDATE"} => f.n > 0) => Loaded(wire')
<1> DEFINE w == wire[x]
           y == Peer(x)
<1>1. /\ wire' \in [Ends -> Seq(Frames)] /\ wire'[y] = wire[y]
      /\ wire'[x] = IF mux[x].ws = "open" THEN Append(wire[x], f) ELSE wire[x]
      /\ \A s : s # f.sid => \A d \in Ends : Quiet(wire[d], wire'[d], s)
  BY SentWire
<1>2. w \in Seq(Frames) /\ y \in Ends /\ \A d \in Ends : d = x \/ d = y
  BY StreamFacts, PeerFacts
<1> HIDE DEF w, y
<1> DEFINE v == Append(w, f)
<1>3. /\ \A k : Has(v, t, k) <=> Has(w, t, k) \/ (f.sid = t /\ f.type = k)
      /\ \A k : Bytes(v, t, k) = Bytes(w, t, k) + Match(f, t, k)
  BY <1>2, WireAppend
<1>4. \A k : Count(v, t, k) = Count(w, t, k) + Hit(f, t, k)
  BY <1>2, CountAppend
<1>5. \A i \in DOMAIN v : (i \in DOMAIN w /\ v[i] = w[i]) \/ v[i] = f
  BY <1>2
<1>6. \A k : Match(f, t, k) = (IF f.type = k THEN f.n ELSE 0) /\ Hit(f, t, k) = (IF f.type = k THEN 1 ELSE 0)
  BY DEF Match, Hit
<1>7. \A k : Bytes(w, t, k) \in Nat /\ Count(w, t, k) \in Nat
  BY <1>2, WireBytes, CountBounds
<1> HIDE DEF v
<1>8. CASE mux[x].ws = "open"
  <2>1. wire'[x] = v
    BY <1>1, <1>8 DEF w, v
  <2>2. Loaded(wire) /\ (f.type \in {"DATA", "WINDOW_UPDATE"} => f.n > 0) => Loaded(wire')
    <3>1. ASSUME Loaded(wire), f.type \in {"DATA", "WINDOW_UPDATE"} => f.n > 0, NEW d \in Ends
          PROVE  \A i \in DOMAIN wire'[d] : wire'[d][i].type \in {"DATA", "WINDOW_UPDATE"} => wire'[d][i].n > 0
      <4>1. CASE d = x
        BY <1>5, <2>1, <3>1, <4>1 DEF Loaded, w
      <4>2. CASE d = y
        BY <1>1, <3>1, <4>2 DEF Loaded, y
      <4> QED
        BY <1>2, <4>1, <4>2
    <3> QED
      BY <3>1 DEF Loaded
  <2>3. \A k : Has(wire'[x], t, k) <=> Has(w, t, k) \/ f.type = k
    BY <1>3, <2>1
  <2>4. \A k : /\ Bytes(wire'[x], t, k) = Bytes(w, t, k) + (IF f.type = k THEN f.n ELSE 0)
               /\ Count(wire'[x], t, k) = Count(w, t, k) + (IF f.type = k THEN 1 ELSE 0)
    BY <1>3, <1>4, <1>6, <2>1
  <2> QED
    BY <1>1, <1>8, <2>2, <2>3, <2>4 DEF w, y
<1>9. CASE mux[x].ws # "open"
  <2>1. wire'[x] = w
    BY <1>1, <1>9 DEF w
  <2>2. ASSUME Loaded(wire) PROVE Loaded(wire')
    <3>1. \A d \in Ends : wire'[d] = wire[d]
      BY <1>1, <1>2, <2>1 DEF w, y
    <3> QED
      BY <2>2, <3>1 DEF Loaded
  <2>3. \A k : Bytes(w, t, k) = Bytes(w, t, k) + 0 /\ Count(w, t, k) = Count(w, t, k) + 0
    BY <1>7
  <2> QED
    BY <1>1, <1>9, <2>1, <2>2, <2>3 DEF w, y
<1> QED
  BY <1>8, <1>9

\* A frame is taken.
LEMMA LaneTaken ==
    ASSUME IInv, NEW x \in Ends, wire[Peer(x)] # <<>>, wire' = Taken(x)
    PROVE  LET y == Peer(x)
               f == Arrived(x)
               t == f.sid
           IN /\ \A s \in Sids : s # t => \A d \in Ends : Quiet(wire[d], wire'[d], s)
              /\ wire'[x] = wire[x]
              /\ \A k : Has(wire'[y], t, k) => Has(wire[y], t, k)
              /\ \A k : Has(wire[y], t, k) => Has(wire'[y], t, k) \/ f.type = k
              /\ Has(wire[y], t, f.type) /\ f.n \in Nat
              /\ \A k : /\ Bytes(wire'[y], t, k) \in Nat
                        /\ Bytes(wire[y], t, k) = Bytes(wire'[y], t, k) + (IF f.type = k THEN f.n ELSE 0)
              /\ \A k : /\ Count(wire'[y], t, k) \in Nat
                        /\ Count(wire[y], t, k) = Count(wire'[y], t, k) + (IF f.type = k THEN 1 ELSE 0)
              /\ Ordered(wire[y], t) => /\ ~Has(wire'[y], t, "OPEN")
                                        /\ f.type = "EOF" => ~Has(wire'[y], t, "DATA")
              /\ Loaded(wire) => Loaded(wire') /\ (f.type \in {"DATA", "WINDOW_UPDATE"} => f.n > 0)
<1> DEFINE y == Peer(x)
           w == wire[y]
           v == Tail(w)
           f == Head(w)
           t == f.sid
<1>1. /\ wire'[x] = wire[x] /\ wire'[y] = v /\ Arrived(x) = f
      /\ \A s : s # t => \A d \in Ends : Quiet(wire[d], wire'[d], s)
  BY TakenWire DEF Arrived
<1>2. w \in Seq(Frames) /\ w # <<>> /\ y \in Ends /\ \A d \in Ends : d = x \/ d = y
  BY PeerFacts DEF IInv, MuxTypes
<1> HIDE DEF w
<1>3. /\ f \in Frames /\ v \in Seq(Frames) /\ Has(w, t, f.type)
      /\ \A k : Has(v, t, k) => Has(w, t, k)
      /\ \A k : Bytes(w, t, k) = Match(f, t, k) + Bytes(v, t, k)
      /\ \A k : Has(w, t, k) => Has(v, t, k) \/ f.type = k
      /\ Ordered(w, t) => ~Has(v, t, "OPEN") /\ (f.type = "EOF" => ~Has(v, t, "DATA"))
  BY <1>2, WireTail
<1>4. \A k : Count(w, t, k) = Hit(f, t, k) + Count(v, t, k)
  BY <1>2, CountTail
<1>5. \A k : Match(f, t, k) = (IF f.type = k THEN f.n ELSE 0) /\ Hit(f, t, k) = (IF f.type = k THEN 1 ELSE 0)
  BY DEF Match, Hit
<1>6. /\ f = w[1] /\ 1 \in DOMAIN w
      /\ \A i \in DOMAIN v : i + 1 \in DOMAIN w /\ v[i] = w[i + 1]
  BY <1>2
<1> HIDE DEF v, f
<1>7. \A k : Bytes(v, t, k) \in Nat /\ Count(v, t, k) \in Nat
  BY <1>3, WireBytes, CountBounds
<1>8. f.n \in Nat
  BY <1>3, FrameFields
<1>9. Loaded(wire) => Loaded(wire') /\ (f.type \in {"DATA", "WINDOW_UPDATE"} => f.n > 0)
  <2>1. ASSUME Loaded(wire) PROVE \A i \in DOMAIN w : w[i].type \in {"DATA", "WINDOW_UPDATE"} => w[i].n > 0
    BY <1>2, <2>1 DEF Loaded, w
  <2>2. ASSUME Loaded(wire) PROVE \A i \in DOMAIN v : v[i].type \in {"DATA", "WINDOW_UPDATE"} => v[i].n > 0
    BY <1>6, <2>1, <2>2
  <2>3. ASSUME Loaded(wire) PROVE Loaded(wire')
    BY <1>1, <1>2, <2>2, <2>3 DEF Loaded
  <2> QED
    BY <1>6, <2>1, <2>3
<1>10. \A k : Bytes(w, t, k) = Bytes(v, t, k) + (IF f.type = k THEN f.n ELSE 0)
  BY <1>3, <1>5, <1>7, <1>8
<1>11. \A k : Count(w, t, k) = Count(v, t, k) + (IF f.type = k THEN 1 ELSE 0)
  BY <1>4, <1>5, <1>7
<1> QED
  BY <1>1, <1>3, <1>7, <1>8, <1>9, <1>10, <1>11 DEF w

\* The frames of stream t that matter to its lanes stay as they are.
Neutral(t) ==
    \A d \in Ends :
        /\ Has(wire'[d], t, "OPEN") => Has(wire[d], t, "OPEN")
        /\ Has(wire'[d], t, "DATA") => Has(wire[d], t, "DATA")
        /\ Bytes(wire'[d], t, "DATA") = Bytes(wire[d], t, "DATA")
        /\ Count(wire'[d], t, "DATA") = Count(wire[d], t, "DATA")
        /\ Bytes(wire'[d], t, "WINDOW_UPDATE") = Bytes(wire[d], t, "WINDOW_UPDATE")

\* The amounts of z are those of r.
SameAmounts(r, z) ==
    /\ z.st = r.st /\ z.window = r.window /\ z.buffered = r.buffered /\ z.frames = r.frames
    /\ z.held = r.held /\ z.unacked = r.unacked

\* A stream's record changes where its lanes do not look.
LEMMA LanesRest ==
    ASSUME IInv, LanesOK, SocketsFall, NEW x \in Ends, NEW t \in Sids, NEW z \in StreamRecs,
           SetStream(x, t, z), Final(stream[x][t], z), SameAmounts(stream[x][t], z),
           \A s \in Sids : s # t => \A d \in Ends : Quiet(wire[d], wire'[d], s),
           Neutral(t), Loaded(wire'),
           z.st = "live" /\ z.recv = "EOF" => ~Has(wire'[Peer(x)], t, "DATA")
    PROVE  LanesKept
<1> DEFINE y == Peer(x)
           r == stream[x][t]
           p == Purse(x, t)
           o == Purse(x, t)'
           q == Purse(y, t)
           u == Purse(y, t)'
<1>1. y \in Ends /\ y # x /\ Peer(y) = x /\ \A d \in Ends : d = x \/ d = y
  BY PeerFacts
<1>2. stream'[x][t] = z /\ stream'[y][t] = stream[y][t]
  BY <1>1, PutStream DEF IInv
<1>3. /\ Has(wire'[x], t, "DATA") => Has(wire[x], t, "DATA")
      /\ Bytes(wire'[x], t, "DATA") = Bytes(wire[x], t, "DATA")
      /\ Count(wire'[x], t, "DATA") = Count(wire[x], t, "DATA")
      /\ Bytes(wire'[x], t, "WINDOW_UPDATE") = Bytes(wire[x], t, "WINDOW_UPDATE")
  BY DEF Neutral
<1>4. /\ Has(wire'[y], t, "DATA") => Has(wire[y], t, "DATA")
      /\ Bytes(wire'[y], t, "DATA") = Bytes(wire[y], t, "DATA")
      /\ Count(wire'[y], t, "DATA") = Count(wire[y], t, "DATA")
      /\ Bytes(wire'[y], t, "WINDOW_UPDATE") = Bytes(wire[y], t, "WINDOW_UPDATE")
  BY <1>1 DEF Neutral
<1>5. Drained(x, t)'
  BY <1>2, <1>3 DEF LanesOK, Drained
<1>6. Drained(y, t)'
  BY <1>1, <1>2 DEF Drained
<1>7. /\ p.window = r.window /\ p.wire = Bytes(wire[x], t, "DATA") /\ p.wireFrames = Count(wire[x], t, "DATA")
      /\ p.grants = Bytes(wire[y], t, "WINDOW_UPDATE")
  BY PurseNow
<1>8. /\ q.queued = r.buffered /\ q.qFrames = r.frames /\ q.held = r.held /\ q.unacked = r.unacked
      /\ q.wire = Bytes(wire[y], t, "DATA") /\ q.wireFrames = Count(wire[y], t, "DATA")
      /\ q.grants = Bytes(wire[x], t, "WINDOW_UPDATE")
  <2> HIDE DEF y
  <2> QED
    BY <1>1, PurseNow
<1>9. Rests(p, o)
  <2>1. /\ o.window = z.window /\ SameQueue(p, o) /\ o.held = p.held /\ o.unacked = p.unacked
        /\ o.wire = Bytes(wire'[x], t, "DATA") /\ o.wireFrames = Count(wire'[x], t, "DATA")
        /\ o.grants = Bytes(wire'[y], t, "WINDOW_UPDATE")
    BY PurseSides
  <2> HIDE DEF p, o, r, y
  <2> QED
    BY <1>3, <1>4, <1>7, <2>1 DEF Rests, SameWindow, SameWire, SameDebts, SameAmounts, r
<1>10. Rests(q, u)
  <2>1. /\ u.window = q.window /\ u.queued = z.buffered /\ u.qFrames = z.frames
        /\ u.held = z.held /\ u.unacked = z.unacked
        /\ u.wire = Bytes(wire'[y], t, "DATA") /\ u.wireFrames = Count(wire'[y], t, "DATA")
        /\ u.grants = Bytes(wire'[x], t, "WINDOW_UPDATE")
    BY PurseSides
  <2> HIDE DEF q, u, r, y
  <2> QED
    BY <1>3, <1>4, <1>8, <2>1 DEF Rests, SameWindow, SameWire, SameQueue, SameDebts, SameAmounts, r
<1>11. \A d \in Ends : Has(wire'[d], t, "OPEN") => Has(wire[d], t, "OPEN")
  BY DEF Neutral
<1>12. z.st = "absent" <=> stream[x][t].st = "absent"
  BY DEF SameAmounts
<1> QED
  BY <1>5, <1>6, <1>9, <1>10, <1>11, <1>12, LaneSides DEF Flows

\* ... and nothing is sent or taken.
LEMMA LanesIdle ==
    ASSUME IInv, LanesOK, SocketsFall, NEW x \in Ends, NEW t \in Sids, NEW z \in StreamRecs,
           SetStream(x, t, z), SameAmounts(stream[x][t], z), z.recv = stream[x][t].recv, UNCHANGED wire
    PROVE  LanesKept
<1>1. Final(stream[x][t], z)
  BY DEF Final, SameAmounts
<1>2. Neutral(t) /\ Loaded(wire') /\ \A s \in Sids : \A d \in Ends : Quiet(wire[d], wire'[d], s)
  BY DEF Neutral, LanesOK, Quiet
<1>3. Peer(x) \in Ends /\ Peer(Peer(x)) = x
  BY PeerFacts
<1>4. z.st = "live" /\ z.recv = "EOF" => ~Has(wire'[Peer(x)], t, "DATA")
  BY <1>3 DEF LanesOK, Drained, SameAmounts
<1> QED
  BY <1>1, <1>2, <1>4, LanesRest

\* The sockets are as they were.
LEMMA SocketsKept ==
    ASSUME UNCHANGED mux
    PROVE  SocketsFall
BY DEF SocketsFall

\* What the protocol says of the lane from e to its peer.
LEMMA LaneFacts ==
    ASSUME IInv, Compliant, NEW e \in Ends, NEW s \in Sids
    PROVE  LET r == stream[e][s]
               q == stream[Peer(e)][s]
               p == Purse(e, s)
           IN /\ Has(wire[e], s, "OPEN") => q.st = "absent" /\ e = Server
              /\ Has(wire[Peer(e)], s, "OPEN") => r.st = "absent" /\ e = Agent
              /\ r.st = "absent" => \A k \in FrameTypes : Has(wire[e], s, k) => k = "RESET"
              /\ r.st = "absent" => QueuedBytes(q) = 0 /\ q.held = 0 /\ q.unacked = 0 /\ p.grants = 0
              /\ r.st = "absent" /\ e = Server => q.st = "absent"
              /\ p.window + p.grants <= W /\ QueuedBytes(q) <= W
              /\ q.st = "live" /\ q.recv = "OPEN" => p.wire <= W
              /\ q.recv = "EOF" /\ r.st # "absent" => r.ended
<1> DEFINE r == stream[e][s]
           q == stream[Peer(e)][s]
           v == View(e, s)
           u == View(Peer(e), s)
           p == Purse(e, s)
<1>1. /\ v \in Views /\ u \in Views /\ nextId \in Nat
      /\ v.st = r.st /\ v.ended = r.ended /\ v.window = r.window
      /\ v.under = Kinds(wire[e], s) /\ v.data = Bytes(wire[e], s, "DATA")
  BY ViewNow
<1>2. /\ u.st = q.st /\ u.recv = q.recv /\ u.held = q.held /\ u.unacked = q.unacked
      /\ u.queued = QueuedBytes(q) /\ u.under = Kinds(wire[Peer(e)], s)
      /\ u.grants = Bytes(wire[Peer(e)], s, "WINDOW_UPDATE")
  BY PeerFacts, ViewNow
<1>3. Agree(e, v, u, s, nextId)
  BY AgreeNow
<1>4. p.window = r.window /\ p.wire = v.data /\ p.grants = u.grants
  BY <1>1, <1>2, PurseNow
<1>5. /\ \A k \in FrameTypes : k \in v.under <=> Has(wire[e], s, k)
      /\ \A k \in FrameTypes : k \in u.under <=> Has(wire[Peer(e)], s, k)
      /\ {"OPEN", "RESET", "DATA"} \subseteq FrameTypes
  BY <1>1, <1>2 DEF Kinds, FrameTypes
<1>6. W \in Nat /\ s \in Nat
  BY MuxAssumption DEF Sids
<1>7. e \in {Server, Agent} /\ Server # Agent
  BY DEF Ends, Server, Agent
<1> HIDE DEF r, q, v, u, p
<1>8. /\ v.window \in Nat /\ v.sent \in Nat /\ v.data \in Nat /\ u.fed \in Nat /\ u.queued \in Nat
      /\ u.held \in Nat /\ u.unacked \in Nat /\ u.grants \in Nat
  BY <1>1 DEF Views
<1>9. /\ "OPEN" \in v.under => u.st = "absent" /\ e = Server
      /\ "OPEN" \in u.under => v.st = "absent" /\ e = Agent
      /\ v.st = "absent" /\ e = Server => u.st = "absent"
  BY <1>3, <1>6, <1>7, <1>1 DEF Agree, IdsOK
<1>10. v.st = "absent" => v.under \subseteq {"RESET"}
  BY <1>3 DEF Agree, SentOK
<1>11. /\ u.fed <= v.sent
       /\ v.window + (v.sent - u.fed) + u.queued + u.held + u.unacked + u.grants
             <= IF v.st = "absent" THEN 0 ELSE W
       /\ u.st = "live" /\ u.recv = "OPEN" => u.fed + v.data = v.sent
       /\ u.recv = "EOF" /\ v.st # "absent" => v.ended
  BY <1>3 DEF Agree, LaneOK
<1>12. /\ v.st = "absent" => u.queued = 0 /\ u.held = 0 /\ u.unacked = 0 /\ u.grants = 0
       /\ v.window + u.grants <= W /\ u.queued <= W
       /\ u.st = "live" /\ u.recv = "OPEN" => v.data <= W
  <2> DEFINE a == v.window
             b == v.sent - u.fed
             c == u.queued
             h == u.held
             k == u.unacked
             g == u.grants
  <2>1. /\ a \in Nat /\ b \in Nat /\ c \in Nat /\ h \in Nat /\ k \in Nat /\ g \in Nat
        /\ u.st = "live" /\ u.recv = "OPEN" => v.data = b
    BY <1>8, <1>11
  <2>2. /\ v.st = "absent" => a + b + c + h + k + g <= 0
        /\ v.st # "absent" => a + b + c + h + k + g <= W
    BY <1>11
  <2> HIDE DEF a, b, c, h, k, g
  <2>3. v.st = "absent" => a = 0 /\ b = 0 /\ c = 0 /\ h = 0 /\ k = 0 /\ g = 0
    BY <2>1, <2>2
  <2>4. a + g <= W /\ c <= W /\ b <= W
    BY <1>6, <2>1, <2>2, <2>3
  <2> QED
    BY <2>1, <2>3, <2>4 DEF a, c, h, k, g
<1>13. /\ Has(wire[e], s, "OPEN") => q.st = "absent" /\ e = Server
       /\ Has(wire[Peer(e)], s, "OPEN") => r.st = "absent" /\ e = Agent
       /\ r.st = "absent" => \A k \in FrameTypes : Has(wire[e], s, k) => k = "RESET"
  BY <1>1, <1>2, <1>5, <1>9, <1>10
<1> QED
  BY <1>1, <1>2, <1>4, <1>9, <1>11, <1>12, <1>13 DEF r, q, p

-----------------------------------------------------------------------------
(* The lanes, action by action                                             *)

\* A sender's own fields.
LEMMA SenderLanes ==
    ASSUME IInv, LanesOK, NEW e \in Ends, NEW s \in Sids,
           \/ \E n \in env.chunks : StartSend(e, s, n)
           \/ WakeSender(e, s) \/ CreditStall(e, s) \/ CancelSend(e, s)
    PROVE  LanesKept
<1> DEFINE r == stream[e][s]
<1>1. r \in StreamRecs /\ stream \in [Ends -> [Sids -> StreamRecs]]
  BY DEF IInv, MuxTypes
<1>2. UNCHANGED <<wire, mux>>
  BY DEF StartSend, WakeSender, CreditStall, CancelSend
<1>3. \E z \in StreamRecs : SetStream(e, s, z) /\ SameAmounts(r, z) /\ z.recv = r.recv
  <2>1. ASSUME NEW n \in env.chunks, StartSend(e, s, n)
        PROVE  \E z \in StreamRecs : SetStream(e, s, z) /\ SameAmounts(r, z) /\ z.recv = r.recv
    <3> DEFINE z == [r EXCEPT !.left = n]
    <3>1. SetStream(e, s, z)
      BY <2>1, Zenon DEF StartSend, SetStream
    <3>2. n \in Nat
      BY <2>1 DEF IInv, EnvTypes
    <3> HIDE DEF r
    <3>3. z \in StreamRecs /\ SameAmounts(r, z) /\ z.recv = r.recv
      BY <1>1, <3>2 DEF StreamRecs, SameAmounts
    <3> QED
      BY <3>1, <3>3
  <2>2. ASSUME WakeSender(e, s)
        PROVE  \E z \in StreamRecs : SetStream(e, s, z) /\ SameAmounts(r, z) /\ z.recv = r.recv
    <3> DEFINE z == [r EXCEPT !.parked = FALSE]
    <3>1. SetStream(e, s, z)
      BY <2>2, Zenon DEF WakeSender, SetStream
    <3> HIDE DEF r
    <3>2. z \in StreamRecs /\ SameAmounts(r, z) /\ z.recv = r.recv
      BY <1>1 DEF StreamRecs, SameAmounts
    <3> QED
      BY <3>1, <3>2
  <2>3. ASSUME CreditStall(e, s) \/ CancelSend(e, s)
        PROVE  \E z \in StreamRecs : SetStream(e, s, z) /\ SameAmounts(r, z) /\ z.recv = r.recv
    <3> DEFINE z == [r EXCEPT !.left = 0, !.parked = FALSE]
    <3>1. stream' = [stream EXCEPT ![e][s].left = 0, ![e][s].parked = FALSE]
      BY <2>3, Zenon DEF CreditStall, CancelSend
    <3>2. SetStream(e, s, z)
      BY <1>1, <3>1 DEF SetStream, StreamRecs
    <3> HIDE DEF r
    <3>3. z \in StreamRecs /\ SameAmounts(r, z) /\ z.recv = r.recv
      BY <1>1 DEF StreamRecs, SameAmounts
    <3> QED
      BY <3>2, <3>3
  <2> QED
    BY <2>1, <2>2, <2>3
<1> QED
  BY <1>2, <1>3, SocketsKept, LanesIdle

\* A turn of send(): the frame it sends spends credit of the lane.
LEMMA SendStepLanes ==
    ASSUME IInv, Compliant, LanesOK, NEW e \in Ends, NEW s \in Sids, SendStep(e, s)
    PROVE  LanesKept
<1> DEFINE r == stream[e][s]
           n == Min({r.left, r.window, MaxFrame})
           up == mux[e].ws = "open"
<1>0. r \in StreamRecs /\ (r.st = "absent" => r = NoStream) /\ stream \in [Ends -> [Sids -> StreamRecs]]
  BY StreamFacts DEF IInv, MuxTypes
<1>1. r.st # "absent" /\ r.left > 0
  BY <1>0, NoStreamFields DEF SendStep
<1>2. SocketsFall
  BY SocketsKept DEF SendStep
<1>3. CASE stream' = [stream EXCEPT ![e][s].left = 0] /\ UNCHANGED wire
  <2> DEFINE z == [r EXCEPT !.left = 0]
  <2>1. SetStream(e, s, z)
    BY <1>3, Zenon DEF SetStream
  <2> HIDE DEF r
  <2>2. z \in StreamRecs /\ SameAmounts(r, z) /\ z.recv = r.recv
    BY <1>0 DEF StreamRecs, SameAmounts
  <2> HIDE DEF z
  <2> QED
    BY <1>2, <1>3, <2>1, <2>2, LanesIdle DEF r
<1>4. CASE stream' = [stream EXCEPT ![e][s].parked = TRUE, ![e][s].waiter = FALSE] /\ UNCHANGED wire
  <2> DEFINE z == [r EXCEPT !.parked = TRUE, !.waiter = FALSE]
  <2>1. SetStream(e, s, z)
    BY <1>0, <1>4 DEF SetStream, StreamRecs
  <2> HIDE DEF r
  <2>2. z \in StreamRecs /\ SameAmounts(r, z) /\ z.recv = r.recv
    BY <1>0 DEF StreamRecs, SameAmounts
  <2> HIDE DEF z
  <2> QED
    BY <1>2, <1>4, <2>1, <2>2, LanesIdle DEF r
<1>5. CASE /\ ~SendOver(r) /\ r.window > 0
           /\ stream' = [stream EXCEPT ![e][s].window = @ - n, ![e][s].left = IF up THEN @ - n ELSE 0]
           /\ wire' = Sent(e, Frame("DATA", s, n))
  <2> DEFINE k == IF up THEN r.left - n ELSE 0
             d == r.window - n
             z == [r EXCEPT !.window = d, !.left = k]
             f == Frame("DATA", s, n)
             y == Peer(e)
  <2>1. n \in 1 .. r.window /\ n <= r.left /\ n <= MaxFrame /\ r.window \in Nat /\ r.left \in Nat
    <3>1. r.window \in Nat /\ r.left \in Nat /\ MaxFrame \in Nat \ {0}
      BY <1>0, MuxAssumption DEF StreamRecs
    <3> DEFINE S == {r.left, r.window, MaxFrame}
    <3>2. S \in SUBSET Nat /\ S # {} /\ r.left \in S /\ r.window \in S /\ MaxFrame \in S /\ \A i \in S : i > 0
      BY <1>1, <1>5, <3>1
    <3> HIDE DEF S
    <3>3. Min(S) \in Nat /\ Min(S) <= r.window /\ Min(S) <= r.left /\ Min(S) <= MaxFrame /\ Min(S) > 0
      BY <3>2, MinIs
    <3> QED
      BY <3>1, <3>3 DEF S
  <2>2. SetStream(e, s, z)
    BY <1>5, Zenon DEF SetStream
  <2>3. r.st = "live" /\ ~r.ended
    BY <1>0, <1>1, <1>5 DEF SendOver, StreamRecs, Places
  <2>4. f \in Frames /\ f.ok /\ f.sid = s /\ f.type = "DATA" /\ f.n = n
    <3>1. "DATA" \in FrameTypes /\ s \in 0 .. MaxSid
      BY DEF FrameTypes, Sids
    <3> HIDE DEF n
    <3> QED
      BY <2>1, <3>1, FrameIs
  <2> HIDE DEF n, f
  <2>5. k \in Nat /\ d \in Nat /\ d = r.window - n
    BY <2>1
  <2> HIDE DEF k, d
  <2>6. /\ \A t \in Sids : t # s => \A c \in Ends : Quiet(wire[c], wire'[c], t)
        /\ wire'[y] = wire[y]
        /\ \A t : Has(wire'[e], s, t) <=> Has(wire[e], s, t) \/ (up /\ f.type = t)
        /\ \A t : Bytes(wire'[e], s, t) = Bytes(wire[e], s, t) + (IF up /\ f.type = t THEN f.n ELSE 0)
        /\ \A t : Count(wire'[e], s, t) = Count(wire[e], s, t) + (IF up /\ f.type = t THEN 1 ELSE 0)
        /\ Loaded(wire) /\ (f.type \in {"DATA", "WINDOW_UPDATE"} => f.n > 0) => Loaded(wire')
    BY <1>5, <2>4, LaneSent DEF f
  <2>7. Loaded(wire')
    BY <2>1, <2>4, <2>6 DEF LanesOK
  <2>8. z \in StreamRecs
    <3> HIDE DEF r
    <3> QED
      BY <1>0, <2>5 DEF StreamRecs
  <2>9. /\ z.st = r.st /\ z.recv = r.recv /\ z.window = d /\ z.buffered = r.buffered
        /\ z.frames = r.frames /\ z.held = r.held /\ z.unacked = r.unacked
    <3> HIDE DEF r
    <3> QED
      BY <1>0 DEF StreamRecs
  <2> HIDE DEF z
  <2>10. y \in Ends /\ y # e /\ Peer(y) = e /\ \A c \in Ends : c = e \/ c = y
    BY PeerFacts
  <2>11. stream'[e][s] = z /\ stream'[y][s] = stream[y][s]
    BY <2>2, <2>8, <2>10, PutStream DEF IInv
  <2>12. stream[y][s].recv # "EOF"
    BY <2>3, LaneFacts
  <2>13. Drained(e, s)'
    BY <2>11, <2>12 DEF Drained
  <2>14. Drained(y, s)'
    <3> HIDE DEF y
    <3> QED
      BY <2>3, <2>6, <2>9, <2>10, <2>11 DEF Drained, LanesOK
  <2> DEFINE p == Purse(e, s)
             o == Purse(e, s)'
             q == Purse(y, s)
             u == Purse(y, s)'
  <2>15. LaneLive(e, s) /\ LaneLive(e, s)' => Flows(p, o)
    <3> SUFFICES ASSUME LaneLive(e, s) PROVE Spends(p, o)
      BY DEF Flows
    <3>1. up
      BY DEF LaneLive
    <3>2. /\ p.window = r.window /\ p.wire = Bytes(wire[e], s, "DATA")
          /\ p.wireFrames = Count(wire[e], s, "DATA")
          /\ p.grants = Bytes(wire[y], s, "WINDOW_UPDATE") /\ p.grants \in Nat
      BY PurseNow
    <3>3. /\ o.window = z.window /\ SameQueue(p, o)
          /\ o.held = p.held /\ o.unacked = p.unacked
          /\ o.wire = Bytes(wire'[e], s, "DATA") /\ o.wireFrames = Count(wire'[e], s, "DATA")
          /\ o.grants = Bytes(wire'[y], s, "WINDOW_UPDATE")
      BY <2>2, <2>8, PurseSides
    <3>4. p.window + p.grants <= W
      BY LaneFacts
    <3> HIDE DEF p, o, y, r
    <3>5. n \in 1 .. W
      BY <2>1, <3>2, <3>4, MuxAssumption
    <3>6. o.wire = p.wire + n /\ o.wireFrames = p.wireFrames + 1 /\ o.grants = p.grants
      BY <2>4, <2>6, <3>1, <3>2, <3>3
    <3>7. o.window = p.window - n /\ n <= p.window /\ n <= MaxFrame
      BY <2>1, <2>5, <2>9, <3>2, <3>3
    <3> QED
      BY <3>3, <3>5, <3>6, <3>7 DEF Spends, SameDebts
  <2>16. Flows(q, u)
    <3>1. /\ q.queued = r.buffered /\ q.qFrames = r.frames /\ q.held = r.held /\ q.unacked = r.unacked
          /\ q.wire = Bytes(wire[y], s, "DATA") /\ q.wireFrames = Count(wire[y], s, "DATA")
          /\ q.grants = Bytes(wire[e], s, "WINDOW_UPDATE") /\ q.grants \in Nat
      <4> HIDE DEF y
      <4> QED
        BY <2>10, PurseNow
    <3>2. /\ u.window = q.window /\ u.queued = z.buffered /\ u.qFrames = z.frames
          /\ u.held = z.held /\ u.unacked = z.unacked
          /\ u.wire = Bytes(wire'[y], s, "DATA") /\ u.wireFrames = Count(wire'[y], s, "DATA")
          /\ u.grants = Bytes(wire'[e], s, "WINDOW_UPDATE")
      BY <2>2, <2>8, PurseSides
    <3> HIDE DEF q, u, y, r
    <3>3. u.grants = q.grants
      BY <2>4, <2>6, <3>1, <3>2
    <3> QED
      BY <2>6, <2>9, <3>1, <3>2, <3>3 DEF Flows, Rests, SameWindow, SameWire, SameQueue, SameDebts
  <2>17. \A c \in Ends : Has(wire'[c], s, "OPEN") => Has(wire[c], s, "OPEN")
    BY <2>4, <2>6, <2>10
  <2>18. Final(r, z) /\ (z.st = "absent" <=> r.st = "absent")
    BY <2>9 DEF Final
  <2> QED
    BY <1>2, <2>2, <2>6, <2>7, <2>8, <2>13, <2>14, <2>15, <2>16, <2>17, <2>18, LaneSides
<1> QED
  BY <1>3, <1>4, <1>5 DEF SendStep

\* A frame that carries no amount is sent.
LEMMA NeutralSent ==
    ASSUME IInv, LanesOK, NEW x \in Ends, NEW t \in Sids, NEW k \in {"EOF", "RESET"},
           wire' = Sent(x, Frame(k, t, 0))
    PROVE  /\ \A s \in Sids : s # t => \A d \in Ends : Quiet(wire[d], wire'[d], s)
           /\ Neutral(t) /\ Loaded(wire')
<1> DEFINE f == Frame(k, t, 0)
           y == Peer(x)
           up == mux[x].ws = "open"
<1>1. f \in Frames /\ f.ok /\ f.sid = t /\ f.type = k /\ f.n = 0
  <2>1. k \in FrameTypes /\ t \in 0 .. MaxSid /\ 0 \in Nat
    BY DEF FrameTypes, Sids
  <2> QED
    BY <2>1, FrameIs
<1> HIDE DEF f
<1>2. /\ \A s \in Sids : s # t => \A d \in Ends : Quiet(wire[d], wire'[d], s)
      /\ wire'[y] = wire[y]
      /\ \A c : Has(wire'[x], t, c) <=> Has(wire[x], t, c) \/ (up /\ f.type = c)
      /\ \A c : Bytes(wire'[x], t, c) = Bytes(wire[x], t, c) + (IF up /\ f.type = c THEN f.n ELSE 0)
      /\ \A c : Count(wire'[x], t, c) = Count(wire[x], t, c) + (IF up /\ f.type = c THEN 1 ELSE 0)
      /\ Loaded(wire) /\ (f.type \in {"DATA", "WINDOW_UPDATE"} => f.n > 0) => Loaded(wire')
  BY <1>1, LaneSent DEF f
<1>3. y \in Ends /\ \A d \in Ends : d = x \/ d = y
  BY PeerFacts
<1>4. wire[x] \in Seq(Frames)
  BY StreamFacts
<1>5. \A c : Bytes(wire[x], t, c) \in Nat /\ Count(wire[x], t, c) \in Nat
  BY <1>4, WireBytes, CountBounds
<1>6. /\ Has(wire'[x], t, "OPEN") => Has(wire[x], t, "OPEN")
      /\ Has(wire'[x], t, "DATA") => Has(wire[x], t, "DATA")
      /\ Bytes(wire'[x], t, "DATA") = Bytes(wire[x], t, "DATA")
      /\ Count(wire'[x], t, "DATA") = Count(wire[x], t, "DATA")
      /\ Bytes(wire'[x], t, "WINDOW_UPDATE") = Bytes(wire[x], t, "WINDOW_UPDATE")
  BY <1>1, <1>2, <1>5
<1> HIDE DEF y
<1>7. Neutral(t)
  BY <1>2, <1>3, <1>6 DEF Neutral
<1> QED
  BY <1>1, <1>2, <1>7 DEF LanesOK

\* send_eof() and the task of _send_reset().
LEMMA SendEofLanes ==
    ASSUME IInv, LanesOK, NEW e \in Ends, NEW s \in Sids, SendEof(e, s)
    PROVE  LanesKept
<1> DEFINE r == stream[e][s]
           z == [r EXCEPT !.ended = TRUE]
<1>1. r \in StreamRecs
  BY StreamFacts
<1>2. SetStream(e, s, z)
  BY Zenon DEF SendEof, SetStream
<1>3. SocketsFall
  BY SocketsKept DEF SendEof
<1>4. /\ \A t \in Sids : t # s => \A d \in Ends : Quiet(wire[d], wire'[d], t)
      /\ Neutral(s) /\ Loaded(wire')
  BY NeutralSent DEF SendEof
<1> HIDE DEF r
<1>5. z \in StreamRecs /\ SameAmounts(r, z) /\ z.recv = r.recv
  BY <1>1 DEF StreamRecs, SameAmounts
<1> HIDE DEF z
<1>6. Final(r, z)
  BY <1>5 DEF Final, SameAmounts
<1>7. Peer(e) \in Ends /\ Peer(Peer(e)) = e
  BY PeerFacts
<1>8. z.st = "live" /\ z.recv = "EOF" => ~Has(wire'[Peer(e)], s, "DATA")
  BY <1>4, <1>5, <1>7 DEF LanesOK, Drained, Neutral, SameAmounts, r
<1> QED
  BY <1>2, <1>3, <1>4, <1>5, <1>6, <1>8, LanesRest DEF r

LEMMA SendOnceLanes ==
    ASSUME IInv, LanesOK, NEW e \in Ends, NEW s \in Sids, SendOnce(e, s)
    PROVE  LanesKept
<1> DEFINE z == stream[e][s]
<1>1. z \in StreamRecs /\ SetStream(e, s, z)
  BY StreamFacts, Unassigned DEF SendOnce, IInv
<1>2. SocketsFall
  <2>1. mux' = [mux EXCEPT ![e].resetSends = @ \ {s}] /\ mux \in [Ends -> MuxRecs]
    BY DEF SendOnce, IInv, MuxTypes
  <2> QED
    BY <2>1 DEF SocketsFall, MuxRecs
<1>3. /\ \A t \in Sids : t # s => \A d \in Ends : Quiet(wire[d], wire'[d], t)
      /\ Neutral(s) /\ Loaded(wire')
  BY NeutralSent DEF SendOnce
<1>4. Final(z, z) /\ SameAmounts(z, z)
  BY DEF Final, SameAmounts
<1>5. Peer(e) \in Ends /\ Peer(Peer(e)) = e
  BY PeerFacts
<1>6. z.st = "live" /\ z.recv = "EOF" => ~Has(wire'[Peer(e)], s, "DATA")
  BY <1>3, <1>5 DEF LanesOK, Drained, Neutral
<1> QED
  BY <1>1, <1>2, <1>3, <1>4, <1>6, LanesRest

\* One of a stream's two lanes is not touched.
LEMMA SenderRests ==
    ASSUME IInv, NEW x \in Ends, NEW t \in Sids, NEW z \in StreamRecs, SetStream(x, t, z),
           z.window = stream[x][t].window,
           Bytes(wire'[x], t, "DATA") = Bytes(wire[x], t, "DATA"),
           Count(wire'[x], t, "DATA") = Count(wire[x], t, "DATA"),
           Bytes(wire'[Peer(x)], t, "WINDOW_UPDATE") = Bytes(wire[Peer(x)], t, "WINDOW_UPDATE")
    PROVE  Flows(Purse(x, t), Purse(x, t)')
<1> DEFINE y == Peer(x)
           p == Purse(x, t)
           o == Purse(x, t)'
<1>1. /\ p.window = stream[x][t].window /\ p.wire = Bytes(wire[x], t, "DATA")
      /\ p.wireFrames = Count(wire[x], t, "DATA") /\ p.grants = Bytes(wire[y], t, "WINDOW_UPDATE")
  BY PurseNow
<1>2. /\ o.window = z.window /\ SameQueue(p, o) /\ o.held = p.held /\ o.unacked = p.unacked
      /\ o.wire = Bytes(wire'[x], t, "DATA") /\ o.wireFrames = Count(wire'[x], t, "DATA")
      /\ o.grants = Bytes(wire'[y], t, "WINDOW_UPDATE")
  BY PurseSides
<1> HIDE DEF p, o
<1> QED
  BY <1>1, <1>2 DEF Flows, Rests, SameWindow, SameWire, SameDebts, p, o

LEMMA ReceiverRests ==
    ASSUME IInv, NEW x \in Ends, NEW t \in Sids, NEW z \in StreamRecs, SetStream(x, t, z),
           z.buffered = stream[x][t].buffered, z.frames = stream[x][t].frames,
           z.held = stream[x][t].held, z.unacked = stream[x][t].unacked,
           Bytes(wire'[Peer(x)], t, "DATA") = Bytes(wire[Peer(x)], t, "DATA"),
           Count(wire'[Peer(x)], t, "DATA") = Count(wire[Peer(x)], t, "DATA"),
           Bytes(wire'[x], t, "WINDOW_UPDATE") = Bytes(wire[x], t, "WINDOW_UPDATE")
    PROVE  Flows(Purse(Peer(x), t), Purse(Peer(x), t)')
<1> DEFINE y == Peer(x)
           r == stream[x][t]
           q == Purse(y, t)
           u == Purse(y, t)'
<1>1. y \in Ends /\ Peer(y) = x
  BY PeerFacts
<1>2. /\ q.queued = r.buffered /\ q.qFrames = r.frames /\ q.held = r.held /\ q.unacked = r.unacked
      /\ q.wire = Bytes(wire[y], t, "DATA") /\ q.wireFrames = Count(wire[y], t, "DATA")
      /\ q.grants = Bytes(wire[x], t, "WINDOW_UPDATE")
  <2> HIDE DEF y
  <2> QED
    BY <1>1, PurseNow
<1>3. /\ u.window = q.window /\ u.queued = z.buffered /\ u.qFrames = z.frames
      /\ u.held = z.held /\ u.unacked = z.unacked
      /\ u.wire = Bytes(wire'[y], t, "DATA") /\ u.wireFrames = Count(wire'[y], t, "DATA")
      /\ u.grants = Bytes(wire'[x], t, "WINDOW_UPDATE")
  BY PurseSides
<1> HIDE DEF q, u
<1> QED
  BY <1>2, <1>3 DEF Flows, Rests, SameWindow, SameWire, SameQueue, SameDebts, q, u

\* A queue without chunks is without bytes.
LEMMA NoFramesNoBytes ==
    ASSUME NEW r \in StreamRecs, QueuedFrames(r) = 0
    PROVE  QueuedBytes(r) = 0
<1> DEFINE q == r.incoming
           c == Counts(q)
<1>1. q \in Seq(Nat)
  BY DEF StreamRecs
<1>2. SumSeq(c) = 0 /\ QueuedBytes(r) = SumSeq(q)
  BY QueueTypes
<1> HIDE DEF q
<1>3. c \in Seq(Nat) /\ Len(c) = Len(q) /\ \A i \in 1 .. Len(q) : c[i] = IF q[i] = None THEN 0 ELSE 1
  BY <1>1, CountsType DEF Counts
<1> HIDE DEF c
<1>4. \A i \in 1 .. Len(c) : c[i] <= 0 /\ c[i] \in Nat
  BY <1>2, <1>3, SumBounds
<1>5. \A i \in 1 .. Len(q) : q[i] = 0
  BY <1>3, <1>4 DEF None
<1> QED
  BY <1>1, <1>2, <1>5, SumZero

\* read() takes a chunk out of the queue; the sentinel and what an aborted stream still
\* holds are no part of the lane.
LEMMA ReadLanes ==
    ASSUME IInv, Compliant, LanesOK, NEW e \in Ends, NEW s \in Sids, Read(e, s)
    PROVE  LanesKept
<1> DEFINE r == stream[e][s]
           y == Peer(e)
           n == Head(r.incoming)
           taken == [r EXCEPT !.incoming = Tail(@), !.held = n, !.over = n = None]
           counted == n # None /\ r.st = "live"
           z == IF counted THEN [taken EXCEPT !.buffered = @ - n, !.frames = @ - 1] ELSE taken
<1>1. r \in StreamRecs /\ StreamOK(r) /\ (r.st = "absent" => r = NoStream)
  BY StreamFacts
<1>2. r.incoming # <<>> /\ r.held = 0 /\ SetStream(e, s, z)
  BY Zenon DEF Read, Counted, SetStream
<1>3. /\ n \in Nat /\ z \in StreamRecs
      /\ z.st = r.st /\ z.recv = r.recv /\ z.window = r.window /\ z.held = n /\ z.unacked = r.unacked
      /\ z.buffered = (IF counted THEN r.buffered - n ELSE r.buffered)
      /\ z.frames = (IF counted THEN r.frames - 1 ELSE r.frames)
  BY <1>1, <1>2, ReadRecord
<1>4. z.incoming = Tail(r.incoming)
  <2>1. taken.incoming = Tail(r.incoming) /\ [taken EXCEPT !.buffered = @ - n, !.frames = @ - 1].incoming = taken.incoming
    BY <1>1 DEF StreamRecs
  <2> HIDE DEF taken
  <2> QED
    BY <2>1
<1>5. UNCHANGED wire
  BY DEF Read
<1>6. SocketsFall
  <2> DEFINE a == mux[e].buffered - n
             b == mux[e].frames - 1
             c == Released(e, mux[e].account, n)
  <2>1. mux' = mux \/ mux' = [mux EXCEPT ![e].buffered = a, ![e].frames = b, ![e].account = c]
    BY Zenon DEF Read
  <2> HIDE DEF a, b, c
  <2>2. mux \in [Ends -> MuxRecs]
    BY DEF IInv, MuxTypes
  <2> QED
    BY <2>1, <2>2 DEF SocketsFall, MuxRecs
<1> HIDE DEF z, taken
<1>7. r.st # "absent"
  BY <1>1, <1>2, NoStreamFields
<1>8. y \in Ends /\ y # e /\ Peer(y) = e
  BY PeerFacts
<1>9. stream'[e][s] = z /\ stream'[y][s] = stream[y][s]
  BY <1>2, <1>3, <1>8, PutStream DEF IInv
<1>10. Drained(e, s)' /\ Drained(y, s)'
  <2> HIDE DEF y
  <2> QED
    BY <1>3, <1>5, <1>8, <1>9 DEF LanesOK, Drained, y
<1>11. Flows(Purse(e, s), Purse(e, s)')
  BY <1>2, <1>3, <1>5, SenderRests
<1>12. LaneLive(y, s) => Flows(Purse(y, s), Purse(y, s)')
  <2> SUFFICES ASSUME LaneLive(y, s) PROVE Flows(Purse(y, s), Purse(y, s)')
    OBVIOUS
  <2>1. r.st = "live"
    <3>1. Has(wire[y], s, "OPEN") => r.st = "absent"
      BY LaneFacts
    <3> QED
      BY <1>7, <1>8, <3>1 DEF LaneLive, Live
  <2>2. CASE n = None
    <3>1. z.held = r.held /\ z.buffered = r.buffered /\ z.frames = r.frames
      BY <1>2, <1>3, <2>2 DEF None
    <3> QED
      BY <1>2, <1>3, <1>5, <3>1, ReceiverRests
  <2>3. CASE n # None
    <3> DEFINE q == Purse(y, s)
               u == Purse(y, s)'
    <3>1. /\ QueuedBytes(r) = n + QueuedBytes(z)
          /\ QueuedFrames(r) = 1 + QueuedFrames(z)
      BY <1>1, <1>2, <1>3, <1>4, <2>3, QueueTail
    <3>2. r.buffered = QueuedBytes(r) /\ r.frames = QueuedFrames(r)
      BY <1>1, <2>1 DEF StreamOK
    <3>3. /\ QueuedFrames(z) \in Nat /\ QueuedBytes(z) \in Nat /\ QueuedFrames(z) <= QueuedBytes(z)
          /\ QueuedFrames(z) = 0 => QueuedBytes(z) = 0
      BY <1>3, QueueTypes, NoFramesNoBytes
    <3>4. QueuedBytes(r) <= W
      <4> HIDE DEF y
      <4> QED
        BY <1>8, LaneFacts
    <3>5. /\ q.queued = r.buffered /\ q.qFrames = r.frames /\ q.held = r.held /\ q.unacked = r.unacked
          /\ q.wire = Bytes(wire[y], s, "DATA") /\ q.wireFrames = Count(wire[y], s, "DATA")
          /\ q.grants = Bytes(wire[e], s, "WINDOW_UPDATE")
      <4> HIDE DEF y
      <4> QED
        BY <1>8, PurseNow
    <3>6. /\ u.window = q.window /\ u.queued = z.buffered /\ u.qFrames = z.frames
          /\ u.held = z.held /\ u.unacked = z.unacked
          /\ u.wire = Bytes(wire'[y], s, "DATA") /\ u.wireFrames = Count(wire'[y], s, "DATA")
          /\ u.grants = Bytes(wire'[e], s, "WINDOW_UPDATE")
      BY <1>2, <1>3, PurseSides
    <3>7. z.buffered = r.buffered - n /\ z.frames = r.frames - 1
      BY <1>3, <2>1, <2>3
    <3> DEFINE b == QueuedBytes(z)
               c == QueuedFrames(z)
    <3> HIDE DEF q, u, b, c, n, r, y
    <3>8. /\ q.queued = n + b /\ q.qFrames = 1 + c /\ u.queued = (n + b) - n /\ u.qFrames = (1 + c) - 1
          /\ u.held = n /\ q.held = 0 /\ u.unacked = q.unacked
      BY <1>2, <1>3, <3>1, <3>2, <3>5, <3>6, <3>7 DEF b, c
    <3>9. n \in Nat /\ n # 0 /\ b \in Nat /\ c \in Nat /\ c <= b /\ (c = 0 => b = 0) /\ n + b <= W
      BY <1>3, <2>3, <3>1, <3>3, <3>4 DEF None, b, c
    <3>10. SameWindow(q, u) /\ SameWire(q, u) /\ SameDebts(q, u)
      BY <1>5, <3>5, <3>6, <3>8 DEF SameWindow, SameWire, SameDebts
    <3>11. n \in 1 .. W
      BY <3>9, MuxAssumption
    <3>12. /\ q.qFrames > 0 /\ n <= q.queued - (q.qFrames - 1)
           /\ q.qFrames = 1 => n = q.queued
           /\ u.queued = q.queued - n /\ u.qFrames = q.qFrames - 1
      BY <3>8, <3>9
    <3>13. Consumes(q, u)
      BY <3>8, <3>10, <3>11, <3>12 DEF Consumes
    <3> QED
      BY <3>13 DEF Flows, q, u
  <2> QED
    BY <2>2, <2>3
<1>13. Final(r, z) /\ (z.st = "absent" <=> r.st = "absent")
  BY <1>3 DEF Final
<1>14. /\ Loaded(wire') /\ \A t \in Sids : \A d \in Ends : Quiet(wire[d], wire'[d], t)
       /\ \A d \in Ends : Has(wire'[d], s, "OPEN") => Has(wire[d], s, "OPEN")
  BY <1>5 DEF LanesOK, Quiet
<1> QED
  BY <1>2, <1>3, <1>6, <1>10, <1>11, <1>12, <1>13, <1>14, LaneSides

\* ack() returns the credit of the chunk that was read, in one WINDOW_UPDATE per batch.
LEMMA AckLanes ==
    ASSUME IInv, Compliant, LanesOK, NEW e \in Ends, NEW s \in Sids, Ack(e, s)
    PROVE  LanesKept
<1> DEFINE r == stream[e][s]
           y == Peer(e)
           h == r.unacked + r.held
           z == Acked(r)
<1>1. r \in StreamRecs /\ (r.st = "absent" => r = NoStream)
  BY StreamFacts
<1>2. /\ r.held > 0 /\ SetStream(e, s, z)
      /\ wire' = IF ~AckDead(r) /\ h >= Threshold THEN Sent(e, Frame("WINDOW_UPDATE", s, h)) ELSE wire
  BY Zenon DEF Ack, SetStream
<1>3. h \in Nat /\ h > 0 /\ r.held \in Nat /\ r.unacked \in Nat /\ Threshold \in Nat
  <2>1. r.held \in Nat /\ r.unacked \in Nat /\ W \in Nat
    BY <1>1, MuxAssumption DEF StreamRecs
  <2>2. Threshold \in Nat
    BY <2>1 DEF Threshold
  <2> QED
    BY <1>2, <2>1, <2>2
<1>4. r.st # "absent"
  BY <1>1, <1>2, NoStreamFields
<1>5. SocketsFall
  BY SocketsKept DEF Ack
<1>6. /\ z \in StreamRecs /\ z.st = r.st /\ z.recv = r.recv /\ z.window = r.window
      /\ z.buffered = r.buffered /\ z.frames = r.frames /\ z.held = 0
      /\ ~AckDead(r) => z.unacked = IF h >= Threshold THEN 0 ELSE h
  <2>1. AckDead(r) => z = [r EXCEPT !.held = 0]
    BY DEF Acked
  <2>2. ~AckDead(r) => z = [r EXCEPT !.held = 0, !.unacked = IF h >= Threshold THEN 0 ELSE h]
    BY DEF Acked
  <2> DEFINE k == IF h >= Threshold THEN 0 ELSE h
  <2>3. k \in Nat
    BY <1>3
  <2> HIDE DEF z, k
  <2>4. CASE AckDead(r)
    <3>1. z = [r EXCEPT !.held = 0]
      BY <2>1, <2>4
    <3>2. /\ z \in StreamRecs /\ z.st = r.st /\ z.recv = r.recv /\ z.window = r.window
          /\ z.buffered = r.buffered /\ z.frames = r.frames /\ z.held = 0
      <4> HIDE DEF r
      <4> QED
        BY <1>1, <3>1 DEF StreamRecs
    <3> QED
      BY <2>4, <3>2
  <2>5. CASE ~AckDead(r)
    <3>1. z = [r EXCEPT !.held = 0, !.unacked = k]
      BY <2>2, <2>5 DEF k
    <3> HIDE DEF r
    <3>2. /\ z \in StreamRecs /\ z.st = r.st /\ z.recv = r.recv /\ z.window = r.window
          /\ z.buffered = r.buffered /\ z.frames = r.frames /\ z.held = 0 /\ z.unacked = k
      BY <1>1, <2>3, <3>1 DEF StreamRecs
    <3> QED
      BY <2>5, <3>2 DEF k
  <2> QED
    BY <2>4, <2>5
<1> HIDE DEF z
<1>7. y \in Ends /\ y # e /\ Peer(y) = e /\ \A d \in Ends : d = e \/ d = y
  BY PeerFacts
<1>8. stream'[e][s] = z /\ stream'[y][s] = stream[y][s]
  BY <1>2, <1>6, <1>7, PutStream DEF IInv
<1>9. LaneLive(y, s) => ~AckDead(r) /\ mux[e].ws = "open"
  <2>1. Has(wire[y], s, "OPEN") => r.st = "absent"
    BY LaneFacts
  <2> QED
    BY <1>4, <1>7, <2>1 DEF LaneLive, Live, AckDead
<1>10. Final(r, z) /\ (z.st = "absent" <=> r.st = "absent")
  BY <1>6 DEF Final
<1>11. /\ Purse(y, s).queued = r.buffered /\ Purse(y, s).qFrames = r.frames /\ Purse(y, s).held = r.held
       /\ Purse(y, s).unacked = r.unacked
       /\ Purse(y, s).wire = Bytes(wire[y], s, "DATA") /\ Purse(y, s).wireFrames = Count(wire[y], s, "DATA")
       /\ Purse(y, s).grants = Bytes(wire[e], s, "WINDOW_UPDATE") /\ Purse(y, s).grants \in Nat
  <2> HIDE DEF y
  <2> QED
    BY <1>7, PurseNow
<1> DEFINE q == Purse(y, s)
           u == Purse(y, s)'
<1>12. /\ u.window = q.window /\ u.queued = z.buffered /\ u.qFrames = z.frames
       /\ u.held = z.held /\ u.unacked = z.unacked
       /\ u.wire = Bytes(wire'[y], s, "DATA") /\ u.wireFrames = Count(wire'[y], s, "DATA")
       /\ u.grants = Bytes(wire'[e], s, "WINDOW_UPDATE")
  BY <1>2, <1>6, PurseSides
<1>13. CASE AckDead(r) \/ ~(h >= Threshold)
  <2>1. wire' = wire
    BY <1>2, <1>13
  <2>2. /\ Loaded(wire') /\ \A t \in Sids : \A d \in Ends : Quiet(wire[d], wire'[d], t)
        /\ \A d \in Ends : Has(wire'[d], s, "OPEN") => Has(wire[d], s, "OPEN")
    BY <2>1 DEF LanesOK, Quiet
  <2>3. Drained(e, s)' /\ Drained(y, s)'
    <3> HIDE DEF y
    <3> QED
      BY <1>6, <1>7, <1>8, <2>1 DEF LanesOK, Drained, y
  <2>4. Flows(Purse(e, s), Purse(e, s)')
    BY <1>2, <1>6, <2>1, SenderRests
  <2>5. ASSUME LaneLive(y, s) PROVE Flows(q, u)
    <3>1. ~(h >= Threshold) /\ z.unacked = h
      BY <1>6, <1>9, <1>13, <2>5
    <3>2. r.unacked + r.held < Threshold /\ u.unacked = r.unacked + r.held
      BY <1>3, <1>12, <3>1
    <3> HIDE DEF q, u, r, y
    <3>3. q.unacked + q.held < Threshold /\ u.unacked = q.unacked + q.held /\ q.held > 0 /\ u.held = 0 /\ u.grants = q.grants
      BY <1>2, <1>6, <1>11, <1>12, <2>1, <3>2 DEF q
    <3>4. SameWindow(q, u) /\ SameWire(q, u) /\ SameQueue(q, u)
      BY <1>6, <1>11, <1>12, <2>1 DEF SameWindow, SameWire, SameQueue, q
    <3> QED
      BY <3>3, <3>4 DEF Flows, Returns
  <2> QED
    BY <1>2, <1>5, <1>6, <1>10, <2>2, <2>3, <2>4, <2>5, LaneSides
<1>14. CASE ~AckDead(r) /\ h >= Threshold
  <2> DEFINE f == Frame("WINDOW_UPDATE", s, h)
             up == mux[e].ws = "open"
  <2>1. wire' = Sent(e, f)
    BY <1>2, <1>14
  <2>2. f \in Frames /\ f.ok /\ f.sid = s /\ f.type = "WINDOW_UPDATE" /\ f.n = h
    <3>1. "WINDOW_UPDATE" \in FrameTypes /\ s \in 0 .. MaxSid
      BY DEF FrameTypes, Sids
    <3> HIDE DEF h
    <3> QED
      BY <1>3, <3>1, FrameIs
  <2> HIDE DEF f, h
  <2>3. /\ \A t \in Sids : t # s => \A d \in Ends : Quiet(wire[d], wire'[d], t)
        /\ wire'[y] = wire[y]
        /\ \A k : Has(wire'[e], s, k) <=> Has(wire[e], s, k) \/ (up /\ f.type = k)
        /\ \A k : Bytes(wire'[e], s, k) = Bytes(wire[e], s, k) + (IF up /\ f.type = k THEN f.n ELSE 0)
        /\ \A k : Count(wire'[e], s, k) = Count(wire[e], s, k) + (IF up /\ f.type = k THEN 1 ELSE 0)
        /\ Loaded(wire) /\ (f.type \in {"DATA", "WINDOW_UPDATE"} => f.n > 0) => Loaded(wire')
    BY <2>1, <2>2, LaneSent
  <2>4. Loaded(wire')
    BY <1>3, <2>2, <2>3 DEF LanesOK
  <2>5. wire[e] \in Seq(Frames)
    BY StreamFacts
  <2>6. Bytes(wire[e], s, "DATA") \in Nat /\ Count(wire[e], s, "DATA") \in Nat
    BY <2>5, WireBytes, CountBounds
  <2>7. /\ Has(wire'[e], s, "OPEN") => Has(wire[e], s, "OPEN")
        /\ Has(wire'[e], s, "DATA") => Has(wire[e], s, "DATA")
        /\ Bytes(wire'[e], s, "DATA") = Bytes(wire[e], s, "DATA")
        /\ Count(wire'[e], s, "DATA") = Count(wire[e], s, "DATA")
        /\ Bytes(wire'[e], s, "WINDOW_UPDATE") = Bytes(wire[e], s, "WINDOW_UPDATE") + (IF up THEN h ELSE 0)
    BY <2>2, <2>3, <2>6
  <2>8. Drained(e, s)' /\ Drained(y, s)'
    <3> HIDE DEF y
    <3> QED
      BY <1>6, <1>7, <1>8, <2>3, <2>7 DEF LanesOK, Drained, y
  <2>9. Flows(Purse(e, s), Purse(e, s)')
    BY <1>2, <1>6, <2>3, <2>7, SenderRests
  <2>10. ASSUME LaneLive(y, s) PROVE Flows(q, u)
    <3>1. up
      BY <1>9, <2>10
    <3>2. z.unacked = 0 /\ r.unacked + r.held >= Threshold /\ u.grants = q.grants + h
      BY <1>6, <1>11, <1>12, <1>14, <2>7, <3>1 DEF h
    <3> HIDE DEF q, u, r, y
    <3>3. q.grants + h = q.grants + q.unacked + q.held
      <4>1. h = q.unacked + q.held /\ q.unacked \in Nat /\ q.held \in Nat /\ q.grants \in Nat
        BY <1>3, <1>11 DEF h, q
      <4> QED
        BY <4>1
    <3>4. q.unacked + q.held >= Threshold /\ u.unacked = 0 /\ q.held > 0 /\ u.held = 0
      BY <1>2, <1>6, <1>11, <1>12, <3>2 DEF q
    <3>5. SameWindow(q, u) /\ SameWire(q, u) /\ SameQueue(q, u)
      BY <1>6, <1>11, <1>12, <2>3 DEF SameWindow, SameWire, SameQueue, q, y
    <3> QED
      BY <3>2, <3>3, <3>4, <3>5 DEF Flows, Returns
  <2>11. \A d \in Ends : Has(wire'[d], s, "OPEN") => Has(wire[d], s, "OPEN")
    BY <1>7, <2>3, <2>7
  <2> QED
    BY <1>2, <1>5, <1>6, <1>10, <2>3, <2>4, <2>8, <2>9, <2>10, <2>11, LaneSides
<1> QED
  BY <1>13, <1>14

\* A stream is torn down: both its lanes are gone.
LEMMA LanesTorn ==
    ASSUME IInv, Compliant, LanesOK, SocketsFall, NEW x \in Ends, NEW t \in Sids, NEW z \in StreamRecs,
           SetStream(x, t, z), stream[x][t].st = "live", z.st = "closed", Final(stream[x][t], z),
           \A s \in Sids : s # t => \A d \in Ends : Quiet(wire[d], wire'[d], s),
           \A d \in Ends : Has(wire'[d], t, "OPEN") => Has(wire[d], t, "OPEN"),
           Has(wire'[x], t, "DATA") => Has(wire[x], t, "DATA"),
           Loaded(wire')
    PROVE  LanesKept
<1> DEFINE y == Peer(x)
<1>1. y \in Ends /\ y # x /\ Peer(y) = x
  BY PeerFacts
<1>2. stream'[x][t] = z /\ stream'[y][t] = stream[y][t]
  BY <1>1, PutStream DEF IInv
<1>3. Drained(x, t)' /\ Drained(y, t)'
  <2> HIDE DEF y
  <2> QED
    BY <1>1, <1>2 DEF LanesOK, Drained, y
<1>4. ~LaneLive(x, t)'
  BY <1>2 DEF LaneLive, Live
<1>5. ~LaneLive(y, t)'
  <2>1. ~Has(wire'[y], t, "OPEN")
    BY <1>1, LaneFacts
  <2> HIDE DEF y
  <2> QED
    BY <1>1, <1>2, <2>1 DEF LaneLive, Live
<1> QED
  BY <1>3, <1>4, <1>5, LaneSides

\* What _close_local makes of a record.
LEMMA TornRecord ==
    ASSUME IInv, NEW e \in Ends, NEW s \in Sids, NEW t \in {"EOF", "RESET"}, stream[e][s].st = "live",
           NEW z, z = Closed(stream[e][s], t) \/ z = [Closed(stream[e][s], t) EXCEPT !.resetTask = FALSE]
    PROVE  z \in StreamRecs /\ z.st = "closed" /\ Final(stream[e][s], z)
<1> DEFINE r == stream[e][s]
<1>1. r \in StreamRecs /\ StreamOK(r)
  BY StreamFacts
<1>2. TornDownTo(z, r, t)
  BY <1>1, ClosedRecord
<1> QED
  BY <1>2 DEF TornDownTo, Final

\* The reconciliation leaves the socket alone.
LEMMA ReconciledSockets ==
    ASSUME IInv, NEW e \in Ends, NEW r, mux' = [mux EXCEPT ![e] = Reconciled(e, @, r)]
    PROVE  SocketsFall
<1> DEFINE a == mux[e].buffered - r.buffered
           b == mux[e].frames - r.frames
           c == Released(e, mux[e].account, r.buffered)
           m == [mux[e] EXCEPT !.buffered = a, !.frames = b, !.account = c]
<1>1. mux \in [Ends -> MuxRecs] /\ mux[e] \in MuxRecs
  BY DEF IInv, MuxTypes
<1>2. mux' = [mux EXCEPT ![e] = m]
  BY Zenon DEF Reconciled
<1> HIDE DEF a, b, c
<1>3. m.ws = mux[e].ws
  BY <1>1 DEF MuxRecs
<1> HIDE DEF m
<1>4. mux'[e].ws = mux[e].ws /\ \A d \in Ends : d # e => mux'[d] = mux[d]
  BY <1>1, <1>2, <1>3
<1> QED
  BY <1>4 DEF SocketsFall

\* reset(), the task of reset(), and close().
LEMMA TeardownLanes ==
    ASSUME IInv, Compliant, LanesOK, NEW e \in Ends, NEW s \in Sids,
           Reset(e, s) \/ ResetTask(e, s) \/ Close(e, s)
    PROVE  LanesKept
<1> DEFINE r == stream[e][s]
<1>1. mux' = [mux EXCEPT ![e] = Reconciled(e, @, r)]
  BY Zenon DEF Reset, ResetNow, CloseLocal, ResetTask, Close, CloseNow
<1>2. SocketsFall
  BY <1>1, ReconciledSockets
<1>3. \/ wire' = wire /\ (Close(e, s) \/ r.st # "live")
      \/ wire' = Sent(e, Frame("RESET", s, 0))
  BY Zenon DEF Reset, ResetNow, ResetTask, Close, CloseNow
<1>4. /\ \A t \in Sids : t # s => \A d \in Ends : Quiet(wire[d], wire'[d], t)
      /\ \A d \in Ends : Has(wire'[d], s, "OPEN") => Has(wire[d], s, "OPEN")
      /\ Has(wire'[e], s, "DATA") => Has(wire[e], s, "DATA")
      /\ Loaded(wire')
  <2>1. CASE wire' = wire
    BY <2>1 DEF Quiet, LanesOK
  <2>2. CASE wire' = Sent(e, Frame("RESET", s, 0))
    BY <2>2, NeutralSent DEF Neutral
  <2> QED
    BY <1>3, <2>1, <2>2
<1>5. \E z : /\ SetStream(e, s, z)
             /\ \E t \in {"EOF", "RESET"} : z = Closed(r, t) \/ z = [Closed(r, t) EXCEPT !.resetTask = FALSE]
  <2>1. CASE Reset(e, s)
    BY <2>1, Zenon DEF Reset, ResetNow, CloseLocal, SetStream
  <2>2. CASE ResetTask(e, s)
    BY <2>2, Zenon DEF ResetTask, SetStream
  <2>3. CASE Close(e, s)
    BY <2>3, Zenon DEF Close, CloseNow, CloseLocal, SetStream
  <2> QED
    BY <2>1, <2>2, <2>3
<1>6. PICK z : /\ SetStream(e, s, z)
               /\ \E t \in {"EOF", "RESET"} : z = Closed(r, t) \/ z = [Closed(r, t) EXCEPT !.resetTask = FALSE]
  BY <1>5
<1>7. CASE r.st = "live"
  <2>1. z \in StreamRecs /\ z.st = "closed" /\ Final(r, z)
    BY <1>6, <1>7, TornRecord
  <2> QED
    BY <1>2, <1>4, <1>6, <1>7, <2>1, LanesTorn
<1>8. CASE r.st # "live"
  <2>1. ResetTask(e, s) /\ wire' = wire
    BY <1>8 DEF Reset, ResetNow, Close, CloseNow, ResetTask, Live
  <2>2. r \in StreamRecs
    BY StreamFacts
  <2>3. z = r \/ z = [r EXCEPT !.resetTask = FALSE]
    BY <1>6, <1>8 DEF Closed
  <2> HIDE DEF r
  <2>4. z \in StreamRecs /\ SameAmounts(r, z) /\ z.recv = r.recv
    BY <2>2, <2>3 DEF StreamRecs, SameAmounts
  <2> QED
    BY <1>2, <1>6, <2>1, <2>4, LanesIdle DEF r
<1> QED
  BY <1>7, <1>8

\* run() is over: the connection takes every lane with it.
LEMMA StopLanes ==
    ASSUME IInv, LanesOK, NEW e \in Ends, NEW m \in MuxRecs, m.ws # "open", StopRun(e, m)
    PROVE  LanesKept
<1> DEFINE y == Peer(e)
<1>1. y \in Ends /\ y # e /\ Peer(y) = e /\ \A d \in Ends : d = e \/ d = y
  BY PeerFacts
<1>2. /\ stream \in [Ends -> [Sids -> StreamRecs]] /\ mux \in [Ends -> MuxRecs]
      /\ wire \in [Ends -> Seq(Frames)]
  BY DEF IInv, MuxTypes
<1>3. /\ stream' = [stream EXCEPT ![e] = [s \in Sids |-> Stopped(stream[e][s])]]
      /\ wire' = [wire EXCEPT ![y] = <<>>]
  BY Zenon DEF StopRun, Stopped
<1>4. mux'[e].ws # "open"
  <2> DEFINE bytes == SumSeq([s \in Sids |-> IF Live(e, s) THEN stream[e][s].buffered ELSE 0])
             count == SumSeq([s \in Sids |-> IF Live(e, s) THEN stream[e][s].frames ELSE 0])
             a == m.buffered - bytes
             b == m.frames - count
             c == Released(e, m.account, bytes)
             n == [m EXCEPT !.buffered = a, !.frames = b, !.account = c, !.running = FALSE, !.resetSends = {}]
  <2>1. mux' = [mux EXCEPT ![e] = n]
    BY Zenon DEF StopRun
  <2> HIDE DEF a, b, c
  <2>2. n.ws = m.ws
    BY DEF MuxRecs
  <2> HIDE DEF n
  <2> QED
    BY <1>2, <2>1, <2>2
<1>5. wire'[y] = <<>> /\ wire'[e] = wire[e]
  BY <1>1, <1>2, <1>3
<1>6. Loaded(wire')
  <2>1. DOMAIN <<>> = {}
    OBVIOUS
  <2> QED
    BY <1>1, <1>5, <2>1 DEF LanesOK, Loaded
<1>7. ASSUME NEW s \in Sids
      PROVE  /\ stream'[e][s].st # "live" /\ stream'[y][s] = stream[y][s]
             /\ stream[e][s].st # "absent" => stream'[e][s].st # "absent"
  <2>1. stream[e][s] \in StreamRecs /\ StreamOK(stream[e][s])
    BY StreamFacts
  <2>2. stream'[e][s] = Stopped(stream[e][s]) /\ stream'[y][s] = stream[y][s]
    BY <1>1, <1>2, <1>3
  <2>3. LET z == Stopped(stream[e][s])
            r == stream[e][s]
        IN z.st # "live" /\ z.st = (IF r.st = "live" THEN "closed" ELSE r.st)
    BY <2>1, StoppedRecord
  <2> QED
    BY <2>2, <2>3
<1>8. ASSUME NEW d \in Ends, NEW s \in Sids PROVE LaneStep(d, s) /\ Drained(d, s)'
  <2>1. ~LaneLive(d, s)'
    <3>1. CASE d = e
      BY <1>4, <3>1 DEF LaneLive
    <3>2. CASE d = y
      BY <1>1, <1>4, <3>2 DEF LaneLive
    <3> QED
      BY <1>1, <3>1, <3>2
  <2>2. stream[d][s].st # "absent" => stream'[d][s].st # "absent"
    BY <1>1, <1>7
  <2>3. LaneStep(d, s)
    BY <2>1, <2>2, LaneDecides
  <2>4. Drained(d, s)'
    <3>1. CASE d = e
      BY <1>5, <1>7, <3>1 DEF LanesOK, Drained
    <3>2. CASE d = y
      BY <1>1, <1>7, <3>2 DEF Drained
    <3> QED
      BY <1>1, <3>1, <3>2
  <2> QED
    BY <2>3, <2>4
<1> QED
  BY <1>6, <1>8 DEF LanesKept

\* GOAWAY, the sockets, and the end of run().
LEMMA ConnectionLanes ==
    ASSUME IInv, LanesOK, NEW e \in Ends, Connection(e)
    PROVE  LanesKept
<1>1. /\ mux \in [Ends -> MuxRecs] /\ mux[e] \in MuxRecs /\ mux[Peer(e)] \in MuxRecs
      /\ Peer(e) \in Ends /\ Peer(e) # e
  BY PeerFacts DEF IInv, MuxTypes
<1>2. CASE GoAway(e)
  <2> DEFINE f == Frame("GOAWAY", 0, 0)
  <2>1. SocketsFall
    BY <1>1, <1>2 DEF GoAway, SocketsFall, MuxRecs
  <2>2. f \in Frames /\ f.ok /\ f.sid = 0 /\ f.type = "GOAWAY"
    BY MuxAssumption DEF Frame, Frames, FrameTypes
  <2>3. wire' = Sent(e, f)
    BY <1>2 DEF GoAway
  <2> HIDE DEF f
  <2>4. /\ wire'[Peer(e)] = wire[Peer(e)]
        /\ wire'[e] = IF mux[e].ws = "open" THEN Append(wire[e], f) ELSE wire[e]
        /\ \A x : x # f.sid => \A d \in Ends : Quiet(wire[d], wire'[d], x)
    BY <2>2, <2>3, SentWire
  <2>5. \A s \in Sids : \A d \in Ends : Quiet(wire[d], wire'[d], s)
    BY <2>2, <2>4 DEF Sids
  <2>6. Loaded(wire')
    <3> DEFINE w == wire[e]
               v == Append(w, f)
    <3>1. w \in Seq(Frames)
      BY DEF IInv, MuxTypes
    <3> HIDE DEF w
    <3>2. \A i \in DOMAIN v : (i \in DOMAIN w /\ v[i] = w[i]) \/ v[i] = f
      BY <2>2, <3>1
    <3> HIDE DEF v
    <3>3. wire'[e] = v \/ wire'[e] = w
      BY <2>4 DEF v, w
    <3>4. \A d \in Ends : d = e \/ d = Peer(e)
      BY PeerFacts
    <3>5. \A i \in DOMAIN w : w[i].type \in {"DATA", "WINDOW_UPDATE"} => w[i].n > 0
      BY DEF LanesOK, Loaded, w
    <3>6. \A i \in DOMAIN wire'[e] : wire'[e][i].type \in {"DATA", "WINDOW_UPDATE"} => wire'[e][i].n > 0
      BY <2>2, <3>2, <3>3, <3>5
    <3> QED
      BY <2>4, <3>4, <3>6 DEF LanesOK, Loaded
  <2>7. UNCHANGED stream
    BY <1>2 DEF GoAway
  <2> QED
    BY <2>1, <2>5, <2>6, <2>7, LanesStill
<1>3. CASE DrainClose(e) \/ Lose(e) \/ Notice(e)
  <2>1. UNCHANGED <<stream, wire>>
    BY <1>3 DEF DrainClose, Lose, Notice
  <2>2. SocketsFall
    <3>1. CASE DrainClose(e)
      BY <1>1, <3>1 DEF DrainClose, SocketsFall, MuxRecs
    <3>2. CASE Lose(e)
      BY <1>1, <3>2 DEF Lose, SocketsFall, MuxRecs
    <3>3. CASE Notice(e)
      BY <1>1, <3>3 DEF Notice, SocketsFall, MuxRecs
    <3> QED
      BY <1>3, <3>1, <3>2, <3>3
  <2>3. Loaded(wire') /\ \A s \in Sids : \A d \in Ends : Quiet(wire[d], wire'[d], s)
    BY <2>1 DEF LanesOK, Quiet
  <2> QED
    BY <2>1, <2>2, <2>3, LanesStill
<1>4. CASE RunEnds(e)
  <2>1. mux[e].ws # "open" /\ StopRun(e, mux[e])
    BY <1>4 DEF RunEnds
  <2> QED
    BY <1>1, <2>1, StopLanes
<1> QED
  BY <1>2, <1>3, <1>4 DEF Connection

\* Only the two lanes of one stream are in question.
LEMMA LanesBut ==
    ASSUME IInv, LanesOK, SocketsFall, NEW x \in Ends, NEW t \in Sids, NEW z \in StreamRecs,
           SetStream(x, t, z), Loaded(wire'),
           \A s \in Sids : s # t => \A d \in Ends : Quiet(wire[d], wire'[d], s),
           LaneStep(x, t), LaneStep(Peer(x), t), Drained(x, t)', Drained(Peer(x), t)'
    PROVE  LanesKept
<1>1. \A d \in Ends : d = x \/ d = Peer(x)
  BY PeerFacts
<1>2. \A d \in Ends, s \in Sids : d # x \/ s # t => stream'[d][s] = stream[d][s]
  BY PutStream DEF IInv
<1>3. ASSUME NEW e \in Ends, NEW s \in Sids PROVE LaneStep(e, s) /\ Drained(e, s)'
  <2>1. CASE s = t
    BY <1>1, <2>1
  <2>2. CASE s # t
    <3>1. \A d \in Ends : stream'[d][s] = stream[d][s] /\ Quiet(wire[d], wire'[d], s)
      BY <1>2, <2>2
    <3> QED
      BY <3>1, LaneStill
  <2> QED
    BY <2>1, <2>2
<1> QED
  BY <1>3 DEF LanesKept

\* Nothing but a RESET is under way for stream s.
Unheard(s) == \A d \in Ends : \A k \in FrameTypes : Has(wire[d], s, k) => k = "RESET"

\* A stream that did not exist begins the lane from its opener.
LEMMA LaneOpened ==
    ASSUME IInv, LanesOK, SocketsFall, NEW x \in Ends, NEW s \in Sids, NEW z \in StreamRecs,
           NEW f \in Frames, f.ok, f.sid = s, f.type = "OPEN", f.n = 0,
           SetStream(x, s, z), wire' = Sent(x, f),
           stream[x][s].st = "absent", stream[Peer(x)][s].st = "absent",
           z.st = "live" => z.recv = "OPEN" /\ z.window = W, z.st # "absent",
           Unheard(s)
    PROVE  LanesKept
<1> DEFINE y == Peer(x)
           up == mux[x].ws = "open"
<1>1. y \in Ends /\ y # x /\ Peer(y) = x
  BY PeerFacts
<1>2. /\ \A t \in Sids : t # s => \A d \in Ends : Quiet(wire[d], wire'[d], t)
      /\ wire'[y] = wire[y]
      /\ \A k : Has(wire'[x], s, k) <=> Has(wire[x], s, k) \/ (up /\ f.type = k)
      /\ \A k : Bytes(wire'[x], s, k) = Bytes(wire[x], s, k) + (IF up /\ f.type = k THEN f.n ELSE 0)
      /\ \A k : Count(wire'[x], s, k) = Count(wire[x], s, k) + (IF up /\ f.type = k THEN 1 ELSE 0)
      /\ Loaded(wire) /\ (f.type \in {"DATA", "WINDOW_UPDATE"} => f.n > 0) => Loaded(wire')
  BY LaneSent
<1>3. Loaded(wire')
  BY <1>2 DEF LanesOK
<1>4. stream'[x][s] = z /\ stream'[y][s] = stream[y][s]
  BY <1>1, PutStream DEF IInv
<1>5. Drained(x, s)' /\ Drained(y, s)'
  <2> HIDE DEF y
  <2>1. stream'[y][s].st = "absent"
    BY <1>4 DEF y
  <2>2. stream'[x][s].st = "live" => stream'[x][s].recv = "OPEN"
    BY <1>4
  <2> QED
    BY <1>1, <2>1, <2>2 DEF Drained, y
<1>6. ~LaneLive(y, s)' /\ ~LaneLive(y, s)
  <2> HIDE DEF y
  <2> QED
    BY <1>4 DEF LaneLive, Live, y
<1>7. LaneStep(y, s)
  BY <1>1, <1>4, <1>6, LaneDecides
<1>8. LaneLive(x, s)' => Whole(Purse(x, s)')
  <2> SUFFICES ASSUME LaneLive(x, s)' PROVE Whole(Purse(x, s)')
    OBVIOUS
  <2>1. z.st = "live"
    BY <1>4 DEF LaneLive, Live
  <2>2. wire[x] \in Seq(Frames) /\ wire[y] \in Seq(Frames)
    BY <1>1, StreamFacts
  <2>3. ~Has(wire[x], s, "DATA") /\ ~Has(wire[y], s, "WINDOW_UPDATE")
    BY <1>1 DEF Unheard, FrameTypes
  <2>4. /\ Bytes(wire[x], s, "DATA") = 0 /\ Count(wire[x], s, "DATA") = 0
        /\ Bytes(wire[y], s, "WINDOW_UPDATE") = 0
    BY <2>2, <2>3, WireBytes, CountBounds
  <2>5. /\ Bytes(wire'[x], s, "DATA") = 0 /\ Count(wire'[x], s, "DATA") = 0
        /\ Bytes(wire'[y], s, "WINDOW_UPDATE") = 0
    BY <1>2, <2>4
  <2>6. stream[y][s] = NoStream
    BY <1>1, StreamFacts
  <2> DEFINE p == Purse(x, s)
             o == Purse(x, s)'
  <2>7. p.queued = 0 /\ p.qFrames = 0 /\ p.held = 0 /\ p.unacked = 0
    BY <1>1, <2>6, PurseNow, NoStreamFields
  <2>8. /\ o.window = z.window /\ SameQueue(p, o) /\ o.held = p.held /\ o.unacked = p.unacked
        /\ o.wire = Bytes(wire'[x], s, "DATA") /\ o.wireFrames = Count(wire'[x], s, "DATA")
        /\ o.grants = Bytes(wire'[y], s, "WINDOW_UPDATE")
    BY PurseSides
  <2> HIDE DEF p, o
  <2> QED
    BY <2>1, <2>5, <2>7, <2>8 DEF Whole, SameQueue, o
<1>9. ~LaneLive(x, s)
  BY DEF LaneLive, Live
<1>10. LaneStep(x, s)
  BY <1>8, <1>9, LaneDecides
<1> QED
  BY <1>2, <1>3, <1>5, <1>7, <1>10, LanesBut

\* open().
LEMMA OpenLanes ==
    ASSUME IInv, Compliant, LanesOK, Open
    PROVE  LanesKept
<1> DEFINE z == IF mux[Server].ws = "open" THEN NewStream ELSE Closed(NewStream, "EOF")
<1>1. nextId \in Sids /\ Server \in Ends /\ Agent \in Ends /\ Peer(Server) = Agent
  BY MuxAssumption DEF Open, IInv, MuxTypes, Sids, Ends, Peer, Server, Agent
<1>2. SetStream(Server, nextId, z) /\ wire' = Sent(Server, Frame("OPEN", nextId, 0))
  BY Zenon DEF Open, SetStream
<1>3. SocketsFall
  BY SocketsKept DEF Open
<1>4. "OPEN" \in FrameTypes /\ nextId \in 0 .. MaxSid /\ 0 \in Nat
  BY <1>1 DEF FrameTypes, Sids
<1>5. z \in StreamRecs
  BY NoStreamFields, NewStreamOK, ClosedRecord DEF TornDownTo
<1>6. (z.st = "live" => z.recv = "OPEN" /\ z.window = W) /\ z.st # "absent"
  BY NoStreamFields, NewStreamOK, ClosedRecord DEF TornDownTo
<1> HIDE DEF z
<1>7. stream[Server][nextId].st = "absent"
  BY <1>1 DEF IInv, Fresh, Sids
<1>8. stream[Agent][nextId].st = "absent"
  BY <1>1, <1>7, LaneFacts
<1>9. Unheard(nextId)
  <2>1. \A d \in Ends : stream[d][nextId].st = "absent"
    BY <1>7, <1>8 DEF Ends
  <2> QED
    BY <1>1, <2>1, LaneFacts DEF Unheard
<1>10. PICK f \in Frames : f = Frame("OPEN", nextId, 0)
  BY <1>4, FrameIs
<1>11. f.ok /\ f.sid = nextId /\ f.type = "OPEN" /\ f.n = 0
  BY <1>4, <1>10, FrameIs
<1>12. stream[Peer(Server)][nextId].st = "absent"
  BY <1>1, <1>8
<1>13. wire' = Sent(Server, f)
  BY <1>2, <1>10
<1> QED
  BY <1>1, <1>2, <1>3, <1>5, <1>6, <1>7, <1>9, <1>11, <1>12, <1>13, LaneOpened

\* An accepted OPEN begins the lane from the agent.
LEMMA AcceptLanes ==
    ASSUME IInv, Compliant, LanesOK, NEW x \in Ends, NEW t \in Sids, wire[Peer(x)] # <<>>,
           Arrived(x).sid = t, Arrived(x).type = "OPEN",
           wire' = Taken(x), UNCHANGED mux, SetStream(x, t, NewStream)
    PROVE  LanesKept
<1> DEFINE y == Peer(x)
           f == Arrived(x)
           z == NewStream
           r == stream[x][t]
           q == stream[y][t]
<1>1. y \in Ends /\ y # x /\ Peer(y) = x
  BY PeerFacts
<1>2. SocketsFall
  BY SocketsKept
<1>3. /\ \A s \in Sids : s # f.sid => \A d \in Ends : Quiet(wire[d], wire'[d], s)
      /\ wire'[x] = wire[x]
      /\ Has(wire[y], f.sid, f.type)
      /\ \A k : /\ Bytes(wire'[y], f.sid, k) \in Nat
                /\ Bytes(wire[y], f.sid, k) = Bytes(wire'[y], f.sid, k) + (IF f.type = k THEN f.n ELSE 0)
      /\ \A k : /\ Count(wire'[y], f.sid, k) \in Nat
                /\ Count(wire[y], f.sid, k) = Count(wire'[y], f.sid, k) + (IF f.type = k THEN 1 ELSE 0)
      /\ Loaded(wire) => Loaded(wire')
  BY LaneTaken
<1>4. /\ Bytes(wire'[y], t, "DATA") = Bytes(wire[y], t, "DATA")
      /\ Count(wire'[y], t, "DATA") = Count(wire[y], t, "DATA")
      /\ Bytes(wire'[y], t, "WINDOW_UPDATE") = Bytes(wire[y], t, "WINDOW_UPDATE")
      /\ Has(wire[y], t, "OPEN") /\ Loaded(wire')
  BY <1>3 DEF LanesOK
<1>5. r.st = "absent" /\ y = Server
  <2> HIDE DEF y
  <2> QED
    BY <1>1, <1>4, LaneFacts
<1>6. r = NoStream
  BY <1>5, StreamFacts
<1>7. z \in StreamRecs
  BY NoStreamFields
<1>8. stream'[x][t] = z /\ stream'[y][t] = q
  BY <1>1, <1>7, PutStream DEF IInv
<1>9. Drained(x, t)' /\ Drained(y, t)'
  <2> HIDE DEF y
  <2> QED
    BY <1>1, <1>3, <1>8, NoStreamFields DEF LanesOK, Drained, y
<1>10. LaneStep(y, t)
  <2>1. Flows(Purse(y, t), Purse(y, t)')
    <3> HIDE DEF r
    <3>1. /\ z.buffered = r.buffered /\ z.frames = r.frames /\ z.held = r.held /\ z.unacked = r.unacked
      BY <1>6, NoStreamFields
    <3> HIDE DEF z
    <3> QED
      BY <1>3, <1>4, <1>7, <3>1, ReceiverRests DEF r, z
  <2>2. LaneLive(y, t)' => LaneLive(y, t)
    <3> HIDE DEF y
    <3> QED
      BY <1>1, <1>4, <1>6, <1>8, NoStreamFields DEF LaneLive, Live, r
  <2>3. q.st = "absent" => ~LaneLive(y, t)
    BY DEF LaneLive, Live
  <2> QED
    BY <1>1, <1>8, <2>1, <2>2, <2>3, LaneDecides
<1>11. ~LaneLive(x, t)
  BY <1>5 DEF LaneLive, Live
<1>12. LaneLive(x, t)' => Whole(Purse(x, t)')
  <2> SUFFICES ASSUME LaneLive(x, t)' PROVE Whole(Purse(x, t)')
    OBVIOUS
  <2> DEFINE p == Purse(x, t)
             o == Purse(x, t)'
  <2>1. /\ QueuedBytes(q) = 0 /\ q.held = 0 /\ q.unacked = 0 /\ p.grants = 0
        /\ \A k \in FrameTypes : Has(wire[x], t, k) => k = "RESET"
    BY <1>5, LaneFacts
  <2>2. q.st = "live"
    <3>1. ~Has(wire'[x], t, "OPEN")
      BY <1>3, <2>1 DEF FrameTypes
    <3> QED
      BY <1>8, <3>1 DEF LaneLive, Live
  <2>3. q \in StreamRecs /\ StreamOK(q) /\ wire[x] \in Seq(Frames)
    BY <1>1, StreamFacts
  <2>4. q.buffered = 0 /\ q.frames = 0
    BY <2>1, <2>2, <2>3, QueueTypes DEF StreamOK
  <2>5. Bytes(wire'[x], t, "DATA") = 0 /\ Count(wire'[x], t, "DATA") = 0
    <3>1. ~Has(wire[x], t, "DATA")
      BY <2>1 DEF FrameTypes
    <3> QED
      BY <1>3, <2>3, <3>1, WireBytes, CountBounds
  <2>6. /\ p.queued = 0 /\ p.qFrames = 0 /\ p.held = 0 /\ p.unacked = 0
        /\ p.grants = Bytes(wire[y], t, "WINDOW_UPDATE")
    BY <2>1, <2>4, PurseNow
  <2>7. /\ o.window = z.window /\ SameQueue(p, o) /\ o.held = p.held /\ o.unacked = p.unacked
        /\ o.wire = Bytes(wire'[x], t, "DATA") /\ o.wireFrames = Count(wire'[x], t, "DATA")
        /\ o.grants = Bytes(wire'[y], t, "WINDOW_UPDATE")
    BY <1>7, PurseSides
  <2> HIDE DEF p, o, y
  <2> QED
    BY <1>4, <2>1, <2>5, <2>6, <2>7, NoStreamFields DEF Whole, SameQueue, o
<1>13. LaneStep(x, t)
  BY <1>5, <1>11, <1>12, LaneDecides
<1> HIDE DEF z
<1> QED
  BY <1>2, <1>3, <1>4, <1>7, <1>9, <1>10, <1>13, LanesBut DEF z

-----------------------------------------------------------------------------
(* The lanes when a frame arrives                                          *)

\* What is left of the frames of stream t once the oldest frame is taken.
LEMMA TakenLanes ==
    ASSUME IInv, Compliant, LanesOK, NEW x \in Ends, wire[Peer(x)] # <<>>, wire' = Taken(x),
           NEW t \in Sids, Arrived(x).sid = t
    PROVE  LET y == Peer(x)
               f == Arrived(x)
           IN /\ \A s \in Sids : s # t => \A d \in Ends : Quiet(wire[d], wire'[d], s)
              /\ \A d \in Ends : \A k : Has(wire'[d], t, k) => Has(wire[d], t, k)
              /\ ~Has(wire'[y], t, "OPEN") /\ (f.type = "EOF" => ~Has(wire'[y], t, "DATA"))
              /\ f.type # "DATA" => /\ Bytes(wire'[y], t, "DATA") = Bytes(wire[y], t, "DATA")
                                    /\ Count(wire'[y], t, "DATA") = Count(wire[y], t, "DATA")
              /\ f.type # "WINDOW_UPDATE" =>
                    Bytes(wire'[y], t, "WINDOW_UPDATE") = Bytes(wire[y], t, "WINDOW_UPDATE")
              /\ wire'[x] = wire[x] /\ Loaded(wire') /\ f.n \in Nat /\ f.ok
              /\ f.type \in {"DATA", "WINDOW_UPDATE"} => f.n > 0
<1> DEFINE y == Peer(x)
           f == Arrived(x)
<1>1. y \in Ends /\ \A d \in Ends : d = x \/ d = y
  BY PeerFacts
<1>2. Ordered(wire[y], t)
  BY <1>1 DEF IInv, Protocol, SidOK
<1>3. f.ok
  <2>1. 1 \in DOMAIN wire[y] /\ f = wire[y][1]
    BY <1>1, StreamFacts DEF Arrived
  <2> QED
    BY <1>1, <2>1 DEF IInv, Protocol
<1>4. /\ \A s \in Sids : s # t => \A d \in Ends : Quiet(wire[d], wire'[d], s)
      /\ wire'[x] = wire[x]
      /\ \A k : Has(wire'[y], t, k) => Has(wire[y], t, k)
      /\ f.n \in Nat
      /\ \A k : /\ Bytes(wire'[y], t, k) \in Nat
                /\ Bytes(wire[y], t, k) = Bytes(wire'[y], t, k) + (IF f.type = k THEN f.n ELSE 0)
      /\ \A k : /\ Count(wire'[y], t, k) \in Nat
                /\ Count(wire[y], t, k) = Count(wire'[y], t, k) + (IF f.type = k THEN 1 ELSE 0)
      /\ Ordered(wire[y], t) => /\ ~Has(wire'[y], t, "OPEN")
                                /\ f.type = "EOF" => ~Has(wire'[y], t, "DATA")
      /\ Loaded(wire) => Loaded(wire') /\ (f.type \in {"DATA", "WINDOW_UPDATE"} => f.n > 0)
  BY LaneTaken
<1> HIDE DEF y, f
<1>5. \A d \in Ends : \A k : Has(wire'[d], t, k) => Has(wire[d], t, k)
  BY <1>1, <1>4
<1> QED
  BY <1>2, <1>3, <1>4, <1>5 DEF LanesOK, y, f

\* A frame that changes no stream: none is meant, or its stream does not listen any more.
LEMMA DroppedLanes ==
    ASSUME IInv, Compliant, LanesOK, SocketsFall, NEW x \in Ends, wire[Peer(x)] # <<>>,
           UNCHANGED stream, wire' = Taken(x),
           Arrived(x).sid \in Sids =>
              /\ Arrived(x).type = "DATA" =>
                    stream[x][Arrived(x).sid].st # "live" \/ stream[x][Arrived(x).sid].recv = "RESET"
              /\ Arrived(x).type = "WINDOW_UPDATE" => stream[x][Arrived(x).sid].st # "live"
    PROVE  LanesKept
<1> DEFINE y == Peer(x)
           f == Arrived(x)
<1>1. CASE f.sid \notin Sids
  <2>1. /\ \A s \in Sids : s # f.sid => \A d \in Ends : Quiet(wire[d], wire'[d], s)
        /\ Loaded(wire) => Loaded(wire')
    BY LaneTaken
  <2> QED
    BY <1>1, <2>1, LanesStill DEF LanesOK
<1>2. ASSUME NEW t \in Sids, f.sid = t PROVE LanesKept
  <2> DEFINE z == stream[x][t]
  <2>1. /\ \A s \in Sids : s # t => \A d \in Ends : Quiet(wire[d], wire'[d], s)
        /\ \A d \in Ends : \A k : Has(wire'[d], t, k) => Has(wire[d], t, k)
        /\ ~Has(wire'[y], t, "OPEN")
        /\ f.type # "DATA" => /\ Bytes(wire'[y], t, "DATA") = Bytes(wire[y], t, "DATA")
                              /\ Count(wire'[y], t, "DATA") = Count(wire[y], t, "DATA")
        /\ f.type # "WINDOW_UPDATE" =>
              Bytes(wire'[y], t, "WINDOW_UPDATE") = Bytes(wire[y], t, "WINDOW_UPDATE")
        /\ wire'[x] = wire[x] /\ Loaded(wire')
    BY <1>2, TakenLanes
  <2>2. z \in StreamRecs /\ y \in Ends /\ y # x /\ Peer(y) = x
    BY <1>2, StreamFacts, PeerFacts
  <2>3. SetStream(x, t, z)
    BY <1>2 DEF SetStream, IInv, MuxTypes
  <2>4. /\ f.type = "DATA" => z.st # "live" \/ z.recv = "RESET"
        /\ f.type = "WINDOW_UPDATE" => z.st # "live"
    BY <1>2
  <2> HIDE DEF f
  <2>5. Drained(x, t)' /\ Drained(y, t)'
    <3> HIDE DEF y
    <3> QED
      BY <1>2, <2>1, <2>2 DEF LanesOK, Drained, y
  <2>6. LaneLive(x, t)' => Flows(Purse(x, t), Purse(x, t)')
    <3>1. CASE f.type = "WINDOW_UPDATE"
      BY <2>4, <3>1 DEF LaneLive, Live
    <3>2. CASE f.type # "WINDOW_UPDATE"
      BY <1>2, <2>1, <2>2, <2>3, <3>2, SenderRests
    <3> QED
      BY <3>1, <3>2
  <2>7. LaneLive(y, t)' => Flows(Purse(y, t), Purse(y, t)')
    <3>1. CASE f.type = "DATA"
      <4>1. ~(z.st = "live" /\ z.recv # "RESET")
        BY <2>4, <3>1
      <4> HIDE DEF y
      <4> QED
        BY <2>1, <2>2, <4>1 DEF LaneLive, Live
    <3>2. CASE f.type # "DATA"
      BY <1>2, <2>1, <2>2, <2>3, <3>2, ReceiverRests
    <3> QED
      BY <3>1, <3>2
  <2>8. Final(z, z)
    BY DEF Final
  <2> QED
    BY <1>2, <2>1, <2>2, <2>3, <2>5, <2>6, <2>7, <2>8, LaneSides
<1> QED
  BY <1>1, <1>2

\* Counting a frame changes nothing else.
LEMMA IgnoredMux ==
    ASSUME NEW m \in MuxRecs
    PROVE  [m EXCEPT !.ignored = @ + 1] \in MuxRecs /\ [m EXCEPT !.ignored = @ + 1].ws = m.ws
BY DEF MuxRecs

\* The counted and ignored frame; at the limit the connection is given up.
LEMMA IgnoredLanes ==
    ASSUME IInv, Compliant, LanesOK, NEW x \in Ends, wire[Peer(x)] # <<>>, IgnoreFrame(x),
           Arrived(x).sid \in Sids =>
              /\ Arrived(x).type = "DATA" =>
                    stream[x][Arrived(x).sid].st # "live" \/ stream[x][Arrived(x).sid].recv = "RESET"
              /\ Arrived(x).type = "WINDOW_UPDATE" => stream[x][Arrived(x).sid].st # "live"
    PROVE  LanesKept
<1> DEFINE m == [mux[x] EXCEPT !.ignored = @ + 1]
           n == [m EXCEPT !.ws = "lost"]
<1>1. mux \in [Ends -> MuxRecs] /\ mux[x] \in MuxRecs
  BY DEF IInv, MuxTypes
<1>2. m \in MuxRecs /\ m.ws = mux[x].ws
  BY <1>1, IgnoredMux
<1>3. \/ mux' = [mux EXCEPT ![x] = m] /\ wire' = Taken(x) /\ UNCHANGED stream
      \/ StopRun(x, n)
  BY Zenon DEF IgnoreFrame
<1> HIDE DEF m
<1>4. n \in MuxRecs /\ n.ws = "lost"
  BY <1>2 DEF MuxRecs
<1> HIDE DEF n
<1>5. CASE StopRun(x, n)
  BY <1>4, <1>5, StopLanes
<1>6. CASE mux' = [mux EXCEPT ![x] = m] /\ wire' = Taken(x) /\ UNCHANGED stream
  <2>1. SocketsFall
    BY <1>1, <1>2, <1>6 DEF SocketsFall
  <2> QED
    BY <1>6, <2>1, DroppedLanes
<1> QED
  BY <1>3, <1>5, <1>6

\* The sender's half-close is heard.
LEMMA EofLanes ==
    ASSUME IInv, Compliant, LanesOK, NEW x \in Ends, wire[Peer(x)] # <<>>, wire' = Taken(x),
           NEW t \in Sids, Arrived(x).sid = t, Arrived(x).type = "EOF", stream[x][t].st = "live",
           SetStream(x, t, EndRecv(stream[x][t], "EOF")), UNCHANGED mux
    PROVE  LanesKept
<1> DEFINE y == Peer(x)
           f == Arrived(x)
           r == stream[x][t]
           z == EndRecv(r, "EOF")
<1>1. r \in StreamRecs /\ y \in Ends /\ \A d \in Ends : d = x \/ d = y
  BY StreamFacts, PeerFacts
<1>2. /\ z \in StreamRecs /\ z.st = r.st /\ z.buffered = r.buffered /\ z.frames = r.frames
      /\ z.recv = (IF r.recv = "OPEN" THEN "EOF" ELSE r.recv)
      /\ z.window = r.window /\ z.held = r.held /\ z.unacked = r.unacked
  BY <1>1, EndRecvRecord
<1>3. /\ \A s \in Sids : s # t => \A d \in Ends : Quiet(wire[d], wire'[d], s)
      /\ \A d \in Ends : \A k : Has(wire'[d], t, k) => Has(wire[d], t, k)
      /\ f.type = "EOF" => ~Has(wire'[y], t, "DATA")
      /\ f.type # "DATA" => /\ Bytes(wire'[y], t, "DATA") = Bytes(wire[y], t, "DATA")
                            /\ Count(wire'[y], t, "DATA") = Count(wire[y], t, "DATA")
      /\ f.type # "WINDOW_UPDATE" =>
            Bytes(wire'[y], t, "WINDOW_UPDATE") = Bytes(wire[y], t, "WINDOW_UPDATE")
      /\ wire'[x] = wire[x] /\ Loaded(wire')
  BY TakenLanes
<1> HIDE DEF y, z
<1>4. Neutral(t)
  BY <1>1, <1>3 DEF Neutral
<1>5. SameAmounts(r, z) /\ Final(r, z)
  BY <1>2 DEF SameAmounts, Final
<1>6. SocketsFall
  BY SocketsKept
<1> QED
  BY <1>2, <1>3, <1>4, <1>5, <1>6, LanesRest DEF y, z

\* The peer's abort is heard.
LEMMA AbortLanes ==
    ASSUME IInv, Compliant, LanesOK, NEW x \in Ends, wire[Peer(x)] # <<>>, wire' = Taken(x),
           NEW t \in Sids, Arrived(x).sid = t, stream[x][t].st = "live", CloseLocal(x, t, "RESET")
    PROVE  LanesKept
<1> DEFINE r == stream[x][t]
           z == Closed(r, "RESET")
<1>1. SetStream(x, t, z)
  BY Zenon DEF CloseLocal, SetStream
<1>2. SocketsFall
  BY ReconciledSockets DEF CloseLocal
<1>3. z \in StreamRecs /\ z.st = "closed" /\ Final(r, z)
  BY TornRecord
<1>4. /\ \A s \in Sids : s # t => \A d \in Ends : Quiet(wire[d], wire'[d], s)
      /\ \A d \in Ends : \A k : Has(wire'[d], t, k) => Has(wire[d], t, k)
      /\ Loaded(wire')
  BY TakenLanes
<1> HIDE DEF z
<1> QED
  BY <1>1, <1>2, <1>3, <1>4, LanesTorn

\* A grant under way fits the sender's window.
LEMMA GrantFits ==
    ASSUME NEW a \in Nat, NEW b \in Nat, NEW n \in Nat, n > 0, a + (b + n) <= W
    PROVE  /\ a + n \in Nat /\ MaxSendWindow \in Nat /\ a + n <= MaxSendWindow
           /\ n \in 1 .. W /\ n <= b + n /\ b = (b + n) - n
<1>1. W \in Nat /\ MaxSendWindow \in Nat /\ W <= MaxSendWindow
  BY MuxAssumption
<1> QED
  BY <1>1

\* A grant reaches the sender: the cap of _grant is not met, so all of it counts.
LEMMA GrantLanes ==
    ASSUME IInv, Compliant, LanesOK, NEW x \in Ends, wire[Peer(x)] # <<>>, wire' = Taken(x),
           NEW t \in Sids, Arrived(x).sid = t, Arrived(x).type = "WINDOW_UPDATE",
           stream[x][t].st = "live",
           SetStream(x, t, Granted(stream[x][t], Arrived(x).n)), UNCHANGED mux
    PROVE  LanesKept
<1> DEFINE y == Peer(x)
           f == Arrived(x)
           n == f.n
           r == stream[x][t]
           p == Purse(x, t)
           o == Purse(x, t)'
           w == Min({r.window + n, MaxSendWindow})
           z == Granted(r, n)
<1>1. y \in Ends /\ y # x /\ Peer(y) = x /\ r \in StreamRecs
  BY StreamFacts, PeerFacts
<1>2. /\ \A s \in Sids : s # t => \A d \in Ends : Quiet(wire[d], wire'[d], s)
      /\ \A d \in Ends : \A k : Has(wire'[d], t, k) => Has(wire[d], t, k)
      /\ f.type # "DATA" => /\ Bytes(wire'[y], t, "DATA") = Bytes(wire[y], t, "DATA")
                            /\ Count(wire'[y], t, "DATA") = Count(wire[y], t, "DATA")
      /\ wire'[x] = wire[x] /\ Loaded(wire') /\ n \in Nat
      /\ f.type \in {"DATA", "WINDOW_UPDATE"} => n > 0
  BY TakenLanes
<1>3. \A k : /\ Bytes(wire'[y], t, k) \in Nat
             /\ Bytes(wire[y], t, k) = Bytes(wire'[y], t, k) + (IF f.type = k THEN n ELSE 0)
  BY LaneTaken
<1>4. /\ p.window = r.window /\ p.wire = Bytes(wire[x], t, "DATA") /\ p.wireFrames = Count(wire[x], t, "DATA")
      /\ p.grants = Bytes(wire[y], t, "WINDOW_UPDATE") /\ p.window \in Nat /\ p.grants \in Nat
      /\ p.window + p.grants <= W
  BY PurseNow, LaneFacts
<1>5. n > 0 /\ p.grants = Bytes(wire'[y], t, "WINDOW_UPDATE") + n /\ Bytes(wire'[y], t, "WINDOW_UPDATE") \in Nat
  BY <1>2, <1>3, <1>4
<1>6. w = r.window + n /\ w \in Nat /\ n \in 1 .. W
  <2> DEFINE a == r.window
             c == Bytes(wire'[y], t, "WINDOW_UPDATE")
  <2>1. a \in Nat /\ c \in Nat /\ n \in Nat /\ n > 0 /\ a + (c + n) <= W
    BY <1>2, <1>4, <1>5
  <2> HIDE DEF a, c, n
  <2>2. a + n \in Nat /\ MaxSendWindow \in Nat /\ a + n <= MaxSendWindow /\ n \in 1 .. W
    BY <2>1, GrantFits
  <2> DEFINE g == a + n
             S == {g, MaxSendWindow}
  <2>3. g \in Nat /\ g <= MaxSendWindow
    BY <2>2
  <2> HIDE DEF g
  <2>4. S \in SUBSET Nat /\ S # {}
    BY <2>2, <2>3
  <2>5. Min(S) \in S /\ \A v \in S : Min(S) <= v
    BY <2>4, MinIs
  <2>6. Min(S) = g
    BY <2>2, <2>3, <2>5
  <2> QED
    BY <2>2, <2>3, <2>6 DEF g, a
<1>7. z = [r EXCEPT !.window = w, !.waiter = TRUE]
  BY Zenon DEF Granted
<1> HIDE DEF w, z
<1>8. /\ z \in StreamRecs /\ z.st = r.st /\ z.recv = r.recv /\ z.window = w /\ z.buffered = r.buffered
      /\ z.frames = r.frames /\ z.held = r.held /\ z.unacked = r.unacked
  BY <1>1, <1>6, <1>7 DEF StreamRecs
<1>9. Final(r, z)
  BY <1>8 DEF Final
<1>10. SetStream(x, t, z)
  BY DEF z
<1>11. stream'[x][t] = z /\ stream'[y][t] = stream[y][t]
  BY <1>1, <1>8, <1>10, PutStream DEF IInv
<1>12. Drained(x, t)' /\ Drained(y, t)'
  <2> HIDE DEF y
  <2> QED
    BY <1>1, <1>2, <1>8, <1>11 DEF LanesOK, Drained, y
<1>13. Flows(p, o)
  <2>1. /\ o.window = z.window /\ SameQueue(p, o) /\ o.held = p.held /\ o.unacked = p.unacked
        /\ o.wire = Bytes(wire'[x], t, "DATA") /\ o.wireFrames = Count(wire'[x], t, "DATA")
        /\ o.grants = Bytes(wire'[y], t, "WINDOW_UPDATE")
    BY <1>8, <1>10, PurseSides
  <2>2. SameWire(p, o)
    BY <1>2, <1>4, <2>1 DEF SameWire
  <2>3. o.grants \in Nat /\ p.grants = o.grants + n /\ o.window = p.window + n /\ p.window \in Nat
    BY <1>4, <1>5, <1>6, <1>8, <2>1
  <2> HIDE DEF p, o, n
  <2>4. n \in 1 .. W /\ n \in Nat /\ n <= p.grants /\ o.grants = p.grants - n
    <3> DEFINE b == o.grants
               c == p.grants
    <3>1. b \in Nat /\ n \in Nat /\ c = b + n
      BY <1>2, <2>3
    <3> HIDE DEF b, c
    <3>2. n <= c /\ b = c - n
      BY <3>1
    <3> QED
      BY <1>2, <1>6, <3>2 DEF b, c
  <2> QED
    BY <2>1, <2>2, <2>3, <2>4 DEF Flows, Recovers
<1>14. Flows(Purse(y, t), Purse(y, t)')
  BY <1>2, <1>8, <1>10, ReceiverRests
<1>15. SocketsFall
  BY SocketsKept
<1> QED
  BY <1>2, <1>8, <1>9, <1>10, <1>12, <1>13, <1>14, <1>15, LaneSides

\* Payload is queued: the oldest frame moves its bytes from the wire to the consumer's queue.
LEMMA FedLanes ==
    ASSUME IInv, Compliant, LanesOK, NEW x \in Ends, wire[Peer(x)] # <<>>, wire' = Taken(x),
           NEW t \in Sids, Arrived(x).sid = t, Arrived(x).type = "DATA",
           stream[x][t].st = "live", stream[x][t].recv = "OPEN",
           Feed(x, t, Arrived(x).n), Breach(x, t, Arrived(x).n) = "none"
    PROVE  LanesKept
<1> DEFINE y == Peer(x)
           f == Arrived(x)
           n == f.n
           r == stream[x][t]
           q == Purse(y, t)
           u == Purse(y, t)'
           z == [r EXCEPT !.incoming = Append(@, n), !.buffered = @ + n, !.frames = @ + 1]
<1>1. y \in Ends /\ y # x /\ Peer(y) = x /\ r \in StreamRecs /\ StreamOK(r)
  BY StreamFacts, PeerFacts
<1>2. /\ \A s \in Sids : s # t => \A d \in Ends : Quiet(wire[d], wire'[d], s)
      /\ \A d \in Ends : \A k : Has(wire'[d], t, k) => Has(wire[d], t, k)
      /\ f.type # "WINDOW_UPDATE" =>
            Bytes(wire'[y], t, "WINDOW_UPDATE") = Bytes(wire[y], t, "WINDOW_UPDATE")
      /\ wire'[x] = wire[x] /\ Loaded(wire') /\ n \in Nat
      /\ f.type \in {"DATA", "WINDOW_UPDATE"} => n > 0
  BY TakenLanes
<1>3. /\ \A k : /\ Bytes(wire'[y], t, k) \in Nat
                /\ Bytes(wire[y], t, k) = Bytes(wire'[y], t, k) + (IF f.type = k THEN f.n ELSE 0)
      /\ \A k : /\ Count(wire'[y], t, k) \in Nat
                /\ Count(wire[y], t, k) = Count(wire'[y], t, k) + (IF f.type = k THEN 1 ELSE 0)
  BY LaneTaken
<1>4. SocketsFall
  <2> DEFINE a == mux[x].buffered + n
             b == mux[x].frames + 1
             c == IF x = Server THEN mux[x].account + n ELSE mux[x].account
  <2>1. mux' = [mux EXCEPT ![x].buffered = a, ![x].frames = b, ![x].account = c]
    BY Zenon DEF Feed
  <2> HIDE DEF a, b, c
  <2>2. mux \in [Ends -> MuxRecs]
    BY DEF IInv, MuxTypes
  <2> QED
    BY <2>1, <2>2 DEF SocketsFall, MuxRecs
<1>5. SetStream(x, t, z)
  <2>1. stream' = [stream EXCEPT ![x][t].incoming = Append(@, n), ![x][t].buffered = @ + n,
                                 ![x][t].frames = @ + 1]
    BY DEF Feed
  <2>2. stream \in [Ends -> [Sids -> StreamRecs]]
    BY DEF IInv, MuxTypes
  <2> HIDE DEF n
  <2> QED
    BY <2>1, <2>2, ZenonT(60) DEF SetStream, StreamRecs
<1>6. ~(r.buffered + n > StreamHardMax) /\ ~(r.frames + 1 > MaxQueuedFrames)
  BY <1>2, BreachIs
<1>7. n \in Nat \ {0}
  BY <1>2
<1>8. /\ z \in StreamRecs /\ z.st = r.st /\ z.recv = r.recv /\ z.window = r.window
      /\ z.held = r.held /\ z.unacked = r.unacked
      /\ z.buffered = r.buffered + n /\ z.frames = r.frames + 1
  <2> HIDE DEF n
  <2> QED
    BY <1>1, <1>6, <1>7, FedRecord
<1> HIDE DEF z
<1>9. Final(r, z)
  BY <1>8 DEF Final
<1>10. stream'[x][t] = z /\ stream'[y][t] = stream[y][t]
  BY <1>1, <1>5, <1>8, PutStream DEF IInv
<1>11. Drained(x, t)' /\ Drained(y, t)'
  <2> HIDE DEF y
  <2> QED
    BY <1>1, <1>2, <1>8, <1>10 DEF LanesOK, Drained, y
<1>12. Flows(Purse(x, t), Purse(x, t)')
  BY <1>2, <1>5, <1>8, SenderRests
<1>13. Flows(q, u)
  <2>1. /\ q.queued = r.buffered /\ q.qFrames = r.frames /\ q.held = r.held /\ q.unacked = r.unacked
        /\ q.wire = Bytes(wire[y], t, "DATA") /\ q.wireFrames = Count(wire[y], t, "DATA")
        /\ q.grants = Bytes(wire[x], t, "WINDOW_UPDATE") /\ q.wire <= W
    <3> HIDE DEF y
    <3> QED
      BY <1>1, PurseNow, LaneFacts
  <2>2. /\ u.window = q.window /\ u.queued = z.buffered /\ u.qFrames = z.frames
        /\ u.held = z.held /\ u.unacked = z.unacked
        /\ u.wire = Bytes(wire'[y], t, "DATA") /\ u.wireFrames = Count(wire'[y], t, "DATA")
        /\ u.grants = Bytes(wire'[x], t, "WINDOW_UPDATE")
    BY <1>5, <1>8, PurseSides
  <2>3. /\ u.wire \in Nat /\ u.wireFrames \in Nat
        /\ q.wire = u.wire + n /\ q.wireFrames = u.wireFrames + 1
    BY <1>3, <2>1, <2>2
  <2>4. u.wireFrames <= u.wire /\ (u.wireFrames = 0 => u.wire = 0)
    <3>1. wire'[y] \in Seq(Frames) /\ \A i \in DOMAIN wire'[y] : wire'[y][i].type = "DATA" => wire'[y][i].n > 0
      BY <1>1, <1>2, TakenWire DEF Loaded
    <3> QED
      BY <2>2, <3>1, CountBounds
  <2>5. /\ ~(q.queued + n > StreamHardMax) /\ ~(q.qFrames + 1 > MaxQueuedFrames)
        /\ u.queued = q.queued + n /\ u.qFrames = q.qFrames + 1
        /\ q.queued \in Nat /\ q.qFrames \in Nat
    <3>1. r.buffered \in Nat /\ r.frames \in Nat
      BY <1>1 DEF StreamRecs
    <3> QED
      BY <1>6, <1>8, <2>1, <2>2, <3>1
  <2>6. SameWindow(q, u) /\ u.held = q.held /\ SameDebts(q, u)
    BY <1>2, <1>8, <2>1, <2>2 DEF SameWindow, SameDebts
  <2> DEFINE a == u.wire
             b == u.wireFrames
             c == q.queued
             d == q.qFrames
  <2> HIDE DEF q, u, n
  <2>7. a \in Nat /\ b \in Nat /\ n \in Nat \ {0} /\ a + n <= W /\ b <= a /\ (b = 0 => a = 0) /\ c \in Nat /\ d \in Nat
    BY <1>7, <2>1, <2>3, <2>4, <2>5
  <2>8. StreamHardMax \in Nat /\ MaxQueuedFrames \in Nat /\ W \in Nat
    BY MuxAssumption DEF StreamHardMax, MaxQueuedFrames
  <2>9. ~(c + n > StreamHardMax) /\ ~(d + 1 > MaxQueuedFrames)
    BY <2>5
  <2>10. q.wire = a + n /\ q.wireFrames = b + 1
    BY <2>3
  <2> HIDE DEF a, b, c, d
  <2>11. /\ n \in 1 .. W /\ b + 1 > 0 /\ n <= (a + n) - ((b + 1) - 1)
         /\ b + 1 = 1 => n = a + n
         /\ c + n <= StreamHardMax /\ d + 1 <= MaxQueuedFrames
         /\ a = (a + n) - n /\ b = (b + 1) - 1
    BY <2>7, <2>8, <2>9
  <2>12. Delivers(q, u)
    <3>1. /\ q.wireFrames > 0 /\ n <= q.wire - (q.wireFrames - 1)
          /\ q.wireFrames = 1 => n = q.wire
          /\ u.wire = q.wire - n /\ u.wireFrames = q.wireFrames - 1
      BY <2>10, <2>11 DEF a, b
    <3>2. q.queued + n <= StreamHardMax /\ q.qFrames + 1 <= MaxQueuedFrames
      BY <2>11 DEF c, d
    <3> QED
      BY <2>5, <2>6, <2>11, <3>1, <3>2 DEF Delivers
  <2> QED
    BY <2>12 DEF Flows
<1> QED
  BY <1>2, <1>4, <1>5, <1>8, <1>9, <1>11, <1>12, <1>13, LaneSides

\* Payload beyond a limit of the connection or the account ends the lane.
LEMMA BreachLanes ==
    ASSUME IInv, Compliant, LanesOK, NEW x \in Ends, wire[Peer(x)] # <<>>, wire' = Taken(x),
           NEW t \in Sids, Arrived(x).sid = t, Arrived(x).type = "DATA",
           stream[x][t].st = "live", stream[x][t].recv = "OPEN",
           Feed(x, t, Arrived(x).n), Breach(x, t, Arrived(x).n) # "none"
    PROVE  LanesKept
<1> DEFINE y == Peer(x)
           f == Arrived(x)
           r == stream[x][t]
           z == [EndRecv(r, "RESET") EXCEPT !.resetTask = TRUE]
<1>1. y \in Ends /\ y # x /\ Peer(y) = x /\ r \in StreamRecs /\ StreamOK(r)
  BY StreamFacts, PeerFacts
<1>2. /\ \A s \in Sids : s # t => \A d \in Ends : Quiet(wire[d], wire'[d], s)
      /\ \A d \in Ends : \A k : Has(wire'[d], t, k) => Has(wire[d], t, k)
      /\ f.type # "WINDOW_UPDATE" =>
            Bytes(wire'[y], t, "WINDOW_UPDATE") = Bytes(wire[y], t, "WINDOW_UPDATE")
      /\ wire'[x] = wire[x] /\ Loaded(wire')
  BY TakenLanes
<1>3. SocketsFall
  <2> DEFINE a == mux[x].breach \cup {Breach(x, t, f.n)}
  <2>1. mux' = [mux EXCEPT ![x].breach = a]
    BY Zenon DEF Feed
  <2> HIDE DEF a
  <2>2. mux \in [Ends -> MuxRecs]
    BY DEF IInv, MuxTypes
  <2> QED
    BY <2>1, <2>2 DEF SocketsFall, MuxRecs
<1>4. SetStream(x, t, z)
  BY Zenon DEF Feed, SetStream
<1>5. z \in StreamRecs /\ z.st = r.st /\ z.recv = "RESET" /\ z.window = r.window
  <2>1. EndedBy(z, r, "RESET")
    BY <1>1, EndedRecord
  <2> HIDE DEF z
  <2> QED
    BY <2>1 DEF EndedBy
<1> HIDE DEF z
<1>6. Final(r, z)
  BY <1>5 DEF Final
<1>7. stream'[x][t] = z /\ stream'[y][t] = stream[y][t]
  BY <1>1, <1>4, <1>5, PutStream DEF IInv
<1>8. Drained(x, t)' /\ Drained(y, t)'
  <2> HIDE DEF y
  <2> QED
    BY <1>1, <1>2, <1>5, <1>7 DEF LanesOK, Drained, y
<1>9. Flows(Purse(x, t), Purse(x, t)')
  BY <1>2, <1>4, <1>5, SenderRests
<1>10. ~LaneLive(y, t)'
  <2> HIDE DEF y
  <2> QED
    BY <1>1, <1>5, <1>7 DEF LaneLive
<1> QED
  BY <1>2, <1>3, <1>4, <1>5, <1>6, <1>8, <1>9, <1>10, LaneSides

\* An OPEN arrives.
LEMMA RecvOpenLanes ==
    ASSUME IInv, Compliant, LanesOK, NEW x \in Ends, RecvOpen(x)
    PROVE  LanesKept
<1> DEFINE s == Arrived(x).sid
<1>1. wire[Peer(x)] # <<>> /\ Arrived(x).type = "OPEN"
  BY DEF RecvOpen, Arrives, Arrived
<1>2. \/ IgnoreFrame(x)
      \/ s # 0 /\ RefuseOpen(x, s)
      \/ s # 0 /\ SetStream(x, s, NewStream) /\ wire' = Taken(x) /\ UNCHANGED mux
  BY Zenon DEF RecvOpen, SetStream
<1>3. CASE IgnoreFrame(x)
  BY <1>1, <1>3, IgnoredLanes
<1>4. CASE s # 0 /\ RefuseOpen(x, s)
  <2>1. s \in Sids
    BY <1>1, <1>4, ArrivedIs
  <2>2. SocketsFall
    <3>1. mux \in [Ends -> MuxRecs] /\ mux' = [mux EXCEPT ![x] = WithSendReset(@, s)]
      BY <1>4 DEF RefuseOpen, IInv, MuxTypes
    <3>2. WithSendReset(mux[x], s).ws = mux[x].ws
      BY <3>1 DEF WithSendReset, MuxRecs
    <3> QED
      BY <3>1, <3>2 DEF SocketsFall
  <2> QED
    BY <1>1, <1>4, <2>2, DroppedLanes DEF RefuseOpen
<1>5. CASE s # 0 /\ SetStream(x, s, NewStream) /\ wire' = Taken(x) /\ UNCHANGED mux
  <2>1. s \in Sids
    BY <1>1, <1>5, ArrivedIs
  <2> QED
    BY <1>1, <1>5, <2>1, AcceptLanes
<1> QED
  BY <1>2, <1>3, <1>4, <1>5

\* DATA arrives.
LEMMA RecvDataLanes ==
    ASSUME IInv, Compliant, LanesOK, NEW x \in Ends, RecvData(x)
    PROVE  LanesKept
<1> DEFINE s == Arrived(x).sid
           n == Arrived(x).n
<1>1. wire[Peer(x)] # <<>> /\ Arrived(x).type = "DATA"
  BY DEF RecvData, Arrives, Arrived
<1>2. \/ ~Known(x, s) /\ IgnoreFrame(x)
      \/ /\ Known(x, s) /\ (stream[x][s].recv # "OPEN" \/ n = 0)
         /\ wire' = Taken(x) /\ UNCHANGED <<stream, mux>>
      \/ Known(x, s) /\ stream[x][s].recv = "OPEN" /\ Feed(x, s, n) /\ wire' = Taken(x)
  BY Zenon DEF RecvData
<1>3. CASE ~Known(x, s) /\ IgnoreFrame(x)
  BY <1>1, <1>3, IgnoredLanes DEF Known, Live
<1>4. CASE /\ Known(x, s) /\ (stream[x][s].recv # "OPEN" \/ n = 0)
           /\ wire' = Taken(x) /\ UNCHANGED <<stream, mux>>
  <2>1. s \in Sids /\ stream[x][s].st = "live" /\ stream[x][s] \in StreamRecs
    BY <1>4, StreamFacts DEF Known, Live
  <2>2. n > 0 /\ n \in Nat
    BY <1>1, <1>4, <2>1, TakenLanes
  <2>3. Has(wire[Peer(x)], s, "DATA")
    BY <1>1, <1>4, LaneTaken
  <2>4. stream[x][s].recv # "EOF"
    <3>1. Peer(x) \in Ends /\ Peer(Peer(x)) = x
      BY PeerFacts
    <3> QED
      BY <2>1, <2>3, <3>1 DEF LanesOK, Drained
  <2>5. stream[x][s].recv \in {"OPEN", "EOF", "RESET"}
    BY <2>1 DEF StreamRecs, Terminals
  <2>6. stream[x][s].recv = "RESET"
    BY <1>4, <2>2, <2>4, <2>5
  <2>7. SocketsFall
    BY <1>4, SocketsKept
  <2> QED
    BY <1>1, <1>4, <2>6, <2>7, DroppedLanes
<1>5. CASE Known(x, s) /\ stream[x][s].recv = "OPEN" /\ Feed(x, s, n) /\ wire' = Taken(x)
  <2>1. s \in Sids /\ stream[x][s].st = "live"
    BY <1>5 DEF Known, Live
  <2>2. CASE Breach(x, s, n) = "none"
    BY <1>1, <1>5, <2>1, <2>2, FedLanes
  <2>3. CASE Breach(x, s, n) # "none"
    BY <1>1, <1>5, <2>1, <2>3, BreachLanes
  <2> QED
    BY <2>2, <2>3
<1> QED
  BY <1>2, <1>3, <1>4, <1>5

\* An EOF arrives.
LEMMA RecvEofLanes ==
    ASSUME IInv, Compliant, LanesOK, NEW x \in Ends, RecvEof(x)
    PROVE  LanesKept
<1> DEFINE s == Arrived(x).sid
<1>1. wire[Peer(x)] # <<>> /\ Arrived(x).type = "EOF"
  BY DEF RecvEof, Arrives, Arrived
<1>2. \/ IgnoreFrame(x)
      \/ Known(x, s) /\ ~Arrived(x).ok /\ wire' = Taken(x)
      \/ /\ Known(x, s) /\ SetStream(x, s, EndRecv(stream[x][s], "EOF"))
         /\ wire' = Taken(x) /\ UNCHANGED mux
  BY Zenon DEF RecvEof, RefuseStream, SetStream
<1>3. Known(x, s) => s \in Sids /\ stream[x][s].st = "live"
  BY DEF Known, Live
<1>4. CASE IgnoreFrame(x)
  BY <1>1, <1>4, IgnoredLanes
<1>5. CASE Known(x, s) /\ ~Arrived(x).ok /\ wire' = Taken(x)
  BY <1>1, <1>3, <1>5, TakenLanes
<1>6. CASE /\ Known(x, s) /\ SetStream(x, s, EndRecv(stream[x][s], "EOF"))
           /\ wire' = Taken(x) /\ UNCHANGED mux
  BY <1>1, <1>3, <1>6, EofLanes
<1> QED
  BY <1>2, <1>4, <1>5, <1>6

\* A WINDOW_UPDATE arrives.
LEMMA RecvWindowUpdateLanes ==
    ASSUME IInv, Compliant, LanesOK, NEW x \in Ends, RecvWindowUpdate(x)
    PROVE  LanesKept
<1> DEFINE s == Arrived(x).sid
<1>1. wire[Peer(x)] # <<>> /\ Arrived(x).type = "WINDOW_UPDATE"
  BY DEF RecvWindowUpdate, Arrives, Arrived
<1>2. \/ ~Known(x, s) /\ IgnoreFrame(x)
      \/ Known(x, s) /\ Arrived(x).n = 0
      \/ Known(x, s) /\ ~Arrived(x).ok /\ wire' = Taken(x)
      \/ /\ Known(x, s) /\ SetStream(x, s, Granted(stream[x][s], Arrived(x).n))
         /\ wire' = Taken(x) /\ UNCHANGED mux
  BY Zenon DEF RecvWindowUpdate, RefuseStream, SetStream
<1>3. Known(x, s) => s \in Sids /\ stream[x][s].st = "live"
  BY DEF Known, Live
<1>4. CASE ~Known(x, s) /\ IgnoreFrame(x)
  BY <1>1, <1>4, IgnoredLanes DEF Known, Live
<1>5. CASE Known(x, s) /\ Arrived(x).n = 0
  <2>1. Peer(x) \in Ends /\ wire[Peer(x)] \in Seq(Frames)
    BY PeerFacts, StreamFacts DEF IInv, MuxTypes
  <2>2. 1 \in DOMAIN wire[Peer(x)] /\ Arrived(x) = wire[Peer(x)][1]
    BY <1>1, <2>1 DEF Arrived
  <2>3. Arrived(x).n > 0
    BY <1>1, <2>1, <2>2 DEF LanesOK, Loaded
  <2> QED
    BY <1>5, <2>3
<1>6. CASE Known(x, s) /\ ~Arrived(x).ok /\ wire' = Taken(x)
  BY <1>1, <1>3, <1>6, TakenLanes
<1>7. CASE /\ Known(x, s) /\ SetStream(x, s, Granted(stream[x][s], Arrived(x).n))
           /\ wire' = Taken(x) /\ UNCHANGED mux
  BY <1>1, <1>3, <1>7, GrantLanes
<1> QED
  BY <1>2, <1>4, <1>5, <1>6, <1>7

\* Any frame arrives.
LEMMA DemuxLanes ==
    ASSUME IInv, Compliant, LanesOK, NEW x \in Ends, Demux(x)
    PROVE  LanesKept
<1> DEFINE s == Arrived(x).sid
<1>1. CASE RecvReset(x)
  <2>1. wire[Peer(x)] # <<>> /\ Arrived(x).type = "RESET"
    BY <1>1 DEF RecvReset, Arrives, Arrived
  <2>2. IgnoreFrame(x) \/ (Known(x, s) /\ CloseLocal(x, s, "RESET") /\ wire' = Taken(x))
    BY <1>1, Zenon DEF RecvReset
  <2>3. Known(x, s) => s \in Sids /\ stream[x][s].st = "live"
    BY DEF Known, Live
  <2>4. CASE IgnoreFrame(x)
    BY <2>1, <2>4, IgnoredLanes
  <2>5. CASE Known(x, s) /\ CloseLocal(x, s, "RESET") /\ wire' = Taken(x)
    BY <2>1, <2>3, <2>5, AbortLanes
  <2> QED
    BY <2>2, <2>4, <2>5
<1>2. CASE RecvGoaway(x)
  <2> DEFINE m == [mux[x] EXCEPT !.peerGoingAway = TRUE]
  <2>1. wire[Peer(x)] # <<>> /\ Arrived(x).type = "GOAWAY"
    BY <1>2 DEF RecvGoaway, Arrives, Arrived
  <2>2. IgnoreFrame(x) \/ (SetMux(x, m) /\ wire' = Taken(x) /\ UNCHANGED stream)
    BY <1>2, Zenon DEF RecvGoaway, SetMux
  <2>3. CASE IgnoreFrame(x)
    BY <2>1, <2>3, IgnoredLanes
  <2>4. CASE SetMux(x, m) /\ wire' = Taken(x) /\ UNCHANGED stream
    <3>1. mux \in [Ends -> MuxRecs]
      BY DEF IInv, MuxTypes
    <3>2. m.ws = mux[x].ws
      BY <3>1 DEF MuxRecs
    <3> HIDE DEF m
    <3>3. SocketsFall
      BY <2>4, <3>1, <3>2 DEF SocketsFall, SetMux
    <3> QED
      BY <2>1, <2>4, <3>3, DroppedLanes
  <2> QED
    BY <2>2, <2>3, <2>4
<1>3. CASE RecvOther(x)
  <2>1. wire[Peer(x)] # <<>> /\ Arrived(x).type = "OTHER" /\ IgnoreFrame(x)
    BY <1>3 DEF RecvOther, Arrives, Arrived
  <2> QED
    BY <2>1, IgnoredLanes
<1> QED
  BY <1>1, <1>2, <1>3, RecvOpenLanes, RecvDataLanes, RecvEofLanes, RecvWindowUpdateLanes DEF Demux

\* A task of an end steps.
LEMMA StreamTaskLanes ==
    ASSUME IInv, Compliant, LanesOK, NEW e \in Ends, NEW s \in Sids, StreamTask(e, s)
    PROVE  LanesKept
<1>1. CASE \/ \E n \in env.chunks : StartSend(e, s, n)
           \/ WakeSender(e, s) \/ CreditStall(e, s) \/ CancelSend(e, s)
  BY <1>1, SenderLanes
<1>2. CASE SendStep(e, s) \/ SendEof(e, s) \/ SendOnce(e, s)
  BY <1>2, SendStepLanes, SendEofLanes, SendOnceLanes
<1>3. CASE Read(e, s) \/ Ack(e, s)
  BY <1>3, ReadLanes, AckLanes
<1>4. CASE Reset(e, s) \/ ResetTask(e, s) \/ Close(e, s)
  BY <1>4, TeardownLanes
<1> QED
  BY <1>1, <1>2, <1>3, <1>4 DEF StreamTask

\* Only Inject ends the compliance of the two ends.
LEMMA ComplianceEnds ==
    ASSUME IInv, [Next]_vars, Compliant'
    PROVE  Compliant /\ ~(\E j \in Junk : Inject(j[1], j[2]))
<1>1. \A e \in Ends : Demux(e) => UNCHANGED env
  BY DEF Demux, RecvOpen, RecvData, RecvEof, RecvWindowUpdate, RecvReset, RecvGoaway, RecvOther
<1>2. \A e \in Ends : Connection(e) => UNCHANGED env
  BY DEF Connection, GoAway, DrainClose, Lose, Notice, RunEnds
<1>3. ASSUME NEW e \in Ends, NEW s \in Sids, StreamTask(e, s) PROVE UNCHANGED env
  <2>1. CASE \/ \E n \in env.chunks : StartSend(e, s, n)
             \/ WakeSender(e, s) \/ CreditStall(e, s) \/ CancelSend(e, s)
    BY <2>1 DEF StartSend, WakeSender, CreditStall, CancelSend
  <2>2. CASE SendStep(e, s) \/ SendEof(e, s) \/ SendOnce(e, s)
    BY <2>2, Zenon DEF SendStep, SendEof, SendOnce
  <2>3. CASE Read(e, s) \/ Ack(e, s)
    BY <2>3, Zenon DEF Read, Ack
  <2>4. CASE Reset(e, s) \/ ResetTask(e, s) \/ Close(e, s)
    BY <2>4, Zenon DEF Reset, ResetNow, ResetTask, Close, CloseNow
  <2> QED
    BY <1>3, <2>1, <2>2, <2>3, <2>4 DEF StreamTask
<1>4. Open \/ UNCHANGED vars => UNCHANGED env
  BY DEF Open, vars
<1>5. ASSUME NEW j, Inject(j[1], j[2]) PROVE FALSE
  <2>1. "injected" \in DOMAIN env /\ env' = [env EXCEPT !.junk = env.junk - 1, !.injected = TRUE]
    BY <1>5 DEF Inject, IInv, EnvTypes
  <2>2. env'.injected
    BY <2>1
  <2> QED
    BY <2>2 DEF Compliant
<1>6. UNCHANGED env
  BY <1>1, <1>2, <1>3, <1>4, <1>5 DEF Next
<1> QED
  BY <1>5, <1>6 DEF Compliant

\* Every step between chute ends is a step of each lane, or leaves it alone.
LEMMA StepLanes ==
    ASSUME IInv, [Next]_vars, Compliant', Compliant => LanesOK
    PROVE  LanesKept
<1>1. Compliant /\ LanesOK /\ ~(\E j \in Junk : Inject(j[1], j[2]))
  BY ComplianceEnds
<1>2. CASE UNCHANGED vars
  <2>1. UNCHANGED <<stream, mux, wire>>
    BY <1>2 DEF vars
  <2>2. \A s \in Sids : \A d \in Ends : Quiet(wire[d], wire'[d], s)
    BY <2>1 DEF Quiet
  <2>3. Loaded(wire')
    BY <1>1, <2>1 DEF LanesOK
  <2> QED
    BY <1>1, <2>1, <2>2, <2>3, SocketsKept, LanesStill
<1> QED
  BY <1>1, <1>2, OpenLanes, DemuxLanes, ConnectionLanes, StreamTaskLanes DEF Next

\* Before anything was opened.
LEMMA InitLanes ==
    ASSUME Init
    PROVE  LanesOK /\ \A e \in Ends, s \in Sids : Lane(e, s)!Init
<1>1. /\ \A e \in Ends, s \in Sids : stream[e][s] = NoStream
      /\ \A e \in Ends : wire[e] = <<>>
  BY DEF Init
<1>2. NoStream.st = "absent"
  BY NoStreamFields
<1>3. \A e \in Ends, s \in Sids : stream[e][s].st = "absent"
  BY <1>1, <1>2
<1>4. LanesOK
  <2>1. Loaded(wire)
    BY <1>1 DEF Loaded
  <2>2. \A e \in Ends : Peer(e) \in Ends
    BY PeerFacts
  <2> QED
    BY <1>3, <2>1, <2>2 DEF LanesOK, Drained
<1>5. ASSUME NEW e \in Ends, NEW s \in Sids PROVE Lane(e, s)!Init
  <2>1. stream[e][s].st = "absent" /\ ~LaneLive(e, s)
    BY <1>3 DEF LaneLive, Live
  <2>2. MappedNull(e, s, "new")
    BY <2>1, MappedNow
  <2> QED
    BY <2>2 DEF MappedNull, Lane!Init
<1> QED
  BY <1>4, <1>5

\* The multiplexer implements CreditLane, for every window, every frame cap and any number of
\* streams: whatever the interleaving of sends, grants, reads, resets and connection loss,
\* a step of the two ends is, for each direction of each stream, a step of the account book
\* of its credit or none (mux.py: Stream.send, _feed, read, ack, _grant, _close_local).
THEOREM LanesAreImplemented == Spec => LanesImplemented
<1> DEFINE Filled == Compliant => LanesOK
           Steps == Compliant' => \A e \in Ends, s \in Sids :
                       Lane(e, s)!Next \/ UNCHANGED Lane(e, s)!vars
<1>1. Init => Filled /\ \A e \in Ends, s \in Sids : Lane(e, s)!Init
  BY InitLanes
<1>2. IInv /\ Filled /\ [Next]_vars => Filled' /\ [Steps]_vars
  <2> SUFFICES ASSUME IInv, Filled, [Next]_vars, Compliant' PROVE LanesOK' /\ Steps
    OBVIOUS
  <2>1. LanesKept
    BY StepLanes
  <2> QED
    BY <2>1 DEF LanesKept, LanesOK, LaneStep
<1> HIDE DEF Filled, Steps
<1>3. Spec => [][Steps]_vars
  BY <1>1, <1>2, InvariantHolds, PTL DEF Spec
<1>4. Spec => \A e \in Ends, s \in Sids : Lane(e, s)!Init
  BY <1>1, PTL DEF Spec
<1> QED
  BY <1>3, <1>4 DEF LanesImplemented, Steps

-----------------------------------------------------------------------------
(* So the credit of every stream is an account book that adds up           *)

\* The inductive invariant of CreditLane, of the lane from e to its peer.
BatchSmall(e, s) == Amount(e, s, stream[Peer(e)][s].unacked) < Threshold
FramesFull(e, s) ==
    LET wires == Amount(e, s, Bytes(wire[e], s, "DATA"))
        queue == Amount(e, s, stream[Peer(e)][s].buffered)
    IN /\ Amount(e, s, Count(wire[e], s, "DATA")) <= wires
       /\ Amount(e, s, stream[Peer(e)][s].frames) <= queue
LaneBook(e, s) ==
    /\ Lane(e, s)!TypeOK /\ Lane(e, s)!CreditConserved
    /\ BatchSmall(e, s) /\ FramesFull(e, s)

\* Every step of a lane keeps its book.
LEMMA LaneKeeps ==
    ASSUME NEW e \in Ends, NEW s \in Sids, LaneBook(e, s), LaneStep(e, s),
           LanePhase(e, s)' # "breached"
    PROVE  LaneBook(e, s)'
<1>1. W \in Nat \ {0} /\ MaxFrame \in Nat \ {0} /\ Threshold \in 1 .. W
  BY MuxAssumption DEF Threshold
<1> USE <1>1 DEF LaneBook, Lane!TypeOK, Lane!CreditConserved, BatchSmall, FramesFull
<1>2. CASE Lane(e, s)!Open
  <2>1. MappedNull(e, s, "new")
    BY <1>2, MappedNow DEF Lane!Open, Mapped, LanePhase
  <2> QED
    BY <1>2, <2>1 DEF Lane!Open, MappedNull
<1>3. ASSUME NEW n \in 1 .. W, Lane(e, s)!Send(n) PROVE LaneBook(e, s)'
  BY <1>3 DEF Lane!Send
<1>4. ASSUME NEW n \in 1 .. W, Lane(e, s)!Feed(n) PROVE LaneBook(e, s)'
  BY <1>4 DEF Lane!Feed
<1>5. ASSUME NEW n \in 1 .. W, Lane(e, s)!Read(n) PROVE LaneBook(e, s)'
  BY <1>5 DEF Lane!Read
<1>6. ASSUME NEW n \in 1 .. W, Lane(e, s)!Grant(n) PROVE LaneBook(e, s)'
  BY <1>6 DEF Lane!Grant
<1>7. CASE Lane(e, s)!Ack
  BY <1>7 DEF Lane!Ack, Lane!Threshold, Threshold
<1>8. CASE Lane(e, s)!Die
  BY <1>8 DEF Lane!Die, Lane!Forget
<1>9. CASE UNCHANGED Lane(e, s)!vars
  BY <1>9 DEF Lane!vars
<1> QED
  BY <1>2, <1>3, <1>4, <1>5, <1>6, <1>7, <1>8, <1>9 DEF LaneStep, Lane!Next, Lane!Sizes

\* Before anything was opened the books are empty.
LEMMA InitBooks ==
    ASSUME Init
    PROVE  \A e \in Ends, s \in Sids : LaneBook(e, s)
<1>1. Threshold \in Nat \ {0}
  BY MuxAssumption DEF Threshold
<1>2. ASSUME NEW e \in Ends, NEW s \in Sids PROVE LaneBook(e, s)
  <2>1. Lane(e, s)!Init
    BY InitLanes
  <2> QED
    BY <1>1, <2>1 DEF Lane!Init, LaneBook, Lane!TypeOK, Lane!CreditConserved, BatchSmall, FramesFull
<1> QED
  BY <1>2

\* PROTOCOL.md 7 for the multiplexer itself, as long as both ends are chute: on every stream
\* that both ends run, each byte of the window is at exactly one place (the sender's window, a
\* DATA frame, the queue, the consumer, the batch of ack() or a WINDOW_UPDATE frame), the
\* per-stream limits of _feed are out of reach, and a sender without credit whose bytes are
\* all drained has a grant under way.
THEOREM CreditStaysWhole ==
    Spec => [](Compliant => \A e \in Ends, s \in Sids :
                  /\ Lane(e, s)!CreditConserved
                  /\ Lane(e, s)!BackstopsUnreachable
                  /\ Lane(e, s)!BlockedSenderIsOwed)
<1> DEFINE Balanced == Compliant => LanesOK /\ \A e \in Ends, s \in Sids : LaneBook(e, s)
           Promises == Compliant => \A e \in Ends, s \in Sids :
                          /\ Lane(e, s)!CreditConserved
                          /\ Lane(e, s)!BackstopsUnreachable
                          /\ Lane(e, s)!BlockedSenderIsOwed
<1>1. Init => Balanced
  BY InitLanes, InitBooks
<1>2. IInv /\ Balanced /\ [Next]_vars => Balanced'
  <2> SUFFICES ASSUME IInv, Balanced, [Next]_vars, Compliant'
               PROVE  LanesOK' /\ \A e \in Ends, s \in Sids : LaneBook(e, s)'
    OBVIOUS
  <2>1. LanesKept /\ Compliant
    BY StepLanes, ComplianceEnds
  <2>2. ASSUME NEW e \in Ends, NEW s \in Sids PROVE LaneBook(e, s)'
    <3>1. LaneBook(e, s) /\ LaneStep(e, s)
      BY <2>1 DEF LanesKept
    <3>2. LanePhase(e, s)' # "breached"
      BY DEF LanePhase
    <3> QED
      BY <3>1, <3>2, LaneKeeps
  <2> QED
    BY <2>1, <2>2 DEF LanesKept, LanesOK
<1>3. Balanced => Promises
  <2> SUFFICES ASSUME NEW e \in Ends, NEW s \in Sids, LaneBook(e, s)
               PROVE  /\ Lane(e, s)!CreditConserved
                      /\ Lane(e, s)!BackstopsUnreachable
                      /\ Lane(e, s)!BlockedSenderIsOwed
    OBVIOUS
  <2>1. W \in Nat \ {0} /\ Threshold \in 1 .. W
    BY MuxAssumption DEF Threshold
  <2>2. CASE ~LaneLive(e, s)
    BY <2>1, <2>2, MappedNow DEF MappedNull, LaneBook, Lane!BackstopsUnreachable,
       Lane!BlockedSenderIsOwed, Lane!MaxQueuedFrames, LanePhase
  <2>3. CASE LaneLive(e, s)
    <3>1. LanePhase(e, s) = "live"
      BY <2>3, MappedNow DEF Mapped
    <3>2. Lane(e, s)!BackstopsUnreachable
      BY <2>1, <3>1 DEF LaneBook, Lane!TypeOK, Lane!CreditConserved, FramesFull,
         Lane!BackstopsUnreachable, Lane!MaxQueuedFrames
    <3>3. Lane(e, s)!BlockedSenderIsOwed
      BY <2>1, <3>1 DEF LaneBook, Lane!TypeOK, Lane!CreditConserved, BatchSmall,
         Lane!BlockedSenderIsOwed
    <3> QED
      BY <3>2, <3>3 DEF LaneBook
  <2> QED
    BY <2>2, <2>3
<1> HIDE DEF Balanced, Promises
<1>4. Spec => []Promises
  BY <1>1, <1>2, <1>3, InvariantHolds, PTL DEF Spec
<1> QED
  BY <1>4 DEF Promises

=============================================================================
