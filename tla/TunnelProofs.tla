---------------------------- MODULE TunnelProofs ----------------------------
(***************************************************************************)
(* Proofs about Tunnel: the relay tasks keep the contract of Mux, and what *)
(* they tell a socket is true.                                             *)
(***************************************************************************)
EXTENDS Tunnel, MuxProofs

Mains == {"none", "head", "dialing", "relay", "flush", "eof", "ending", "failing", "resetting", "closed"}
Readers == {"off", "reading", "sending", "done", "failed", "cancelled"}
Writers == {"off", "reading", "draining", "done", "failed", "cancelled"}
RelayRecs == [main : Mains, reader : Readers, writer : Writers]
SockRecs == [left : Int, got : Nat, sink : {"none", "open", "fin", "rst"}]

TunnelTypes ==
    /\ relay \in [Ends -> RelayRecs]
    /\ sock \in [Ends -> SockRecs]
    /\ env \in Environments

\* What the relay task t of end e, its socket k and its stream r with history l say
\* about one another; given: somebody gave the visit up.

\* The task's own states go together.
TaskOK(e, t, r) ==
    /\ t.main \in {"none", "head", "dialing"} => t.reader = "off" /\ t.writer = "off"
    /\ r.st = "absent" =>
          t.main \in {"none", "closed"} /\ t.reader = "off" /\ t.writer = "off"
    /\ e = Server => (t.main = "none" <=> r.st = "absent")
    /\ t.main \in {"eof", "ending"} =>
          t.writer = "done" /\ t.reader \notin {"reading", "sending"}
    /\ t.main = "ending" => r.st # "live" \/ r.ended
    /\ t.reader = "done" => r.st # "live" \/ r.ended

\* Bytes are in the queue or were passed on; the sentinel is the last thing read.
QueueOK(t, k, r, l) ==
    /\ k.got + QueuedBytes(r) = l.fed
    /\ \A i \in DOMAIN r.incoming : r.incoming[i] = None => i = Len(r.incoming)
    /\ r.over => r.incoming = <<>>
    /\ t.writer = "done" => r.over /\ k.sink = IF r.recv = "RESET" THEN "rst" ELSE "fin"
    /\ k.sink = "rst" => r.recv = "RESET"

\* Who is in the middle of a send.
SendOwned(e, t, r) ==
    r.left > 0 =>
        \/ t.reader = "sending" /\ t.main \in {"relay", "flush"}
        \/ e = Server /\ t.main = "head"
        \/ e = Agent /\ t.main = "closed" /\ t.reader = "cancelled"

\* Why a stream is no longer there, or a lane was aborted.
ReasonOK(t, r, given) ==
    /\ r.st = "closed" => given \/ t.main = "closed"
    /\ r.recv = "RESET" => given \/ r.resetTask \/ t.main = "closed"

\* The agent half-closes once the local app's bytes, src of them, are all framed.
SourceOK(t, k, r, l, src, given) ==
    /\ r.ended => t.reader = "done"
    /\ t.reader = "done" => given \/ k.left = 0
    /\ given \/ t.reader \in {"failed", "cancelled"} \/ l.sent + r.left + k.left = src

\* What the server hears and says about the response; theirs: the agent half-closed.
ResponseOK(t, k, r, theirs, given) ==
    /\ r.recv = "EOF" => theirs \/ given
    /\ k.sink = "fin" => t.writer = "done" \/ given

EndOK(e, t, k, r, l, theirs, src, given) ==
    /\ TaskOK(e, t, r) /\ QueueOK(t, k, r, l) /\ SendOwned(e, t, r) /\ ReasonOK(t, r, given)
    /\ e = Agent => SourceOK(t, k, r, l, src, given)
    /\ e = Server => ResponseOK(t, k, r, theirs, given)

Troubled == ~Untroubled
TunnelOK ==
    \A e \in Ends :
        EndOK(e, relay[e], sock[e], Str(e), log[e][sid], Str(Peer(e)).ended, env.source[e], Troubled)

TunnelInv == IInv /\ TunnelTypes /\ TunnelOK

-----------------------------------------------------------------------------
(* One end moves                                                           *)

\* There is one stream, and what an environment says of it.
LEMMA OneVisit ==
    /\ MaxSid = 1 /\ Sids = {1} /\ sid \in Sids /\ sid = 1
    /\ \A v \in Environments :
          /\ v.injected = FALSE /\ v.source \in [Ends -> Nat] /\ v.source[Server] > 0
          /\ 1 \in v.chunks /\ v.chunks \subseteq Nat \ {0}
BY TunnelAssumption, MuxAssumption DEF Sids, sid

\* What the invariant says of one end.
LEMMA EndFacts ==
    ASSUME TunnelInv, NEW e \in Ends
    PROVE  /\ Peer(e) \in Ends /\ Peer(e) # e /\ \A d \in Ends : d = e \/ d = Peer(e)
           /\ relay[e] \in RelayRecs /\ sock[e] \in SockRecs /\ env.source[e] \in Nat
           /\ Str(e) \in StreamRecs /\ log[e][sid] \in LogRecs /\ StreamOK(Str(e))
           /\ EndOK(e, relay[e], sock[e], Str(e), log[e][sid], Str(Peer(e)).ended, env.source[e],
                    Troubled)
           /\ IInv /\ MuxTypes /\ Compliant
<1>1. /\ Peer(e) \in Ends /\ Peer(e) # e /\ \A d \in Ends : d = e \/ d = Peer(e)
  BY PeerFacts
<1>2. IInv /\ TunnelTypes /\ TunnelOK /\ MuxTypes
  BY DEF TunnelInv, IInv
<1>3. Str(e) \in StreamRecs /\ log[e][sid] \in LogRecs /\ StreamOK(Str(e))
  BY <1>2, OneVisit, StreamFacts DEF Str
<1>4. relay[e] \in RelayRecs /\ sock[e] \in SockRecs /\ env.source[e] \in Nat /\ Compliant
  BY <1>2, OneVisit DEF TunnelTypes, Compliant
<1> QED
  BY <1>1, <1>2, <1>3, <1>4 DEF TunnelOK

\* The visit's trouble, and the other end's half-close, only come.
LEMMA EndGrows ==
    ASSUME NEW e, NEW t, NEW k, NEW r, NEW l, NEW src,
           NEW theirs \in BOOLEAN, NEW given \in BOOLEAN, NEW theirs2 \in BOOLEAN, NEW given2 \in BOOLEAN,
           EndOK(e, t, k, r, l, theirs, src, given), theirs => theirs2, given => given2
    PROVE  EndOK(e, t, k, r, l, theirs2, src, given2)
BY DEF EndOK, ReasonOK, SourceOK, ResponseOK

\* One end's stream, history, task and socket move; the rest stays.
LEMMA OneEnd ==
    ASSUME TunnelInv, NEW e \in Ends, NEW z \in StreamRecs, NEW m \in LogRecs,
           NEW t \in RelayRecs, NEW k \in SockRecs,
           SetStream(e, sid, z), SetLog(e, sid, m), UNCHANGED env,
           relay' = [relay EXCEPT ![e] = t], sock' = [sock EXCEPT ![e] = k],
           Troubled => Troubled', Str(e).ended => z.ended,
           EndOK(e, t, k, z, m, Str(Peer(e)).ended, env.source[e], Troubled')
    PROVE  TunnelTypes' /\ TunnelOK'
<1>1. sid \in Sids /\ MuxTypes /\ TunnelTypes
  BY OneVisit DEF TunnelInv, IInv
<1>2. Peer(e) \in Ends /\ Peer(e) # e /\ Peer(Peer(e)) = e /\ \A d \in Ends : d = e \/ d = Peer(e)
  BY PeerFacts
<1>3. /\ Str(e)' = z /\ Str(Peer(e))' = Str(Peer(e))
      /\ log'[e][sid] = m /\ log'[Peer(e)][sid] = log[Peer(e)][sid]
  <2>1. stream'[e][sid] = z /\ stream'[Peer(e)][sid] = stream[Peer(e)][sid]
    BY <1>1, <1>2, PutStream
  <2>2. log'[e][sid] = m /\ log'[Peer(e)][sid] = log[Peer(e)][sid]
    BY <1>1, <1>2, PutLog
  <2> QED
    BY <2>1, <2>2 DEF Str
<1>4. /\ relay'[e] = t /\ relay'[Peer(e)] = relay[Peer(e)] /\ relay' \in [Ends -> RelayRecs]
      /\ sock'[e] = k /\ sock'[Peer(e)] = sock[Peer(e)] /\ sock' \in [Ends -> SockRecs]
  BY <1>1, <1>2 DEF TunnelTypes
<1>5. TunnelTypes'
  BY <1>1, <1>4 DEF TunnelTypes
<1>6. Str(e).ended \in BOOLEAN /\ z.ended \in BOOLEAN /\ Troubled \in BOOLEAN /\ Troubled' \in BOOLEAN
  BY EndFacts DEF StreamRecs, Troubled
<1>7. EndOK(Peer(e), relay[Peer(e)], sock[Peer(e)], Str(Peer(e)), log[Peer(e)][sid], Str(e).ended,
            env.source[Peer(e)], Troubled)
  BY <1>2 DEF TunnelInv, TunnelOK
<1>8. EndOK(Peer(e), relay[Peer(e)], sock[Peer(e)], Str(Peer(e)), log[Peer(e)][sid], z.ended,
            env.source[Peer(e)], Troubled')
  BY <1>6, <1>7, EndGrows
<1>9. ASSUME NEW d \in Ends
      PROVE  EndOK(d, relay[d], sock[d], Str(d), log[d][sid], Str(Peer(d)).ended, env.source[d],
                   Troubled)'
  <2>1. CASE d = e
    <3>1. EndOK(e, relay'[e], sock'[e], Str(e)', log'[e][sid], Str(Peer(e))'.ended, env'.source[e], Troubled')
      BY <1>3, <1>4
    <3> QED
      BY <2>1, <3>1
  <2>2. CASE d = Peer(e)
    <3>1. EndOK(d, relay'[d], sock'[d], Str(d)', log'[d][sid], Str(e)'.ended, env'.source[d], Troubled')
      BY <1>3, <1>4, <1>8, <2>2
    <3> QED
      BY <1>2, <2>2, <3>1
  <2> QED
    BY <1>2, <2>1, <2>2
<1> QED
  BY <1>5, <1>9 DEF TunnelOK

-----------------------------------------------------------------------------
(* Trouble stays                                                           *)

\* An end's own fields are replaced, its websocket as it was or gone.
LEMMA MuxOnward ==
    ASSUME IInv, NEW e \in Ends, NEW m, SetMux(e, m), m.ws = "open" => mux[e].ws = "open",
           NEW d \in Ends
    PROVE  mux'[d].ws = "open" => mux[d].ws = "open"
BY DEF IInv, MuxTypes, SetMux

\* The fields that a teardown reconciles.
LEMMA ReconciledOnward ==
    ASSUME NEW e, NEW m \in MuxRecs, NEW r
    PROVE  Reconciled(e, m, r).ws = m.ws
BY DEF Reconciled, MuxRecs

\* Nor does the end of run() bring one back.
LEMMA StopOnward ==
    ASSUME IInv, NEW e \in Ends, NEW m \in MuxRecs, m.ws = "open" => mux[e].ws = "open", StopRun(e, m),
           NEW d \in Ends
    PROVE  mux'[d].ws = "open" => mux[d].ws = "open"
<1>1. \E b, c, a : SetMux(e, [m EXCEPT !.buffered = b, !.frames = c, !.account = a,
                                       !.running = FALSE, !.resetSends = {}])
  BY Zenon DEF StopRun, SetMux
<1>2. PICK b, c, a : SetMux(e, [m EXCEPT !.buffered = b, !.frames = c, !.account = a,
                                         !.running = FALSE, !.resetSends = {}])
  BY <1>1
<1> DEFINE n == [m EXCEPT !.buffered = b, !.frames = c, !.account = a,
                          !.running = FALSE, !.resetSends = {}]
<1>3. n.ws = m.ws
  BY DEF MuxRecs
<1>4. SetMux(e, n)
  BY <1>2
<1> HIDE DEF n
<1> QED
  BY <1>3, <1>4, MuxOnward

\* A frame taken off the wire brings no connection back.
LEMMA DemuxOnward ==
    ASSUME IInv, NEW e \in Ends, Demux(e), NEW d \in Ends
    PROVE  mux'[d].ws = "open" => mux[d].ws = "open"
<1> DEFINE f == Arrived(e)
           s == f.sid
<1>1. mux \in [Ends -> MuxRecs] /\ mux[e] \in MuxRecs
  BY DEF IInv, MuxTypes
<1>2. CASE UNCHANGED mux
  BY <1>2
<1>3. CASE IgnoreFrame(e)
  <2> DEFINE m == [mux[e] EXCEPT !.ignored = @ + 1]
  <2>1. m \in MuxRecs /\ m.ws = mux[e].ws
    BY <1>1 DEF MuxRecs
  <2>2. [m EXCEPT !.ws = "lost"] \in MuxRecs /\ [m EXCEPT !.ws = "lost"].ws = "lost"
    <3> HIDE DEF m
    <3> QED
      BY <2>1 DEF MuxRecs
  <2>3. SetMux(e, m) \/ StopRun(e, [m EXCEPT !.ws = "lost"])
    BY <1>3, Zenon DEF IgnoreFrame, SetMux
  <2> HIDE DEF m
  <2>4. CASE SetMux(e, m)
    BY <2>1, <2>4, MuxOnward
  <2>5. CASE StopRun(e, [m EXCEPT !.ws = "lost"])
    BY <2>2, <2>5, StopOnward
  <2> QED
    BY <2>3, <2>4, <2>5
<1>4. CASE RefuseStream(e, s)
  <2> DEFINE p == Reconciled(e, mux[e], stream[e][s])
  <2>1. SetMux(e, WithSendReset(p, s))
    BY <1>4, Zenon DEF RefuseStream, SetMux
  <2>2. p.ws = mux[e].ws
    BY <1>1, ReconciledOnward
  <2>3. WithSendReset(p, s).ws = p.ws
    BY <1>1 DEF WithSendReset, Reconciled, MuxRecs
  <2> QED
    BY <2>1, <2>2, <2>3, MuxOnward
<1>5. CASE RefuseOpen(e, s)
  <2>1. SetMux(e, WithSendReset(mux[e], s))
    BY <1>5, Zenon DEF RefuseOpen, SetMux
  <2>2. WithSendReset(mux[e], s).ws = mux[e].ws
    BY <1>1 DEF WithSendReset, MuxRecs
  <2> QED
    BY <2>1, <2>2, MuxOnward
<1>6. CASE Feed(e, s, f.n)
  <2>1. CASE Breach(e, s, f.n) = "none"
    <3>1. mux' = [mux EXCEPT ![e].buffered = @ + f.n, ![e].frames = @ + 1,
                             ![e].account = IF e = Server THEN @ + f.n ELSE @]
      BY <1>6, <2>1, Zenon DEF Feed
    <3> QED
      BY <1>1, <3>1 DEF MuxRecs
  <2>2. CASE Breach(e, s, f.n) # "none"
    <3>1. mux' = [mux EXCEPT ![e].breach = @ \cup {Breach(e, s, f.n)}]
      BY <1>6, <2>2, Zenon DEF Feed
    <3> QED
      BY <1>1, <3>1 DEF MuxRecs
  <2> QED
    BY <2>1, <2>2
<1>7. CASE CloseLocal(e, s, "RESET")
  <2>1. SetMux(e, Reconciled(e, mux[e], stream[e][s]))
    BY <1>7, Zenon DEF CloseLocal, SetMux
  <2> QED
    BY <1>1, <2>1, ReconciledOnward, MuxOnward
<1>8. CASE mux' = [mux EXCEPT ![e].peerGoingAway = TRUE]
  BY <1>1, <1>8 DEF MuxRecs
<1>9. \/ UNCHANGED mux \/ IgnoreFrame(e) \/ RefuseStream(e, s) \/ RefuseOpen(e, s)
      \/ Feed(e, s, f.n) \/ CloseLocal(e, s, "RESET")
      \/ mux' = [mux EXCEPT ![e].peerGoingAway = TRUE]
  <2>1. CASE RecvOpen(e)
    BY <2>1, Zenon DEF RecvOpen
  <2>2. CASE RecvData(e)
    BY <2>2, Zenon DEF RecvData
  <2>3. CASE RecvEof(e)
    BY <2>3, Zenon DEF RecvEof
  <2>4. CASE RecvWindowUpdate(e)
    BY <2>4, Zenon DEF RecvWindowUpdate
  <2>5. CASE RecvReset(e)
    BY <2>5, Zenon DEF RecvReset
  <2>6. CASE RecvGoaway(e) \/ RecvOther(e)
    BY <2>6, Zenon DEF RecvGoaway, RecvOther
  <2> QED
    BY <2>1, <2>2, <2>3, <2>4, <2>5, <2>6 DEF Demux
<1> QED
  BY <1>2, <1>3, <1>4, <1>5, <1>6, <1>7, <1>8, <1>9

\* Nor does a step of the connection or of a task.
LEMMA TaskOnward ==
    ASSUME IInv, NEW e \in Ends, NEW s \in Sids, Connection(e) \/ StreamTask(e, s), NEW d \in Ends
    PROVE  mux'[d].ws = "open" => mux[d].ws = "open"
<1>1. mux \in [Ends -> MuxRecs] /\ mux[e] \in MuxRecs
  BY DEF IInv, MuxTypes
<1>2. CASE UNCHANGED mux
  BY <1>2
<1>3. CASE Read(e, s)
  <2> DEFINE n == Head(stream[e][s].incoming)
  <2>1. \/ UNCHANGED mux
        \/ mux' = [mux EXCEPT ![e].buffered = @ - n, ![e].frames = @ - 1, ![e].account = Released(e, @, n)]
    BY <1>3, Zenon DEF Read
  <2> HIDE DEF n
  <2> QED
    BY <1>1, <2>1 DEF MuxRecs
<1>4. CASE \E t : CloseLocal(e, s, t)
  <2>1. SetMux(e, Reconciled(e, mux[e], stream[e][s]))
    BY <1>4, Zenon DEF CloseLocal, SetMux
  <2> QED
    BY <1>1, <2>1, ReconciledOnward, MuxOnward
<1>5. CASE ResetTask(e, s)
  <2>1. SetMux(e, Reconciled(e, mux[e], stream[e][s]))
    BY <1>5, Zenon DEF ResetTask, SetMux
  <2> QED
    BY <1>1, <2>1, ReconciledOnward, MuxOnward
<1>6. CASE SendOnce(e, s) \/ GoAway(e) \/ DrainClose(e) \/ Lose(e) \/ Notice(e)
  BY <1>1, <1>6 DEF SendOnce, GoAway, DrainClose, Lose, Notice, MuxRecs
<1>7. CASE RunEnds(e)
  <2>1. StopRun(e, mux[e])
    BY <1>7 DEF RunEnds
  <2> QED
    BY <1>1, <2>1, StopOnward
<1>8. \/ UNCHANGED mux \/ Read(e, s) \/ (\E t : CloseLocal(e, s, t)) \/ ResetTask(e, s)
      \/ SendOnce(e, s) \/ GoAway(e) \/ DrainClose(e) \/ Lose(e) \/ Notice(e) \/ RunEnds(e)
  BY DEF Connection, StreamTask, StartSend, SendStep, WakeSender, CreditStall, CancelSend, SendEof, Ack,
         Reset, ResetNow, Close, CloseNow
<1> QED
  BY <1>2, <1>3, <1>4, <1>5, <1>6, <1>7, <1>8

\* A RESET that was sent stays sent.
LEMMA ResetsOnward ==
    ASSUME IInv, [Next]_vars, NEW d \in Ends, NEW x \in Sids
    PROVE  log'[d][x].resets = 0 => log[d][x].resets = 0
<1>1. log \in [Ends -> [Sids -> LogRecs]] /\ log[d][x] \in LogRecs
  BY DEF IInv, MuxTypes
<1>2. CASE UNCHANGED log
  BY <1>2
<1>3. ASSUME NEW e \in Ends, NEW s, NEW n,
             \/ log' = [log EXCEPT ![e][s].sent = n] \/ log' = [log EXCEPT ![e][s].fed = n]
      PROVE  log'[d][x].resets = 0 => log[d][x].resets = 0
  <2>1. CASE s \in Sids
    <3>1. CASE log' = [log EXCEPT ![e][s].sent = n]
      BY <1>1, <2>1, <3>1 DEF LogRecs
    <3>2. CASE log' = [log EXCEPT ![e][s].fed = n]
      BY <1>1, <2>1, <3>2 DEF LogRecs
    <3> QED
      BY <1>3, <3>1, <3>2
  <2>2. CASE s \notin Sids
    BY <1>1, <1>3, <2>2
  <2> QED
    BY <2>1, <2>2
<1>4. ASSUME NEW e \in Ends, NEW s, NEW b \in BOOLEAN,
             log' = [log EXCEPT ![e][s].resets = IF b THEN @ + 1 ELSE @]
      PROVE  log'[d][x].resets = 0 => log[d][x].resets = 0
  BY <1>1, <1>4 DEF LogRecs
<1>5. CASE \E e \in Ends, s \in Sids : ResetNow(e, s) \/ ResetTask(e, s) \/ SendOnce(e, s)
  <2>1. PICK e \in Ends, s \in Sids : ResetNow(e, s) \/ ResetTask(e, s) \/ SendOnce(e, s)
    BY <1>5
  <2>2. \E b \in BOOLEAN : log' = [log EXCEPT ![e][s].resets = IF b THEN @ + 1 ELSE @]
    BY <2>1, Zenon DEF ResetNow, ResetTask, SendOnce
  <2> QED
    BY <1>4, <2>2
<1>6. CASE \E e \in Ends, s \in Sids : SendStep(e, s)
  <2>1. PICK e \in Ends, s \in Sids : SendStep(e, s)
    BY <1>6
  <2>2. UNCHANGED log \/ \E n : log' = [log EXCEPT ![e][s].sent = n]
    BY <2>1, Zenon DEF SendStep
  <2> QED
    BY <1>2, <1>3, <2>2
<1>7. CASE \E e \in Ends : RecvData(e)
  <2>1. PICK e \in Ends : RecvData(e)
    BY <1>7
  <2>2. UNCHANGED log \/ \E s, n : log' = [log EXCEPT ![e][s].fed = n]
    BY <2>1, Zenon DEF RecvData, Feed
  <2> QED
    BY <1>2, <1>3, <2>2
<1>8. \/ UNCHANGED log
      \/ \E e \in Ends, s \in Sids : ResetNow(e, s) \/ ResetTask(e, s) \/ SendOnce(e, s)
      \/ \E e \in Ends, s \in Sids : SendStep(e, s)
      \/ \E e \in Ends : RecvData(e)
  <2>1. CASE Open \/ UNCHANGED vars \/ \E j \in Junk : Inject(j[1], j[2])
    BY <2>1 DEF Open, Inject, vars
  <2>2. CASE \E e \in Ends : Demux(e)
    BY <2>2 DEF Demux, RecvOpen, RecvEof, RecvWindowUpdate, RecvReset, RecvGoaway, RecvOther
  <2>3. CASE \E e \in Ends : Connection(e)
    BY <2>3 DEF Connection, GoAway, DrainClose, Lose, Notice, RunEnds
  <2>4. CASE \E e \in Ends, s \in Sids : StreamTask(e, s)
    <3>1. PICK e \in Ends, s \in Sids : StreamTask(e, s)
      BY <2>4
    <3>2. CASE \E n \in env.chunks : StartSend(e, s, n)
      BY <3>2 DEF StartSend
    <3>3. CASE WakeSender(e, s) \/ CreditStall(e, s) \/ CancelSend(e, s) \/ SendEof(e, s)
      BY <3>3 DEF WakeSender, CreditStall, CancelSend, SendEof
    <3>4. CASE Read(e, s) \/ Ack(e, s) \/ Close(e, s)
      BY <3>4 DEF Read, Ack, Close, CloseNow
    <3>5. CASE Reset(e, s)
      BY <3>5 DEF Reset
    <3> QED
      BY <3>1, <3>2, <3>3, <3>4, <3>5, Zenon DEF StreamTask
  <2> QED
    BY <2>1, <2>2, <2>3, <2>4 DEF Next
<1> QED
  BY <1>2, <1>5, <1>6, <1>7, <1>8

\* A visit that was given up stays given up.
LEMMA TroubleStays ==
    ASSUME IInv, [Next]_vars
    PROVE  Troubled => Troubled'
<1>1. ASSUME NEW d \in Ends PROVE mux'[d].ws = "open" => mux[d].ws = "open"
  <2>1. CASE Open \/ UNCHANGED vars \/ \E j \in Junk : Inject(j[1], j[2])
    BY <2>1 DEF Open, Inject, vars
  <2>2. CASE \E e \in Ends : Demux(e)
    BY <2>2, DemuxOnward
  <2>3. CASE \E e \in Ends : Connection(e)
    BY <2>3, OneVisit, TaskOnward
  <2>4. CASE \E e \in Ends, s \in Sids : StreamTask(e, s)
    BY <2>4, TaskOnward
  <2> QED
    BY <2>1, <2>2, <2>3, <2>4 DEF Next
<1>2. \A d \in Ends : log'[d][sid].resets = 0 => log[d][sid].resets = 0
  BY OneVisit, ResetsOnward
<1> QED
  BY <1>1, <1>2 DEF Troubled, Untroubled

-----------------------------------------------------------------------------
(* The relay tasks keep the contract of the multiplexer                    *)

\* Every step of the pumps and of the relay tasks is a step of Mux: what they call, they call
\* when the contract allows it, close() included.
LEMMA RelayIsCaller ==
    ASSUME TunnelInv, TunnelNext
    PROVE  [Next]_vars
<1>0. sid \in Sids /\ Server \in Ends /\ Agent \in Ends /\ env \in Environments /\ 1 \in env.chunks
  BY OneVisit DEF Ends, TunnelInv, TunnelTypes
<1> USE DEF StreamTask
<1>1. ASSUME NEW e \in Ends, StreamTask(e, sid) \/ UNCHANGED vars PROVE [Next]_vars
  BY <1>0, <1>1 DEF Next
<1>2. ASSUME NEW e \in Ends, Demux(e) \/ Connection(e) PROVE [Next]_vars
  BY <1>2 DEF Next
<1>3. ASSUME NEW e \in Ends, EofOrNothing(e) PROVE [Next]_vars
  BY <1>1, <1>3 DEF EofOrNothing
<1>4. CASE Visit
  BY <1>4 DEF Visit, Next
<1>5. CASE SendHead
  BY <1>0, <1>1, <1>5 DEF SendHead
<1>6. CASE Dialed \/ DialFails \/ ReaderFirst
  BY <1>6 DEF Dialed, DialFails, ReaderFirst
<1>7. CASE WriterFirst
  BY <1>0, <1>1, <1>7 DEF WriterFirst
<1>8. CASE WriterFirstEof
  BY <1>0, <1>3, <1>8 DEF WriterFirstEof
<1>9. CASE AgentRunEnds
  BY <1>0, <1>2, <1>9 DEF AgentRunEnds, Connection
<1>10. ASSUME NEW e \in Ends, NEW n \in env.chunks, PumpIn(e, n) PROVE [Next]_vars
  BY <1>1, <1>10 DEF PumpIn
<1>11. ASSUME NEW e \in Ends, Sending(e) \/ Waking(e) \/ Stalling(e) PROVE [Next]_vars
  BY <1>1, <1>11 DEF Sending, Waking, Stalling
<1>12. ASSUME NEW e \in Ends, PumpInEof(e) PROVE [Next]_vars
  BY <1>3, <1>12 DEF PumpInEof
<1>13. ASSUME NEW e \in Ends, PumpOut(e) \/ PumpOutDrained(e) PROVE [Next]_vars
  BY <1>1, <1>13 DEF PumpOut, PumpOutDrained
<1>14. ASSUME NEW e \in Ends, PumpInFails(e) \/ PumpOutFails(e) \/ BothDone(e) PROVE [Next]_vars
  BY <1>14 DEF PumpInFails, PumpOutFails, BothDone
<1>15. ASSUME NEW e \in Ends, CancelSiblings(e) PROVE [Next]_vars
  BY <1>1, <1>15 DEF CancelSiblings
<1>16. ASSUME NEW e \in Ends, ResetAndClose(e) PROVE [Next]_vars
  BY <1>1, <1>16 DEF ResetAndClose
<1>17. ASSUME NEW e \in Ends, EndRelay(e) PROVE [Next]_vars
  <2>1. CASE Live(e, sid) /\ CloseNow(e, sid)
    <3> DEFINE t == relay[e]
               r == Str(e)
    <3>1. /\ t.main = "ending" /\ r.st = "live" /\ TaskOK(e, t, r) /\ SendOwned(e, t, r)
          /\ QueueOK(t, sock[e], r, log[e][sid]) /\ t \in RelayRecs /\ r \in StreamRecs
      BY <1>17, <2>1, EndFacts DEF EndRelay, Live, Str, EndOK
    <3> HIDE DEF t, r
    <3>2. r.ended /\ r.over
      BY <3>1 DEF TaskOK, QueueOK
    <3>3. ~(r.left > 0)
      BY <3>1 DEF TaskOK, SendOwned
    <3>4. r.left = 0
      BY <3>1, <3>3 DEF StreamRecs
    <3>5. Close(e, sid)
      BY <2>1, <3>2, <3>4 DEF Close, Str, r
    <3> QED
      BY <1>1, <3>5
  <2> QED
    BY <1>1, <1>17, <2>1 DEF EndRelay
<1>18. ASSUME NEW e \in Ends, DemuxStep(e) PROVE [Next]_vars
  BY <1>2, <1>18 DEF DemuxStep
<1>19. ASSUME NEW e \in Ends, ConnectionStep(e) PROVE [Next]_vars
  BY <1>1, <1>2, <1>19 DEF ConnectionStep, Connection
<1> QED
  BY <1>4, <1>5, <1>6, <1>7, <1>8, <1>9, <1>10, <1>11, <1>12, <1>13, <1>14, <1>15, <1>16, <1>17,
     <1>18, <1>19 DEF TunnelNext

-----------------------------------------------------------------------------
(* The sending half                                                        *)

\* End e's stream becomes z and its history m, by a step of its sender.
SenderMoves(e, z, m) ==
    /\ z \in StreamRecs /\ m \in LogRecs /\ SetStream(e, sid, z) /\ SetLog(e, sid, m) /\ UNCHANGED env
    /\ z.st = Str(e).st /\ z.recv = Str(e).recv /\ z.incoming = Str(e).incoming
    /\ z.over = Str(e).over /\ z.resetTask = Str(e).resetTask /\ m.fed = log[e][sid].fed
    /\ Str(e).ended => z.ended

\* What stays of a queue nobody touched.
LEMMA QueueKept ==
    ASSUME NEW t, NEW k, NEW r, NEW l, NEW t2, NEW k2, NEW z, NEW m, QueueOK(t, k, r, l),
           z.incoming = r.incoming, z.over = r.over, z.recv = r.recv, m.fed = l.fed,
           k2.got = k.got, k2.sink = k.sink, t2.writer = "done" => t.writer = "done"
    PROVE  QueueOK(t2, k2, z, m)
BY DEF QueueOK, QueuedBytes

\* Nothing happens to the stream.
LEMMA NothingMoves ==
    ASSUME TunnelInv, NEW e \in Ends, UNCHANGED vars
    PROVE  SenderMoves(e, Str(e), log[e][sid])
<1>1. MuxTypes /\ UNCHANGED <<stream, log, env>> /\ sid \in Sids
  BY OneVisit DEF TunnelInv, IInv, vars
<1>2. SetStream(e, sid, Str(e)) /\ SetLog(e, sid, log[e][sid])
  BY <1>1, Unassigned DEF Str
<1> QED
  BY <1>1, <1>2, EndFacts DEF SenderMoves

\* Stream.send begins.
LEMMA StartMoves ==
    ASSUME TunnelInv, NEW e \in Ends, NEW n \in Nat, StartSend(e, sid, n)
    PROVE  /\ SenderMoves(e, [Str(e) EXCEPT !.left = n], log[e][sid])
           /\ [Str(e) EXCEPT !.left = n].left = n /\ [Str(e) EXCEPT !.left = n].ended = Str(e).ended
           /\ Str(e).left = 0 /\ Str(e).st = "live" /\ ~Str(e).ended
<1> DEFINE r == Str(e)
           z == [r EXCEPT !.left = n]
<1>1. r \in StreamRecs /\ log[e][sid] \in LogRecs /\ MuxTypes /\ sid \in Sids
  BY EndFacts, OneVisit
<1>2. SetStream(e, sid, z)
  BY Zenon DEF StartSend, SetStream, Str
<1>3. SetLog(e, sid, log[e][sid]) /\ UNCHANGED env
  BY <1>1, Unassigned DEF StartSend
<1>4. r.left = 0 /\ r.st = "live" /\ ~r.ended
  BY DEF StartSend, Str, Live
<1> HIDE DEF r
<1>5. /\ z \in StreamRecs /\ z.st = r.st /\ z.recv = r.recv /\ z.incoming = r.incoming
      /\ z.over = r.over /\ z.resetTask = r.resetTask /\ z.ended = r.ended /\ z.left = n
  BY <1>1 DEF StreamRecs
<1> HIDE DEF z
<1>6. SenderMoves(e, z, log[e][sid])
  BY <1>1, <1>2, <1>3, <1>5 DEF SenderMoves, r
<1> QED
  BY <1>4, <1>5, <1>6 DEF z, r

\* It is woken, gives up for lack of credit, or is cancelled.
LEMMA StopMoves ==
    ASSUME TunnelInv, NEW e \in Ends, WakeSender(e, sid) \/ CreditStall(e, sid) \/ CancelSend(e, sid)
    PROVE  \E z : /\ SenderMoves(e, z, log[e][sid]) /\ z.ended = Str(e).ended
                  /\ WakeSender(e, sid) => z.left = Str(e).left
                  /\ CreditStall(e, sid) \/ CancelSend(e, sid) => z.left = 0 /\ UNCHANGED mux
<1> DEFINE r == Str(e)
           a == [r EXCEPT !.parked = FALSE]
           b == [r EXCEPT !.left = 0, !.parked = FALSE]
<1>1. r \in StreamRecs /\ log[e][sid] \in LogRecs /\ MuxTypes /\ sid \in Sids
  BY EndFacts, OneVisit
<1>2. SetLog(e, sid, log[e][sid]) /\ UNCHANGED env /\ UNCHANGED mux
  BY <1>1, Unassigned DEF WakeSender, CreditStall, CancelSend
<1>3. CASE CreditStall(e, sid) \/ CancelSend(e, sid)
  <2>1. stream' = [stream EXCEPT ![e][sid].left = 0, ![e][sid].parked = FALSE]
    BY <1>3, Zenon DEF CreditStall, CancelSend
  <2>2. SetStream(e, sid, b)
    BY <1>1, <2>1 DEF SetStream, StreamRecs, MuxTypes, Str
  <2>3. b.left = 0 /\ (WakeSender(e, sid) => b.left = r.left)
    <3>1. WakeSender(e, sid) => stream'[e][sid] = a
      <4>1. WakeSender(e, sid) => SetStream(e, sid, a)
        BY Zenon DEF WakeSender, SetStream, Str
      <4>2. a \in StreamRecs
        <5> HIDE DEF r
        <5> QED
          BY <1>1 DEF StreamRecs
      <4> HIDE DEF a
      <4> QED
        BY <1>1, <4>1, <4>2, PutStream
    <3>2. stream'[e][sid] = b
      BY <1>1, <2>2, PutStream DEF SetStream, MuxTypes
    <3>3. a.left = r.left /\ b.left = 0
      BY <1>1 DEF StreamRecs
    <3> QED
      BY <3>1, <3>2, <3>3
  <2> HIDE DEF r
  <2>4. /\ b \in StreamRecs /\ b.st = r.st /\ b.recv = r.recv /\ b.incoming = r.incoming
        /\ b.over = r.over /\ b.resetTask = r.resetTask /\ b.ended = r.ended
    BY <1>1 DEF StreamRecs
  <2> HIDE DEF b
  <2>5. SenderMoves(e, b, log[e][sid])
    BY <1>1, <1>2, <2>2, <2>4 DEF SenderMoves, r
  <2> QED
    BY <1>2, <2>3, <2>4, <2>5 DEF r
<1>4. CASE WakeSender(e, sid) /\ ~(CreditStall(e, sid) \/ CancelSend(e, sid))
  <2>1. SetStream(e, sid, a)
    BY <1>4, Zenon DEF WakeSender, SetStream, Str
  <2> HIDE DEF r
  <2>2. /\ a \in StreamRecs /\ a.st = r.st /\ a.recv = r.recv /\ a.incoming = r.incoming
        /\ a.over = r.over /\ a.resetTask = r.resetTask /\ a.ended = r.ended /\ a.left = r.left
    BY <1>1 DEF StreamRecs
  <2> HIDE DEF a
  <2>3. SenderMoves(e, a, log[e][sid])
    BY <1>1, <1>2, <2>1, <2>2 DEF SenderMoves, r
  <2> QED
    BY <1>4, <2>2, <2>3 DEF r
<1> QED
  BY <1>3, <1>4

\* send_eof, where it does anything.
LEMMA EofMoves ==
    ASSUME TunnelInv, NEW e \in Ends, EofOrNothing(e)
    PROVE  \E z : /\ SenderMoves(e, z, log[e][sid]) /\ z.left = Str(e).left
                  /\ z.st # "live" \/ z.ended
                  /\ ~Str(e).ended /\ z.ended => Str(e).st = "live"
<1> DEFINE r == Str(e)
           z == [r EXCEPT !.ended = TRUE]
<1>1. r \in StreamRecs /\ log[e][sid] \in LogRecs /\ MuxTypes /\ sid \in Sids
  BY EndFacts, OneVisit
<1>2. CASE SendEof(e, sid)
  <2>1. SetStream(e, sid, z)
    BY <1>2, Zenon DEF SendEof, SetStream, Str
  <2>2. SetLog(e, sid, log[e][sid]) /\ UNCHANGED env /\ r.st = "live"
    BY <1>1, <1>2, Unassigned DEF SendEof, Live, Str
  <2> HIDE DEF r
  <2>3. /\ z \in StreamRecs /\ z.st = r.st /\ z.recv = r.recv /\ z.incoming = r.incoming
        /\ z.over = r.over /\ z.resetTask = r.resetTask /\ z.ended /\ z.left = r.left
    BY <1>1 DEF StreamRecs
  <2> HIDE DEF z
  <2>4. SenderMoves(e, z, log[e][sid])
    BY <1>1, <2>1, <2>2, <2>3 DEF SenderMoves, r
  <2> QED
    BY <2>2, <2>3, <2>4 DEF r
<1>3. CASE ~(r.st = "live" /\ ~r.ended) /\ UNCHANGED vars
  BY <1>3, NothingMoves
<1> QED
  BY <1>2, <1>3 DEF EofOrNothing, Live, Str

\* One turn of the loop in send(): the stream is over, there is no credit, or a frame goes.
LEMMA StepMoves ==
    ASSUME TunnelInv, NEW e \in Ends, SendStep(e, sid)
    PROVE  \E z, m :
              /\ SenderMoves(e, z, m) /\ z.ended = Str(e).ended /\ Str(e).left > 0
              /\ \/ /\ Str(e).st = "closed" \/ Str(e).ended
                    /\ z.left = 0 /\ m = log[e][sid]
                 \/ z.left = Str(e).left /\ m = log[e][sid]
                 \/ mux[e].ws = "open" /\ m.sent + z.left = log[e][sid].sent + Str(e).left
                 \/ mux[e].ws # "open" /\ z.left = 0 /\ m = log[e][sid] /\ UNCHANGED mux
<1> DEFINE r == Str(e)
           l == log[e][sid]
           n == Min({r.left, r.window, MaxFrame})
           up == mux[e].ws = "open"
<1>1. r \in StreamRecs /\ l \in LogRecs /\ MuxTypes /\ sid \in Sids
  BY EndFacts, OneVisit
<1>2. UNCHANGED <<mux, env>> /\ r.left > 0
  BY DEF SendStep, Str
<1>3. CASE SendOver(r) /\ stream' = [stream EXCEPT ![e][sid].left = 0] /\ UNCHANGED log
  <2> DEFINE z == [r EXCEPT !.left = 0]
  <2>1. SetStream(e, sid, z)
    BY <1>3, Zenon DEF SetStream, Str
  <2>2. SetLog(e, sid, l) /\ (r.st = "closed" \/ r.ended)
    BY <1>1, <1>3, Unassigned DEF SendOver
  <2>3. /\ z \in StreamRecs /\ z.st = r.st /\ z.recv = r.recv /\ z.incoming = r.incoming
        /\ z.over = r.over /\ z.resetTask = r.resetTask /\ z.ended = r.ended /\ z.left = 0
    <3> HIDE DEF r
    <3> QED
      BY <1>1 DEF StreamRecs
  <2> HIDE DEF z
  <2>4. SenderMoves(e, z, l)
    BY <1>1, <1>2, <2>1, <2>2, <2>3 DEF SenderMoves
  <2> QED
    BY <1>2, <2>2, <2>3, <2>4
<1>4. CASE /\ stream' = [stream EXCEPT ![e][sid].parked = TRUE, ![e][sid].waiter = FALSE] /\ UNCHANGED log
  <2> DEFINE z == [r EXCEPT !.parked = TRUE, !.waiter = FALSE]
  <2>1. SetStream(e, sid, z)
    BY <1>1, <1>4 DEF SetStream, StreamRecs, MuxTypes, Str
  <2>2. SetLog(e, sid, l)
    BY <1>1, <1>4, Unassigned
  <2>3. /\ z \in StreamRecs /\ z.st = r.st /\ z.recv = r.recv /\ z.incoming = r.incoming
        /\ z.over = r.over /\ z.resetTask = r.resetTask /\ z.ended = r.ended /\ z.left = r.left
    <3> HIDE DEF r
    <3> QED
      BY <1>1 DEF StreamRecs
  <2> HIDE DEF z
  <2>4. SenderMoves(e, z, l)
    BY <1>1, <1>2, <2>1, <2>2, <2>3 DEF SenderMoves
  <2> QED
    BY <1>2, <2>2, <2>3, <2>4
<1>5. CASE /\ r.window > 0
           /\ stream' = [stream EXCEPT ![e][sid].window = @ - n, ![e][sid].left = IF up THEN @ - n ELSE 0]
           /\ log' = [log EXCEPT ![e][sid].sent = IF up THEN @ + n ELSE @]
  <2>1. n \in Nat /\ n <= r.left /\ n <= r.window /\ r.left \in Nat /\ r.window \in Nat /\ l.sent \in Nat
    <3>1. r.left \in Nat /\ r.window \in Nat /\ MaxFrame \in Nat /\ l.sent \in Nat
      BY <1>1, MuxAssumption DEF StreamRecs, LogRecs
    <3> QED
      BY <3>1, MinIs
  <2> HIDE DEF n
  <2> DEFINE w == r.window - n
             a == IF up THEN r.left - n ELSE 0
             b == IF up THEN l.sent + n ELSE l.sent
             z == [r EXCEPT !.window = w, !.left = a]
             m == [l EXCEPT !.sent = b]
  <2>2. SetStream(e, sid, z)
    BY <1>1, <1>5 DEF SetStream, StreamRecs, MuxTypes, Str
  <2>3. SetLog(e, sid, m)
    BY <1>1, <1>5 DEF SetLog, LogRecs, MuxTypes
  <2>4. w \in Nat /\ a \in Nat /\ b \in Nat /\ (up => b + a = l.sent + r.left) /\ (~up => a = 0 /\ b = l.sent)
    BY <2>1
  <2>5. /\ z \in StreamRecs /\ z.st = r.st /\ z.recv = r.recv /\ z.incoming = r.incoming
        /\ z.over = r.over /\ z.resetTask = r.resetTask /\ z.ended = r.ended /\ z.left = a
    <3> HIDE DEF r, w, a
    <3> QED
      BY <1>1, <2>4 DEF StreamRecs
  <2>6. m \in LogRecs /\ m.fed = l.fed /\ m.sent = b /\ (b = l.sent => m = l)
    <3> HIDE DEF l, b
    <3> QED
      BY <1>1, <2>4 DEF LogRecs
  <2> HIDE DEF z, m, a, b, w
  <2>7. SenderMoves(e, z, m)
    BY <1>1, <1>2, <2>2, <2>3, <2>5, <2>6 DEF SenderMoves
  <2>8. \/ mux[e].ws = "open" /\ m.sent + z.left = l.sent + r.left
        \/ mux[e].ws # "open" /\ z.left = 0 /\ m = l /\ UNCHANGED mux
    BY <1>2, <2>4, <2>5, <2>6
  <2> QED
    BY <1>2, <2>5, <2>7, <2>8, Zenon
<1>6. \/ SendOver(r) /\ stream' = [stream EXCEPT ![e][sid].left = 0] /\ UNCHANGED log
      \/ stream' = [stream EXCEPT ![e][sid].parked = TRUE, ![e][sid].waiter = FALSE] /\ UNCHANGED log
      \/ /\ r.window > 0
         /\ stream' = [stream EXCEPT ![e][sid].window = @ - n, ![e][sid].left = IF up THEN @ - n ELSE 0]
         /\ log' = [log EXCEPT ![e][sid].sent = IF up THEN @ + n ELSE @]
  BY Zenon DEF SendStep, Str
<1> QED
  BY <1>3, <1>4, <1>5, <1>6

-----------------------------------------------------------------------------
(* The pumps and the relay tasks                                           *)

\* What a step of end e that leaves the receiving half alone has to keep.
LEMMA SenderStep ==
    ASSUME TunnelInv, NEW e \in Ends, NEW z, NEW m, SenderMoves(e, z, m), Troubled => Troubled',
           NEW t \in RelayRecs, relay' = [relay EXCEPT ![e] = t],
           NEW k \in SockRecs, sock' = [sock EXCEPT ![e] = k],
           k.got = sock[e].got, k.sink = sock[e].sink, t.writer = "done" <=> relay[e].writer = "done",
           relay[e].main = "closed" => t.main = "closed",
           TaskOK(e, t, z), SendOwned(e, t, z),
           e = Agent => SourceOK(t, k, z, m, env.source[e], Troubled')
    PROVE  TunnelTypes' /\ TunnelOK'
<1> DEFINE r == Str(e)
           l == log[e][sid]
           b == relay[e]
           c == sock[e]
           theirs == Str(Peer(e)).ended
           src == env.source[e]
<1>1. /\ z \in StreamRecs /\ m \in LogRecs /\ SetStream(e, sid, z) /\ SetLog(e, sid, m) /\ UNCHANGED env
      /\ z.st = r.st /\ z.recv = r.recv /\ z.incoming = r.incoming
      /\ z.over = r.over /\ z.resetTask = r.resetTask /\ m.fed = l.fed /\ (r.ended => z.ended)
  BY DEF SenderMoves
<1>2. EndOK(e, b, c, r, l, theirs, src, Troubled)
  BY EndFacts
<1>3. k.got = c.got /\ k.sink = c.sink /\ (t.writer = "done" <=> b.writer = "done")
      /\ (b.main = "closed" => t.main = "closed")
  OBVIOUS
<1> HIDE DEF r, l, b, c, theirs, src
<1>4. QueueOK(t, k, z, m)
  BY <1>1, <1>2, <1>3, QueueKept DEF EndOK
<1>5. ReasonOK(t, z, Troubled')
  BY <1>1, <1>2, <1>3 DEF EndOK, ReasonOK
<1>6. e = Server => ResponseOK(t, k, z, theirs, Troubled')
  BY <1>1, <1>2, <1>3 DEF EndOK, ResponseOK
<1>7. EndOK(e, t, k, z, m, theirs, src, Troubled')
  BY <1>4, <1>5, <1>6 DEF EndOK, src
<1> QED
  BY <1>1, <1>7, OneEnd DEF theirs, src, r

\* A task that only changes its own state.
LEMMA TaskStep ==
    ASSUME TunnelInv, NEW e \in Ends, UNCHANGED vars,
           NEW t \in RelayRecs, relay' = [relay EXCEPT ![e] = t], UNCHANGED sock,
           t.writer = "done" <=> relay[e].writer = "done",
           relay[e].main = "closed" => t.main = "closed",
           TaskOK(e, t, Str(e)), SendOwned(e, t, Str(e)),
           e = Agent => SourceOK(t, sock[e], Str(e), log[e][sid], env.source[e], Troubled)
    PROVE  TunnelTypes' /\ TunnelOK'
<1>1. SenderMoves(e, Str(e), log[e][sid])
  BY NothingMoves
<1>2. sock[e] \in SockRecs /\ sock' = [sock EXCEPT ![e] = sock[e]]
  BY EndFacts DEF TunnelInv, TunnelTypes
<1>3. Troubled' = Troubled
  BY DEF Troubled, Untroubled, vars
<1> QED
  BY <1>1, <1>2, <1>3, SenderStep

\* The request head.
LEMMA HeadKeeps ==
    ASSUME TunnelInv, SendHead, Troubled => Troubled'
    PROVE  TunnelTypes' /\ TunnelOK'
<1> DEFINE e == Server
           t == relay[e]
           r == Str(e)
           k == [sock[e] EXCEPT !.left = @ - 1]
<1>1. /\ e \in Ends /\ e # Agent /\ t.main = "head" /\ r.left = 0 /\ t \in RelayRecs /\ r \in StreamRecs
      /\ sock[e] \in SockRecs /\ TaskOK(e, t, r) /\ relay \in [Ends -> RelayRecs] /\ sock \in [Ends -> SockRecs]
  BY EndFacts DEF SendHead, Ends, Server, Agent, EndOK, TunnelInv, TunnelTypes
<1>2. CASE StartSend(e, sid, 1) /\ sock' = [sock EXCEPT ![Server].left = @ - 1] /\ UNCHANGED relay
  <2> DEFINE z == [r EXCEPT !.left = 1]
  <2>1. SenderMoves(e, z, log[e][sid]) /\ z.left = 1 /\ z.ended = r.ended
    BY <1>1, <1>2, StartMoves
  <2>2. relay' = [relay EXCEPT ![e] = t] /\ sock' = [sock EXCEPT ![e] = k]
    BY <1>1, <1>2
  <2>3. k \in SockRecs /\ k.got = sock[e].got /\ k.sink = sock[e].sink
    BY <1>1 DEF SockRecs
  <2>4. TaskOK(e, t, z)
    BY <1>1, <2>1 DEF TaskOK, SenderMoves
  <2>5. SendOwned(e, t, z)
    BY <1>1 DEF SendOwned
  <2> HIDE DEF z, e, t, k
  <2> QED
    BY <1>1, <2>1, <2>2, <2>3, <2>4, <2>5, SenderStep DEF t
<1>3. CASE relay' = [relay EXCEPT ![Server].main = "failing"] /\ UNCHANGED <<vars, sock>>
  <2> DEFINE t2 == [t EXCEPT !.main = "failing"]
  <2>1. relay' = [relay EXCEPT ![e] = t2]
    BY <1>1, <1>3, Zenon
  <2>2. /\ t2 \in RelayRecs /\ t2.main = "failing" /\ t2.writer = t.writer /\ t2.reader = t.reader
    BY <1>1 DEF RelayRecs, Mains
  <2> HIDE DEF t2
  <2>3. TaskOK(e, t2, r)
    BY <1>1, <2>2 DEF TaskOK
  <2>4. SendOwned(e, t2, r)
    BY <1>1 DEF SendOwned
  <2> QED
    BY <1>1, <1>3, <2>1, <2>2, <2>3, <2>4, TaskStep
<1> QED
  BY <1>2, <1>3 DEF SendHead

\* The pump reads from its socket.
LEMMA PumpInKeeps ==
    ASSUME TunnelInv, NEW e \in Ends, NEW n \in env.chunks, PumpIn(e, n), Troubled => Troubled'
    PROVE  TunnelTypes' /\ TunnelOK'
<1> DEFINE t == relay[e]
           r == Str(e)
           l == log[e][sid]
           c == sock[e]
           k == [c EXCEPT !.left = @ - n]
           src == env.source[e]
<1>1. /\ t.reader = "reading" /\ t.main \in {"relay", "flush"} /\ t \in RelayRecs /\ r \in StreamRecs
      /\ c \in SockRecs /\ TaskOK(e, t, r) /\ (e = Agent => SourceOK(t, c, r, l, src, Troubled))
      /\ SendOwned(e, t, r) /\ l \in LogRecs /\ relay \in [Ends -> RelayRecs] /\ sock \in [Ends -> SockRecs]
  BY EndFacts DEF PumpIn, Pumping, EndOK, TunnelInv, TunnelTypes
<1>2. n \in Nat
  BY DEF TunnelInv, IInv, EnvTypes
<1>3. sock' = [sock EXCEPT ![e] = k] /\ k \in SockRecs /\ k.got = c.got /\ k.sink = c.sink /\ k.left = c.left - n
  BY <1>1, <1>2 DEF PumpIn, SockRecs
<1>4. CASE StartSend(e, sid, n) /\ relay' = [relay EXCEPT ![e].reader = "sending"]
  <2> DEFINE z == [r EXCEPT !.left = n]
             t2 == [t EXCEPT !.reader = "sending"]
  <2>1. SenderMoves(e, z, l) /\ z.left = n /\ z.ended = r.ended /\ r.left = 0 /\ z.st = r.st
    BY <1>2, <1>4, StartMoves DEF SenderMoves
  <2>2. relay' = [relay EXCEPT ![e] = t2]
    BY <1>4, Zenon
  <2>3. t2 \in RelayRecs /\ t2.reader = "sending" /\ t2.main = t.main /\ t2.writer = t.writer
    BY <1>1 DEF RelayRecs, Readers
  <2> HIDE DEF z, t2, k
  <2>4. TaskOK(e, t2, z)
    BY <1>1, <2>1, <2>3 DEF TaskOK
  <2>5. SendOwned(e, t2, z)
    BY <1>1, <2>3 DEF SendOwned
  <2>6. ASSUME e = Agent PROVE SourceOK(t2, k, z, l, src, Troubled')
    <3>1. SourceOK(t, c, r, l, src, Troubled)
      BY <1>1, <2>6
    <3>2. Troubled \/ l.sent + r.left + c.left = src
      BY <1>1, <3>1 DEF SourceOK
    <3>3. l.sent \in Nat /\ c.left \in Int
      BY <1>1 DEF LogRecs, SockRecs
    <3>4. Troubled \/ l.sent + z.left + k.left = src
      BY <1>2, <1>3, <2>1, <3>2, <3>3
    <3>5. ~z.ended
      BY <1>1, <2>1, <3>1 DEF SourceOK
    <3> QED
      BY <2>3, <3>4, <3>5 DEF SourceOK
  <2> QED
    BY <1>1, <1>3, <2>1, <2>2, <2>3, <2>4, <2>5, <2>6, SenderStep
<1>5. CASE UNCHANGED vars /\ relay' = [relay EXCEPT ![e].reader = "failed"]
  <2> DEFINE t2 == [t EXCEPT !.reader = "failed"]
  <2>1. SenderMoves(e, r, l)
    BY <1>5, NothingMoves
  <2>2. relay' = [relay EXCEPT ![e] = t2]
    BY <1>5, Zenon
  <2>3. t2 \in RelayRecs /\ t2.reader = "failed" /\ t2.main = t.main /\ t2.writer = t.writer
    BY <1>1 DEF RelayRecs, Readers
  <2> HIDE DEF t2, k
  <2>4. TaskOK(e, t2, r) /\ SendOwned(e, t2, r)
    BY <1>1, <2>3 DEF TaskOK, SendOwned
  <2>5. e = Agent => SourceOK(t2, k, r, l, src, Troubled')
    BY <1>1, <2>3 DEF SourceOK
  <2> QED
    BY <1>1, <1>3, <2>1, <2>2, <2>3, <2>4, <2>5, SenderStep
<1> QED
  BY <1>4, <1>5 DEF PumpIn

\* The state of a task whose send is over, well or badly.
After(t, ok) ==
    IF t.main = "head"
    THEN IF ok THEN [main |-> "relay", reader |-> "reading", writer |-> "reading"]
         ELSE [t EXCEPT !.main = "failing"]
    ELSE IF t.reader = "sending" THEN [t EXCEPT !.reader = IF ok THEN "reading" ELSE "failed"]
    ELSE t

\* It is what AfterSend gives the task.
LEMMA AfterIs ==
    ASSUME TunnelInv, NEW e \in Ends, NEW ok \in BOOLEAN
    PROVE  /\ AfterSend(e, ok) = [relay EXCEPT ![e] = After(relay[e], ok)]
           /\ After(relay[e], ok) \in RelayRecs
<1>1. relay \in [Ends -> RelayRecs] /\ relay[e] \in RelayRecs
  BY DEF TunnelInv, TunnelTypes
<1> DEFINE t == relay[e]
<1>2. After(t, ok) \in RelayRecs
  BY <1>1 DEF After, RelayRecs, Mains, Readers, Writers
<1>3. CASE t.main = "head" /\ ok
  BY <1>1, <1>2, <1>3 DEF AfterSend, After
<1>4. CASE t.main = "head" /\ ~ok
  <2>1. After(t, ok) = [t EXCEPT !.main = "failing"]
    BY <1>4 DEF After
  <2>2. AfterSend(e, ok) = [relay EXCEPT ![e] = [t EXCEPT !.main = "failing"]]
    BY <1>4 DEF AfterSend
  <2> QED
    BY <1>2, <2>1, <2>2
<1>5. CASE t.main # "head" /\ t.reader = "sending"
  <2> DEFINE x == IF ok THEN "reading" ELSE "failed"
  <2>1. After(t, ok) = [t EXCEPT !.reader = x]
    BY <1>5 DEF After
  <2>2. AfterSend(e, ok) = [relay EXCEPT ![e].reader = x]
    BY <1>5 DEF AfterSend
  <2> HIDE DEF x
  <2> QED
    BY <1>1, <1>2, <2>1, <2>2, Zenon
<1>6. CASE t.main # "head" /\ t.reader # "sending"
  BY <1>1, <1>2, <1>6 DEF AfterSend, After
<1> QED
  BY <1>3, <1>4, <1>5, <1>6

\* The send is over, in any way, and nothing of it is left.
LEMMA AfterKeeps ==
    ASSUME NEW e \in Ends, NEW t \in RelayRecs, NEW r \in StreamRecs, NEW z \in StreamRecs, NEW ok \in BOOLEAN,
           TaskOK(e, t, r), SendOwned(e, t, r), r.left > 0, z.st = r.st, z.ended = r.ended, z.left = 0,
           r.ended /\ e = Agent => t.reader = "done"
    PROVE  LET q == After(t, ok)
           IN /\ TaskOK(e, q, z) /\ SendOwned(e, q, z)
              /\ q.writer = "done" <=> t.writer = "done"
              /\ t.main = "closed" => q.main = "closed"
              /\ e = Agent => \/ q.reader \in {"failed", "cancelled"}
                              \/ q.reader = "reading" /\ ok
              /\ e = Agent => ~z.ended
<1> DEFINE q == After(t, ok)
<1>0. /\ t.main \in Mains /\ t.reader \in Readers /\ t.writer \in Writers /\ Server # Agent
      /\ r.left > 0 /\ (t.main \in {"none", "head", "dialing"} => t.reader = "off" /\ t.writer = "off")
  BY DEF RelayRecs, TaskOK, Server, Agent
<1>1. CASE t.main = "head"
  <2>1. e = Server /\ t.reader = "off" /\ t.writer = "off"
    BY <1>0, <1>1 DEF SendOwned
  <2>2. \/ q.main = "relay" /\ q.reader = "reading" /\ q.writer = "reading"
        \/ q.main = "failing" /\ q.reader = t.reader /\ q.writer = t.writer
    BY <1>1 DEF After, RelayRecs
  <2> HIDE DEF q
  <2>3. TaskOK(e, q, z)
    BY <1>0, <1>1, <2>1, <2>2 DEF TaskOK
  <2>4. SendOwned(e, q, z)
    BY DEF SendOwned
  <2> QED
    BY <1>0, <1>1, <2>1, <2>2, <2>3, <2>4 DEF q
<1>2. CASE t.main # "head" /\ t.reader = "sending"
  <2>1. /\ q.main = t.main /\ q.writer = t.writer
        /\ q.reader = IF ok THEN "reading" ELSE "failed"
    BY <1>2 DEF After, RelayRecs
  <2>2. t.main \in {"relay", "flush"}
    BY <1>0, <1>2 DEF SendOwned
  <2> HIDE DEF q
  <2>3. TaskOK(e, q, z)
    BY <1>0, <1>2, <2>1, <2>2 DEF TaskOK
  <2>4. SendOwned(e, q, z)
    BY DEF SendOwned
  <2> QED
    BY <1>0, <1>2, <2>1, <2>2, <2>3, <2>4 DEF q
<1>3. CASE t.main # "head" /\ t.reader # "sending"
  <2>1. q = t
    BY <1>3 DEF After
  <2>2. e = Agent /\ t.main = "closed" /\ t.reader = "cancelled"
    BY <1>0, <1>3 DEF SendOwned
  <2> HIDE DEF q
  <2>3. TaskOK(e, q, z)
    BY <2>1, <2>2 DEF TaskOK
  <2>4. SendOwned(e, q, z)
    BY DEF SendOwned
  <2> QED
    BY <2>1, <2>2, <2>3, <2>4 DEF q
<1> QED
  BY <1>1, <1>2, <1>3

\* One turn of a send.
LEMMA SendingKeeps ==
    ASSUME TunnelInv, NEW e \in Ends, Sending(e), Troubled => Troubled'
    PROVE  TunnelTypes' /\ TunnelOK'
<1> DEFINE t == relay[e]
           r == Str(e)
           l == log[e][sid]
           k == sock[e]
           src == env.source[e]
<1>1. /\ t \in RelayRecs /\ r \in StreamRecs /\ k \in SockRecs /\ TaskOK(e, t, r) /\ SendOwned(e, t, r)
      /\ (e = Agent => SourceOK(t, k, r, l, src, Troubled)) /\ l \in LogRecs
      /\ relay \in [Ends -> RelayRecs] /\ sock \in [Ends -> SockRecs] /\ sid \in Sids /\ MuxTypes
      /\ ReasonOK(t, r, Troubled) /\ src \in Nat
  BY EndFacts, OneVisit DEF EndOK, TunnelInv, TunnelTypes
<1>2. SendStep(e, sid) /\ UNCHANGED sock
  BY DEF Sending
<1>3. PICK z, m :
         /\ SenderMoves(e, z, m) /\ z.ended = r.ended /\ r.left > 0
         /\ \/ /\ r.st = "closed" \/ r.ended
               /\ z.left = 0 /\ m = l
            \/ z.left = r.left /\ m = l
            \/ mux[e].ws = "open" /\ m.sent + z.left = l.sent + r.left
            \/ mux[e].ws # "open" /\ z.left = 0 /\ m = l /\ UNCHANGED mux
  BY <1>2, StepMoves
<1>4. z \in StreamRecs /\ m \in LogRecs /\ z.st = r.st /\ stream'[e][sid] = z /\ log'[e][sid] = m
  BY <1>1, <1>3, PutStream, PutLog DEF SenderMoves
<1> DEFINE ok == m.sent > l.sent
<1>5. relay' = IF z.left > 0 THEN relay ELSE AfterSend(e, ok)
  BY <1>4 DEF Sending
<1>6. sock' = [sock EXCEPT ![e] = k]
  BY <1>1, <1>2
<1>7. l.sent \in Nat /\ m.sent \in Nat /\ z.left \in Nat /\ r.left \in Nat /\ k.left \in Int
  BY <1>1, <1>4 DEF LogRecs, StreamRecs, SockRecs
<1>8. mux[e].ws # "open" => Troubled
  BY DEF Troubled, Untroubled
<1> HIDE DEF t, r, l, k, src
<1>9. CASE z.left > 0
  <2>1. relay' = [relay EXCEPT ![e] = t]
    BY <1>1, <1>5, <1>9 DEF t
  <2>2. TaskOK(e, t, z) /\ SendOwned(e, t, z)
    BY <1>1, <1>3, <1>4 DEF TaskOK, SendOwned
  <2>3. ASSUME e = Agent PROVE SourceOK(t, k, z, m, src, Troubled')
    <3>1. m.sent + z.left = l.sent + r.left
      BY <1>3, <1>7, <1>9
    <3>2. m.sent + z.left + k.left = l.sent + r.left + k.left
      BY <3>1
    <3> QED
      BY <1>1, <1>3, <2>3, <3>2 DEF SourceOK
  <2> QED
    BY <1>1, <1>3, <1>6, <2>1, <2>2, <2>3, SenderStep DEF t, k, l, src
<1>10. CASE ~(z.left > 0)
  <2> DEFINE q == After(t, ok)
  <2>1. z.left = 0 /\ ok \in BOOLEAN
    BY <1>7, <1>10
  <2>2. relay' = [relay EXCEPT ![e] = q] /\ q \in RelayRecs
    BY <1>5, <1>10, <2>1, AfterIs DEF t
  <2>3. r.ended /\ e = Agent => t.reader = "done"
    BY <1>1 DEF SourceOK
  <2>4. /\ TaskOK(e, q, z) /\ SendOwned(e, q, z)
        /\ q.writer = "done" <=> t.writer = "done"
        /\ t.main = "closed" => q.main = "closed"
        /\ e = Agent => \/ q.reader \in {"failed", "cancelled"}
                        \/ q.reader = "reading" /\ ok
        /\ e = Agent => ~z.ended
    <3> HIDE DEF ok
    <3> QED
      BY <1>1, <1>3, <1>4, <2>1, <2>3, AfterKeeps
  <2> HIDE DEF q
  <2>5. ASSUME e = Agent PROVE SourceOK(q, k, z, m, src, Troubled')
    <3>1. CASE q.reader \in {"failed", "cancelled"}
      BY <2>4, <2>5, <3>1 DEF SourceOK
    <3>2. CASE q.reader = "reading" /\ ok
      <4>1. m.sent + z.left = l.sent + r.left
        BY <1>3, <1>7, <3>2
      <4>2. Troubled \/ t.reader \in {"failed", "cancelled"} \/ l.sent + r.left + k.left = src
        BY <1>1, <2>5 DEF SourceOK
      <4>3. t.reader \in {"failed", "cancelled"} => q.reader # "reading"
        BY <1>1 DEF q, After, RelayRecs, TaskOK
      <4>4. Troubled \/ m.sent + z.left + k.left = src
        BY <3>2, <4>1, <4>2, <4>3
      <4> QED
        BY <2>4, <2>5, <3>2, <4>4 DEF SourceOK
    <3> QED
      BY <2>4, <2>5, <3>1, <3>2
  <2> QED
    BY <1>1, <1>3, <1>6, <2>2, <2>4, <2>5, SenderStep DEF t, k, l, src
<1> QED
  BY <1>9, <1>10

\* A parked sender wakes, or gives up.
LEMMA WakingKeeps ==
    ASSUME TunnelInv, NEW e \in Ends, Waking(e) \/ Stalling(e), Troubled => Troubled'
    PROVE  TunnelTypes' /\ TunnelOK'
<1> DEFINE t == relay[e]
           r == Str(e)
           l == log[e][sid]
           k == sock[e]
           src == env.source[e]
<1>1. /\ t \in RelayRecs /\ r \in StreamRecs /\ k \in SockRecs /\ TaskOK(e, t, r) /\ SendOwned(e, t, r)
      /\ (e = Agent => SourceOK(t, k, r, l, src, Troubled)) /\ l \in LogRecs
      /\ relay \in [Ends -> RelayRecs] /\ sock \in [Ends -> SockRecs]
  BY EndFacts DEF EndOK, TunnelInv, TunnelTypes
<1>2. UNCHANGED sock /\ sock' = [sock EXCEPT ![e] = k]
  BY <1>1 DEF Waking, Stalling
<1>3. CASE Waking(e)
  <2>1. PICK z : SenderMoves(e, z, l) /\ z.ended = r.ended /\ z.left = r.left
    BY <1>3, StopMoves DEF Waking
  <2>2. relay' = [relay EXCEPT ![e] = t] /\ z.st = r.st
    BY <1>1, <1>3, <2>1 DEF Waking, SenderMoves
  <2> HIDE DEF t, r, l, k, src
  <2>3. TaskOK(e, t, z) /\ SendOwned(e, t, z) /\ (e = Agent => SourceOK(t, k, z, l, src, Troubled'))
    BY <1>1, <2>1, <2>2 DEF TaskOK, SendOwned, SourceOK
  <2> QED
    BY <1>1, <1>2, <2>1, <2>2, <2>3, SenderStep DEF t, k, l, src
<1>4. CASE Stalling(e)
  <2> DEFINE q == After(t, FALSE)
  <2>1. PICK z : SenderMoves(e, z, l) /\ z.ended = r.ended /\ z.left = 0
    BY <1>4, StopMoves DEF Stalling
  <2>2. relay' = [relay EXCEPT ![e] = q] /\ q \in RelayRecs /\ z.st = r.st /\ z \in StreamRecs
    BY <1>4, <2>1, AfterIs DEF Stalling, SenderMoves
  <2>3. r.ended /\ e = Agent => t.reader = "done"
    BY <1>1 DEF SourceOK
  <2> HIDE DEF t, r, l, k, src
  <2>4. CASE r.left > 0
    <3>1. /\ TaskOK(e, q, z) /\ SendOwned(e, q, z)
          /\ q.writer = "done" <=> t.writer = "done"
          /\ t.main = "closed" => q.main = "closed"
          /\ e = Agent => q.reader \in {"failed", "cancelled"}
          /\ e = Agent => ~z.ended
      BY <1>1, <2>1, <2>2, <2>3, <2>4, AfterKeeps
    <3> HIDE DEF q
    <3>2. e = Agent => SourceOK(q, k, z, l, src, Troubled')
      BY <3>1 DEF SourceOK
    <3> QED
      BY <1>1, <1>2, <2>1, <2>2, <3>1, <3>2, SenderStep DEF t, k, l, src
  <2>5. CASE ~(r.left > 0)
    <3>1. z.left = r.left
      BY <1>1, <2>1, <2>5 DEF StreamRecs
    <3>2. /\ q.writer = t.writer
          /\ t.main = "closed" => q.main = "closed"
          /\ \/ t.main = "head" /\ q.main = "failing" /\ q.reader = t.reader
             \/ t.main # "head" /\ q.main = t.main /\ t.reader = "sending" /\ q.reader = "failed"
             \/ q = t
      BY <1>1 DEF After, RelayRecs
    <3> HIDE DEF q
    <3>3. TaskOK(e, q, z)
      BY <1>1, <2>1, <2>2, <3>2 DEF TaskOK
    <3>4. SendOwned(e, q, z)
      BY <2>1 DEF SendOwned
    <3>5. e = Agent => SourceOK(q, k, z, l, src, Troubled')
      BY <1>1, <2>1, <2>2, <3>1, <3>2 DEF SourceOK
    <3> QED
      BY <1>1, <1>2, <2>1, <2>2, <3>2, <3>3, <3>4, <3>5, SenderStep DEF t, k, l, src
  <2> QED
    BY <2>4, <2>5
<1> QED
  BY <1>3, <1>4

\* The source ends: the pump half-closes the stream.
LEMMA PumpInEofKeeps ==
    ASSUME TunnelInv, NEW e \in Ends, PumpInEof(e), Troubled => Troubled'
    PROVE  TunnelTypes' /\ TunnelOK'
<1> DEFINE t == relay[e]
           r == Str(e)
           l == log[e][sid]
           k == sock[e]
           src == env.source[e]
           q == [t EXCEPT !.reader = "done"]
<1>1. /\ t \in RelayRecs /\ r \in StreamRecs /\ k \in SockRecs /\ TaskOK(e, t, r) /\ SendOwned(e, t, r)
      /\ (e = Agent => SourceOK(t, k, r, l, src, Troubled)) /\ l \in LogRecs
      /\ QueueOK(t, k, r, l) /\ ReasonOK(t, r, Troubled)
      /\ relay \in [Ends -> RelayRecs] /\ sock \in [Ends -> SockRecs]
  BY EndFacts DEF EndOK, TunnelInv, TunnelTypes
<1>2. /\ sock' = [sock EXCEPT ![e] = k] /\ t.main \in {"relay", "flush"} /\ t.reader = "reading"
      /\ k.left = 0 \/ (k.sink = "rst" /\ ~r.resetTask)
  BY <1>1 DEF PumpInEof, Pumping
<1>3. PICK z : /\ SenderMoves(e, z, l) /\ z.left = r.left /\ (z.st # "live" \/ z.ended)
  BY EofMoves DEF PumpInEof
<1>4. relay' = [relay EXCEPT ![e] = q] /\ z.st = r.st
  BY <1>3, Zenon DEF PumpInEof, SenderMoves
<1>5. q \in RelayRecs /\ q.reader = "done" /\ q.main = t.main /\ q.writer = t.writer
  BY <1>1 DEF RelayRecs, Readers
<1> HIDE DEF t, r, l, k, src, q
<1>6. TaskOK(e, q, z)
  BY <1>1, <1>2, <1>3, <1>4, <1>5 DEF TaskOK
<1>7. SendOwned(e, q, z)
  BY <1>1, <1>2, <1>3, <1>5 DEF SendOwned
<1>8. ASSUME e = Agent PROVE SourceOK(q, k, z, l, src, Troubled')
  <2>1. Troubled \/ k.left = 0
    BY <1>1, <1>2 DEF QueueOK, ReasonOK
  <2>2. Troubled \/ l.sent + r.left + k.left = src
    BY <1>1, <1>2, <1>8 DEF SourceOK
  <2> QED
    BY <1>3, <1>5, <2>1, <2>2 DEF SourceOK
<1> QED
  BY <1>1, <1>2, <1>3, <1>4, <1>5, <1>6, <1>7, <1>8, SenderStep DEF t, k, l, src

\* A pump fails, or a task only waits for something else.
LEMMA TaskKeeps ==
    ASSUME TunnelInv, NEW e \in Ends,
           PumpInFails(e) \/ PumpOutFails(e) \/ BothDone(e)
              \/ (e = Server /\ ReaderFirst) \/ (e = Agent /\ DialFails)
    PROVE  TunnelTypes' /\ TunnelOK'
<1> DEFINE t == relay[e]
           r == Str(e)
           l == log[e][sid]
           k == sock[e]
           src == env.source[e]
<1>1. /\ t \in RelayRecs /\ r \in StreamRecs /\ k \in SockRecs /\ TaskOK(e, t, r) /\ SendOwned(e, t, r)
      /\ (e = Agent => SourceOK(t, k, r, l, src, Troubled)) /\ l \in LogRecs
      /\ relay \in [Ends -> RelayRecs] /\ UNCHANGED <<vars, sock>>
  BY EndFacts DEF EndOK, TunnelInv, TunnelTypes, PumpInFails, PumpOutFails, BothDone, ReaderFirst, DialFails
<1>2. ASSUME NEW q \in RelayRecs, relay' = [relay EXCEPT ![e] = q], q.writer = "done" <=> t.writer = "done",
             t.main = "closed" => q.main = "closed", TaskOK(e, q, r), SendOwned(e, q, r),
             e = Agent => SourceOK(q, k, r, l, src, Troubled)
      PROVE  TunnelTypes' /\ TunnelOK'
  BY <1>1, <1>2, TaskStep
<1>3. CASE PumpInFails(e)
  <2> DEFINE q == [t EXCEPT !.reader = "failed"]
  <2>1. relay' = [relay EXCEPT ![e] = q]
    BY <1>3, Zenon DEF PumpInFails
  <2>2. q \in RelayRecs /\ q.reader = "failed" /\ q.main = t.main /\ q.writer = t.writer
    BY <1>1 DEF RelayRecs, Readers
  <2>3. t.reader = "reading" /\ t.main \in {"relay", "flush"}
    BY <1>3 DEF PumpInFails, Pumping
  <2> HIDE DEF t, r, l, k, src, q
  <2>4. TaskOK(e, q, r) /\ SendOwned(e, q, r) /\ (e = Agent => SourceOK(q, k, r, l, src, Troubled))
    BY <1>1, <2>2, <2>3 DEF TaskOK, SendOwned, SourceOK
  <2> QED
    BY <1>2, <2>1, <2>2, <2>4
<1>4. CASE PumpOutFails(e)
  <2> DEFINE q == [t EXCEPT !.writer = "failed"]
  <2>1. relay' = [relay EXCEPT ![e] = q]
    BY <1>4, Zenon DEF PumpOutFails
  <2>2. q \in RelayRecs /\ q.reader = t.reader /\ q.main = t.main /\ q.writer = "failed"
    BY <1>1 DEF RelayRecs, Writers
  <2>3. t.writer = "draining" /\ t.main \in {"relay", "flush"}
    BY <1>4 DEF PumpOutFails, Pumping
  <2> HIDE DEF t, r, l, k, src, q
  <2>4. TaskOK(e, q, r) /\ SendOwned(e, q, r) /\ (e = Agent => SourceOK(q, k, r, l, src, Troubled))
    BY <1>1, <2>2, <2>3 DEF TaskOK, SendOwned, SourceOK
  <2> QED
    BY <1>2, <2>1, <2>2, <2>3, <2>4
<1>5. CASE BothDone(e)
  <2> DEFINE q == [t EXCEPT !.main = "ending"]
  <2>1. relay' = [relay EXCEPT ![e] = q]
    BY <1>5, Zenon DEF BothDone
  <2>2. q \in RelayRecs /\ q.reader = t.reader /\ q.writer = t.writer /\ q.main = "ending"
    BY <1>1 DEF RelayRecs, Mains
  <2>3. t.writer = "done" /\ t.reader = "done" /\ t.main \in {"relay", "flush"}
    BY <1>5 DEF BothDone
  <2> HIDE DEF t, r, l, k, src, q
  <2>4. TaskOK(e, q, r) /\ SendOwned(e, q, r) /\ (e = Agent => SourceOK(q, k, r, l, src, Troubled))
    BY <1>1, <2>2, <2>3 DEF TaskOK, SendOwned, SourceOK
  <2> QED
    BY <1>2, <2>1, <2>2, <2>3, <2>4
<1>6. CASE e = Server /\ ReaderFirst
  <2> DEFINE q == [t EXCEPT !.main = "flush"]
  <2>1. relay' = [relay EXCEPT ![e] = q]
    BY <1>6, Zenon DEF ReaderFirst
  <2>2. q \in RelayRecs /\ q.reader = t.reader /\ q.writer = t.writer /\ q.main = "flush"
    BY <1>1 DEF RelayRecs, Mains
  <2>3. t.main = "relay" /\ e # Agent
    BY <1>6 DEF ReaderFirst, Server, Agent
  <2> HIDE DEF t, r, l, k, src, q
  <2>4. TaskOK(e, q, r) /\ SendOwned(e, q, r)
    BY <1>1, <2>2, <2>3 DEF TaskOK, SendOwned
  <2> QED
    BY <1>2, <2>1, <2>2, <2>3, <2>4
<1>7. CASE e = Agent /\ DialFails
  <2> DEFINE q == [t EXCEPT !.main = "resetting"]
  <2>1. relay' = [relay EXCEPT ![e] = q]
    BY <1>7, Zenon DEF DialFails
  <2>2. q \in RelayRecs /\ q.reader = t.reader /\ q.writer = t.writer /\ q.main = "resetting"
    BY <1>1 DEF RelayRecs, Mains
  <2>3. t.main = "dialing" /\ e # Server
    BY <1>7 DEF DialFails, Server, Agent
  <2> HIDE DEF t, r, l, k, src, q
  <2>4. TaskOK(e, q, r) /\ SendOwned(e, q, r) /\ (e = Agent => SourceOK(q, k, r, l, src, Troubled))
    BY <1>1, <2>2, <2>3 DEF TaskOK, SendOwned, SourceOK
  <2> QED
    BY <1>2, <2>1, <2>2, <2>3, <2>4
<1> QED
  BY <1>3, <1>4, <1>5, <1>6, <1>7

\* What is left of a send is given up with its task.
LEMMA DropMoves ==
    ASSUME TunnelInv, NEW e \in Ends, IF Str(e).left > 0 THEN CancelSend(e, sid) ELSE UNCHANGED vars
    PROVE  \E z : SenderMoves(e, z, log[e][sid]) /\ z.ended = Str(e).ended /\ z.left = 0
<1>1. CASE Str(e).left > 0
  BY <1>1, StopMoves
<1>2. CASE ~(Str(e).left > 0)
  <2>1. Str(e).left = 0
    BY <1>2, EndFacts DEF StreamRecs
  <2> QED
    BY <1>2, <2>1, NothingMoves
<1> QED
  BY <1>1, <1>2

\* The other pump is cancelled, because one failed.
LEMMA CancelKeeps ==
    ASSUME TunnelInv, NEW e \in Ends, CancelSiblings(e), Troubled => Troubled'
    PROVE  TunnelTypes' /\ TunnelOK'
<1> DEFINE t == relay[e]
           r == Str(e)
           l == log[e][sid]
           k == sock[e]
           src == env.source[e]
           a == IF t.reader \in {"reading", "sending"} THEN "cancelled" ELSE t.reader
           b == IF t.writer \in {"reading", "draining"} THEN "cancelled" ELSE t.writer
           q == [main |-> "resetting", reader |-> a, writer |-> b]
<1>1. /\ t \in RelayRecs /\ r \in StreamRecs /\ k \in SockRecs /\ TaskOK(e, t, r) /\ SendOwned(e, t, r)
      /\ (e = Agent => SourceOK(t, k, r, l, src, Troubled)) /\ l \in LogRecs
      /\ relay \in [Ends -> RelayRecs] /\ sock \in [Ends -> SockRecs]
  BY EndFacts DEF EndOK, TunnelInv, TunnelTypes
<1>2. sock' = [sock EXCEPT ![e] = k] /\ t.main \in {"failing", "relay", "flush"}
  BY <1>1 DEF CancelSiblings, Failing, Pumping
<1>3. PICK z : SenderMoves(e, z, l) /\ z.ended = r.ended /\ z.left = 0
  BY DropMoves DEF CancelSiblings
<1>4. relay' = [relay EXCEPT ![e] = q] /\ z.st = r.st /\ z \in StreamRecs
  BY <1>1, <1>3 DEF CancelSiblings, SenderMoves
<1>5. /\ q \in RelayRecs /\ q.reader = a /\ q.main = "resetting" /\ q.writer = b
      /\ q.writer = "done" <=> t.writer = "done"
      /\ q.reader = "done" <=> t.reader = "done"
  BY <1>1 DEF RelayRecs, Readers, Writers, Mains
<1> HIDE DEF t, r, l, k, src, q
<1>6. TaskOK(e, q, z)
  BY <1>1, <1>2, <1>3, <1>4, <1>5 DEF TaskOK
<1>7. SendOwned(e, q, z)
  BY <1>3 DEF SendOwned
<1>8. ASSUME e = Agent PROVE SourceOK(q, k, z, l, src, Troubled')
  <2>1. CASE r.left > 0
    BY <1>1, <1>2, <1>3, <1>5, <1>8, <2>1 DEF SourceOK, SendOwned, Server, Agent
  <2>2. CASE ~(r.left > 0)
    <3>1. z.left = r.left
      BY <1>1, <1>3, <2>2 DEF StreamRecs
    <3> QED
      BY <1>1, <1>3, <1>5, <1>8, <3>1 DEF SourceOK
  <2> QED
    BY <2>1, <2>2
<1> QED
  BY <1>1, <1>2, <1>3, <1>4, <1>5, <1>6, <1>7, <1>8, SenderStep DEF t, k, l, src

\* The response is through before the request: the reader is cancelled ...
LEMMA WriterFirstKeeps ==
    ASSUME TunnelInv, WriterFirst, Troubled => Troubled'
    PROVE  TunnelTypes' /\ TunnelOK'
<1> DEFINE e == Server
           t == relay[e]
           r == Str(e)
           l == log[e][sid]
           k == sock[e]
           a == IF t.reader \in {"reading", "sending"} THEN "cancelled" ELSE t.reader
           q == [t EXCEPT !.main = "eof", !.reader = a]
<1>1. /\ t \in RelayRecs /\ r \in StreamRecs /\ k \in SockRecs /\ TaskOK(e, t, r) /\ SendOwned(e, t, r)
      /\ relay \in [Ends -> RelayRecs] /\ sock \in [Ends -> SockRecs] /\ e \in Ends /\ e # Agent
  BY EndFacts DEF EndOK, TunnelInv, TunnelTypes, Ends, Server, Agent
<1>2. sock' = [sock EXCEPT ![e] = k] /\ t.main = "relay" /\ t.writer = "done"
  BY <1>1 DEF WriterFirst
<1>3. PICK z : SenderMoves(e, z, l) /\ z.ended = r.ended /\ z.left = 0
  BY <1>1, DropMoves DEF WriterFirst
<1>4. relay' = [relay EXCEPT ![e] = q]
  BY <1>1 DEF WriterFirst, RelayRecs
<1>5. /\ q \in RelayRecs /\ q.reader = a /\ q.main = "eof" /\ q.writer = "done"
      /\ q.reader \notin {"reading", "sending"} /\ (q.reader = "done" => t.reader = "done")
  BY <1>1, <1>2 DEF RelayRecs, Readers, Mains
<1>6. z.st = r.st /\ z \in StreamRecs
  BY <1>3 DEF SenderMoves
<1> HIDE DEF t, r, l, k, q, e
<1>7. TaskOK(e, q, z)
  BY <1>1, <1>2, <1>3, <1>5, <1>6 DEF TaskOK
<1>8. SendOwned(e, q, z)
  BY <1>3 DEF SendOwned
<1> QED
  BY <1>1, <1>2, <1>3, <1>4, <1>5, <1>7, <1>8, SenderStep DEF t, k, l

\* ... and the server's EOF goes in its place.
LEMMA WriterFirstEofKeeps ==
    ASSUME TunnelInv, WriterFirstEof, Troubled => Troubled'
    PROVE  TunnelTypes' /\ TunnelOK'
<1> DEFINE e == Server
           t == relay[e]
           r == Str(e)
           l == log[e][sid]
           k == sock[e]
           q == [t EXCEPT !.main = "ending"]
<1>1. /\ t \in RelayRecs /\ r \in StreamRecs /\ k \in SockRecs /\ TaskOK(e, t, r) /\ SendOwned(e, t, r)
      /\ relay \in [Ends -> RelayRecs] /\ sock \in [Ends -> SockRecs] /\ e \in Ends /\ e # Agent
  BY EndFacts DEF EndOK, TunnelInv, TunnelTypes, Ends, Server, Agent
<1>2. sock' = [sock EXCEPT ![e] = k] /\ t.main = "eof"
  BY <1>1 DEF WriterFirstEof
<1>3. PICK z : SenderMoves(e, z, l) /\ z.left = r.left /\ (z.st # "live" \/ z.ended)
  BY <1>1, EofMoves DEF WriterFirstEof
<1>4. relay' = [relay EXCEPT ![e] = q]
  BY Zenon DEF WriterFirstEof
<1>5. q \in RelayRecs /\ q.reader = t.reader /\ q.main = "ending" /\ q.writer = t.writer
  BY <1>1, <1>2 DEF RelayRecs, Mains
<1>6. z.st = r.st /\ z \in StreamRecs
  BY <1>3 DEF SenderMoves
<1> HIDE DEF t, r, l, k, q, e
<1>7. TaskOK(e, q, z)
  BY <1>1, <1>2, <1>3, <1>5, <1>6 DEF TaskOK
<1>8. SendOwned(e, q, z)
  BY <1>1, <1>2, <1>3 DEF SendOwned, TaskOK
<1> QED
  BY <1>1, <1>2, <1>3, <1>4, <1>5, <1>7, <1>8, SenderStep DEF t, k, l

\* writer.drain() returned, and the chunk is acknowledged.
LEMMA DrainedKeeps ==
    ASSUME TunnelInv, NEW e \in Ends, PumpOutDrained(e), Troubled => Troubled'
    PROVE  TunnelTypes' /\ TunnelOK'
<1> DEFINE t == relay[e]
           r == Str(e)
           l == log[e][sid]
           k == sock[e]
           src == env.source[e]
           q == [t EXCEPT !.writer = "reading"]
           z == Acked(r)
<1>1. /\ t \in RelayRecs /\ r \in StreamRecs /\ k \in SockRecs /\ TaskOK(e, t, r) /\ SendOwned(e, t, r)
      /\ (e = Agent => SourceOK(t, k, r, l, src, Troubled)) /\ l \in LogRecs
      /\ relay \in [Ends -> RelayRecs] /\ sock \in [Ends -> SockRecs] /\ MuxTypes /\ sid \in Sids
  BY EndFacts, OneVisit DEF EndOK, TunnelInv, TunnelTypes
<1>2. /\ sock' = [sock EXCEPT ![e] = k] /\ t.writer = "draining" /\ t.main \in {"relay", "flush"}
      /\ Ack(e, sid)
  BY <1>1 DEF PumpOutDrained, Pumping
<1>3. SetStream(e, sid, z) /\ SetLog(e, sid, l) /\ UNCHANGED env
  BY <1>1, <1>2, Unassigned DEF Ack, SetStream, Str
<1>4. relay' = [relay EXCEPT ![e] = q]
  BY Zenon DEF PumpOutDrained
<1>5. q \in RelayRecs /\ q.reader = t.reader /\ q.main = t.main /\ q.writer = "reading"
  BY <1>1 DEF RelayRecs, Writers
<1> DEFINE u == r.unacked + r.held
<1>6. u \in Nat
  BY <1>1 DEF StreamRecs
<1>7. \/ z = [r EXCEPT !.held = 0] \/ z = [r EXCEPT !.held = 0, !.unacked = 0]
      \/ z = [r EXCEPT !.held = 0, !.unacked = u]
  BY <1>1 DEF Acked, StreamRecs
<1> HIDE DEF t, r, l, k, src, q, z, u
<1>8. /\ z \in StreamRecs /\ z.st = r.st /\ z.recv = r.recv /\ z.incoming = r.incoming
      /\ z.over = r.over /\ z.resetTask = r.resetTask /\ z.ended = r.ended /\ z.left = r.left
  <2>1. CASE z = [r EXCEPT !.held = 0]
    BY <1>1, <2>1 DEF StreamRecs
  <2>2. CASE z = [r EXCEPT !.held = 0, !.unacked = 0]
    BY <1>1, <2>2 DEF StreamRecs
  <2>3. CASE z = [r EXCEPT !.held = 0, !.unacked = u]
    BY <1>1, <1>6, <2>3 DEF StreamRecs
  <2> QED
    BY <1>7, <2>1, <2>2, <2>3
<1>9. SenderMoves(e, z, l)
  BY <1>1, <1>3, <1>8 DEF SenderMoves, r, l
<1>10. TaskOK(e, q, z) /\ SendOwned(e, q, z) /\ (e = Agent => SourceOK(q, k, z, l, src, Troubled'))
  BY <1>1, <1>2, <1>5, <1>8 DEF TaskOK, SendOwned, SourceOK
<1> QED
  BY <1>1, <1>2, <1>4, <1>5, <1>9, <1>10, SenderStep DEF t, k, l, src

\* The local app answered the dial.
LEMMA DialedKeeps ==
    ASSUME TunnelInv, Dialed
    PROVE  TunnelTypes' /\ TunnelOK'
<1> DEFINE e == Agent
           t == relay[e]
           r == Str(e)
           l == log[e][sid]
           k == sock[e]
           src == env.source[e]
           theirs == Str(Peer(e)).ended
           q == [main |-> "relay", reader |-> "reading", writer |-> "reading"]
           c == [k EXCEPT !.sink = "open"]
<1>1. /\ e \in Ends /\ e # Server /\ t.main = "dialing" /\ t \in RelayRecs /\ r \in StreamRecs /\ k \in SockRecs
      /\ l \in LogRecs /\ EndOK(e, t, k, r, l, theirs, src, Troubled) /\ MuxTypes /\ sid \in Sids
  BY EndFacts, OneVisit DEF Dialed, Ends, Server, Agent
<1>2. SetStream(e, sid, r) /\ SetLog(e, sid, l) /\ UNCHANGED env /\ Troubled' = Troubled
  BY <1>1, Unassigned DEF Dialed, Str, vars, Troubled, Untroubled
<1>3. relay' = [relay EXCEPT ![e] = q] /\ sock' = [sock EXCEPT ![e] = c]
  BY Zenon DEF Dialed
<1>4. q \in RelayRecs /\ c \in SockRecs /\ c.left = k.left /\ c.got = k.got /\ c.sink = "open"
  <2> HIDE DEF k
  <2> QED
    BY <1>1 DEF RelayRecs, SockRecs, Mains, Readers, Writers
<1> HIDE DEF t, r, l, k, src, q, c, theirs
<1>5. TaskOK(e, q, r) /\ ReasonOK(q, r, Troubled) /\ SendOwned(e, q, r)
  BY <1>1 DEF EndOK, TaskOK, ReasonOK, SendOwned, q
<1>6. QueueOK(q, c, r, l)
  <2>1. q.writer = "reading"
    BY DEF q
  <2> QED
    BY <1>1, <1>4, <2>1 DEF EndOK, QueueOK
<1>7. SourceOK(q, c, r, l, src, Troubled)
  BY <1>1, <1>4 DEF EndOK, SourceOK, TaskOK, q
<1>8. EndOK(e, q, c, r, l, theirs, src, Troubled')
  BY <1>1, <1>2, <1>5, <1>6, <1>7 DEF EndOK
<1> QED
  BY <1>1, <1>2, <1>3, <1>4, <1>8, OneEnd DEF theirs, src, r

-----------------------------------------------------------------------------
(* The receiving half                                                      *)

\* What is left of a queue whose first element was taken.
LEMMA SentinelLast ==
    ASSUME NEW q \in Seq(Nat), q # <<>>, \A i \in DOMAIN q : q[i] = None => i = Len(q)
    PROVE  /\ \A i \in DOMAIN Tail(q) : Tail(q)[i] = None => i = Len(Tail(q))
           /\ Head(q) = None => Tail(q) = <<>>
<1>1. Head(q) = q[1] /\ 1 \in DOMAIN q /\ Len(Tail(q)) = Len(q) - 1 /\ Tail(q) \in Seq(Nat)
  OBVIOUS
<1>2. \A i \in DOMAIN Tail(q) : i \in Nat /\ i + 1 \in DOMAIN q /\ Tail(q)[i] = q[i + 1]
  OBVIOUS
<1>3. Len(q) \in Nat
  OBVIOUS
<1>4. Head(q) = None => Len(Tail(q)) = 0
  BY <1>1
<1> QED
  BY <1>1, <1>2, <1>3, <1>4

\* One read() by the pump: a chunk goes to the socket, the sentinel ends its write side.
LEMMA PumpOutKeeps ==
    ASSUME TunnelInv, NEW e \in Ends, PumpOut(e), Troubled => Troubled'
    PROVE  TunnelTypes' /\ TunnelOK'
<1> DEFINE t == relay[e]
           r == Str(e)
           l == log[e][sid]
           k == sock[e]
           src == env.source[e]
           theirs == Str(Peer(e)).ended
           n == Head(r.incoming)
           taken == [r EXCEPT !.incoming = Tail(@), !.held = n, !.over = n = None]
           z == IF n # None /\ r.st = "live" THEN [taken EXCEPT !.buffered = @ - n, !.frames = @ - 1] ELSE taken
<1>1. /\ t \in RelayRecs /\ r \in StreamRecs /\ k \in SockRecs /\ l \in LogRecs /\ StreamOK(r)
      /\ EndOK(e, t, k, r, l, theirs, src, Troubled) /\ MuxTypes /\ sid \in Sids
  BY EndFacts, OneVisit
<1>2. t.main \in {"relay", "flush"} /\ t.writer = "reading" /\ Read(e, sid) /\ r.incoming # <<>>
  BY DEF PumpOut, Pumping, Read, Str
<1>3. SetStream(e, sid, z) /\ SetLog(e, sid, l) /\ UNCHANGED env
  <2>1. SetStream(e, sid, z)
    BY <1>2, Zenon DEF Read, Counted, SetStream, Str
  <2> QED
    BY <1>1, <1>2, <2>1, Unassigned DEF Read
<1>4. /\ n \in Nat /\ z \in StreamRecs /\ z.st = r.st /\ z.recv = r.recv /\ z.ended = r.ended
      /\ QueuedBytes(r) = n + QueuedBytes(z)
  <2> HIDE DEF r
  <2> QED
    BY <1>1, <1>2, ReadRecord
<1>5. /\ z.incoming = Tail(r.incoming) /\ z.over = (n = None) /\ z.left = r.left
      /\ z.resetTask = r.resetTask
  <2> HIDE DEF r
  <2>1. taken \in [DOMAIN r -> {taken[i] : i \in DOMAIN r}] /\ DOMAIN taken = DOMAIN r
    BY <1>1 DEF StreamRecs
  <2>2. /\ taken.incoming = Tail(r.incoming) /\ taken.over = (n = None) /\ taken.left = r.left
        /\ taken.resetTask = r.resetTask
    BY <1>1 DEF StreamRecs
  <2>3. CASE z = taken
    BY <2>2, <2>3
  <2>4. CASE z = [taken EXCEPT !.buffered = @ - n, !.frames = @ - 1]
    <3> HIDE DEF taken
    <3>1. DOMAIN r = {"st", "recv", "incoming", "buffered", "frames", "unacked", "window", "ended", "left",
                      "parked", "waiter", "held", "over", "resetTask"}
      BY <1>1 DEF StreamRecs
    <3> QED
      BY <2>1, <2>2, <2>4, <3>1
  <2> QED
    BY <2>3, <2>4
<1>6. QueuedBytes(r) \in Nat /\ QueuedBytes(z) \in Nat
  BY <1>1, <1>4, QueueTypes
<1> HIDE DEF z, n
<1>7. /\ \A i \in DOMAIN z.incoming : z.incoming[i] = None => i = Len(z.incoming)
      /\ n = None => z.incoming = <<>>
  <2>1. /\ r.incoming \in Seq(Nat) /\ r.incoming # <<>>
        /\ \A i \in DOMAIN r.incoming : r.incoming[i] = None => i = Len(r.incoming)
    BY <1>1, <1>2 DEF StreamRecs, EndOK, QueueOK
  <2> HIDE DEF r
  <2>2. /\ \A i \in DOMAIN Tail(r.incoming) : Tail(r.incoming)[i] = None => i = Len(Tail(r.incoming))
        /\ Head(r.incoming) = None => Tail(r.incoming) = <<>>
    BY <2>1, SentinelLast
  <2> QED
    BY <1>5, <2>2 DEF n
<1>8. n = None => r.recv # "OPEN"
  <2>1. n = r.incoming[1] /\ 1 \in DOMAIN r.incoming
    BY <1>1, <1>2 DEF StreamRecs, n
  <2> QED
    BY <1>1, <2>1 DEF StreamOK
<1>9. CASE n = None
  <2> DEFINE end == IF r.recv = "RESET" THEN "rst" ELSE "fin"
             q == [t EXCEPT !.writer = "done"]
             c == [k EXCEPT !.sink = end]
  <2>1. relay' = [relay EXCEPT ![e] = q] /\ sock' = [sock EXCEPT ![e] = c]
    <3>1. relay' = [relay EXCEPT ![e].writer = "done"] /\ sock' = [sock EXCEPT ![e].sink = end]
      BY <1>9, Zenon DEF PumpOut, n
    <3> QED
      BY <3>1, Zenon
  <2>2. /\ q \in RelayRecs /\ q.main = t.main /\ q.reader = t.reader /\ q.writer = "done"
        /\ c \in SockRecs /\ c.left = k.left /\ c.got = k.got /\ c.sink = end
    <3> HIDE DEF t, k, r
    <3> QED
      BY <1>1 DEF RelayRecs, SockRecs, Writers
  <2> HIDE DEF t, r, l, k, src, q, c, theirs
  <2>3. TaskOK(e, q, z) /\ SendOwned(e, q, z) /\ ReasonOK(q, z, Troubled')
    BY <1>1, <1>2, <1>4, <1>5, <2>2 DEF EndOK, TaskOK, SendOwned, ReasonOK
  <2>4. QueueOK(q, c, z, l)
    <3>1. c.got + QueuedBytes(z) = l.fed
      BY <1>1, <1>4, <1>6, <1>9, <2>2 DEF EndOK, QueueOK, None, SockRecs
    <3> QED
      BY <1>4, <1>5, <1>7, <1>9, <2>2, <3>1 DEF QueueOK
  <2>5. e = Agent => SourceOK(q, c, z, l, src, Troubled')
    BY <1>1, <1>4, <1>5, <2>2 DEF EndOK, SourceOK
  <2>6. e = Server => ResponseOK(q, c, z, theirs, Troubled')
    BY <1>1, <1>4, <2>2 DEF EndOK, ResponseOK
  <2>7. EndOK(e, q, c, z, l, theirs, src, Troubled')
    BY <2>3, <2>4, <2>5, <2>6 DEF EndOK
  <2> QED
    BY <1>1, <1>3, <1>4, <2>1, <2>2, <2>7, OneEnd DEF theirs, src, r
<1>10. CASE n # None
  <2> DEFINE q == [t EXCEPT !.writer = "draining"]
             c == [k EXCEPT !.got = @ + n]
  <2>1. relay' = [relay EXCEPT ![e] = q] /\ sock' = [sock EXCEPT ![e] = c]
    <3>1. relay' = [relay EXCEPT ![e].writer = "draining"] /\ sock' = [sock EXCEPT ![e].got = @ + n]
      BY <1>10, Zenon DEF PumpOut, n
    <3> QED
      BY <3>1, Zenon
  <2>2. /\ q \in RelayRecs /\ q.main = t.main /\ q.reader = t.reader /\ q.writer = "draining"
        /\ c \in SockRecs /\ c.left = k.left /\ c.got = k.got + n /\ c.sink = k.sink
    <3> HIDE DEF t, k, r
    <3> QED
      BY <1>1, <1>4 DEF RelayRecs, SockRecs, Writers
  <2> HIDE DEF t, r, l, k, src, q, c, theirs
  <2>3. TaskOK(e, q, z) /\ SendOwned(e, q, z) /\ ReasonOK(q, z, Troubled')
    BY <1>1, <1>2, <1>4, <1>5, <2>2 DEF EndOK, TaskOK, SendOwned, ReasonOK
  <2>4. QueueOK(q, c, z, l)
    <3>1. c.got + QueuedBytes(z) = l.fed
      BY <1>1, <1>4, <1>6, <2>2 DEF EndOK, QueueOK, SockRecs
    <3> QED
      BY <1>1, <1>4, <1>5, <1>7, <1>10, <2>2, <3>1 DEF EndOK, QueueOK
  <2>5. e = Agent => SourceOK(q, c, z, l, src, Troubled')
    BY <1>1, <1>4, <1>5, <2>2 DEF EndOK, SourceOK
  <2>6. e = Server => ResponseOK(q, c, z, theirs, Troubled')
    BY <1>1, <1>2, <1>4, <2>2 DEF EndOK, ResponseOK
  <2>7. EndOK(e, q, c, z, l, theirs, src, Troubled')
    BY <2>3, <2>4, <2>5, <2>6 DEF EndOK
  <2> QED
    BY <1>1, <1>3, <1>4, <2>1, <2>2, <2>7, OneEnd DEF theirs, src, r
<1> QED
  BY <1>9, <1>10

\* The stream record r with history l becomes z with history m: nothing the consumer sees
\* changes, a chunk is queued, or the terminal comes, and the stream may be torn down.
\* theirs: the peer half-closed; given: the visit is given up.
Heard(e, z, m, r, l, theirs, given) ==
    /\ z.ended = r.ended /\ z.left = r.left /\ z.over = r.over /\ m.sent = l.sent
    /\ z.st = r.st \/ (r.st = "live" /\ z.st = "closed" /\ given)
    /\ \/ z.recv = r.recv /\ z.incoming = r.incoming /\ m.fed = l.fed
       \/ /\ r.recv = "OPEN" /\ z.recv = "OPEN"
          /\ \E n \in Nat \ {0} : z.incoming = Append(r.incoming, n) /\ m.fed = l.fed + n
       \/ /\ r.recv = "OPEN" /\ z.recv # "OPEN" /\ z.incoming = Append(r.incoming, None) /\ m.fed = l.fed
          /\ (z.recv = "RESET" => given \/ z.resetTask)
          /\ (e = Server /\ z.recv = "EOF" => theirs)
    /\ r.resetTask => z.resetTask \/ given \/ r.st # "live"

HeardMoves(e, z, m) ==
    /\ z \in StreamRecs /\ m \in LogRecs /\ SetStream(e, sid, z) /\ SetLog(e, sid, m) /\ UNCHANGED env
    /\ Heard(e, z, m, Str(e), log[e][sid], Str(Peer(e)).ended, Troubled')

\* The sentinel comes last.
LEMMA SentinelAppended ==
    ASSUME NEW q \in Seq(Nat), NEW n \in Nat, \A i \in DOMAIN q : q[i] # None
    PROVE  \A i \in DOMAIN Append(q, n) : Append(q, n)[i] = None => i = Len(Append(q, n))
<1>1. Append(q, n) \in Seq(Nat) /\ Len(Append(q, n)) = Len(q) + 1 /\ Len(q) \in Nat
  OBVIOUS
<1>2. \A i \in DOMAIN Append(q, n) : i = Len(q) + 1 \/ (i \in DOMAIN q /\ Append(q, n)[i] = q[i])
  OBVIOUS
<1> QED
  BY <1>1, <1>2

\* The queue, and what was made of it, after a frame or a teardown.
LEMMA HeardQueue ==
    ASSUME NEW e, NEW t, NEW k \in SockRecs, NEW r \in StreamRecs, NEW l \in LogRecs, StreamOK(r),
           QueueOK(t, k, r, l), NEW z \in StreamRecs, NEW m \in LogRecs, NEW theirs, NEW given,
           Heard(e, z, m, r, l, theirs, given)
    PROVE  QueueOK(t, k, z, m)
<1>1. /\ r.incoming \in Seq(Nat) /\ QueuedBytes(r) \in Nat /\ l.fed \in Nat /\ k.got \in Nat /\ None \in Nat
      /\ z.over = r.over
  BY QueueTypes DEF StreamRecs, LogRecs, SockRecs, None, Heard
<1>2. CASE z.recv = r.recv /\ z.incoming = r.incoming /\ m.fed = l.fed
  BY <1>1, <1>2, QueueKept
<1>3. ASSUME r.recv = "OPEN", NEW n \in Nat, z.incoming = Append(r.incoming, n), m.fed = l.fed + n
      PROVE  QueueOK(t, k, z, m)
  <2>1. QueuedBytes(z) = QueuedBytes(r) + n
    BY <1>3, QueueAppend
  <2>2. k.got + QueuedBytes(z) = m.fed
    BY <1>1, <1>3, <2>1 DEF QueueOK
  <2>3. ~r.over /\ \A i \in DOMAIN r.incoming : r.incoming[i] # None
    BY <1>3 DEF StreamOK
  <2>4. \A i \in DOMAIN z.incoming : z.incoming[i] = None => i = Len(z.incoming)
    BY <1>1, <1>3, <2>3, SentinelAppended
  <2>5. t.writer # "done" /\ k.sink # "rst"
    BY <1>3, <2>3 DEF QueueOK
  <2> QED
    BY <1>1, <2>2, <2>3, <2>4, <2>5 DEF QueueOK
<1>4. CASE r.recv = "OPEN" /\ \E n \in Nat \ {0} : z.incoming = Append(r.incoming, n) /\ m.fed = l.fed + n
  BY <1>3, <1>4
<1>5. CASE r.recv = "OPEN" /\ z.incoming = Append(r.incoming, None) /\ m.fed = l.fed
  <2>1. m.fed = l.fed + None
    BY <1>1, <1>5 DEF None
  <2> QED
    BY <1>1, <1>3, <1>5, <2>1
<1> QED
  BY <1>2, <1>4, <1>5 DEF Heard

\* The rest of what an end says of itself.
LEMMA HeardRest ==
    ASSUME NEW e \in Ends, NEW t \in RelayRecs, NEW k \in SockRecs, NEW r \in StreamRecs, NEW l \in LogRecs,
           StreamOK(r), NEW theirs, NEW src, NEW given \in BOOLEAN, NEW given2 \in BOOLEAN, given => given2,
           EndOK(e, t, k, r, l, theirs, src, given), NEW z \in StreamRecs, NEW m \in LogRecs,
           Heard(e, z, m, r, l, theirs, given2)
    PROVE  /\ TaskOK(e, t, z) /\ SendOwned(e, t, z) /\ ReasonOK(t, z, given2)
           /\ e = Agent => SourceOK(t, k, z, m, src, given2)
           /\ e = Server => ResponseOK(t, k, z, theirs, given2)
<1>1. TaskOK(e, t, z)
  BY DEF EndOK, TaskOK, Heard
<1>2. SendOwned(e, t, z)
  BY DEF EndOK, SendOwned, Heard
<1>3. ReasonOK(t, z, given2)
  <2>1. r.st = "absent" => r.recv = "OPEN"
    BY NoStreamFields DEF StreamOK
  <2>2. r.st \in {"absent", "live", "closed"}
    BY DEF StreamRecs, Places
  <2> QED
    BY <2>1, <2>2 DEF EndOK, ReasonOK, Heard
<1>4. e = Agent => SourceOK(t, k, z, m, src, given2)
  BY DEF EndOK, SourceOK, Heard
<1>5. e = Server => ResponseOK(t, k, z, theirs, given2)
  BY DEF EndOK, ResponseOK, Heard
<1> QED
  BY <1>1, <1>2, <1>3, <1>4, <1>5

\* A step in which an end only hears something.
LEMMA HeardKeeps ==
    ASSUME TunnelInv, NEW e \in Ends, NEW z, NEW m, HeardMoves(e, z, m), Troubled => Troubled',
           UNCHANGED <<relay, sock>>
    PROVE  TunnelTypes' /\ TunnelOK'
<1> DEFINE t == relay[e]
           r == Str(e)
           l == log[e][sid]
           k == sock[e]
           src == env.source[e]
           theirs == Str(Peer(e)).ended
<1>1. /\ t \in RelayRecs /\ r \in StreamRecs /\ k \in SockRecs /\ l \in LogRecs /\ StreamOK(r)
      /\ EndOK(e, t, k, r, l, theirs, src, Troubled)
  BY EndFacts
<1>2. relay' = [relay EXCEPT ![e] = t] /\ sock' = [sock EXCEPT ![e] = k]
  BY DEF TunnelInv, TunnelTypes
<1>3. /\ z \in StreamRecs /\ m \in LogRecs /\ SetStream(e, sid, z) /\ SetLog(e, sid, m) /\ UNCHANGED env
      /\ Heard(e, z, m, r, l, theirs, Troubled')
  BY DEF HeardMoves
<1>4. Troubled \in BOOLEAN /\ Troubled' \in BOOLEAN
  BY DEF Troubled
<1> HIDE DEF t, r, l, k, src, theirs
<1>5. QueueOK(t, k, z, m)
  BY <1>1, <1>3, HeardQueue DEF EndOK
<1>6. /\ TaskOK(e, t, z) /\ SendOwned(e, t, z) /\ ReasonOK(t, z, Troubled')
      /\ (e = Agent => SourceOK(t, k, z, m, src, Troubled'))
      /\ (e = Server => ResponseOK(t, k, z, theirs, Troubled'))
  BY <1>1, <1>3, <1>4, HeardRest
<1>7. EndOK(e, t, k, z, m, theirs, src, Troubled')
  BY <1>5, <1>6 DEF EndOK
<1>8. r.ended => z.ended
  BY <1>3 DEF Heard
<1> QED
  BY <1>1, <1>2, <1>3, <1>7, <1>8, OneEnd DEF theirs, src, r

\* z is r with the terminal t, if it had none; the rest the consumer and the sender see is kept.
Terminated(z, r, t) ==
    /\ z \in StreamRecs /\ z.ended = r.ended /\ z.left = r.left /\ z.over = r.over
    /\ z.recv = (IF r.recv = "OPEN" THEN t ELSE r.recv)
    /\ z.incoming = (IF r.recv = "OPEN" THEN Append(r.incoming, None) ELSE r.incoming)

\* Stream._end_recv and Stream._close_local, seen from the queue.
LEMMA TerminatedRecord ==
    ASSUME NEW r \in StreamRecs, NEW t \in {"EOF", "RESET"}
    PROVE  /\ Terminated(EndRecv(r, t), r, t)
           /\ EndRecv(r, t).st = r.st /\ EndRecv(r, t).resetTask = r.resetTask
           /\ r.st = "live" => Terminated(Closed(r, t), r, t) /\ Closed(r, t).st = "closed"
                                  /\ Closed(r, t).resetTask = r.resetTask
<1>1. ASSUME NEW x \in StreamRecs
      PROVE  /\ Terminated(EndRecv(x, t), x, t)
             /\ EndRecv(x, t).st = x.st /\ EndRecv(x, t).resetTask = x.resetTask
  <2>1. CASE x.recv # "OPEN"
    BY <2>1 DEF EndRecv, Terminated
  <2>2. CASE x.recv = "OPEN"
    <3> DEFINE w == Append(x.incoming, None)
               z == [x EXCEPT !.recv = t, !.incoming = w]
    <3>1. w \in Seq(Nat)
      <4>1. x.incoming \in Seq(Nat) /\ None \in Nat
        BY DEF StreamRecs, None
      <4> QED
        BY <4>1
    <3>2. EndRecv(x, t) = z
      BY <2>2, Zenon DEF EndRecv
    <3> HIDE DEF w
    <3>3. /\ z \in StreamRecs /\ z.ended = x.ended /\ z.left = x.left /\ z.over = x.over
          /\ z.recv = t /\ z.incoming = w /\ z.st = x.st /\ z.resetTask = x.resetTask
      BY <3>1 DEF StreamRecs, Terminals
    <3> HIDE DEF z
    <3> QED
      BY <2>2, <3>2, <3>3 DEF Terminated, w
  <2> QED
    BY <2>1, <2>2
<1>2. ASSUME r.st = "live"
      PROVE  Terminated(Closed(r, t), r, t) /\ Closed(r, t).st = "closed"
                /\ Closed(r, t).resetTask = r.resetTask
  <2> DEFINE c == [r EXCEPT !.st = "closed", !.waiter = TRUE, !.buffered = 0, !.frames = 0]
  <2>1. Closed(r, t) = EndRecv(c, t)
    BY <1>2, Zenon DEF Closed
  <2>2. /\ c \in StreamRecs /\ c.st = "closed" /\ c.recv = r.recv /\ c.incoming = r.incoming
        /\ c.ended = r.ended /\ c.left = r.left /\ c.over = r.over /\ c.resetTask = r.resetTask
    BY DEF StreamRecs, Places
  <2> HIDE DEF c
  <2>3. Terminated(EndRecv(c, t), c, t) /\ EndRecv(c, t).st = c.st /\ EndRecv(c, t).resetTask = c.resetTask
    BY <1>1, <2>2
  <2> QED
    BY <2>1, <2>2, <2>3 DEF Terminated
<1> QED
  BY <1>1, <1>2

\* Its reset task begins or ends.
LEMMA TaskFlag ==
    ASSUME NEW x \in StreamRecs, NEW b \in BOOLEAN
    PROVE  LET z == [x EXCEPT !.resetTask = b]
           IN /\ z \in StreamRecs /\ z.ended = x.ended /\ z.left = x.left /\ z.over = x.over
              /\ z.recv = x.recv /\ z.incoming = x.incoming /\ z.st = x.st /\ z.resetTask = b
BY DEF StreamRecs

\* Aborting a stream that may be gone already, for a reason that gives the visit up.
LEMMA AbortHeard ==
    ASSUME TunnelInv, NEW e \in Ends, NEW m \in LogRecs, SetLog(e, sid, m), UNCHANGED env,
           m.sent = log[e][sid].sent, m.fed = log[e][sid].fed,
           Str(e).st = "live" => Troubled',
           NEW z, z \in {Closed(Str(e), "RESET"), Stopped(Str(e))}, SetStream(e, sid, z),
           Str(e).resetTask => z.resetTask \/ Troubled' \/ Str(e).st # "live"
    PROVE  HeardMoves(e, z, m)
<1> DEFINE r == Str(e)
           c == Closed(r, "RESET")
<1>1. r \in StreamRecs
  BY EndFacts
<1>2. c \in StreamRecs /\ (r.st = "live" => Terminated(c, r, "RESET") /\ c.st = "closed")
      /\ (r.st # "live" => c = r)
  BY <1>1, TerminatedRecord DEF Closed, Terminated
<1>3. z = c \/ z = [c EXCEPT !.resetTask = FALSE]
  BY DEF Stopped
<1> HIDE DEF r, c
<1>4. /\ z \in StreamRecs /\ z.ended = c.ended /\ z.left = c.left /\ z.over = c.over
      /\ z.recv = c.recv /\ z.incoming = c.incoming /\ z.st = c.st
  BY <1>2, <1>3, TaskFlag
<1>5. Heard(e, z, m, r, log[e][sid], Str(Peer(e)).ended, Troubled')
  <2>1. CASE r.st = "live"
    BY <1>2, <1>4, <2>1 DEF Heard, Terminated, r
  <2>2. CASE r.st # "live"
    BY <1>2, <1>4, <2>2 DEF Heard
  <2> QED
    BY <2>1, <2>2
<1> QED
  BY <1>4, <1>5 DEF HeardMoves, r

\* An end whose connection is gone, or that sent a RESET, has given the visit up.
LEMMA GivenUp ==
    ASSUME NEW d \in Ends, mux[d].ws # "open" \/ log[d][sid].resets # 0
    PROVE  Troubled
BY DEF Troubled, Untroubled

\* Stream.reset(), by its caller or by the task a breach spawned, gives the visit up.
LEMMA ResetHeard ==
    ASSUME TunnelInv, NEW e \in Ends, ResetNow(e, sid) \/ ResetTask(e, sid), Troubled => Troubled'
    PROVE  \E z, m : HeardMoves(e, z, m) /\ z.st # "live" /\ (ResetNow(e, sid) => Troubled')
<1> DEFINE r == Str(e)
           l == log[e][sid]
           a == IF r.st = "live" /\ mux[e].ws = "open" THEN l.resets + 1 ELSE l.resets
           m == [l EXCEPT !.resets = a]
<1>1. r \in StreamRecs /\ l \in LogRecs /\ MuxTypes /\ sid \in Sids
  BY EndFacts, OneVisit
<1>2. UNCHANGED env /\ (ResetNow(e, sid) => r.st = "live")
  BY DEF ResetNow, ResetTask, Live, Str
<1>3. SetLog(e, sid, m)
  <2>1. log' = [log EXCEPT ![e][sid].resets = IF r.st = "live" /\ mux[e].ws = "open" THEN @ + 1 ELSE @]
    <3>1. CASE ResetTask(e, sid)
      BY <3>1, Zenon DEF ResetTask, Str
    <3>2. CASE ResetNow(e, sid)
      <4>1. log' = [log EXCEPT ![e][sid].resets = IF mux[e].ws = "open" THEN @ + 1 ELSE @]
        BY <3>2, Zenon DEF ResetNow
      <4> QED
        BY <1>2, <3>2, <4>1
    <3> QED
      BY <3>1, <3>2
  <2> QED
    BY <1>1, <2>1 DEF SetLog, LogRecs, MuxTypes
<1>4. m \in LogRecs /\ m.sent = l.sent /\ m.fed = l.fed /\ m.resets = a
  <2> HIDE DEF l
  <2> QED
    BY <1>1 DEF LogRecs
<1>5. r.st = "live" => Troubled'
  <2>1. CASE mux[e].ws # "open"
    BY <2>1, GivenUp
  <2>2. CASE mux[e].ws = "open" /\ r.st = "live"
    <3>1. log'[e][sid] = m
      BY <1>1, <1>3, <1>4, PutLog
    <3>2. m.resets # 0
      BY <1>1, <1>4, <2>2 DEF LogRecs
    <3> QED
      BY <3>1, <3>2 DEF Troubled, Untroubled
  <2> QED
    BY <2>1, <2>2
<1>6. PICK z \in {Closed(r, "RESET"), Stopped(r)} : SetStream(e, sid, z)
  <2>1. CASE ResetNow(e, sid)
    <3>1. SetStream(e, sid, Closed(r, "RESET"))
      BY <2>1, Zenon DEF ResetNow, CloseLocal, SetStream, Str
    <3> QED
      BY <1>2, <3>1
  <2>2. CASE ResetTask(e, sid)
    <3>1. SetStream(e, sid, Stopped(r))
      BY <2>2, Zenon DEF ResetTask, SetStream, Stopped, Str
    <3> QED
      BY <1>2, <3>1
  <2> QED
    BY <2>1, <2>2
<1> HIDE DEF m, a
<1>7. HeardMoves(e, z, m)
  BY <1>2, <1>3, <1>4, <1>5, <1>6, AbortHeard
<1>8. z.st # "live"
  <2>1. Closed(r, "RESET").st # "live" /\ Closed(r, "RESET") \in StreamRecs
    BY <1>1, TerminatedRecord DEF Closed, Terminated
  <2>2. Stopped(r).st # "live"
    BY <2>1, TaskFlag DEF Stopped
  <2> QED
    BY <2>1, <2>2
<1> QED
  BY <1>2, <1>5, <1>7, <1>8

\* The end of run(), which only comes when the connection is gone.
LEMMA StopHeard ==
    ASSUME TunnelInv, NEW e \in Ends, NEW n, StopRun(e, n), UNCHANGED <<env, log>>, Troubled'
    PROVE  HeardMoves(e, Stopped(Str(e)), log[e][sid]) /\ Stopped(Str(e)).resetTask = FALSE
<1> DEFINE r == Str(e)
           l == log[e][sid]
           z == Stopped(r)
<1>1. r \in StreamRecs /\ l \in LogRecs /\ MuxTypes /\ sid \in Sids /\ Sids = {sid}
  BY EndFacts, OneVisit
<1>2. SetLog(e, sid, l)
  BY <1>1, Unassigned
<1>3. SetStream(e, sid, z)
  <2>1. stream' = [stream EXCEPT ![e] = [s \in Sids |-> Stopped(stream[e][s])]]
    BY Zenon DEF StopRun, Stopped
  <2>2. [s \in Sids |-> Stopped(stream[e][s])] = [stream[e] EXCEPT ![sid] = z]
    <3>1. stream[e] \in [Sids -> StreamRecs]
      BY <1>1 DEF MuxTypes
    <3> HIDE DEF z
    <3>2. \A s \in Sids : Stopped(stream[e][s]) = z
      BY <1>1 DEF z, Str
    <3> QED
      BY <1>1, <3>1, <3>2
  <2> HIDE DEF z
  <2>3. stream' = [stream EXCEPT ![e] = [stream[e] EXCEPT ![sid] = z]]
    BY <2>1, <2>2
  <2> QED
    BY <2>3, Zenon DEF SetStream
<1>4. HeardMoves(e, z, l)
  BY <1>1, <1>2, <1>3, AbortHeard
<1>5. z.resetTask = FALSE
  <2>1. Closed(r, "RESET") \in StreamRecs
    BY <1>1, TerminatedRecord DEF Closed, Terminated
  <2> QED
    BY <2>1, TaskFlag DEF Stopped
<1> QED
  BY <1>4, <1>5

\* Nothing reaches the stream.
LEMMA NothingHeard ==
    ASSUME TunnelInv, NEW e \in Ends, UNCHANGED <<stream, env, log>>
    PROVE  HeardMoves(e, Str(e), log[e][sid])
<1>1. MuxTypes /\ sid \in Sids /\ Str(e) \in StreamRecs /\ log[e][sid] \in LogRecs
  BY EndFacts, OneVisit
<1>2. SetStream(e, sid, Str(e)) /\ SetLog(e, sid, log[e][sid])
  BY <1>1, Unassigned DEF Str
<1> QED
  BY <1>1, <1>2 DEF HeardMoves, Heard

\* The connection drains, is lost, ends; a reset task or a refusal goes out.
LEMMA ConnectionStepKeeps ==
    ASSUME TunnelInv, NEW e \in Ends, ConnectionStep(e), Troubled => Troubled'
    PROVE  TunnelTypes' /\ TunnelOK'
<1>1. UNCHANGED <<relay, sock>>
  BY DEF ConnectionStep
<1>2. CASE GoAway(e) \/ DrainClose(e) \/ Lose(e) \/ Notice(e)
  <2>1. UNCHANGED <<stream, env, log>>
    BY <1>2 DEF GoAway, DrainClose, Lose, Notice
  <2> QED
    BY <1>1, <2>1, NothingHeard, HeardKeeps
<1>3. CASE e = Server /\ RunEnds(e)
  <2>1. StopRun(e, mux[e]) /\ UNCHANGED <<env, log>> /\ mux[e].ws # "open"
    BY <1>3 DEF RunEnds
  <2> QED
    BY <1>1, <2>1, GivenUp, StopHeard, HeardKeeps
<1>4. CASE ResetTask(e, sid)
  BY <1>1, <1>4, ResetHeard, HeardKeeps
<1>5. CASE SendOnce(e, sid)
  <2> DEFINE l == log[e][sid]
             a == IF mux[e].ws = "open" THEN l.resets + 1 ELSE l.resets
             m == [l EXCEPT !.resets = a]
  <2>1. Str(e) \in StreamRecs /\ l \in LogRecs /\ MuxTypes /\ sid \in Sids
    BY EndFacts, OneVisit
  <2>2. SetStream(e, sid, Str(e)) /\ UNCHANGED env
    BY <1>5, <2>1, Unassigned DEF SendOnce, Str
  <2>3. SetLog(e, sid, m)
    BY <1>5, <2>1 DEF SendOnce, SetLog, LogRecs, MuxTypes
  <2>4. m \in LogRecs /\ m.sent = l.sent /\ m.fed = l.fed
    <3> HIDE DEF l
    <3> QED
      BY <2>1 DEF LogRecs
  <2> HIDE DEF m, a
  <2>5. HeardMoves(e, Str(e), m)
    BY <2>1, <2>2, <2>3, <2>4 DEF HeardMoves, Heard
  <2> QED
    BY <1>1, <2>5, HeardKeeps
<1> QED
  BY <1>2, <1>3, <1>4, <1>5 DEF ConnectionStep

\* What is known of the frame at the head of the wire, and of the peer that sent it.
LEMMA HeadOfWire ==
    ASSUME TunnelInv, NEW e \in Ends, Demux(e)
    PROVE  LET f == Arrived(e)
           IN /\ f \in Frames /\ f.n \in Nat /\ (f.sid # 0 => f.sid = sid) /\ f.ok
              /\ f.sid # 0 /\ f.type = "EOF" => Str(Peer(e)).ended
              /\ f.sid # 0 /\ f.type = "RESET" => Troubled
              /\ f.sid # 0 /\ f.type = "OPEN" /\ e = Agent => Str(e).st = "absent"
<1> DEFINE f == Arrived(e)
           w == wire[Peer(e)]
<1>1. w # <<>>
  BY DEF Demux, RecvOpen, RecvData, RecvEof, RecvWindowUpdate, RecvReset, RecvGoaway, RecvOther, Arrives
<1>2. /\ IInv /\ Compliant /\ Protocol /\ Peer(e) \in Ends /\ Sids = {sid} /\ sid \in Sids
      /\ w \in Seq(Frames)
  BY EndFacts, OneVisit DEF IInv, MuxTypes
<1>3. f \in Frames /\ f.n \in Nat /\ (f.sid # 0 => f.sid = sid)
  BY <1>1, <1>2, ArrivedIs
<1>4. 1 \in DOMAIN w /\ w[1] = f
  BY <1>1, <1>2 DEF Arrived
<1>5. f.ok
  BY <1>2, <1>4 DEF Protocol
<1>6. f.sid # 0 => f.type \in View(Peer(e), sid).under
  <2>1. f.sid # 0 => Has(w, sid, f.type)
    BY <1>3, <1>4 DEF Has
  <2>2. View(Peer(e), sid).under = Kinds(w, sid)
    BY <1>2, ViewNow
  <2> QED
    BY <1>3, <2>1, <2>2 DEF Kinds, Frames
<1>7. Agree(e, View(e, sid), View(Peer(e), sid), sid, nextId)
  BY <1>2, AgreeNow
<1>8. /\ View(Peer(e), sid).ended = Str(Peer(e)).ended /\ View(e, sid).st = Str(e).st
      /\ View(Peer(e), sid).resets = log[Peer(e)][sid].resets
  BY DEF View, ViewOf, Str
<1>9. f.sid # 0 /\ f.type = "EOF" => Str(Peer(e)).ended
  BY <1>6, <1>7, <1>8 DEF Agree, SentOK
<1>10. f.sid # 0 /\ f.type = "RESET" => Troubled
  BY <1>2, <1>6, <1>7, <1>8, GivenUp DEF Agree, SentOK
<1>11. f.sid # 0 /\ f.type = "OPEN" /\ e = Agent => Str(e).st = "absent"
  <2>1. e = Agent => e # Server
    BY DEF Server, Agent
  <2> QED
    BY <1>6, <1>7, <1>8, <2>1 DEF Agree, IdsOK
<1> QED
  BY <1>3, <1>5, <1>9, <1>10, <1>11

\* A DATA frame that is queued, or breaches a limit.
LEMMA FeedHeard ==
    ASSUME TunnelInv, NEW e \in Ends, NEW n \in Nat \ {0}, Str(e).st = "live", Str(e).recv = "OPEN",
           Feed(e, sid, n), UNCHANGED env
    PROVE  \E z, m : HeardMoves(e, z, m)
<1> DEFINE r == Str(e)
           l == log[e][sid]
<1>1. /\ r \in StreamRecs /\ l \in LogRecs /\ MuxTypes /\ sid \in Sids /\ StreamOK(r)
      /\ r.incoming \in Seq(Nat) /\ r.buffered \in Nat /\ r.frames \in Nat /\ l.fed \in Nat
  BY EndFacts, OneVisit DEF StreamRecs, LogRecs
<1>2. CASE Breach(e, sid, n) = "none"
  <2> DEFINE w == Append(r.incoming, n)
             b == r.buffered + n
             c == r.frames + 1
             f == l.fed + n
             z == [r EXCEPT !.incoming = w, !.buffered = b, !.frames = c]
             m == [l EXCEPT !.fed = f]
  <2>1. w \in Seq(Nat) /\ b \in Nat /\ c \in Nat /\ f \in Nat
    BY <1>1
  <2>2. /\ stream' = [stream EXCEPT ![e][sid].incoming = Append(@, n),
                                    ![e][sid].buffered = @ + n, ![e][sid].frames = @ + 1]
        /\ log' = [log EXCEPT ![e][sid].fed = @ + n]
    BY <1>2, Zenon DEF Feed
  <2>3. SetStream(e, sid, z)
    BY <1>1, <2>2 DEF SetStream, StreamRecs, MuxTypes, Str
  <2>4. SetLog(e, sid, m)
    BY <2>2, Zenon DEF SetLog
  <2> HIDE DEF r, l, w, b, c, f
  <2>5. /\ z \in StreamRecs /\ z.ended = r.ended /\ z.left = r.left /\ z.over = r.over /\ z.st = r.st
        /\ z.recv = r.recv /\ z.incoming = w /\ z.resetTask = r.resetTask
    BY <1>1, <2>1 DEF StreamRecs
  <2>6. m \in LogRecs /\ m.sent = l.sent /\ m.fed = f
    BY <1>1, <2>1 DEF LogRecs
  <2> HIDE DEF z, m
  <2>7. r.recv = "OPEN"
    BY DEF r
  <2>8. Heard(e, z, m, r, l, Str(Peer(e)).ended, Troubled')
    BY <2>5, <2>6, <2>7 DEF Heard, w, f
  <2>9. HeardMoves(e, z, m)
    BY <2>3, <2>4, <2>5, <2>6, <2>8 DEF HeardMoves, r, l
  <2> QED
    BY <2>9
<1>3. CASE Breach(e, sid, n) # "none"
  <2> DEFINE c == EndRecv(r, "RESET")
             z == [c EXCEPT !.resetTask = TRUE]
  <2>1. SetStream(e, sid, z) /\ UNCHANGED log
    BY <1>3, Zenon DEF Feed, SetStream, Str
  <2>2. SetLog(e, sid, l)
    BY <1>1, <2>1, Unassigned
  <2>3. Terminated(c, r, "RESET") /\ c.st = r.st
    BY <1>1, TerminatedRecord
  <2> HIDE DEF c
  <2>4. /\ z \in StreamRecs /\ z.ended = c.ended /\ z.left = c.left /\ z.over = c.over
        /\ z.recv = c.recv /\ z.incoming = c.incoming /\ z.st = c.st /\ z.resetTask = TRUE
    BY <2>3, TaskFlag DEF Terminated
  <2> HIDE DEF z
  <2>5. Heard(e, z, l, r, l, Str(Peer(e)).ended, Troubled')
    BY <2>3, <2>4 DEF Heard, Terminated
  <2>6. HeardMoves(e, z, l)
    BY <1>1, <2>1, <2>2, <2>4, <2>5 DEF HeardMoves
  <2> QED
    BY <2>6
<1> QED
  BY <1>2, <1>3

\* A frame that is counted and ignored, or is one too many.
LEMMA IgnoredHeard ==
    ASSUME TunnelInv, NEW e \in Ends, IgnoreFrame(e), UNCHANGED <<env, log>>, Troubled => Troubled'
    PROVE  \E z, m : HeardMoves(e, z, m)
<1> DEFINE m == [mux[e] EXCEPT !.ignored = @ + 1]
           n == [m EXCEPT !.ws = "lost"]
<1>1. UNCHANGED stream \/ StopRun(e, n)
  BY Zenon DEF IgnoreFrame
<1>2. CASE UNCHANGED stream
  BY <1>2, NothingHeard
<1>3. CASE StopRun(e, n)
  <2>1. mux[e] \in MuxRecs /\ mux \in [Ends -> MuxRecs]
    BY EndFacts DEF MuxTypes
  <2>2. m \in MuxRecs
    BY <2>1 DEF MuxRecs
  <2>3. n \in MuxRecs /\ n.ws = "lost"
    <3> HIDE DEF m
    <3> QED
      BY <2>2 DEF MuxRecs
  <2> HIDE DEF n
  <2>4. mux'[e].ws = "lost"
    <3>1. PICK b, c, a : mux' = [mux EXCEPT ![e] = [n EXCEPT !.buffered = b, !.frames = c, !.account = a,
                                                             !.running = FALSE, !.resetSends = {}]]
      <4>1. \E b, c, a : mux' = [mux EXCEPT ![e] = [n EXCEPT !.buffered = b, !.frames = c, !.account = a,
                                                               !.running = FALSE, !.resetSends = {}]]
        BY <1>3, Zenon DEF StopRun
      <4> QED
        BY <4>1
    <3> DEFINE x == [n EXCEPT !.buffered = b, !.frames = c, !.account = a,
                              !.running = FALSE, !.resetSends = {}]
    <3>2. x.ws = n.ws
      BY <2>3 DEF MuxRecs
    <3>3. mux' = [mux EXCEPT ![e] = x]
      BY <3>1
    <3> HIDE DEF x
    <3> QED
      BY <2>1, <2>3, <3>2, <3>3
  <2>5. Troubled'
    BY <2>4 DEF Troubled, Untroubled
  <2> QED
    BY <1>3, <2>5, StopHeard
<1> QED
  BY <1>1, <1>2, <1>3

\* What a frame does to the stream: what its type says, or, at the agent, it opens it.
LEMMA DemuxHeard ==
    ASSUME TunnelInv, NEW e \in Ends, Demux(e), Troubled => Troubled'
    PROVE  \/ \E z, m : HeardMoves(e, z, m)
           \/ /\ e = Agent /\ Str(e).st = "absent" /\ SetStream(e, sid, NewStream)
              /\ UNCHANGED <<env, log>>
<1> DEFINE f == Arrived(e)
           s == f.sid
           r == Str(e)
           l == log[e][sid]
<1>1. /\ f \in Frames /\ f.n \in Nat /\ (s # 0 => s = sid) /\ f.ok
      /\ (s # 0 /\ f.type = "EOF" => Str(Peer(e)).ended)
      /\ (s # 0 /\ f.type = "RESET" => Troubled)
      /\ (s # 0 /\ f.type = "OPEN" /\ e = Agent => Str(e).st = "absent")
  BY HeadOfWire
<1>2. /\ r \in StreamRecs /\ l \in LogRecs /\ MuxTypes /\ sid \in Sids /\ UNCHANGED env
  BY EndFacts, OneVisit DEF Demux, RecvOpen, RecvData, RecvEof, RecvWindowUpdate, RecvReset, RecvGoaway,
                            RecvOther
<1>3. Known(e, s) => s = sid /\ r.st = "live" /\ s # 0
  BY <1>1 DEF Known, Live, Sids, Str
<1>4. CASE UNCHANGED <<stream, log>>
  BY <1>2, <1>4, NothingHeard
<1>5. CASE IgnoreFrame(e) /\ UNCHANGED log
  BY <1>2, <1>5, IgnoredHeard
<1>6. CASE RecvOpen(e) /\ s # 0 /\ e = Agent /\ SetStream(e, s, NewStream) /\ UNCHANGED log
  <2>1. f.type = "OPEN" /\ s = sid
    BY <1>1, <1>6 DEF RecvOpen, Arrives, Arrived
  <2> QED
    BY <1>1, <1>2, <1>6, <2>1
<1>7. CASE Known(e, s) /\ r.recv = "OPEN" /\ f.n > 0 /\ Feed(e, s, f.n)
  BY <1>1, <1>2, <1>3, <1>7, FeedHeard
<1>8. CASE RecvEof(e) /\ Known(e, s) /\ SetStream(e, s, EndRecv(r, "EOF")) /\ UNCHANGED log
  <2> DEFINE z == EndRecv(r, "EOF")
  <2>1. f.type = "EOF" /\ s = sid /\ s # 0
    BY <1>3, <1>8 DEF RecvEof, Arrives, Arrived
  <2>2. Terminated(z, r, "EOF") /\ z.st = r.st /\ z.resetTask = r.resetTask
    BY <1>2, TerminatedRecord
  <2>3. SetLog(e, sid, l)
    BY <1>2, <1>8, Unassigned
  <2>4. SetStream(e, sid, z)
    BY <1>8, <2>1
  <2> HIDE DEF z, r
  <2>5. Heard(e, z, l, r, l, Str(Peer(e)).ended, Troubled')
    BY <1>1, <2>1, <2>2 DEF Heard, Terminated
  <2>6. HeardMoves(e, z, l)
    BY <1>2, <2>2, <2>3, <2>4, <2>5 DEF HeardMoves, Terminated, r
  <2> QED
    BY <2>6
<1>9. CASE Known(e, s) /\ SetStream(e, s, Granted(r, f.n)) /\ UNCHANGED log
  <2> DEFINE w == Min({r.window + f.n, MaxSendWindow})
             z == [r EXCEPT !.window = w, !.waiter = TRUE]
  <2>1. SetStream(e, sid, z)
    BY <1>3, <1>9, Zenon DEF Granted
  <2>2. w \in Nat
    <3>1. r.window \in Nat /\ MaxSendWindow \in Nat /\ f.n \in Nat
      BY <1>1, <1>2, MuxAssumption DEF StreamRecs
    <3>2. r.window + f.n \in Nat
      BY <3>1
    <3> QED
      BY <3>1, <3>2, MinIs
  <2>3. SetLog(e, sid, l)
    BY <1>2, <1>9, Unassigned
  <2> HIDE DEF w, r
  <2>4. /\ z \in StreamRecs /\ z.ended = r.ended /\ z.left = r.left /\ z.over = r.over /\ z.st = r.st
        /\ z.recv = r.recv /\ z.incoming = r.incoming /\ z.resetTask = r.resetTask
    BY <1>2, <2>2 DEF StreamRecs
  <2> HIDE DEF z
  <2>5. HeardMoves(e, z, l)
    BY <1>2, <2>1, <2>3, <2>4 DEF HeardMoves, Heard, r
  <2> QED
    BY <2>5
<1>10. CASE RecvReset(e) /\ Known(e, s) /\ CloseLocal(e, s, "RESET") /\ UNCHANGED log
  <2> DEFINE z == Closed(r, "RESET")
  <2>1. f.type = "RESET" /\ s = sid /\ s # 0
    BY <1>3, <1>10 DEF RecvReset, Arrives, Arrived
  <2>2. SetStream(e, sid, z)
    BY <1>10, <2>1, Zenon DEF CloseLocal, SetStream, Str
  <2>3. SetLog(e, sid, l) /\ Troubled'
    BY <1>1, <1>2, <1>10, <2>1, Unassigned
  <2>4. HeardMoves(e, z, l)
    BY <1>2, <2>2, <2>3, AbortHeard
  <2> QED
    BY <2>4
<1>11. \/ UNCHANGED <<stream, log>>
       \/ IgnoreFrame(e) /\ UNCHANGED log
       \/ RecvOpen(e) /\ s # 0 /\ e = Agent /\ SetStream(e, s, NewStream) /\ UNCHANGED log
       \/ Known(e, s) /\ r.recv = "OPEN" /\ f.n > 0 /\ Feed(e, s, f.n)
       \/ RecvEof(e) /\ Known(e, s) /\ SetStream(e, s, EndRecv(r, "EOF")) /\ UNCHANGED log
       \/ Known(e, s) /\ SetStream(e, s, Granted(r, f.n)) /\ UNCHANGED log
       \/ RecvReset(e) /\ Known(e, s) /\ CloseLocal(e, s, "RESET") /\ UNCHANGED log
  <2> HIDE DEF f
  <2>0. Known(e, s) => stream[e][s] = r /\ f.ok
    BY <1>1, <1>3 DEF Str
  <2> HIDE DEF r
  <2>1. CASE RecvOpen(e)
    BY <2>1, Zenon DEF RecvOpen, RefuseOpen, SetStream, f
  <2>2. CASE RecvData(e)
    BY <2>0, <2>2, Zenon DEF RecvData, f
  <2>3. CASE RecvEof(e)
    BY <2>0, <2>3, Zenon DEF RecvEof, SetStream, f
  <2>4. CASE RecvWindowUpdate(e)
    BY <2>0, <2>4, Zenon DEF RecvWindowUpdate, SetStream, f
  <2>5. CASE RecvReset(e)
    BY <2>5, Zenon DEF RecvReset, f
  <2>6. CASE RecvGoaway(e) \/ RecvOther(e)
    BY <2>6, Zenon DEF RecvGoaway, RecvOther
  <2> QED
    BY <2>1, <2>2, <2>3, <2>4, <2>5, <2>6 DEF Demux
<1> QED
  BY <1>4, <1>5, <1>6, <1>7, <1>8, <1>9, <1>10, <1>11

\* A frame is dispatched; the agent's handler starts with an accepted OPEN.
LEMMA DemuxStepKeeps ==
    ASSUME TunnelInv, NEW e \in Ends, DemuxStep(e), Troubled => Troubled'
    PROVE  TunnelTypes' /\ TunnelOK'
<1> DEFINE t == relay[e]
           r == Str(e)
           l == log[e][sid]
           k == sock[e]
           src == env.source[e]
           theirs == Str(Peer(e)).ended
<1>1. /\ t \in RelayRecs /\ r \in StreamRecs /\ k \in SockRecs /\ l \in LogRecs /\ StreamOK(r)
      /\ EndOK(e, t, k, r, l, theirs, src, Troubled) /\ MuxTypes /\ sid \in Sids
  BY EndFacts, OneVisit
<1>2. Demux(e) /\ UNCHANGED sock
  BY DEF DemuxStep
<1>3. ASSUME NEW z, NEW m, HeardMoves(e, z, m) PROVE TunnelTypes' /\ TunnelOK'
  <2>1. z \in StreamRecs /\ SetStream(e, sid, z) /\ (r.st = "absent" => z.st = "absent")
    BY <1>3 DEF HeardMoves, Heard
  <2>2. stream'[e][sid] = z
    BY <1>1, <2>1, PutStream
  <2>3. UNCHANGED relay
    BY <2>1, <2>2 DEF DemuxStep
  <2> QED
    BY <1>2, <1>3, <2>3, HeardKeeps
<1>4. CASE e = Agent /\ r.st = "absent" /\ SetStream(e, sid, NewStream) /\ UNCHANGED <<env, log>>
  <2> DEFINE q == [t EXCEPT !.main = "dialing"]
             z == NewStream
  <2>1. z \in StreamRecs /\ z.st = "live"
    BY NoStreamFields DEF NewStream
  <2>2. stream'[e][sid].st = "live"
    BY <1>1, <1>4, <2>1, PutStream
  <2>3. relay' = [relay EXCEPT ![e] = q]
    <3>1. relay' = [relay EXCEPT ![e].main = "dialing"]
      BY <1>4, <2>2, Zenon DEF DemuxStep
    <3> QED
      BY <3>1, Zenon
  <2>4. q \in RelayRecs /\ q.main = "dialing" /\ q.reader = t.reader /\ q.writer = t.writer
    <3> HIDE DEF t
    <3> QED
      BY <1>1 DEF RelayRecs, Mains
  <2>5. SetLog(e, sid, l) /\ sock' = [sock EXCEPT ![e] = k]
    BY <1>1, <1>2, <1>4, Unassigned DEF TunnelInv, TunnelTypes
  <2>6. /\ z.recv = r.recv /\ z.incoming = r.incoming /\ z.over = r.over /\ z.left = 0 /\ ~z.ended /\ ~r.ended
        /\ z.recv = "OPEN" /\ r.left = 0
    <3>1. r = NoStream
      BY <1>1, <1>4 DEF StreamOK
    <3> QED
      BY <3>1 DEF NewStream, NoStream
  <2> HIDE DEF t, r, l, k, src, theirs, q, z
  <2>7. t.reader = "off" /\ t.writer = "off"
    BY <1>1, <1>4 DEF EndOK, TaskOK
  <2>8. QueueOK(q, k, z, l)
    BY <1>1, <2>4, <2>6, QueueKept DEF EndOK
  <2>9. TaskOK(e, q, z) /\ SendOwned(e, q, z) /\ ReasonOK(q, z, Troubled')
    BY <1>4, <2>1, <2>4, <2>6, <2>7 DEF TaskOK, SendOwned, ReasonOK, Server, Agent
  <2>10. SourceOK(q, k, z, l, src, Troubled')
    BY <1>1, <1>4, <2>4, <2>6, <2>7 DEF EndOK, SourceOK
  <2>11. EndOK(e, q, k, z, l, theirs, src, Troubled')
    BY <1>4, <2>8, <2>9, <2>10 DEF EndOK, Server, Agent
  <2> QED
    BY <1>1, <1>4, <2>1, <2>3, <2>4, <2>5, <2>6, <2>11, OneEnd DEF theirs, src, r, z
<1> QED
  BY <1>2, <1>3, <1>4, DemuxHeard

\* _safe_close(writer).
LEMMA CloseSinkIs ==
    ASSUME NEW k \in SockRecs
    PROVE  LET c == CloseSink(k)
           IN /\ c \in SockRecs /\ c.left = k.left /\ c.got = k.got
              /\ c.sink = IF k.sink = "open" THEN "fin" ELSE k.sink
BY DEF CloseSink, SockRecs

\* The stream is reset and the sockets closed: the visit is given up.
LEMMA ResetAndCloseKeeps ==
    ASSUME TunnelInv, NEW e \in Ends, ResetAndClose(e), Troubled => Troubled'
    PROVE  TunnelTypes' /\ TunnelOK'
<1> DEFINE t == relay[e]
           r == Str(e)
           l == log[e][sid]
           k == sock[e]
           src == env.source[e]
           theirs == Str(Peer(e)).ended
           q == [t EXCEPT !.main = "closed"]
           c == CloseSink(k)
<1>1. /\ t \in RelayRecs /\ r \in StreamRecs /\ k \in SockRecs /\ l \in LogRecs /\ StreamOK(r)
      /\ EndOK(e, t, k, r, l, theirs, src, Troubled) /\ Troubled \in BOOLEAN /\ Troubled' \in BOOLEAN
  BY EndFacts DEF Troubled
<1>2. t.main = "resetting" /\ r.st # "absent"
  BY <1>1 DEF ResetAndClose, EndOK, TaskOK
<1>3. \E z, m : HeardMoves(e, z, m) /\ z.st # "live" /\ Troubled'
  <2>1. CASE ResetNow(e, sid)
    BY <2>1, ResetHeard
  <2>2. CASE r.st # "live" /\ UNCHANGED vars
    <3>1. HeardMoves(e, r, l)
      BY <2>2, NothingHeard DEF vars
    <3>2. Troubled
      <4>1. r.st = "closed"
        BY <1>1, <1>2, <2>2 DEF StreamRecs, Places
      <4> QED
        BY <1>1, <1>2, <4>1 DEF EndOK, ReasonOK
    <3> QED
      BY <2>2, <3>1, <3>2
  <2> QED
    BY <2>1, <2>2 DEF ResetAndClose, Reset, Live, Str
<1>4. PICK z, m : HeardMoves(e, z, m) /\ z.st # "live" /\ Troubled'
  BY <1>3
<1>5. relay' = [relay EXCEPT ![e] = q] /\ sock' = [sock EXCEPT ![e] = c]
  BY Zenon DEF ResetAndClose
<1>6. q \in RelayRecs /\ q.main = "closed" /\ q.reader = t.reader /\ q.writer = t.writer
  <2> HIDE DEF t
  <2> QED
    BY <1>1 DEF RelayRecs, Mains
<1>7. /\ c \in SockRecs /\ c.left = k.left /\ c.got = k.got
      /\ c.sink = IF k.sink = "open" THEN "fin" ELSE k.sink
  BY <1>1, CloseSinkIs
<1>8. /\ z \in StreamRecs /\ m \in LogRecs /\ SetStream(e, sid, z) /\ SetLog(e, sid, m) /\ UNCHANGED env
      /\ Heard(e, z, m, r, l, theirs, Troubled')
  BY <1>4 DEF HeardMoves
<1> HIDE DEF t, r, l, k, src, theirs, q, c
<1>9. QueueOK(t, k, z, m)
  BY <1>1, <1>8, HeardQueue DEF EndOK
<1>10. /\ TaskOK(e, t, z) /\ SendOwned(e, t, z)
       /\ (e = Agent => SourceOK(t, k, z, m, src, Troubled'))
  BY <1>1, <1>8, HeardRest
<1>11. QueueOK(q, c, z, m)
  BY <1>6, <1>7, <1>9 DEF QueueOK
<1>12. TaskOK(e, q, z) /\ SendOwned(e, q, z) /\ ReasonOK(q, z, Troubled')
  <2>1. z.st # "absent"
    BY <1>2, <1>8 DEF Heard
  <2> QED
    BY <1>2, <1>4, <1>6, <1>10, <2>1 DEF TaskOK, SendOwned, ReasonOK
<1>13. e = Agent => SourceOK(q, c, z, m, src, Troubled')
  BY <1>4, <1>6, <1>7, <1>10 DEF SourceOK
<1>14. e = Server => ResponseOK(q, c, z, theirs, Troubled')
  BY <1>4 DEF ResponseOK
<1>15. EndOK(e, q, c, z, m, theirs, src, Troubled')
  BY <1>11, <1>12, <1>13, <1>14 DEF EndOK
<1>16. r.ended => z.ended
  BY <1>8 DEF Heard
<1> QED
  BY <1>5, <1>6, <1>7, <1>8, <1>15, <1>16, OneEnd DEF theirs, src, r

\* Both directions are over: the stream and the socket are closed.
LEMMA EndRelayKeeps ==
    ASSUME TunnelInv, NEW e \in Ends, EndRelay(e), Troubled => Troubled'
    PROVE  TunnelTypes' /\ TunnelOK'
<1> DEFINE t == relay[e]
           r == Str(e)
           l == log[e][sid]
           k == sock[e]
           src == env.source[e]
           theirs == Str(Peer(e)).ended
           q == [t EXCEPT !.main = "closed"]
           c == CloseSink(k)
<1>1. /\ t \in RelayRecs /\ r \in StreamRecs /\ k \in SockRecs /\ l \in LogRecs /\ StreamOK(r)
      /\ EndOK(e, t, k, r, l, theirs, src, Troubled) /\ MuxTypes /\ sid \in Sids
  BY EndFacts, OneVisit
<1>2. /\ t.main = "ending" /\ r.st # "absent" /\ t.writer = "done" /\ r.over /\ r.recv # "OPEN" /\ r.left = 0
      /\ k.sink \in {"fin", "rst"}
  <2>1. t.main = "ending" /\ r.st # "absent" /\ t.writer = "done"
    BY <1>1 DEF EndRelay, EndOK, TaskOK
  <2>2. r.over /\ k.sink \in {"fin", "rst"}
    BY <1>1, <2>1 DEF EndOK, QueueOK
  <2>3. r.recv # "OPEN"
    BY <1>1, <2>2 DEF StreamOK
  <2>4. ~(r.left > 0)
    BY <1>1, <2>1 DEF EndOK, SendOwned
  <2>5. r.left = 0
    BY <1>1, <2>4 DEF StreamRecs
  <2> QED
    BY <2>1, <2>2, <2>3, <2>5
<1>3. PICK z \in StreamRecs :
         /\ SetStream(e, sid, z) /\ SetLog(e, sid, l) /\ UNCHANGED env /\ z.st = "closed"
         /\ z.ended = r.ended /\ z.left = r.left /\ z.over = r.over /\ z.recv = r.recv
         /\ z.incoming = r.incoming
  <2>1. CASE CloseNow(e, sid)
    <3> DEFINE x == Closed(r, "EOF")
    <3>1. SetStream(e, sid, x)
      BY <2>1, Zenon DEF CloseNow, CloseLocal, SetStream, Str
    <3>2. SetLog(e, sid, l) /\ UNCHANGED env /\ r.st = "live"
      BY <1>1, <2>1, Unassigned DEF CloseNow, Live, Str
    <3>3. Terminated(x, r, "EOF") /\ x.st = "closed"
      BY <1>1, <3>2, TerminatedRecord
    <3> HIDE DEF x
    <3> QED
      BY <1>2, <3>1, <3>2, <3>3 DEF Terminated
  <2>2. CASE r.st # "live" /\ UNCHANGED vars
    <3>1. SetStream(e, sid, r) /\ SetLog(e, sid, l) /\ UNCHANGED env
      BY <1>1, <2>2, Unassigned DEF vars, Str
    <3>2. r.st = "closed"
      BY <1>1, <1>2, <2>2 DEF StreamRecs, Places
    <3> QED
      BY <1>1, <3>1, <3>2
  <2> QED
    BY <2>1, <2>2 DEF EndRelay, Live, Str
<1>4. relay' = [relay EXCEPT ![e] = q] /\ sock' = [sock EXCEPT ![e] = c]
  BY Zenon DEF EndRelay
<1>5. q \in RelayRecs /\ q.main = "closed" /\ q.reader = t.reader /\ q.writer = t.writer
  <2> HIDE DEF t
  <2> QED
    BY <1>1 DEF RelayRecs, Mains
<1>6. c \in SockRecs /\ c.left = k.left /\ c.got = k.got /\ c.sink = k.sink
  BY <1>1, <1>2, CloseSinkIs
<1> HIDE DEF t, r, l, k, src, theirs, q, c
<1>7. QueueOK(q, c, z, l)
  BY <1>1, <1>3, <1>5, <1>6, QueueKept DEF EndOK
<1>8. TaskOK(e, q, z) /\ SendOwned(e, q, z) /\ ReasonOK(q, z, Troubled')
  BY <1>1, <1>2, <1>3, <1>5 DEF EndOK, TaskOK, SendOwned, ReasonOK
<1>9. e = Agent => SourceOK(q, c, z, l, src, Troubled')
  BY <1>1, <1>3, <1>5, <1>6 DEF EndOK, SourceOK
<1>10. e = Server => ResponseOK(q, c, z, theirs, Troubled')
  BY <1>1, <1>3, <1>5, <1>6 DEF EndOK, ResponseOK
<1>11. EndOK(e, q, c, z, l, theirs, src, Troubled')
  BY <1>7, <1>8, <1>9, <1>10 DEF EndOK
<1> QED
  BY <1>1, <1>3, <1>4, <1>5, <1>6, <1>11, OneEnd DEF theirs, src, r

\* A visitor arrives: the server opens the stream, if it can.
LEMMA VisitKeeps ==
    ASSUME TunnelInv, Visit, Troubled => Troubled'
    PROVE  TunnelTypes' /\ TunnelOK'
<1> DEFINE e == Server
           t == relay[e]
           r == Str(e)
           l == log[e][sid]
           k == sock[e]
           src == env.source[e]
           theirs == Str(Peer(e)).ended
           q == [t EXCEPT !.main = "head"]
           up == mux[e].ws = "open"
           z == IF up THEN NewStream ELSE Closed(NewStream, "EOF")
<1>1. /\ t \in RelayRecs /\ r \in StreamRecs /\ k \in SockRecs /\ l \in LogRecs /\ StreamOK(r)
      /\ EndOK(e, t, k, r, l, theirs, src, Troubled) /\ MuxTypes /\ sid \in Sids
      /\ e \in Ends /\ e # Agent /\ t.main = "none"
  BY EndFacts, OneVisit DEF Visit, Ends, Server, Agent
<1>2. r = NoStream /\ t.reader = "off" /\ t.writer = "off"
  BY <1>1 DEF EndOK, TaskOK, StreamOK
<1>3. nextId = sid
  BY <1>1, OneVisit DEF Visit, Open, MuxTypes
<1>4. SetStream(e, sid, z) /\ SetLog(e, sid, l) /\ UNCHANGED env
  <2>1. SetStream(e, sid, z)
    BY <1>3, Zenon DEF Visit, Open, SetStream
  <2> QED
    BY <1>1, <2>1, Unassigned DEF Visit, Open
<1>5. relay' = [relay EXCEPT ![e] = q] /\ sock' = [sock EXCEPT ![e] = k]
  BY <1>1 DEF Visit, TunnelInv, TunnelTypes
<1>6. q \in RelayRecs /\ q.main = "head" /\ q.reader = t.reader /\ q.writer = t.writer
  <2> HIDE DEF t
  <2> QED
    BY <1>1 DEF RelayRecs, Mains
<1> DEFINE n == NewStream
<1>7. /\ n \in StreamRecs /\ n.st = "live" /\ n.recv = "OPEN" /\ n.incoming = <<>> /\ ~n.over /\ n.left = 0
      /\ ~n.ended /\ ~n.resetTask /\ StreamOK(n)
  BY NoStreamFields, NewStreamOK DEF NewStream
<1>8. n.recv = r.recv /\ n.incoming = r.incoming /\ n.over = r.over /\ ~r.ended
  BY <1>2 DEF NoStream, NewStream
<1> HIDE DEF t, r, l, k, src, theirs, q, n
<1>9. QueueOK(q, k, n, l)
  BY <1>1, <1>6, <1>7, <1>8, QueueKept DEF EndOK
<1>10. /\ z \in StreamRecs /\ z.st \in {"live", "closed"} /\ (z.st = "closed" => Troubled') /\ z.left = 0
       /\ ~z.ended /\ z.recv # "RESET" /\ (z.recv = "EOF" => Troubled') /\ QueueOK(q, k, z, l)
  <2>1. CASE up
    <3>1. z = n
      BY <2>1 DEF n
    <3> QED
      BY <1>7, <1>9, <3>1
  <2>2. CASE ~up
    <3> DEFINE x == Closed(n, "EOF")
    <3>1. z = x
      BY <2>2 DEF n
    <3>2. Troubled'
      BY <1>1, <2>2, GivenUp
    <3>3. Terminated(x, n, "EOF") /\ x.st = "closed"
      BY <1>7, TerminatedRecord
    <3> HIDE DEF x, z
    <3>4. Heard(e, x, l, n, l, TRUE, TRUE)
      BY <1>7, <3>3 DEF Heard, Terminated
    <3>5. x \in StreamRecs
      BY <3>3 DEF Terminated
    <3>6. QueueOK(q, k, x, l)
      BY <1>1, <1>7, <1>9, <3>4, <3>5, HeardQueue
    <3> QED
      BY <1>7, <3>1, <3>2, <3>3, <3>6 DEF Terminated
  <2> QED
    BY <2>1, <2>2
<1> HIDE DEF z, e
<1>11. TaskOK(e, q, z) /\ SendOwned(e, q, z) /\ ReasonOK(q, z, Troubled')
  BY <1>2, <1>6, <1>10 DEF TaskOK, SendOwned, ReasonOK
<1>12. ResponseOK(q, k, z, theirs, Troubled')
  BY <1>1, <1>2, <1>6, <1>10 DEF EndOK, ResponseOK, e
<1>13. EndOK(e, q, k, z, l, theirs, src, Troubled')
  BY <1>1, <1>10, <1>11, <1>12 DEF EndOK
<1> QED
  BY <1>1, <1>4, <1>5, <1>6, <1>8, <1>10, <1>13, OneEnd DEF theirs, src, r

\* The agent's run() ends, and its handler with it.
LEMMA AgentRunEndsKeeps ==
    ASSUME TunnelInv, AgentRunEnds, Troubled => Troubled'
    PROVE  TunnelTypes' /\ TunnelOK'
<1> DEFINE e == Agent
           t == relay[e]
           r == Str(e)
           l == log[e][sid]
           k == sock[e]
           src == env.source[e]
           theirs == Str(Peer(e)).ended
           a == IF t.reader \in {"reading", "sending"} THEN "cancelled" ELSE t.reader
           b == IF t.writer \in {"reading", "draining"} THEN "cancelled" ELSE t.writer
           q == [main |-> "closed", reader |-> a, writer |-> b]
           z == Stopped(r)
           cut == [k EXCEPT !.sink = "rst"]
<1>1. /\ t \in RelayRecs /\ r \in StreamRecs /\ k \in SockRecs /\ l \in LogRecs /\ StreamOK(r)
      /\ EndOK(e, t, k, r, l, theirs, src, Troubled) /\ MuxTypes /\ sid \in Sids
      /\ e \in Ends /\ e # Server /\ Troubled \in BOOLEAN /\ Troubled' \in BOOLEAN
  BY EndFacts, OneVisit DEF Ends, Server, Agent, Troubled
<1>2. StopRun(e, mux[e]) /\ UNCHANGED <<env, log>> /\ mux[e].ws # "open"
  BY DEF AgentRunEnds, RunEnds
<1>3. Troubled'
  BY <1>1, <1>2, GivenUp
<1>4. HeardMoves(e, z, l)
  BY <1>1, <1>2, <1>3, StopHeard
<1>5. /\ z \in StreamRecs /\ SetStream(e, sid, z) /\ SetLog(e, sid, l) /\ UNCHANGED env
      /\ Heard(e, z, l, r, l, theirs, Troubled')
  BY <1>4 DEF HeardMoves
<1>6. stream'[e][sid] = z /\ z.st # "live"
  BY <1>1, <1>5, PutStream, StoppedRecord
<1>7. relay' = [relay EXCEPT ![e] = q]
  BY <1>1 DEF AgentRunEnds
<1>8. /\ q \in RelayRecs /\ q.main = "closed" /\ q.reader = a /\ q.writer = b
      /\ (q.writer = "done" <=> t.writer = "done") /\ (q.reader = "done" <=> t.reader = "done")
  BY <1>1 DEF RelayRecs, Readers, Writers, Mains
<1>9. \/ sock' = [sock EXCEPT ![e] = CloseSink(k)]
      \/ t.writer = "reading" /\ z.recv = "RESET" /\ sock' = [sock EXCEPT ![e] = CloseSink(cut)]
  <2>1. PICK rst : /\ sock' = [sock EXCEPT ![Agent] = CloseSink(IF rst THEN [@ EXCEPT !.sink = "rst"] ELSE @)]
                   /\ rst => t.writer = "reading" /\ stream'[Agent][sid].recv = "RESET"
    <3> HIDE DEF cut
    <3> QED
      BY DEF AgentRunEnds
  <2>2. CASE rst
    <3>1. sock' = [sock EXCEPT ![Agent] = CloseSink([@ EXCEPT !.sink = "rst"])]
      BY <2>1, <2>2
    <3> QED
      BY <1>6, <2>1, <2>2, <3>1, Zenon
  <2>3. CASE ~rst
    BY <2>1, <2>3
  <2> QED
    BY <2>2, <2>3
<1>10. PICK c \in SockRecs :
         /\ sock' = [sock EXCEPT ![e] = c] /\ c.left = k.left /\ c.got = k.got
         /\ \/ c.sink = k.sink \/ (k.sink = "open" /\ c.sink = "fin")
            \/ t.writer = "reading" /\ z.recv = "RESET" /\ c.sink = "rst"
  <2>1. cut \in SockRecs /\ cut.left = k.left /\ cut.got = k.got /\ cut.sink = "rst"
    <3> HIDE DEF k
    <3> QED
      BY <1>1 DEF SockRecs
  <2> HIDE DEF cut, k, t, z
  <2>2. CASE sock' = [sock EXCEPT ![e] = CloseSink(k)]
    BY <1>1, <2>2, CloseSinkIs
  <2>3. CASE t.writer = "reading" /\ z.recv = "RESET" /\ sock' = [sock EXCEPT ![e] = CloseSink(cut)]
    BY <2>1, <2>3, CloseSinkIs
  <2> QED
    BY <1>9, <2>2, <2>3
<1> HIDE DEF t, r, l, k, src, theirs, q, z
<1>11. QueueOK(t, k, z, l)
  BY <1>1, <1>5, HeardQueue DEF EndOK
<1>12. /\ TaskOK(e, t, z) /\ SendOwned(e, t, z) /\ SourceOK(t, k, z, l, src, Troubled')
  BY <1>1, <1>5, HeardRest
<1>13. QueueOK(q, c, z, l)
  BY <1>8, <1>10, <1>11 DEF QueueOK
<1>14. TaskOK(e, q, z)
  BY <1>1, <1>6, <1>8, <1>12 DEF TaskOK
<1>15. SendOwned(e, q, z)
  BY <1>1, <1>8, <1>12 DEF SendOwned
<1>16. ReasonOK(q, z, Troubled') /\ SourceOK(q, c, z, l, src, Troubled')
  BY <1>3, <1>8, <1>12 DEF ReasonOK, SourceOK
<1>17. EndOK(e, q, c, z, l, theirs, src, Troubled')
  BY <1>1, <1>13, <1>14, <1>15, <1>16 DEF EndOK
<1>18. r.ended => z.ended
  BY <1>5 DEF Heard
<1> QED
  BY <1>1, <1>5, <1>7, <1>8, <1>10, <1>17, <1>18, OneEnd DEF theirs, src, r

-----------------------------------------------------------------------------
(* The theorems                                                            *)

\* Nothing has happened yet.
LEMMA TunnelStarts == TunnelInit => TunnelInv
<1> SUFFICES ASSUME TunnelInit PROVE TunnelInv
  OBVIOUS
<1>1. IInv /\ env \in Environments
  BY InitHolds DEF TunnelInit, Init
<1>2. \A e \in Ends : Str(e) = NoStream /\ log[e][sid] = [sent |-> 0, fed |-> 0, resets |-> 0]
  BY OneVisit DEF TunnelInit, Init, Str
<1>3. env.source \in [Ends -> Nat]
  BY <1>1, OneVisit
<1>4. \A e \in Ends : /\ relay[e] = [main |-> "none", reader |-> "off", writer |-> "off"]
                      /\ sock[e].left = env.source[e] /\ sock[e].got = 0 /\ sock[e].sink \in {"open", "none"}
  BY DEF TunnelInit
<1>5. TunnelTypes
  BY <1>1, <1>3 DEF TunnelInit, TunnelTypes, RelayRecs, SockRecs, Mains, Readers, Writers
<1>6. /\ NoStream.st = "absent" /\ NoStream.recv = "OPEN" /\ NoStream.incoming = <<>> /\ ~NoStream.over
      /\ NoStream.left = 0 /\ ~NoStream.ended /\ NoStream \in StreamRecs
  BY NoStreamFields DEF NoStream, NewStream
<1>7. QueuedBytes(NoStream) = 0
  BY <1>6, QueueTypes, SumEmpty
<1>8. ASSUME NEW e \in Ends
      PROVE  EndOK(e, relay[e], sock[e], Str(e), log[e][sid], Str(Peer(e)).ended, env.source[e], Troubled)
  <2> DEFINE t == relay[e]
             k == sock[e]
             r == NoStream
             l == [sent |-> 0, fed |-> 0, resets |-> 0]
             src == env.source[e]
  <2>1. /\ t.main = "none" /\ t.reader = "off" /\ t.writer = "off" /\ src \in Nat
        /\ k.left = src /\ k.got = 0 /\ k.sink \in {"open", "none"} /\ l.fed = 0 /\ l.sent = 0
    BY <1>3, <1>4
  <2> HIDE DEF t, k, r, l, src
  <2>2. /\ r.st = "absent" /\ r.recv = "OPEN" /\ r.incoming = <<>> /\ ~r.over /\ r.left = 0 /\ ~r.ended
        /\ QueuedBytes(r) = 0
    BY <1>6, <1>7 DEF r
  <2>3. TaskOK(e, t, r) /\ SendOwned(e, t, r) /\ ReasonOK(t, r, Troubled)
    BY <2>1, <2>2 DEF TaskOK, SendOwned, ReasonOK
  <2>4. QueueOK(t, k, r, l)
    BY <2>1, <2>2 DEF QueueOK
  <2>5. SourceOK(t, k, r, l, src, Troubled)
    BY <2>1, <2>2 DEF SourceOK
  <2>6. ResponseOK(t, k, r, Str(Peer(e)).ended, Troubled)
    BY <2>1, <2>2 DEF ResponseOK
  <2>7. EndOK(e, t, k, r, l, Str(Peer(e)).ended, src, Troubled)
    BY <2>3, <2>4, <2>5, <2>6 DEF EndOK
  <2> QED
    BY <1>2, <2>7 DEF t, k, r, l, src
<1> QED
  BY <1>1, <1>5, <1>8 DEF TunnelInv, TunnelOK

\* Every step keeps it, and is a step of the multiplexer, or leaves it alone.
LEMMA TunnelSteps ==
    ASSUME TunnelInv, [TunnelNext]_tunnelVars
    PROVE  TunnelInv' /\ [Next]_vars
<1>1. [Next]_vars
  BY RelayIsCaller DEF tunnelVars
<1>2. IInv' /\ (Troubled => Troubled')
  BY <1>1, StepHolds, TroubleStays DEF TunnelInv
<1>3. CASE UNCHANGED tunnelVars
  <2>1. /\ UNCHANGED <<relay, sock, env>> /\ \A e \in Ends : Str(e)' = Str(e) /\ log'[e] = log[e]
        /\ (Troubled' <=> Troubled)
    BY <1>3 DEF tunnelVars, vars, Str, Troubled, Untroubled
  <2>2. TunnelTypes' /\ TunnelOK'
    <3>1. TunnelTypes /\ TunnelOK
      BY DEF TunnelInv
    <3>2. UNCHANGED <<stream, mux, log, env, relay, sock>>
      BY <1>3 DEF tunnelVars, vars
    <3> QED
      BY <3>1, <3>2 DEF TunnelTypes, TunnelOK, Str, Troubled, Untroubled
  <2> QED
    BY <1>1, <1>2, <2>2 DEF TunnelInv
<1>4. CASE Visit \/ SendHead \/ Dialed \/ DialFails \/ WriterFirst \/ WriterFirstEof \/ ReaderFirst \/ AgentRunEnds
  <2>1. Server \in Ends /\ Agent \in Ends
    BY DEF Ends
  <2>2. TunnelTypes' /\ TunnelOK'
    BY <1>2, <1>4, <2>1, VisitKeeps, HeadKeeps, DialedKeeps, TaskKeeps, WriterFirstKeeps, WriterFirstEofKeeps,
       AgentRunEndsKeeps
  <2> QED
    BY <1>1, <1>2, <2>2 DEF TunnelInv
<1>5. ASSUME NEW e \in Ends,
             \/ \E n \in env.chunks : PumpIn(e, n)
             \/ Sending(e) \/ Waking(e) \/ Stalling(e) \/ PumpInEof(e) \/ PumpInFails(e)
             \/ PumpOut(e) \/ PumpOutDrained(e) \/ PumpOutFails(e)
             \/ CancelSiblings(e) \/ ResetAndClose(e) \/ BothDone(e) \/ EndRelay(e)
             \/ DemuxStep(e) \/ ConnectionStep(e)
      PROVE  TunnelInv'
  <2>1. TunnelTypes' /\ TunnelOK'
    BY <1>2, <1>5, PumpInKeeps, SendingKeeps, WakingKeeps, PumpInEofKeeps, TaskKeeps, PumpOutKeeps, DrainedKeeps,
       CancelKeeps, ResetAndCloseKeeps, EndRelayKeeps, DemuxStepKeeps, ConnectionStepKeeps
  <2> QED
    BY <1>2, <2>1 DEF TunnelInv
<1> QED
  BY <1>1, <1>3, <1>4, <1>5 DEF TunnelNext

\* The relay's inductive invariant: the tasks, the queue, the send in progress, the reason a
\* stream is gone and the app's byte count agree at both ends, in every reachable state.
THEOREM TunnelInvariantHolds == TunnelSpec => []TunnelInv
<1>1. TunnelInit => TunnelInv
  BY TunnelStarts
<1>2. TunnelInv /\ [TunnelNext]_tunnelVars => TunnelInv'
  BY TunnelSteps
<1> QED
  BY <1>1, <1>2, PTL DEF TunnelSpec

\* The pumps of _relay.py and the tasks that own them keep the contract of the multiplexer: they
\* never send or half-close twice at once, and close() a stream only once both directions are over,
\* so that whatever is proved of Mux holds under them.
THEOREM RelayImplementsMux == TunnelSpec => Spec
<1>1. TunnelInit => Init
  BY DEF TunnelInit
<1>2. TunnelInv /\ [TunnelNext]_tunnelVars => [Next]_vars
  BY TunnelSteps
<1> QED
  BY <1>1, <1>2, TunnelInvariantHolds, PTL DEF TunnelSpec, Spec

\* What a finished writer has passed on.
LEMMA FinishedWriter ==
    ASSUME TunnelInv, NEW e \in Ends, relay[e].writer = "done", sock[e].sink = "fin"
    PROVE  sock[e].got = log[Peer(e)][sid].sent /\ Str(e).recv = "EOF"
<1> DEFINE t == relay[e]
           r == Str(e)
           l == log[e][sid]
           k == sock[e]
           v == View(Peer(e), sid)
           q == View(e, sid)
<1>1. /\ r \in StreamRecs /\ k \in SockRecs /\ l \in LogRecs /\ StreamOK(r) /\ QueueOK(t, k, r, l)
      /\ IInv /\ Compliant /\ sid \in Sids /\ Peer(e) \in Ends
  BY EndFacts, OneVisit DEF EndOK
<1>2. r.over /\ r.incoming = <<>> /\ r.recv # "RESET"
  BY <1>1 DEF QueueOK
<1>3. r.recv = "EOF"
  BY <1>1, <1>2 DEF StreamOK, StreamRecs, Terminals
<1>4. QueuedBytes(r) = 0
  BY <1>1, <1>2, QueueTypes, SumEmpty
<1>5. k.got = l.fed
  BY <1>1, <1>4 DEF QueueOK, SockRecs, LogRecs
<1>6. Agree(e, q, v, sid, nextId)
  BY <1>1, AgreeNow
<1>7. v.sent = log[Peer(e)][sid].sent /\ q.fed = l.fed /\ q.recv = r.recv /\ v.sent \in Nat /\ q.fed \in Nat
  <2>1. v.sent = log[Peer(e)][sid].sent /\ q.fed = l.fed /\ q.recv = r.recv
    BY DEF View, ViewOf, Str
  <2>2. log[Peer(e)][sid] \in LogRecs
    BY <1>1, StreamFacts
  <2> QED
    BY <1>1, <2>1, <2>2 DEF LogRecs
<1>8. v.sent = q.fed
  BY <1>3, <1>6, <1>7 DEF Agree, LaneOK, SentOK
<1> QED
  BY <1>3, <1>5, <1>7, <1>8

\* _pump_stream_to_writer, for every environment: a FIN follows every byte the other end framed,
\* and an RST only a lane that was aborted.
THEOREM PumpedEndsAreHonest == TunnelSpec => []PumpedEndIsHonest
<1>1. TunnelInv => PumpedEndIsHonest
  <2> SUFFICES ASSUME TunnelInv, NEW e \in Ends
               PROVE  /\ (relay[e].writer = "done" /\ sock[e].sink = "fin") =>
                             sock[e].got = log[Peer(e)][sid].sent
                      /\ sock[e].sink = "rst" => Str(e).recv = "RESET"
    BY DEF PumpedEndIsHonest
  <2>1. sock[e].sink = "rst" => Str(e).recv = "RESET"
    BY EndFacts DEF EndOK, QueueOK
  <2> QED
    BY <2>1, FinishedWriter
<1> QED
  BY <1>1, TunnelInvariantHolds, PTL

\* PROTOCOL.md 6.2, for every environment: as long as nobody gave the visit up, the visitor is told
\* FIN only after the whole response of the local app.
THEOREM ResponsesAreComplete == TunnelSpec => []ResponseFinIsComplete
<1>1. TunnelInv => ResponseFinIsComplete
  <2> SUFFICES ASSUME TunnelInv, Untroubled, sock[Server].sink = "fin"
               PROVE  sock[Server].got = env.source[Agent]
    BY DEF ResponseFinIsComplete
  <2> DEFINE t == relay[Agent]
             k == sock[Agent]
             r == Str(Agent)
             l == log[Agent][sid]
             src == env.source[Agent]
  <2>1. Server \in Ends /\ Agent \in Ends /\ Peer(Server) = Agent /\ Agent # Server /\ ~Troubled
    BY DEF Ends, Peer, Server, Agent, Troubled
  <2>2. ResponseOK(relay[Server], sock[Server], Str(Server), r.ended, Troubled)
    BY <2>1, EndFacts DEF EndOK
  <2>3. relay[Server].writer = "done"
    BY <2>1, <2>2 DEF ResponseOK
  <2>4. sock[Server].got = l.sent /\ Str(Server).recv = "EOF"
    BY <2>1, <2>3, FinishedWriter
  <2>5. r.ended
    BY <2>1, <2>2, <2>4 DEF ResponseOK
  <2>6. r \in StreamRecs /\ l \in LogRecs /\ SourceOK(t, k, r, l, src, Troubled) /\ SendOwned(Agent, t, r)
    BY <2>1, EndFacts DEF EndOK
  <2> HIDE DEF t, k, r, l, src
  <2>7. t.reader = "done" /\ k.left = 0 /\ l.sent + r.left + k.left = src
    BY <2>1, <2>5, <2>6 DEF SourceOK
  <2>8. r.left = 0
    <3>1. ~(r.left > 0)
      BY <2>1, <2>6, <2>7 DEF SendOwned
    <3> QED
      BY <2>6, <3>1 DEF StreamRecs
  <2>9. l.sent = src
    BY <2>6, <2>7, <2>8 DEF LogRecs
  <2> QED
    BY <2>4, <2>9 DEF l, src
<1> QED
  BY <1>1, TunnelInvariantHolds, PTL

=============================================================================
