-------------------------------- MODULE Mux --------------------------------
(***************************************************************************)
(* The stream multiplexer of src/chute/mux.py: the two Mux objects of one  *)
(* control connection, the Stream objects they hold, and the frames under  *)
(* way between them.  The server opens streams, the agent accepts them.    *)
(*                                                                         *)
(* Each end is one asyncio event loop, so a stretch of code without an     *)
(* await is one action, and the actions of the two ends and of the tasks   *)
(* of one end interleave.  A frame is on the wire from the moment its      *)
(* _send is called: websockets keeps the order of send() calls.            *)
(*                                                                         *)
(* The callers are the most general ones that keep the contract of the     *)
(* relay pumps (one sender and one consumer per stream; close() once both  *)
(* directions are over, reset() at any time); module Tunnel has the real   *)
(* ones.                                                                   *)
(***************************************************************************)
EXTENDS Integers, Sequences, FiniteSets, FiniteSetsExt, Summation

CONSTANTS
    W,               \* flow_window negotiated for this connection
    MaxFrame,        \* _MAX_FRAME_PAYLOAD
    MaxSid,          \* 0xFFFFFFFF, the last usable stream id
    MaxConnBuffered, \* _MAX_CONN_BUFFERED
    MaxConnFrames,   \* _MAX_CONN_FRAMES
    MaxSendWindow,   \* _MAX_SEND_WINDOW
    MaxIgnored,      \* _MAX_IGNORED_FRAMES
    Junk,            \* <<end, frame>>: frames no compliant end would send
    Environments     \* the surroundings to explore, see env

Server == "server"
Agent == "agent"
Ends == {Server, Agent}
Peer(e) == IF e = Server THEN Agent ELSE Server
Sids == 1 .. MaxSid
FrameTypes == {"OPEN", "DATA", "EOF", "RESET", "GOAWAY", "WINDOW_UPDATE", "OTHER"}
Frames == [type : FrameTypes, sid : 0 .. MaxSid, n : Nat, ok : BOOLEAN]

\* The window is at most _MAX_FLOW_WINDOW, far below _MAX_SEND_WINDOW; what a frame says
\* fits its fields.
ASSUME MuxAssumption ==
    /\ {W, MaxFrame, MaxSid, MaxIgnored, MaxSendWindow} \subseteq Nat \ {0}
    /\ W <= MaxSendWindow
    /\ Junk \subseteq Ends \X Frames
    /\ {MaxConnBuffered, MaxConnFrames} \subseteq Nat
    /\ \A v \in Environments :
          /\ {"maxStreams", "account", "chunks", "injected"} \subseteq DOMAIN v
          /\ {v.streams, v.maxStreams, v.account, v.bytes, v.junk} \subseteq Nat
          /\ v.injected = FALSE /\ v.chunks \subseteq Nat \ {0}
          /\ v.talkers \subseteq Ends /\ v.drainers \subseteq Ends
          /\ v.faults \subseteq {"reset", "stall", "cancel", "loss", "deadline"}

VARIABLES
    stream, \* [end -> [sid -> the Stream object]]
    mux,    \* [end -> the Mux object's own fields]
    wire,   \* [end -> frames it sent, not yet taken by the peer's run()]
    nextId, \* Mux._next_id of the server
    env,    \* what surrounds this connection, fixed but for the injected junk:
            \*   maxStreams, account: max_streams, and max_buffered_bytes of the account
            \*   talkers, chunks: which ends' callers send data, and in which sizes
            \*   drainers, faults: who drains, and what may happen to the connection
            \*   streams, bytes, junk: bounds on streams opened, on the bytes a caller
            \*   sends on one and on the frames of Junk still to inject
            \*   injected: one was
    log     \* history: [end -> [sid -> bytes framed, bytes queued, RESETs sent]]

vars == <<stream, mux, wire, nextId, env, log>>

None == 0       \* the sentinel in Stream._incoming; chunks are never empty

Frame(type, sid, n) == [type |-> type, sid |-> sid, n |-> n, ok |-> TRUE]

Threshold == IF W \div 2 > 1 THEN W \div 2 ELSE 1
StreamHardMax == 2 * W

MaxQueuedFrames == W

\* Stream.__init__, and the record that stands for an id no Stream has had yet.
NewStream ==
    [st |-> "live", recv |-> "OPEN", incoming |-> <<>>, buffered |-> 0, frames |-> 0,
     unacked |-> 0, window |-> W, ended |-> FALSE, left |-> 0, parked |-> FALSE,
     waiter |-> FALSE, held |-> 0, over |-> FALSE, resetTask |-> FALSE]
NoStream == [NewStream EXCEPT !.st = "absent", !.window = 0]

NewMux ==
    [buffered |-> 0, frames |-> 0, account |-> 0, goingAway |-> FALSE,
     peerGoingAway |-> FALSE, ignored |-> 0, resetSends |-> {}, ws |-> "open",
     running |-> TRUE, drain |-> "no", breach |-> {}]

Init ==
    /\ stream = [e \in Ends |-> [s \in Sids |-> NoStream]]
    /\ mux = [e \in Ends |-> NewMux]
    /\ wire = [e \in Ends |-> <<>>]
    /\ nextId = 1
    /\ env \in Environments
    /\ log = [e \in Ends |-> [s \in Sids |-> [sent |-> 0, fed |-> 0, resets |-> 0]]]

-----------------------------------------------------------------------------
(* State helpers                                                           *)

Live(e, s) == stream[e][s].st = "live"
LiveStreams(e) == {s \in Sids : Live(e, s)}     \* Mux._streams

\* Mux._send: a closed websocket raises and nothing is sent.
Sent(e, f) == IF mux[e].ws = "open" THEN [wire EXCEPT ![e] = Append(@, f)] ELSE wire

\* Mutant of EndRecv: a later terminal rewrites an earlier one.
EndRecvAlways(r, terminal) == [r EXCEPT !.recv = terminal, !.incoming = Append(@, None)]

\* Stream._end_recv: OPEN moves once, delivering the consumer's sentinel.
EndRecv(r, terminal) ==
    IF r.recv # "OPEN" THEN r
    ELSE [r EXCEPT !.recv = terminal, !.incoming = Append(@, None)]

\* Mutant of Closed: the teardown does not wake a sender parked on its credit.
ClosedNoWake(r, terminal) ==
    IF r.st # "live" THEN r
    ELSE EndRecv([r EXCEPT !.st = "closed", !.buffered = 0, !.frames = 0], terminal)

\* Stream._close_local: idempotent teardown of one Stream object ...
Closed(r, terminal) ==
    IF r.st # "live" THEN r
    ELSE EndRecv([r EXCEPT !.st = "closed", !.waiter = TRUE, !.buffered = 0, !.frames = 0],
                 terminal)

\* Mux._release_buffer: only the server's Mux charges an account.
Released(e, account, n) ==
    IF e = Agent \/ account <= n THEN 0 ELSE account - n

\* Mutant of Reconciled: the account's reservation is left behind.
ReconciledNoRelease(e, m, r) ==
    [m EXCEPT !.buffered = @ - r.buffered, !.frames = @ - r.frames]

\* ... and the reconciliation of the connection counters that goes with it.
Reconciled(e, m, r) ==
    [m EXCEPT !.buffered = @ - r.buffered,
              !.frames = @ - r.frames,
              !.account = Released(e, @, r.buffered)]

CloseLocal(e, s, terminal) ==
    /\ stream' = [stream EXCEPT ![e][s] = Closed(@, terminal)]
    /\ mux' = [mux EXCEPT ![e] = Reconciled(e, @, stream[e][s])]

\* Mux.run, the finally block: abort every stream, cancel every spawned task;
\* frames not yet taken are lost.
StopRun(e, m) ==
    LET bytes == SumSeq([s \in Sids |-> IF Live(e, s) THEN stream[e][s].buffered ELSE 0])
        count == SumSeq([s \in Sids |-> IF Live(e, s) THEN stream[e][s].frames ELSE 0])
    IN /\ stream' = [stream EXCEPT ![e] =
             [s \in Sids |-> [Closed(stream[e][s], "RESET") EXCEPT !.resetTask = FALSE]]]
       /\ mux' = [mux EXCEPT ![e] =
             [m EXCEPT !.buffered = @ - bytes, !.frames = @ - count,
                       !.account = Released(e, @, bytes),
                       !.running = FALSE, !.resetSends = {}]]
       /\ wire' = [wire EXCEPT ![Peer(e)] = <<>>]

-----------------------------------------------------------------------------
(* Stream: the send direction                                              *)

\* Mux.open, on the server.  A refusal (draining, registry full, ids exhausted)
\* changes nothing; a failed OPEN send closes the stream again.
Open ==
    /\ ~mux[Server].goingAway /\ ~mux[Server].peerGoingAway
    /\ Cardinality(LiveStreams(Server)) < env.maxStreams
    /\ nextId <= MaxSid /\ nextId <= env.streams
    /\ nextId' = nextId + 1
    /\ wire' = Sent(Server, Frame("OPEN", nextId, 0))
    /\ stream' = [stream EXCEPT ![Server][nextId] =
                    IF mux[Server].ws = "open" THEN NewStream ELSE Closed(NewStream, "EOF")]
    /\ UNCHANGED <<mux, env, log>>

\* Stream.send is called with n bytes and gets the send lock.
StartSend(e, s, n) ==
    /\ e \in env.talkers
    /\ Live(e, s) /\ ~stream[e][s].ended /\ stream[e][s].left = 0
    /\ log[e][s].sent + n <= env.bytes
    /\ stream' = [stream EXCEPT ![e][s].left = n]
    /\ UNCHANGED <<mux, wire, nextId, env, log>>

\* Mutant of SendOver: only the end of our own half is looked at.
SendOverNoClosed(r) == r.ended

\* The checks Stream.send makes before each frame and after each wait.
SendOver(r) == r.st = "closed" \/ r.ended

\* Stream.send, one turn of its loop: bail out if the stream was torn down, park
\* on an empty window, else send one frame within the credit.
SendStep(e, s) ==
    LET r == stream[e][s]
        n == Min({r.left, r.window, MaxFrame})
        up == mux[e].ws = "open"
    IN /\ r.left > 0 /\ ~r.parked
       /\ \/ /\ SendOver(r)
             /\ stream' = [stream EXCEPT ![e][s].left = 0]
             /\ UNCHANGED <<wire, log>>
          \/ /\ ~SendOver(r) /\ r.window <= 0
             /\ stream' = [stream EXCEPT ![e][s].parked = TRUE, ![e][s].waiter = FALSE]
             /\ UNCHANGED <<wire, log>>
          \/ /\ ~SendOver(r) /\ r.window > 0
             /\ stream' = [stream EXCEPT ![e][s].window = @ - n,
                                         ![e][s].left = IF up THEN @ - n ELSE 0]
             /\ wire' = Sent(e, Frame("DATA", s, n))
             /\ log' = [log EXCEPT ![e][s].sent = IF up THEN @ + n ELSE @]
       /\ UNCHANGED <<mux, nextId, env>>

\* The parked sender's _window_waiter was set (by a grant or by the teardown).
WakeSender(e, s) ==
    /\ stream[e][s].parked /\ stream[e][s].waiter
    /\ stream' = [stream EXCEPT ![e][s].parked = FALSE]
    /\ UNCHANGED <<mux, wire, nextId, env, log>>

\* No grant for _CREDIT_STALL_TIMEOUT: send raises, its caller resets the stream.
CreditStall(e, s) ==
    /\ "stall" \in env.faults
    /\ stream[e][s].parked /\ ~stream[e][s].waiter
    /\ stream' = [stream EXCEPT ![e][s].left = 0, ![e][s].parked = FALSE]
    /\ UNCHANGED <<mux, wire, nextId, env, log>>

\* The task that runs send() is cancelled between two frames.
CancelSend(e, s) ==
    /\ "cancel" \in env.faults
    /\ stream[e][s].left > 0
    /\ stream' = [stream EXCEPT ![e][s].left = 0, ![e][s].parked = FALSE]
    /\ UNCHANGED <<mux, wire, nextId, env, log>>

\* Stream.send_eof, under the send lock.
SendEof(e, s) ==
    /\ Live(e, s) /\ ~stream[e][s].ended /\ stream[e][s].left = 0
    /\ stream' = [stream EXCEPT ![e][s].ended = TRUE]
    /\ wire' = Sent(e, Frame("EOF", s, 0))
    /\ UNCHANGED <<mux, nextId, env, log>>

-----------------------------------------------------------------------------
(* Stream: the receive direction                                           *)

\* The test in Stream.read that leaves an abandoned chunk to _close_local.
Counted(r, chunk) == chunk # None /\ r.st = "live"

\* Stream.read: the counters move only while the stream is live.
Read(e, s) ==
    LET r == stream[e][s]
        chunk == Head(r.incoming)
        taken == [r EXCEPT !.incoming = Tail(@), !.held = chunk, !.over = chunk = None]
        counted == Counted(r, chunk)
    IN /\ r.incoming # <<>> /\ r.held = 0
       /\ stream' = [stream EXCEPT ![e][s] =
                IF counted THEN [taken EXCEPT !.buffered = @ - chunk, !.frames = @ - 1]
                ELSE taken]
       /\ mux' = IF counted
                 THEN [mux EXCEPT ![e].buffered = @ - chunk, ![e].frames = @ - 1,
                                  ![e].account = Released(e, @, chunk)]
                 ELSE mux
       /\ UNCHANGED <<wire, nextId, env, log>>

\* Stream.ack does nothing once the lane is gone.
AckDead(r) == r.st = "closed" \/ r.recv = "RESET"

\* Mutant of Acked: the bytes are granted and stay on the books.
AckedTwice(r) ==
    IF AckDead(r) THEN [r EXCEPT !.held = 0]
    ELSE [r EXCEPT !.held = 0, !.unacked = r.unacked + r.held]

\* Stream.ack: the consumer's bytes join the batch, which is reset when granted.
Acked(r) ==
    IF AckDead(r) THEN [r EXCEPT !.held = 0]
    ELSE [r EXCEPT !.held = 0,
                   !.unacked = IF @ + r.held >= Threshold THEN 0 ELSE @ + r.held]

\* Stream.ack, called after the chunk was drained downstream.
Ack(e, s) ==
    LET r == stream[e][s]
        due == r.unacked + r.held
    IN /\ r.held > 0
       /\ stream' = [stream EXCEPT ![e][s] = Acked(r)]
       /\ wire' = IF ~AckDead(r) /\ due >= Threshold
                  THEN Sent(e, Frame("WINDOW_UPDATE", s, due)) ELSE wire
       /\ UNCHANGED <<mux, nextId, env, log>>

-----------------------------------------------------------------------------
(* Teardown                                                                *)

\* Stream.reset: tear down locally, then tell the peer, once.
ResetNow(e, s) ==
    /\ Live(e, s)
    /\ CloseLocal(e, s, "RESET")
    /\ wire' = Sent(e, Frame("RESET", s, 0))
    /\ log' = [log EXCEPT ![e][s].resets = IF mux[e].ws = "open" THEN @ + 1 ELSE @]
    /\ UNCHANGED <<nextId, env>>

\* A caller aborts the stream (failed dial, failed pump, idle timeout).
Reset(e, s) == "reset" \in env.faults /\ ResetNow(e, s)

\* The reset() task _feed spawned after a breach.  If the stream has been closed
\* meanwhile it finds nothing to do.
ResetTask(e, s) ==
    /\ stream[e][s].resetTask
    /\ LET r == stream[e][s]
       IN /\ stream' = [stream EXCEPT ![e][s] = [Closed(r, "RESET") EXCEPT !.resetTask = FALSE]]
          /\ mux' = [mux EXCEPT ![e] = Reconciled(e, @, r)]
          /\ wire' = IF r.st = "live" THEN Sent(e, Frame("RESET", s, 0)) ELSE wire
          /\ log' = [log EXCEPT ![e][s].resets =
                       IF r.st = "live" /\ mux[e].ws = "open" THEN @ + 1 ELSE @]
    /\ UNCHANGED <<nextId, env>>

\* Stream.close.
CloseNow(e, s) ==
    /\ Live(e, s)
    /\ CloseLocal(e, s, "EOF")
    /\ UNCHANGED <<wire, nextId, env, log>>

\* The relay's contract: it calls close() once both directions are over.
Close(e, s) ==
    /\ stream[e][s].ended /\ stream[e][s].over /\ stream[e][s].left = 0
    /\ CloseNow(e, s)

\* Mux._send_reset, the spawned task: one RESET for a refused id.
SendOnce(e, s) ==
    /\ s \in mux[e].resetSends
    /\ mux' = [mux EXCEPT ![e].resetSends = @ \ {s}]
    /\ wire' = Sent(e, Frame("RESET", s, 0))
    /\ log' = [log EXCEPT ![e][s].resets = IF mux[e].ws = "open" THEN @ + 1 ELSE @]
    /\ UNCHANGED <<stream, nextId, env>>

\* The frame reaches _send_reset: at most one task per id, at most max_streams.
WithSendReset(m, s) ==
    IF s = 0 \/ s \in m.resetSends \/ Cardinality(m.resetSends) >= env.maxStreams THEN m
    ELSE [m EXCEPT !.resetSends = @ \cup {s}]

-----------------------------------------------------------------------------
(* Mux.run: one frame is taken off the websocket and dispatched            *)

Arrives(e, type) ==
    /\ mux[e].running
    /\ wire[Peer(e)] # <<>>
    /\ Head(wire[Peer(e)]).type = type

Arrived(e) == Head(wire[Peer(e)])
Taken(e) == [wire EXCEPT ![Peer(e)] = Tail(@)]
Known(e, s) == s \in Sids /\ Live(e, s)

\* Mux._ignore_frame: count a frame that can not be acted on; at the limit
\* abort the transport and leave the loop.
IgnoreFrame(e) ==
    LET m == [mux[e] EXCEPT !.ignored = @ + 1]
    IN IF m.ignored < MaxIgnored
       THEN mux' = [mux EXCEPT ![e] = m] /\ wire' = Taken(e) /\ UNCHANGED stream
       ELSE StopRun(e, [m EXCEPT !.ws = "lost"])

\* A malformed frame of a live stream: reset locally, RESET sent by a task.
RefuseStream(e, s) ==
    /\ stream' = [stream EXCEPT ![e][s] = Closed(@, "RESET")]
    /\ mux' = [mux EXCEPT ![e] = WithSendReset(Reconciled(e, @, stream[e][s]), s)]
    /\ wire' = Taken(e)

\* An OPEN that is answered by a RESET.
RefuseOpen(e, s) ==
    /\ mux' = [mux EXCEPT ![e] = WithSendReset(@, s)]
    /\ wire' = Taken(e)
    /\ UNCHANGED stream

RecvOpen(e) ==
    LET f == Arrived(e)
        s == f.sid
        full == Cardinality(LiveStreams(e)) >= env.maxStreams
    IN /\ Arrives(e, "OPEN")
       /\ \/ (s = 0 \/ e = Server) /\ IgnoreFrame(e)
          \/ s # 0 /\ e = Agent /\ ~f.ok /\ RefuseOpen(e, s)
          \/ /\ s # 0 /\ e = Agent /\ f.ok
             /\ mux[e].goingAway \/ mux[e].peerGoingAway \/ Known(e, s) \/ full
             /\ RefuseOpen(e, s)
          \/ /\ s # 0 /\ e = Agent /\ f.ok
             /\ ~mux[e].goingAway /\ ~mux[e].peerGoingAway /\ ~Known(e, s) /\ ~full
             /\ stream' = [stream EXCEPT ![e][s] = NewStream]
             /\ wire' = Taken(e)
             /\ UNCHANGED mux
       /\ UNCHANGED <<nextId, env, log>>

\* Mutant of Breach: the bytes queued on the whole connection are not tested.
BreachNoConnBytes(e, s, n) ==
    LET r == stream[e][s]
        m == mux[e]
    IN CASE r.buffered + n > StreamHardMax -> "stream_bytes"
         [] r.frames + 1 > MaxQueuedFrames -> "stream_frames"
         [] m.frames + 1 > MaxConnFrames -> "connection_frames"
         [] e = Server /\ m.account + n > env.account -> "account_buffer"
         [] OTHER -> "none"

\* The limit a frame of n bytes would breach, in the order _feed tests them.
Breach(e, s, n) ==
    LET r == stream[e][s]
        m == mux[e]
    IN CASE r.buffered + n > StreamHardMax -> "stream_bytes"
         [] r.frames + 1 > MaxQueuedFrames -> "stream_frames"
         [] m.buffered + n > MaxConnBuffered -> "connection_bytes"
         [] m.frames + 1 > MaxConnFrames -> "connection_frames"
         [] e = Server /\ m.account + n > env.account -> "account_buffer"
         [] OTHER -> "none"

\* Stream._feed: queue the payload, or end the receive direction and spawn reset().
Feed(e, s, n) ==
    LET limit == Breach(e, s, n)
    IN IF limit = "none"
       THEN /\ stream' = [stream EXCEPT ![e][s].incoming = Append(@, n),
                                        ![e][s].buffered = @ + n, ![e][s].frames = @ + 1]
            /\ mux' = [mux EXCEPT ![e].buffered = @ + n, ![e].frames = @ + 1,
                                  ![e].account = IF e = Server THEN @ + n ELSE @]
            /\ log' = [log EXCEPT ![e][s].fed = @ + n]
       ELSE /\ stream' = [stream EXCEPT ![e][s] =
                             [EndRecv(@, "RESET") EXCEPT !.resetTask = TRUE]]
            /\ mux' = [mux EXCEPT ![e].breach = @ \cup {limit}]
            /\ UNCHANGED log

RecvData(e) ==
    LET f == Arrived(e)
    IN /\ Arrives(e, "DATA")
       /\ \/ ~Known(e, f.sid) /\ IgnoreFrame(e) /\ UNCHANGED log
          \/ /\ Known(e, f.sid)
             /\ stream[e][f.sid].recv # "OPEN" \/ f.n = 0
             /\ wire' = Taken(e)
             /\ UNCHANGED <<stream, mux, log>>
          \/ /\ Known(e, f.sid)
             /\ stream[e][f.sid].recv = "OPEN" /\ f.n > 0
             /\ Feed(e, f.sid, f.n)
             /\ wire' = Taken(e)
       /\ UNCHANGED <<nextId, env>>

RecvEof(e) ==
    LET f == Arrived(e)
    IN /\ Arrives(e, "EOF")
       /\ \/ ~Known(e, f.sid) /\ IgnoreFrame(e)
          \/ Known(e, f.sid) /\ ~f.ok /\ RefuseStream(e, f.sid)
          \/ /\ Known(e, f.sid) /\ f.ok
             /\ stream' = [stream EXCEPT ![e][f.sid] = EndRecv(@, "EOF")]
             /\ wire' = Taken(e)
             /\ UNCHANGED mux
       /\ UNCHANGED <<nextId, env, log>>

\* Stream._grant.
Granted(r, d) == [r EXCEPT !.window = Min({@ + d, MaxSendWindow}), !.waiter = TRUE]

\* A zero grant is ignored and wakes nobody.
RecvWindowUpdate(e) ==
    LET f == Arrived(e)
    IN /\ Arrives(e, "WINDOW_UPDATE")
       /\ \/ ~Known(e, f.sid) /\ IgnoreFrame(e)
          \/ Known(e, f.sid) /\ ~f.ok /\ RefuseStream(e, f.sid)
          \/ Known(e, f.sid) /\ f.ok /\ f.n = 0 /\ IgnoreFrame(e)
          \/ /\ Known(e, f.sid) /\ f.ok /\ f.n > 0
             /\ stream' = [stream EXCEPT ![e][f.sid] = Granted(@, f.n)]
             /\ wire' = Taken(e)
             /\ UNCHANGED mux
       /\ UNCHANGED <<nextId, env, log>>

\* Mutant of RecvReset: the peer's abort reads as a clean end.
RecvResetAsEof(e) ==
    LET f == Arrived(e)
    IN /\ Arrives(e, "RESET")
       /\ \/ ~Known(e, f.sid) /\ IgnoreFrame(e)
          \/ /\ Known(e, f.sid)
             /\ CloseLocal(e, f.sid, "EOF")
             /\ wire' = Taken(e)
       /\ UNCHANGED <<nextId, env, log>>

\* Stream._abort.
RecvReset(e) ==
    LET f == Arrived(e)
    IN /\ Arrives(e, "RESET")
       /\ \/ ~Known(e, f.sid) /\ IgnoreFrame(e)
          \/ /\ Known(e, f.sid)
             /\ CloseLocal(e, f.sid, "RESET")
             /\ wire' = Taken(e)
       /\ UNCHANGED <<nextId, env, log>>

RecvGoaway(e) ==
    LET f == Arrived(e)
        bad == f.sid # 0 \/ ~f.ok \/ mux[e].peerGoingAway
    IN /\ Arrives(e, "GOAWAY")
       /\ \/ bad /\ IgnoreFrame(e)
          \/ /\ ~bad
             /\ mux' = [mux EXCEPT ![e].peerGoingAway = TRUE]
             /\ wire' = Taken(e)
             /\ UNCHANGED stream
       /\ UNCHANGED <<nextId, env, log>>

\* A text message, a frame too short to decode, or an unknown type.
RecvOther(e) ==
    /\ Arrives(e, "OTHER")
    /\ IgnoreFrame(e)
    /\ UNCHANGED <<nextId, env, log>>

-----------------------------------------------------------------------------
(* The connection                                                          *)

\* Mux.goaway, the first half of drain().
GoAway(e) ==
    /\ e \in env.drainers
    /\ mux[e].drain = "no"
    /\ mux' = [mux EXCEPT ![e].goingAway = TRUE, ![e].drain = "waiting"]
    /\ wire' = Sent(e, Frame("GOAWAY", 0, 0))
    /\ UNCHANGED <<stream, nextId, env, log>>

\* Mux.drain, the second half: the streams are gone, or the grace is over.
DrainClose(e) ==
    /\ mux[e].drain = "waiting"
    /\ LiveStreams(e) = {} \/ "deadline" \in env.faults
    /\ mux' = [mux EXCEPT ![e].drain = "done",
                          ![e].ws = IF @ = "open" THEN "closing" ELSE @]
    /\ UNCHANGED <<stream, wire, nextId, env, log>>

\* The transport dies at this end: network failure, keepalive timeout, the
\* write-stall abort of _send, the close-stall abort of drain().
Lose(e) ==
    /\ "loss" \in env.faults
    /\ mux[e].ws \in {"open", "closing"}
    /\ mux' = [mux EXCEPT ![e].ws = "lost"]
    /\ UNCHANGED <<stream, wire, nextId, env, log>>

\* This end learns that the other one closed, or lost, the connection.
Notice(e) ==
    /\ mux[e].ws = "open" /\ mux[Peer(e)].ws # "open"
    /\ mux' = [mux EXCEPT ![e].ws = mux[Peer(e)].ws]
    /\ UNCHANGED <<stream, wire, nextId, env, log>>

\* The async-for of run() ends.  A close handshake delivers what was sent before
\* it; a lost connection delivers any part of it.
RunEnds(e) ==
    /\ mux[e].running
    /\ \/ mux[e].ws = "lost"
       \/ mux[e].ws = "closing" /\ mux[Peer(e)].ws # "open" /\ wire[Peer(e)] = <<>>
    /\ StopRun(e, mux[e])
    /\ UNCHANGED <<nextId, env, log>>

\* External: a frame that the peer's code would not send.
Inject(e, f) ==
    /\ env.junk > 0
    /\ env' = [env EXCEPT !.junk = @ - 1, !.injected = TRUE]
    /\ wire' = Sent(e, f)
    /\ UNCHANGED <<stream, mux, nextId, log>>

-----------------------------------------------------------------------------
StreamTask(e, s) ==
    \/ \E n \in env.chunks : StartSend(e, s, n)
    \/ SendStep(e, s) \/ WakeSender(e, s) \/ CreditStall(e, s) \/ CancelSend(e, s)
    \/ SendEof(e, s)
    \/ Read(e, s) \/ Ack(e, s)
    \/ Reset(e, s) \/ ResetTask(e, s) \/ Close(e, s) \/ SendOnce(e, s)

Demux(e) ==
    \/ RecvOpen(e) \/ RecvData(e) \/ RecvEof(e) \/ RecvWindowUpdate(e)
    \/ RecvReset(e) \/ RecvGoaway(e) \/ RecvOther(e)

Connection(e) == GoAway(e) \/ DrainClose(e) \/ Lose(e) \/ Notice(e) \/ RunEnds(e)

Next ==
    \/ Open
    \/ \E e \in Ends : Demux(e) \/ Connection(e)
    \/ \E e \in Ends, s \in Sids : StreamTask(e, s)
    \/ \E j \in Junk : Inject(j[1], j[2])

Spec == Init /\ [][Next]_vars

-----------------------------------------------------------------------------
(* Properties                                                              *)

\* Both ends are chute: nothing foreign was put on the wire.
Compliant == ~env.injected

QueuedBytes(r) == SumSeq(r.incoming)
QueuedFrames(r) == SumSeq([i \in DOMAIN r.incoming |-> IF r.incoming[i] = None THEN 0 ELSE 1])

-----------------------------------------------------------------------------
(* Every direction of every stream is a CreditLane, from the moment its    *)
(* sender exists until either end tears it down or the connection goes.    *)

\* The frames of stream s and type t among the frames w under way: whether there is one,
\* how many, and what they carry.
Has(w, s, t) == \E i \in DOMAIN w : w[i].sid = s /\ w[i].type = t
Count(w, s, t) == SumSeq([i \in DOMAIN w |-> IF w[i].sid = s /\ w[i].type = t THEN 1 ELSE 0])
Bytes(w, s, t) == SumSeq([i \in DOMAIN w |-> IF w[i].sid = s /\ w[i].type = t THEN w[i].n ELSE 0])

LaneLive(e, s) ==
    /\ mux[e].ws = "open" /\ mux[Peer(e)].ws = "open"
    /\ Live(e, s)
    /\ Live(Peer(e), s) \/ Has(wire[e], s, "OPEN")
    /\ stream[Peer(e)][s].recv # "RESET"

LanePhase(e, s) ==
    IF stream[e][s].st = "absent" THEN "new"
    ELSE IF LaneLive(e, s) THEN "live" ELSE "dead"

Amount(e, s, n) == IF LaneLive(e, s) THEN n ELSE 0

Lane(e, s) == INSTANCE CreditLane WITH
    phase <- LanePhase(e, s),
    window <- Amount(e, s, stream[e][s].window),
    wire <- Amount(e, s, Bytes(wire[e], s, "DATA")),
    wireFrames <- Amount(e, s, Count(wire[e], s, "DATA")),
    queued <- Amount(e, s, stream[Peer(e)][s].buffered),
    qFrames <- Amount(e, s, stream[Peer(e)][s].frames),
    held <- Amount(e, s, stream[Peer(e)][s].held),
    unacked <- Amount(e, s, stream[Peer(e)][s].unacked),
    grants <- Amount(e, s, Bytes(wire[Peer(e)], s, "WINDOW_UPDATE"))

\* The multiplexer implements CreditLane: no interleaving of sends, grants, reads,
\* resets and connection loss loses or mints credit on a stream both ends run.
LanesImplemented ==
    /\ \A e \in Ends, s \in Sids : Lane(e, s)!Init
    /\ [][Compliant' => \A e \in Ends, s \in Sids :
            Lane(e, s)!Next \/ UNCHANGED Lane(e, s)!vars]_vars

-----------------------------------------------------------------------------
\* PROTOCOL.md 10, "The buffer counters reconcile on teardown, so they never
\* drift": whatever the order of _feed, read, reset, abort and close, a live
\* stream's counters are what is in its queue, and the connection's counters and
\* the account's reservation are the sum over the live streams.
CountersReconcile ==
    \A e \in Ends :
        LET sum(f(_)) == SumSeq([s \in Sids |-> IF Live(e, s) THEN f(stream[e][s]) ELSE 0])
        IN /\ mux[e].buffered = sum(QueuedBytes)
           /\ mux[e].frames = sum(QueuedFrames)
           /\ mux[e].account = IF e = Server THEN mux[e].buffered ELSE 0

\* A clean end is never a truncation: where a stream that both ends have known
\* reads as EOF, the peer did half-close, and every byte it framed was queued
\* here before (mux.py, _RecvState: "a clean FIN for EOF, a hard RST for RESET").
EofIsComplete ==
    Compliant => \A e \in Ends, s \in Sids :
        (stream[e][s].recv = "EOF" /\ stream[Peer(e)][s].st # "absent") =>
            stream[Peer(e)][s].ended /\ log[e][s].fed = log[Peer(e)][s].sent

\* After its EOF an end sends no more DATA on that stream, after its RESET
\* nothing at all, whichever task of that end did the sending (the re-checks of
\* Stream.send after each await, and the send lock).  PROTOCOL.md 8: "The peer that
\* initiates a reset sends exactly one RESET frame", also when a caller's reset(), the
\* task _feed spawned and _send_reset meet.
QuietAfterEnd ==
    Compliant => \A e \in Ends :
        /\ \A i, j \in DOMAIN wire[e] :
              LET first == wire[e][i]
                  later == wire[e][j]
              IN (i < j /\ first.sid = later.sid /\ first.sid # 0) =>
                    /\ first.type = "EOF" => later.type \in {"WINDOW_UPDATE", "RESET"}
                    /\ first.type # "RESET"
        /\ \A s \in Sids : log[e][s].resets <= 1

\* Whatever frames arrive, what an end has queued stays within every limit of _feed,
\* per stream, per connection and for the account; and between compliant ends the
\* per-stream limits and the window cap of _grant never engage (mux.py,
\* _STREAM_HARD_MAX: "can never false-positive").
BuffersBounded ==
    \A e \in Ends :
        /\ mux[e].buffered <= MaxConnBuffered /\ mux[e].frames <= MaxConnFrames
        /\ mux[e].account <= env.account
        /\ Cardinality(LiveStreams(e)) <= env.maxStreams
        /\ \A s \in Sids : /\ stream[e][s].buffered <= StreamHardMax
                          /\ stream[e][s].frames <= MaxQueuedFrames
                          /\ stream[e][s].window <= IF Compliant THEN W ELSE MaxSendWindow
        /\ Compliant => mux[e].breach \cap {"stream_bytes", "stream_frames"} = {}

\* A terminal is write-once and an id is used once: a late RESET never rewrites a
\* delivered EOF (PROTOCOL.md 6.3), and no OPEN brings back a stream that ended.
TerminalsAreFinal ==
    [][Compliant' => \A e \in Ends, s \in Sids :
         /\ stream[e][s].recv # "OPEN" => stream'[e][s].recv = stream[e][s].recv
         /\ stream[e][s].st = "closed" => stream'[e][s].st = "closed"]_vars

\* PROTOCOL.md 7.4 for the whole multiplexer: a send() that waits for credit is
\* always resumed, to finish or to find the stream gone.
SendCompletes ==
    \A e \in Ends, s \in Sids : (stream[e][s].left > 0) ~> (stream[e][s].left = 0)

=============================================================================
