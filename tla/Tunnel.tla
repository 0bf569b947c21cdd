------------------------------- MODULE Tunnel -------------------------------
(***************************************************************************)
(* One visitor connection relayed end to end: visitor socket, the server's *)
(* _relay (server.py), the multiplexer (module Mux), the agent's           *)
(* _handle_stream (client.py) and the socket to the local app, with the    *)
(* two pumps of _relay.py at each end.                                     *)
(*                                                                         *)
(* The pumps and the relay tasks drive the Stream operations of Mux; they  *)
(* are checked to keep its contract (property Spec of Mux).  A socket is   *)
(* the bytes its peer has yet to write, the number of bytes the pump took  *)
(* for it, and how its write side ended: "fin" (write_eof or close: what   *)
(* was written counts as complete) or "rst" (transport.abort).             *)
(***************************************************************************)
EXTENDS Mux

\* Each environment also says what the visitor and the local app write, and which
\* of these happen: the "dial" fails, the "visitor" or the "app" resets its
\* connection, a "sink" stalls, the relay is "idle" for too long.  The request head
\* counts as one byte.
ASSUME TunnelAssumption ==
    /\ MaxSid = 1
    /\ \A v \in Environments :
          /\ v.source \in [Ends -> Nat] /\ v.source[Server] > 0 /\ 1 \in v.chunks
          /\ v.hazards \subseteq {"dial", "visitor", "app", "sink", "idle"}

VARIABLES
    relay,  \* [end -> the relay task and its two pumps]
    sock    \* [end -> the socket behind the relay]

tunnelVars == <<vars, relay, sock>>

sid == 1
Str(e) == stream[e][sid]

TunnelInit ==
    /\ Init
    /\ relay = [e \in Ends |-> [main |-> "none", reader |-> "off", writer |-> "off"]]
    /\ sock = [e \in Ends |-> [left |-> env.source[e], got |-> 0,
                               sink |-> IF e = Server THEN "open" ELSE "none"]]

Pumping(e) == relay[e].main \in {"relay", "flush"}

\* _safe_close(writer): a write side still open ends with a FIN.
CloseSink(k) == [k EXCEPT !.sink = IF @ = "open" THEN "fin" ELSE @]

-----------------------------------------------------------------------------
(* _pump_reader_to_stream, and Stream.send as its callers see it           *)

\* reader.read() returned n bytes: they go to Stream.send.
PumpIn(e, n) ==
    /\ Pumping(e) /\ relay[e].reader = "reading"
    /\ n <= sock[e].left /\ sock[e].sink # "rst"
    /\ sock' = [sock EXCEPT ![e].left = @ - n]
    /\ IF Live(e, sid) /\ ~Str(e).ended
       THEN StartSend(e, sid, n) /\ relay' = [relay EXCEPT ![e].reader = "sending"]
       ELSE UNCHANGED vars /\ relay' = [relay EXCEPT ![e].reader = "failed"]

\* The send in progress is over: it belongs to the head (server) or to the pump.
AfterSend(e, ok) ==
    IF relay[e].main = "head"
    THEN [relay EXCEPT ![e] = IF ok THEN [main |-> "relay", reader |-> "reading", writer |-> "reading"]
                              ELSE [@ EXCEPT !.main = "failing"]]
    ELSE IF relay[e].reader = "sending"
    THEN [relay EXCEPT ![e].reader = IF ok THEN "reading" ELSE "failed"]
    ELSE relay

Sending(e) ==
    /\ SendStep(e, sid)
    /\ relay' = IF stream'[e][sid].left > 0 THEN relay
                ELSE AfterSend(e, log'[e][sid].sent > log[e][sid].sent)
    /\ UNCHANGED sock

Waking(e) == WakeSender(e, sid) /\ UNCHANGED <<relay, sock>>

Stalling(e) ==
    /\ CreditStall(e, sid)
    /\ relay' = AfterSend(e, FALSE)
    /\ UNCHANGED sock

\* send_eof does nothing on a stream that is closed or already half-closed.
EofOrNothing(e) ==
    IF Live(e, sid) /\ ~Str(e).ended THEN SendEof(e, sid) ELSE UNCHANGED vars

\* reader.read() returned b"": end of the source, or our own abort of the socket, which
\* is reported after the reset() task of the breach that led to it has had its turn.
PumpInEof(e) ==
    /\ Pumping(e) /\ relay[e].reader = "reading"
    /\ sock[e].left = 0 \/ (sock[e].sink = "rst" /\ ~Str(e).resetTask)
    /\ EofOrNothing(e)
    /\ relay' = [relay EXCEPT ![e].reader = "done"]
    /\ UNCHANGED sock

\* reader.read() raised: the visitor or the local app reset its connection.
PumpInFails(e) ==
    /\ (IF e = Server THEN "visitor" ELSE "app") \in env.hazards
    /\ Pumping(e) /\ relay[e].reader = "reading" /\ sock[e].sink # "rst"
    /\ relay' = [relay EXCEPT ![e].reader = "failed"]
    /\ UNCHANGED <<vars, sock>>

-----------------------------------------------------------------------------
(* _pump_stream_to_writer                                                  *)

\* Mutant of PumpOut: an aborted lane is passed on as a clean half-close.
PumpOutNoAbort(e) ==
    /\ Pumping(e) /\ relay[e].writer = "reading"
    /\ Read(e, sid)
    /\ LET chunk == Head(Str(e).incoming)
       IN IF chunk = None
          THEN /\ relay' = [relay EXCEPT ![e].writer = "done"]
               /\ sock' = [sock EXCEPT ![e].sink = "fin"]
          ELSE /\ relay' = [relay EXCEPT ![e].writer = "draining"]
               /\ sock' = [sock EXCEPT ![e].got = @ + chunk]

\* One read(): a chunk is written and drained; the terminal ends the write side,
\* an abort by RST and a clean end by FIN.
PumpOut(e) ==
    /\ Pumping(e) /\ relay[e].writer = "reading"
    /\ Read(e, sid)
    /\ LET chunk == Head(Str(e).incoming)
           end == IF Str(e).recv = "RESET" THEN "rst" ELSE "fin"
       IN IF chunk = None
          THEN /\ relay' = [relay EXCEPT ![e].writer = "done"]
               /\ sock' = [sock EXCEPT ![e].sink = end]
          ELSE /\ relay' = [relay EXCEPT ![e].writer = "draining"]
               /\ sock' = [sock EXCEPT ![e].got = @ + chunk]

\* writer.drain() returned: acknowledge.
PumpOutDrained(e) ==
    /\ Pumping(e) /\ relay[e].writer = "draining"
    /\ Ack(e, sid)
    /\ relay' = [relay EXCEPT ![e].writer = "reading"]
    /\ UNCHANGED sock

\* writer.drain() raised, or took longer than _DRAIN_TIMEOUT.
PumpOutFails(e) ==
    /\ "sink" \in env.hazards
    /\ Pumping(e) /\ relay[e].writer = "draining"
    /\ relay' = [relay EXCEPT ![e].writer = "failed"]
    /\ UNCHANGED <<vars, sock>>

-----------------------------------------------------------------------------
(* The relay tasks                                                         *)

\* _handle_visitor: the stream is opened and the request head is the first send.
Visit ==
    /\ relay[Server].main = "none"
    /\ Open
    /\ relay' = [relay EXCEPT ![Server].main = "head"]
    /\ UNCHANGED sock

SendHead ==
    /\ relay[Server].main = "head" /\ Str(Server).left = 0
    /\ IF Live(Server, sid)
       THEN /\ StartSend(Server, sid, 1)
            /\ sock' = [sock EXCEPT ![Server].left = @ - 1]
            /\ UNCHANGED relay
       ELSE /\ relay' = [relay EXCEPT ![Server].main = "failing"]
            /\ UNCHANGED <<vars, sock>>

\* client.py, _handle_stream: dial the local app.
Dialed ==
    /\ relay[Agent].main = "dialing"
    /\ relay' = [relay EXCEPT ![Agent] =
                   [main |-> "relay", reader |-> "reading", writer |-> "reading"]]
    /\ sock' = [sock EXCEPT ![Agent].sink = "open"]
    /\ UNCHANGED vars

DialFails ==
    /\ "dial" \in env.hazards
    /\ relay[Agent].main = "dialing"
    /\ relay' = [relay EXCEPT ![Agent].main = "resetting"]
    /\ UNCHANGED <<vars, sock>>

\* A pump raised, or nothing moved for relay_idle_timeout (server only): the
\* other pump is cancelled.  The server looks at the idle watch first, then at the
\* writer's result.
Failing(e) ==
    \/ relay[e].main = "failing"
    \/ relay[e].main \in {"relay", "flush"} /\ relay[e].writer = "failed"
    \/ relay[e].main = "relay" /\ relay[e].reader = "failed"
          /\ (e = Agent \/ relay[e].writer # "done")
    \/ Pumping(e) /\ e = Server /\ "idle" \in env.hazards

CancelSiblings(e) ==
    /\ Failing(e)
    /\ relay' = [relay EXCEPT ![e] =
                   [main |-> "resetting",
                    reader |-> IF @.reader \in {"reading", "sending"} THEN "cancelled" ELSE @.reader,
                    writer |-> IF @.writer \in {"reading", "draining"} THEN "cancelled" ELSE @.writer]]
    /\ IF Str(e).left > 0 THEN CancelSend(e, sid) ELSE UNCHANGED vars
    /\ UNCHANGED sock

\* Mutant of ResetAndClose: the sockets are closed, the stream is left as it is.
CloseWithoutReset(e) ==
    /\ relay[e].main = "resetting"
    /\ relay' = [relay EXCEPT ![e].main = "closed"]
    /\ sock' = [sock EXCEPT ![e] = CloseSink(@)]
    /\ UNCHANGED vars

\* _safe_reset(stream), stream.close() and _safe_close(writer).
ResetAndClose(e) ==
    /\ relay[e].main = "resetting"
    /\ IF Live(e, sid) THEN Reset(e, sid) ELSE UNCHANGED vars
    /\ relay' = [relay EXCEPT ![e].main = "closed"]
    /\ sock' = [sock EXCEPT ![e] = CloseSink(@)]

\* server.py, _relay: the writer finished first, so the reader is cancelled ...
WriterFirst ==
    /\ relay[Server].main = "relay" /\ relay[Server].writer = "done"
    /\ relay' = [relay EXCEPT ![Server].main = "eof",
                              ![Server].reader = IF @ \in {"reading", "sending"} THEN "cancelled" ELSE @]
    /\ IF Str(Server).left > 0 THEN CancelSend(Server, sid) ELSE UNCHANGED vars
    /\ UNCHANGED sock

\* ... and our EOF is sent in its place.
WriterFirstEof ==
    /\ relay[Server].main = "eof"
    /\ EofOrNothing(Server)
    /\ relay' = [relay EXCEPT ![Server].main = "ending"]
    /\ UNCHANGED sock

\* Mutant of ReaderFirst: the visitor's half-close ends the relay.
ReaderFirstEnds ==
    /\ relay[Server].main = "relay"
    /\ relay[Server].reader = "done" /\ relay[Server].writer \in {"reading", "draining"}
    /\ relay' = [relay EXCEPT ![Server].main = "ending"]
    /\ UNCHANGED <<vars, sock>>

\* server.py, _relay: the visitor half-closed first; wait for the response.
ReaderFirst ==
    /\ relay[Server].main = "relay"
    /\ relay[Server].reader = "done" /\ relay[Server].writer \in {"reading", "draining"}
    /\ relay' = [relay EXCEPT ![Server].main = "flush"]
    /\ UNCHANGED <<vars, sock>>

\* Mutant of BothDone: the agent does not wait for its other pump.
WriterDone(e) ==
    /\ relay[e].writer = "done"
    /\ relay[e].main = IF e = Server THEN "flush" ELSE "relay"
    /\ relay' = [relay EXCEPT ![e].main = "ending"]
    /\ UNCHANGED <<vars, sock>>

\* Both pumps returned.
BothDone(e) ==
    /\ relay[e].reader = "done" /\ relay[e].writer = "done"
    /\ relay[e].main = IF e = Server THEN "flush" ELSE "relay"
    /\ relay' = [relay EXCEPT ![e].main = "ending"]
    /\ UNCHANGED <<vars, sock>>

\* stream.close() and _safe_close(writer).
EndRelay(e) ==
    /\ relay[e].main = "ending"
    /\ IF Live(e, sid) THEN CloseNow(e, sid) ELSE UNCHANGED vars
    /\ relay' = [relay EXCEPT ![e].main = "closed"]
    /\ sock' = [sock EXCEPT ![e] = CloseSink(@)]

-----------------------------------------------------------------------------
(* The demux loops and the connection                                      *)

\* An accepted OPEN starts the agent's handler.
DemuxStep(e) ==
    /\ Demux(e)
    /\ relay' = IF e = Agent /\ Str(e).st = "absent" /\ stream'[e][sid].st = "live"
                THEN [relay EXCEPT ![e].main = "dialing"] ELSE relay
    /\ UNCHANGED sock

\* The agent's run() ends: its handlers are cancelled.  A writer pump parked on
\* read() wakes on the terminal before the cancellation reaches it; one that is
\* draining does not, and its socket is closed by the handler's finally block;
\* one about to take a queued chunk may end either way.
AgentRunEnds ==
    /\ RunEnds(Agent)
    /\ relay' = [relay EXCEPT ![Agent] =
                   [main |-> "closed",
                    reader |-> IF @.reader \in {"reading", "sending"} THEN "cancelled" ELSE @.reader,
                    writer |-> IF @.writer \in {"reading", "draining"} THEN "cancelled" ELSE @.writer]]
    /\ LET parked == Pumping(Agent) /\ relay[Agent].writer = "reading"
           wakes == parked /\ stream'[Agent][sid].recv = "RESET"
           first == wakes /\ Str(Agent).incoming = <<>>
       IN \E rst \in {first} \cup {wakes} :
             sock' = [sock EXCEPT ![Agent] =
                        CloseSink(IF rst THEN [@ EXCEPT !.sink = "rst"] ELSE @)]

ConnectionStep(e) ==
    /\ \/ GoAway(e) \/ DrainClose(e) \/ Lose(e) \/ Notice(e)
       \/ e = Server /\ RunEnds(e)
       \/ ResetTask(e, sid) \/ SendOnce(e, sid)
    /\ UNCHANGED <<relay, sock>>

-----------------------------------------------------------------------------
TunnelNext ==
    \/ Visit \/ SendHead \/ Dialed \/ DialFails
    \/ WriterFirst \/ WriterFirstEof \/ ReaderFirst \/ AgentRunEnds
    \/ \E e \in Ends :
         \/ \E n \in env.chunks : PumpIn(e, n)
         \/ Sending(e) \/ Waking(e) \/ Stalling(e) \/ PumpInEof(e) \/ PumpInFails(e)
         \/ PumpOut(e) \/ PumpOutDrained(e) \/ PumpOutFails(e)
         \/ CancelSiblings(e) \/ ResetAndClose(e) \/ BothDone(e) \/ EndRelay(e)
         \/ DemuxStep(e) \/ ConnectionStep(e)

TunnelSpec == TunnelInit /\ [][TunnelNext]_tunnelVars

\* Every ready task of the event loops runs; the sockets accept what is written;
\* the local app answers and ends its response; a dial ends one way or the other.
\* Nothing is assumed of the visitor, who may keep its side open for ever.
TunnelFairness ==
    /\ WF_tunnelVars(SendHead) /\ WF_tunnelVars(Dialed \/ DialFails)
    /\ WF_tunnelVars(WriterFirst) /\ WF_tunnelVars(WriterFirstEof)
    /\ WF_tunnelVars(AgentRunEnds)
    /\ WF_tunnelVars(\E n \in env.chunks : PumpIn(Agent, n)) /\ WF_tunnelVars(PumpInEof(Agent))
    /\ \A e \in Ends :
          /\ WF_tunnelVars(Sending(e)) /\ WF_tunnelVars(Waking(e))
          /\ WF_tunnelVars(PumpOut(e)) /\ WF_tunnelVars(PumpOutDrained(e))
          /\ WF_tunnelVars(CancelSiblings(e)) /\ WF_tunnelVars(ResetAndClose(e))
          /\ WF_tunnelVars(BothDone(e)) /\ WF_tunnelVars(EndRelay(e))
          /\ WF_tunnelVars(DemuxStep(e))
          /\ WF_tunnelVars(SendOnce(e, sid) /\ UNCHANGED <<relay, sock>>)
          /\ WF_tunnelVars(ResetTask(e, sid) /\ UNCHANGED <<relay, sock>>)
          /\ WF_tunnelVars(Notice(e) /\ UNCHANGED <<relay, sock>>)
    /\ WF_tunnelVars(RunEnds(Server) /\ UNCHANGED <<relay, sock>>)

FairTunnelSpec == TunnelSpec /\ TunnelFairness

-----------------------------------------------------------------------------
(* Properties                                                              *)

\* _pump_stream_to_writer: a FIN it passes on follows every byte the other end
\* put into frames, and an RST is passed on only for a lane that was aborted.
PumpedEndIsHonest ==
    \A e \in Ends :
        /\ (relay[e].writer = "done" /\ sock[e].sink = "fin") =>
                sock[e].got = log[Peer(e)][sid].sent
        /\ sock[e].sink = "rst" => Str(e).recv = "RESET"

\* Nobody gave the visit up: both connections stand and neither end sent a RESET.
Untroubled == \A e \in Ends : mux[e].ws = "open" /\ log[e][sid].resets = 0

\* PROTOCOL.md 6.2, "The two directions are independent": whichever side half-closes
\* first, and whatever the pumps and _relay are in the middle of, a visitor whose
\* visit nobody gave up is told FIN only after the whole response.
ResponseFinIsComplete ==
    (Untroubled /\ sock[Server].sink = "fin") => sock[Server].got = env.source[Agent]

\* PROTOCOL.md 9 for the response: RST "so a partial/aborted body is not mistaken
\* for a complete one".  A response cut short is never ended by a FIN.
PartialResponseIsReset ==
    sock[Server].sink = "fin" => sock[Server].got \in {0, env.source[Agent]}

\* Every visit ends on both sides, its slot, its handler and its sockets freed,
\* once the local app ends its response, whatever the visitor does and whichever
\* pump, reset, refusal or connection loss comes first.
VisitEnds ==
    (relay[Server].main = "head") ~>
        /\ relay[Server].main = "closed" /\ relay[Agent].main \in {"none", "closed"}
        /\ LiveStreams(Server) = {} /\ LiveStreams(Agent) = {}
        /\ sock[Server].sink # "open" /\ sock[Agent].sink # "open"

=============================================================================
