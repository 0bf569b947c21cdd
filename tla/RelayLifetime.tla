--------------------------- MODULE RelayLifetime ---------------------------
(***************************************************************************)
(* The life of one relay process, serve() of src/chute/server.py: the      *)
(* listeners are bound one after the other, agents and visitors come and   *)
(* go, a signal or a cancellation stops it, the tunnels registered at that *)
(* moment are drained, and the event worker is cancelled last.  The        *)
(* lifecycle events of the tunnels go through EventQueue into EventLog.    *)
(*                                                                         *)
(* Registry and Handshake model a tunnel's handshake in detail; here it is *)
(* what serve() and the event queue can tell apart.                        *)
(***************************************************************************)
EXTENDS EventLog

CONSTANT Tunnels

Opened(t) == <<"opened", t>>
Closed(t) == <<"closed", t>>

\* .listeners: the ones configured; .tunnels: the agents that connect; .visited: those
\* of them that visitors ask for.
ASSUME LifetimeAssumption ==
    /\ Events = {"opened", "closed"} \X Tunnels
    /\ \A n \in Environments :
        /\ {"control", "public"} \subseteq n.listeners
        /\ n.listeners \subseteq {"control", "public", "tls", "metrics"}
        /\ n.tunnels \subseteq Tunnels /\ n.visited \subseteq n.tunnels

VARIABLES
    phase,     \* where serve() is
    bound,     \* the listeners that accept connections
    tunnel,    \* [Tunnels -> where the agent's handler is]
    agents,    \* _agents: the tunnels that are registered
    announced, \* tunnels whose tunnel_opened was queued (opened_emitted)
    visit,     \* [Tunnels -> one visit to it]
    snapshot,  \* muxes: the tunnels that the shutdown drains
    drained,   \* those whose drain() returned
    late       \* some handler was still running when the event worker was cancelled

lifeVars == <<phase, bound, tunnel, agents, announced, visit, snapshot, drained, late>>
allVars == <<vars, logVars, lifeVars>>

LifeInit ==
    /\ Init /\ LogInit
    /\ phase = "starting" /\ bound = {}
    /\ tunnel = [t \in Tunnels |-> "none"] /\ agents = {} /\ announced = {}
    /\ visit = [t \in Tunnels |-> "none"]
    /\ snapshot = {} /\ drained = {} /\ late = FALSE

Quiet == UNCHANGED <<vars, logVars>>

\* An open visit has ended the given way.
VisitCut(t, how) == visit' = [visit EXCEPT ![t] = IF @ = "open" THEN how ELSE @]

-----------------------------------------------------------------------------
(* Agents and visitors                                                     *)

\* The control listener accepts an agent.
Connect(t) ==
    /\ "control" \in bound /\ t \in env.tunnels /\ tunnel[t] = "none"
    /\ tunnel' = [tunnel EXCEPT ![t] = "handshake"]
    /\ Quiet /\ UNCHANGED <<phase, bound, agents, announced, visit, snapshot, drained, late>>

\* Its claim is recorded and tunnel_opened is emitted; ready is being sent.
ClaimLabel(t) ==
    /\ tunnel[t] = "handshake"
    /\ tunnel' = [tunnel EXCEPT ![t] = "claimed"]
    /\ announced' = IF Full THEN announced ELSE announced \cup {t}
    /\ Emit(Opened(t))
    /\ UNCHANGED <<logVars, phase, bound, agents, visit, snapshot, drained, late>>

Install(t) ==
    /\ tunnel[t] = "claimed"
    /\ tunnel' = [tunnel EXCEPT ![t] = "live"]
    /\ agents' = agents \cup {t}
    /\ Quiet /\ UNCHANGED <<phase, bound, announced, visit, snapshot, drained, late>>

\* Superseded, expired or revoked: off the route table, and closed in the background.
Retire(t) ==
    /\ "retire" \in env.hazards /\ t \in agents /\ tunnel[t] = "live"
    /\ tunnel' = [tunnel EXCEPT ![t] = "retiring"]
    /\ agents' = agents \ {t}
    /\ Quiet /\ UNCHANGED <<phase, bound, announced, visit, snapshot, drained, late>>

Disconnected(t, how) ==
    /\ tunnel' = [tunnel EXCEPT ![t] = "closing"]
    /\ VisitCut(t, how)

\* The background task of a retired tunnel closes it, when it is idle or out of time.
RetireCloses(t) ==
    /\ tunnel[t] = "retiring"
    /\ Disconnected(t, "late")
    /\ Quiet /\ UNCHANGED <<phase, bound, agents, announced, snapshot, drained, late>>

\* The agent goes away, before or after its tunnel is up.
Lose(t) ==
    /\ tunnel[t] \in {"handshake", "claimed", "live", "retiring"}
    /\ Disconnected(t, "lost")
    /\ Quiet /\ UNCHANGED <<phase, bound, agents, announced, snapshot, drained, late>>

\* The end of _serve_agent: deregister, then tunnel_closed if tunnel_opened was queued.
Depart(t) ==
    /\ tunnel' = [tunnel EXCEPT ![t] = "ended"]
    /\ agents' = agents \ {t}
    /\ IF t \in announced THEN Emit(Closed(t)) ELSE UNCHANGED vars

HandlerEnds(t) ==
    /\ tunnel[t] = "closing" /\ phase \notin {"returned", "failed"}
    /\ Depart(t)
    /\ UNCHANGED <<logVars, phase, bound, announced, visit, snapshot, drained, late>>

\* A visitor connects; its request names t.
Arrive(t) ==
    /\ "public" \in bound /\ t \in env.visited /\ visit[t] = "none"
    /\ visit' = [visit EXCEPT ![t] = "arrived"]
    /\ Quiet /\ UNCHANGED <<phase, bound, tunnel, agents, announced, snapshot, drained, late>>

\* Its head has been read: a stream is opened, unless there is no tunnel or it drains.
Route(t) ==
    /\ visit[t] = "arrived" /\ phase \notin {"returned", "failed"}
    /\ visit' = [visit EXCEPT ![t] =
                    IF t \in agents \ snapshot /\ tunnel[t] = "live" THEN "open" ELSE "done"]
    /\ Quiet /\ UNCHANGED <<phase, bound, tunnel, agents, announced, snapshot, drained, late>>

VisitEnds(t) ==
    /\ visit[t] = "open" /\ tunnel[t] \in {"live", "retiring"}
    /\ visit' = [visit EXCEPT ![t] = "done"]
    /\ Quiet /\ UNCHANGED <<phase, bound, tunnel, agents, announced, snapshot, drained, late>>

-----------------------------------------------------------------------------
(* serve()                                                                 *)

Rank == [control |-> 1, public |-> 2, tls |-> 3, metrics |-> 4]

\* The next listener is bound; after the last one the event worker is started.
Bind(l) ==
    /\ phase = "starting" /\ l \in env.listeners \ bound
    /\ \A m \in env.listeners \ bound : Rank[l] <= Rank[m]
    /\ bound' = bound \cup {l}
    /\ phase' = IF bound' = env.listeners THEN "up" ELSE "starting"
    /\ Quiet /\ UNCHANGED <<tunnel, agents, announced, visit, snapshot, drained, late>>

\* Binding raises: what was bound is closed, the agents' connections included.
BindFails ==
    /\ phase = "starting" /\ "start" \in env.hazards
    /\ phase' = IF bound = {} THEN "failed" ELSE "cleanup"
    /\ bound' = {}
    /\ tunnel' = [t \in Tunnels |->
                    IF tunnel[t] \in {"none", "ended"} THEN tunnel[t] ELSE "closing"]
    /\ visit' = [t \in Tunnels |-> IF visit[t] = "open" THEN "cut" ELSE visit[t]]
    /\ Stop \* there will be no worker
    /\ UNCHANGED <<logVars, agents, announced, snapshot, drained, late>>

\* wait_closed() of each listener, at most 5 seconds each; then the error is raised.
CleanupEnds ==
    /\ phase = "cleanup"
    /\ phase' = "failed"
    /\ Quiet /\ UNCHANGED <<bound, tunnel, agents, announced, visit, snapshot, drained, late>>

\* SIGTERM or SIGINT, or serve() is cancelled; it has yet to resume.
Signal ==
    /\ phase = "up"
    /\ phase' = "signalled"
    /\ Quiet /\ UNCHANGED <<bound, tunnel, agents, announced, visit, snapshot, drained, late>>

\* Mutant of CloseDown: control.close() closes the agents' connections too.
CloseDownAll ==
    /\ phase = "signalled"
    /\ phase' = "draining"
    /\ snapshot' = agents
    /\ bound' = {}
    /\ tunnel' = [t \in Tunnels |-> IF t \in agents THEN "closing" ELSE tunnel[t]]
    /\ visit' = [t \in Tunnels |-> IF t \in agents /\ visit[t] = "open" THEN "cut" ELSE visit[t]]
    /\ Quiet /\ UNCHANGED <<agents, announced, drained, late>>

\* Mutant of CloseDown: every background task is cancelled, the event worker too.
CloseDownWorker ==
    /\ phase = "signalled"
    /\ phase' = "draining"
    /\ snapshot' = agents
    /\ bound' = {}
    /\ Stop
    /\ UNCHANGED <<logVars, tunnel, agents, announced, visit, drained, late>>

\* The finally block, up to the drains: note the registered muxes, close the
\* listeners and leave the connections, cancel the other background tasks.
CloseDown ==
    /\ phase = "signalled"
    /\ phase' = "draining"
    /\ snapshot' = agents
    /\ bound' = {}
    /\ Quiet /\ UNCHANGED <<tunnel, agents, announced, visit, drained, late>>

\* drain() of one mux returns: nothing is left, or its time is up.
DrainReturns(t) ==
    /\ phase = "draining" /\ t \in snapshot \ drained
    /\ drained' = drained \cup {t}
    /\ IF tunnel[t] \in {"live", "retiring"}
       THEN Disconnected(t, "late")
       ELSE UNCHANGED <<tunnel, visit>>
    /\ Quiet /\ UNCHANGED <<phase, bound, agents, announced, snapshot, late>>

\* gather() returns; wait_closed() of the visitors' listeners takes at most 5 seconds
\* each, and tells serve() nothing.
DrainsEnd ==
    /\ phase = "draining" /\ drained = snapshot
    /\ phase' = "agents"
    /\ Quiet /\ UNCHANGED <<bound, tunnel, agents, announced, visit, snapshot, drained, late>>

HandlersGone == \A t \in Tunnels : tunnel[t] \in {"none", "ended"}

\* The thread the worker waits for has ended, and the worker has yet to resume.
ResultReady == \E t \in threads : Awaited(t) /\ t.at \in {"done", "failed"}

\* event_worker.cancel().  Up to Python 3.11, wait_for() drops a cancellation that
\* meets a finished call, and the worker goes on.
CancelWorker ==
    \/ Stop
    \/ "wrapped" \in env.hazards /\ ResultReady /\ UNCHANGED vars

\* Mutant of WaitAgents: control.wait_closed() without a timeout.
WaitAgentsForever ==
    /\ phase = "agents" /\ HandlersGone
    /\ phase' = "stopping"
    /\ late' = FALSE
    /\ CancelWorker
    /\ UNCHANGED <<logVars, bound, tunnel, agents, announced, visit, snapshot, drained>>

\* control.wait_closed() returns when the last handler has, or after 5 seconds.
WaitAgents ==
    /\ phase = "agents"
    /\ phase' = "stopping"
    /\ late' = ~HandlersGone
    /\ CancelWorker
    /\ UNCHANGED <<logVars, bound, tunnel, agents, announced, visit, snapshot, drained>>

\* gather(*background) returns once the worker has ended.
ServeReturns ==
    /\ phase = "stopping" /\ worker = "stopped"
    /\ phase' = "returned"
    /\ Quiet /\ UNCHANGED <<bound, tunnel, agents, announced, visit, snapshot, drained, late>>

\* asyncio.run() cancels what is left; a handler that was still in its handshake ends
\* without a tunnel_closed.
ExitCancels(t) ==
    /\ phase \in {"returned", "failed"} /\ tunnel[t] \notin {"none", "ended"}
    /\ IF tunnel[t] \in {"handshake", "claimed"}
       THEN tunnel' = [tunnel EXCEPT ![t] = "ended"] /\ UNCHANGED <<vars, agents>>
       ELSE Depart(t)
    /\ VisitCut(t, "cut")
    /\ UNCHANGED <<logVars, phase, bound, announced, snapshot, drained, late>>

\* The process dies and is started again.  Its agents are lost; new ones may come.
Restart ==
    /\ CrashAndRestart
    /\ phase' = "starting" /\ bound' = {} /\ agents' = {} /\ announced' = {}
    /\ tunnel' = [t \in Tunnels |-> IF tunnel[t] \in {"none", "handshake"} THEN "none" ELSE "ended"]
    /\ visit' = [t \in Tunnels |-> "none"]
    /\ snapshot' = {} /\ drained' = {} /\ late' = FALSE

-----------------------------------------------------------------------------
WorkerStarted == phase \notin {"starting", "cleanup", "failed"}

LogStep ==
    \/ \E t \in threads : Write(t)
    \/ WorkerStarted /\ CallSink
    \/ SinkReturns \/ SinkFails \/ PutBack

LifeNext ==
    \/ \E t \in Tunnels :
        \/ Connect(t) \/ ClaimLabel(t) \/ Install(t) \/ Retire(t) \/ RetireCloses(t)
        \/ Lose(t) \/ HandlerEnds(t) \/ Arrive(t) \/ Route(t) \/ VisitEnds(t)
        \/ DrainReturns(t) \/ ExitCancels(t)
    \/ \E l \in DOMAIN Rank : Bind(l)
    \/ BindFails \/ CleanupEnds \/ Signal \/ CloseDown \/ DrainsEnd \/ WaitAgents \/ ServeReturns
    \/ LogStep /\ UNCHANGED lifeVars
    \/ Restart

LifeSpec == LifeInit /\ [][LifeNext]_allVars

\* Binding returns or raises; serve() goes on, every wait in it having a timeout, and
\* drain() returns by its deadline; the worker and the writing threads run, and
\* event_timeout ends the wait for a call.
LifeFairness ==
    /\ WF_allVars((\E l \in DOMAIN Rank : Bind(l)) \/ BindFails)
    /\ WF_allVars(CloseDown \/ DrainsEnd \/ WaitAgents \/ ServeReturns \/ CleanupEnds)
    /\ \A t \in Tunnels : WF_allVars(DrainReturns(t))
    /\ WF_allVars(WorkerStarted /\ CallSink /\ UNCHANGED lifeVars)
    /\ WF_allVars((SinkReturns \/ SinkFails) /\ UNCHANGED lifeVars)
    /\ WF_allVars(PutBack /\ UNCHANGED lifeVars)
    /\ WF_allVars((\E t \in threads : Write(t)) /\ UNCHANGED lifeVars)

FairLifeSpec == LifeSpec /\ LifeFairness

-----------------------------------------------------------------------------
(* Properties                                                              *)

\* The comment in serve(), "DRAIN in-flight requests instead of hard-dropping every
\* tunnel": a visit on a tunnel that was registered at the stop ends by itself, with
\* its agent or at the drain's deadline.  Neither closing the listeners nor the return
\* of serve() cuts it.
DrainedNotDropped == \A t \in snapshot : visit[t] # "cut"

\* The comment in serve(), "Keep the event worker alive while mux teardown emits final
\* lifecycle events": the worker is cancelled only after every tunnel that was announced
\* has queued its tunnel_closed, unless a handler outlived the wait for it.
FinalEventsQueued ==
    worker = "stopped" /\ phase \notin {"cleanup", "failed"}
        => late \/ \A t \in announced : Closed(t) \notin todo

\* A stop ends, and so does a failed start, whatever visits, handshakes, retired tunnels
\* and a failing sink are under way.  (Python 3.11 may lose the worker's cancellation.)
ShutdownEnds ==
    (phase \in {"signalled", "cleanup"} /\ "wrapped" \notin env.hazards)
        ~> phase \in {"returned", "failed", "starting"}
=============================================================================
