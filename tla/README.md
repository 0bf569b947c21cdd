# A verification project for chute

chute is a reverse tunnel. An *agent* (`client.py`) keeps one WebSocket to a public
*relay* (`server.py`); each *visitor* connection to the relay becomes one stream of a
multiplexer (`mux.py`) on that WebSocket, and the agent connects the stream to a local
application. The modules in this directory model the parts of chute in which the
order of events matters, check them with TLC on small instances, and prove with TLAPS,
for every value of the constants, every safety property that the passing runs check.

## 1. The system

Both programs are single-threaded asyncio programs. A stretch of code without an
`await` runs atomically; what interleaves are the tasks of one process at their
awaits, and the two processes through the frames between them. The models take
exactly these stretches as their actions.

| component | state | operations | interacts with |
|---|---|---|---|
| multiplexer (`mux.py`, `protocol.py`) | per stream: receive queue and its byte and frame counts, send window, unacknowledged bytes, receive terminal, half-close flag; per connection: totals, stream table, GOAWAY flags, ignored-frame count | `open`, `send`, `send_eof`, `read`, `ack`, `reset`, `close`, `goaway`, `drain`, and `run`, which dispatches OPEN, DATA, EOF, WINDOW_UPDATE, RESET, GOAWAY | relay pumps above, websockets below; the account's buffer cap in the server |
| relay pumps (`_relay.py`, `server._relay`, `client._handle_stream`) | two pump tasks per end, the idle watch, the sockets | read and send, read and drain and ack, half-close, abort, the order in which the server waits for its pumps | the multiplexer; visitor and local app |
| tunnel registry (`server._serve_agent` and the `_..._registration` methods) | `_agents`, `_pending_agents`, the account and lease indexes, renewal tasks, `accepting_visitors` | claim, required event, ready, install and supersede, renew, expire, retire, revoke, deregister, route a visitor | control plane, event sink, multiplexer |
| policy updates (`_apply_policy_update`) | `_policy_version`, budget overrides | poll, apply or reject | registry |
| event queue (`_emit_event`, `_run_event_queue`) | a bounded queue, the worker's item, five counters | emit, deliver, retry, drop, stop | event sink |
| event sinks (`events.py`) | the log file and its backups, one lock, a thread per call | append, rotate file by file | event queue; the file system |
| visitor admission (`_handle_visitor…`) | pool semaphore, per-IP counts, account slots | acquire with a timeout, read the head, route, open a stream, release | registry, multiplexer |
| agent handshake and authentication | pre-auth and auth semaphores, failed-auth and reconnect windows | authenticate, admit, refuse | control plane, registry |
| agent supervisor (`client.serve_forever`) | stop flag, backoff, current connection | connect, reconnect, stop, give up on a fatal close code | relay |
| static control plane (`control.py`) | the policy in force, the fingerprints of the last good and the last bad file, the finite leases issued | admit, renew, poll and prune, each after a checked read of the file | registry; the operator who edits the file |
| startup and shutdown (`server.serve`) | bound listeners, background tasks, the muxes to drain | bind, clean up a failed start, close, drain, cancel | all of the server |
| bandwidth schedule, certificate reload | per-account schedule; certificate signature | throttle and prune; watch and reload | pumps; TLS listeners |
| parsing, CLI, metrics, files | none that outlives a call | pure functions and I/O | |

What is hard in this code: a sender parked on its credit while a grant, a reset or the
end of the connection reaches the stream; resets of both ends crossing on the wire;
spawned reset tasks that run after the stream was closed otherwise; OPEN crossing GOAWAY;
the connection dying at one end only; one pump failing while the other is in the middle
of a send; claims, revocations and renewals that overtake one another between two
awaits of a handshake; indexes kept by five code paths; bounded queues and limits at
their edge; a policy file edited while it is read and while what it said is cached; a
sink's thread that goes on after the relay gave it up; a process that dies in the middle
of a log rotation; a shutdown that meets handshakes, retired tunnels and a busy sink. `PROJECT.json` lists each of these hazards at its line.

What makes each component correct:

- *Multiplexer.* Credit is neither lost nor minted; a blocked sender always gets credit
  again; a clean end is never a truncation; terminals are final; buffers stay within
  limits and the counters reconcile; streams die at both ends.
- *Relay.* A FIN follows the whole body, an aborted body ends in RST; a visit ends at both
  sides whatever fails.
- *Registry.* One holder per label and account, limits counted over claims too, exact
  indexes, revoked tunnels stay out, events pair up, claims resolve.
- *Handshake, supervisor and visitors.* No slot or count leaks on any way out; a label
  leads to a handler that is there; an agent that reports a tunnel has it; a stop ends
  the supervisor; an agent gives up only when retrying is hopeless.
- *Event queue and log.* Every event is accounted for, a bad sink costs a bounded number
  of calls and does not hold up the queue; the log files hold the most recent lines in
  order and stay within their size, whatever half-done rotation came before.
- *Static control plane.* What is in force is what some file said and is sound; only the
  policy ends a live lease; removals and updates get through once the file settles.
- *Startup and shutdown.* Registered tunnels are drained, final events are queued before
  the worker goes, and a stop or a failed start ends.

## 2. Modules

| module | models | state and actions |
|---|---|---|
| `CreditLane` | the promise of one direction of one stream | where the `W` bytes of credit are: `window`, `wire`, `queued`, `held`, `unacked`, `grants`. `Send`, `Feed`, `Read`, `Ack`, `Grant` are the methods of `Stream`; `Die` any teardown |
| `CreditLaneProofs` | | proofs for every `W` and `MaxFrame` |
| `Mux` | `mux.py`, both ends of a connection | `stream[e][s]` is a `Stream`, `mux[e]` a `Mux`, `wire[e]` the frames under way. One action per method or per stretch between awaits; one `Recv…` per branch of `run()` |
| `MuxProofs` | | proofs for every window, limit, number of streams and environment |
| `Summation`, `SumProofs` | | the sum of a sequence, which `Mux` and `EventLog` count with, and what is known of it for every sequence |
| `Tunnel` | `_relay.py`, `server._relay`, `client._handle_stream` on top of `Mux` | `relay[e]` is the relay task and its pumps, `sock[e]` the socket behind it. Every `Stream` call is the `Mux` action of the same name |
| `TunnelProofs` | | proofs for every environment, on top of `MuxProofs` |
| `PolicyFile` | the parser of `control.py`, and the relay's check of an update | operators only: `Parse` from a document to a policy, `Malformed` or `Crash`; `ValidUpdate` |
| `StaticPolicy` | `StaticPolicyControlPlane` between an operator and the relay | `files` and `path` are the file system, `call` and `load` the call that holds the event loop and its read, `policy`, `goodFp`, `badFp` and `leases` the object's fields, `pc`, `renewal`, `poll` and `version` the relay's side |
| `StaticPolicyProofs` | | proofs for every set of documents, connections and number of files |
| `Registry` | registration in `server.py` and policy updates | one variable per dictionary of the server; one action per stretch of `_serve_agent`, of the renewal task and of `_apply_policy_update` |
| `RegistryProofs` | | proofs for every set of labels, accounts, leases and connections and every limit |
| `EventQueue` | the best-effort events | the queue, the worker and the five counters |
| `EventLog` | `JsonlEventSink` behind the queue | `log` is the files, `threads` the calls of `_write_event_sync`, one action per file operation; `CrashAndRestart` |
| `RelayLifetime` | `server.serve`, with the tunnels whose events fill the queue | `phase` is where `serve()` is, `bound` the listeners, `tunnel`, `agents` and `visit` what the shutdown meets, `snapshot` the muxes it drains |
| `RelayLifetimeProofs` | | proofs about `EventQueue`, `EventLog` and `RelayLifetime` for every capacity, number of attempts, set of events and tunnels, file size and number of backups |
| `Handshake` | `client.serve_forever` and `_run_once`; `server._handle_agent`, the failed-auth limiter, and `_serve_agent` as an agent sees it | `sup[a]` is an agent's supervisor, `conn[c]` one of its connections with the relay's handler, `free` the two semaphores, `authFails` the limiter's map |
| `Visitors` | `server._handle_visitor` beside `Handshake` | `vis[v]` is a visitor's handler; `pool`, `inFlight`, `ips` and `active` the server's counts |
| `VisitorsProofs` | | proofs about `Handshake` and `Visitors` for every crowd, slot count and limit |
| `MC…` | | the instances that TLC checks |

`Tunnel` composes with `Mux` by EXTENDS: a step of a pump contains the step of the
stream it calls, so TLC can check that the composed system implements `Mux`'s `Spec`.
`Mux` is related to `CreditLane` by `INSTANCE … WITH`, one instance per stream and
direction. `Visitors` extends `Handshake` in the same way: visitors are routed by the
label table that agents come into and go out of. `RelayLifetime` extends `EventLog`, which
extends `EventQueue`: tunnels emit events, the worker takes them, threads write them.

### Mux and CreditLane

A frame is its type, stream id, size and whether its payload decodes. DATA carries a
byte count; the bytes themselves never matter to the multiplexer. `_send` puts a frame
on the wire at the call: websockets keeps the order of `send()` calls, and a write that
blocks delays a frame without reordering it. A connection that dies loses any suffix of
what was under way; a close handshake delivers it. `left`, `parked` and `waiter` stand
for a `send()` in progress, `held` for the chunk that a pump has read and not yet
acknowledged, `resetTask` and `resetSends` for the spawned tasks.

`env` says what surrounds one connection (limits, who talks, which faults occur, how
many foreign frames arrive) and never changes, apart from counting the foreign frames.
With it one run covers several environments. Properties about two chute ends are
conditioned on `Compliant` (no foreign frame was injected); `CountersReconcile` and
`BuffersBounded` are not, except for the per-stream backstops: they hold whatever arrives.

The callers in `Mux` are the most general ones that keep the pumps' contract: one
sender and one consumer per stream, `close()` only after both directions are over,
`reset()` at any time. The property `Spec` in the run `tunnel_relay` shows that the real
pumps keep it.

Under `LanesImplemented` a lane is live while both ends run the stream; teardown at
either end maps to `Die`. The run `mux_safety` checks it on small instances, section 5 proves
it for all.

### Tunnel

`sock[e].left` is what the visitor (server side) or the local app (agent side) still
writes, `got` what was written to it, and `sink` how its write side ended: FIN, RST or
not yet. `relay[e].main` is the program counter of `_relay` or `_handle_stream`. The
server waits for its pumps in a fixed order, which the model keeps: the idle watch
first, then the writer pump, then the reader pump (`WriterFirst`, `ReaderFirst`,
`CancelSiblings`). The agent's TaskGroup cancels the other pump on the first failure.
When the agent's `run()` ends its handlers are cancelled; a parked writer pump sees the
sentinel before the cancellation, which `AgentRunEnds` keeps. The request head that the
server sends first counts as one byte. A socket that the relay itself has aborted reads as
ended; the reader pump sees this after the `reset()` task of the breach that led to the abort
has had its turn, since that task was made ready first.

### Registry

The bodies under `_registration_lock` contain no await, so the lock is never contended
and the suspension points are the required event, the ready message, `mux.run()` and
the calls to the control plane. The control plane (external) has a version, a set of
revoked leases and a set of accounts with a new budget; a poll's reply is computed when
the poll is answered and applied later, with anything in between. The reconnect rate
limit shows only as a refusal.

### EventQueue

`put_nowait` and the worker's `get` are the two ends; the worker waits after a failure
holding the item, then puts it back at the tail if there is room. Required events do
not use the queue and are part of `Registry`. The module is an open component: who emits
an event and when the worker is stopped is left to the module that extends it.

### EventLog and RelayLifetime

A line of the log is its event, and a file a sequence of lines; `log[0]` is the log and
`log[k]` its k-th backup. Each call of the sink is a thread of its own. The relay waits for
it no longer than `event_timeout`; after that a thread goes on beside the thread of the
retry, and only the sink's lock orders them. Rotation is modelled file operation by file
operation, so that an error or the death of the process can come between any two.

In `RelayLifetime` a tunnel is what `serve()` and the queue can tell apart of it: in its
handshake, claimed (its `tunnel_opened` was emitted, `ready` is being sent), live, retiring
(off the route table, closed by a background task), closing, ended. A visit to it ends by
itself (`done`), with its agent (`lost`), at a deadline (`late`), or is `cut` by the
shutdown. `phase` follows `serve()`: binding the listeners one by one, up, signalled, the
drains, the wait for the agents' handlers, the wait for the background tasks, returned.
A start that fails closes what was bound and raises. `asyncio.run()` cancels what outlives
`serve()` (`ExitCancels`).

### PolicyFile and StaticPolicy

A document is a record of the file's keys, with `Unset`, `Null` and `Bad` for a key that is
absent, null or of a wrong form; `LabelOf` and `HashOf` are the two conversions. The parser
keeps the order of its checks where it shows: what a file does depends on the first item
that fails. A fingerprint is the number of a file that was written; moving an older file
back brings its fingerprint back.

A call of the control plane holds the event loop while it reads the file, so only the
operator interleaves with `OpenFile`, `ReadText` and `LoadFile`. What differs between Python
versions is when the call runs: from 3.12 `asyncio.wait_for` awaits it in place and its
caller goes on in the same stretch; in 3.11, which `pyproject.toml` allows, it is a task of
its own, and other tasks run before and after it. `wrapped` selects one of the two, and the
run covers both.

### Handshake and Visitors

A connection `<<a, n>>` is the n-th attempt of agent `a`; the last is the current one, and
the relay may still work on any of the earlier ones. Its record says where the handler
is (`at`), what the agent was told (`answer`: `later` for a close code that is retried,
`refused` for a fatal one, `ready`, then `closed` for an error code or `retired` for a
drain) and whether the agent still has the connection (`link`). The reply timeout can
pass while an answer is under way, so `HearNothing` is possible at any time. `Kind` says
how the hello and the token are judged; an invalid label is refused like an `old`
version.

The labels are claimed as in `Registry`, with the leases and limits that an agent
cannot see reduced to a refusal, a revocation of the claim (`RetirePending`) or of the
tunnel (`Retire`). `authFails` keeps the failures of a source that are still within the
window, in the order in which the sources were entered; `WindowPasses` lets the oldest
failure of a source expire.

A visitor's handler holds its source's count from `Enter`, a pool slot from `TakePool`
and an account slot from `Reserve`. What the request head says is a choice between a
served label (`Route`) and anything else (`HeadFails`). A relay is a stream that ends at
some point; what happens on it is `Tunnel`'s. A lease that turns out to have expired when a
visitor is routed is `Retire` followed by `HeadFails`.

## 3. Runs

All runs finish in under five minutes with two workers. `CHECK_DEADLOCK FALSE` is
set everywhere: a closed connection, a finished visit, a registry whose connections are
all gone and a stopped worker are legitimate ends.

| run | question | instance |
|---|---|---|
| `lane_credit` | Is credit conserved, and is a blocked sender always owed and given a grant? | `W = 5` (odd: the threshold rounds), frames up to 3 |
| `mux_safety` | Do two `Mux` objects implement the lanes, end streams honestly and once, and keep their counters and limits? | `W = 2`, five environments below |
| `tunnel_relay` | Do the pumps keep the multiplexer's contract, pass on the right end, and deliver whole responses? | one visit, 2 request and 1 or 2 response bytes, `W = 1`; an orderly exchange, one with every failure, one with drains at both ends and a full account |
| `tunnel_live` | Does every visit end at both sides, and does every send return? | the same failures without the idle watch, which would end every visit by itself, and with sends of two windows; an agent that drains |
| `tunnel_response` | Is a response cut short always ended by RST? No. | the app may reset its connection |
| `registry_claims` | Do limits, ownership and indexes hold while handshakes race? | three connections, two accounts, two labels, one shared lease, `max_agents = 2`, `max_tunnels = 1` |
| `registry_leases` | Do revocations, renewals, required events and supersession end well in any order? | two connections of one account on two finite leases, one label, two policy versions |
| `visitors` | Do slots, counts, routes and supervisors survive agents and visitors in any order? | five small crowds, every limit 1 except a pool of 2 |
| `agent_gives_up` | Does a good agent keep its tunnel through a reconnect? No. | one agent, two connections |
| `relay_lifetime` | Does a relay start, stop and log its events as it says, whatever is under way? | five environments below; a queue of 2, two attempts, files of 2 bytes |
| `static_policy` | Does the relay follow the policy file through every edit? | one agent; 27 files to start from, then one of seven written over it or in its place, and files moved back at any time; both ways of calling |
| `policy_null` | Does a loaded policy keep serving through any live edit? No. | one edit, with a null |

The environments of `mux_safety`: *Flow* (4 bytes in sends of 1 and 3 over a window of
2, resets, stalls, cancelled sends), *Loss* (resets by both ends and a connection that
dies at either), *Shared* (two streams on an account with room for one byte: the breach
and its spawned reset meet ordinary teardown), *Foreign* (three frames out of fifteen
kinds that a compliant peer does not send, from either end, interleaved with legal
ones; the limits are scaled so that each is reached) and *Drains* (a send of two frames,
drains by both ends, drains that run out of time).

The environments of `relay_lifetime`: *Logging* with one and two backups (one tunnel, a
sink that fails and stalls anywhere, one crash; `tunnel_closed` is longer than a file),
*Stopping* (two tunnels, four listeners, starts that fail at any of them, retired tunnels, a
visit), *Busy* (two tunnels and a sink that raises: more events than the queue has room for)
and *Wrapped* (the lost cancellation of Python 3.11).

The crowds of `visitors`: a good agent beside one with an unknown token, from one source;
a bad and an old agent from two sources, which fill and evict the failed-auth map; an
agent that reconnects while a visitor comes; two visitors while a tunnel comes and goes;
five visitors from two sources and from exempt addresses, to labels that nobody serves.
Each semaphore has one slot, so that its timeout happens with two agents.

Why the bounds are enough: credit runs through several windows; every send size class
(below, at and above the window) occurs; each pair of tasks of one stream and each pair
of ends races; two streams are the least that share a counter, and three connections
the least in which a claim, a holder and a third account's claim coexist. Stream ids
stop at `MaxSid`, bytes, streams and foreign frames at the bounds in `env`, policy
versions at `MaxVersion`, visitors of an account at `MaxActive`, connections of an agent at
`Attempts`, policy files at `MaxFiles`, crashes at `MaxCrashes`. Two files are the least with
which a remembered fingerprint comes back, and every mistake the parser knows is one of
them; two backups are the least with which rotation has an order. For the safety properties,
which section 5 lists, larger instances are covered by the proofs; liveness rests on these
bounds.

### What the runs show

- `CreditConserved`, `BackstopsUnreachable`, `BlockedSenderIsOwed`,
  `BlockedSenderUnblocks`: batching at `max(1, W // 2)` never leaves sender and receiver
  waiting for each other, and a compliant sender never meets a per-stream backstop.
- `LanesImplemented`: none of the interleavings of the real multiplexer loses credit.
- `EofIsComplete`, `TerminalsAreFinal`, `QuietAfterEnd`: a clean end follows
  every framed byte, is never rewritten, and nothing is framed after an end.
- `CountersReconcile`, `BuffersBounded`: counters are what is queued, whatever the order of
  feed, read, reset and close; limits hold against any frames, and compliant peers stay
  clear of the per-stream backstops.
- `SendCompletes`, `VisitEnds`: nothing is left half dead.
- `PumpedEndIsHonest`, `ResponseFinIsComplete`, `Spec`: the pumps pass on the end that
  the stream had, and a visit nobody gave up gets its whole response.
- `IndexesExact`, `NoTakeover`, `WithinLimits`, `RevokedStaysOut`, `EventsPaired`,
  `ClaimsResolve`, `RevokedLeaseEnds`: the registry, as in section 1.
- `Accounted`, `EventsSettle`: the event queue, fed by tunnels that open, close, are cut and
  crash, and emptied into a real sink.
- `LogInOrder`, `FilesBounded`: errors, abandoned threads and crashes anywhere in a rotation
  lose no line in the middle and let no file grow; what was counted as delivered is written.
- `DrainedNotDropped`, `FinalEventsQueued`, `ShutdownEnds`: what `serve()` says of its own
  shutdown, for the tunnels registered when it starts.
- `CacheCoherent`, `InForceIsSound`: remembering fingerprints never serves a policy that the
  file does not hold, and no accepted file is ambiguous or has an update that the relay
  would refuse.
- `LiveLeaseKnown`, `RemovedCredentialEnds`, `UpdateReachesRelay`, `GoneLeasesForgotten`: pruning,
  renewal and polling agree about who is alive; what the operator finally wrote takes effect.
- `CountsExact`: every path out of the two handlers gives back exactly what it took, and
  the limits hold.
- `RoutesAreServed`, `ConnectedMeansRouted`, `HandlersEnd`: a handshake that its agent has
  given up may still claim, install and even take the label from the agent's next
  connection; the label never ends up at a handler that is gone, and the connection that
  lost it is told.
- `StopEnds`: a stop ends the supervisor from every place it can be in.

### Disagreements with the repository's own words

Three runs expect a violation, each of one property that a comment, document or test
states:

1. `agent_gives_up`: an agent loses its connection while its claim still waits for the
   event sink or for `ready` to be sent. Its next connection finds the label pending, is
   refused with 4002, and the supervisor never retries that code, because the comment in
   `client.py` holds that reconnecting would not help. It would; `PROTOCOL.md` 4.5 calls
   reconnects seamless. (An agent without a fixed subdomain meets the same end at its
   tunnel limit while the lost connection is still registered.)
2. `tunnel_response`: the agent resets a stream while the visitor is still uploading.
   The upload pump fails, `_relay` awaits it first and cancels the writer pump before it
   has passed the abort on; the visitor's socket is then closed with FIN after a truncated
   response. `_relay.py` says that downstream must never take a partial body for a
   complete one.
3. `policy_null`: `_optional_nonnegative_int` lets a null through, and `_parse_credentials`
   then asserts that `max_tunnels` is not None. `_load_policy` catches `OSError` and
   `ValueError` only, so a live edit with a null makes every admission, renewal and poll
   raise, although `CONTROL-PLANE.md` promises the last good policy for malformed edits.

More were met while modelling and have no run of their own:

- Withdrawing a pending claim (`server.py` 2076) does not drop the account's budget
  override, so an override set during the handshake outlives the account's work, which
  `test_multitenant_authz.py` 1173 expects to clear it.
- In Python 3.11 the list of active leases that a poll sends may predate a lease which the
  control plane has just issued and the relay has not yet claimed; pruning then forgets that
  lease and its next renewal is refused. `LiveLeaseKnown` is therefore stated for calls that
  run in place.
- In Python 3.11 `wait_for` drops a cancellation that meets a finished call. The event
  worker's (and the poller's) may be lost in this way, and `serve()` then waits for the worker
  without end. `ShutdownEnds` is stated for later versions.
- The snapshot that shutdown drains (`server.py` 762) has only registered tunnels. A handshake
  between claim and install, and a tunnel that is being retired, are not in it; their
  visits are cut when the process ends, although `PROTOCOL.md` says in-flight requests are
  drained. `DrainedNotDropped` is stated for the tunnels in the snapshot.
- The worker is kept alive for the final lifecycle events, but it is cancelled (`server.py`
  792) without waiting for the queue to empty, so events queued by then are lost.
  `FinalEventsQueued` says queued, not written.
- A policy update is a delta: a version that is replaced before any relay polled it loses its
  revocations. And a file written in place with its size and modification time restored
  keeps its fingerprint; the models give every write a new one.
- `mux.py` calls the backstops of `_feed` unreachable for a compliant peer. The
  connection-wide byte cap is not: 257 default windows exceed it while 4096 streams are
  allowed. `BuffersBounded` therefore speaks of the per-stream ones.
- Frames that a compliant peer had under way for a stream this end reset count towards
  `_MAX_IGNORED_FRAMES` over the whole life of a connection, so a long-lived busy
  connection can reach a limit that `PROTOCOL.md` says it never approaches.
- When the response ends before the request was fully uploaded, `_relay` cancels the
  upload and sends EOF, so the local app reads a truncated request as complete.
- `wait_until_ready` says "Block until connected", but `_connected` and `public_url` are
  cleared only when the next attempt starts, so during the backoff it returns the URL of
  the tunnel that was lost.

## 4. Fairness

- *Ready tasks run.* The event loop schedules every ready task: weak fairness of
  `SendStep`, `WakeSender`, `Read`, `Ack`, spawned resets, relay steps, and `Demux` (the
  demultiplexing loop never waits on a send).
- *Sockets accept what is written* (`Ack`, `PumpOutDrained`): in the code a sink that does
  not drain within `_DRAIN_TIMEOUT` fails the pump, which is the other branch.
- *A dead connection is noticed* (`Notice`, `RunEnds`): websockets' keepalive. *The grace
  of `drain()` ends* (`DrainClose`, `DrainReturns`), being a deadline.
- *The local app answers and ends its response* (`PumpIn(Agent)`, `PumpInEof(Agent)`):
  needed by `VisitEnds`; without it the idle watch ends the visit, if it is configured.
- *The sink, the control plane and sends answer or time out* (`Serve`, `RenewFails \/
  Renewed`, `SinkReturns \/ SinkFails`): each is wrapped in a timeout. `Expire` is fair only for a
  lease that the control plane no longer renews.
- *Every wait of a handshake and of the supervisor ends* (`Handle`, `Supervise`): the
  hello, both semaphores, the admission, the reply, the backoff and the agent's drain have
  timeouts, and keepalive ends `mux.run()` when the peer is gone. That the sends of
  `ready` and of errors end is keepalive's doing too. `Retire`, `RetirePending`, `Cut` and
  `RequestStop` are not fair.
- *A relay's start and stop* (`LifeFairness`): binding returns or raises; each wait in the
  shutdown has a timeout and each drain a deadline; the worker and the writing threads run,
  and `event_timeout` ends the wait for a thread. Nothing is assumed of agents, visitors,
  handlers or of a signal.
- *The static control plane*: a read ends (weak fairness). Polls, renewals, claims and their
  answers wait for the event loop in turn with everything else, so each is strongly fair:
  other calls may keep taking the loop, but not for ever. Nothing is assumed of the operator.
- Nothing is assumed of visitors, of a caller's wish to send or half-close, of agents that
  come and go, of policy polls, or of the sink's success.

## 5. Proofs

The theorems hold for every value of the constants that satisfies the `ASSUME` of the
component's module; TLC evaluates each of these on its runs. None of the properties is
inductive as it stands. Each proof module states a stronger invariant, shows that it holds
initially and that every action keeps it, and derives the properties from it.

| module | assumes | proves |
|---|---|---|
| `CreditLaneProofs` | `W` and `MaxFrame` positive | `CreditConserved`, `BackstopsUnreachable`, `BlockedSenderIsOwed`, the types |
| `MuxProofs` | `MuxAssumption`: positive limits, `W <= MaxSendWindow`, injected frames are frames | `CountersReconcile`, `BuffersBounded`, `EofIsComplete`, `QuietAfterEnd`, `TerminalsAreFinal`, `LanesImplemented`, and `CreditLane`'s invariants for every stream |
| `TunnelProofs` | the same and `TunnelAssumption`: one visit; a visitor sends something | that the relay implements `Mux` (`Spec`), `PumpedEndIsHonest`, `ResponseFinIsComplete` |
| `RegistryProofs` | `RegistryAssumption`: finitely many labels | `IndexesExact`, `NoTakeover`, `WithinLimits`, `RevokedStaysOut`, `EventsPaired` |
| `VisitorsProofs` | `HandshakeAssumption`, `VisitorsAssumption`: finitely many agents, visitors and sources | `RoutesAreServed`, `ConnectedMeansRouted`, `CountsExact` |
| `StaticPolicyProofs` | `DocumentsAssumption`: list fields hold lists; `CapsAssumption`: the relay's caps are not below the parser's, as in the code | `CacheCoherent`, `InForceIsSound`, `LiveLeaseKnown` |
| `RelayLifetimeProofs` | `QueueAssumption`: capacity and attempts positive; `LogAssumption`: lines are not empty, a missing file is not a sequence of lines; `LifetimeAssumption`: a control and a public listener | `Accounted`, the types of the queue, the bound on the calls of the sink; `LogInOrder`, `FilesBounded`; `DrainedNotDropped`, `FinalEventsQueued` |

*CreditLane.* Conservation alone bounds neither the frame counts nor a deadlock. `LaneInv`
adds that every frame under way or queued holds at least one byte (`FramesWithinBytes`),
that the unacknowledged batch is below the threshold (`BatchBelowThreshold`, which with
`Threshold <= W` makes a sender without credit owed a grant), that a lane that is not live
holds nothing (`DeadHoldsNothing`), and that no backstop was met.

*EventQueue.* `QueueInv` adds `HandMatches` (when the worker holds an item) and
`AttemptsCounted`, which ties the attempts stored in an item to the calls the sink has seen
for that event; the code tests only the item's own counter. Because an event can be at one
place only, `AttemptsCounted` also says that no two items carry one event. These theorems are
about `EventQueue`'s `Spec`, in which events are emitted and the worker is stopped at any
time; `RelayEventsAccounted` proves `Accounted` of `LifeSpec` too, where tunnels emit, calls
are given up, and a crash starts the queue afresh.

*EventLog.* That the files, read in order, are the end of what was written says nothing about
a rotation that is half done. `LogInv` adds where the history is cut into files (`Cuts`: a
non-increasing sequence of positions, so that a missing file is an empty cut and a shift moves
one cut); that only one thread is past the lock, although calls the relay gave up go on beside
their retries (`OneWriter`); and what each thread relies on where it is (`OnTrack`: the place a
file is moved to is free, and the test of `_rotate_if_needed` still holds at the append). A
crash or an error keeps `Cuts`, whichever file operations were done. `FilesBounded` is part of
the invariant; `LogInOrder` follows from `Cuts` by the lemmas about `FlattenSeq`.

*Mux.* `IInv` has two halves. `Books` holds whatever frames arrive: a live stream's counters
are the sums of its queue, a dead one's are zero, the connection's are the sums over its
streams, and all are within the limits. `Protocol` holds between two chute ends (no injected
frame). For each stream it compares what the two ends and the two halves of the wire say
(`View`): an id is opened once and in order (`IdsOK`), an end has put on the wire what it did
(`SentOK`), each byte framed is queued or under way as long as the peer listens and the
credit of a direction never exceeds `W` (`LaneOK`), and the frames under way come in a legal
order (`Ordered`). A clean end is complete because EOF follows DATA on the wire, which none of
the two ends can see alone; that a compliant peer meets no per-stream backstop comes from the
credit. The lemmas about sums over sequences (`SumAppend`, `SumTail`, `SumUpdate`, …, in
`SumProofs`) and about frames under way (`WireAppend`, `WireTail`) are shared by all actions.

*The lanes.* `LanesAreImplemented` shows `LanesImplemented`: each step of `Mux` between two
chute ends is, for each direction of each stream, a step of `CreditLane` or leaves its nine
amounts alone. `Purse` collects the amounts of one direction, `Flows` says what a step of a
lane does to them, and `LaneDecides` reduces a step to three questions: a lane is live after it
only if it was, or its stream is new; then it has one whole window; and else its purse flows.
`IInv` does not suffice, and `LanesOK` adds what it lacks: no DATA and no WINDOW_UPDATE under
way is empty (`Loaded`; an empty DATA frame would not be queued), and behind an EOF that was
taken there is no DATA for that stream (`Drained`; such a frame would be dropped with its
credit). That a grant is never cut by the cap of `_grant`, and that the oldest DATA frame fits
what `Feed` allows, come from the credit bound in `LaneOK`. With the refinement,
`CreditStaysWhole` carries `CreditConserved`, `BackstopsUnreachable` and `BlockedSenderIsOwed`
over to every stream of the multiplexer: between two chute ends credit is conserved, not
only never minted, and a drained sender without credit has a grant under way.

*Tunnel.* `RelayImplementsMux` shows of every step of the relay that it is a step of `Mux` or
leaves it alone, so the theorems of `MuxProofs` hold of the composed system. That needs an
invariant: a pump may call `send` only because nobody else is in the middle of one
(`SendOwned`), and `close` comes only after both directions (`TaskOK`). For the ends that a
socket is told, `QueueOK` says that the bytes queued and passed on are the bytes fed, and
that the sentinel is the last thing read; `SourceOK` that what the app wrote is framed,
being sent or still to be read; `ReasonOK` that a stream goes away or is aborted only if
somebody gave the visit up (`Troubled`), a breach has spawned its reset, or the relay is
over.

*Registry.* A connection in a table is at a place of its handshake that fits and under its own
label (`Placed`); nothing was announced before the claim (`NothingAnnounced`); a revoked
connection is past its claim (`RevokedPast`). With these the five code paths that keep the
indexes are one lemma each. *Handshake and Visitors.* What a handler has told its agent at
each place (`Replies`), that an agent's next connection is untouched (`Tracked`), and that a
step moves one handler between two of the sets that the counts count; the cap of the
failed-auth map is an invariant of its own (`LimiterInv`). *StaticPolicy.* What a
remembered fingerprint and a read in progress say about the file (`Cached`, `ReadOf`), and
that a call in place leaves no admission half done (`InPlace`). The parser is proved to accept
only sound policies (`ParsedIsSound`). *RelayLifetime.* What each phase of `serve()` has
already done (`Stages`), where a visit can be open (`VisitsOn`), and that a handler which
ended has queued its `tunnel_closed` (`Farewells`).

Only model-checked is liveness, which this prover does not reach: `BlockedSenderUnblocks`,
`SendCompletes`, `VisitEnds`, `ClaimsResolve`, `RevokedLeaseEnds`, `HandlersEnd`, `StopEnds`,
`EventsSettle`, `ShutdownEnds`, `RemovedCredentialEnds`, `UpdateReachesRelay`,
`GoneLeasesForgotten`. So are the three violations, which need a behaviour and not a proof.

## 6. Plan

Order of work, most important first; the first eleven are done.

1. `CreditLane` and its proofs.
2. `Mux`, refined to `CreditLane`.
3. `Tunnel` on top of `Mux`.
4. `Registry` with leases and policy.
5. `EventQueue` and its proofs (now in `RelayLifetimeProofs`).
6. `Handshake`: the agent's supervisor and the relay's handshake.
7. `Visitors`: the public side, beside `Handshake`.
8. `PolicyFile` and `StaticPolicy`: the policy file against what relays were told.
9. `EventLog` and `RelayLifetime`: the event sink, start and shutdown, crash and restart.
10. Proofs of the safety invariants of `Mux`, `Tunnel`, `Registry`, `Handshake`, `Visitors`,
    `StaticPolicy` and `RelayLifetime`, and of `Tunnel` implementing `Mux`.
11. Proofs of the remaining safety properties: `Mux` implementing `CreditLane`, and the files
    of `EventLog`.
12. The reconnect window per account, the thread facade of `Tunnel` (`start`, `stop`), the
    bandwidth schedule and the certificate watch.

## 7. Not modelled

- *Bandwidth schedule and certificate reload*: each is one loop or one formula over real time
  (bytes per second, modification times), with no partner that could interleave with it
  except the pruning of idle schedules.
- *The reconnect window per account* is a possible refusal in `Registry` and `Handshake`; it
  works like the failed-auth window that `Handshake` models.
- *Host and request-head parsing, names and tokens* are pure functions of bytes and are
  covered by the repository's fuzz targets; the models take their outcome.
- *Metrics and stats, command line, writing of private files, socket options, deployment,
  scripts and benchmarks*: sequential I/O and formatting. The client's thread facade
  (`start`, `stop`) hands its work to the supervisor that `Handshake` models.
- Byte contents, log lines, statistics, TLS and the length of timeouts and backoffs are left
  out of the modules above. The text of a log line is left out of `EventLog`, and so is a
  line half-written at a crash: a line is there or not.
