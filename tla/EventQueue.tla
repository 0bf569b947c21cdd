----------------------------- MODULE EventQueue -----------------------------
(***************************************************************************)
(* The best-effort lifecycle event queue of src/chute/server.py:           *)
(* _emit_event puts events into a bounded asyncio.Queue and never waits;   *)
(* one worker, _run_event_queue, hands them to the event sink, waits a     *)
(* moment after a failure and puts the event back at the tail, and gives   *)
(* up after _EVENT_RETRY_ATTEMPTS calls or when the queue is full.         *)
(***************************************************************************)
EXTENDS Integers, Sequences

CONSTANTS
    Events,      \* the events of one run, each emitted once
    Capacity,    \* _EVENT_QUEUE_MAX
    MaxAttempts, \* _EVENT_RETRY_ATTEMPTS
    NoEvent      \* the worker holds no event

ASSUME QueueAssumption ==
    /\ Capacity \in Nat \ {0} /\ MaxAttempts \in Nat \ {0}
    /\ NoEvent \notin Events

VARIABLES
    todo,      \* events that the relay has yet to emit
    queue,     \* _event_queue: items [event, attempts]
    worker,    \* "waiting", "sending", "backoff" or "stopped"
    item,      \* the item the worker holds
    generated, \* the sum of _event_generated, required events aside
    enqueued,  \* _event_queue_enqueued
    delivered, \* _event_queue_delivered
    retried,   \* _event_queue_retried
    dropped,   \* _event_queue_dropped
    tries      \* history: [event -> calls of the sink]

vars == <<todo, queue, worker, item, generated, enqueued, delivered, retried, dropped, tries>>

Item(e, n) == [event |-> e, attempts |-> n]
Items == [event : Events, attempts : 0 .. MaxAttempts - 1]
Nothing == Item(NoEvent, 0)

Full == Len(queue) >= Capacity

Init ==
    /\ todo = Events
    /\ queue = <<>>
    /\ worker = "waiting"
    /\ item = Nothing
    /\ generated = 0 /\ enqueued = 0 /\ delivered = 0 /\ retried = 0 /\ dropped = 0
    /\ tries = [e \in Events |-> 0]

\* _emit_event, not required: put_nowait, or count a drop.
Emit(e) ==
    /\ e \in todo
    /\ todo' = todo \ {e}
    /\ generated' = generated + 1
    /\ IF Full
       THEN dropped' = dropped + 1 /\ UNCHANGED <<queue, enqueued>>
       ELSE /\ queue' = Append(queue, Item(e, 0))
            /\ enqueued' = enqueued + 1
            /\ UNCHANGED dropped
    /\ UNCHANGED <<worker, item, delivered, retried, tries>>

\* The worker's get() returns and it calls the sink.
Take ==
    /\ worker = "waiting" /\ queue # <<>>
    /\ item' = Head(queue)
    /\ queue' = Tail(queue)
    /\ worker' = "sending"
    /\ tries' = [tries EXCEPT ![Head(queue).event] = @ + 1]
    /\ UNCHANGED <<todo, generated, enqueued, delivered, retried, dropped>>

\* The sink took the event within event_timeout.
Deliver ==
    /\ worker = "sending"
    /\ delivered' = delivered + 1
    /\ worker' = "waiting"
    /\ item' = Nothing
    /\ UNCHANGED <<todo, queue, generated, enqueued, retried, dropped, tries>>

\* The test of _run_event_queue after a failed call.
MayRetry(n) == n + 1 < MaxAttempts

\* The sink raised or timed out (it may still have recorded the event).
Fail ==
    /\ worker = "sending"
    /\ IF MayRetry(item.attempts)
       THEN worker' = "backoff" /\ UNCHANGED <<item, dropped>>
       ELSE worker' = "waiting" /\ item' = Nothing /\ dropped' = dropped + 1
    /\ UNCHANGED <<todo, queue, generated, enqueued, delivered, retried, tries>>

\* Mutant of Requeue: an event that finds no room is not counted.
RequeueUncounted ==
    /\ worker = "backoff"
    /\ worker' = "waiting"
    /\ item' = Nothing
    /\ IF Full
       THEN UNCHANGED <<queue, retried>>
       ELSE /\ queue' = Append(queue, Item(item.event, item.attempts + 1))
            /\ retried' = retried + 1
    /\ UNCHANGED <<todo, generated, enqueued, delivered, dropped, tries>>

\* Mutant of Requeue: the only consumer waits for room in its own queue.
RequeueBlocks ==
    /\ worker = "backoff" /\ ~Full
    /\ worker' = "waiting"
    /\ item' = Nothing
    /\ queue' = Append(queue, Item(item.event, item.attempts + 1))
    /\ retried' = retried + 1
    /\ UNCHANGED <<todo, generated, enqueued, delivered, dropped, tries>>

\* _EVENT_RETRY_DELAY later: back to the tail, or dropped if new events filled it.
Requeue ==
    /\ worker = "backoff"
    /\ worker' = "waiting"
    /\ item' = Nothing
    /\ IF Full
       THEN dropped' = dropped + 1 /\ UNCHANGED <<queue, retried>>
       ELSE /\ queue' = Append(queue, Item(item.event, item.attempts + 1))
            /\ retried' = retried + 1
            /\ UNCHANGED dropped
    /\ UNCHANGED <<todo, generated, enqueued, delivered, tries>>

\* serve() cancels the worker at the end of the shutdown, wherever it is.
Stop ==
    /\ worker # "stopped"
    /\ worker' = "stopped"
    /\ UNCHANGED <<todo, queue, item, generated, enqueued, delivered, retried, dropped, tries>>

Next ==
    \/ \E e \in Events : Emit(e)
    \/ Take \/ Deliver \/ Fail \/ Requeue \/ Stop

Spec == Init /\ [][Next]_vars

-----------------------------------------------------------------------------
\* Types; the queue never holds more than its capacity.
TypeOK ==
    /\ todo \subseteq Events
    /\ queue \in Seq(Items) /\ Len(queue) <= Capacity
    /\ worker \in {"waiting", "sending", "backoff", "stopped"}
    /\ item \in Items \cup {Nothing}
    /\ {generated, enqueued, delivered, retried, dropped} \subseteq Nat
    /\ tries \in [Events -> Nat]

InHand == IF item = Nothing THEN 0 ELSE 1

\* PROTOCOL.md 4.6, "operators can distinguish local activity from exporter
\* overload": the counters account for every event.  What was generated was
\* delivered, was dropped, or is still queued or with the worker.
Accounted == generated = delivered + dropped + Len(queue) + InHand

\* However often it is put back, an event costs the sink at most MaxAttempts calls.
TriesBounded == \A e \in Events : tries[e] <= MaxAttempts

\* An event is out of the relay's hands: delivered or dropped, and counted.
Settled(e) ==
    /\ e \notin todo /\ item.event # e
    /\ \A i \in DOMAIN queue : queue[i].event # e

\* A sink that keeps failing can not hold the queue up: every emitted event is
\* delivered or dropped, or the relay stops.
EventsSettle ==
    \A e \in Events : (e \notin todo) ~> (Settled(e) \/ worker = "stopped")

=============================================================================
