------------------------------ MODULE EventLog ------------------------------
(***************************************************************************)
(* The event queue's worker in front of a JsonlEventSink (src/chute/       *)
(* events.py): each call of the sink runs _write_event_sync in a thread,   *)
(* which takes the sink's lock, rotates the log files if the line would    *)
(* not fit, and appends the line.  The worker waits for the thread no      *)
(* longer than event_timeout; a thread that is given up goes on, beside    *)
(* the thread of the retry.  The process may die between any two file      *)
(* operations and be started again.                                        *)
(*                                                                         *)
(* A line is its event; log[0] is the log file, log[k] its k-th backup.    *)
(***************************************************************************)
EXTENDS EventQueue, SequencesExt, Summation

CONSTANTS
    Size,       \* [Events -> Nat]: the bytes of the event's line
    MaxBytes,   \* max_bytes of the sink
    Environments, \* records; .backups: backup_count, .hazards: what may go wrong
    NoFile,
    MaxCrashes  \* bound: crashes of the process

ASSUME LogAssumption ==
    /\ Size \in [Events -> Nat \ {0}] /\ MaxBytes \in Nat \ {0}
    /\ \A n \in Environments : n.backups \in Nat
    /\ NoFile \notin Seq(Events) /\ MaxCrashes \in Nat

VARIABLES
    env,     \* the environment of this behaviour; it never changes
    log,     \* [0 .. backups -> lines, or NoFile]
    threads, \* calls of _write_event_sync that have not returned to anybody
    written, \* history: the lines in the order they were written
    acked,   \* history: the events the worker counted as delivered
    crashes

logVars == <<env, log, threads, written, acked, crashes>>
backups == env.backups \* backup_count; 0 turns rotation off

\* A thread: the event, which call of the sink it is, where it is and which file it is at.
Thread(e, n) == [event |-> e, call |-> n, at |-> "lock", k |-> 0]

LogInit ==
    /\ env \in Environments
    /\ log = [k \in 0 .. backups |-> IF k = 0 THEN <<>> ELSE NoFile]
    /\ threads = {}
    /\ written = <<>>
    /\ acked = {}
    /\ crashes = 0

\* The thread the worker waits for.
Awaited(t) == worker = "sending" /\ t.event = item.event /\ t.call = tries[t.event]

Move(t, u) == threads' = (threads \ {t}) \cup {u}

\* The thread's function is over: its waiter hears of it, if there still is one.
Return(t, outcome) ==
    IF Awaited(t) THEN Move(t, [t EXCEPT !.at = outcome]) ELSE threads' = threads \ {t}

-----------------------------------------------------------------------------
(* _write_event_sync                                                       *)

Running(t) == t.at \notin {"lock", "done", "failed"}

\* Mutant of LockFree: no lock around the check and the write.
NoLock == TRUE

LockFree == \A t \in threads : ~Running(t)

Bytes(lines) == SumSeq([i \in DOMAIN lines |-> Size[lines[i]]])

\* _rotate_if_needed
NeedsRotation(e) ==
    /\ backups > 0
    /\ log[0] # NoFile /\ log[0] # <<>>
    /\ Bytes(log[0]) + Size[e] > MaxBytes

Acquire(t) ==
    /\ t.at = "lock" /\ LockFree
    /\ Move(t, [t EXCEPT !.at = IF NeedsRotation(t.event) THEN "unlink" ELSE "append"])
    /\ UNCHANGED <<vars, env, log, written, acked, crashes>>

\* Mutant of Unlink: off by one, the file before the oldest backup goes.
UnlinkNext(t) ==
    /\ t.at = "unlink"
    /\ log' = [log EXCEPT ![backups - 1] = NoFile]
    /\ Move(t, [t EXCEPT !.at = "shift", !.k = backups - 1])
    /\ UNCHANGED <<vars, env, written, acked, crashes>>

\* _rotate_locked: the oldest backup goes ...
Unlink(t) ==
    /\ t.at = "unlink"
    /\ log' = [log EXCEPT ![backups] = NoFile]
    /\ Move(t, [t EXCEPT !.at = "shift", !.k = backups - 1])
    /\ UNCHANGED <<vars, env, written, acked, crashes>>

\* ... the others and the log move up one place, the oldest first ...
Shift(t) ==
    /\ t.at = "shift"
    /\ log' = IF log[t.k] = NoFile THEN log
              ELSE [log EXCEPT ![t.k + 1] = log[t.k], ![t.k] = NoFile]
    /\ Move(t, IF t.k = 0 THEN [t EXCEPT !.at = "create"] ELSE [t EXCEPT !.k = @ - 1])
    /\ UNCHANGED <<vars, env, written, acked, crashes>>

\* ... and a new log is created.
Create(t) ==
    /\ t.at = "create"
    /\ log' = [log EXCEPT ![0] = <<>>]
    /\ Move(t, [t EXCEPT !.at = "append"])
    /\ UNCHANGED <<vars, env, written, acked, crashes>>

\* _open_append_file creates a log that is missing; the line is written.
AppendLine(t) ==
    /\ t.at = "append"
    /\ log' = [log EXCEPT ![0] = Append(IF @ = NoFile THEN <<>> ELSE @, t.event)]
    /\ written' = Append(written, t.event)
    /\ Return(t, "done")
    /\ UNCHANGED <<vars, env, acked, crashes>>

\* A file operation or a check of a file raises; what was done stays done.
WriteFails(t) ==
    /\ Running(t) /\ "sink" \in env.hazards
    /\ Return(t, "failed")
    /\ UNCHANGED <<vars, env, log, written, acked, crashes>>

Write(t) == Acquire(t) \/ Unlink(t) \/ Shift(t) \/ Create(t) \/ AppendLine(t) \/ WriteFails(t)

-----------------------------------------------------------------------------
(* _run_event_queue and _send_event_now                                    *)

CallSink ==
    /\ Take
    /\ threads' = threads \cup {Thread(item'.event, tries'[item'.event])}
    /\ UNCHANGED <<env, log, written, acked, crashes>>

SinkReturns ==
    \E t \in threads :
        /\ Awaited(t) /\ t.at = "done"
        /\ Deliver
        /\ threads' = threads \ {t}
        /\ acked' = acked \cup {t.event}
        /\ UNCHANGED <<env, log, written, crashes>>

\* The call raised, or event_timeout passed first: the thread is left to itself, or
\* never starts if it was still waiting for its turn.
SinkFails ==
    \E t \in threads :
        /\ Awaited(t) /\ (t.at = "failed" \/ "timeout" \in env.hazards)
        /\ Fail
        /\ \/ t.at \in {"lock", "done", "failed"} /\ threads' = threads \ {t}
           \/ t.at \notin {"done", "failed"} /\ UNCHANGED threads
        /\ UNCHANGED <<env, log, written, acked, crashes>>

PutBack == Requeue /\ UNCHANGED logVars

\* The process dies and is started again; JsonlEventSink.__init__ makes sure of the log.
CrashAndRestart ==
    /\ "crash" \in env.hazards /\ crashes < MaxCrashes
    /\ crashes' = crashes + 1
    /\ threads' = {}
    /\ log' = [log EXCEPT ![0] = IF @ = NoFile THEN <<>> ELSE @]
    /\ queue' = <<>> /\ worker' = "waiting" /\ item' = Nothing
    /\ generated' = 0 /\ enqueued' = 0 /\ delivered' = 0 /\ retried' = 0 /\ dropped' = 0
    /\ tries' = [e \in Events |-> 0]
    /\ UNCHANGED <<todo, env, written, acked>>

-----------------------------------------------------------------------------
(* Properties                                                              *)

Files == FlattenSeq([i \in 1 .. backups + 1 |->
            LET lines == log[backups + 1 - i] IN IF lines = NoFile THEN <<>> ELSE lines])

\* Read from the oldest backup to the log, the files hold the most recent lines, the
\* last one included, each once and in the order they were written: no rotation,
\* failure or crash half-way through a rotation loses a line in the middle, moves a
\* file out of order or overwrites a newer file.  What the relay counted as delivered
\* was written, although calls it gave up may have written the same event too.
LogInOrder ==
    /\ IsSuffix(Files, written)
    /\ written # <<>> => Files # <<>>
    /\ \A e \in acked : Contains(written, e)

\* No file grows past max_bytes, except by one line that is longer than that, however
\* many threads of retried and given-up calls write at once.
FilesBounded ==
    backups > 0 => \A k \in 0 .. backups :
        log[k] # NoFile => Bytes(log[k]) <= MaxBytes \/ Len(log[k]) = 1

=============================================================================
