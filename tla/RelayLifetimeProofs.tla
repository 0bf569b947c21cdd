------------------------ MODULE RelayLifetimeProofs ------------------------
(***************************************************************************)
(* Proofs about EventQueue, EventLog and RelayLifetime, for every set of   *)
(* events and tunnels, capacity, number of attempts, file size, number of  *)
(* backups, choice of listeners and hazards, and number of crashes.        *)
(*                                                                         *)
(* Queue: TriesBounded is not inductive: it rests on an event being at one *)
(* place at most (not yet emitted, at one position of the queue, or in the *)
(* worker's hands) and on its attempts counter being the calls of the sink *)
(* so far (AttemptsCounted).                                               *)
(*                                                                         *)
(* Log: that the files hold the last lines in order is kept by a rotation  *)
(* half done because the history stays cut into files (Cuts), one thread   *)
(* at a time moves them (OneWriter), and each finds what it tested         *)
(* (OnTrack).                                                              *)
(*                                                                         *)
(* serve(): DrainedNotDropped and FinalEventsQueued are about its end;     *)
(* what makes them inductive is what each of its phases has already done   *)
(* (Stages), where a visit can still be open (VisitsOn), and that a        *)
(* handler which ended has said so (Farewells).                            *)
(***************************************************************************)
EXTENDS RelayLifetime, SumProofs

-----------------------------------------------------------------------------
(* The event queue                                                         *)

\* The worker's state and what it holds agree, and an item that may be put back
\* has an attempt left.
HandMatches ==
    /\ worker = "waiting" => item = Nothing
    /\ worker \in {"sending", "backoff"} => item \in Items
    /\ worker = "backoff" => item.attempts + 1 < MaxAttempts

\* An event is at one place, and its item counts the calls of the sink.
AttemptsCounted ==
    /\ \A e \in todo : tries[e] = 0
    /\ \A i \in 1 .. Len(queue) :
          /\ queue[i].event \notin todo
          /\ tries[queue[i].event] = queue[i].attempts
          /\ item # Nothing => queue[i].event # item.event
    /\ \A i, j \in 1 .. Len(queue) : i # j => queue[i].event # queue[j].event
    /\ item # Nothing =>
          /\ item.event \notin todo
          /\ tries[item.event] = item.attempts + 1

QueueInv == TypeOK /\ HandMatches /\ Accounted /\ AttemptsCounted /\ TriesBounded

\* The empty item is not an item of the queue.
LEMMA NothingIsNoItem == Nothing \notin Items
  BY QueueAssumption DEF Nothing, Items, Item

\* Initially nothing is queued and nothing was counted.
LEMMA QueueInit == Init => QueueInv
  BY QueueAssumption
  DEF Init, QueueInv, TypeOK, HandMatches, Accounted, InHand, AttemptsCounted, TriesBounded

\* The worker lets go of its item: the event is delivered or dropped, and counted.
LEMMA LetGo ==
  ASSUME QueueInv, item \in Items, item' = Nothing, worker' = "waiting",
         \/ delivered' = delivered + 1 /\ dropped' = dropped
         \/ delivered' = delivered /\ dropped' = dropped + 1,
         UNCHANGED <<todo, queue, generated, enqueued, retried, tries>>
  PROVE  QueueInv'
<1>1. Len(queue) \in Nat /\ item # Nothing
  BY LenProperties, NothingIsNoItem DEF QueueInv, TypeOK
<1>2. delivered \in Nat /\ dropped \in Nat /\ generated \in Nat
  BY DEF QueueInv, TypeOK
<1>3. TypeOK'
  BY <1>2 DEF QueueInv, TypeOK
<1>4. HandMatches' /\ TriesBounded'
  BY DEF QueueInv, HandMatches, TriesBounded
<1>5. Accounted'
  BY <1>1, <1>2 DEF QueueInv, Accounted, InHand
<1>6. AttemptsCounted'
  BY <1>1 DEF QueueInv, AttemptsCounted
<1> QED BY <1>3, <1>4, <1>5, <1>6 DEF QueueInv

\* Every step preserves the invariant: one step per action of the module.
LEMMA QueueStep == QueueInv /\ [Next]_vars => QueueInv'
<1> SUFFICES ASSUME QueueInv, [Next]_vars PROVE QueueInv'
  OBVIOUS
<1> USE QueueAssumption, NothingIsNoItem
<1>1. ASSUME NEW e \in Events, Emit(e) PROVE QueueInv'
  <2>1. CASE Full
    <3>1. UNCHANGED <<queue, enqueued, worker, item, delivered, retried, tries>>
          /\ dropped' = dropped + 1 /\ generated' = generated + 1 /\ todo' = todo \ {e}
      BY <1>1, <2>1 DEF Emit
    <3>2. Len(queue) \in Nat
      BY LenProperties DEF QueueInv, TypeOK
    <3>3. TypeOK'
      BY <3>1 DEF QueueInv, TypeOK
    <3>4. HandMatches' /\ TriesBounded'
      BY <3>1 DEF QueueInv, HandMatches, TriesBounded
    <3>5. Accounted'
      BY <3>1, <3>2 DEF QueueInv, TypeOK, Accounted, InHand
    <3>6. AttemptsCounted'
      BY <3>1, <3>2 DEF QueueInv, TypeOK, AttemptsCounted
    <3> QED BY <3>3, <3>4, <3>5, <3>6 DEF QueueInv
  <2>2. CASE ~Full
    <3> DEFINE new == Item(e, 0)
    <3>1. /\ queue' = Append(queue, new) /\ todo' = todo \ {e} /\ e \in todo
          /\ enqueued' = enqueued + 1 /\ generated' = generated + 1
          /\ UNCHANGED <<worker, item, delivered, retried, dropped, tries>>
      BY <1>1, <2>2 DEF Emit
    <3>2. new \in Items /\ new.event = e /\ new.attempts = 0
      BY DEF Item, Items
    <3>3. queue \in Seq(Items) /\ Len(queue) \in Nat /\ Len(queue) < Capacity
      BY <2>2, LenProperties DEF QueueInv, TypeOK, Full
    <3>4. /\ queue' \in Seq(Items) /\ Len(queue') = Len(queue) + 1
          /\ \A i \in 1 .. Len(queue) : queue'[i] = queue[i]
          /\ queue'[Len(queue) + 1] = new
      BY <3>1, <3>2, <3>3, AppendProperties
    <3>5. TypeOK'
      BY <3>1, <3>3, <3>4 DEF QueueInv, TypeOK
    <3>6. HandMatches' /\ TriesBounded'
      BY <3>1 DEF QueueInv, HandMatches, TriesBounded
    <3>7. Accounted'
      BY <3>1, <3>3, <3>4, SMTT(30) DEF QueueInv, TypeOK, Accounted, InHand
    <3>8. AttemptsCounted'
      BY <3>1, <3>2, <3>3, <3>4, SMTT(30) DEF QueueInv, TypeOK, AttemptsCounted
    <3> QED BY <3>5, <3>6, <3>7, <3>8 DEF QueueInv
  <2> QED BY <2>1, <2>2
<1>2. CASE Take
  <2>1. /\ worker = "waiting" /\ queue # <<>> /\ item = Nothing
        /\ item' = Head(queue) /\ queue' = Tail(queue) /\ worker' = "sending"
        /\ tries' = [tries EXCEPT ![Head(queue).event] = @ + 1]
        /\ UNCHANGED <<todo, generated, enqueued, delivered, retried, dropped>>
    BY <1>2 DEF Take, QueueInv, HandMatches
  <2>2. queue \in Seq(Items) /\ Len(queue) \in Nat /\ Len(queue) > 0
    BY <2>1, EmptySeq, LenProperties DEF QueueInv, TypeOK
  <2>3. /\ queue' \in Seq(Items) /\ Len(queue') = Len(queue) - 1
        /\ \A i \in 1 .. Len(queue') : queue'[i] = queue[i + 1]
        /\ item' = queue[1] /\ item' \in Items
    BY <2>1, <2>2, HeadTailProperties, ElementOfSeq
  <2>4. item'.event \in Events /\ item'.attempts \in 0 .. MaxAttempts - 1 /\ item' # Nothing
    BY <2>3 DEF Items
  <2>5. /\ tries'[item'.event] = item'.attempts + 1
        /\ \A e \in Events : e # item'.event => tries'[e] = tries[e]
        /\ tries' \in [Events -> Nat]
    BY <2>1, <2>2, <2>3, <2>4 DEF QueueInv, TypeOK, AttemptsCounted
  <2>6. TypeOK'
    BY <2>1, <2>2, <2>3, <2>5 DEF QueueInv, TypeOK
  <2>7. HandMatches'
    BY <2>1, <2>3 DEF HandMatches
  <2>8. Accounted'
    BY <2>1, <2>2, <2>3, <2>4 DEF QueueInv, TypeOK, Accounted, InHand
  <2>9. TriesBounded'
    BY <2>4, <2>5 DEF QueueInv, TypeOK, TriesBounded
  <2>10. AttemptsCounted'
    <3>1. \A i \in 1 .. Len(queue') : i + 1 \in 1 .. Len(queue) /\ i + 1 # 1
                                      /\ queue[i + 1].event \in Events
      <4>1. \A k \in 1 .. Len(queue) : queue[k] \in Items
        BY <2>2, ElementOfSeq
      <4>2. \A k \in 1 .. Len(queue) : queue[k].event \in Events
        BY <4>1 DEF Items
      <4>3. \A i \in 1 .. Len(queue') : i + 1 \in 1 .. Len(queue) /\ i + 1 # 1
        BY <2>2, <2>3
      <4> QED BY <4>2, <4>3
    <3>2. \A i \in 1 .. Len(queue') :
             /\ queue'[i].event \notin todo'
             /\ queue'[i].event # item'.event
             /\ tries'[queue'[i].event] = queue'[i].attempts
      BY <2>1, <2>2, <2>3, <2>5, <3>1 DEF QueueInv, AttemptsCounted
    <3>3. \A i, j \in 1 .. Len(queue') : i # j => queue'[i].event # queue'[j].event
      BY <2>2, <2>3, <3>1 DEF QueueInv, AttemptsCounted
    <3>4. item'.event \notin todo' /\ \A e \in todo' : tries'[e] = 0
      BY <2>1, <2>2, <2>3, <2>5 DEF QueueInv, TypeOK, AttemptsCounted
    <3> QED BY <3>2, <3>3, <3>4, <2>5 DEF AttemptsCounted
  <2> QED BY <2>6, <2>7, <2>8, <2>9, <2>10 DEF QueueInv
<1>3. CASE Deliver
  <2>1. item \in Items /\ item' = Nothing /\ worker' = "waiting" /\ delivered' = delivered + 1
        /\ UNCHANGED <<todo, queue, generated, enqueued, retried, dropped, tries>>
    BY <1>3 DEF Deliver, QueueInv, HandMatches
  <2> QED BY <2>1, LetGo
<1>4. CASE Fail
  <2>1. CASE MayRetry(item.attempts)
    <3>1. worker' = "backoff" /\ item \in Items /\ item.attempts + 1 < MaxAttempts
          /\ UNCHANGED <<item, dropped, todo, queue, generated, enqueued, delivered,
                         retried, tries>>
      BY <1>4, <2>1 DEF Fail, MayRetry, QueueInv, HandMatches
    <3> QED
      BY <3>1 DEF QueueInv, TypeOK, HandMatches, Accounted, InHand, AttemptsCounted, TriesBounded
  <2>2. CASE ~MayRetry(item.attempts)
    <3>1. item \in Items /\ item' = Nothing /\ worker' = "waiting" /\ dropped' = dropped + 1
          /\ UNCHANGED <<todo, queue, generated, enqueued, delivered, retried, tries>>
      BY <1>4, <2>2 DEF Fail, QueueInv, HandMatches
    <3> QED BY <3>1, LetGo
  <2> QED BY <2>1, <2>2
<1>5. CASE Requeue
  <2>1. item \in Items /\ item # Nothing /\ item.attempts + 1 < MaxAttempts
        /\ item' = Nothing /\ worker' = "waiting"
        /\ UNCHANGED <<todo, generated, enqueued, delivered, tries>>
    BY <1>5 DEF Requeue, QueueInv, HandMatches
  <2>2. CASE Full
    <3>1. dropped' = dropped + 1 /\ UNCHANGED <<queue, retried>>
      BY <1>5, <2>2 DEF Requeue
    <3> QED BY <2>1, <3>1, LetGo
  <2>3. CASE ~Full
    <3> DEFINE new == Item(item.event, item.attempts + 1)
    <3>1. queue' = Append(queue, new) /\ retried' = retried + 1 /\ UNCHANGED dropped
      BY <1>5, <2>3 DEF Requeue
    <3>2. /\ item.event \in Events /\ item.attempts \in 0 .. MaxAttempts - 1
          /\ new \in Items /\ new.event = item.event /\ new.attempts = item.attempts + 1
      BY <2>1 DEF Item, Items
    <3>3. queue \in Seq(Items) /\ Len(queue) \in Nat /\ Len(queue) < Capacity
      BY <2>3, LenProperties DEF QueueInv, TypeOK, Full
    <3>4. /\ queue' \in Seq(Items) /\ Len(queue') = Len(queue) + 1
          /\ \A i \in 1 .. Len(queue) : queue'[i] = queue[i]
          /\ queue'[Len(queue) + 1] = new
      BY <3>1, <3>2, <3>3, AppendProperties
    <3>5. TypeOK'
      BY <2>1, <3>1, <3>3, <3>4 DEF QueueInv, TypeOK
    <3>6. HandMatches' /\ TriesBounded'
      BY <2>1 DEF QueueInv, HandMatches, TriesBounded
    <3>7. Accounted'
      BY <2>1, <3>1, <3>3, <3>4 DEF QueueInv, TypeOK, Accounted, InHand
    <3>8. AttemptsCounted'
      <4> HIDE DEF new
      <4>1. \A i \in 1 .. Len(queue') : i \in 1 .. Len(queue) \/ i = Len(queue) + 1
        BY <3>3, <3>4
      <4>2. \A i \in 1 .. Len(queue) :
               /\ queue'[i].event \notin todo'
               /\ tries'[queue'[i].event] = queue'[i].attempts
               /\ queue'[i].event # new.event
        BY <2>1, <3>2, <3>4 DEF QueueInv, AttemptsCounted
      <4>3. new.event \notin todo' /\ tries'[new.event] = new.attempts
        BY <2>1, <3>2 DEF QueueInv, AttemptsCounted
      <4>4. \A i \in 1 .. Len(queue') :
               queue'[i].event \notin todo' /\ tries'[queue'[i].event] = queue'[i].attempts
        BY <3>4, <4>1, <4>2, <4>3
      <4>5. \A i, j \in 1 .. Len(queue) : i # j => queue'[i].event # queue'[j].event
        BY <3>4 DEF QueueInv, AttemptsCounted
      <4>6. \A i, j \in 1 .. Len(queue') : i # j => queue'[i].event # queue'[j].event
        BY <3>4, <4>1, <4>2, <4>5
      <4>7. \A e \in todo' : tries'[e] = 0
        BY <2>1 DEF QueueInv, AttemptsCounted
      <4> QED BY <2>1, <4>4, <4>6, <4>7 DEF AttemptsCounted
    <3> QED BY <3>5, <3>6, <3>7, <3>8 DEF QueueInv
  <2> QED BY <2>2, <2>3
<1>6. CASE Stop
  BY <1>6 DEF Stop, QueueInv, TypeOK, HandMatches, Accounted, InHand, AttemptsCounted, TriesBounded
<1>7. CASE UNCHANGED vars
  BY <1>7 DEF vars, QueueInv, TypeOK, HandMatches, Accounted, InHand, AttemptsCounted, TriesBounded
<1> QED BY <1>1, <1>2, <1>3, <1>4, <1>5, <1>6, <1>7 DEF Next

\* The inductive invariant holds of every behaviour.
THEOREM QueueInvariant == Spec => []QueueInv
  BY QueueInit, QueueStep, PTL DEF Spec

\* Type correctness of the event queue; it never outgrows its capacity.
THEOREM QueueTypes == Spec => []TypeOK
<1>1. QueueInv => TypeOK
  BY DEF QueueInv
<1> QED BY <1>1, QueueInvariant, PTL

\* For every capacity and any order of emits, failures and retries, the counters
\* of _emit_event and _run_event_queue account for every event.
THEOREM EventsAreAccounted == Spec => []Accounted
<1>1. QueueInv => Accounted
  BY DEF QueueInv
<1> QED BY <1>1, QueueInvariant, PTL

\* An event costs the sink at most _EVENT_RETRY_ATTEMPTS calls.
THEOREM SinkCallsBounded == Spec => []TriesBounded
<1>1. QueueInv => TriesBounded
  BY DEF QueueInv
<1> QED BY <1>1, QueueInvariant, PTL

-----------------------------------------------------------------------------
(* The log files                                                           *)

Contents == Seq(Events) \cup {NoFile}
ThreadRecs ==
    [event : Events, call : Nat, k : 0 .. backups,
     at : {"lock", "unlink", "shift", "create", "append", "done", "failed"}]

\* The lines of the k-th file of g; a file that is missing has none.
LinesOf(g, k) == IF g[k] = NoFile THEN <<>> ELSE g[k]

\* Types of the files, the threads and what was written.
LogTypes ==
    /\ env \in Environments
    /\ log \in [0 .. backups -> Contents]
    /\ threads \subseteq ThreadRecs
    /\ written \in Seq(Events)

\* c cuts w, the lines that were written, into n + 1 files and what was rotated away:
\* the k-th file has the lines after c[k + 1] up to c[k], and some file has the last.
Cuts(g, n, w, c) ==
    /\ c \in [0 .. n + 1 -> 0 .. Len(w)] /\ c[0] = Len(w)
    /\ \A i, j \in 0 .. n + 1 : i <= j => c[j] <= c[i]
    /\ \A k \in 0 .. n : LinesOf(g, k) = SubSeq(w, c[k + 1] + 1, c[k])
    /\ w # <<>> => c[n + 1] < Len(w)

\* The lock: at most one thread is past it.
OneWriter == \A t, u \in threads : Running(t) /\ Running(u) => t = u

\* What a thread relies on where it is: the test of _rotate_if_needed still holds, and
\* the place a file is moved to is free.
OnTrack(t) ==
    /\ t.at = "unlink" => backups > 0 /\ LinesOf(log, 0) # <<>>
    /\ t.at = "shift" => t.k < backups /\ log[t.k + 1] = NoFile
    /\ t.at = "create" => log[0] = NoFile
    /\ t.at = "append" => \/ backups = 0 \/ LinesOf(log, 0) = <<>>
                          \/ Bytes(LinesOf(log, 0)) + Size[t.event] <= MaxBytes
    /\ t.at = "done" => Contains(written, t.event)

LogInv ==
    /\ LogTypes
    /\ \E c : Cuts(log, backups, written, c)
    /\ OneWriter
    /\ \A t \in threads : OnTrack(t)
    /\ \A e \in acked : Contains(written, e)
    /\ FilesBounded

\* A file's lines are a sequence of events.
LEMMA LinesAre ==
    ASSUME NEW n \in Nat, NEW g \in [0 .. n -> Contents], NEW k \in 0 .. n
    PROVE  LinesOf(g, k) \in Seq(Events) /\ Len(LinesOf(g, k)) \in Nat
BY EmptySeq, LenProperties DEF LinesOf, Contents

\* The lines between two cuts.
LEMMA Segment ==
    ASSUME NEW w \in Seq(Events), NEW a \in 0 .. Len(w), NEW b \in 0 .. Len(w), a <= b
    PROVE  /\ SubSeq(w, a + 1, b) \in Seq(Events)
           /\ Len(SubSeq(w, a + 1, b)) = b - a
           /\ \A i \in 1 .. b - a : SubSeq(w, a + 1, b)[i] = w[a + i]
<1>1. Len(w) \in Nat /\ a \in Nat /\ b \in Nat /\ \A i \in 1 .. Len(w) : w[i] \in Events
  BY LenProperties
<1>2. \A i \in a + 1 .. b : w[i] \in Events
  BY <1>1
<1>3. /\ SubSeq(w, a + 1, b) \in Seq(Events)
      /\ Len(SubSeq(w, a + 1, b)) = IF a + 1 <= b THEN b - (a + 1) + 1 ELSE 0
      /\ \A i \in 1 .. b - (a + 1) + 1 : SubSeq(w, a + 1, b)[i] = w[(a + 1) + i - 1]
  <2>1. a + 1 \in Int /\ b \in Int
    BY <1>1
  <2> QED
    BY <1>2, <2>1, SubSeqProperties
<1>4. b - (a + 1) + 1 = b - a /\ \A i \in 1 .. b - a : (a + 1) + i - 1 = a + i
  BY <1>1
<1> QED
  BY <1>1, <1>3, <1>4

\* A cut, and the file below it.
LEMMA CutAt ==
    ASSUME NEW n \in Nat, NEW w \in Seq(Events), NEW g, NEW c, Cuts(g, n, w, c), NEW k \in 0 .. n
    PROVE  /\ c[k] \in 0 .. Len(w) /\ c[k + 1] \in 0 .. Len(w) /\ c[k + 1] <= c[k]
           /\ Len(LinesOf(g, k)) = c[k] - c[k + 1]
<1>1. k \in 0 .. n + 1 /\ k + 1 \in 0 .. n + 1 /\ k <= k + 1
  OBVIOUS
<1>2. c[k] \in 0 .. Len(w) /\ c[k + 1] \in 0 .. Len(w) /\ c[k + 1] <= c[k]
  BY <1>1 DEF Cuts
<1> QED
  BY <1>2, Segment DEF Cuts

\* Unlinking the oldest backup forgets its lines; the log is not empty, so it is not
\* all that there is.
LEMMA CutUnlink ==
    ASSUME NEW n \in Nat \ {0}, NEW w \in Seq(Events), NEW g \in [0 .. n -> Contents], NEW c,
           Cuts(g, n, w, c), LinesOf(g, 0) # <<>>
    PROVE  \E d : Cuts([g EXCEPT ![n] = NoFile], n, w, d)
<1> DEFINE h == [g EXCEPT ![n] = NoFile]
           d == [c EXCEPT ![n + 1] = c[n]]
<1>0. Len(w) \in Nat /\ n \in 0 .. n /\ n \in 0 .. n + 1 /\ n + 1 \in 0 .. n + 1 /\ 0 \in 0 .. n + 1 /\ 1 \in 0 .. n + 1
      /\ 0 \in 0 .. n
  BY LenProperties
<1>1. /\ c \in [0 .. n + 1 -> 0 .. Len(w)] /\ c[0] = Len(w)
      /\ \A i, j \in 0 .. n + 1 : i <= j => c[j] <= c[i]
      /\ \A k \in 0 .. n : LinesOf(g, k) = SubSeq(w, c[k + 1] + 1, c[k])
  BY DEF Cuts
<1>2. /\ d \in [0 .. n + 1 -> 0 .. Len(w)] /\ d[0] = Len(w) /\ d[n + 1] = c[n]
      /\ \A i \in 0 .. n : d[i] = c[i]
  BY <1>0, <1>1
<1>3. \A i, j \in 0 .. n + 1 : i <= j => d[j] <= d[i]
  <2> SUFFICES ASSUME NEW i \in 0 .. n + 1, NEW j \in 0 .. n + 1, i <= j PROVE d[j] <= d[i]
    OBVIOUS
  <2>1. CASE j # n + 1
    BY <1>1, <1>2, <2>1
  <2>2. CASE j = n + 1 /\ i # n + 1
    <3>1. i \in 0 .. n /\ c[n] <= c[i]
      BY <1>0, <1>1, <2>2
    <3> QED
      BY <1>2, <2>2, <3>1
  <2>3. CASE i = n + 1
    <3>1. i = j /\ d[i] \in 0 .. Len(w)
      BY <1>2, <2>3
    <3> QED
      BY <1>0, <3>1
  <2> QED
    BY <2>1, <2>2, <2>3
<1>4. \A k \in 0 .. n : LinesOf(h, k) = SubSeq(w, d[k + 1] + 1, d[k])
  <2> SUFFICES ASSUME NEW k \in 0 .. n PROVE LinesOf(h, k) = SubSeq(w, d[k + 1] + 1, d[k])
    OBVIOUS
  <2>1. CASE k = n
    <3>1. LinesOf(h, k) = <<>>
      BY <2>1 DEF LinesOf
    <3>2. d[k + 1] = c[n] /\ d[k] = c[n] /\ c[n] \in 0 .. Len(w)
      BY <1>0, <1>1, <1>2, <2>1
    <3>3. SubSeq(w, c[n] + 1, c[n]) = <<>>
      BY <1>0, <3>2, SubSeqEmpty
    <3> QED
      BY <3>1, <3>2, <3>3
  <2>2. CASE k # n
    <3>1. LinesOf(h, k) = LinesOf(g, k)
      BY <2>2 DEF LinesOf
    <3>2. k + 1 \in 0 .. n
      BY <2>2
    <3> QED
      BY <1>1, <1>2, <3>1, <3>2
  <2> QED
    BY <2>1, <2>2
<1>5. c[n] < Len(w)
  <2>1. Len(LinesOf(g, 0)) \in Nat /\ Len(LinesOf(g, 0)) # 0
    BY <1>0, LinesAre, EmptySeq
  <2>2. Len(LinesOf(g, 0)) = c[0] - c[0 + 1] /\ c[1] \in 0 .. Len(w)
    BY <1>0, CutAt
  <2>3. c[n] <= c[1] /\ c[n] \in 0 .. Len(w)
    BY <1>0, <1>1
  <2> QED
    BY <1>0, <1>1, <2>1, <2>2, <2>3
<1> HIDE DEF d, h
<1>6. Cuts(h, n, w, d)
  BY <1>1, <1>2, <1>3, <1>4, <1>5 DEF Cuts
<1> QED
  BY <1>6 DEF h

\* Moving a file to the free place above it moves the cut between the two.
LEMMA CutShift ==
    ASSUME NEW n \in Nat, NEW w \in Seq(Events), NEW g \in [0 .. n -> Contents], NEW c,
           Cuts(g, n, w, c), NEW m \in 0 .. n - 1, g[m + 1] = NoFile
    PROVE  \E d : Cuts([g EXCEPT ![m + 1] = g[m], ![m] = NoFile], n, w, d)
<1> DEFINE h == [g EXCEPT ![m + 1] = g[m], ![m] = NoFile]
           d == [c EXCEPT ![m + 1] = c[m]]
<1>0. /\ Len(w) \in Nat /\ m \in Nat /\ m \in 0 .. n /\ m + 1 \in 0 .. n /\ m + 1 \in 0 .. n + 1
      /\ m + 2 \in 0 .. n + 1 /\ m \in 0 .. n + 1 /\ m # m + 1 /\ 0 \in 0 .. n + 1 /\ 0 # m + 1
  BY LenProperties
<1>1. /\ c \in [0 .. n + 1 -> 0 .. Len(w)] /\ c[0] = Len(w)
      /\ \A i, j \in 0 .. n + 1 : i <= j => c[j] <= c[i]
      /\ \A k \in 0 .. n : LinesOf(g, k) = SubSeq(w, c[k + 1] + 1, c[k])
      /\ w # <<>> => c[n + 1] < Len(w)
  BY DEF Cuts
<1>2. /\ d \in [0 .. n + 1 -> 0 .. Len(w)] /\ d[0] = Len(w) /\ d[m + 1] = c[m]
      /\ \A i \in 0 .. n + 1 : i # m + 1 => d[i] = c[i]
  BY <1>0, <1>1
<1>3. \A i, j \in 0 .. n + 1 : i <= j => d[j] <= d[i]
  <2> SUFFICES ASSUME NEW i \in 0 .. n + 1, NEW j \in 0 .. n + 1, i <= j PROVE d[j] <= d[i]
    OBVIOUS
  <2>1. CASE i = j
    <3>1. d[i] \in 0 .. Len(w)
      BY <1>2
    <3> QED
      BY <1>0, <2>1, <3>1
  <2>2. CASE i # m + 1 /\ j # m + 1
    BY <1>1, <1>2, <2>2
  <2>3. CASE i # j /\ i = m + 1
    <3>1. m <= j /\ j # m + 1
      BY <1>0, <2>3
    <3> QED
      BY <1>0, <1>1, <1>2, <2>3, <3>1
  <2>4. CASE i # j /\ j = m + 1
    <3>1. i <= m /\ i # m + 1
      BY <1>0, <2>4
    <3> QED
      BY <1>0, <1>1, <1>2, <2>4, <3>1
  <2> QED
    BY <2>1, <2>2, <2>3, <2>4
<1>4. c[m + 1] = c[m + 2] /\ c[m + 1] \in 0 .. Len(w) /\ c[m] \in 0 .. Len(w)
  <2>1. LinesOf(g, m + 1) = <<>>
    BY DEF LinesOf
  <2>2. (m + 1) + 1 = m + 2
    BY <1>0
  <2>3. Len(LinesOf(g, m + 1)) = c[m + 1] - c[m + 2]
        /\ c[m + 1] \in 0 .. Len(w) /\ c[m + 2] \in 0 .. Len(w)
    BY <1>0, <2>2, CutAt
  <2>4. c[m] \in 0 .. Len(w)
    BY <1>0, <1>1
  <2>5. c[m + 1] - c[m + 2] = 0
    BY <2>1, <2>3
  <2> DEFINE x == c[m + 1]
             y == c[m + 2]
  <2>6. x \in Nat /\ y \in Nat /\ x - y = 0
    BY <1>0, <2>3, <2>5
  <2>7. x = y
    <3> HIDE DEF x, y
    <3> QED
      BY <2>6
  <2> QED
    BY <2>3, <2>4, <2>7
<1>5. \A k \in 0 .. n : LinesOf(h, k) = SubSeq(w, d[k + 1] + 1, d[k])
  <2> SUFFICES ASSUME NEW k \in 0 .. n PROVE LinesOf(h, k) = SubSeq(w, d[k + 1] + 1, d[k])
    OBVIOUS
  <2>1. CASE k = m
    <3>1. LinesOf(h, k) = <<>>
      BY <1>0, <2>1 DEF LinesOf
    <3>2. d[k + 1] = c[m] /\ d[k] = c[m]
      BY <1>0, <1>2, <2>1
    <3>3. SubSeq(w, c[m] + 1, c[m]) = <<>>
      BY <1>0, <1>4, SubSeqEmpty
    <3> QED
      BY <3>1, <3>2, <3>3
  <2>2. CASE k = m + 1
    <3>1. LinesOf(h, k) = LinesOf(g, m)
      BY <1>0, <2>2 DEF LinesOf
    <3>2. k + 1 = m + 2 /\ k + 1 # m + 1
      BY <1>0, <2>2
    <3>3. d[k + 1] = c[m + 1] /\ d[k] = c[m]
      BY <1>0, <1>2, <1>4, <2>2, <3>2
    <3> QED
      BY <1>0, <1>1, <3>1, <3>3
  <2>3. CASE k # m /\ k # m + 1
    <3>1. LinesOf(h, k) = LinesOf(g, k)
      BY <1>0, <2>3 DEF LinesOf
    <3>2. k + 1 \in 0 .. n + 1 /\ k \in 0 .. n + 1 /\ k + 1 # m + 1
      BY <1>0, <2>3
    <3> QED
      BY <1>1, <1>2, <2>3, <3>1, <3>2
  <2> QED
    BY <2>1, <2>2, <2>3
<1>6. w # <<>> => d[n + 1] < Len(w)
  BY <1>0, <1>1, <1>2, <1>4
<1> HIDE DEF d, h
<1>7. Cuts(h, n, w, d)
  BY <1>1, <1>2, <1>3, <1>5, <1>6 DEF Cuts
<1> QED
  BY <1>7 DEF h

\* A line is appended to the log and to what was written.
LEMMA CutAppend ==
    ASSUME NEW n \in Nat, NEW w \in Seq(Events), NEW g \in [0 .. n -> Contents], NEW c,
           Cuts(g, n, w, c), NEW e \in Events, NEW h,
           LinesOf(h, 0) = Append(LinesOf(g, 0), e), \A k \in 1 .. n : LinesOf(h, k) = LinesOf(g, k)
    PROVE  \E d : Cuts(h, n, Append(w, e), d)
<1> DEFINE v == Append(w, e)
           d == [c EXCEPT ![0] = Len(w) + 1]
<1>0. Len(w) \in Nat /\ 0 \in 0 .. n /\ 1 \in 0 .. n + 1 /\ 0 \in 0 .. n + 1 /\ n + 1 \in 0 .. n + 1 /\ n + 1 # 0
  BY LenProperties
<1>1. /\ c \in [0 .. n + 1 -> 0 .. Len(w)] /\ c[0] = Len(w)
      /\ \A i, j \in 0 .. n + 1 : i <= j => c[j] <= c[i]
      /\ \A k \in 0 .. n : LinesOf(g, k) = SubSeq(w, c[k + 1] + 1, c[k])
  BY DEF Cuts
<1>2. /\ v \in Seq(Events) /\ Len(v) = Len(w) + 1 /\ v[Len(w) + 1] = e
      /\ \A i \in 1 .. Len(w) : v[i] = w[i]
  BY AppendProperties
<1> HIDE DEF v
<1>3. /\ d \in [0 .. n + 1 -> 0 .. Len(v)] /\ d[0] = Len(v)
      /\ \A i \in 0 .. n + 1 : i # 0 => d[i] = c[i]
  <2>1. \A i \in 0 .. n + 1 : c[i] \in 0 .. Len(v)
    BY <1>0, <1>1, <1>2
  <2> QED
    BY <1>0, <1>1, <1>2, <2>1
<1>4. \A i, j \in 0 .. n + 1 : i <= j => d[j] <= d[i]
  <2> SUFFICES ASSUME NEW i \in 0 .. n + 1, NEW j \in 0 .. n + 1, i <= j PROVE d[j] <= d[i]
    OBVIOUS
  <2> HIDE DEF d
  <2>1. CASE i = 0
    <3>1. d[j] \in 0 .. Len(v)
      BY <1>3
    <3> QED
      BY <1>0, <1>2, <1>3, <2>1, <3>1
  <2>2. CASE i # 0
    BY <1>0, <1>1, <1>3, <2>2
  <2> QED
    BY <2>1, <2>2
<1>5. ASSUME NEW a \in 0 .. Len(w), NEW b \in 0 .. Len(w), a <= b
      PROVE  SubSeq(v, a + 1, b) = SubSeq(w, a + 1, b)
  <2>1. a \in 0 .. Len(v) /\ b \in 0 .. Len(v)
    BY <1>0, <1>2
  <2>2. /\ SubSeq(v, a + 1, b) \in Seq(Events) /\ Len(SubSeq(v, a + 1, b)) = b - a
        /\ \A i \in 1 .. b - a : SubSeq(v, a + 1, b)[i] = v[a + i]
    BY <1>2, <1>5, <2>1, Segment
  <2>3. /\ SubSeq(w, a + 1, b) \in Seq(Events) /\ Len(SubSeq(w, a + 1, b)) = b - a
        /\ \A i \in 1 .. b - a : SubSeq(w, a + 1, b)[i] = w[a + i]
    BY <1>5, Segment
  <2>4. \A i \in 1 .. b - a : a + i \in 1 .. Len(w)
    BY <1>0, <1>5
  <2> DEFINE x == SubSeq(v, a + 1, b)
             y == SubSeq(w, a + 1, b)
  <2>5. x \in Seq(Events) /\ y \in Seq(Events) /\ Len(x) = b - a /\ Len(y) = b - a
    BY <2>2, <2>3, Zenon
  <2>6. \A i \in 1 .. b - a : x[i] = y[i]
    BY <1>2, <2>2, <2>3, <2>4, Zenon
  <2> HIDE DEF x, y
  <2>7. x = y
    BY <2>5, <2>6, SeqEqual
  <2> QED
    BY <2>7 DEF x, y
<1>6. SubSeq(v, c[1] + 1, Len(v)) = Append(LinesOf(g, 0), e)
  <2> DEFINE a == c[1]
             x == SubSeq(v, a + 1, Len(v))
             y == SubSeq(w, a + 1, Len(w))
             z == Append(y, e)
  <2>1. a \in 0 .. Len(w) /\ a \in 0 .. Len(v) /\ Len(v) \in 0 .. Len(v) /\ Len(w) \in 0 .. Len(w)
        /\ a <= Len(v) /\ a <= Len(w)
    BY <1>0, <1>1, <1>2
  <2>2. LinesOf(g, 0) = y
    <3>1. LinesOf(g, 0) = SubSeq(w, c[0 + 1] + 1, c[0])
      BY <1>0, <1>1
    <3> QED
      BY <1>1, <3>1
  <2> HIDE DEF a
  <2>3. /\ x \in Seq(Events) /\ Len(x) = Len(v) - a
        /\ \A i \in 1 .. Len(v) - a : x[i] = v[a + i]
    BY <1>2, <2>1, Segment
  <2>4. /\ y \in Seq(Events) /\ Len(y) = Len(w) - a
        /\ \A i \in 1 .. Len(w) - a : y[i] = w[a + i]
    BY <2>1, Segment
  <2> HIDE DEF x, y
  <2>5. /\ z \in Seq(Events) /\ Len(z) = Len(y) + 1 /\ z[Len(y) + 1] = e
        /\ \A i \in 1 .. Len(y) : z[i] = y[i]
    BY <2>4, AppendProperties
  <2> HIDE DEF z
  <2>6. Len(x) = Len(z)
    BY <1>0, <1>2, <2>1, <2>3, <2>4, <2>5
  <2>7. ASSUME NEW i \in 1 .. Len(x)
        PROVE  x[i] = z[i]
    <3>1. i \in 1 .. Len(v) - a /\ x[i] = v[a + i]
      BY <2>3
    <3>2. CASE i = Len(z)
      <4>1. a + i = Len(w) + 1 /\ i = Len(y) + 1
        BY <1>0, <1>2, <2>1, <2>3, <2>4, <2>5, <3>2
      <4> QED
        BY <1>2, <2>5, <3>1, <4>1
    <3>3. CASE i # Len(z)
      <4>1. a + i \in 1 .. Len(w) /\ i \in 1 .. Len(y) /\ i \in 1 .. Len(w) - a
        BY <1>0, <1>2, <2>1, <2>3, <2>4, <2>5, <3>3
      <4> QED
        BY <1>2, <2>4, <2>5, <3>1, <4>1
    <3> QED
      BY <3>2, <3>3
  <2>8. x = z
    BY <2>3, <2>5, <2>6, <2>7, SeqEqual
  <2> QED
    BY <2>2, <2>8 DEF x, z, a
<1>7. \A k \in 0 .. n : LinesOf(h, k) = SubSeq(v, d[k + 1] + 1, d[k])
  <2> SUFFICES ASSUME NEW k \in 0 .. n PROVE LinesOf(h, k) = SubSeq(v, d[k + 1] + 1, d[k])
    OBVIOUS
  <2> HIDE DEF d
  <2>1. CASE k = 0
    <3>1. d[k] = Len(v) /\ d[k + 1] = c[1]
      BY <1>0, <1>3, <2>1
    <3> QED
      BY <1>6, <2>1, <3>1
  <2>2. CASE k # 0
    <3>1. k \in 1 .. n /\ k \in 0 .. n + 1 /\ k + 1 \in 0 .. n + 1 /\ k + 1 # 0 /\ k <= k + 1
      BY <2>2
    <3>2. d[k] = c[k] /\ d[k + 1] = c[k + 1]
      BY <1>3, <3>1
    <3>3. c[k] \in 0 .. Len(w) /\ c[k + 1] \in 0 .. Len(w) /\ c[k + 1] <= c[k]
      BY <1>1, <3>1
    <3> QED
      BY <1>1, <1>5, <3>1, <3>2, <3>3
  <2> QED
    BY <2>1, <2>2
<1>8. d[n + 1] < Len(v)
  <2> HIDE DEF d
  <2>1. d[n + 1] = c[n + 1] /\ c[n + 1] \in 0 .. Len(w)
    BY <1>0, <1>1, <1>3
  <2> QED
    BY <1>0, <1>2, <2>1
<1> HIDE DEF d
<1>9. Cuts(h, n, v, d)
  BY <1>3, <1>4, <1>7, <1>8 DEF Cuts
<1> QED
  BY <1>9 DEF v

\* A log with the same lines in every file is cut in the same way.
LEMMA CutSame ==
    ASSUME NEW n, NEW w, NEW g, NEW c, Cuts(g, n, w, c), NEW h,
           \A k \in 0 .. n : LinesOf(h, k) = LinesOf(g, k)
    PROVE  Cuts(h, n, w, c)
BY DEF Cuts

\* The bytes of a file grow by the line that is appended.
LEMMA BytesAppend ==
    ASSUME NEW q \in Seq(Events), NEW e \in Events
    PROVE  Bytes(q) \in Nat /\ Bytes(Append(q, e)) = Bytes(q) + Size[e]
<1> DEFINE z == Append(q, e)
           a == [i \in DOMAIN q |-> Size[q[i]]]
           b == [i \in DOMAIN z |-> Size[z[i]]]
<1>1. /\ z \in Seq(Events) /\ Len(z) = Len(q) + 1 /\ z[Len(q) + 1] = e
      /\ \A i \in 1 .. Len(q) : z[i] = q[i]
  BY AppendProperties
<1> HIDE DEF z
<1>2. /\ Len(q) \in Nat /\ DOMAIN q = 1 .. Len(q) /\ DOMAIN z = 1 .. Len(q) + 1
      /\ \A i \in 1 .. Len(q) : q[i] \in Events
  BY <1>1, LenProperties
<1>3. Size \in [Events -> Nat] /\ Size[e] \in Nat
  BY LogAssumption
<1>4. a \in Seq(Nat) /\ Len(a) = Len(q) /\ \A i \in 1 .. Len(q) : a[i] = Size[q[i]]
  <2>1. a \in [1 .. Len(q) -> Nat]
    BY <1>2, <1>3
  <2> QED
    BY <1>2, <2>1
<1>5. b \in Seq(Nat) /\ Len(b) = Len(q) + 1 /\ b[Len(q) + 1] = Size[e] /\ \A i \in 1 .. Len(q) : b[i] = Size[q[i]]
  <2>1. \A i \in 1 .. Len(q) + 1 : i = Len(q) + 1 \/ i \in 1 .. Len(q)
    BY <1>2
  <2>2. b \in [1 .. Len(q) + 1 -> Nat]
    BY <1>1, <1>2, <1>3, <2>1
  <2> QED
    BY <1>1, <1>2, <2>2
<1> HIDE DEF a, b
<1>6. b = Append(a, Size[e])
  <2> DEFINE x == Append(a, Size[e])
  <2>1. /\ x \in Seq(Nat) /\ Len(x) = Len(a) + 1 /\ x[Len(a) + 1] = Size[e]
        /\ \A i \in 1 .. Len(a) : x[i] = a[i]
    BY <1>3, <1>4, AppendProperties
  <2> HIDE DEF x
  <2>2. \A i \in 1 .. Len(b) : b[i] = x[i]
    <3>1. \A i \in 1 .. Len(b) : i = Len(q) + 1 \/ i \in 1 .. Len(q)
      BY <1>2, <1>5
    <3> QED
      BY <1>4, <1>5, <2>1, <3>1
  <2>3. b = x
    BY <1>4, <1>5, <2>1, <2>2, SeqEqual
  <2> QED
    BY <2>3 DEF x
<1>7. SumSeq(a) \in Nat /\ SumSeq(b) = SumSeq(a) + Size[e]
  BY <1>3, <1>4, <1>6, SumBounds, SumAppend
<1> QED
  BY <1>7 DEF Bytes, a, b, z

\* A thread that is not past the lock relies on nothing but what was written.
LEMMA OthersStayOnTrack ==
    ASSUME LogTypes, NEW x \in threads, ~Running(x), OnTrack(x),
           \A e \in Events : Contains(written, e) => Contains(written', e)
    PROVE  OnTrack(x)'
<1>1. x.at \in {"lock", "done", "failed"} /\ x.event \in Events
  BY DEF LogTypes, ThreadRecs, Running
<1> QED
  BY <1>1 DEF OnTrack

\* A thread goes on or ends: only the one past the lock touches the files, and only one
\* gets past it.
LEMMA Rethread ==
    ASSUME LogInv, NEW t \in threads, env' = env,
           \/ threads' = threads \ {t}
           \/ \E u \in ThreadRecs : /\ threads' = (threads \ {t}) \cup {u} /\ OnTrack(u)'
                                    /\ Running(u) => Running(t) \/ LockFree,
           log' = log \/ Running(t),
           \A e \in Events : Contains(written, e) => Contains(written', e)
    PROVE  /\ threads' \subseteq ThreadRecs
           /\ OneWriter'
           /\ \A x \in threads' : OnTrack(x)'
<1>1. threads \subseteq ThreadRecs
  BY DEF LogInv, LogTypes
<1>2. ASSUME NEW x \in threads, x # t
      PROVE  OnTrack(x)'
  <2>1. CASE Running(x)
    <3>1. log' = log
      BY <1>2, <2>1 DEF LogInv, OneWriter
    <3>2. OnTrack(x) /\ x.event \in Events
      BY <1>1 DEF LogInv, ThreadRecs
    <3> QED
      BY <3>1, <3>2 DEF OnTrack, backups
  <2>2. CASE ~Running(x)
    BY <2>2, OthersStayOnTrack DEF LogInv
  <2> QED
    BY <2>1, <2>2
<1>3. CASE threads' = threads \ {t}
  BY <1>1, <1>2, <1>3 DEF LogInv, OneWriter, ThreadRecs, backups
<1>4. CASE \E u \in ThreadRecs : /\ threads' = (threads \ {t}) \cup {u} /\ OnTrack(u)'
                                 /\ Running(u) => Running(t) \/ LockFree
  <2>1. PICK u \in ThreadRecs : /\ threads' = (threads \ {t}) \cup {u} /\ OnTrack(u)'
                                /\ Running(u) => Running(t) \/ LockFree
    BY <1>4
  <2>2. \A x \in threads' : x = u \/ (x \in threads /\ x # t)
    BY <2>1
  <2>3. OneWriter'
    <3>1. ASSUME Running(u), NEW x \in threads, x # t
          PROVE  ~Running(x)
      BY <2>1, <3>1 DEF LogInv, OneWriter, LockFree
    <3> QED
      BY <2>2, <3>1 DEF LogInv, OneWriter, Running
  <2> QED
    BY <1>1, <1>2, <2>1, <2>2, <2>3
<1> QED
  BY <1>3, <1>4

\* A step that leaves the files alone.
LEMMA FilesAlone ==
    ASSUME LogInv, UNCHANGED <<env, log, written, acked>>,
           threads' \subseteq ThreadRecs, OneWriter', \A x \in threads' : OnTrack(x)'
    PROVE  LogInv'
<1>1. LogTypes' /\ (\E c : Cuts(log, backups, written, c))' /\ FilesBounded'
  BY DEF LogInv, LogTypes, FilesBounded, backups, ThreadRecs
<1> QED
  BY <1>1 DEF LogInv

\* The function of a thread that leaves the files alone is over.
LEMMA ReturnKeeps ==
    ASSUME LogInv, NEW t \in threads, Return(t, "failed"), UNCHANGED <<env, log, written, acked>>
    PROVE  LogInv'
<1> DEFINE u == [t EXCEPT !.at = "failed"]
<1>1. t \in ThreadRecs
  BY DEF LogInv, LogTypes
<1>2. u \in ThreadRecs /\ u.at = "failed"
  BY <1>1 DEF ThreadRecs
<1>3. threads' = threads \ {t} \/ threads' = (threads \ {t}) \cup {u}
  BY DEF Return, Move
<1> HIDE DEF u
<1>4. OnTrack(u)' /\ ~Running(u)
  BY <1>2 DEF OnTrack, Running
<1>5. threads' \subseteq ThreadRecs /\ OneWriter' /\ \A x \in threads' : OnTrack(x)'
  BY <1>2, <1>3, <1>4, Rethread
<1> QED
  BY <1>5, FilesAlone

\* The thread gets the lock and makes the test of _rotate_if_needed.
LEMMA AcquireKeeps ==
    ASSUME LogInv, NEW t \in threads, Acquire(t)
    PROVE  LogInv'
<1>0. PICK at : at = IF NeedsRotation(t.event) THEN "unlink" ELSE "append"
  OBVIOUS
<1> DEFINE u == [t EXCEPT !.at = at]
<1>1. t \in ThreadRecs /\ env \in Environments /\ log \in [0 .. backups -> Contents] /\ backups \in Nat
  BY LogAssumption DEF LogInv, LogTypes, backups
<1>2. u \in ThreadRecs /\ u.at = at /\ u.event = t.event /\ t.event \in Events
  BY <1>0, <1>1 DEF ThreadRecs
<1>3. threads' = (threads \ {t}) \cup {u} /\ LockFree /\ UNCHANGED <<env, log, written, acked>>
  BY <1>0 DEF Acquire, Move
<1>4. OnTrack(u)'
  <2>0. LinesOf(log, 0) \in Seq(Events) /\ 0 \in 0 .. backups
    BY <1>1, LinesAre
  <2>1. CASE NeedsRotation(t.event)
    <3>1. u.at = "unlink" /\ backups > 0 /\ LinesOf(log, 0) # <<>>
      BY <1>0, <1>2, <2>1 DEF NeedsRotation, LinesOf
    <3> HIDE DEF u
    <3> QED
      BY <1>3, <3>1 DEF OnTrack, backups, LinesOf
  <2>2. CASE ~NeedsRotation(t.event)
    <3>1. u.at = "append"
      BY <1>0, <1>2, <2>2
    <3>2. LinesOf(log, 0) # <<>> => log[0] = LinesOf(log, 0) /\ log[0] # NoFile
      BY DEF LinesOf
    <3>3. Bytes(LinesOf(log, 0)) \in Nat /\ Size[t.event] \in Nat /\ MaxBytes \in Nat
      BY <1>2, <2>0, BytesAppend, LogAssumption
    <3>4. \/ backups = 0 \/ LinesOf(log, 0) = <<>>
          \/ Bytes(LinesOf(log, 0)) + Size[t.event] <= MaxBytes
      BY <1>1, <2>2, <3>2, <3>3 DEF NeedsRotation
    <3> HIDE DEF u
    <3> QED
      BY <1>2, <1>3, <3>1, <3>4 DEF OnTrack, backups, LinesOf
  <2> QED
    BY <2>1, <2>2
<1> HIDE DEF u
<1>5. threads' \subseteq ThreadRecs /\ OneWriter' /\ \A x \in threads' : OnTrack(x)'
  BY <1>2, <1>3, <1>4, Rethread
<1> QED
  BY <1>3, <1>5, FilesAlone

\* Rotation, one file at a time, and the new log.
LEMMA RotateKeeps ==
    ASSUME LogInv, NEW t \in threads, Unlink(t) \/ Shift(t) \/ Create(t)
    PROVE  LogInv'
<1> DEFINE n == backups
<1>1. /\ t \in ThreadRecs /\ env \in Environments /\ log \in [0 .. n -> Contents] /\ n \in Nat
      /\ written \in Seq(Events) /\ OnTrack(t) /\ t.k \in 0 .. n
  BY LogAssumption DEF LogInv, LogTypes, ThreadRecs, backups
<1>2. Running(t) /\ UNCHANGED <<env, written, acked>> /\ n' = n
  BY DEF Unlink, Shift, Create, Running, backups
<1>3. PICK c : Cuts(log, n, written, c)
  BY DEF LogInv
<1>4. ASSUME NEW u \in ThreadRecs, threads' = (threads \ {t}) \cup {u}, OnTrack(u)',
             log' \in [0 .. n -> Contents], \E d : Cuts(log', n, written, d),
             \A k \in 0 .. n : \/ log'[k] \in {NoFile, <<>>}
                               \/ \E j \in 0 .. n : log[j] = log'[k] /\ log[j] # NoFile
      PROVE  LogInv'
  <2>1. threads' \subseteq ThreadRecs /\ OneWriter' /\ \A x \in threads' : OnTrack(x)'
    BY <1>2, <1>4, Rethread
  <2>2. LogTypes'
    BY <1>1, <1>2, <1>4, <2>1 DEF LogTypes, ThreadRecs
  <2>3. FilesBounded'
    <3>1. Bytes(<<>>) <= MaxBytes
      <4>1. Bytes(<<>>) = 0
        <5>1. [i \in DOMAIN <<>> |-> Size[<<>>[i]]] = <<>>
          OBVIOUS
        <5> QED
          BY <5>1, SumEmpty DEF Bytes
      <4> QED
        BY <4>1, LogAssumption
    <3> QED
      BY <1>2, <1>4, <3>1 DEF LogInv, FilesBounded
  <2>4. (\E d : Cuts(log, backups, written, d))' /\ \A e \in acked' : Contains(written', e)
    BY <1>2, <1>4 DEF LogInv
  <2> QED
    BY <2>1, <2>2, <2>3, <2>4 DEF LogInv
<1>5. CASE Unlink(t)
  <2> DEFINE h == [log EXCEPT ![n] = NoFile]
  <2>0. PICK u : u = [t EXCEPT !.at = "shift", !.k = n - 1]
    OBVIOUS
  <2>1. n > 0 /\ LinesOf(log, 0) # <<>>
    BY <1>1, <1>5 DEF Unlink, OnTrack
  <2>2. u \in ThreadRecs /\ u.at = "shift" /\ u.k = n - 1
    <3>1. backups - 1 \in 0 .. backups
      BY <1>1, <2>1
    <3> QED
      BY <1>1, <2>0, <3>1 DEF ThreadRecs
  <2>3. log' = h /\ threads' = (threads \ {t}) \cup {u}
    BY <1>5, <2>0 DEF Unlink, Move
  <2>4. h \in [0 .. n -> Contents] /\ h[n] = NoFile /\ \A k \in 0 .. n : k # n => h[k] = log[k]
    BY <1>1 DEF Contents
  <2>5. \E d : Cuts(h, n, written, d)
    BY <1>1, <1>3, <2>1, CutUnlink
  <2>6. OnTrack(u)'
    <3>1. u.k < n /\ u.k + 1 = n
      BY <1>1, <2>2
    <3> HIDE DEF h
    <3> QED
      BY <1>2, <2>2, <2>3, <2>4, <3>1 DEF OnTrack
  <2>7. \A k \in 0 .. n : h[k] = NoFile \/ (h[k] = log[k] /\ log[k] # NoFile)
    BY <2>4
  <2> HIDE DEF h
  <2> QED
    BY <1>4, <2>2, <2>3, <2>4, <2>5, <2>6, <2>7
<1>6. CASE Shift(t)
  <2> DEFINE u == IF t.k = 0 THEN [t EXCEPT !.at = "create"] ELSE [t EXCEPT !.k = t.k - 1]
             h == IF log[t.k] = NoFile THEN log
                  ELSE [log EXCEPT ![t.k + 1] = log[t.k], ![t.k] = NoFile]
  <2>1. t.k < n /\ log[t.k + 1] = NoFile /\ t.at = "shift"
    BY <1>1, <1>6 DEF Shift, OnTrack
  <2>2. t.k \in 0 .. n - 1 /\ t.k \in Nat /\ t.k + 1 \in 0 .. n /\ t.k # t.k + 1
    BY <1>1, <2>1
  <2>3. /\ u \in ThreadRecs
        /\ t.k = 0 => u.at = "create"
        /\ t.k # 0 => u.at = "shift" /\ u.k = t.k - 1
    <3>1. CASE t.k = 0
      <4>1. u = [t EXCEPT !.at = "create"]
        BY <3>1
      <4> QED
        BY <1>1, <3>1, <4>1 DEF ThreadRecs
    <3>2. CASE t.k # 0
      <4>1. u = [t EXCEPT !.k = t.k - 1]
        BY <3>2
      <4>2. t.k - 1 \in 0 .. backups
        BY <1>1, <2>2, <3>2
      <4> HIDE DEF u
      <4> QED
        BY <1>1, <2>1, <3>2, <4>1, <4>2 DEF ThreadRecs
    <3> QED
      BY <3>1, <3>2
  <2>4. log' = h /\ threads' = (threads \ {t}) \cup {u}
    BY <1>6 DEF Shift, Move
  <2>5. /\ h \in [0 .. n -> Contents] /\ h[t.k] = NoFile /\ h[t.k + 1] = log[t.k]
        /\ \A k \in 0 .. n : k # t.k /\ k # t.k + 1 => h[k] = log[k]
    <3>1. CASE log[t.k] = NoFile
      BY <1>1, <2>1, <3>1
    <3>2. CASE log[t.k] # NoFile
      <4>1. h = [log EXCEPT ![t.k + 1] = log[t.k], ![t.k] = NoFile]
        BY <3>2
      <4>2. log[t.k] \in Contents /\ NoFile \in Contents
        BY <1>1, <2>2 DEF Contents
      <4> HIDE DEF h
      <4> QED
        BY <1>1, <2>2, <4>1, <4>2
    <3> QED
      BY <3>1, <3>2
  <2>6. \E d : Cuts(h, n, written, d)
    <3>1. CASE log[t.k] = NoFile
      BY <1>3, <3>1
    <3>2. CASE log[t.k] # NoFile
      BY <1>1, <1>3, <2>1, <2>2, <3>2, CutShift
    <3> QED
      BY <3>1, <3>2
  <2> HIDE DEF h
  <2>7. OnTrack(u)'
    <3> HIDE DEF u
    <3>1. CASE t.k = 0
      BY <1>2, <2>3, <2>4, <2>5, <3>1 DEF OnTrack
    <3>2. CASE t.k # 0
      <4>1. u.at = "shift" /\ u.k = t.k - 1
        BY <2>3, <3>2
      <4>2. u.k < n /\ u.k + 1 = t.k
        <5> HIDE DEF n
        <5> QED
          BY <1>1, <2>1, <2>2, <4>1
      <4> QED
        BY <1>2, <2>4, <2>5, <4>1, <4>2 DEF OnTrack
    <3> QED
      BY <3>1, <3>2
  <2>8. ASSUME NEW k \in 0 .. n
        PROVE  h[k] \in {NoFile, <<>>} \/ \E j \in 0 .. n : log[j] = h[k] /\ log[j] # NoFile
    BY <1>1, <2>2, <2>5
  <2> HIDE DEF u
  <2> QED
    BY <1>4, <2>3, <2>4, <2>5, <2>6, <2>7, <2>8
<1>7. CASE Create(t)
  <2> DEFINE u == [t EXCEPT !.at = "append"]
             h == [log EXCEPT ![0] = <<>>]
  <2>1. log[0] = NoFile
    BY <1>1, <1>7 DEF Create, OnTrack
  <2>2. u \in ThreadRecs /\ u.at = "append"
    BY <1>1 DEF ThreadRecs
  <2>3. log' = h /\ threads' = (threads \ {t}) \cup {u}
    BY <1>7 DEF Create, Move
  <2>4. h \in [0 .. n -> Contents] /\ h[0] = <<>> /\ \A k \in 0 .. n : k # 0 => h[k] = log[k]
    BY <1>1, EmptySeq DEF Contents
  <2>5. \A k \in 0 .. n : LinesOf(h, k) = LinesOf(log, k)
    <3> HIDE DEF h
    <3> QED
      BY <2>1, <2>4 DEF LinesOf
  <2>6. Cuts(h, n, written, c)
    BY <1>3, <2>5, CutSame
  <2>7. OnTrack(u)'
    <3> HIDE DEF u, h
    <3> QED
      BY <2>2, <2>3, <2>4 DEF OnTrack, LinesOf
  <2>8. \A k \in 0 .. n : h[k] \in {NoFile, <<>>} \/ (h[k] = log[k] /\ log[k] # NoFile)
    BY <2>4
  <2> HIDE DEF u, h
  <2> QED
    BY <1>4, <2>2, <2>3, <2>4, <2>6, <2>7, <2>8
<1> QED
  BY <1>5, <1>6, <1>7

\* The line is written.  The test of _rotate_if_needed still holds, so the log does not
\* outgrow max_bytes.
LEMMA AppendKeeps ==
    ASSUME LogInv, NEW t \in threads, AppendLine(t)
    PROVE  LogInv'
<1> DEFINE n == backups
           e == t.event
           u == [t EXCEPT !.at = "done"]
<1>1. /\ t \in ThreadRecs /\ env \in Environments /\ log \in [0 .. n -> Contents] /\ n \in Nat
      /\ written \in Seq(Events) /\ OnTrack(t) /\ e \in Events /\ t.at = "append"
  BY LogAssumption DEF LogInv, LogTypes, ThreadRecs, backups, AppendLine
<1>2. /\ Running(t) /\ UNCHANGED <<env, acked>> /\ n' = n
      /\ written' = Append(written, e)
      /\ log' = [log EXCEPT ![0] = Append(LinesOf(log, 0), e)]
      /\ threads' = threads \ {t} \/ threads' = (threads \ {t}) \cup {u}
  BY <1>1 DEF AppendLine, Return, Move, Running, LinesOf, backups
<1>3. PICK c : Cuts(log, n, written, c)
  BY DEF LogInv
<1> DEFINE q == LinesOf(log, 0)
           z == Append(q, e)
<1>4. q \in Seq(Events) /\ z \in Seq(Events) /\ Len(z) = Len(q) + 1 /\ 0 \in 0 .. n /\ z # NoFile
  <2>1. 0 \in 0 .. n
    BY <1>1
  <2>2. q \in Seq(Events)
    BY <1>1, <2>1, LinesAre
  <2>3. z \in Seq(Events) /\ Len(z) = Len(q) + 1
    BY <1>1, <2>2, AppendProperties
  <2> QED
    BY <2>1, <2>2, <2>3, LogAssumption
<1>5. /\ log' \in [0 .. n -> Contents] /\ log'[0] = z
      /\ \A k \in 0 .. n : k # 0 => log'[k] = log[k]
  <2> HIDE DEF z
  <2>1. z \in Contents /\ log' = [log EXCEPT ![0] = z]
    BY <1>2, <1>4 DEF Contents, z
  <2> QED
    BY <1>1, <1>4, <2>1
<1>6. /\ written' \in Seq(Events) /\ Len(written') = Len(written) + 1 /\ Len(written) \in Nat
      /\ written'[Len(written) + 1] = e
      /\ \A i \in 1 .. Len(written) : written'[i] = written[i]
  BY <1>1, <1>2, AppendProperties, LenProperties
<1>7. Contains(written', e) /\ \A x : Contains(written, x) => Contains(written', x)
  BY <1>6 DEF Contains
<1>8. \E d : Cuts(log', n, written', d)
  <2>1. LinesOf(log', 0) = z /\ \A k \in 1 .. n : LinesOf(log', k) = LinesOf(log, k)
    <3>1. \A k \in 1 .. n : k \in 0 .. n /\ k # 0
      BY <1>1
    <3> HIDE DEF z
    <3> QED
      BY <1>4, <1>5, <3>1 DEF LinesOf
  <2> QED
    BY <1>1, <1>2, <1>3, <2>1, CutAppend
<1>9. threads' \subseteq ThreadRecs /\ OneWriter' /\ \A x \in threads' : OnTrack(x)'
  <2>1. u \in ThreadRecs /\ u.at = "done" /\ u.event = e
    BY <1>1 DEF ThreadRecs
  <2> HIDE DEF u
  <2>2. OnTrack(u)' /\ ~Running(u)
    BY <1>7, <2>1 DEF OnTrack, Running
  <2> QED
    BY <1>2, <1>7, <2>1, <2>2, Rethread
<1>10. FilesBounded'
  <2> SUFFICES ASSUME n > 0, NEW k \in 0 .. n, log'[k] # NoFile
               PROVE  Bytes(log'[k]) <= MaxBytes \/ Len(log'[k]) = 1
    BY <1>2 DEF FilesBounded
  <2>1. CASE k = 0
    <3>1. CASE q = <<>>
      <4>1. Len(q) = 0
        BY <3>1
      <4>2. Len(z) = 1
        BY <1>4, <4>1
      <4> HIDE DEF z
      <4> QED
        BY <1>5, <2>1, <4>2
    <3>2. CASE q # <<>>
      <4>1. Bytes(q) + Size[e] <= MaxBytes
        BY <1>1, <3>2 DEF OnTrack
      <4>2. Bytes(z) = Bytes(q) + Size[e]
        BY <1>1, <1>4, BytesAppend
      <4> QED
        BY <1>5, <2>1, <4>1, <4>2
    <3> QED
      BY <3>1, <3>2
  <2>2. CASE k # 0
    BY <1>5, <2>2 DEF LogInv, FilesBounded
  <2> QED
    BY <2>1, <2>2
<1>11. LogTypes'
  BY <1>1, <1>2, <1>5, <1>6, <1>9 DEF LogTypes, ThreadRecs
<1>12. \A x \in acked' : Contains(written', x)
  BY <1>2, <1>7 DEF LogInv
<1>13. (\E d : Cuts(log, backups, written, d))'
  BY <1>2, <1>8
<1> QED
  BY <1>9, <1>10, <1>11, <1>12, <1>13 DEF LogInv

\* The worker's steps: it calls the sink, hears of the end of a call or gives it up.
LEMMA WorkerKeeps ==
    ASSUME QueueInv, QueueInv', LogInv, CallSink \/ SinkReturns \/ SinkFails \/ PutBack
    PROVE  LogInv'
<1>0. backups \in Nat /\ threads \subseteq ThreadRecs
  BY LogAssumption DEF LogInv, LogTypes, backups
<1>1. CASE CallSink
  <2>1. PICK u : u = Thread(item'.event, tries'[item'.event])
    OBVIOUS
  <2>2. threads' = threads \cup {u} /\ UNCHANGED <<env, log, written, acked>>
    BY <1>1, <2>1 DEF CallSink
  <2>3. item' \in Items
    BY <1>1 DEF CallSink, Take, QueueInv, HandMatches
  <2>4. u \in ThreadRecs /\ u.at = "lock"
    <3>1. item'.event \in Events
      BY <2>3 DEF Items
    <3>2. tries'[item'.event] \in Nat
      BY <3>1 DEF QueueInv, TypeOK
    <3> QED
      BY <1>0, <2>1, <3>1, <3>2 DEF Thread, ThreadRecs
  <2>5. threads' \subseteq ThreadRecs
    BY <1>0, <2>2, <2>4
  <2>6. OneWriter'
    BY <2>2, <2>4 DEF LogInv, OneWriter, Running
  <2>7. \A x \in threads' : OnTrack(x)'
    BY <2>2, <2>4 DEF LogInv, OnTrack, backups
  <2> QED
    BY <2>2, <2>5, <2>6, <2>7, FilesAlone
<1>2. CASE SinkReturns
  <2>1. PICK t \in threads : /\ t.at = "done" /\ threads' = threads \ {t}
                             /\ acked' = acked \cup {t.event}
                             /\ UNCHANGED <<env, log, written>>
    BY <1>2 DEF SinkReturns
  <2>2. Contains(written, t.event)
    BY <2>1 DEF LogInv, OnTrack
  <2>3. threads' \subseteq ThreadRecs /\ OneWriter' /\ \A x \in threads' : OnTrack(x)'
    BY <2>1, Rethread
  <2>4. LogTypes' /\ (\E c : Cuts(log, backups, written, c))' /\ FilesBounded'
    BY <2>1, <2>3 DEF LogInv, LogTypes, FilesBounded, backups, ThreadRecs
  <2>5. \A e \in acked' : Contains(written', e)
    BY <2>1, <2>2 DEF LogInv
  <2> QED
    BY <2>3, <2>4, <2>5 DEF LogInv
<1>3. CASE SinkFails
  <2>1. PICK t \in threads : /\ threads' = threads \ {t} \/ UNCHANGED threads
                             /\ UNCHANGED <<env, log, written, acked>>
    BY <1>3 DEF SinkFails
  <2>2. threads' \subseteq ThreadRecs /\ OneWriter' /\ \A x \in threads' : OnTrack(x)'
    <3>1. CASE threads' = threads \ {t}
      BY <2>1, <3>1, Rethread
    <3>2. CASE UNCHANGED threads
      BY <1>0, <2>1, <3>2 DEF LogInv, OneWriter, OnTrack, backups, ThreadRecs
    <3> QED
      BY <2>1, <3>1, <3>2
  <2> QED
    BY <2>1, <2>2, FilesAlone
<1>4. CASE PutBack
  BY <1>4 DEF PutBack, logVars, LogInv, LogTypes, OneWriter, OnTrack, FilesBounded, backups, ThreadRecs
<1> QED
  BY <1>1, <1>2, <1>3, <1>4

\* A crash leaves the files where a rotation had got to; the restart makes sure of the log.
LEMMA CrashKeeps ==
    ASSUME LogInv, CrashAndRestart
    PROVE  LogInv'
<1> DEFINE n == backups
           q == LinesOf(log, 0)
<1>1. /\ env \in Environments /\ log \in [0 .. n -> Contents] /\ n \in Nat /\ written \in Seq(Events)
  BY LogAssumption DEF LogInv, LogTypes, backups
<1>2. /\ UNCHANGED <<env, written, acked>> /\ n' = n /\ threads' = {}
      /\ log' = [log EXCEPT ![0] = q]
  BY DEF CrashAndRestart, LinesOf, backups
<1>3. PICK c : Cuts(log, n, written, c)
  BY DEF LogInv
<1>4. q \in Seq(Events) /\ 0 \in 0 .. n /\ q # NoFile
  BY <1>1, LinesAre, LogAssumption
<1>5. /\ log' \in [0 .. n -> Contents] /\ log'[0] = q
      /\ \A k \in 0 .. n : k # 0 => log'[k] = log[k]
  <2> HIDE DEF q
  <2> QED
    BY <1>1, <1>2, <1>4 DEF Contents
<1>6. \A k \in 0 .. n : LinesOf(log', k) = LinesOf(log, k)
  <2>1. LinesOf(log', 0) = q
    <3> HIDE DEF q
    <3> QED
      BY <1>4, <1>5 DEF LinesOf
  <2>2. ASSUME NEW k \in 0 .. n, k # 0
        PROVE  LinesOf(log', k) = LinesOf(log, k)
    BY <1>5, <2>2 DEF LinesOf
  <2> QED
    BY <2>1, <2>2
<1>7. Cuts(log', n, written, c)
  BY <1>3, <1>6, CutSame
<1>8. FilesBounded'
  <2> SUFFICES ASSUME n > 0, NEW k \in 0 .. n
               PROVE  Bytes(log'[k]) <= MaxBytes \/ Len(log'[k]) = 1 \/ log'[k] = NoFile
    BY <1>2 DEF FilesBounded
  <2>1. CASE log[k] # NoFile
    BY <1>5, <2>1 DEF LogInv, FilesBounded, LinesOf
  <2>2. CASE log[k] = NoFile
    <3>1. log'[k] = NoFile \/ log'[k] = <<>>
      BY <1>5, <2>2 DEF LinesOf
    <3>2. Bytes(<<>>) <= MaxBytes
      <4>1. [i \in DOMAIN <<>> |-> Size[<<>>[i]]] = <<>>
        OBVIOUS
      <4> QED
        BY <4>1, SumEmpty, LogAssumption DEF Bytes
    <3> QED
      BY <3>1, <3>2
  <2> QED
    BY <2>1, <2>2
<1>9. LogTypes' /\ OneWriter' /\ \A t \in threads' : OnTrack(t)'
  BY <1>1, <1>2, <1>5 DEF LogTypes, OneWriter
<1>10. (\E d : Cuts(log, backups, written, d))' /\ \A e \in acked' : Contains(written', e)
  BY <1>2, <1>7 DEF LogInv
<1> QED
  BY <1>8, <1>9, <1>10 DEF LogInv

-----------------------------------------------------------------------------
(* The life of the process: queue and log                                  *)

\* What a step of the process is for the event queue: a step of it, or a crash.
LEMMA LifeQueue ==
    ASSUME QueueInv, [LifeNext]_allVars
    PROVE  [Next]_vars \/ CrashAndRestart
<1>0. todo \subseteq Events
  BY DEF QueueInv, TypeOK
<1>1. ASSUME NEW e, Emit(e) PROVE Next
  <2>1. e \in Events
    BY <1>0, <1>1 DEF Emit
  <2> QED
    BY <1>1, <2>1 DEF Next
<1>2. CASE UNCHANGED allVars
  BY <1>2 DEF allVars
<1>3. ASSUME NEW t \in Tunnels,
             \/ Connect(t) \/ ClaimLabel(t) \/ Install(t) \/ Retire(t) \/ RetireCloses(t)
             \/ Lose(t) \/ HandlerEnds(t) \/ Arrive(t) \/ Route(t) \/ VisitEnds(t)
             \/ DrainReturns(t) \/ ExitCancels(t)
      PROVE  [Next]_vars
  BY <1>1, <1>3 DEF Connect, ClaimLabel, Install, Retire, RetireCloses, Lose, HandlerEnds, Arrive,
     Route, VisitEnds, DrainReturns, ExitCancels, Depart, Quiet
<1>4. ASSUME NEW l, Bind(l) PROVE [Next]_vars
  BY <1>4 DEF Bind, Quiet
<1>5. CASE BindFails \/ CleanupEnds \/ Signal \/ CloseDown \/ DrainsEnd \/ WaitAgents \/ ServeReturns
  BY <1>5 DEF BindFails, CleanupEnds, Signal, CloseDown, DrainsEnd, WaitAgents, ServeReturns,
     CancelWorker, Quiet, Next
<1>6. CASE LogStep
  BY <1>6 DEF LogStep, Write, Acquire, Unlink, Shift, Create, AppendLine, WriteFails, CallSink,
     SinkReturns, SinkFails, PutBack, Next
<1>7. CASE Restart
  BY <1>7 DEF Restart
<1> QED
  BY <1>2, <1>3, <1>4, <1>5, <1>6, <1>7 DEF LifeNext

\* A new process starts with an empty queue and counters at zero.
LEMMA CrashQueue ==
    ASSUME QueueInv, CrashAndRestart
    PROVE  QueueInv'
  BY QueueAssumption
  DEF CrashAndRestart, QueueInv, TypeOK, HandMatches, Accounted, InHand, AttemptsCounted, TriesBounded

\* What a step of the process is for the log files.
LEMMA LifeLog ==
    ASSUME QueueInv, QueueInv', LogInv, [LifeNext]_allVars
    PROVE  LogInv'
<1>1. CASE UNCHANGED logVars
  BY <1>1 DEF logVars, LogInv, LogTypes, OneWriter, OnTrack, FilesBounded, backups, ThreadRecs
<1>2. CASE LogStep
  <2>1. ASSUME NEW t \in threads, Write(t) PROVE LogInv'
    <3>1. CASE WriteFails(t)
      BY <3>1, ReturnKeeps DEF WriteFails
    <3> QED
      BY <2>1, <3>1, AcquireKeeps, RotateKeeps, AppendKeeps DEF Write
  <2> QED
    BY <1>2, <2>1, WorkerKeeps DEF LogStep
<1>3. CASE Restart
  BY <1>3, CrashKeeps DEF Restart
<1>4. ASSUME NEW t \in Tunnels,
             \/ Connect(t) \/ ClaimLabel(t) \/ Install(t) \/ Retire(t) \/ RetireCloses(t)
             \/ Lose(t) \/ HandlerEnds(t) \/ Arrive(t) \/ Route(t) \/ VisitEnds(t)
             \/ DrainReturns(t) \/ ExitCancels(t)
      PROVE  UNCHANGED logVars
  BY <1>4 DEF Connect, ClaimLabel, Install, Retire, RetireCloses, Lose, HandlerEnds, Arrive,
     Route, VisitEnds, DrainReturns, ExitCancels, Quiet
<1>5. ASSUME NEW l, Bind(l) PROVE UNCHANGED logVars
  BY <1>5 DEF Bind, Quiet
<1>6. CASE BindFails \/ CleanupEnds \/ Signal \/ CloseDown \/ DrainsEnd \/ WaitAgents \/ ServeReturns
  BY <1>1, <1>6 DEF BindFails, CleanupEnds, Signal, CloseDown, DrainsEnd, WaitAgents, ServeReturns, Quiet
<1>7. CASE UNCHANGED allVars
  BY <1>1, <1>7 DEF allVars
<1> QED
  BY <1>1, <1>2, <1>3, <1>4, <1>5, <1>6, <1>7 DEF LifeNext

\* A log that was just created.
LEMMA LogStart == LogInit => LogInv
<1> SUFFICES ASSUME LogInit PROVE LogInv
  OBVIOUS
<1> DEFINE n == backups
           c == [k \in 0 .. n + 1 |-> 0]
<1>1. env \in Environments /\ n \in Nat
  BY LogAssumption DEF LogInit, backups
<1>2. /\ log = [k \in 0 .. n |-> IF k = 0 THEN <<>> ELSE NoFile]
      /\ threads = {} /\ written = <<>> /\ acked = {}
  BY DEF LogInit
<1>3. <<>> \in Seq(Events) /\ Len(<<>>) = 0
  OBVIOUS
<1>4. log \in [0 .. n -> Contents] /\ \A k \in 0 .. n : LinesOf(log, k) = <<>> /\ log[k] \in {<<>>, NoFile}
  BY <1>2, <1>3 DEF Contents, LinesOf
<1>5. Cuts(log, n, written, c)
  <2>1. /\ c \in [0 .. n + 1 -> 0 .. Len(written)] /\ c[0] = Len(written)
        /\ \A i, j \in 0 .. n + 1 : i <= j => c[j] <= c[i]
    BY <1>1, <1>2, <1>3
  <2>2. \A k \in 0 .. n : c[k] = 0 /\ c[k + 1] = 0
    BY <1>1
  <2>3. SubSeq(written, 0 + 1, 0) = <<>>
    BY SubSeqEmpty
  <2> HIDE DEF c
  <2> QED
    BY <1>2, <1>4, <2>1, <2>2, <2>3 DEF Cuts
<1>6. FilesBounded
  <2>1. Bytes(<<>>) <= MaxBytes
    <3>1. [i \in DOMAIN <<>> |-> Size[<<>>[i]]] = <<>>
      OBVIOUS
    <3> QED
      BY <3>1, SumEmpty, LogAssumption DEF Bytes
  <2> QED
    BY <1>4, <2>1 DEF FilesBounded
<1> QED
  BY <1>1, <1>2, <1>3, <1>4, <1>5, <1>6 DEF LogInv, LogTypes, OneWriter

\* The invariants of queue and log hold in every reachable state of the process.
LEMMA LogInvariant == LifeSpec => [](QueueInv /\ LogInv)
<1>1. LifeInit => QueueInv /\ LogInv
  BY QueueInit, LogStart DEF LifeInit
<1>2. QueueInv /\ LogInv /\ [LifeNext]_allVars => (QueueInv /\ LogInv)'
  BY LifeQueue, CrashQueue, QueueStep, LifeLog
<1> QED
  BY <1>1, <1>2, PTL DEF LifeSpec

\* The counters account for every event of a process that was started, stopped, killed
\* and started again.
THEOREM RelayEventsAccounted == LifeSpec => []Accounted
<1>1. QueueInv /\ LogInv => Accounted
  BY DEF QueueInv
<1> QED
  BY LogInvariant, <1>1, PTL

\* JsonlEventSink: whatever the sizes of the lines, the number of backups and the calls
\* that were given up and write beside their retries, and wherever the process dies, no
\* file outgrows max_bytes but by a single line.
THEOREM FilesStayBounded == LifeSpec => []FilesBounded
<1>1. QueueInv /\ LogInv => FilesBounded
  BY DEF LogInv
<1> QED
  BY LogInvariant, <1>1, PTL

\* Files, laid end to end, are the lines after the last cut.
LEMMA FilesAre ==
    ASSUME NEW c, LogInv, Cuts(log, backups, written, c)
    PROVE  Files = SubSeq(written, c[backups + 1] + 1, Len(written))
<1> DEFINE n == backups
           w == written
           seqs == [i \in 1 .. n + 1 |-> LinesOf(log, n + 1 - i)]
           F(f) == [i \in 1 .. Len(seqs) |-> IF i = 1 THEN seqs[i] ELSE f[i - 1] \o seqs[i]]
           g == CHOOSE f : f = F(f)
           p == [i \in 1 .. n + 1 |-> SubSeq(w, c[n + 1] + 1, c[n + 1 - i])]
<1>1. n \in Nat /\ w \in Seq(Events) /\ Len(w) \in Nat /\ log \in [0 .. n -> Contents]
  BY LogAssumption, LenProperties DEF LogInv, LogTypes, backups
<1>2. /\ c \in [0 .. n + 1 -> 0 .. Len(w)] /\ c[0] = Len(w)
      /\ \A i, j \in 0 .. n + 1 : i <= j => c[j] <= c[i]
      /\ \A k \in 0 .. n : LinesOf(log, k) = SubSeq(w, c[k + 1] + 1, c[k])
  BY DEF Cuts
<1>3. seqs \in Seq(Seq(Events)) /\ Len(seqs) = n + 1
  <2>1. \A i \in 1 .. n + 1 : n + 1 - i \in 0 .. n
    BY <1>1
  <2>2. \A i \in 1 .. n + 1 : LinesOf(log, n + 1 - i) \in Seq(Events)
    BY <1>1, <2>1, LinesAre
  <2>3. seqs \in [1 .. n + 1 -> Seq(Events)] /\ n + 1 \in Nat
    BY <1>1, <2>2
  <2> HIDE DEF seqs
  <2> QED
    BY <2>3
<1>4. \A i \in 1 .. n + 1 : p[i] = IF i = 1 THEN seqs[i] ELSE p[i - 1] \o seqs[i]
  <2> SUFFICES ASSUME NEW i \in 1 .. n + 1
               PROVE  p[i] = IF i = 1 THEN seqs[i] ELSE p[i - 1] \o seqs[i]
    OBVIOUS
  <2> DEFINE k == n + 1 - i
  <2>1. k \in 0 .. n /\ k \in 0 .. n + 1 /\ k + 1 \in 0 .. n + 1 /\ n + 1 \in 0 .. n + 1
        /\ k <= k + 1 /\ k + 1 <= n + 1 /\ k + 1 = n + 2 - i
    BY <1>1
  <2>2. seqs[i] = SubSeq(w, c[k + 1] + 1, c[k]) /\ p[i] = SubSeq(w, c[n + 1] + 1, c[k])
    BY <1>2, <2>1
  <2>3. CASE i = 1
    <3>1. k + 1 = n + 1
      BY <1>1, <2>3
    <3> HIDE DEF k, p, seqs
    <3> QED
      BY <2>2, <2>3, <3>1
  <2>4. CASE i # 1
    <3>1. i - 1 \in 1 .. n + 1 /\ n + 1 - (i - 1) = k + 1
      BY <1>1, <2>4
    <3>2. p[i - 1] = SubSeq(w, c[n + 1] + 1, c[k + 1])
      BY <3>1
    <3>3. /\ c[n + 1] \in 0 .. Len(w) /\ c[k + 1] \in 0 .. Len(w) /\ c[k] \in 0 .. Len(w)
          /\ c[n + 1] <= c[k + 1] /\ c[k + 1] <= c[k]
      <4> HIDE DEF k
      <4> QED
        BY <1>1, <1>2, <2>1
    <3> DEFINE a == c[n + 1] + 1
               b == c[k + 1]
               d == c[k]
    <3>4. a \in 1 .. Len(w) + 1 /\ b \in a - 1 .. Len(w) /\ d \in b .. Len(w)
      <4> HIDE DEF k
      <4> QED
        BY <1>1, <3>3
    <3> HIDE DEF a, b, d
    <3>5. SubSeq(w, a, b) \o SubSeq(w, b + 1, d) = SubSeq(w, a, d)
      BY <1>1, <3>4, ConcatAdjacentSubSeq
    <3> HIDE DEF k, p, seqs
    <3> QED
      BY <2>2, <2>4, <3>2, <3>5 DEF a, b, d
  <2> QED
    BY <2>3, <2>4
<1>5. p = F(p)
  <2>1. p = [i \in 1 .. n + 1 |-> p[i]]
    OBVIOUS
  <2> HIDE DEF p, seqs
  <2> QED
    BY <1>3, <1>4, <2>1
<1>6. g = F(g)
  <2>1. \E f : f = F(f)
    BY <1>5
  <2> HIDE DEF F
  <2> QED
    BY <2>1, Zenon
<1> HIDE DEF g, p, seqs
<1>7. \A i \in 1 .. n + 1 : g[i] = IF i = 1 THEN seqs[i] ELSE g[i - 1] \o seqs[i]
  <2>1. \A i \in 1 .. Len(seqs) : g[i] = IF i = 1 THEN seqs[i] ELSE g[i - 1] \o seqs[i]
    BY <1>6, Zenon
  <2> QED
    BY <1>3, <2>1
<1>8. \A i \in 1 .. n + 1 : g[i] = p[i]
  <2> SUFFICES ASSUME \E i \in 1 .. n + 1 : g[i] # p[i] PROVE FALSE
    OBVIOUS
  <2> DEFINE T == {i \in 1 .. n + 1 : g[i] # p[i]}
  <2>1. T \subseteq Nat /\ T # {}
    BY <1>1
  <2>2. PICK x \in T : \A y \in T : x <= y
    <3> HIDE DEF T
    <3> QED
      BY <2>1, LeastExists
  <2>3. x \in 1 .. n + 1 /\ g[x] # p[x]
    OBVIOUS
  <2>4. x # 1
    BY <1>4, <1>7, <2>3
  <2>5. x - 1 \in 1 .. n + 1 /\ ~(x <= x - 1)
    BY <1>1, <2>3, <2>4
  <2>6. g[x - 1] = p[x - 1]
    BY <2>2, <2>5
  <2> QED
    BY <1>4, <1>7, <2>3, <2>4, <2>6
<1>9. Files = g[Len(seqs)]
  <2>1. Files = FlattenSeq(seqs)
    BY DEF Files, seqs, LinesOf
  <2>2. Len(seqs) # 0
    BY <1>1, <1>3
  <2>3. FlattenSeq(seqs) = g[Len(seqs)]
    BY <2>2, Zenon DEF FlattenSeq, g
  <2> QED
    BY <2>1, <2>3
<1>10. g[n + 1] = p[n + 1] /\ p[n + 1] = SubSeq(w, c[n + 1] + 1, Len(w))
  <2>1. n + 1 \in 1 .. n + 1 /\ n + 1 - (n + 1) = 0
    BY <1>1
  <2> QED
    BY <1>2, <1>8, <2>1 DEF p
<1> QED
  BY <1>3, <1>9, <1>10

\* JsonlEventSink: read from the oldest backup to the log, the files are the most recent
\* lines, in the order they were written and with none missing, wherever a rotation was
\* cut short by an error or by the death of the process; and every event that the relay
\* counted as delivered was written.
THEOREM LogStaysInOrder == LifeSpec => []LogInOrder
<1>1. LogInv => LogInOrder
  <2> SUFFICES ASSUME LogInv PROVE LogInOrder
    OBVIOUS
  <2> DEFINE n == backups
             w == written
  <2>1. PICK c : Cuts(log, n, w, c)
    BY DEF LogInv
  <2> DEFINE a == c[n + 1]
             s == SubSeq(w, a + 1, Len(w))
  <2>2. n \in Nat /\ w \in Seq(Events) /\ Len(w) \in Nat
    BY LogAssumption, LenProperties DEF LogInv, LogTypes, backups
  <2>3. a \in 0 .. Len(w) /\ (w # <<>> => a < Len(w))
    BY <2>1, <2>2 DEF Cuts
  <2>4. Files = s
    BY <2>1, FilesAre
  <2> HIDE DEF a
  <2>5. s \in Seq(Events) /\ Len(s) = Len(w) - a /\ \A i \in 1 .. Len(w) - a : s[i] = w[a + i]
    BY <2>2, <2>3, Segment
  <2> HIDE DEF s
  <2>6. IsSuffix(s, w)
    <3> DEFINE rs == Reverse(s)
               rw == Reverse(w)
               m == Len(s)
    <3>1. m \in Nat /\ m <= Len(w) /\ m = Len(w) - a
      BY <2>2, <2>3, <2>5
    <3>2. rs \in Seq(Events) /\ Len(rs) = m /\ \A i \in 1 .. m : rs[i] = s[(m - i) + 1]
      <4>1. \A i \in 1 .. m : (m - i) + 1 \in 1 .. m
        BY <3>1
      <4>2. \A i \in 1 .. m : s[(m - i) + 1] \in Events
        BY <2>5, <4>1, ElementOfSeq
      <4> QED
        BY <3>1, <4>2 DEF Reverse
    <3>3. rw \in Seq(Events) /\ Len(rw) = Len(w) /\ \A i \in 1 .. Len(w) : rw[i] = w[(Len(w) - i) + 1]
      <4>1. \A i \in 1 .. Len(w) : (Len(w) - i) + 1 \in 1 .. Len(w)
        BY <2>2
      <4>2. \A i \in 1 .. Len(w) : w[(Len(w) - i) + 1] \in Events
        BY <2>2, <4>1, ElementOfSeq
      <4> QED
        BY <2>2, <4>2 DEF Reverse
    <3> HIDE DEF rs, rw, m
    <3>4. \A i \in 1 .. m : rs[i] = rw[i]
      <4> SUFFICES ASSUME NEW i \in 1 .. m PROVE rs[i] = rw[i]
        OBVIOUS
      <4>1. (m - i) + 1 \in 1 .. Len(w) - a /\ i \in 1 .. Len(w) /\ a + ((m - i) + 1) = (Len(w) - i) + 1
        BY <2>2, <2>3, <3>1
      <4>2. rs[i] = s[(m - i) + 1] /\ s[(m - i) + 1] = w[a + ((m - i) + 1)]
        BY <2>5, <3>2, <4>1
      <4> QED
        BY <3>3, <4>1, <4>2
    <3>5. SubSeq(rs, 1, m) = SubSeq(rw, 1, m)
      <4>1. m \in 0 .. Len(rs) /\ m \in 0 .. Len(rw) /\ 0 \in 0 .. Len(rs) /\ 0 \in 0 .. Len(rw) /\ 0 <= m
        BY <2>2, <3>1, <3>2, <3>3
      <4>2. \A i \in 1 .. m : rs[0 + i] = rw[0 + i]
        BY <3>1, <3>4
      <4>3. /\ SubSeq(rs, 0 + 1, m) \in Seq(Events) /\ Len(SubSeq(rs, 0 + 1, m)) = m - 0
            /\ \A i \in 1 .. m - 0 : SubSeq(rs, 0 + 1, m)[i] = rs[0 + i]
        BY <3>2, <4>1, Segment
      <4>4. /\ SubSeq(rw, 0 + 1, m) \in Seq(Events) /\ Len(SubSeq(rw, 0 + 1, m)) = m - 0
            /\ \A i \in 1 .. m - 0 : SubSeq(rw, 0 + 1, m)[i] = rw[0 + i]
        BY <3>3, <4>1, Segment
      <4>5. m - 0 = m /\ 0 + 1 = 1
        BY <3>1
      <4> QED
        BY <4>2, <4>3, <4>4, <4>5, SeqEqual
    <3> QED
      BY <3>1, <3>2, <3>3, <3>5 DEF IsSuffix, IsPrefix, rs, rw, m
  <2>7. w # <<>> => s # <<>>
    <3>1. s = <<>> => Len(s) = 0
      OBVIOUS
    <3> QED
      BY <2>2, <2>3, <2>5, <3>1
  <2> QED
    BY <2>4, <2>6, <2>7 DEF LogInv, LogInOrder
<1> QED
  BY LogInvariant, <1>1, PTL

-----------------------------------------------------------------------------
(* serve()                                                                 *)

Ends == {"stopping", "returned"}
Failures == {"cleanup", "failed"}
Phases == {"starting", "up", "signalled", "draining", "agents"} \cup Ends \cup Failures

\* Types of serve()'s state, the handlers and the visits.
LifeTypes ==
    /\ phase \in Phases /\ late \in BOOLEAN
    /\ tunnel \in [Tunnels -> {"none", "handshake", "claimed", "live", "retiring", "closing", "ended"}]
    /\ visit \in [Tunnels -> {"none", "arrived", "open", "done", "late", "lost", "cut"}]
    /\ announced \subseteq Tunnels /\ agents \subseteq Tunnels /\ snapshot \subseteq Tunnels

\* What is settled when serve() gets to a phase.
Stages ==
    /\ phase \in {"draining", "agents"} \cup Ends \cup Failures => bound = {}
    /\ phase \in {"starting", "up", "signalled"} \cup Failures => snapshot = {}
    /\ drained \subseteq snapshot
    /\ phase \in {"agents"} \cup Ends => drained = snapshot
    /\ worker = "stopped" => phase \in Ends \cup Failures
    /\ late => phase \in Ends
    /\ phase \in Ends /\ ~late => HandlersGone

\* A visit is open on a tunnel that is up and was not drained; nothing is cut before
\* serve() has returned or its start has failed.
VisitsOn ==
    /\ \A t \in Tunnels : visit[t] = "open" => tunnel[t] \in {"live", "retiring"} /\ t \notin drained
    /\ phase \notin Failures \cup {"returned"} => \A t \in Tunnels : visit[t] # "cut"

\* A handler that was announced and has ended has queued its tunnel_closed.
Farewells ==
    /\ \A t \in announced : tunnel[t] \notin {"none", "handshake"}
    /\ phase \notin Failures /\ ~late =>
          \A t \in announced : tunnel[t] = "ended" => Closed(t) \notin todo

IInv == LifeTypes /\ Stages /\ VisitsOn /\ Farewells /\ DrainedNotDropped

-----------------------------------------------------------------------------
\* A process that is starting has no visits and no events.
LEMMA LifetimeInit == LifeInit => IInv
BY DEF LifeInit, Init, IInv, LifeTypes, Stages, VisitsOn, Farewells, DrainedNotDropped, Phases, Ends,
       Failures

\* Emitting an event leaves the worker alone and takes the event off the list.
LEMMA EmitTakesOff ==
    ASSUME NEW e, Emit(e)
    PROVE  todo' = todo \ {e} /\ worker' = worker
BY DEF Emit

\* An agent's and a visitor's step.
LEMMA TunnelStep ==
    ASSUME IInv, NEW t \in Tunnels,
           \/ Connect(t) \/ ClaimLabel(t) \/ Install(t) \/ Retire(t) \/ RetireCloses(t)
           \/ Lose(t) \/ HandlerEnds(t) \/ Arrive(t) \/ Route(t) \/ VisitEnds(t)
    PROVE  IInv'
<1> USE DEF IInv, LifeTypes, Stages, VisitsOn, Farewells, DrainedNotDropped, Phases, Ends, Failures,
            HandlersGone, Quiet, vars
<1>1. CASE Connect(t)
  BY <1>1 DEF Connect
<1>2. CASE ClaimLabel(t)
  BY <1>2, EmitTakesOff DEF ClaimLabel
<1>3. CASE Install(t)
  BY <1>3 DEF Install
<1>4. CASE Retire(t)
  BY <1>4 DEF Retire
<1>5. CASE RetireCloses(t)
  BY <1>5 DEF RetireCloses, Disconnected, VisitCut
<1>6. CASE Lose(t)
  BY <1>6 DEF Lose, Disconnected, VisitCut
<1>7. CASE HandlerEnds(t)
  BY <1>7, EmitTakesOff DEF HandlerEnds, Depart
<1>8. CASE Arrive(t)
  BY <1>8 DEF Arrive
<1>9. CASE Route(t)
  BY <1>9 DEF Route
<1>10. CASE VisitEnds(t)
  BY <1>10 DEF VisitEnds
<1> QED
  BY <1>1, <1>2, <1>3, <1>4, <1>5, <1>6, <1>7, <1>8, <1>9, <1>10

\* A step of serve(), of the exit and of the restart.
LEMMA ServeStep ==
    ASSUME IInv,
           \/ \E t \in Tunnels : DrainReturns(t) \/ ExitCancels(t)
           \/ \E l \in DOMAIN Rank : Bind(l)
           \/ BindFails \/ CleanupEnds \/ Signal \/ CloseDown \/ DrainsEnd \/ WaitAgents
           \/ ServeReturns \/ Restart
    PROVE  IInv'
<1> USE DEF IInv, LifeTypes, Stages, VisitsOn, Farewells, DrainedNotDropped, Phases, Ends, Failures,
            HandlersGone, Quiet, vars
<1>1. ASSUME NEW t \in Tunnels, DrainReturns(t)
      PROVE  IInv'
  BY <1>1 DEF DrainReturns, Disconnected, VisitCut
<1>2. ASSUME NEW t \in Tunnels, ExitCancels(t)
      PROVE  IInv'
  BY <1>2, EmitTakesOff DEF ExitCancels, Depart, VisitCut
<1>3. ASSUME NEW l, Bind(l)
      PROVE  IInv'
  BY <1>3 DEF Bind
<1>4. CASE BindFails
  BY <1>4 DEF BindFails, Stop
<1>5. CASE CleanupEnds \/ Signal \/ CloseDown \/ DrainsEnd \/ ServeReturns
  BY <1>5 DEF CleanupEnds, Signal, CloseDown, DrainsEnd, ServeReturns
<1>6. CASE WaitAgents
  BY <1>6 DEF WaitAgents, CancelWorker, Stop
<1>7. CASE Restart
  BY <1>7 DEF Restart, CrashAndRestart
<1> QED
  BY <1>1, <1>2, <1>3, <1>4, <1>5, <1>6, <1>7

\* The worker and its threads neither emit events nor stop by themselves.
LEMMA LogStepKeeps ==
    ASSUME IInv, LogStep, UNCHANGED lifeVars
    PROVE  IInv'
<1>1. todo' = todo /\ (worker' = "stopped" => worker = "stopped")
  BY DEF LogStep, Write, Acquire, Unlink, Shift, Create, AppendLine, WriteFails, CallSink, SinkReturns,
         SinkFails, PutBack, Take, Deliver, Fail, Requeue, vars
<1> QED
  BY <1>1 DEF IInv, LifeTypes, Stages, VisitsOn, Farewells, DrainedNotDropped, HandlersGone, lifeVars

\* The inductive invariant holds in every reachable state.
LEMMA LifetimeInvariant == LifeSpec => []IInv
<1>1. IInv /\ [LifeNext]_allVars => IInv'
  <2> SUFFICES ASSUME IInv, [LifeNext]_allVars PROVE IInv'
    OBVIOUS
  <2>1. CASE UNCHANGED allVars
    BY <2>1 DEF allVars, vars, lifeVars, IInv, LifeTypes, Stages, VisitsOn, Farewells,
                DrainedNotDropped, HandlersGone
  <2>2. CASE LifeNext
    BY <2>2, TunnelStep, ServeStep, LogStepKeeps DEF LifeNext
  <2> QED
    BY <2>1, <2>2
<1> QED
  BY LifetimeInit, <1>1, PTL DEF LifeSpec

\* The finally block of serve(): a visit on a tunnel that was registered when the stop
\* began is never cut by the relay, for any number of tunnels and visits, whenever
\* agents leave, tunnels are retired or drains run out of time.
THEOREM NoVisitIsDropped == LifeSpec => []DrainedNotDropped
<1>1. IInv => DrainedNotDropped
  BY DEF IInv
<1> QED
  BY LifetimeInvariant, <1>1, PTL

\* serve() cancels the event worker only after every announced tunnel has queued its
\* tunnel_closed, unless a handler outlived the wait for the agents.
THEOREM FarewellsAreQueued == LifeSpec => []FinalEventsQueued
<1>1. IInv => FinalEventsQueued
  BY DEF IInv, LifeTypes, Stages, Farewells, FinalEventsQueued, HandlersGone, Phases, Ends, Failures
<1> QED
  BY LifetimeInvariant, <1>1, PTL
=============================================================================
