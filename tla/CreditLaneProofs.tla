-------------------------- MODULE CreditLaneProofs --------------------------
(***************************************************************************)
(* The invariants of CreditLane, proved for every window size and every    *)
(* frame cap.  None of them is inductive alone: conservation bounds the    *)
(* amounts, the frame counts are bounded by the byte counts because no     *)
(* frame is empty, and the batch a receiver keeps back stays below the     *)
(* threshold.  LaneInv is the conjunction that a step preserves.           *)
(***************************************************************************)
EXTENDS CreditLane, TLAPS

\* A DATA frame is never empty, under way or queued: bytes bound frames, and
\* there are bytes only where there is a frame.
FramesWithinBytes ==
    /\ wireFrames <= wire /\ (wireFrames = 0 => wire = 0)
    /\ qFrames <= queued /\ (qFrames = 0 => queued = 0)

\* ack() never keeps a whole threshold of credit back.
BatchBelowThreshold == unacked < Threshold

\* A lane that is not live holds no credit.
DeadHoldsNothing ==
    phase # "live" =>
        /\ window = 0 /\ wire = 0 /\ wireFrames = 0 /\ queued = 0 /\ qFrames = 0
        /\ held = 0 /\ unacked = 0 /\ grants = 0

LaneInv ==
    /\ TypeOK
    /\ CreditConserved
    /\ FramesWithinBytes
    /\ BatchBelowThreshold
    /\ DeadHoldsNothing
    /\ phase # "breached"

-----------------------------------------------------------------------------

\* The threshold lies between one byte and the whole window, whatever the window
\* (window_update_threshold = max(1, flow_window // 2), for windows of one byte too).
LEMMA ThresholdInWindow == Threshold \in 1 .. W
  BY WindowAssumption DEF Threshold

\* The initial state satisfies the inductive invariant.
LEMMA LaneInit == Init => LaneInv
  BY WindowAssumption, ThresholdInWindow
     DEF Init, LaneInv, TypeOK, CreditConserved, FramesWithinBytes,
         BatchBelowThreshold, DeadHoldsNothing

\* Every operation of the lane preserves the inductive invariant.
LEMMA LaneStep == LaneInv /\ [Next]_vars => LaneInv'
<1> SUFFICES ASSUME LaneInv, [Next]_vars PROVE LaneInv'
    OBVIOUS
<1> USE WindowAssumption, ThresholdInWindow
    DEF LaneInv, TypeOK, CreditConserved, FramesWithinBytes, BatchBelowThreshold,
        DeadHoldsNothing
<1>1. CASE Open
      BY <1>1 DEF Open
<1>2. ASSUME NEW n \in Sizes, Send(n) PROVE LaneInv'
      BY <1>2 DEF Send, Sizes
<1>3. ASSUME NEW n \in Sizes, Feed(n) PROVE LaneInv'
  <2>1. queued + n <= StreamHardMax /\ qFrames + 1 <= MaxQueuedFrames
        BY <1>3 DEF Feed, Sizes, StreamHardMax, MaxQueuedFrames
  <2>2. QED
        BY <1>3, <2>1 DEF Feed, Sizes
<1>4. ASSUME NEW n \in Sizes, Read(n) PROVE LaneInv'
      BY <1>4 DEF Read, Sizes
<1>5. ASSUME NEW n \in Sizes, Grant(n) PROVE LaneInv'
      BY <1>5 DEF Grant, Sizes
<1>6. CASE Ack
      BY <1>6 DEF Ack
<1>7. CASE Die
      BY <1>7 DEF Die, Forget
<1>8. CASE UNCHANGED vars
      BY <1>8 DEF vars
<1>9. QED
      BY <1>1, <1>2, <1>3, <1>4, <1>5, <1>6, <1>7, <1>8 DEF Next

\* The inductive invariant holds throughout.
THEOREM LaneInvariant == Spec => []LaneInv
  BY LaneInit, LaneStep, PTL DEF Spec

\* Types of a lane's amounts: no counter of mux.py ever goes below zero.
THEOREM TypeCorrect == Spec => []TypeOK
<1>1. LaneInv => TypeOK
      BY DEF LaneInv
<1>2. QED
      BY LaneInvariant, <1>1, PTL

\* Credit is conserved for every window (Stream.send, _feed, read, ack, _grant).
THEOREM CreditIsConserved == Spec => []CreditConserved
<1>1. LaneInv => CreditConserved
      BY DEF LaneInv
<1>2. QED
      BY LaneInvariant, <1>1, PTL

\* The per-stream backstops of _feed never reset a stream of a compliant peer.
THEOREM BackstopsNeverMet == Spec => []BackstopsUnreachable
<1>1. LaneInv => BackstopsUnreachable
      BY WindowAssumption
         DEF LaneInv, TypeOK, CreditConserved, FramesWithinBytes, DeadHoldsNothing,
             BackstopsUnreachable, MaxQueuedFrames
<1>2. QED
      BY LaneInvariant, <1>1, PTL

\* PROTOCOL.md 7.4: no window size lets both ends of a lane wait for each other.
THEOREM NoCreditDeadlock == Spec => []BlockedSenderIsOwed
<1>1. LaneInv => BlockedSenderIsOwed
      BY WindowAssumption, ThresholdInWindow
         DEF LaneInv, TypeOK, CreditConserved, BatchBelowThreshold, BlockedSenderIsOwed
<1>2. QED
      BY LaneInvariant, <1>1, PTL

=============================================================================
