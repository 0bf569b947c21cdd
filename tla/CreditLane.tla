----------------------------- MODULE CreditLane -----------------------------
(***************************************************************************)
(* One direction of one multiplexed stream, seen as an account book of     *)
(* flow-control credit.  This is what src/chute/mux.py promises of a       *)
(* stream's send side at one end and receive side at the other: the module *)
(* Mux implements it for every stream and direction (MuxProofs), and       *)
(* CreditLaneProofs proves its invariants for every window size.           *)
(*                                                                         *)
(* Only amounts are kept: where each of the W bytes of credit is.  The     *)
(* frames themselves, their order and the end-of-stream rules are Mux's.   *)
(***************************************************************************)
EXTENDS Integers

CONSTANTS W,          \* the negotiated flow_window, in bytes
          MaxFrame    \* _MAX_FRAME_PAYLOAD, the largest DATA payload

\* validate_flow_window accepts 1 .. 16 MiB; the frame cap is a positive size.
ASSUME WindowAssumption == W \in Nat \ {0} /\ MaxFrame \in Nat \ {0}

VARIABLES
    phase,      \* "new"; "live" while both ends run the stream; then "dead",
                \* or "breached" when a backstop of _feed ended it
    window,     \* sender: Stream._send_window
    wire,       \* payload bytes in DATA frames under way
    wireFrames, \* the number of those frames
    queued,     \* receiver: Stream._recv_buffered
    qFrames,    \* receiver: Stream._recv_frames
    held,       \* receiver: bytes read() gave the pump and ack() has not seen
    unacked,    \* receiver: Stream._unacked
    grants      \* credit in WINDOW_UPDATE frames under way

vars == <<phase, window, wire, wireFrames, queued, qFrames, held, unacked, grants>>

\* Mutant of Threshold: half of some default window larger than the negotiated one.
DefaultThreshold == W + 1

\* window_update_threshold = max(1, flow_window // 2)
Threshold == IF W \div 2 > 1 THEN W \div 2 ELSE 1

\* The per-stream backstops _feed enforces, in bytes and in frames.
StreamHardMax == 2 * W

\* Mutant of MaxQueuedFrames: frames of one byte are not thought of.
FewQueuedFrames == W \div 2
MaxQueuedFrames == W

Init ==
    /\ phase = "new"
    /\ window = 0 /\ wire = 0 /\ wireFrames = 0 /\ queued = 0 /\ qFrames = 0
    /\ held = 0 /\ unacked = 0 /\ grants = 0

\* A lane that ends takes its credit with it: both ends forget the amounts.
Forget ==
    /\ window' = 0 /\ wire' = 0 /\ wireFrames' = 0 /\ queued' = 0 /\ qFrames' = 0
    /\ held' = 0 /\ unacked' = 0 /\ grants' = 0

\* Stream.__init__: a fresh stream starts with one window of credit.
Open ==
    /\ phase = "new"
    /\ phase' = "live"
    /\ window' = W
    /\ UNCHANGED <<wire, wireFrames, queued, qFrames, held, unacked, grants>>

\* Stream.send: one DATA frame of n bytes, within the credit and the frame cap.
Send(n) ==
    /\ phase = "live"
    /\ n <= window /\ n <= MaxFrame
    /\ window' = window - n
    /\ wire' = wire + n
    /\ wireFrames' = wireFrames + 1
    /\ UNCHANGED <<phase, queued, qFrames, held, unacked, grants>>

\* Stream._feed: the oldest DATA frame, of n bytes, is queued for the consumer,
\* unless it would breach a backstop, which resets the stream.  Every other
\* frame under way carries at least one byte.
Feed(n) ==
    /\ phase = "live"
    /\ wireFrames > 0
    /\ n <= wire - (wireFrames - 1)
    /\ wireFrames = 1 => n = wire
    /\ IF queued + n <= StreamHardMax /\ qFrames + 1 <= MaxQueuedFrames
       THEN /\ wire' = wire - n
            /\ wireFrames' = wireFrames - 1
            /\ queued' = queued + n
            /\ qFrames' = qFrames + 1
            /\ UNCHANGED <<phase, window, held, unacked, grants>>
       ELSE phase' = "breached" /\ Forget

\* Stream.read: the consumer pump takes the oldest queued chunk, of n bytes.
\* One pump per stream: it acknowledges a chunk before it reads the next.
Read(n) ==
    /\ phase = "live"
    /\ held = 0
    /\ qFrames > 0
    /\ n <= queued - (qFrames - 1)
    /\ qFrames = 1 => n = queued
    /\ queued' = queued - n
    /\ qFrames' = qFrames - 1
    /\ held' = n
    /\ UNCHANGED <<phase, window, wire, wireFrames, unacked, grants>>

\* Mutant of Ack: the batch is granted and not reset.
AckTwice ==
    /\ phase = "live"
    /\ held > 0
    /\ held' = 0
    /\ unacked' = unacked + held
    /\ grants' = IF unacked + held >= Threshold THEN grants + unacked + held ELSE grants
    /\ UNCHANGED <<phase, window, wire, wireFrames, queued, qFrames>>

\* Stream.ack: the chunk was flushed downstream; its credit is returned in one
\* WINDOW_UPDATE once the batch reaches the threshold.
Ack ==
    /\ phase = "live"
    /\ held > 0
    /\ held' = 0
    /\ \/ /\ unacked + held < Threshold
          /\ unacked' = unacked + held
          /\ UNCHANGED grants
       \/ /\ unacked + held >= Threshold
          /\ unacked' = 0
          /\ grants' = grants + unacked + held
    /\ UNCHANGED <<phase, window, wire, wireFrames, queued, qFrames>>

\* Mutant of Grant: the sender waits until its whole window has come back.
GrantWhole(d) ==
    /\ phase = "live"
    /\ d = W /\ d <= grants
    /\ grants' = grants - d
    /\ window' = window + d
    /\ UNCHANGED <<phase, wire, wireFrames, queued, qFrames, held, unacked>>

\* Stream._grant: a WINDOW_UPDATE of d bytes reaches the sender.
Grant(d) ==
    /\ phase = "live"
    /\ d <= grants
    /\ grants' = grants - d
    /\ window' = window + d
    /\ UNCHANGED <<phase, wire, wireFrames, queued, qFrames, held, unacked>>

\* Either end tears the stream down, or the connection under it goes.
Die ==
    /\ phase \in {"new", "live"}
    /\ phase' = "dead"
    /\ Forget

Sizes == 1 .. W

Next ==
    \/ Open
    \/ \E n \in Sizes : Send(n) \/ Feed(n) \/ Read(n) \/ Grant(n)
    \/ Ack
    \/ Die

Spec == Init /\ [][Next]_vars

-----------------------------------------------------------------------------
\* The demux loop never blocks (it delivers frames and grants), and a consumer
\* whose downstream accepts data keeps reading and acknowledging.
Fairness ==
    /\ WF_vars(\E n \in Sizes : Feed(n))
    /\ WF_vars(\E n \in Sizes : Grant(n))
    /\ WF_vars(\E n \in Sizes : Read(n))
    /\ WF_vars(Ack)

FairSpec == Spec /\ Fairness

-----------------------------------------------------------------------------
\* Types of the amounts (type invariant of the component).
TypeOK ==
    /\ phase \in {"new", "live", "dead", "breached"}
    /\ window \in Nat /\ wire \in Nat /\ wireFrames \in Nat
    /\ queued \in Nat /\ qFrames \in Nat
    /\ held \in Nat /\ unacked \in Nat /\ grants \in Nat

\* Credit is neither lost nor minted: over send, _feed, read, ack and _grant,
\* every byte of the window is at exactly one place while the stream lives.
CreditConserved ==
    phase = "live" => window + wire + queued + held + unacked + grants = W

\* mux.py: the buffer of a compliant sender "is provably bounded by one window"
\* in bytes and, with frames of one byte, in frames: what is queued and under way
\* never exceeds it, so no frame ever meets the per-stream backstops of _feed
\* (2W bytes, W frames) and resets a stream whose sender respected its credit.
BackstopsUnreachable ==
    /\ phase # "breached"
    /\ queued + wire <= W
    /\ qFrames + wireFrames <= MaxQueuedFrames

\* PROTOCOL.md 7.4: a sender with no credit left, whose receiver has drained
\* everything downstream, is always owed a WINDOW_UPDATE that is already under
\* way: batching at half a window can not leave both ends waiting.
BlockedSenderIsOwed ==
    (phase = "live" /\ window = 0 /\ wire = 0 /\ queued = 0 /\ held = 0) => grants > 0

\* PROTOCOL.md 7.4, as progress: if the receiver keeps draining downstream, a
\* blocked sender gets credit again (or the stream ends).
BlockedSenderUnblocks ==
    (phase = "live" /\ window = 0) ~> (phase # "live" \/ window > 0)

=============================================================================
