------------------------------- MODULE MCMux -------------------------------
\* Model-checking instances of Mux.
EXTENDS Mux

\* One stream, quiet and well-behaved surroundings: what the others start from.
Calm ==
    [streams |-> 1, maxStreams |-> 2, account |-> 100, chunks |-> {1}, bytes |-> 2,
     talkers |-> {}, drainers |-> {}, faults |-> {}, junk |-> 0, injected |-> FALSE]

\* One direction under flow control, with resets, stalls and cancelled sends.
Flow ==
    [Calm EXCEPT !.talkers = {Server}, !.chunks = {1, 3}, !.bytes = 4,
                 !.faults = {"reset", "stall", "cancel"}]

\* Resets by both ends, and a connection that dies.
Loss == [Calm EXCEPT !.talkers = {Server}, !.bytes = 1, !.faults = {"reset", "loss"}]

\* Two streams that share an account with room for one byte.
Shared == [Calm EXCEPT !.streams = 2, !.talkers = {Agent}, !.bytes = 1, !.account = 1]

\* Frames that break the protocol.
Foreign == [Calm EXCEPT !.maxStreams = 1, !.account = 2, !.junk = 3]

\* A send of two frames, drains by both ends, and drains that run out of time.
Drains ==
    [Calm EXCEPT !.talkers = {Agent}, !.chunks = {2}, !.drainers = Ends, !.faults = {"deadline"}]

SafetyEnvironments == {Flow, Loss, Shared, Foreign, Drains}

\* Frames a compliant end would not send: wrong payloads, wrong ids, wrong roles.
Bad(type, sid) == [Frame(type, sid, 1) EXCEPT !.ok = FALSE]
JunkFrames ==
    {Frame("DATA", 1, 2), Frame("DATA", 1, 0), Frame("DATA", 0, 1),
     Frame("OPEN", 1, 0), Bad("OPEN", 1), Frame("OPEN", 0, 0),
     Bad("EOF", 1), Frame("EOF", 1, 0), Bad("WINDOW_UPDATE", 1),
     Frame("WINDOW_UPDATE", 1, 0), Frame("WINDOW_UPDATE", 1, 3),
     Bad("GOAWAY", 0), Frame("GOAWAY", 0, 0), Frame("RESET", 1, 0), Frame("OTHER", 0, 0)}
AnyJunk == Ends \X JunkFrames
=============================================================================
