------------------------------ MODULE MCTunnel ------------------------------
\* Model-checking instances of Tunnel: one visit, a few bytes each way.
EXTENDS Tunnel

NoJunk == {}

\* Two bytes of request, one of response, and nothing but an orderly exchange.
Quiet ==
    [streams |-> 1, maxStreams |-> 1, account |-> 100, chunks |-> {1}, bytes |-> 3,
     talkers |-> Ends, drainers |-> {}, faults |-> {"reset", "cancel"},
     junk |-> 0, injected |-> FALSE,
     source |-> [e \in Ends |-> IF e = Server THEN 2 ELSE 1], hazards |-> {}]

\* Two bytes each way.
Even == [Quiet EXCEPT !.source = [e \in Ends |-> 2]]

\* Every failure of the sockets, the dial, the idle watch, the credit and the connection.
Rough ==
    [Quiet EXCEPT !.faults = {"reset", "cancel", "stall", "loss"},
                  !.hazards = {"dial", "visitor", "app", "sink", "idle"}]

\* Drains at either end with their deadline, and an account with no buffer left.
Draining ==
    [Quiet EXCEPT !.faults = {"reset", "cancel", "deadline"}, !.drainers = Ends, !.account = 0]

RelayEnvironments == {Even, Rough, Draining}

\* For liveness: the same failures without the idle watch, which would end every
\* visit, with sends larger than the window; and an agent that drains.
Watchless ==
    [Rough EXCEPT !.hazards = @ \ {"idle"}, !.chunks = {1, 2},
                  !.source = [e \in Ends |-> IF e = Server THEN 1 ELSE 2]]
Retiring == [Draining EXCEPT !.drainers = {Agent}]

LiveEnvironments == {Watchless, Retiring}

\* The local app may reset its connection in the middle of the response.
AppResets == {[Even EXCEPT !.hazards = {"app"}]}
=============================================================================
