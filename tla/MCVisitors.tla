----------------------------- MODULE MCVisitors -----------------------------
\* Model-checking instances of Visitors: agents and visitors in small crowds.
EXTENDS Visitors

CONSTANTS a1, a2, a3, a4, v1, v2, v3, v4, v5

\* a1 may reconnect and asks for its label; a2 takes any label; the others are refused.
Kind_ == [a \in Agents |-> CASE a = a3 -> "bad" [] a = a4 -> "old" [] OTHER -> "good"]
Wants_ == [a \in Agents |-> IF a = a1 THEN "l1" ELSE NoLabel]
Attempts_ == [a \in Agents |-> IF a = a1 THEN 2 ELSE 1]
OneAccount == [a \in Agents |-> "acct"]
SourceOf_ == [a \in Agents |-> IF a = a4 THEN "s2" ELSE "s1"]
PersonSource_ == [v \in People |-> CASE v \in {v1, v2} -> "s1" [] v = v3 -> "s2" [] OTHER -> NoSource]

\* A good agent beside one with an unknown token; two that fail from two sources; an
\* agent that reconnects while a visitor comes; two visitors while a tunnel comes and
\* goes; a rush of visitors to labels that nobody serves.
SmallCrowds == {{a2, a3}, {a3, a4}, {a1, v4}, {a2, v1, v4}, {v1, v2, v3, v4, v5}}
Reconnecting == {{a1}}
=============================================================================
