----------------------------- MODULE Summation -----------------------------
EXTENDS Integers, Sequences

\* The sum of a sequence of numbers.
SumSeq(q) ==
    LET upTo[i \in 0 .. Len(q)] == IF i = 0 THEN 0 ELSE upTo[i - 1] + q[i]
    IN upTo[Len(q)]

=============================================================================
