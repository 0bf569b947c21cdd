----------------------------- MODULE MCRegistry -----------------------------
\* Model-checking instances of Registry: connections c1 and c2 of account A on
\* different leases, c3 of account B.
EXTENDS Registry, TLC

CONSTANTS c1, c2, c3, A, B, x1, x2

TwoAccounts == c1 :> A @@ c2 :> A @@ c3 :> B
SharedLease == c1 :> x1 @@ c2 :> x1 @@ c3 :> x2
PairAccounts == c1 :> A @@ c2 :> A
PairLeases == c1 :> x1 @@ c2 :> x2
OneEach == A :> 1 @@ B :> 1
=============================================================================
