----------------------------- MODULE SumProofs -----------------------------
(***************************************************************************)
(* What SumSeq computes, for every sequence of numbers.  The provers have  *)
(* no induction over data; the facts about the recursive function come     *)
(* from the least number at which one of them would fail.                  *)
(***************************************************************************)
EXTENDS Summation, SequenceTheorems, WellFoundedInduction, TLAPS

\* A set of numbers has a least element.
LEMMA LeastExists ==
    ASSUME NEW T, T \subseteq Nat, T # {}
    PROVE  \E x \in T : \A y \in T : x <= y
<1> DEFINE R == OpToRel(<, Nat)
<1>1. IsWellFoundedOn(R, Nat)
  BY NatLessThanWellFounded
<1>2. \A y, z \in Nat : y < z => <<y, z>> \in R
  BY DEF OpToRel
<1>3. PICK x \in T : \A y \in T : ~ (<<y, x>> \in R)
  <2> HIDE DEF R
  <2> QED
    BY <1>1, WFMin
<1>4. \A y \in T : ~(y < x) /\ y \in Nat /\ x \in Nat
  <2> HIDE DEF R
  <2> QED
    BY <1>2, <1>3
<1> QED
  BY <1>4

\* p holds the sums of the first elements of q.
Sums(q, p) ==
    /\ p \in [0 .. Len(q) -> Int]
    /\ p[0] = 0
    /\ \A i \in 1 .. Len(q) : p[i] = p[i - 1] + q[i]

\* Such a p is what SumSeq computes: the equation of upTo has one solution.
LEMMA SumIs ==
    ASSUME NEW q \in Seq(Nat), NEW p, Sums(q, p)
    PROVE  SumSeq(q) = p[Len(q)]
<1> DEFINE F(f) == [i \in 0 .. Len(q) |-> IF i = 0 THEN 0 ELSE f[i - 1] + q[i]]
           g == CHOOSE f : f = F(f)
<1>0. Len(q) \in Nat
  OBVIOUS
<1>1. p = F(p)
  <2>1. \A i \in 0 .. Len(q) : p[i] = IF i = 0 THEN 0 ELSE p[i - 1] + q[i]
    <3>1. \A i \in 0 .. Len(q) : i = 0 \/ i \in 1 .. Len(q)
      BY <1>0
    <3> QED
      BY <3>1 DEF Sums
  <2>2. p = [i \in 0 .. Len(q) |-> p[i]]
    BY DEF Sums
  <2> QED
    BY <2>1, <2>2, Zenon
<1>2. g = F(g)
  <2>1. \E f : f = F(f)
    BY <1>1
  <2> HIDE DEF F
  <2> QED
    BY <2>1, Zenon
<1>3. \A i \in 0 .. Len(q) : g[i] = IF i = 0 THEN 0 ELSE g[i - 1] + q[i]
  <2> HIDE DEF g
  <2> QED
    BY <1>2, Zenon
<1> HIDE DEF g
<1>4. \A i \in 0 .. Len(q) : g[i] = p[i]
  <2> SUFFICES ASSUME \E i \in 0 .. Len(q) : g[i] # p[i] PROVE FALSE
    OBVIOUS
  <2> DEFINE T == {i \in 0 .. Len(q) : g[i] # p[i]}
  <2>1. T \subseteq Nat /\ T # {}
    OBVIOUS
  <2>2. PICK x \in T : \A y \in T : x <= y
    <3> HIDE DEF T
    <3> QED
      BY <2>1, LeastExists
  <2>3. x \in 0 .. Len(q) /\ g[x] # p[x]
    OBVIOUS
  <2>4. x # 0
    BY <1>0, <1>3, <2>3 DEF Sums
  <2>5. x \in 1 .. Len(q) /\ x - 1 \in 0 .. Len(q) /\ ~(x <= x - 1)
    BY <1>0, <2>3, <2>4
  <2>6. g[x - 1] = p[x - 1]
    BY <2>2, <2>5
  <2>7. g[x] = g[x - 1] + q[x] /\ p[x] = p[x - 1] + q[x]
    BY <1>3, <2>3, <2>4, <2>5 DEF Sums
  <2> QED
    BY <2>3, <2>6, <2>7
<1>5. SumSeq(q) = g[Len(q)]
  BY Zenon DEF SumSeq, g
<1> QED
  BY <1>0, <1>4, <1>5

\* There is one: the sums of a longer sequence extend those of a shorter one.
LEMMA SumsExist ==
    ASSUME NEW q \in Seq(Nat)
    PROVE  \E p \in [0 .. Len(q) -> Nat] : Sums(q, p) /\ \A i, j \in 0 .. Len(q) : i <= j => p[i] <= p[j]
<1> DEFINE Good(n, p) == /\ p \in [0 .. n -> Nat] /\ p[0] = 0
                         /\ \A i \in 1 .. n : p[i] = p[i - 1] + q[i]
                         /\ \A i, j \in 0 .. n : i <= j => p[i] <= p[j]
           T == {n \in 0 .. Len(q) : ~ \E p : Good(n, p)}
<1>0. Len(q) \in Nat /\ \A i \in 1 .. Len(q) : q[i] \in Nat
  OBVIOUS
<1>1. T = {}
  <2> SUFFICES ASSUME T # {} PROVE FALSE
    OBVIOUS
  <2>1. T \subseteq Nat
    BY <1>0
  <2>2. PICK x \in T : \A y \in T : x <= y
    <3> HIDE DEF T
    <3> QED
      BY <2>1, LeastExists
  <2>3. x \in 0 .. Len(q) /\ ~ \E p : Good(x, p)
    OBVIOUS
  <2>4. CASE x = 0
    <3>1. Good(0, [i \in 0 .. 0 |-> 0])
      OBVIOUS
    <3> QED
      BY <2>3, <2>4, <3>1
  <2>5. CASE x # 0
    <3>1. x - 1 \in 0 .. Len(q) /\ x - 1 \notin T
      <4>1. x - 1 \in 0 .. Len(q) /\ ~(x <= x - 1)
        BY <1>0, <2>3, <2>5
      <4> HIDE DEF T
      <4> QED
        BY <2>2, <4>1
    <3>2. PICK p : Good(x - 1, p)
      BY <3>1
    <3> DEFINE r == [i \in 0 .. x |-> IF i = x THEN p[x - 1] + q[x] ELSE p[i]]
    <3>3. x \in Nat /\ x \in 1 .. Len(q) /\ q[x] \in Nat /\ p[x - 1] \in Nat
      BY <1>0, <2>3, <2>5, <3>2
    <3>4. r \in [0 .. x -> Nat] /\ r[0] = 0
      BY <2>5, <3>2, <3>3
    <3>5. \A i \in 1 .. x : r[i] = r[i - 1] + q[i]
      BY <3>2, <3>3
    <3>6. \A i, j \in 0 .. x : i <= j => r[i] <= r[j]
      <4> SUFFICES ASSUME NEW i \in 0 .. x, NEW j \in 0 .. x, i <= j PROVE r[i] <= r[j]
        OBVIOUS
      <4>1. CASE j # x
        BY <3>2, <3>3, <4>1
      <4>2. CASE j = x /\ i # x
        <5>1. p[i] <= p[x - 1] /\ p[i] \in Nat
          BY <3>2, <3>3, <4>2
        <5> QED
          BY <3>3, <4>2, <5>1
      <4>3. CASE i = x
        BY <3>3, <3>4, <4>3
      <4> QED
        BY <4>1, <4>2, <4>3
    <3> QED
      BY <2>3, <3>4, <3>5, <3>6
  <2> QED
    BY <2>4, <2>5
<1>2. \E p : Good(Len(q), p)
  <2>1. Len(q) \in 0 .. Len(q) /\ Len(q) \notin T
    <3> HIDE DEF T
    <3> QED
      BY <1>0, <1>1
  <2> HIDE DEF Good
  <2> QED
    BY <2>1
<1>3. PICK p : Good(Len(q), p)
  BY <1>2
<1> QED
  BY <1>3 DEF Sums

\* A sum is a number, and no smaller than any of its terms.
LEMMA SumBounds ==
    ASSUME NEW q \in Seq(Nat)
    PROVE  SumSeq(q) \in Nat /\ \A i \in 1 .. Len(q) : q[i] <= SumSeq(q)
<1>1. PICK p \in [0 .. Len(q) -> Nat] :
         Sums(q, p) /\ \A i, j \in 0 .. Len(q) : i <= j => p[i] <= p[j]
  BY SumsExist
<1>2. SumSeq(q) = p[Len(q)] /\ Len(q) \in Nat
  BY <1>1, SumIs
<1>3. ASSUME NEW i \in 1 .. Len(q)
      PROVE  q[i] <= p[Len(q)]
  <2>1. i \in 0 .. Len(q) /\ i - 1 \in 0 .. Len(q) /\ Len(q) \in 0 .. Len(q) /\ i <= Len(q)
    BY <1>2
  <2>2. p[i] = p[i - 1] + q[i] /\ q[i] \in Nat /\ p[i] <= p[Len(q)]
    BY <1>1, <2>1 DEF Sums
  <2>3. p[i - 1] \in Nat /\ p[Len(q)] \in Nat
    BY <2>1
  <2> QED
    BY <2>2, <2>3
<1> QED
  BY <1>1, <1>2, <1>3

\* Terms are added one by one.
LEMMA SumAppend ==
    ASSUME NEW q \in Seq(Nat), NEW n \in Nat
    PROVE  SumSeq(Append(q, n)) = SumSeq(q) + n
<1>1. PICK p \in [0 .. Len(q) -> Nat] : Sums(q, p)
  BY SumsExist
<1> DEFINE r == [i \in 0 .. Len(q) + 1 |-> IF i = Len(q) + 1 THEN p[Len(q)] + n ELSE p[i]]
           z == Append(q, n)
<1>2. /\ Len(q) \in Nat /\ z \in Seq(Nat) /\ Len(z) = Len(q) + 1 /\ z[Len(q) + 1] = n
      /\ \A i \in 1 .. Len(q) : z[i] = q[i]
  OBVIOUS
<1> HIDE DEF z
<1>3. Sums(z, r)
  <2>0. p[Len(q)] \in Int /\ \A i \in 0 .. Len(q) : p[i] \in Int
    BY <1>2, SMTT(30)
  <2>1. r \in [0 .. Len(z) -> Int] /\ r[0] = 0
    <3>1. \A i \in 0 .. Len(q) + 1 : i # Len(q) + 1 => i \in 0 .. Len(q)
      BY <1>2
    <3> QED
      BY <1>1, <1>2, <2>0, <3>1 DEF Sums
  <2>2. \A i \in 1 .. Len(z) : r[i] = r[i - 1] + z[i]
    <3> SUFFICES ASSUME NEW i \in 1 .. Len(z) PROVE r[i] = r[i - 1] + z[i]
      OBVIOUS
    <3>1. CASE i = Len(z)
      <4>1. /\ i - 1 = Len(q) /\ Len(q) \in 0 .. Len(q) + 1 /\ i \in 0 .. Len(q) + 1 /\ z[i] = n
            /\ Len(q) # Len(q) + 1 /\ i = Len(q) + 1
        BY <1>2, <3>1
      <4>2. r[i] = p[Len(q)] + n /\ r[i - 1] = p[Len(q)]
        BY <4>1
      <4> QED
        BY <4>1, <4>2
    <3>2. CASE i # Len(z)
      <4>1. i \in 1 .. Len(q) /\ i - 1 \in 0 .. Len(q) + 1 /\ z[i] = q[i] /\ i - 1 # Len(q) + 1
        BY <1>2, <3>2
      <4> QED
        BY <1>1, <1>2, <3>2, <4>1 DEF Sums
    <3> QED
      BY <3>1, <3>2
  <2> QED
    BY <2>1, <2>2 DEF Sums
<1>4. r[Len(z)] = p[Len(q)] + n
  BY <1>2
<1> HIDE DEF r, z
<1>5. SumSeq(z) = r[Len(z)] /\ SumSeq(q) = p[Len(q)]
  BY <1>1, <1>2, <1>3, SumIs
<1> QED
  BY <1>4, <1>5 DEF z

\* A sum is its first term and the sum of the others.
LEMMA SumTail ==
    ASSUME NEW q \in Seq(Nat), q # <<>>
    PROVE  SumSeq(q) = q[1] + SumSeq(Tail(q)) /\ Tail(q) \in Seq(Nat)
<1>1. PICK p \in [0 .. Len(q) -> Nat] : Sums(q, p)
  BY SumsExist
<1> DEFINE z == Tail(q)
           r == [i \in 0 .. Len(z) |-> p[i + 1] - p[1]]
<1>2. /\ Len(q) \in Nat \ {0} /\ z \in Seq(Nat) /\ Len(z) = Len(q) - 1
      /\ \A i \in 1 .. Len(z) : z[i] = q[i + 1]
  OBVIOUS
<1>3. \A i \in 1 .. Len(q) : q[i] \in Nat /\ p[i] \in Nat /\ p[i] = p[i - 1] + q[i]
  BY <1>1 DEF Sums
<1> HIDE DEF z
<1>4. Sums(z, r)
  <2>1. r[0] = 0
    BY <1>2, <1>3
  <2>2. \A i \in 1 .. Len(z) : r[i] = r[i - 1] + z[i]
    <3> SUFFICES ASSUME NEW i \in 1 .. Len(z) PROVE r[i] = r[i - 1] + z[i]
      OBVIOUS
    <3>1. i + 1 \in 1 .. Len(q) /\ i \in 1 .. Len(q) /\ 1 \in 1 .. Len(q) /\ (i + 1) - 1 = i
      BY <1>2
    <3>2. p[i + 1] = p[i] + q[i + 1] /\ p[i] \in Nat /\ p[1] \in Nat /\ q[i + 1] \in Nat
      BY <1>3, <3>1
    <3>3. i \in 0 .. Len(z) /\ i - 1 \in 0 .. Len(z) /\ (i - 1) + 1 = i
      BY <1>2
    <3>4. r[i] = p[i + 1] - p[1] /\ r[i - 1] = p[i] - p[1]
      BY <3>3
    <3> QED
      BY <1>2, <3>2, <3>4, SMTT(30)
  <2> QED
    <3>1. \A i \in 0 .. Len(z) : p[i + 1] - p[1] \in Int
      BY <1>2, <1>3
    <3> QED
      BY <2>1, <2>2, <3>1 DEF Sums
<1>5. r[Len(z)] = p[Len(q)] - p[1] /\ p[Len(q)] \in Nat /\ p[1] = q[1]
  BY <1>1, <1>2, <1>3 DEF Sums
<1> HIDE DEF r
<1>6. SumSeq(z) = r[Len(z)] /\ SumSeq(q) = p[Len(q)] /\ q[1] \in Nat
  BY <1>1, <1>2, <1>4, SumIs
<1> QED
  BY <1>2, <1>5, <1>6 DEF z

\* One term changes.
LEMMA SumUpdate ==
    ASSUME NEW q \in Seq(Nat), NEW z \in Seq(Nat), Len(z) = Len(q), NEW k \in 1 .. Len(q),
           \A i \in 1 .. Len(q) : i # k => z[i] = q[i]
    PROVE  SumSeq(z) = SumSeq(q) - q[k] + z[k]
<1>1. PICK p \in [0 .. Len(q) -> Nat] : Sums(q, p)
  BY SumsExist
<1> DEFINE r == [i \in 0 .. Len(z) |-> IF i >= k THEN p[i] - q[k] + z[k] ELSE p[i]]
<1>2. Len(q) \in Nat /\ q[k] \in Nat /\ z[k] \in Nat
  OBVIOUS
<1>3. \A i \in 1 .. Len(q) : q[i] \in Nat /\ p[i] \in Nat /\ p[i - 1] \in Nat /\ p[i] = p[i - 1] + q[i]
  <2>1. \A i \in 1 .. Len(q) : i \in 0 .. Len(q) /\ i - 1 \in 0 .. Len(q)
    BY <1>2
  <2>2. \A i \in 1 .. Len(q) : q[i] \in Nat
    OBVIOUS
  <2>3. \A i \in 1 .. Len(q) : p[i] = p[i - 1] + q[i]
    BY <1>1 DEF Sums
  <2> QED
    BY <2>1, <2>2, <2>3
<1>4. Sums(z, r)
  <2>1. r[0] = 0
    BY <1>1, <1>2 DEF Sums
  <2>2. \A i \in 1 .. Len(z) : r[i] = r[i - 1] + z[i]
    <3> SUFFICES ASSUME NEW i \in 1 .. Len(z) PROVE r[i] = r[i - 1] + z[i]
      OBVIOUS
    <3>1. /\ p[i] = p[i - 1] + q[i] /\ p[i] \in Nat /\ p[i - 1] \in Nat /\ q[i] \in Nat
          /\ i # k => z[i] = q[i]
      BY <1>3
    <3>2. /\ r[i] = IF i >= k THEN p[i] - q[k] + z[k] ELSE p[i]
          /\ r[i - 1] = IF i - 1 >= k THEN p[i - 1] - q[k] + z[k] ELSE p[i - 1]
      BY <1>2
    <3>3. i \in Nat /\ k \in Nat
      BY <1>2
    <3>4. CASE i = k
      BY <1>2, <3>1, <3>2, <3>3, <3>4
    <3>5. CASE i > k
      <4>1. r[i] = p[i] - q[k] + z[k] /\ r[i - 1] = p[i - 1] - q[k] + z[k] /\ z[i] = q[i]
        BY <3>1, <3>2, <3>3, <3>5
      <4> DEFINE x == p[i - 1]
                 y == q[i]
                 d == q[k]
                 e == z[k]
      <4>2. x \in Nat /\ y \in Nat /\ p[i] = x + y /\ d \in Nat /\ e \in Nat
        BY <1>2, <3>1
      <4>3. r[i] = (x + y) - d + e /\ r[i - 1] = x - d + e
        BY <4>1, <4>2, Zenon
      <4>4. (x + y) - d + e = (x - d + e) + y
        <5> HIDE DEF x, y, d, e
        <5> QED
          BY <4>2
      <4> QED
        BY <4>1, <4>3, <4>4, Zenon
    <3>6. CASE i < k
      <4>1. r[i] = p[i] /\ r[i - 1] = p[i - 1] /\ z[i] = q[i]
        BY <3>1, <3>2, <3>3, <3>6
      <4> HIDE DEF r
      <4> QED
        BY <1>2, <3>1, <4>1
    <3> QED
      BY <3>3, <3>4, <3>5, <3>6
  <2>3. r \in [0 .. Len(z) -> Int]
    <3>1. \A i \in 0 .. Len(z) : p[i] \in Nat
      OBVIOUS
    <3>2. \A i \in 0 .. Len(z) : (IF i >= k THEN p[i] - q[k] + z[k] ELSE p[i]) \in Int
      BY <1>2, <3>1
    <3> QED
      BY <3>2, Zenon
  <2> HIDE DEF r
  <2> QED
    BY <2>1, <2>2, <2>3 DEF Sums
<1>5. r[Len(z)] = p[Len(q)] - q[k] + z[k]
  BY <1>2
<1> HIDE DEF r
<1>6. SumSeq(z) = r[Len(z)] /\ SumSeq(q) = p[Len(q)]
  BY <1>1, <1>4, SumIs
<1> QED
  BY <1>5, <1>6

\* Nothing adds up to nothing.
LEMMA SumZero ==
    ASSUME NEW q \in Seq(Nat), \A i \in 1 .. Len(q) : q[i] = 0
    PROVE  SumSeq(q) = 0
<1> DEFINE p == [i \in 0 .. Len(q) |-> 0]
<1>1. Sums(q, p) /\ p[Len(q)] = 0
  BY DEF Sums
<1> HIDE DEF p
<1> QED
  BY <1>1, SumIs

\* Larger terms have a larger sum.
LEMMA SumMonotone ==
    ASSUME NEW q \in Seq(Nat), NEW z \in Seq(Nat), Len(z) = Len(q), \A i \in 1 .. Len(q) : q[i] <= z[i]
    PROVE  SumSeq(q) <= SumSeq(z)
<1>1. PICK p \in [0 .. Len(q) -> Nat] : Sums(q, p)
  BY SumsExist
<1>2. PICK r \in [0 .. Len(z) -> Nat] : Sums(z, r)
  BY SumsExist
<1>3. Len(q) \in Nat /\ \A i \in 1 .. Len(q) : q[i] \in Nat /\ z[i] \in Nat
  OBVIOUS
<1>4. \A i \in 0 .. Len(q) : p[i] <= r[i]
  <2> SUFFICES ASSUME \E i \in 0 .. Len(q) : ~(p[i] <= r[i]) PROVE FALSE
    OBVIOUS
  <2> DEFINE T == {i \in 0 .. Len(q) : ~(p[i] <= r[i])}
  <2>1. T \subseteq Nat /\ T # {}
    OBVIOUS
  <2>2. PICK x \in T : \A y \in T : x <= y
    <3> HIDE DEF T
    <3> QED
      BY <2>1, LeastExists
  <2>3. x \in 0 .. Len(q) /\ ~(p[x] <= r[x])
    OBVIOUS
  <2>4. x # 0
    BY <1>1, <1>2, <1>3, <2>3 DEF Sums
  <2>5. x \in 1 .. Len(q) /\ x - 1 \in 0 .. Len(q) /\ ~(x <= x - 1)
    BY <1>3, <2>3, <2>4
  <2>6. p[x - 1] <= r[x - 1] /\ p[x - 1] \in Nat /\ r[x - 1] \in Nat
    BY <2>2, <2>5
  <2>7. r[x] = r[x - 1] + z[x] /\ p[x] = p[x - 1] + q[x]
    BY <1>1, <1>2, <2>5 DEF Sums
  <2>8. q[x] \in Nat /\ z[x] \in Nat /\ q[x] <= z[x]
    BY <1>3, <2>5
  <2> HIDE DEF T
  <2> QED
    BY <2>3, <2>6, <2>7, <2>8
<1>5. SumSeq(q) = p[Len(q)] /\ SumSeq(z) = r[Len(z)]
  BY <1>1, <1>2, SumIs
<1> QED
  BY <1>3, <1>4, <1>5

\* There is nothing to add up.
LEMMA SumEmpty == SumSeq(<<>>) = 0 /\ <<>> \in Seq(Nat)
<1>1. <<>> \in Seq(Nat) /\ Len(<<>>) = 0
  OBVIOUS
<1>2. PICK p \in [0 .. Len(<<>>) -> Nat] : Sums(<<>>, p)
  BY <1>1, SumsExist
<1>3. SumSeq(<<>>) = p[Len(<<>>)]
  BY <1>1, <1>2, SumIs
<1>4. p[0] = 0
  BY <1>2 DEF Sums
<1> QED
  BY <1>1, <1>3, <1>4

=============================================================================
