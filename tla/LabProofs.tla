------------------------------- MODULE LabProofs -------------------------------
(***************************************************************************)
(* What the Lab keeps for any number of workspaces, uploads, jobs, deaths  *)
(* and failures.  The files and their rows form one half of the invariant, *)
(* the jobs and their tasks the other; they meet in the workspaces, which  *)
(* only a deletion takes away.  The first half of the module is about the  *)
(* scheduler: every plan it makes keeps what StudyPlan says of plans, for  *)
(* all requests that the validators let through.                           *)
(***************************************************************************)
EXTENDS Lab, TLAPS, SequenceTheorems, FiniteSetTheorems, FunctionTheorems, WellFoundedInduction

(***************************************************************************)
(* Natural numbers: the least of them, recursion, division                 *)
(***************************************************************************)
\* A set of natural numbers has a least one.
LEMMA LeastNatural ==
  ASSUME NEW T \in SUBSET Nat, T # {}
  PROVE  \E n \in T : \A m \in T : n <= m
<1> DEFINE R == OpToRel(<, Nat)
<1>1. IsWellFoundedOn(R, Nat)
  BY NatLessThanWellFounded
<1>2. \A x, y \in Nat : x < y => <<x, y>> \in R
  BY DEF OpToRel
<1> HIDE DEF R
<1>3. \E x \in T : \A y \in T : ~ (<<y, x>> \in R)
  BY <1>1, WFMin, Zenon
<1>4. PICK x \in T : \A y \in T : ~ (<<y, x>> \in R)
  BY <1>3
<1>5. ASSUME NEW y \in T PROVE x <= y
  <2>1. ~ (y < x)
    BY <1>2, <1>4, Zenon
  <2> QED
    BY <2>1
<1> QED
  BY <1>5

\* What holds of 0 and goes on to the next number holds up to the bound.
LEMMA UpTo ==
  ASSUME NEW n \in Nat, NEW T \in SUBSET (0..n), 0 \in T,
         \A k \in 1..n : k - 1 \in T => k \in T
  PROVE  T = 0..n
<1> SUFFICES ASSUME T # 0..n PROVE FALSE
  OBVIOUS
<1> DEFINE U == (0..n) \ T
<1>1. U \in SUBSET Nat
  OBVIOUS
<1>2. U # {}
  OBVIOUS
<1>3. PICK k \in U : \A m \in U : k <= m
  BY <1>1, <1>2, LeastNatural
<1>4. k \in 1..n /\ k - 1 \in 0..n /\ k - 1 \notin U
  BY <1>3
<1> QED
  BY <1>3, <1>4

\* f begins with the given value, and each of its values follows from the one before.
Followers(n, V) == [1..n -> [V -> V]]
Iterates(f, n, V, first, next) ==
  f \in [0..n -> V] /\ f[0] = first /\ \A k \in 1..n : f[k] = next[k][f[k - 1]]

\* A function can be defined by its first value and how the next ones follow.
LEMMA Recursion ==
  ASSUME NEW n \in Nat, NEW V, NEW first \in V, NEW next \in Followers(n, V)
  PROVE  \E f : Iterates(f, n, V, first, next)
<1> USE DEF Followers
<1> DEFINE Follows(f, m) == f[0] = first /\ \A k \in 1..m : f[k] = next[k][f[k - 1]]
           T == {m \in 0..n : \E f \in [0..m -> V] : Follows(f, m)}
<1>1. 0 \in T
  <2> DEFINE f == [k \in 0..0 |-> first]
  <2>1. f \in [0..0 -> V] /\ f[0] = first /\ 1..0 = {}
    OBVIOUS
  <2>2. Follows(f, 0)
    BY <2>1
  <2> HIDE DEF f, Follows
  <2> QED
    BY <2>1, <2>2
<1>2. ASSUME NEW m \in 1..n, m - 1 \in T PROVE m \in T
  <2>1. PICK f \in [0..m - 1 -> V] : Follows(f, m - 1)
    BY <1>2
  <2> DEFINE g == [k \in 0..m |-> IF k = m THEN next[m][f[m - 1]] ELSE f[k]]
  <2>2. f[m - 1] \in V /\ next[m][f[m - 1]] \in V
    BY <2>1
  <2>3. g \in [0..m -> V]
    BY <2>1, <2>2
  <2>4. g[0] = first
    BY <2>1
  <2>5. ASSUME NEW k \in 1..m PROVE g[k] = next[k][g[k - 1]]
    <3>1. g[k - 1] = f[k - 1]
      OBVIOUS
    <3>2. CASE k = m
      BY <3>1, <3>2
    <3>3. CASE k # m
      <4>1. k \in 1..m - 1 /\ g[k] = f[k]
        BY <3>3
      <4> QED
        BY <2>1, <3>1, <4>1
    <3> QED
      BY <3>2, <3>3
  <2>6. Follows(g, m)
    BY <2>4, <2>5
  <2> HIDE DEF g, Follows
  <2> QED
    BY <2>3, <2>6
<1>3. n \in T
  <2>1. T \in SUBSET (0..n)
    OBVIOUS
  <2> HIDE DEF T
  <2>2. T = 0..n
    BY <1>1, <1>2, <2>1, UpTo
  <2> QED
    BY <2>2
<1> QED
  BY <1>3 DEF Iterates

\* Division with a rest, for any dividend.
LEMMA Division ==
  ASSUME NEW a \in Int, NEW n \in Nat \ {0}
  PROVE  a \div n \in Int /\ a % n \in 0..n - 1 /\ a = n * (a \div n) + (a % n)
OBVIOUS

\* Multiples lie apart.
LEMMA Multiples ==
  ASSUME NEW n \in Nat, NEW x \in Int, NEW y \in Int, x < y
  PROVE  n * x + n <= n * y
<1>1. n * (y - x) >= n
  <2> DEFINE d == y - x - 1
  <2>1. d \in Nat /\ y - x = d + 1
    OBVIOUS
  <2> HIDE DEF d
  <2>2. n * (d + 1) = n * d + n /\ n * d \in Nat
    BY <2>1
  <2> QED
    BY <2>1, <2>2
<1>2. n * (y - x) = n * y - n * x /\ n * x \in Int /\ n * y \in Int
  OBVIOUS
<1> QED
  BY <1>1, <1>2

\* The quotient of natural numbers is one.
LEMMA NaturalDivision ==
  ASSUME NEW a \in Nat, NEW n \in Nat \ {0}
  PROVE  a \div n \in Nat /\ a % n \in 0..n - 1 /\ a = n * (a \div n) + (a % n)
<1> DEFINE q == a \div n
<1>1. q \in Int /\ a % n \in 0..n - 1 /\ a = n * q + (a % n)
  BY Division
<1> HIDE DEF q
<1>2. ASSUME q < 0 PROVE FALSE
  <2>1. n * q + n <= n * 0 /\ n * 0 = 0 /\ n * q \in Int
    BY <1>1, <1>2, Multiples
  <2> QED
    BY <1>1, <2>1
<1> QED
  BY <1>1, <1>2 DEF q

\* Quotient and rest are what they are by being in range.
LEMMA DivisionIsUnique ==
  ASSUME NEW n \in Nat \ {0}, NEW x \in Int, NEW y \in 0..n - 1
  PROVE  (n * x + y) \div n = x /\ (n * x + y) % n = y
<1> DEFINE a == n * x + y
           q == a \div n
           z == a % n
<1>1. a \in Int /\ n * x \in Int
  OBVIOUS
<1>2. q \in Int /\ z \in 0..n - 1 /\ a = n * q + z
  BY <1>1, Division
<1> HIDE DEF q, z
<1>3. n * q + z = n * x + y /\ n * q \in Int
  BY <1>2
<1>4. q = x
  <2>1. CASE q < x
    BY <1>1, <1>2, <1>3, <2>1, Multiples
  <2>2. CASE x < q
    BY <1>1, <1>2, <1>3, <2>2, Multiples
  <2> QED
    BY <1>2, <2>1, <2>2
<1>5. y = z
  BY <1>1, <1>2, <1>3, <1>4
<1> QED
  BY <1>4, <1>5 DEF q, z

\* One place more turns the division on, or begins the next round.
LEMMA SameTurn ==
  ASSUME NEW n \in Nat \ {0}, NEW off \in Nat, NEW k \in Nat, NEW m \in Nat,
         k \div n = m \div n, (off + k) % n = (off + m) % n
  PROVE  k = m
<1>1. /\ k \div n \in Int /\ k % n \in 0..n - 1 /\ k = n * (k \div n) + (k % n)
      /\ m \div n \in Int /\ m % n \in 0..n - 1 /\ m = n * (m \div n) + (m % n)
  BY Division
<1>2. k - m < n /\ m - k < n
  <2> DEFINE x == n * (k \div n)
  <2>1. x \in Int /\ k = x + (k % n) /\ m = x + (m % n)
    BY <1>1
  <2> HIDE DEF x
  <2> QED
    BY <1>1, <2>1
<1> DEFINE u == (off + k) \div n
           v == (off + m) \div n
           t == (off + k) % n
<1>3. u \in Int /\ v \in Int /\ t \in 0..n - 1 /\ off + k = n * u + t /\ off + m = n * v + t
  <2>1. off + k \in Int /\ off + m \in Int
    OBVIOUS
  <2> QED
    BY <2>1, Division
<1> HIDE DEF u, v, t
<1>4. n * u \in Int /\ n * v \in Int
  BY <1>3
<1>5. u = v
  <2>1. CASE u < v
    BY <1>2, <1>3, <1>4, <2>1, Multiples
  <2>2. CASE v < u
    BY <1>2, <1>3, <1>4, <2>2, Multiples
  <2> QED
    BY <1>3, <2>1, <2>2
<1> QED
  BY <1>3, <1>4, <1>5

\* Whoever has a turn has one in each full round and at most one more in the last.
LEMMA TurnsAreShared ==
  ASSUME NEW n \in Nat \ {0}, NEW off \in Nat, NEW size \in Nat, NEW P \in SUBSET (1..n)
  PROVE  LET K == {k \in 1..size : ((off + k - 1) % n) + 1 \in P}
         IN  /\ (size \div n) * Cardinality(P) <= Cardinality(K)
             /\ Cardinality(K) <= (size \div n + 1) * Cardinality(P)
<1> DEFINE turn(k) == ((off + k - 1) % n) + 1
           K == {k \in 1..size : turn(k) \in P}
           q == size \div n
           h == [k \in K |-> <<turn(k), (k - 1) \div n>>]
<1>1. q \in Nat /\ size % n \in 0..n - 1 /\ size = n * q + (size % n)
  BY NaturalDivision
<1>2. ASSUME NEW k \in 1..size PROVE turn(k) \in 1..n /\ (k - 1) \div n \in 0..q
  <2>1. k - 1 \in Nat /\ off + (k - 1) \in Nat
    OBVIOUS
  <2>2. (off + (k - 1)) % n \in 0..n - 1
    BY <2>1, Division
  <2>3. (k - 1) \div n \in Nat /\ (k - 1) = n * ((k - 1) \div n) + ((k - 1) % n) /\ (k - 1) % n \in 0..n - 1
    BY <2>1, NaturalDivision
  <2> DEFINE x == (k - 1) \div n
  <2>4. x <= q
    <3> HIDE DEF x, q
    <3>1. SUFFICES ASSUME q < x PROVE FALSE
      BY <1>1, <2>3 DEF x
    <3>2. n * q + n <= n * x /\ n * x \in Int /\ n * q \in Int
      BY <1>1, <2>3, <3>1, Multiples DEF x
    <3> QED
      BY <1>1, <2>3, <3>2 DEF x
  <2> QED
    BY <2>2, <2>3, <2>4
<1>3. ASSUME NEW p \in P, NEW i \in 0..q - 1 PROVE \E k \in K : turn(k) = p /\ (k - 1) \div n = i
  <2> DEFINE y == (p - 1 - off) % n
             w == (p - 1 - off) \div n
             k == n * i + y + 1
  <2>1. y \in 0..n - 1 /\ w \in Int /\ p - 1 - off = n * w + y
    <3>1. p - 1 - off \in Int
      OBVIOUS
    <3> QED
      BY <3>1, Division
  <2> HIDE DEF y, w
  <2>2. n * i \in Nat /\ n * i + n <= n * q
    BY <1>1, Multiples
  <2>3. k \in 1..size
    BY <1>1, <2>1, <2>2
  <2>4. (k - 1) \div n = i
    <3>1. k - 1 = n * i + y
      BY <2>1, <2>2
    <3> QED
      BY <2>1, <3>1, DivisionIsUnique
  <2>5. turn(k) = p
    <3>1. off + k - 1 = n * (i - w) + (p - 1)
      <4>1. n * (i - w) = n * i - n * w /\ n * w \in Int
        BY <2>1
      <4> QED
        BY <2>1, <2>2, <4>1
    <3>2. p - 1 \in 0..n - 1 /\ i - w \in Int
      BY <2>1
    <3>3. (off + k - 1) % n = p - 1
      BY <3>1, <3>2, DivisionIsUnique
    <3> QED
      BY <3>3
  <2> HIDE DEF k
  <2> QED
    BY <2>3, <2>4, <2>5
<1>4. h \in Injection(K, P \X (0..q))
  <2>1. h \in [K -> P \X (0..q)]
    BY <1>2
  <2>2. ASSUME NEW k \in K, NEW m \in K, h[k] = h[m] PROVE k = m
    <3>1. turn(k) = turn(m) /\ (k - 1) \div n = (m - 1) \div n
      BY <2>2
    <3>2. k - 1 \in Nat /\ m - 1 \in Nat /\ off + (k - 1) = off + k - 1 /\ off + (m - 1) = off + m - 1
      OBVIOUS
    <3>3. (off + (k - 1)) % n = (off + (m - 1)) % n
      <4>1. (off + (k - 1)) % n \in Int /\ (off + (m - 1)) % n \in Int
        BY <3>2, Division
      <4> QED
        BY <3>1, <3>2, <4>1
    <3>4. k - 1 = m - 1
      BY <3>1, <3>2, <3>3, SameTurn
    <3> QED
      BY <3>4
  <2> HIDE DEF h
  <2> QED
    BY <2>1, <2>2 DEF Injection, IsInjective
<1>5. IsFiniteSet(K) /\ IsFiniteSet(P)
  <2>1. IsFiniteSet(1..size) /\ IsFiniteSet(1..n)
    BY FS_Interval
  <2>2. K \in SUBSET (1..size)
    OBVIOUS
  <2> QED
    BY <2>1, <2>2, FS_Subset
<1>6. /\ IsFiniteSet(P \X (0..q)) /\ Cardinality(P \X (0..q)) = Cardinality(P) * (q + 1)
      /\ IsFiniteSet(P \X (0..q - 1)) /\ Cardinality(P \X (0..q - 1)) = Cardinality(P) * q
  <2>1. /\ IsFiniteSet(0..q) /\ Cardinality(0..q) = q + 1
        /\ IsFiniteSet(0..q - 1) /\ Cardinality(0..q - 1) = q
    BY <1>1, FS_Interval
  <2> QED
    BY <1>5, <2>1, FS_Product
<1> DEFINE g == [x \in P \X (0..q - 1) |-> CHOOSE k \in K : h[k] = x]
<1>7. g \in Injection(P \X (0..q - 1), K)
  <2>1. ASSUME NEW x \in P \X (0..q - 1) PROVE g[x] \in K /\ h[g[x]] = x
    <3>1. PICK p \in P, i \in 0..q - 1 : x = <<p, i>>
      <4> HIDE DEF h, K, q, g
      <4>1. x[1] \in P /\ x[2] \in 0..q - 1 /\ x = <<x[1], x[2]>>
        OBVIOUS
      <4> QED
        BY <4>1
    <3>2. PICK k \in K : turn(k) = p /\ (k - 1) \div n = i
      BY <1>3
    <3>3. h[k] = x
      BY <3>1, <3>2
    <3> HIDE DEF h, K
    <3> QED
      BY <3>3
  <2> HIDE DEF g, h, K
  <2>2. g \in [P \X (0..q - 1) -> K]
    BY <2>1 DEF g
  <2> QED
    BY <2>1, <2>2 DEF Injection, IsInjective
<1>8. Cardinality(P) * q <= Cardinality(K) /\ Cardinality(K) <= Cardinality(P) * (q + 1)
  <2> HIDE DEF g, h, K, q
  <2> QED
    BY <1>4, <1>5, <1>6, <1>7, FS_Injection
<1>9. Cardinality(P) \in Nat
  BY <1>5, FS_CardinalityType
<1> HIDE DEF K, q
<1>10. q * Cardinality(P) <= Cardinality(K) /\ Cardinality(K) <= (q + 1) * Cardinality(P)
  BY <1>1, <1>8, <1>9
<1> QED
  BY <1>10 DEF K, q

(***************************************************************************)
(* Study plans: their sessions and days                                    *)
(***************************************************************************)
\* The total of the lengths sums them up one by one.
LEMMA TotalSums ==
  ASSUME NEW lengths \in Seq(Nat)
  PROVE  \E f \in [0..Len(lengths) -> Nat] :
           /\ Total(lengths) = f[Len(lengths)]
           /\ f[0] = 0
           /\ \A k \in 1..Len(lengths) : f[k] = f[k - 1] + lengths[k]
<1> DEFINE n == Len(lengths)
           next == [k \in 1..n |-> [sum \in Nat |-> sum + lengths[k]]]
           Sum == CHOOSE f : f = [k \in 0..n |-> IF k = 0 THEN 0 ELSE f[k - 1] + lengths[k]]
<1>1. n \in Nat /\ \A k \in 1..n : lengths[k] \in Nat
  BY LenProperties, ElementOfSeq
<1>2. next \in Followers(n, Nat)
  BY <1>1 DEF Followers
<1>3. PICK f : Iterates(f, n, Nat, 0, next)
  <2> HIDE DEF next, n
  <2> QED
    BY <1>1, <1>2, 0 \in Nat, Recursion
<1>4. f \in [0..n -> Nat] /\ f[0] = 0 /\ \A k \in 1..n : f[k] = f[k - 1] + lengths[k]
  <2>1. ASSUME NEW k \in 1..n PROVE f[k - 1] \in Nat
    <3> HIDE DEF n, next
    <3>1. k - 1 \in 0..n
      BY <1>1
    <3> QED
      BY <1>3, <3>1 DEF Iterates
  <2> QED
    BY <1>3, <2>1 DEF Iterates
<1> HIDE DEF n, next
<1>5. f = [k \in 0..n |-> IF k = 0 THEN 0 ELSE f[k - 1] + lengths[k]]
  <2>1. \A k \in 0..n : f[k] = IF k = 0 THEN 0 ELSE f[k - 1] + lengths[k]
    BY <1>1, <1>4
  <2> QED
    BY <1>4, <2>1
<1>6. Sum = [k \in 0..n |-> IF k = 0 THEN 0 ELSE Sum[k - 1] + lengths[k]]
  BY <1>5
<1>7. Total(lengths) = Sum[n]
  BY DEF Total, n
<1> HIDE DEF Sum
<1>8. 0 \in 0..n /\ Sum[0] = 0 /\ \A k \in 1..n : Sum[k] = Sum[k - 1] + lengths[k]
  BY <1>1, <1>6
<1>9. Sum \in [0..n -> Nat]
  <2> DEFINE T == {k \in 0..n : Sum[k] \in Nat}
  <2>1. T \in SUBSET (0..n) /\ 0 \in T
    BY <1>8
  <2>2. ASSUME NEW k \in 1..n, k - 1 \in T PROVE k \in T
    <3>1. Sum[k - 1] \in Nat /\ lengths[k] \in Nat /\ k \in 0..n
      BY <1>1, <2>2
    <3>2. Sum[k] = Sum[k - 1] + lengths[k]
      BY <1>8
    <3>3. Sum[k] \in Nat
      BY <3>1, <3>2
    <3> QED
      BY <3>1, <3>3
  <2> HIDE DEF T
  <2>3. T = 0..n
    BY <1>1, <2>1, <2>2, UpTo
  <2> QED
    BY <1>6, <2>3 DEF T
<1> QED
  BY <1>7, <1>8, <1>9 DEF n

\* One length before the others adds to their total.
LEMMA TotalOfMore ==
  ASSUME NEW length \in Nat, NEW lengths \in Seq(Nat)
  PROVE  /\ Total(lengths) \in Nat /\ Total(<<>>) = 0
         /\ <<length>> \o lengths \in Seq(Nat)
         /\ Total(<<length>> \o lengths) = length + Total(lengths)
<1> DEFINE more == <<length>> \o lengths
           n == Len(lengths)
<1>1. /\ n \in Nat /\ more \in Seq(Nat) /\ Len(more) = n + 1
      /\ more[1] = length /\ \A k \in 1..n : more[k + 1] = lengths[k] /\ lengths[k] \in Nat
  BY LenProperties, ElementOfSeq
<1>2. PICK f \in [0..n -> Nat] : /\ Total(lengths) = f[n] /\ f[0] = 0
                                 /\ \A k \in 1..n : f[k] = f[k - 1] + lengths[k]
  BY TotalSums
<1>3. PICK g \in [0..n + 1 -> Nat] : /\ Total(more) = g[n + 1] /\ g[0] = 0
                                     /\ \A k \in 1..n + 1 : g[k] = g[k - 1] + more[k]
  <2> HIDE DEF more, n
  <2>1. \E g \in [0..Len(more) -> Nat] :
          /\ Total(more) = g[Len(more)] /\ g[0] = 0
          /\ \A k \in 1..Len(more) : g[k] = g[k - 1] + more[k]
    BY <1>1, TotalSums
  <2> QED
    BY <1>1, <2>1
<1> HIDE DEF more, n
<1>4. \A k \in 0..n : g[k + 1] = length + f[k]
  <2> DEFINE T == {k \in 0..n : g[k + 1] = length + f[k]}
  <2>1. T \in SUBSET (0..n) /\ 0 \in T
    BY <1>1, <1>2, <1>3
  <2>2. ASSUME NEW k \in 1..n, k - 1 \in T PROVE k \in T
    <3>1. g[k] = length + f[k - 1] /\ k + 1 \in 1..n + 1 /\ k \in 0..n
      BY <1>1, <2>2
    <3>2. g[k + 1] = g[k] + lengths[k]
      BY <1>1, <1>3, <3>1
    <3>3. f[k] = f[k - 1] + lengths[k] /\ lengths[k] \in Nat
      BY <1>1, <1>2
    <3>4. k - 1 \in 0..n
      BY <1>1
    <3>5. f[k - 1] \in Nat
      BY <1>2, <3>4
    <3> QED
      BY <3>1, <3>2, <3>3, <3>5
  <2> HIDE DEF T
  <2>3. T = 0..n
    BY <1>1, <2>1, <2>2, UpTo
  <2> QED
    BY <2>3 DEF T
<1>5. Total(<<>>) = 0
  <2>1. <<>> \in Seq(Nat) /\ Len(<<>>) = 0
    OBVIOUS
  <2> QED
    BY <2>1, TotalSums
<1>6. f[n] \in Nat
  BY <1>1, <1>2
<1>7. Total(more) = length + Total(lengths) /\ more \in Seq(Nat) /\ Total(lengths) \in Nat
  BY <1>1, <1>2, <1>3, <1>4, <1>6
<1> QED
  BY <1>5, <1>7 DEF more

\* The sessions of a day use its minutes, but for less than a shortest session.
FillStep(r, fill, remaining) ==
  IF remaining < ShortestSession THEN <<>>
  ELSE LET length == IF r.preferred < remaining THEN r.preferred ELSE remaining
       IN  <<length>> \o fill[remaining - length]

\* What the validators say of the numbers of a request.
LEMMA RequestNumbers ==
  ASSUME NEW r, ValidRequest(r)
  PROVE  /\ r.minutes \in Nat /\ r.preferred \in Nat
         /\ r.preferred >= ShortestSession /\ r.minutes >= ShortestSession
         /\ r.start \in Int /\ r.end \in Int /\ r.end - r.start + 1 \in Nat
<1>1. /\ r.minutes \in 20..720 /\ r.preferred \in 15..180
      /\ r.start \in Int /\ r.end \in Int /\ r.start <= r.end
  BY Zenon DEF ValidRequest
<1> QED
  BY <1>1, SMTT(30) DEF ShortestSession

\* The recursive function that fills a day exists.
LEMMA SessionsFill ==
  ASSUME NEW r, ValidRequest(r)
  PROVE  \E fill : /\ DOMAIN fill = 0..r.minutes
                   /\ Sessions(r) = fill[r.minutes]
                   /\ \A m \in 0..r.minutes : fill[m] = FillStep(r, fill, m)
<1>1. r.minutes \in Nat /\ r.preferred \in Nat /\ r.preferred >= ShortestSession
  BY RequestNumbers
<1> DEFINE n == r.minutes
           Fill == CHOOSE f : f = [remaining \in 0..r.minutes |->
                     IF remaining < ShortestSession THEN <<>>
                     ELSE LET length == IF r.preferred < remaining THEN r.preferred ELSE remaining
                          IN  <<length>> \o f[remaining - length]]
           IsFill(f, m) == f = [k \in 0..m |-> f[k]] /\ \A k \in 0..m : f[k] = FillStep(r, f, k)
           T == {m \in 0..n : \E f : IsFill(f, m)}
<1>2. 0 \in T
  <2> DEFINE f == [k \in 0..0 |-> <<>>]
  <2>1. IsFill(f, 0)
    BY DEF FillStep, ShortestSession
  <2> HIDE DEF f, IsFill
  <2> QED
    BY <1>1, <2>1
<1>3. ASSUME NEW m \in 1..n, m - 1 \in T PROVE m \in T
  <2>1. PICK f : IsFill(f, m - 1)
    BY <1>3
  <2> DEFINE g == [k \in 0..m |-> IF k = m THEN FillStep(r, f, m) ELSE f[k]]
  <2>2. ASSUME NEW k \in 0..m PROVE FillStep(r, g, k) = FillStep(r, f, k)
    <3>1. CASE k < ShortestSession
      BY <3>1 DEF FillStep
    <3>2. CASE ~(k < ShortestSession)
      <4> DEFINE length == IF r.preferred < k THEN r.preferred ELSE k
      <4>1. k - length \in 0..m /\ k - length # m
        BY <1>1, <3>2 DEF ShortestSession
      <4>2. g[k - length] = f[k - length]
        BY <4>1
      <4> HIDE DEF g
      <4> QED
        BY <3>2, <4>2 DEF FillStep
    <3> QED
      BY <3>1, <3>2
  <2>3. ASSUME NEW k \in 0..m PROVE g[k] = FillStep(r, f, k)
    <3>1. k = m \/ k \in 0..m - 1
      BY <1>1
    <3> QED
      BY <2>1, <3>1
  <2>4. IsFill(g, m)
    BY <2>2, <2>3
  <2> HIDE DEF g, IsFill
  <2> QED
    BY <2>4
<1>4. PICK f : IsFill(f, n)
  <2>1. T \in SUBSET (0..n)
    OBVIOUS
  <2> HIDE DEF T
  <2>2. T = 0..n
    BY <1>1, <1>2, <1>3, <2>1, UpTo
  <2>3. n \in T
    BY <1>1, <2>2
  <2> QED
    BY <2>3 DEF T
<1> HIDE DEF T
<1>5. f = [remaining \in 0..r.minutes |-> FillStep(r, f, remaining)]
  BY <1>4
<1>6. Fill = [remaining \in 0..r.minutes |-> FillStep(r, Fill, remaining)]
  BY <1>5 DEF FillStep
<1>7. Sessions(r) = Fill[r.minutes]
  BY DEF Sessions
<1> HIDE DEF Fill
<1> QED
  BY <1>6, <1>7

\* Sessions fill a day but for less than a shortest session.
LEMMA SessionsUseTheDay ==
  ASSUME NEW r, ValidRequest(r)
  PROVE  /\ Sessions(r) \in Seq(Nat)
         /\ Total(Sessions(r)) <= r.minutes /\ r.minutes - Total(Sessions(r)) < ShortestSession
<1>1. r.minutes \in Nat /\ r.preferred \in Nat /\ r.preferred >= ShortestSession
  BY RequestNumbers
<1>2. PICK fill : /\ Sessions(r) = fill[r.minutes]
                  /\ \A m \in 0..r.minutes : fill[m] = FillStep(r, fill, m)
  BY SessionsFill
<1> DEFINE Fits(m) == /\ fill[m] \in Seq(Nat) /\ Total(fill[m]) \in Nat
                      /\ Total(fill[m]) <= m /\ m - Total(fill[m]) < ShortestSession
           T == {m \in 0..r.minutes : \A k \in 0..m : Fits(k)}
<1>3. ASSUME NEW m \in 0..r.minutes, \A k \in 0..m - 1 : Fits(k) PROVE Fits(m)
  <2>1. CASE m < ShortestSession
    <3>1. fill[m] = <<>>
      BY <1>2, <2>1 DEF FillStep
    <3>2. Total(<<>>) = 0 /\ <<>> \in Seq(Nat)
      <4>1. <<>> \in Seq(Nat)
        OBVIOUS
      <4> QED
        BY <4>1, 0 \in Nat, TotalOfMore
    <3> QED
      BY <2>1, <3>1, <3>2
  <2>2. CASE ~(m < ShortestSession)
    <3> DEFINE length == IF r.preferred < m THEN r.preferred ELSE m
               rest == fill[m - length]
    <3>1. length \in Nat /\ m - length \in 0..m - 1
      BY <1>1, <2>2 DEF ShortestSession
    <3>2. fill[m] = <<length>> \o rest
      BY <1>2, <2>2 DEF FillStep
    <3>3. /\ rest \in Seq(Nat) /\ Total(rest) \in Nat
          /\ Total(rest) <= m - length /\ (m - length) - Total(rest) < ShortestSession
      BY <1>3, <3>1
    <3> HIDE DEF length, rest, Fits
    <3>4. fill[m] \in Seq(Nat) /\ Total(fill[m]) = length + Total(rest)
      BY <3>1, <3>2, <3>3, TotalOfMore
    <3> QED
      BY <3>1, <3>3, <3>4 DEF ShortestSession, Fits
  <2> QED
    BY <2>1, <2>2
<1> HIDE DEF Fits
<1>4. T \in SUBSET (0..r.minutes)
  OBVIOUS
<1>5. 0 \in T
  BY <1>1, <1>3
<1>6. ASSUME NEW m \in 1..r.minutes, m - 1 \in T PROVE m \in T
  <2>1. Fits(m)
    BY <1>1, <1>3, <1>6
  <2> QED
    BY <1>1, <1>6, <2>1
<1> HIDE DEF T
<1>7. T = 0..r.minutes
  BY <1>1, <1>4, <1>5, <1>6, UpTo
<1>8. Fits(r.minutes)
  <2>1. r.minutes \in T /\ r.minutes \in 0..r.minutes
    BY <1>1, <1>7
  <2> QED
    BY <2>1 DEF T
<1> QED
  BY <1>2, <1>8 DEF Fits

\* One step of the cursor.
KeptStep(r, excluded, kept, k) ==
  IF k = 0 THEN <<>>
  ELSE LET cursor == r.start + k - 1
       IN  IF cursor \in excluded THEN kept[k - 1] ELSE Append(kept[k - 1], cursor)

\* The cursor keeps or skips one day after the other.
LEMMA DaysAreKept ==
  ASSUME NEW r, ValidRequest(r), NEW excluded
  PROVE  \E kept : /\ DaysBut(r, excluded) = kept[r.end - r.start + 1]
                   /\ \A k \in 0..r.end - r.start + 1 : kept[k] = KeptStep(r, excluded, kept, k)
<1>1. r.start \in Int /\ r.end \in Int /\ r.end - r.start + 1 \in Nat
  BY RequestNumbers
<1> DEFINE n == r.end - r.start + 1
           next == [k \in 1..n |-> [days \in Seq(Int) |->
                     IF r.start + k - 1 \in excluded THEN days ELSE Append(days, r.start + k - 1)]]
           Kept == CHOOSE f : f = [k \in 0..n |->
                     IF k = 0 THEN <<>>
                     ELSE LET cursor == r.start + k - 1
                          IN  IF cursor \in excluded THEN f[k - 1] ELSE Append(f[k - 1], cursor)]
<1>2. next \in Followers(n, Seq(Int))
  <2>1. ASSUME NEW k \in 1..n, NEW days \in Seq(Int)
        PROVE  (IF r.start + k - 1 \in excluded THEN days ELSE Append(days, r.start + k - 1)) \in Seq(Int)
    <3>1. r.start + k - 1 \in Int
      BY <1>1
    <3> QED
      BY <3>1, AppendProperties
  <2> QED
    BY <2>1 DEF Followers
<1>3. PICK f : Iterates(f, n, Seq(Int), <<>>, next)
  <2> HIDE DEF next, n
  <2>1. n \in Nat /\ <<>> \in Seq(Int)
    BY <1>1 DEF n
  <2> QED
    BY <2>1, <1>2, Recursion
<1>4. \A k \in 0..n : f[k] = KeptStep(r, excluded, f, k)
  <2>1. ASSUME NEW k \in 1..n PROVE f[k - 1] \in Seq(Int)
    <3> HIDE DEF n, next
    <3>1. k - 1 \in 0..n
      BY <1>1 DEF n
    <3> QED
      BY <1>3, <3>1 DEF Iterates
  <2>2. ASSUME NEW k \in 1..n PROVE f[k] = KeptStep(r, excluded, f, k)
    BY <1>3, <2>1 DEF Iterates, KeptStep
  <2>3. f[0] = KeptStep(r, excluded, f, 0)
    BY <1>3 DEF Iterates, KeptStep
  <2> QED
    BY <1>1, <2>2, <2>3
<1>5. f = [k \in 0..n |-> KeptStep(r, excluded, f, k)]
  BY <1>3, <1>4 DEF Iterates
<1>6. Kept = [k \in 0..n |-> KeptStep(r, excluded, Kept, k)]
  BY <1>5 DEF KeptStep
<1>7. DaysBut(r, excluded) = Kept[n]
  BY DEF DaysBut
<1> HIDE DEF Kept
<1> QED
  BY <1>6, <1>7

\* The days kept are the ones asked for, in order.
InOrder(days, kept) ==
  /\ days \in Seq(Int)
  /\ \A i \in 1..Len(days) : days[i] \in kept
  /\ \A d \in kept : \E i \in 1..Len(days) : days[i] = d
  /\ \A i, j \in 1..Len(days) : i < j => days[i] < days[j]

\* The study days are the ones left, each once and in order.
LEMMA StudyDaysInOrder ==
  ASSUME NEW r, ValidRequest(r)
  PROVE  InOrder(StudyDays(r), (r.start..r.end) \ r.excluded)
<1>1. r.start \in Int /\ r.end \in Int /\ r.end - r.start + 1 \in Nat
  BY RequestNumbers
<1> DEFINE n == r.end - r.start + 1
           until(k) == (r.start..r.start + k - 1) \ r.excluded
<1>2. PICK kept : /\ StudyDays(r) = kept[n]
                  /\ \A k \in 0..n : kept[k] = KeptStep(r, r.excluded, kept, k)
  BY DaysAreKept DEF StudyDays
<1> DEFINE T == {k \in 0..n : InOrder(kept[k], until(k))}
<1>3. 0 \in T
  <2>1. kept[0] = <<>> /\ until(0) = {}
    BY <1>1, <1>2 DEF KeptStep
  <2>2. <<>> \in Seq(Int) /\ Len(<<>>) = 0
    OBVIOUS
  <2>3. InOrder(<<>>, {}) /\ 0 \in 0..n
    BY <1>1, <2>2 DEF InOrder
  <2> HIDE DEF until, n
  <2> QED
    BY <2>1, <2>3
<1>4. ASSUME NEW k \in 1..n, k - 1 \in T PROVE k \in T
  <2> DEFINE cursor == r.start + k - 1
             before == kept[k - 1]
  <2>1. InOrder(before, until(k - 1)) /\ cursor \in Int /\ k \in 0..n
    BY <1>1, <1>4
  <2>2. /\ until(k) = IF cursor \in r.excluded THEN until(k - 1) ELSE until(k - 1) \cup {cursor}
        /\ \A d \in until(k - 1) : d < cursor
    BY <1>1
  <2>3. kept[k] = IF cursor \in r.excluded THEN before ELSE Append(before, cursor)
    BY <1>1, <1>2, <2>1 DEF KeptStep
  <2> HIDE DEF until, cursor, before
  <2>4. CASE cursor \in r.excluded
    BY <2>1, <2>2, <2>3, <2>4
  <2>5. CASE cursor \notin r.excluded
    <3>1. /\ Len(before) \in Nat /\ kept[k] \in Seq(Int) /\ Len(kept[k]) = Len(before) + 1
          /\ \A i \in 1..Len(before) : kept[k][i] = before[i]
          /\ kept[k][Len(before) + 1] = cursor
      BY <2>1, <2>3, <2>5, AppendProperties, LenProperties DEF InOrder
    <3>2. \A i \in 1..Len(kept[k]) : i \in 1..Len(before) \/ i = Len(before) + 1
      BY <3>1
    <3>3. until(k) = until(k - 1) \cup {cursor}
      BY <2>2, <2>5
    <3>4. \A i \in 1..Len(kept[k]) : kept[k][i] \in until(k)
      BY <2>1, <3>1, <3>2, <3>3 DEF InOrder
    <3>5. ASSUME NEW d \in until(k) PROVE \E i \in 1..Len(kept[k]) : kept[k][i] = d
      <4>1. CASE d = cursor
        <5>1. Len(before) + 1 \in 1..Len(kept[k])
          BY <3>1
        <5> QED
          BY <3>1, <4>1, <5>1
      <4>2. CASE d # cursor
        <5>1. PICK i \in 1..Len(before) : before[i] = d
          BY <2>1, <3>3, <3>5, <4>2 DEF InOrder
        <5>2. i \in 1..Len(kept[k]) /\ kept[k][i] = d
          BY <3>1, <5>1
        <5> QED
          BY <5>2
      <4> QED
        BY <4>1, <4>2
    <3>6. ASSUME NEW i \in 1..Len(kept[k]), NEW j \in 1..Len(kept[k]), i < j
          PROVE  kept[k][i] < kept[k][j]
      <4>1. i \in 1..Len(before)
        BY <3>1, <3>6
      <4> QED
        BY <2>1, <2>2, <3>1, <3>2, <3>6, <4>1 DEF InOrder
    <3>7. InOrder(kept[k], until(k))
      BY <3>1, <3>4, <3>5, <3>6 DEF InOrder
    <3> QED
      BY <2>1, <3>7
  <2> QED
    BY <2>4, <2>5
<1>5. T \in SUBSET (0..n)
  OBVIOUS
<1> HIDE DEF T
<1>6. T = 0..n
  BY <1>1, <1>3, <1>4, <1>5, UpTo
<1>7. InOrder(kept[n], until(n))
  <2>1. n \in T
    BY <1>1, <1>6
  <2> QED
    BY <2>1 DEF T
<1>8. until(n) = (r.start..r.end) \ r.excluded
  BY <1>1
<1> QED
  BY <1>2, <1>7, <1>8

(***************************************************************************)
(* Study plans: what takes turns is shared evenly                          *)
(***************************************************************************)
\* The elements of the list take turns in f, in one go or day after day.
TakesTurns(f, list, off, size) ==
  DOMAIN f = 1..size /\ \A k \in 1..size : f[k] = Turn(list, off + k - 1)
TakesDailyTurns(f, list, days, sessions) ==
  /\ DOMAIN f = (1..days) \X (1..sessions)
  /\ \A d \in 1..days : \A k \in 1..sessions :
       f[<<d, k>>] = Turn(list, (d - 1) * sessions + (k - 1))

\* What takes turns through a list is shared evenly.
LEMMA TurnsAreEven ==
  ASSUME NEW list \in Seq(STRING), list # <<>>, NEW off \in Nat, NEW size \in Nat,
         NEW f, TakesTurns(f, list, off, size)
  PROVE  Even(list, f)
<1> USE DEF TakesTurns
<1> DEFINE n == Len(list)
<1>1. n \in Nat \ {0} /\ DOMAIN list = 1..n
  BY LenProperties, EmptySeq
<1>2. ASSUME NEW value \in ToSet(list)
      PROVE  /\ (size \div n) * Times(list, value) <= Times(f, value)
             /\ Times(f, value) <= (size \div n + 1) * Times(list, value)
  <2> DEFINE P == {i \in 1..n : list[i] = value}
             K == {k \in 1..size : ((off + k - 1) % n) + 1 \in P}
  <2>1. P \in SUBSET (1..n)
    OBVIOUS
  <2>2. ASSUME NEW k \in 1..size PROVE f[k] = value <=> ((off + k - 1) % n) + 1 \in P
    <3>1. (off + k - 1) \in Nat
      OBVIOUS
    <3>2. (off + k - 1) % n \in 0..n - 1
      BY <1>1, <3>1, NaturalDivision
    <3>3. ((off + k - 1) % n) + 1 \in 1..n
      BY <1>1, <3>2
    <3>4. f[k] = list[((off + k - 1) % n) + 1]
      BY DEF Turn
    <3> QED
      BY <3>3, <3>4
  <2>3. Times(list, value) = Cardinality(P)
    BY <1>1 DEF Times
  <2>4. Times(f, value) = Cardinality(K)
    <3>1. K = {i \in DOMAIN f : f[i] = value}
      BY <2>2
    <3> HIDE DEF K
    <3> QED
      BY <3>1 DEF Times
  <2> HIDE DEF P
  <2>5. /\ (size \div n) * Cardinality(P) <= Cardinality(K)
        /\ Cardinality(K) <= (size \div n + 1) * Cardinality(P)
    BY <1>1, <2>1, TurnsAreShared
  <2> QED
    BY <2>3, <2>4, <2>5
<1>3. Cardinality(DOMAIN f) = size
  BY FS_Interval
<1> HIDE DEF n
<1> QED
  BY <1>2, <1>3 DEF Even, n

\* So is what takes turns day after day.
LEMMA TurnsGoOn ==
  ASSUME NEW list \in Seq(STRING), list # <<>>, NEW days \in Nat, NEW sessions \in Nat \ {0},
         NEW f, TakesDailyTurns(f, list, days, sessions)
  PROVE  Even(list, f)
<1> USE DEF TakesDailyTurns
<1> DEFINE size == days * sessions
           number(at) == (at[1] - 1) * sessions + at[2]
           g == [t \in 1..size |-> Turn(list, t - 1)]
<1>1. size \in Nat
  OBVIOUS
<1>2. Even(list, g)
  <2>1. TakesTurns(g, list, 0, size)
    BY <1>1 DEF TakesTurns
  <2> HIDE DEF g, size
  <2> QED
    BY <1>1, <2>1, 0 \in Nat, TurnsAreEven
<1>3. ASSUME NEW d \in 1..days, NEW k \in 1..sessions
      PROVE  /\ number(<<d, k>>) \in 1..size
             /\ f[<<d, k>>] = g[number(<<d, k>>)]
             /\ (number(<<d, k>>) - 1) \div sessions = d - 1
             /\ (number(<<d, k>>) - 1) % sessions = k - 1
  <2> DEFINE before == sessions * (d - 1)
  <2>1. before \in Nat /\ number(<<d, k>>) = before + k /\ before = (d - 1) * sessions
    OBVIOUS
  <2>2. before + sessions <= size
    <3>1. sessions * (d - 1) + sessions <= sessions * days
      BY Multiples
    <3>2. sessions * days = days * sessions
      OBVIOUS
    <3> QED
      BY <3>1, <3>2
  <2>3. number(<<d, k>>) \in 1..size
    <3> HIDE DEF before, size, number
    <3> QED
      BY <1>1, <2>1, <2>2
  <2>4. f[<<d, k>>] = g[number(<<d, k>>)]
    <3>1. f[<<d, k>>] = Turn(list, before + (k - 1))
      BY <2>1
    <3>2. g[number(<<d, k>>)] = Turn(list, number(<<d, k>>) - 1)
      BY <2>3
    <3>3. number(<<d, k>>) - 1 = before + (k - 1)
      <4> HIDE DEF before, number
      <4> QED
        BY <2>1
    <3> QED
      BY <3>1, <3>2, <3>3
  <2>5. number(<<d, k>>) - 1 = sessions * (d - 1) + (k - 1) /\ k - 1 \in 0..sessions - 1 /\ d - 1 \in Int
    <3>1. number(<<d, k>>) - 1 = before + (k - 1) /\ k - 1 \in 0..sessions - 1 /\ d - 1 \in Int
      <4> HIDE DEF before, number
      <4> QED
        BY <2>1
    <3> QED
      BY <3>1
  <2> HIDE DEF number, g, size
  <2> QED
    BY <2>3, <2>4, <2>5, DivisionIsUnique
<1>4. ASSUME NEW t \in 1..size
      PROVE  \E d \in 1..days, k \in 1..sessions : number(<<d, k>>) = t
  <2> DEFINE q == (t - 1) \div sessions
             z == (t - 1) % sessions
  <2>1. t - 1 \in Nat
    BY <1>1
  <2>2. q \in Nat /\ z \in 0..sessions - 1 /\ t - 1 = sessions * q + z
    BY <2>1, NaturalDivision
  <2> HIDE DEF q, z
  <2>3. q < days
    <3>1. CASE days < q
      <4>1. sessions * days + sessions <= sessions * q /\ sessions * q \in Int /\ sessions * days = size
        BY <2>2, <3>1, Multiples
      <4> HIDE DEF size
      <4> QED
        BY <1>1, <2>2, <4>1, SMTT(30)
    <3>2. CASE days = q
      <4>1. sessions * q = size
        BY <3>2
      <4> HIDE DEF size
      <4> QED
        BY <1>1, <2>2, <4>1
    <3> QED
      BY <2>2, <3>1, <3>2
  <2>4. q + 1 \in 1..days /\ z + 1 \in 1..sessions
    BY <2>2, <2>3
  <2>5. number(<<q + 1, z + 1>>) = t
    <3>1. number(<<q + 1, z + 1>>) = q * sessions + z + 1 /\ q * sessions = sessions * q /\ sessions * q \in Int
      BY <2>2
    <3> HIDE DEF number
    <3> QED
      BY <1>1, <2>2, <3>1
  <2> HIDE DEF number
  <2> QED
    BY <2>4, <2>5
<1> HIDE DEF size, number, g
<1>5. \A at \in DOMAIN f : \E d \in 1..days, k \in 1..sessions : at = <<d, k>>
  <2>1. \A at \in DOMAIN f : at[1] \in 1..days /\ at[2] \in 1..sessions /\ at = <<at[1], at[2]>>
    OBVIOUS
  <2> QED
    BY <2>1
<1>6. ASSUME NEW at \in DOMAIN f, NEW to \in DOMAIN f, number(at) = number(to) PROVE at = to
  <2>1. PICK d \in 1..days, k \in 1..sessions : at = <<d, k>>
    BY <1>5
  <2>2. PICK e \in 1..days, m \in 1..sessions : to = <<e, m>>
    BY <1>5
  <2>3. d - 1 = e - 1 /\ k - 1 = m - 1
    BY <1>3, <1>6, <2>1, <2>2
  <2>4. d = e /\ k = m
    BY <2>3
  <2> QED
    BY <2>1, <2>2, <2>4
<1>7. IsFiniteSet(DOMAIN f) /\ Cardinality(DOMAIN f) = Cardinality(DOMAIN g)
  <2>1. IsFiniteSet(1..days) /\ Cardinality(1..days) = days
    BY FS_Interval
  <2>2. IsFiniteSet(1..sessions) /\ Cardinality(1..sessions) = sessions
    BY FS_Interval
  <2>3. /\ IsFiniteSet((1..days) \X (1..sessions))
        /\ Cardinality((1..days) \X (1..sessions)) = Cardinality(1..days) * Cardinality(1..sessions)
    BY <2>1, <2>2, FS_Product
  <2>4. Cardinality(DOMAIN g) = size
    BY <1>1, FS_Interval DEF g
  <2> QED
    BY <2>1, <2>2, <2>3, <2>4 DEF size
<1>8. ASSUME NEW value PROVE Times(f, value) = Times(g, value)
  <2> DEFINE A == {at \in DOMAIN f : f[at] = value}
             B == {t \in 1..size : g[t] = value}
             b == [at \in A |-> number(at)]
  <2>1. ASSUME NEW at \in A PROVE number(at) \in B
    <3>1. PICK d \in 1..days, k \in 1..sessions : at = <<d, k>>
      BY <1>5
    <3> HIDE DEF TakesDailyTurns
    <3> QED
      BY <1>3, <3>1
  <2>2. b \in Injection(A, B)
    BY <1>6, <2>1 DEF Injection, IsInjective
  <2>3. ASSUME NEW t \in B PROVE \E at \in A : b[at] = t
    <3>1. PICK d \in 1..days, k \in 1..sessions : number(<<d, k>>) = t
      BY <1>4
    <3>2. <<d, k>> \in A
      BY <1>3, <3>1
    <3> QED
      BY <3>1, <3>2
  <2>4. b \in Bijection(A, B)
    <3> HIDE DEF A, B, b
    <3> QED
      BY <2>2, <2>3 DEF Bijection, Surjection, Injection
  <2>5. IsFiniteSet(A)
    <3>1. IsFiniteSet(DOMAIN f) /\ A \in SUBSET (DOMAIN f)
      BY <1>7
    <3> HIDE DEF A
    <3> QED
      BY <3>1, FS_Subset
  <2>6. Cardinality(B) = Cardinality(A)
    <3> HIDE DEF A, B, b
    <3>1. ExistsBijection(A, B)
      BY <2>4 DEF ExistsBijection
    <3> QED
      BY <2>5, <3>1, FS_Bijection
  <2> QED
    BY <2>6 DEF Times, g
<1> QED
  BY <1>2, <1>7, <1>8 DEF Even

(***************************************************************************)
(* Study plans: what they promise                                          *)
(***************************************************************************)
ListedTopics(r, topics) == ResolvedTopics(r, topics) \in Seq(STRING) /\ ResolvedTopics(r, topics) # <<>>
LEMMA PlanShape ==
  ASSUME NEW r, ValidRequest(r), NEW topics
  PROVE  LET plan == BuildPlanDays(r, topics)
             days == StudyDays(r)
             sessions == Sessions(r)
         IN  /\ DOMAIN plan = 1..Len(days) /\ Len(plan) = Len(days) /\ Len(days) \in Nat
             /\ Len(sessions) \in Nat \ {0}
             /\ \A d \in 1..Len(days) :
                  /\ plan[d].date = days[d]
                  /\ DOMAIN plan[d].tasks = 1..Len(sessions)
                  /\ TotalMinutes(plan[d]) = Total(sessions)
                  /\ \A k \in 1..Len(sessions) :
                       LET task == plan[d].tasks[k]
                       IN  /\ task.subject = Turn(r.subjects, d + k - 2)
                           /\ task.topic = Turn(ResolvedTopics(r, topics), (d - 1) * Len(sessions) + (k - 1))
                           /\ task.priority =
                                IF task.subject \in DOMAIN r.exams
                                   /\ r.exams[task.subject] - days[d] <= ExamNear
                                THEN "high" ELSE "medium"
<1> DEFINE plan == BuildPlanDays(r, topics)
           days == StudyDays(r)
           sessions == Sessions(r)
           list == ResolvedTopics(r, topics)
<1>1. Len(days) \in Nat
  BY StudyDaysInOrder, LenProperties DEF InOrder
<1>2. /\ sessions \in Seq(Nat) /\ Len(sessions) \in Nat \ {0}
      /\ DOMAIN sessions = 1..Len(sessions)
  <2>1. sessions \in Seq(Nat) /\ r.minutes - Total(sessions) < ShortestSession
    BY SessionsUseTheDay
  <2>2. Total(<<>>) = 0
    BY 0 \in Nat, <2>1, TotalOfMore
  <2>3. sessions # <<>>
    BY <2>1, <2>2, RequestNumbers DEF ShortestSession
  <2> HIDE DEF sessions
  <2> QED
    BY <2>1, <2>3, LenProperties, EmptySeq
<1> DEFINE task(date, day, session) ==
             LET subject == Turn(r.subjects, day + session)
             IN  [subject  |-> subject,
                  topic    |-> Turn(list, day * Len(sessions) + session),
                  minutes  |-> sessions[session + 1],
                  priority |-> IF subject \in DOMAIN r.exams /\ r.exams[subject] - date <= ExamNear
                               THEN "high" ELSE "medium",
                  type     |-> IF session % 3 = 2 THEN "review" ELSE "read"]
           row(d) == [date |-> days[d],
                      tasks |-> [k \in 1..Len(sessions) |-> task(days[d], d - 1, k - 1)]]
<1>3. plan = [d \in 1..Len(days) |-> row(d)]
  BY DEF BuildPlanDays
<1> HIDE DEF plan
<1>4. DOMAIN plan = 1..Len(days) /\ Len(plan) = Len(days)
  <2> HIDE DEF row, days
  <2>1. DOMAIN plan = 1..Len(days)
    BY <1>3
  <2>2. plan \in [1..Len(days) -> {row(d) : d \in 1..Len(days)}]
    BY <1>3
  <2>3. plan \in Seq({row(d) : d \in 1..Len(days)})
    BY <1>1, <2>2, SeqDef
  <2> QED
    BY <1>1, <2>1, <2>3, LenProperties
<1>5. ASSUME NEW d \in 1..Len(days)
      PROVE  /\ plan[d].date = days[d]
             /\ DOMAIN plan[d].tasks = 1..Len(sessions)
             /\ \A k \in 1..Len(sessions) : plan[d].tasks[k] = task(days[d], d - 1, k - 1)
             /\ Len(plan[d].tasks) = Len(sessions)
  <2>1. plan[d] = row(d)
    <3> HIDE DEF row, days
    <3> QED
      BY <1>3
  <2> DEFINE ts == [k \in 1..Len(sessions) |-> task(days[d], d - 1, k - 1)]
  <2>2. plan[d].date = days[d] /\ plan[d].tasks = ts
    BY <2>1
  <2> HIDE DEF task, sessions
  <2>3. ts \in [1..Len(sessions) -> {task(days[d], d - 1, k - 1) : k \in 1..Len(sessions)}]
    OBVIOUS
  <2>4. ts \in Seq({task(days[d], d - 1, k - 1) : k \in 1..Len(sessions)})
    BY <1>2, <2>3, SeqDef
  <2>5. Len(ts) = Len(sessions)
    BY <1>2, <2>4, LenProperties
  <2> QED
    BY <2>2, <2>5
<1>6. ASSUME NEW d \in 1..Len(days), NEW k \in 1..Len(sessions)
      PROVE  /\ task(days[d], d - 1, k - 1).subject = Turn(r.subjects, d + k - 2)
             /\ task(days[d], d - 1, k - 1).topic = Turn(list, (d - 1) * Len(sessions) + (k - 1))
             /\ task(days[d], d - 1, k - 1).minutes = sessions[k]
             /\ task(days[d], d - 1, k - 1).priority =
                  IF task(days[d], d - 1, k - 1).subject \in DOMAIN r.exams
                     /\ r.exams[task(days[d], d - 1, k - 1).subject] - days[d] <= ExamNear
                  THEN "high" ELSE "medium"
  <2>1. (d - 1) + (k - 1) = d + k - 2 /\ (k - 1) + 1 = k
    BY <1>1, <1>2
  <2> HIDE DEF days, sessions, list
  <2> QED
    BY <2>1
<1> HIDE DEF task
<1>7. ASSUME NEW d \in 1..Len(days) PROVE TotalMinutes(plan[d]) = Total(sessions)
  <2>1. [k \in 1..Len(plan[d].tasks) |-> plan[d].tasks[k].minutes] = sessions
    <3>1. \A k \in 1..Len(sessions) : plan[d].tasks[k].minutes = sessions[k]
      BY <1>5, <1>6
    <3>2. sessions = [k \in 1..Len(sessions) |-> sessions[k]]
      <4> HIDE DEF sessions
      <4> QED
        BY <1>2, LenProperties
    <3> HIDE DEF sessions
    <3> QED
      BY <1>5, <3>1, <3>2
  <2> QED
    BY <2>1 DEF TotalMinutes
<1>8. \A d \in 1..Len(days) : \A k \in 1..Len(sessions) :
         /\ plan[d].tasks[k].subject = Turn(r.subjects, d + k - 2)
         /\ plan[d].tasks[k].topic = Turn(list, (d - 1) * Len(sessions) + (k - 1))
         /\ plan[d].tasks[k].priority =
              IF plan[d].tasks[k].subject \in DOMAIN r.exams
                 /\ r.exams[plan[d].tasks[k].subject] - days[d] <= ExamNear
              THEN "high" ELSE "medium"
  <2> HIDE DEF days, sessions, list
  <2> TAKE d \in 1..Len(days)
  <2> TAKE k \in 1..Len(sessions)
  <2>1. plan[d].tasks[k] = task(days[d], d - 1, k - 1)
    BY <1>5
  <2> DEFINE t == task(days[d], d - 1, k - 1)
  <2>2. /\ t.subject = Turn(r.subjects, d + k - 2)
        /\ t.topic = Turn(list, (d - 1) * Len(sessions) + (k - 1))
        /\ t.priority = IF t.subject \in DOMAIN r.exams /\ r.exams[t.subject] - days[d] <= ExamNear
                        THEN "high" ELSE "medium"
    BY <1>6
  <2> HIDE DEF t
  <2>3. plan[d].tasks[k] = t
    BY <2>1 DEF t
  <2> QED
    BY <2>2, <2>3
<1> HIDE DEF days, sessions, list
<1>9. \A d \in 1..Len(days) : /\ plan[d].date = days[d]
                              /\ DOMAIN plan[d].tasks = 1..Len(sessions)
                              /\ TotalMinutes(plan[d]) = Total(sessions)
  BY <1>5, <1>7
<1> QED
  BY <1>1, <1>2, <1>4, <1>8, <1>9 DEF plan, days, sessions, list

\* There is always a topic.
LEMMA TopicsListed ==
  ASSUME NEW r, ValidRequest(r), NEW topics \in Seq(STRING)
  PROVE  ListedTopics(r, topics)
<1>1. r.subjects \in Seq(STRING) /\ r.subjects # <<>> /\ r.weak \in Seq(STRING)
  BY Zenon DEF ValidRequest
<1>2. CASE topics # <<>>
  <2>1. ResolvedTopics(r, topics) = topics
    BY <1>2 DEF ResolvedTopics
  <2> QED
    BY <1>2, <2>1, Zenon DEF ListedTopics
<1>3. CASE topics = <<>> /\ r.weak # <<>>
  <2>1. ResolvedTopics(r, topics) = r.weak
    BY <1>3 DEF ResolvedTopics
  <2> QED
    BY <1>1, <1>3, <2>1, Zenon DEF ListedTopics
<1>4. CASE topics = <<>> /\ r.weak = <<>>
  <2>1. ResolvedTopics(r, topics) = r.subjects
    BY <1>4 DEF ResolvedTopics
  <2> QED
    BY <1>1, <2>1, Zenon DEF ListedTopics
<1> QED
  BY <1>2, <1>3, <1>4

\* No plan breaks a constraint of its request.
LEMMA PlansAreHard ==
  ASSUME NEW r, ValidRequest(r), NEW topics
  PROVE  HardConstraints(r, BuildPlanDays(r, topics))
<1> DEFINE plan == BuildPlanDays(r, topics)
           days == StudyDays(r)
<1>1. /\ DOMAIN plan = 1..Len(days) /\ Len(plan) = Len(days) /\ Len(days) \in Nat
      /\ \A d \in 1..Len(days) : plan[d].date = days[d] /\ TotalMinutes(plan[d]) = Total(Sessions(r))
  BY PlanShape
<1>2. InOrder(days, (r.start..r.end) \ r.excluded)
  BY StudyDaysInOrder
<1>3. Total(Sessions(r)) <= r.minutes
  BY SessionsUseTheDay
<1> HIDE DEF plan, days
<1>4. ASSUME NEW d \in 1..Len(plan)
      PROVE  /\ plan[d].date \in r.start..r.end
             /\ plan[d].date \notin r.excluded
             /\ TotalMinutes(plan[d]) <= r.minutes
  BY <1>1, <1>2, <1>3 DEF InOrder
<1>5. ASSUME NEW d \in 1..Len(plan), NEW e \in 1..Len(plan), plan[d].date = plan[e].date
      PROVE  d = e
  <2>1. days[d] = days[e] /\ days[d] \in Int
    BY <1>1, <1>2, <1>5, ElementOfSeq DEF InOrder
  <2>2. ~(d < e) /\ ~(e < d)
    BY <1>1, <1>2, <2>1 DEF InOrder
  <2> QED
    BY <1>1, <2>2
<1> QED
  BY <1>4, <1>5 DEF HardConstraints, plan

\* A plan shares the days and their time out as it promises.
LEMMA PlansAreFair ==
  ASSUME NEW r, ValidRequest(r), NEW topics \in Seq(STRING)
  PROVE  FairPlan(r, topics, BuildPlanDays(r, topics))
<1> DEFINE plan == BuildPlanDays(r, topics)
           days == StudyDays(r)
           sessions == Sessions(r)
           list == ResolvedTopics(r, topics)
           places == UNION {{d} \X DOMAIN plan[d].tasks : d \in 1..Len(plan)}
           topic == [at \in places |-> plan[at[1]].tasks[at[2]].topic]
<1>1. /\ DOMAIN plan = 1..Len(days) /\ Len(plan) = Len(days) /\ Len(days) \in Nat
      /\ Len(sessions) \in Nat \ {0}
      /\ \A d \in 1..Len(days) :
           /\ plan[d].date = days[d]
           /\ DOMAIN plan[d].tasks = 1..Len(sessions)
           /\ TotalMinutes(plan[d]) = Total(sessions)
           /\ \A k \in 1..Len(sessions) :
                /\ plan[d].tasks[k].subject = Turn(r.subjects, d + k - 2)
                /\ plan[d].tasks[k].topic = Turn(list, (d - 1) * Len(sessions) + (k - 1))
                /\ plan[d].tasks[k].priority =
                     IF plan[d].tasks[k].subject \in DOMAIN r.exams
                        /\ r.exams[plan[d].tasks[k].subject] - days[d] <= ExamNear
                     THEN "high" ELSE "medium"
  BY PlanShape
<1>2. InOrder(days, (r.start..r.end) \ r.excluded)
  BY StudyDaysInOrder
<1>3. r.minutes - Total(sessions) < ShortestSession
  BY SessionsUseTheDay
<1>4. r.subjects \in Seq(STRING) /\ r.subjects # <<>>
  BY Zenon DEF ValidRequest
<1>5. \A subject \in DOMAIN r.exams : r.exams[subject] \in Int
  BY Zenon DEF ValidRequest
<1>6. list \in Seq(STRING) /\ list # <<>>
  BY TopicsListed DEF ListedTopics
<1> HIDE DEF plan, days, sessions, list
<1>7. {plan[d].date : d \in 1..Len(plan)} = (r.start..r.end) \ r.excluded
  <2>1. Len(plan) = Len(days) /\ \A d \in 1..Len(days) : plan[d].date = days[d]
    BY <1>1
  <2>2. \A d \in 1..Len(plan) : plan[d].date \in (r.start..r.end) \ r.excluded
    BY <1>2, <2>1 DEF InOrder
  <2>3. ASSUME NEW day \in (r.start..r.end) \ r.excluded PROVE \E d \in 1..Len(plan) : plan[d].date = day
    <3>1. PICK d \in 1..Len(days) : days[d] = day
      BY <1>2 DEF InOrder
    <3> QED
      BY <2>1, <3>1
  <2> QED
    BY <2>2, <2>3
<1>8. ASSUME NEW d \in 1..Len(plan)
      PROVE  /\ r.minutes - TotalMinutes(plan[d]) < ShortestSession
             /\ Even(r.subjects, [k \in DOMAIN plan[d].tasks |-> plan[d].tasks[k].subject])
             /\ \A e \in 1..d - 1 : plan[e].date < plan[d].date
  <2> DEFINE subject == [k \in DOMAIN plan[d].tasks |-> plan[d].tasks[k].subject]
  <2>1. d - 1 \in Nat /\ DOMAIN subject = 1..Len(sessions)
        /\ \A k \in 1..Len(sessions) : subject[k] = Turn(r.subjects, (d - 1) + k - 1)
    BY <1>1
  <2>2. Even(r.subjects, subject)
    <3> DEFINE off == d - 1
    <3> HIDE DEF subject
    <3>1. off \in Nat /\ Len(sessions) \in Nat /\ TakesTurns(subject, r.subjects, off, Len(sessions))
      BY <1>1, <2>1 DEF TakesTurns
    <3> HIDE DEF off
    <3> QED
      BY <1>4, <3>1, TurnsAreEven
  <2>3. \A e \in 1..d - 1 : plan[e].date < plan[d].date
    BY <1>1, <1>2 DEF InOrder
  <2> QED
    BY <1>1, <1>3, <2>2, <2>3
<1>9. Even(list, topic)
  <2>1. places = (1..Len(days)) \X (1..Len(sessions))
    BY <1>1
  <2>2. \A d \in 1..Len(days) : \A k \in 1..Len(sessions) :
          topic[<<d, k>>] = Turn(list, (d - 1) * Len(sessions) + (k - 1))
    BY <1>1, <2>1
  <2>3. DOMAIN topic = (1..Len(days)) \X (1..Len(sessions))
    BY <2>1
  <2> DEFINE n == Len(days)
             m == Len(sessions)
  <2>4. n \in Nat /\ m \in Nat \ {0}
    BY <1>1
  <2> HIDE DEF topic, n, m
  <2>5. TakesDailyTurns(topic, list, n, m)
    BY <2>2, <2>3 DEF n, m, TakesDailyTurns
  <2> QED
    BY <1>6, <2>4, <2>5, TurnsGoOn
<1>10. ASSUME NEW d \in 1..Len(plan), NEW k \in DOMAIN plan[d].tasks,
              plan[d].tasks[k].subject \in DOMAIN r.exams,
              r.exams[plan[d].tasks[k].subject] <= plan[d].date
       PROVE  plan[d].tasks[k].priority = "high"
  <2>1. days[d] \in Int /\ plan[d].date = days[d] /\ k \in 1..Len(sessions)
    BY <1>1, <1>2, ElementOfSeq DEF InOrder
  <2>2. r.exams[plan[d].tasks[k].subject] - days[d] <= ExamNear
    BY <1>5, <1>10, <2>1 DEF ExamNear
  <2> QED
    BY <1>1, <1>10, <2>1, <2>2
<1> QED
  BY <1>7, <1>8, <1>9, <1>10 DEF FairPlan, plan, list

\* A request that has a plan has days to study on.
LEMMA PlansHaveDays ==
  ASSUME NEW r, ValidRequest(r), NEW topics, HasPlan(r)
  PROVE  BuildPlanDays(r, topics) # <<>>
<1>1. StudyDays(r) \in Seq(Int) /\ StudyDays(r) # <<>>
  BY StudyDaysInOrder DEF InOrder, HasPlan
<1>2. Len(StudyDays(r)) # 0
  BY <1>1, EmptySeq
<1>3. Len(BuildPlanDays(r, topics)) = Len(StudyDays(r))
  BY PlanShape
<1> QED
  BY <1>2, <1>3, Len(<<>>) = 0

(***************************************************************************)
(* The invariant of the Lab                                                *)
(***************************************************************************)
SourceRows == [id : Ids, ws : Workspaces, content : Contents]
JobRows == [status : Statuses, ws : Workspaces, request : Requests]

FilesInv ==
  /\ workspaces \subseteq Workspaces /\ uploads \in 0..MaxUploads
  /\ sources \subseteq SourceRows
  /\ files \subseteq Ids /\ strays \subseteq Ids /\ missing \subseteq Ids
  /\ FilesMatchRows
  /\ \A s \in sources : s.ws \in workspaces
  /\ \A s \in sources : s.id <= uploads   \* identities are fresh
  /\ \A id \in files : id <= uploads

JobsInv ==
  /\ jobs \in [Jobs -> JobRows] /\ tasks \in [Jobs -> Stages] /\ lost \subseteq Jobs
  /\ UnsettledHasTask
  /\ \A j \in Jobs : jobs[j].status \notin {"absent", "deleted"} => jobs[j].ws \in workspaces

\* Only a plan's own first step completes it: a job that waits for a transcription or for
\* the provider is no plan.
PlansInv ==
  \A j \in Jobs :
    jobs[j].request.task = "khota" =>
      /\ tasks[j] \in {"none", "created"}
      /\ jobs[j].status = "completed" => HasPlan(jobs[j].request.plan)

IInv == FilesInv /\ JobsInv /\ PlansInv /\ faults \in Nat

LEMMA SomeJob == NoJob \in JobRows /\ NoJob.status = "absent"
<1>1. AnyWorkspace \in Workspaces /\ AnyPlan \in Plans
  BY LabAssumption DEF AnyWorkspace, AnyPlan
<1>2. PICK task \in Tasks : TRUE
  BY LabAssumption
<1>3. 1 \in Ids
  BY LabAssumption DEF Ids
<1>4. Requests # {}
  <2> DEFINE r == [task |-> task, plan |-> AnyPlan,
                   source |-> IF task \in {"fahes", "kholasa", "sada"} THEN 1 ELSE NoSource]
  <2>1. r.task = task /\ r.plan = AnyPlan
        /\ r.source = IF task \in {"fahes", "kholasa", "sada"} THEN 1 ELSE NoSource
    OBVIOUS
  <2>2. r \in [task : Tasks, source : {NoSource} \cup Ids, plan : Plans]
    BY <1>1, <1>2, <1>3
  <2>3. r.task \in {"fahes", "kholasa", "sada"} => r.source # NoSource
    BY <2>1 DEF NoSource
  <2>4. r.task = "rasheed" => r.source = NoSource
    BY <2>1
  <2> HIDE DEF r
  <2>5. r \in Requests
    BY <2>1, <2>2, <2>3, <2>4 DEF Requests
  <2> QED
    BY <2>5
<1>5. (CHOOSE r \in Requests : TRUE) \in Requests
  BY <1>4
<1> QED
  BY <1>1, <1>5 DEF NoJob, JobRows, Statuses, Unsettled

LEMMA InitIsOK == Init => IInv
<1> SUFFICES ASSUME Init PROVE IInv
  OBVIOUS
<1>1. FilesInv
  BY LabAssumption DEF Init, FilesInv, FilesMatchRows
<1>2. JobsInv
  BY SomeJob DEF Init, JobsInv, UnsettledHasTask, Stages, Unsettled
<1>3. PlansInv
  BY SomeJob DEF Init, PlansInv
<1> QED
  BY <1>1, <1>2, <1>3 DEF Init, IInv

(***************************************************************************)
(* Files and rows                                                          *)
(***************************************************************************)
\* An upload, a refused one and one that is there already.
LEMMA UploadKeepsFiles ==
  ASSUME FilesInv, NEW ws \in Workspaces, NEW content \in Contents,
         StoreUpload(ws, content), UNCHANGED <<strays, missing>>
  PROVE  FilesInv'
<1>1. CASE UNCHANGED <<sources, files, uploads>>
  BY <1>1 DEF StoreUpload, FilesInv, FilesMatchRows
<1>2. CASE /\ Existing(ws, content) = {} /\ uploads < MaxUploads
           /\ uploads' = uploads + 1
           /\ files' = files \cup {uploads'}
           /\ sources' = sources \cup {[id |-> uploads', ws |-> ws, content |-> content]}
  <2> DEFINE new == [id |-> uploads', ws |-> ws, content |-> content]
  <2>1. uploads' \in Ids /\ uploads' \in 0..MaxUploads
    BY <1>2, LabAssumption DEF FilesInv, Ids
  <2>2. \A s \in sources : s.id # uploads' /\ s.id \in Ids /\ s.id <= uploads'
    BY <1>2, LabAssumption DEF FilesInv, SourceRows, Ids
  <2>3. \A s \in sources : ~(s.ws = ws /\ s.content = content)
    BY <1>2 DEF Existing
  <2>4. \A id \in files : id <= uploads'
    BY <1>2, LabAssumption DEF FilesInv, Ids
  <2>5. \A s, t \in sources' : s.id = t.id \/ (s.ws = t.ws /\ s.content = t.content) => s = t
    BY <1>2, <2>2, <2>3 DEF FilesInv, FilesMatchRows
  <2>6. FilesMatchRows'
    <3>1. {s.id : s \in sources'} = {s.id : s \in sources} \cup {uploads'}
      <4>1. sources' = sources \cup {new} /\ new.id = uploads'
        BY <1>2
      <4> HIDE DEF new
      <4> QED
        BY <4>1
    <3>2. UNCHANGED <<missing, strays>>
      OBVIOUS
    <3> QED
      BY <1>2, <2>5, <3>1, <3>2 DEF FilesInv, FilesMatchRows
  <2>7. workspaces' = workspaces \cup {ws}
    BY DEF StoreUpload
  <2> QED
    BY <1>2, <2>1, <2>2, <2>4, <2>6, <2>7 DEF FilesInv, SourceRows, Ids
<1> QED
  BY <1>1, <1>2 DEF StoreUpload

\* An upload that fails, with its file unlinked again or, when the process died, stray.
LEMMA FailedUploadKeepsFiles ==
  ASSUME FilesInv, NEW ws \in Workspaces, uploads < MaxUploads,
         workspaces' = workspaces \cup {ws}, uploads' = uploads + 1,
         UNCHANGED <<sources, missing>>,
         \/ UNCHANGED <<files, strays>>
         \/ files' = files \cup {uploads'} /\ strays' = strays \cup {uploads'}
  PROVE  FilesInv'
<1>1. uploads' \in Ids /\ uploads' \in 0..MaxUploads /\ uploads <= uploads'
  BY LabAssumption DEF FilesInv, Ids
<1>2. /\ \A s \in sources : s.id <= uploads'
      /\ \A id \in files : id <= uploads'
  BY LabAssumption DEF FilesInv, SourceRows, Ids
<1>3. /\ files \subseteq files' /\ files' \subseteq files \cup {uploads'}
      /\ files' \ strays' \subseteq files \ strays
      /\ strays' \subseteq strays \cup {uploads'}
  OBVIOUS
<1>4. FilesMatchRows'
  BY <1>3 DEF FilesInv, FilesMatchRows
<1> QED
  BY <1>1, <1>2, <1>3, <1>4 DEF FilesInv
\* A deletion unlinks the files of the workspace before it deletes the rows.
LEMMA DeletionKeepsFiles ==
  ASSUME FilesInv, NEW ws \in Workspaces,
         files' = files \ FilesOf(ws),
         sources' = {s \in sources : s.ws # ws},
         workspaces' = workspaces \ {ws},
         UNCHANGED <<uploads, strays, missing>>
  PROVE  FilesInv'
<1>1. FilesMatchRows'
  <2>1. \A s \in sources' : s \in sources /\ s.id \notin FilesOf(ws)
    BY DEF FilesInv, FilesMatchRows, FilesOf
  <2>2. \A id \in files' \ strays' : \E s \in sources' : s.id = id
    BY DEF FilesInv, FilesMatchRows, FilesOf
  <2>3. \A s \in sources' : s.id \in missing \/ s.id \in files'
    BY <2>1 DEF FilesInv, FilesMatchRows
  <2>4. \A s, t \in sources' : s.id = t.id \/ (s.ws = t.ws /\ s.content = t.content) => s = t
    BY <2>1 DEF FilesInv, FilesMatchRows
  <2> QED
    BY <2>2, <2>3, <2>4 DEF FilesMatchRows
<1> QED
  BY <1>1 DEF FilesInv

\* A deletion that fails or is cut short leaves rows whose files are missing.
LEMMA BrokenDeletionKeepsFiles ==
  ASSUME FilesInv, NEW ws \in Workspaces, NEW unlinked \in SUBSET FilesOf(ws),
         files' = files \ unlinked,
         missing' = missing \cup unlinked,
         UNCHANGED <<workspaces, sources, uploads, strays>>
  PROVE  FilesInv'
<1>1. unlinked \subseteq Ids
  BY DEF FilesOf, FilesInv, SourceRows
<1>2. FilesMatchRows'
  BY DEF FilesInv, FilesMatchRows
<1> QED
  BY <1>1, <1>2 DEF FilesInv

LEMMA FilesUntouched ==
  ASSUME FilesInv, UNCHANGED <<stored, strays, missing>>
  PROVE  FilesInv'
BY DEF stored, FilesInv, FilesMatchRows

(***************************************************************************)
(* Jobs and tasks                                                          *)
(***************************************************************************)
\* Workspaces that are added disturb no job.
LEMMA JobsUntouched ==
  ASSUME JobsInv, UNCHANGED <<jobs, tasks, lost>>, workspaces \subseteq workspaces'
  PROVE  JobsInv'
BY DEF JobsInv, UnsettledHasTask

LEMMA RestartKeepsJobs ==
  ASSUME JobsInv, Restart, UNCHANGED jobs, workspaces \subseteq workspaces'
  PROVE  JobsInv'
BY DEF JobsInv, UnsettledHasTask, Restart, Stages

LEMMA CreationKeepsJobs ==
  ASSUME JobsInv, NEW j \in Jobs, NEW ws \in Workspaces, NEW request \in Requests,
         CreateRun(j, ws, request)
  PROVE  JobsInv'
BY DEF JobsInv, UnsettledHasTask, CreateRun, JobRows, Stages, Statuses, Unsettled

LEMMA DeletionKeepsJobs ==
  ASSUME JobsInv, NEW ws \in Workspaces, DeleteWorkspace(ws)
  PROVE  JobsInv'
<1>1. \A j \in Jobs :
        /\ jobs'[j].ws = jobs[j].ws
        /\ \/ jobs'[j] = jobs[j] /\ (jobs[j].ws # ws \/ jobs[j].status = "absent")
           \/ jobs'[j].status = "deleted"
        /\ jobs'[j] \in JobRows
  BY DEF DeleteWorkspace, JobsInv, JobRows, Statuses
<1>2. jobs' \in [Jobs -> JobRows] /\ UNCHANGED <<tasks, lost>> /\ workspaces' = workspaces \ {ws}
  BY <1>1 DEF DeleteWorkspace
<1>3. UnsettledHasTask'
  BY <1>1, <1>2 DEF JobsInv, UnsettledHasTask, Unsettled, Statuses
<1> QED
  BY <1>1, <1>2, <1>3 DEF JobsInv

\* A task that moves its job on, or settles it, finds it unsettled or deleted.
LEMMA ProgressKeepsJobs ==
  ASSUME JobsInv, NEW j \in Jobs, tasks[j] # "none", UNCHANGED <<workspaces, lost>>,
         \/ \E stage \in {"transcribing", "generating"} :
              \/ Advance(j, stage)
              \/ tasks' = [tasks EXCEPT ![j] = stage] /\ UNCHANGED jobs
         \/ \E status \in {"completed", "failed"} : Settle(j, status)
  PROVE  JobsInv'
<1>1. jobs[j] \in JobRows /\ jobs[j].status \in Unsettled \cup {"deleted"}
  BY DEF JobsInv, UnsettledHasTask
<1> QED
  BY <1>1 DEF JobsInv, UnsettledHasTask, Advance, Settle, Saved, JobRows, Stages, Statuses, Unsettled

LEMMA LossKeepsJobs ==
  ASSUME JobsInv, NEW j \in Jobs, StatusNotSaved(j)
  PROVE  JobsInv'
BY DEF JobsInv, UnsettledHasTask, StatusNotSaved, stored, Stages

\* A job whose request and status stay, or that does not complete, completes no plan.
LEMMA PlansUntouched ==
  ASSUME PlansInv, JobsInv,
         \A j \in Jobs : /\ jobs'[j].request = jobs[j].request
                         /\ jobs'[j].status \in {jobs[j].status, "deleted"}
                         /\ tasks'[j] \in {tasks[j], "none"}
  PROVE  PlansInv'
<1>1. ASSUME NEW j \in Jobs, jobs'[j].request.task = "khota"
      PROVE  /\ tasks'[j] \in {"none", "created"}
             /\ jobs'[j].status = "completed" => HasPlan(jobs'[j].request.plan)
  <2>1. /\ jobs[j].request.task = "khota" /\ jobs'[j].request = jobs[j].request
        /\ jobs'[j].status = "completed" => jobs[j].status = "completed"
        /\ tasks'[j] \in {tasks[j], "none"}
    BY <1>1
  <2> QED
    BY <2>1 DEF PlansInv
<1> QED
  BY <1>1 DEF PlansInv

\* A new job's task has not begun.
LEMMA CreationKeepsPlans ==
  ASSUME PlansInv, JobsInv, NEW j \in Jobs, NEW ws \in Workspaces, NEW request \in Requests,
         CreateRun(j, ws, request)
  PROVE  PlansInv'
<1>1. /\ jobs'[j] = [status |-> "queued", ws |-> ws, request |-> request]
      /\ tasks'[j] = "created"
      /\ \A k \in Jobs \ {j} : jobs'[k] = jobs[k] /\ tasks'[k] = tasks[k]
  BY DEF CreateRun, JobsInv
<1> QED
  BY <1>1 DEF PlansInv

\* A deletion completes nothing.
LEMMA DeletionKeepsPlans ==
  ASSUME PlansInv, JobsInv, NEW ws \in Workspaces, DeleteWorkspace(ws)
  PROVE  PlansInv'
<1>1. UNCHANGED tasks
      /\ \A j \in Jobs : /\ jobs'[j].request = jobs[j].request
                         /\ jobs'[j].status \in {jobs[j].status, "deleted"}
  BY DEF DeleteWorkspace, JobsInv, JobRows
<1> QED
  BY <1>1, PlansUntouched

\* A step of a task leaves other jobs alone, and completes a plan only if there is one.
LEMMA ProgressKeepsPlans ==
  ASSUME PlansInv, JobsInv, NEW j \in Jobs, RunTask(j)
  PROVE  PlansInv'
<1>1. /\ jobs' \in {jobs} \cup {Saved(j, status) : status \in {"working", "completed", "failed"}}
      /\ \E stage \in Stages : tasks' = [tasks EXCEPT ![j] = stage]
  BY DEF RunTask, StartTask, Transcribed, Generated, StartGrounded, StartRecommendation,
         StartTranscription, StartPlan, Accepted, Advance, Settle, Stages
<1>2. \A k \in Jobs \ {j} : jobs'[k] = jobs[k] /\ tasks'[k] = tasks[k]
  BY <1>1 DEF Saved, JobsInv
<1>3. jobs'[j].request = jobs[j].request
  BY <1>1 DEF Saved, JobsInv, JobRows
<1>4. ASSUME jobs[j].request.task = "khota"
      PROVE  /\ tasks'[j] = "none"
             /\ jobs'[j].status = "completed" => HasPlan(jobs[j].request.plan)
  <2>1. tasks[j] = "created" /\ StartPlan(j)
    BY <1>4 DEF PlansInv, RunTask, StartTask, Transcribed, Generated, StartGrounded,
                StartRecommendation, StartTranscription
  <2>2. tasks'[j] = "none"
    BY <2>1 DEF StartPlan, Settle, JobsInv
  <2>3. CASE HasPlan(jobs[j].request.plan)
    BY <2>2, <2>3
  <2>4. CASE ~HasPlan(jobs[j].request.plan)
    <3>1. jobs' = Saved(j, "failed") /\ jobs[j].status # "completed"
      BY <2>1, <2>4 DEF StartPlan, Settle, JobsInv, UnsettledHasTask, Unsettled
    <3>2. jobs'[j].status # "completed"
      BY <3>1 DEF Saved, JobsInv, JobRows
    <3> QED
      BY <2>2, <3>2
  <2> QED
    BY <2>3, <2>4
<1> QED
  BY <1>2, <1>3, <1>4 DEF PlansInv

LEMMA RunTaskIsSafe ==
  ASSUME IInv, NEW j \in Jobs, RunTask(j)
  PROVE  IInv'
<1>1. UNCHANGED <<stored, lost, strays, missing, faults>> /\ tasks[j] # "none"
  BY DEF RunTask, StartTask, Transcribed, Generated
<1>2. \/ \E stage \in {"transcribing", "generating"} :
           \/ Advance(j, stage)
           \/ tasks' = [tasks EXCEPT ![j] = stage] /\ UNCHANGED jobs
      \/ \E status \in {"completed", "failed"} : Settle(j, status)
  BY DEF RunTask, StartTask, Transcribed, Generated, StartGrounded, StartRecommendation,
         StartTranscription, StartPlan, Accepted
<1> QED
  BY <1>1, <1>2, FilesUntouched, ProgressKeepsJobs, ProgressKeepsPlans DEF IInv, stored

\* Whatever leaves the jobs alone, with their tasks or without.
LEMMA PlansStay ==
  ASSUME PlansInv, JobsInv, UNCHANGED jobs,
         UNCHANGED tasks \/ Restart \/ \E j \in Jobs : tasks' = [tasks EXCEPT ![j] = "none"]
  PROVE  PlansInv'
<1>1. \A j \in Jobs : tasks'[j] \in {tasks[j], "none"}
  BY DEF Restart, JobsInv
<1> QED
  BY <1>1, PlansUntouched

LEMMA NextIsSafe == IInv /\ [Next]_vars => IInv'
<1> SUFFICES ASSUME IInv, [Next]_vars PROVE IInv'
  OBVIOUS
<1> USE DEF IInv, Faulty
<1>1. ASSUME NEW ws \in Workspaces, OpenWorkspace(ws) PROVE IInv'
  BY <1>1, JobsUntouched, PlansStay DEF OpenWorkspace, FilesInv, FilesMatchRows
<1>2. ASSUME NEW ws \in Workspaces, DeleteWorkspace(ws) PROVE IInv'
  BY <1>2, DeletionKeepsFiles, DeletionKeepsJobs, DeletionKeepsPlans DEF DeleteWorkspace
<1>3. ASSUME NEW ws \in Workspaces, DeleteFails(ws) PROVE IInv'
  BY <1>3, BrokenDeletionKeepsFiles, JobsUntouched, PlansStay DEF DeleteFails
<1>4. ASSUME NEW ws \in Workspaces, DieInDelete(ws) PROVE IInv'
  BY <1>4, BrokenDeletionKeepsFiles, RestartKeepsJobs, PlansStay DEF DieInDelete
<1>5. ASSUME NEW ws \in Workspaces, NEW content \in Contents, Upload(ws, content) PROVE IInv'
  BY <1>5, UploadKeepsFiles, JobsUntouched, PlansStay DEF Upload, StoreUpload
<1>6. ASSUME NEW ws \in Workspaces, NEW content \in Contents, UploadFails(ws, content) PROVE IInv'
  BY <1>6, FailedUploadKeepsFiles, JobsUntouched, PlansStay DEF UploadFails
<1>7. ASSUME NEW ws \in Workspaces, NEW content \in Contents, DieInUpload(ws, content) PROVE IInv'
  BY <1>7, FailedUploadKeepsFiles, RestartKeepsJobs, PlansStay DEF DieInUpload
<1>8. ASSUME NEW j \in Jobs, NEW ws \in Workspaces, NEW request \in Requests,
             CreateRun(j, ws, request)
      PROVE  IInv'
  <2>1. FilesInv' /\ faults' \in Nat
    BY <1>8 DEF CreateRun, FilesInv, FilesMatchRows
  <2> QED
    BY <1>8, <2>1, CreationKeepsJobs, CreationKeepsPlans
<1>9. ASSUME NEW j \in Jobs, RunTask(j) PROVE IInv'
  BY <1>9, RunTaskIsSafe
<1>10. ASSUME NEW j \in Jobs, StatusNotSaved(j) PROVE IInv'
  <2>1. FilesInv'
    BY <1>10, FilesUntouched DEF StatusNotSaved
  <2>2. JobsInv'
    BY <1>10, LossKeepsJobs
  <2>3. faults' \in Nat
    BY <1>10 DEF StatusNotSaved
  <2>4. PlansInv'
    BY <1>10, PlansStay DEF StatusNotSaved
  <2> QED
    BY <2>1, <2>2, <2>3, <2>4
<1>11. ASSUME NEW j \in Jobs, SaveTranscript(j) PROVE IInv'
  <2>1. jobs[j].ws \in Workspaces /\ Transcript \in Contents
    BY LabAssumption DEF JobsInv, JobRows
  <2> QED
    BY <1>11, <2>1, UploadKeepsFiles, JobsUntouched, PlansStay DEF SaveTranscript, StoreUpload
<1>12. CASE Die
  BY <1>12, FilesUntouched, RestartKeepsJobs, PlansStay DEF Die, stored
<1>13. CASE UNCHANGED vars
  BY <1>13, FilesUntouched, JobsUntouched, PlansStay DEF vars, stored
<1> QED
  BY <1>1, <1>2, <1>3, <1>4, <1>5, <1>6, <1>7, <1>8, <1>9, <1>10, <1>11, <1>12, <1>13 DEF Next

(***************************************************************************)
(* The theorems                                                            *)
(***************************************************************************)
\* Files agree with rows and tasks with jobs in every reachable state of the Lab.
THEOREM LabInvariance == Spec => []IInv
BY InitIsOK, NextIsSafe, PTL DEF Spec

\* Type correctness of the Lab.
THEOREM LabTypeCorrect == Spec => []TypeOK
<1>1. IInv => TypeOK
  BY DEF IInv, FilesInv, JobsInv, TypeOK, SourceRows, JobRows
<1> QED
  BY <1>1, LabInvariance, PTL

\* Only a fault leaves a job unsettled that no task works on.
THEOREM UnsettledJobsHaveTasks == Spec => []UnsettledHasTask
BY LabInvariance, PTL DEF IInv, JobsInv

\* Only a death or a failed deletion separates a file from its row, and no workspace
\* stores one content twice.
THEOREM FilesAgreeWithRows == Spec => []FilesMatchRows
BY LabInvariance, PTL DEF IInv, FilesInv

\* Nothing comes back to a workspace that was deleted while its jobs ran.
THEOREM DeletedStaysDeleted == Spec => []RowsHaveWorkspace
<1>1. IInv => RowsHaveWorkspace
  BY DEF IInv, FilesInv, JobsInv, RowsHaveWorkspace
<1> QED
  BY <1>1, LabInvariance, PTL

\* A study plan that is shown keeps every constraint of its request, uses all days and
\* minutes that are left, and shares them evenly among subjects and topics.
THEOREM PlansAreSound == Spec => []PlansKeepConstraints
<1>1. ASSUME IInv, NEW j \in Jobs,
             jobs[j].request.task = "khota", jobs[j].status = "completed"
      PROVE  LET request == jobs[j].request.plan
                 topics == IF jobs[j].request.source = NoSource THEN <<>> ELSE Sections
                 plan == BuildPlanDays(request, topics)
             IN  plan # <<>> /\ HardConstraints(request, plan) /\ FairPlan(request, topics, plan)
  <2> DEFINE request == jobs[j].request.plan
             topics == IF jobs[j].request.source = NoSource THEN <<>> ELSE Sections
  <2>1. request \in Plans
    BY <1>1 DEF IInv, JobsInv, JobRows, Requests
  <2>2. ValidRequest(request)
    BY <2>1, LabAssumption
  <2>3. topics \in Seq(STRING)
    <3>1. Sections \in Seq(STRING)
      BY LabAssumption
    <3>2. <<>> \in Seq(STRING)
      OBVIOUS
    <3> QED
      BY <3>1, <3>2
  <2>4. HasPlan(request)
    BY <1>1 DEF IInv, PlansInv
  <2> HIDE DEF request, topics
  <2>5. /\ BuildPlanDays(request, topics) # <<>>
        /\ HardConstraints(request, BuildPlanDays(request, topics))
        /\ FairPlan(request, topics, BuildPlanDays(request, topics))
    BY <2>2, <2>3, <2>4, PlansHaveDays, PlansAreHard, PlansAreFair
  <2> QED
    BY <2>5 DEF request, topics
<1>2. IInv => PlansKeepConstraints
  BY <1>1 DEF PlansKeepConstraints
<1> QED
  BY <1>2, LabInvariance, PTL
================================================================================
