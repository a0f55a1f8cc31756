----------------------------- MODULE Induction ------------------------------
(***************************************************************************)
(* Induction over the natural numbers, stated for sets of numbers and for  *)
(* functions: what is said of every number is said of the least number for *)
(* which it fails, and a function that calls itself on later arguments     *)
(* exists.  The proofs about queues and lists rest on these lemmas.        *)
(***************************************************************************)
EXTENDS Integers, FiniteSetTheorems, TLAPS

(* A set of numbers that is not empty has a least one.                     *)
LEMMA LeastNumber ==
    ASSUME NEW C \in SUBSET Nat, C # {}
    PROVE  \E m \in C : \A k \in C : m <= k
<1> DEFINE I == {0..n : n \in C}
<1>1. I \subseteq FiniteSubsetsOf(Nat)
  <2>1. \A n \in C : IsFiniteSet(0..n) /\ 0..n \in SUBSET Nat
    BY FS_Interval
  <2> QED BY <2>1 DEF FiniteSubsetsOf
<1>2. I # {}
  OBVIOUS
<1>3. PICK x \in I : \A y \in I : <<y, x>> \notin StrictSubsetOrdering(Nat)
  <2> HIDE DEF I
  <2>1. IsWellFoundedOn(StrictSubsetOrdering(Nat), FiniteSubsetsOf(Nat))
    BY FS_StrictSubsetOrderingWellFounded
  <2> QED BY <1>1, <1>2, <2>1, WFMin
<1>4. PICK m \in C : x = 0..m
  OBVIOUS
<1>5. ASSUME NEW k \in C, k < m PROVE FALSE
  <2>1. 0..k \subseteq 0..m /\ m \notin 0..k /\ m \in 0..m
    BY <1>5
  <2>2. 0..k \in SUBSET Nat /\ 0..m \in SUBSET Nat /\ 0..k # 0..m
    BY <2>1
  <2>3. <<0..k, x>> \in StrictSubsetOrdering(Nat)
    BY <2>1, <2>2, <1>4 DEF StrictSubsetOrdering
  <2> QED BY <2>3, <1>3
<1> QED BY <1>5

(* A set of numbers up to n that is not empty has a greatest one.          *)
LEMMA GreatestNumber ==
    ASSUME NEW n \in Nat, NEW C \in SUBSET (0..n), C # {}
    PROVE  \E m \in C : \A k \in C : k <= m
<1> DEFINE D == {n - k : k \in C}
<1>1. \A k \in C : k \in Nat /\ k <= n /\ n - k \in Nat
  OBVIOUS
<1>2. D \in SUBSET Nat /\ D # {}
  BY <1>1
<1>3. PICK l \in D : \A j \in D : l <= j
  <2> HIDE DEF D
  <2> QED BY <1>2, LeastNumber
<1>4. PICK m \in C : l = n - m
  OBVIOUS
<1>5. \A k \in C : n - m <= n - k
  BY <1>3, <1>4
<1>6. \A k \in C : k <= m
  BY <1>1, <1>5
<1> QED BY <1>6

(* What holds of 0, and of every number up to n after one it holds of,     *)
(* holds of n.                                                             *)
LEMMA Induct ==
    ASSUME NEW n \in Nat, NEW H \in SUBSET Nat, 0 \in H,
           \A m \in 0..(n - 1) : m \in H => m + 1 \in H
    PROVE  n \in H
<1> SUFFICES ASSUME n \notin H PROVE FALSE
  OBVIOUS
<1> DEFINE C == (0..n) \ H
<1>1. C \in SUBSET Nat /\ C # {}
  OBVIOUS
<1>2. PICK m \in C : \A k \in C : m <= k
  BY <1>1, LeastNumber
<1>3. m # 0 /\ m - 1 \in 0..(n - 1) /\ m - 1 \in H
  BY <1>2
<1> QED BY <1>3, <1>2

(* What holds of a, and of every number up to b after one it holds of,     *)
(* holds from a to b.                                                      *)
LEMMA InductFrom ==
    ASSUME NEW a \in Int, NEW b \in Int, NEW H, a \in H,
           \A v \in a..(b - 1) : v \in H => v + 1 \in H
    PROVE  \A v \in a..b : v \in H
<1> SUFFICES ASSUME NEW v \in a..b PROVE v \in H
  OBVIOUS
<1> DEFINE G == {m \in Nat : a + m \in H}
<1>1. v - a \in Nat /\ 0 \in G /\ G \in SUBSET Nat
  OBVIOUS
<1>2. ASSUME NEW m \in 0..(v - a - 1), m \in G PROVE m + 1 \in G
  <2>1. a + m \in a..(b - 1) /\ a + m \in H /\ (a + m) + 1 = a + (m + 1)
    BY <1>2
  <2> QED BY <2>1
<1>3. v - a \in G
  <2> HIDE DEF G
  <2> QED BY <1>1, <1>2, Induct
<1>4. a + (v - a) = v
  OBVIOUS
<1> QED BY <1>3, <1>4

(* A finite set of numbers that is not empty has a greatest one.           *)
LEMMA GreatestOfFinite ==
    ASSUME NEW C \in SUBSET Int, IsFiniteSet(C), C # {}
    PROVE  \E m \in C : \A k \in C : k <= m
<1> DEFINE Above(k) == {c \in C : c > k}
           F == {Above(k) : k \in C}
<1>1. F \subseteq FiniteSubsetsOf(C)
  <2>1. FiniteSubsetsOf(C) = SUBSET C
    BY FS_FiniteSubsetsOfFinite
  <2> QED BY <2>1
<1>2. F # {}
  OBVIOUS
<1>3. PICK x \in F : \A y \in F : <<y, x>> \notin StrictSubsetOrdering(C)
  <2> HIDE DEF F
  <2>1. IsWellFoundedOn(StrictSubsetOrdering(C), FiniteSubsetsOf(C))
    BY FS_StrictSubsetOrderingWellFounded
  <2> QED BY <1>1, <1>2, <2>1, WFMin
<1>4. PICK m \in C : x = Above(m)
  OBVIOUS
<1>5. ASSUME NEW k \in C, m < k PROVE FALSE
  <2>1. Above(k) \subseteq Above(m) /\ k \in Above(m) /\ k \notin Above(k)
    <3>1. k \in Int /\ m \in Int
      OBVIOUS
    <3>2. \A c \in C : c \in Int /\ (c > k => c > m)
      BY <1>5, <3>1
    <3>3. ~(k > k) /\ k > m
      BY <1>5, <3>1
    <3> QED BY <3>2, <3>3
  <2>2. Above(k) \in SUBSET C /\ Above(m) \in SUBSET C /\ Above(k) \in F
    OBVIOUS
  <2> HIDE DEF Above
  <2>3. <<Above(k), x>> \in StrictSubsetOrdering(C)
    BY <2>1, <2>2, <1>4 DEF StrictSubsetOrdering
  <2> QED BY <2>2, <2>3, <1>3
<1> QED BY <1>5

-----------------------------------------------------------------------------
(* A function that calls itself, at the places in bad, on a later place:   *)
(* the loop "while the place is bad, go on to the next".                   *)
Follows(f, n, bad, next) ==
    f = [k \in 0..n |-> IF k \in bad THEN f[next[k]] ELSE k]

LEMMA FollowsExists ==
    ASSUME NEW n \in Nat, NEW bad, NEW next,
           \A k \in bad \cap (0..n) : next[k] \in k + 1 .. n
    PROVE  \E f : Follows(f, n, bad, next)
<1> DEFINE From(f, m) == f = [k \in m..n |-> IF k \in bad THEN f[next[k]] ELSE k]
           H == {m \in Nat : m <= n + 1 /\ \E f : From(f, n + 1 - m)}
<1>1. 0 \in H
  <2> DEFINE e == [k \in (n + 1)..n |-> k]
  <2>1. (n + 1)..n = {}
    OBVIOUS
  <2>2. From(e, n + 1)
    BY <2>1
  <2>3. n + 1 - 0 = n + 1
    OBVIOUS
  <2> HIDE DEF From, e
  <2> QED BY <2>2, <2>3
<1>2. ASSUME NEW m \in 0..n, m \in H PROVE m + 1 \in H
  <2> DEFINE s == n - m
  <2>1. s \in 0..n /\ n + 1 - m = s + 1 /\ n + 1 - (m + 1) = s
    OBVIOUS
  <2>2. PICK f : From(f, s + 1)
    <3> HIDE DEF From
    <3> QED BY <1>2, <2>1
  <2> DEFINE g == [k \in s..n |-> IF k = s THEN IF s \in bad THEN f[next[s]] ELSE s
                                  ELSE f[k]]
             w == [k \in s..n |-> IF k \in bad THEN g[next[k]] ELSE k]
  <2>3. ASSUME NEW k \in s..n PROVE g[k] = w[k]
    <3> HIDE DEF s
    <3>1. ASSUME k \in bad PROVE g[next[k]] = f[next[k]]
      <4>1. next[k] \in k + 1 .. n
        BY <2>1, <3>1
      <4>2. next[k] \in s..n /\ next[k] # s
        BY <2>1, <4>1
      <4> QED BY <4>2
    <3>2. CASE k = s
      BY <3>1, <3>2
    <3>3. CASE k # s
      <4>1. k \in (s + 1)..n
        BY <2>1, <3>3
      <4>2. f[k] = IF k \in bad THEN f[next[k]] ELSE k
        BY <2>2, <4>1
      <4> QED BY <3>1, <3>3, <4>2
    <3> QED BY <3>2, <3>3
  <2>4. g = w
    <3> HIDE DEF s
    <3>1. \A k \in s..n : g[k] = w[k]
      BY <2>3
    <3> QED BY <3>1
  <2>5. From(g, s)
    BY <2>4
  <2> HIDE DEF From, g, s
  <2>6. m + 1 \in Nat /\ m + 1 <= n + 1
    OBVIOUS
  <2>7. From(g, n + 1 - (m + 1))
    BY <2>1, <2>5
  <2> QED BY <2>6, <2>7
<1>3. n + 1 \in H
  <2> HIDE DEF H
  <2>1. \A m \in 0..(n + 1 - 1) : m \in H => m + 1 \in H
    BY <1>2
  <2>2. H \in SUBSET Nat
    BY DEF H
  <2> QED BY <1>1, <2>1, <2>2, Induct
<1>4. PICK f : From(f, 0)
  <2>1. n + 1 - (n + 1) = 0
    OBVIOUS
  <2> HIDE DEF From
  <2> QED BY <1>3, <2>1
<1> QED BY <1>4 DEF Follows

(* The loop ends at a place, not before the one it begins at, that is not  *)
(* bad.                                                                    *)
LEMMA FollowsEnds ==
    ASSUME NEW n \in Nat, NEW bad, NEW next, NEW f, Follows(f, n, bad, next),
           \A k \in bad \cap (0..n) : next[k] \in k + 1 .. n
    PROVE  \A k \in 0..n : f[k] \in k..n /\ f[k] \notin bad
<1> DEFINE C == {k \in 0..n : ~(f[k] \in k..n /\ f[k] \notin bad)}
<1> SUFFICES ASSUME C # {} PROVE FALSE
  OBVIOUS
<1>1. PICK m \in C : \A k \in C : k <= m
  <2>1. C \in SUBSET (0..n)
    OBVIOUS
  <2> HIDE DEF C
  <2> QED BY <2>1, GreatestNumber
<1>2. f[m] = IF m \in bad THEN f[next[m]] ELSE m
  BY DEF Follows
<1>3. m \in bad
  BY <1>2
<1>4. next[m] \in m + 1 .. n /\ next[m] \in 0..n
  BY <1>3
<1>5. next[m] \notin C
  BY <1>1, <1>4
<1>6. f[next[m]] \in next[m]..n /\ f[next[m]] \notin bad
  BY <1>4, <1>5
<1> QED BY <1>2, <1>3, <1>4, <1>6
-----------------------------------------------------------------------------
(* A function whose value at a place is made from that at the place before *)
(* it exists.                                                              *)
Steps(f, a, b, s, T) ==
    \A v \in a..b : f[v] = IF v = a THEN s ELSE T[<<f[v - 1], v>>]

LEMMA StepsExist ==
    ASSUME NEW P, NEW a \in Int, NEW b \in Int, a <= b, NEW s \in P,
           NEW T \in [P \X (a + 1 .. b) -> P]
    PROVE  \E f \in [a..b -> P] : Steps(f, a, b, s, T)
<1> DEFINE From(f, m) ==
              /\ f \in [a..m -> P]
              /\ \A v \in a..m : f[v] = IF v = a THEN s ELSE T[<<f[v - 1], v>>]
           H == {m \in a..b : \E f : From(f, m)}
<1>1. a \in H
  <2> DEFINE f == [v \in a..a |-> s]
  <2>1. From(f, a)
    OBVIOUS
  <2> HIDE DEF From, f
  <2> QED BY <2>1
<1>2. ASSUME NEW m \in a..(b - 1), m \in H PROVE m + 1 \in H
  <2>1. PICK f : From(f, m)
    BY <1>2
  <2> DEFINE t == T[<<f[m], m + 1>>]
             g == [v \in a..(m + 1) |-> IF v = m + 1 THEN t ELSE f[v]]
  <2>2. f[m] \in P /\ m + 1 \in a + 1 .. b
    BY <2>1
  <2>3. t \in P
    BY <2>2
  <2>4. g \in [a..(m + 1) -> P]
    <3>1. \A v \in a..(m + 1) : v # m + 1 => v \in a..m
      OBVIOUS
    <3> HIDE DEF t
    <3> QED BY <2>1, <2>3, <3>1
  <2>5. ASSUME NEW v \in a..(m + 1)
        PROVE  g[v] = IF v = a THEN s ELSE T[<<g[v - 1], v>>]
    <3>1. CASE v = m + 1
      <4>1. v # a /\ m \in a..(m + 1) /\ m # m + 1 /\ v - 1 = m
        BY <3>1
      <4> QED BY <3>1, <4>1
    <3>2. CASE v # m + 1
      <4>1. v \in a..m /\ (v # a => v - 1 \in a..(m + 1) /\ v - 1 # m + 1)
        BY <3>2
      <4>2. g[v] = f[v] /\ (v # a => g[v - 1] = f[v - 1])
        BY <3>2, <4>1
      <4> HIDE DEF g
      <4> QED BY <4>1, <4>2, <2>1
    <3> QED BY <3>1, <3>2
  <2>6. From(g, m + 1)
    BY <2>4, <2>5
  <2> HIDE DEF From
  <2> QED BY <2>6
<1>3. b \in H
  <2> HIDE DEF H
  <2>1. \A v \in a..(b - 1) : v \in H => v + 1 \in H
    BY <1>2
  <2>2. \A v \in a..b : v \in H
    BY <1>1, <2>1, InductFrom
  <2> QED BY <2>2
<1>4. PICK f : From(f, b)
  BY <1>3
<1> QED BY <1>4 DEF Steps
=============================================================================
