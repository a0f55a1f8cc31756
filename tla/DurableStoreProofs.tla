------------------------- MODULE DurableStoreProofs -------------------------
(***************************************************************************)
(* Proofs about DurableStore, for any docs, batch size, number of puts,    *)
(* failing writes and restarts.                                            *)
(*                                                                         *)
(* The inductive invariant is stated of a queue, a batch, an inventory, a  *)
(* storage and the answers given as parameters: a step of the store is the *)
(* end of one batch followed by the beginning of the next, and between the *)
(* two the invariant holds of values that no state shows.                  *)
(***************************************************************************)
EXTENDS DurableStore, SequenceTheorems, Induction

VersionsOrNone == Versions \cup {Unborn}

PutRecords == [d : Docs, v : VersionsOrNone]

Answers == {"no", "early", "ok", "error", "refused", "lost"}

Numbers(ps) == 1..Len(ps)

Types(ps, q, b, inv, dk, tl) ==
    /\ sc \in Scenarios
    /\ ps \in Seq(PutRecords)
    /\ q \in Seq(Numbers(ps)) /\ b \in Seq(Numbers(ps))
    /\ inv \in [Docs -> VersionsOrNone]
    /\ dk \in [meta : [Docs -> VersionsOrNone], docs : [Docs -> 0..Len(ps)]]
    /\ \A d \in Docs : dk.docs[d] # 0 => ps[dk.docs[d]].d = d
    /\ tl \in Seq(Answers) /\ Len(tl) = Len(ps)

(* The numbers of the puts rise from the storage to the batch, and from    *)
(* the batch to the queue and through it.                                  *)
Rising(q, b, dk) ==
    /\ \A i, j \in 1..Len(q) : i < j => q[i] < q[j]
    /\ \A i \in 1..Len(b) : \A j \in 1..Len(q) : b[i] < q[j]
    /\ \A d \in Docs :
          /\ \A i \in 1..Len(b) : dk.docs[d] < b[i]
          /\ \A i \in 1..Len(q) : dk.docs[d] < q[i]

(* A batch fits, has no two records of a doc, and is in the inventory.     *)
Taken(ps, b, inv) ==
    /\ Len(b) <= MaxBatchSize
    /\ \A i, j \in 1..Len(b) : ps[b[i]].d = ps[b[j]].d => i = j
    /\ \A i \in 1..Len(b) : inv[ps[b[i]].d] = ps[b[i]].v

(* Neither inventory is behind the storage, also when writes fail.         *)
NotBehind(ps, inv, dk) ==
    \A d \in Docs : dk.docs[d] # 0 =>
        /\ ~Regression(ps[dk.docs[d]].v, inv[d])
        /\ ~Regression(ps[dk.docs[d]].v, dk.meta[d])

Within(q, n) == \E i \in 1..Len(q) : q[i] = n

Dismissed == {"error", "refused", "lost"}

(* Where a put is: told that it is not stored, stored, in the queue or in  *)
(* the batch.                                                              *)
Accounted(ps, q, b, dk, tl) ==
    \A n \in Numbers(ps) :
        /\ tl[n] = "ok" => dk.docs[ps[n].d] >= n
        /\ \/ tl[n] \in Dismissed
           \/ dk.docs[ps[n].d] >= n
           \/ Within(q, n)
           \/ Within(b, n)

(* The stored inventory says what is stored, and that in memory differs    *)
(* from it only by the batch.                                              *)
Matches(ps, b, inv, dk) ==
    sc.fails \/ \A d \in Docs :
        /\ dk.meta[d] = IF dk.docs[d] = 0 THEN Unborn ELSE ps[dk.docs[d]].v
        /\ (\A i \in 1..Len(b) : ps[b[i]].d # d) => inv[d] = dk.meta[d]

Sound(ps, q, b, inv, dk, tl) ==
    /\ Types(ps, q, b, inv, dk, tl)
    /\ Rising(q, b, dk)
    /\ Taken(ps, b, inv)
    /\ NotBehind(ps, inv, dk)
    /\ Accounted(ps, q, b, dk, tl)
    /\ Matches(ps, b, inv, dk)

Promises ==
    /\ promised \in 0..Len(puts)
    /\ waiting \in Seq(0..Len(puts))
    /\ sc.fails \/ WrittenUpTo(promised)

DInv ==
    /\ Sound(puts, queue, batch, inventory, disk, told)
    /\ auto \in BOOLEAN
    /\ Promises

-----------------------------------------------------------------------------
(* To take no record back is an order on versions, with null below all.    *)
LEMMA NoRegressionTransitive ==
    ASSUME sc \in Scenarios,
           NEW u \in VersionsOrNone, NEW v \in VersionsOrNone, NEW w \in VersionsOrNone,
           ~Regression(u, v), ~Regression(v, w)
    PROVE  ~Regression(u, w)
<1>1. sc.versions \in Nat /\ Unborn \notin Nat
  BY BoundsAssumption
<1>2. \A x \in VersionsOrNone : x # Unborn => x \in Nat
  BY <1>1 DEF VersionsOrNone, Versions
<1>3. CASE u = Unborn
  BY <1>3 DEF Regression
<1>4. CASE u # Unborn
  <2>1. u \in Nat /\ v # Unborn /\ v \in Nat /\ ~(v < u)
    BY <1>2, <1>4 DEF Regression
  <2>2. w # Unborn /\ w \in Nat /\ ~(w < v)
    BY <1>2, <2>1 DEF Regression
  <2> QED BY <2>1, <2>2 DEF Regression
<1> QED BY <1>3, <1>4

(* A batch is a beginning of the queue that fits and has no two records of *)
(* a doc; it is empty only if the queue is.                                *)
LEMMA BatchIs ==
    ASSUME NEW q, NEW all, Len(q) \in Nat
    PROVE  \E k \in 0..Len(q) :
              /\ Batch(q, all) = SubSeq(q, 1, k)
              /\ k <= MaxBatchSize
              /\ \A i, j \in 1..k : all[q[i]].d = all[q[j]].d => i = j
              /\ Len(q) # 0 => k # 0
<1> DEFINE Distinct(k) == \A i, j \in 1..k : all[q[i]].d = all[q[j]].d => i = j
           sizes == {k \in 0..Len(q) : k <= MaxBatchSize /\ Distinct(k)}
           k == CHOOSE k \in sizes : \A l \in sizes : l <= k
<1>1. Batch(q, all) = SubSeq(q, 1, k)
  BY DEF Batch
<1>2. 0 \in sizes
  BY BatchAssumption
<1>3. Len(q) # 0 => 1 \in sizes
  BY BatchAssumption
<1>4. \E x \in sizes : \A l \in sizes : l <= x
  <2>1. sizes \in SUBSET (0..Len(q)) /\ sizes # {}
    BY <1>2
  <2> HIDE DEF sizes
  <2> QED BY <2>1, GreatestNumber
<1>5. k \in sizes /\ \A l \in sizes : l <= k
  <2> HIDE DEF sizes
  <2> QED BY <1>4
<1>6. k \in 0..Len(q) /\ k <= MaxBatchSize /\ Distinct(k)
  <2> HIDE DEF k
  <2> QED BY <1>5
<1>7. Len(q) # 0 => k # 0
  <2> HIDE DEF k, sizes
  <2> QED BY <1>3, <1>5
<1> HIDE DEF k, sizes
<1> QED BY <1>1, <1>6, <1>7

(* What is behind the first k of the queue.                                *)
LEMMA Behind ==
    ASSUME NEW S, NEW q \in Seq(S), NEW k \in 0..Len(q)
    PROVE  /\ SubSeq(q, k + 1, Len(q)) \in Seq(S)
           /\ Len(SubSeq(q, k + 1, Len(q))) = Len(q) - k
           /\ \A i \in 1..(Len(q) - k) : SubSeq(q, k + 1, Len(q))[i] = q[k + i]
           /\ Len(q) \in Nat
<1>1. Len(q) \in Nat /\ \A i \in k + 1 .. Len(q) : q[i] \in S
  BY LenProperties, ElementOfSeq
<1>2. /\ SubSeq(q, k + 1, Len(q)) \in Seq(S)
      /\ Len(SubSeq(q, k + 1, Len(q))) = IF k + 1 <= Len(q) THEN Len(q) - (k + 1) + 1 ELSE 0
      /\ \A i \in 1..(Len(q) - (k + 1) + 1) : SubSeq(q, k + 1, Len(q))[i] = q[k + 1 + i - 1]
  BY <1>1, SubSeqProperties
<1> QED BY <1>1, <1>2

(* The first k of the queue.                                               *)
LEMMA InFront ==
    ASSUME NEW S, NEW q \in Seq(S), NEW k \in 0..Len(q)
    PROVE  /\ SubSeq(q, 1, k) \in Seq(S)
           /\ Len(SubSeq(q, 1, k)) = k
           /\ \A i \in 1..k : SubSeq(q, 1, k)[i] = q[i]
           /\ Len(q) \in Nat
<1>1. Len(q) \in Nat /\ \A i \in 1..k : q[i] \in S
  BY LenProperties, ElementOfSeq
<1>2. /\ SubSeq(q, 1, k) \in Seq(S)
      /\ Len(SubSeq(q, 1, k)) = IF 1 <= k THEN k - 1 + 1 ELSE 0
      /\ \A i \in 1..(k - 1 + 1) : SubSeq(q, 1, k)[i] = q[1 + i - 1]
  BY <1>1, SubSeqProperties
<1> QED BY <1>1, <1>2

(* The batch taken when k records of the queue are gone.                   *)
At(q, all, k) == Batch(SubSeq(q, k + 1, Len(q)), all)

LEMMA AtIs ==
    ASSUME NEW S, NEW q \in Seq(S), NEW all, NEW k \in 0..Len(q)
    PROVE  /\ At(q, all, k) \in Seq(S)
           /\ Len(At(q, all, k)) \in 0..(Len(q) - k) /\ Len(At(q, all, k)) <= MaxBatchSize
           /\ \A i \in 1..Len(At(q, all, k)) : At(q, all, k)[i] = q[k + i]
           /\ \A i, j \in 1..Len(At(q, all, k)) :
                 all[At(q, all, k)[i]].d = all[At(q, all, k)[j]].d => i = j
           /\ At(q, all, k) = <<>> => k = Len(q)
<1> DEFINE s == SubSeq(q, k + 1, Len(q))
<1>1. /\ s \in Seq(S) /\ Len(s) = Len(q) - k /\ Len(q) \in Nat
      /\ \A i \in 1..(Len(q) - k) : s[i] = q[k + i]
  BY Behind
<1> HIDE DEF s
<1>2. Len(s) \in Nat
  BY <1>1
<1>3. PICK m \in 0..Len(s) :
         /\ Batch(s, all) = SubSeq(s, 1, m)
         /\ m <= MaxBatchSize
         /\ \A i, j \in 1..m : all[s[i]].d = all[s[j]].d => i = j
         /\ Len(s) # 0 => m # 0
  BY <1>2, BatchIs
<1>4. At(q, all, k) = SubSeq(s, 1, m)
  BY <1>3 DEF At, s
<1>5. /\ SubSeq(s, 1, m) \in Seq(S) /\ Len(SubSeq(s, 1, m)) = m
      /\ \A i \in 1..m : SubSeq(s, 1, m)[i] = s[i]
  BY <1>1, InFront
<1> DEFINE a == At(q, all, k)
<1>6. a \in Seq(S) /\ Len(a) = m /\ \A i \in 1..m : a[i] = s[i]
  BY <1>4, <1>5
<1> HIDE DEF a
<1>7. \A i \in 1..m : a[i] = q[k + i]
  BY <1>1, <1>6
<1>8. \A i, j \in 1..m : all[a[i]].d = all[a[j]].d => i = j
  BY <1>3, <1>6
<1>9. a = <<>> => k = Len(q)
  BY <1>1, <1>3, <1>6
<1> QED BY <1>1, <1>3, <1>6, <1>7, <1>8, <1>9 DEF a

(* What is thrown away ends before a batch that is good, or with the queue. *)
LEMMA WastedIs ==
    ASSUME NEW S, NEW q \in Seq(S), NEW all
    PROVE  /\ Wasted(q, all) \in 0..Len(q)
           /\ ~Rejected(At(q, all, Wasted(q, all)), all)
<1> DEFINE n == Len(q)
           Stop(k) == At(q, all, k) = <<>> \/ ~Rejected(At(q, all, k), all)
           bad == {k \in 0..n : ~Stop(k)}
           next == [k \in bad |-> k + Len(At(q, all, k))]
           Loop(f) == f = [k \in 0..n |-> IF Stop(k) THEN k ELSE f[k + Len(At(q, all, k))]]
           from == CHOOSE f : Loop(f)
<1>1. Wasted(q, all) = from[0]
  BY DEF Wasted, At
<1>2. n \in Nat
  BY LenProperties
<1>3. ASSUME NEW k \in bad \cap (0..n) PROVE next[k] \in k + 1 .. n
  <2>1. k \in 0..n /\ k \in bad /\ At(q, all, k) # <<>>
    OBVIOUS
  <2>2. At(q, all, k) \in Seq(S) /\ Len(At(q, all, k)) \in 0..(n - k)
    BY <2>1, AtIs
  <2>3. Len(At(q, all, k)) # 0
    BY <2>1, <2>2, EmptySeq
  <2>4. next[k] = k + Len(At(q, all, k))
    BY <2>1
  <2> HIDE DEF next, bad, n
  <2> QED BY <1>2, <2>1, <2>2, <2>3, <2>4
<1>4. ASSUME NEW f PROVE Loop(f) <=> Follows(f, n, bad, next)
  <2> DEFINE g == [k \in 0..n |-> IF Stop(k) THEN k ELSE f[k + Len(At(q, all, k))]]
             h == [k \in 0..n |-> IF k \in bad THEN f[next[k]] ELSE k]
  <2>1. ASSUME NEW k \in 0..n PROVE g[k] = h[k]
    <3> HIDE DEF n, Stop
    <3> QED OBVIOUS
  <2>2. g = h
    <3>1. \A k \in 0..n : g[k] = h[k]
      BY <2>1
    <3> HIDE DEF n, Stop, bad, next
    <3> QED BY <3>1
  <2>3. (f = g) <=> (f = h)
    BY <2>2
  <2> HIDE DEF n, Stop, bad, next
  <2> QED BY <2>3 DEF Follows
<1>5. Loop(from)
  <2>1. \E f : Follows(f, n, bad, next)
    <3> HIDE DEF n, bad, next
    <3> QED BY <1>2, <1>3, FollowsExists
  <2>2. \E f : Loop(f)
    <3> HIDE DEF Loop, n, bad, next
    <3> QED BY <2>1, <1>4
  <2> HIDE DEF Loop
  <2> QED BY <2>2
<1>6. from[0] \in 0..n /\ from[0] \notin bad
  <2>1. Follows(from, n, bad, next)
    <3> HIDE DEF Loop, n, bad, next, from
    <3> QED BY <1>4, <1>5
  <2>2. \A k \in 0..n : from[k] \in k..n /\ from[k] \notin bad
    <3> HIDE DEF Loop, n, bad, next, from
    <3> QED BY <1>2, <1>3, <2>1, FollowsEnds
  <2> HIDE DEF from, bad, n
  <2> QED BY <1>2, <2>2
<1>7. Stop(from[0])
  <2> HIDE DEF from, Stop, n
  <2> QED BY <1>6
<1>8. At(q, all, from[0]) = <<>> => ~Rejected(At(q, all, from[0]), all)
  <2>1. DOMAIN <<>> = {}
    OBVIOUS
  <2> HIDE DEF from
  <2> QED BY <2>1 DEF Rejected
<1> HIDE DEF from
<1> QED BY <1>1, <1>6, <1>7, <1>8

(* Who is in what is refused learns so, if anybody.                        *)
LEMMA RefuseIs ==
    ASSUME NEW answers \in Seq(Answers), NEW S, NEW ns \in Seq(S)
    PROVE  /\ Refuse(answers, ns) \in Seq(Answers)
           /\ Len(Refuse(answers, ns)) = Len(answers)
           /\ \A n \in 1..Len(answers) :
                 IF Within(ns, n) THEN Refuse(answers, ns)[n] \in {"error", "refused"}
                 ELSE Refuse(answers, ns)[n] = answers[n]
<1> DEFINE r == Refuse(answers, ns)
<1>1. /\ Len(answers) \in Nat /\ DOMAIN answers = 1..Len(answers)
      /\ \A n \in 1..Len(answers) : answers[n] \in Answers
      /\ DOMAIN ns = 1..Len(ns)
  BY LenProperties, ElementOfSeq
<1>2. \A n : n \in ToSet(ns) <=> Within(ns, n)
  BY <1>1 DEF ToSet, Within
<1>3. r = [n \in 1..Len(answers) |->
             IF ~Within(ns, n) THEN answers[n]
             ELSE IF answers[n] = "early" THEN "refused" ELSE "error"]
  BY <1>1, <1>2 DEF Refuse
<1> HIDE DEF r
<1>4. r \in [1..Len(answers) -> Answers]
  BY <1>1, <1>3 DEF Answers
<1>5. r \in Seq(Answers) /\ Len(r) = Len(answers)
  BY <1>1, <1>4, SeqDef, LenProperties
<1>6. \A n \in 1..Len(answers) :
         IF Within(ns, n) THEN r[n] \in {"error", "refused"} ELSE r[n] = answers[n]
  BY <1>3
<1> QED BY <1>5, <1>6 DEF r

(* What _putNextBatchFromQueue does: the first k records are refused, and  *)
(* the m after them are the batch, whose versions the inventory takes.     *)
Begins(q, answers, all, k, m) ==
    /\ Len(batch') = m /\ m <= MaxBatchSize
    /\ \A i \in 1..m : batch'[i] = q[k + i]
    /\ Len(queue') = Len(q) - (k + m)
    /\ \A i \in 1..(Len(q) - (k + m)) : queue'[i] = q[k + m + i]
    /\ \A i, j \in 1..m : all[q[k + i]].d = all[q[k + j]].d => i = j
    /\ \A i \in 1..m : ~Regression(inventory[all[q[k + i]].d], all[q[k + i]].v)
    /\ told' = Refuse(answers, SubSeq(q, 1, k))
    /\ inventory' = [d \in Docs |-> inventory'[d]]
    /\ \A d \in Docs :
          (\A i \in 1..m : all[q[k + i]].d # d) => inventory'[d] = inventory[d]
    /\ \A i \in 1..m :
          all[q[k + i]].d \in Docs => inventory'[all[q[k + i]].d] = all[q[k + i]].v

LEMMA BeginIs ==
    ASSUME NEW S, NEW q \in Seq(S), NEW answers, NEW all, Begin(q, answers, all)
    PROVE  /\ queue' \in Seq(S) /\ batch' \in Seq(S)
           /\ \E k \in 0..Len(q) : \E m \in 0..(Len(q) - k) : Begins(q, answers, all, k, m)
<1> DEFINE k == Wasted(q, all)
           b == At(q, all, k)
           m == Len(b)
<1>1. /\ queue' = SubSeq(q, k + Len(b) + 1, Len(q))
      /\ batch' = b
      /\ told' = Refuse(answers, SubSeq(q, 1, k))
      /\ inventory' = [d \in Docs |->
                          IF \E i \in DOMAIN b : all[b[i]].d = d
                          THEN all[CHOOSE n \in ToSet(b) : all[n].d = d].v
                          ELSE inventory[d]]
  <2> DEFINE F(j, a) ==
               /\ queue' = SubSeq(q, j + Len(a) + 1, Len(q))
               /\ batch' = a
               /\ told' = Refuse(answers, SubSeq(q, 1, j))
               /\ inventory' = [d \in Docs |->
                                   IF \E i \in DOMAIN a : all[a[i]].d = d
                                   THEN all[CHOOSE n \in ToSet(a) : all[n].d = d].v
                                   ELSE inventory[d]]
  <2>1. \E j \in {Wasted(q, all)} : \E a \in {At(q, all, j)} : F(j, a)
    BY Zenon DEF Begin, At
  <2>2. F(Wasted(q, all), At(q, all, Wasted(q, all)))
    <3> HIDE DEF F
    <3> QED BY Zenon, <2>1
  <2> QED BY Zenon, <2>2
<1>2. k \in 0..Len(q) /\ ~Rejected(b, all)
  BY WastedIs
<1> HIDE DEF k
<1>3. /\ b \in Seq(S) /\ m \in 0..(Len(q) - k) /\ m <= MaxBatchSize
      /\ \A i \in 1..m : b[i] = q[k + i]
      /\ \A i, j \in 1..m : all[b[i]].d = all[b[j]].d => i = j
  BY <1>2, AtIs
<1> HIDE DEF b
<1>4. DOMAIN b = 1..m /\ m \in Nat /\ Len(q) \in Nat
  BY <1>3, LenProperties
<1>5. k + m \in 0..Len(q)
  BY <1>2, <1>3, <1>4
<1> HIDE DEF m
<1>6. \A i \in 1..m : ~Regression(inventory[all[b[i]].d], all[b[i]].v)
  BY <1>2, <1>4 DEF Rejected
<1>7. /\ queue' \in Seq(S) /\ Len(queue') = Len(q) - (k + m)
      /\ \A i \in 1..(Len(q) - (k + m)) : queue'[i] = q[k + m + i]
  <2>1. queue' = SubSeq(q, (k + m) + 1, Len(q))
    BY <1>1 DEF m
  <2> QED BY <1>5, <2>1, Behind
<1>8. ASSUME NEW d \in Docs, \A i \in 1..m : all[b[i]].d # d
      PROVE  inventory'[d] = inventory[d]
  BY <1>1, <1>4, <1>8
<1>9. ASSUME NEW i \in 1..m, all[b[i]].d \in Docs
      PROVE  inventory'[all[b[i]].d] = all[b[i]].v
  <2> DEFINE d == all[b[i]].d
             c == CHOOSE n \in ToSet(b) : all[n].d = d
  <2>1. b[i] \in ToSet(b)
    BY <1>4 DEF ToSet
  <2>2. c \in ToSet(b) /\ all[c].d = d
    BY <2>1
  <2> HIDE DEF c
  <2>3. PICK j \in 1..m : c = b[j]
    BY <1>4, <2>2 DEF ToSet
  <2>4. j = i
    BY <1>3, <2>2, <2>3
  <2>5. inventory'[d] = all[c].v
    BY <1>1, <1>4, <1>9 DEF c
  <2> QED BY <2>3, <2>4, <2>5
<1>10. inventory' = [d \in Docs |-> inventory'[d]]
  BY <1>1
<1>11. Len(batch') = m /\ batch' \in Seq(S) /\ \A i \in 1..m : batch'[i] = q[k + i]
  BY <1>1, <1>3 DEF m
<1>12. /\ \A i, j \in 1..m : all[q[k + i]].d = all[q[k + j]].d => i = j
       /\ \A i \in 1..m : ~Regression(inventory[all[q[k + i]].d], all[q[k + i]].v)
       /\ \A d \in Docs :
             (\A i \in 1..m : all[q[k + i]].d # d) => inventory'[d] = inventory[d]
       /\ \A i \in 1..m :
             all[q[k + i]].d \in Docs => inventory'[all[q[k + i]].d] = all[q[k + i]].v
  <2>1. \A i \in 1..m : b[i] = q[k + i]
    BY <1>3
  <2>2. \A i, j \in 1..m : all[q[k + i]].d = all[q[k + j]].d => i = j
    BY <1>3, <2>1
  <2>3. \A i \in 1..m : ~Regression(inventory[all[q[k + i]].d], all[q[k + i]].v)
    BY <1>6, <2>1
  <2>4. ASSUME NEW d \in Docs, \A i \in 1..m : all[q[k + i]].d # d
        PROVE  inventory'[d] = inventory[d]
    BY <1>8, <2>1, <2>4
  <2>5. ASSUME NEW i \in 1..m, all[q[k + i]].d \in Docs
        PROVE  inventory'[all[q[k + i]].d] = all[q[k + i]].v
    BY <1>9, <2>1, <2>5
  <2> QED BY <2>2, <2>3, <2>4, <2>5
<1>13. Begins(q, answers, all, k, m)
  BY <1>1, <1>3, <1>7, <1>10, <1>11, <1>12 DEF Begins
<1> QED BY <1>2, <1>3, <1>7, <1>11, <1>13

LEMMA TypesAre ==
    ASSUME NEW ps, NEW q, NEW b, NEW inv, NEW dk, NEW tl, Types(ps, q, b, inv, dk, tl)
    PROVE  /\ Len(ps) \in Nat /\ Len(q) \in Nat /\ Len(b) \in Nat
           /\ DOMAIN tl = Numbers(ps) /\ DOMAIN ps = Numbers(ps)
           /\ DOMAIN b = 1..Len(b) /\ DOMAIN q = 1..Len(q)
           /\ \A n \in Numbers(ps) : /\ n \in Nat /\ n # 0 /\ ps[n] \in PutRecords
                                     /\ ps[n].d \in Docs /\ ps[n].v \in VersionsOrNone
                                     /\ tl[n] \in Answers
           /\ \A i \in 1..Len(q) : q[i] \in Numbers(ps) /\ q[i] \in Nat
           /\ \A i \in 1..Len(b) : b[i] \in Numbers(ps) /\ b[i] \in Nat
           /\ \A d \in Docs : /\ inv[d] \in VersionsOrNone
                              /\ dk.meta[d] \in VersionsOrNone
                              /\ dk.docs[d] \in 0..Len(ps) /\ dk.docs[d] \in Nat
                              /\ dk.docs[d] # 0 => dk.docs[d] \in Numbers(ps)
<1>1. /\ Len(ps) \in Nat /\ Len(q) \in Nat /\ Len(b) \in Nat
      /\ DOMAIN tl = Numbers(ps) /\ DOMAIN ps = Numbers(ps)
      /\ DOMAIN b = 1..Len(b) /\ DOMAIN q = 1..Len(q)
  BY LenProperties DEF Types, Numbers
<1>2. \A n \in Numbers(ps) : n \in Nat /\ n # 0
  BY <1>1 DEF Numbers
<1>3. \A n \in Numbers(ps) : ps[n] \in PutRecords /\ tl[n] \in Answers
  BY ElementOfSeq DEF Types, Numbers
<1>4. \A n \in Numbers(ps) : ps[n].d \in Docs /\ ps[n].v \in VersionsOrNone
  BY <1>3 DEF PutRecords
<1>5. \A i \in 1..Len(q) : q[i] \in Numbers(ps)
  BY ElementOfSeq DEF Types
<1>6. \A i \in 1..Len(b) : b[i] \in Numbers(ps)
  BY ElementOfSeq DEF Types
<1>7. \A d \in Docs : /\ inv[d] \in VersionsOrNone
                      /\ dk.meta[d] \in VersionsOrNone
                      /\ dk.docs[d] \in 0..Len(ps)
  BY DEF Types
<1>8. \A d \in Docs : /\ dk.docs[d] \in Nat
                      /\ dk.docs[d] # 0 => dk.docs[d] \in Numbers(ps)
  BY <1>1, <1>7 DEF Numbers
<1> QED BY <1>1, <1>2, <1>3, <1>4, <1>5, <1>6, <1>7, <1>8

-----------------------------------------------------------------------------
(* Between two batches: what holds with no batch holds with the next one.  *)
LEMMA BeginSound ==
    ASSUME NEW q, NEW answers, NEW all, NEW dk,
           Sound(all, q, <<>>, inventory, dk, answers), Begin(q, answers, all)
    PROVE  Sound(all, queue', batch', inventory', dk, told')
<1>1. /\ Types(all, q, <<>>, inventory, dk, answers)
      /\ q \in Seq(Numbers(all)) /\ answers \in Seq(Answers) /\ Len(answers) = Len(all)
      /\ sc \in Scenarios
  BY DEF Sound, Types
<1>2. /\ queue' \in Seq(Numbers(all)) /\ batch' \in Seq(Numbers(all))
      /\ \E k \in 0..Len(q) : \E m \in 0..(Len(q) - k) : Begins(q, answers, all, k, m)
  BY <1>1, BeginIs
<1>a. PICK k \in 0..Len(q) : \E m \in 0..(Len(q) - k) : Begins(q, answers, all, k, m)
  BY <1>2
<1>3. PICK m \in 0..(Len(q) - k) : Begins(q, answers, all, k, m)
  BY <1>a
<1>4. /\ Len(q) \in Nat /\ k \in Nat /\ m \in Nat /\ k + m <= Len(q)
      /\ \A n \in Numbers(all) : /\ n \in Nat /\ all[n].d \in Docs
                                 /\ all[n].v \in VersionsOrNone
      /\ \A i \in 1..Len(q) : q[i] \in Numbers(all) /\ q[i] \in Nat
      /\ \A d \in Docs : /\ inventory[d] \in VersionsOrNone /\ dk.docs[d] \in Nat
                         /\ dk.docs[d] # 0 => dk.docs[d] \in Numbers(all)
      /\ Len(<<>>) = 0
  BY <1>1, TypesAre
<1>5. \A i \in 1..m : k + i \in 1..Len(q)
  BY <1>4
<1>6. /\ Len(batch') = m /\ m <= MaxBatchSize
      /\ \A i \in 1..m : batch'[i] = q[k + i]
      /\ \A i, j \in 1..m : all[q[k + i]].d = all[q[k + j]].d => i = j
      /\ \A i \in 1..m : ~Regression(inventory[all[q[k + i]].d], all[q[k + i]].v)
      /\ \A d \in Docs : (\A i \in 1..m : all[q[k + i]].d # d) => inventory'[d] = inventory[d]
      /\ \A i \in 1..m : inventory'[all[q[k + i]].d] = all[q[k + i]].v
      /\ inventory' = [d \in Docs |-> inventory'[d]]
  BY <1>3, <1>4, <1>5 DEF Begins
<1>7. /\ Len(queue') = Len(q) - (k + m)
      /\ \A i \in 1..Len(queue') : queue'[i] = q[k + m + i] /\ k + m + i \in 1..Len(q)
  BY <1>3, <1>4 DEF Begins
<1>8. /\ told' \in Seq(Answers) /\ Len(told') = Len(answers)
      /\ \A n \in Numbers(all) :
            IF \E i \in 1..k : q[i] = n THEN told'[n] \in {"error", "refused"}
            ELSE told'[n] = answers[n]
  <2> DEFINE ns == SubSeq(q, 1, k)
  <2>1. told' = Refuse(answers, ns)
    BY <1>3 DEF Begins
  <2>2. /\ ns \in Seq(Numbers(all)) /\ Len(ns) = k
        /\ \A i \in 1..k : ns[i] = q[i]
    BY <1>1, InFront
  <2> HIDE DEF ns
  <2>3. /\ told' \in Seq(Answers) /\ Len(told') = Len(answers)
        /\ \A n \in 1..Len(answers) :
              IF Within(ns, n) THEN told'[n] \in {"error", "refused"}
              ELSE told'[n] = answers[n]
    BY <1>1, <2>1, <2>2, RefuseIs
  <2>4. \A n : Within(ns, n) <=> \E i \in 1..k : q[i] = n
    BY <2>2 DEF Within
  <2> QED BY <1>1, <2>3, <2>4 DEF Numbers
<1>9. \A d \in Docs : \/ inventory'[d] = inventory[d]
                      \/ \E i \in 1..m : /\ all[q[k + i]].d = d
                                         /\ inventory'[d] = all[q[k + i]].v
  <2> TAKE d \in Docs
  <2>1. CASE \A i \in 1..m : all[q[k + i]].d # d
    BY <1>6, <2>1
  <2>2. ASSUME NEW i \in 1..m, all[q[k + i]].d = d
        PROVE  inventory'[d] = all[q[k + i]].v
    BY <1>6, <2>2
  <2> QED BY <2>1, <2>2
<1>10. \A d \in Docs : inventory'[d] \in VersionsOrNone
  BY <1>4, <1>5, <1>9
<1>11. Types(all, queue', batch', inventory', dk, told')
  <2>1. inventory' \in [Docs -> VersionsOrNone]
    BY <1>6, <1>10
  <2> QED BY <1>1, <1>2, <1>8, <2>1 DEF Types
<1>12. Rising(queue', batch', dk)
  <2>1. /\ \A i, j \in 1..Len(q) : i < j => q[i] < q[j]
        /\ \A d \in Docs : \A i \in 1..Len(q) : dk.docs[d] < q[i]
    BY DEF Sound, Rising
  <2>2. \A i, j \in 1..Len(queue') : i < j => queue'[i] < queue'[j]
    <3> TAKE i, j \in 1..Len(queue')
    <3>1. i < j => k + m + i < k + m + j
      BY <1>4, <1>7
    <3> QED BY <1>7, <2>1, <3>1
  <2>3. \A i \in 1..Len(batch') : \A j \in 1..Len(queue') : batch'[i] < queue'[j]
    <3> TAKE i \in 1..Len(batch')
    <3> TAKE j \in 1..Len(queue')
    <3>1. i \in 1..m /\ j \in Nat /\ j >= 1 /\ k + i < k + m + j
      BY <1>4, <1>6, <1>7
    <3>2. q[k + i] < q[k + m + j]
      BY <1>5, <1>7, <2>1, <3>1
    <3> QED BY <1>6, <1>7, <3>1, <3>2
  <2>4. \A d \in Docs : /\ \A i \in 1..Len(batch') : dk.docs[d] < batch'[i]
                        /\ \A i \in 1..Len(queue') : dk.docs[d] < queue'[i]
    BY <1>5, <1>6, <1>7, <2>1
  <2> QED BY <2>2, <2>3, <2>4 DEF Rising
<1>13. Taken(all, batch', inventory')
  <2>1. \A i, j \in 1..Len(batch') : all[batch'[i]].d = all[batch'[j]].d => i = j
    <3> TAKE i, j \in 1..Len(batch')
    <3>1. i \in 1..m /\ j \in 1..m /\ batch'[i] = q[k + i] /\ batch'[j] = q[k + j]
      BY <1>6
    <3>2. all[q[k + i]].d = all[q[k + j]].d => i = j
      BY <1>6, <3>1
    <3> QED BY <3>1, <3>2
  <2>2. \A i \in 1..Len(batch') : inventory'[all[batch'[i]].d] = all[batch'[i]].v
    <3> TAKE i \in 1..Len(batch')
    <3>1. i \in 1..m /\ batch'[i] = q[k + i]
      BY <1>6
    <3>2. inventory'[all[q[k + i]].d] = all[q[k + i]].v
      BY <1>6, <3>1
    <3> QED BY <3>1, <3>2
  <2> QED BY <1>6, <2>1, <2>2 DEF Taken
<1>14. NotBehind(all, inventory', dk)
  <2> SUFFICES ASSUME NEW d \in Docs, dk.docs[d] # 0
               PROVE  /\ ~Regression(all[dk.docs[d]].v, inventory'[d])
                      /\ ~Regression(all[dk.docs[d]].v, dk.meta[d])
    BY DEF NotBehind
  <2>1. /\ ~Regression(all[dk.docs[d]].v, inventory[d])
        /\ ~Regression(all[dk.docs[d]].v, dk.meta[d])
    BY DEF Sound, NotBehind
  <2>2. ~Regression(inventory[d], inventory'[d]) \/ inventory'[d] = inventory[d]
    BY <1>6, <1>9
  <2>3. all[dk.docs[d]].v \in VersionsOrNone
    BY <1>4
  <2>4. ~Regression(all[dk.docs[d]].v, inventory'[d])
    BY <1>1, <1>4, <1>10, <2>1, <2>2, <2>3, NoRegressionTransitive
  <2> QED BY <2>1, <2>4
<1>15. Accounted(all, queue', batch', dk, told')
  <2> SUFFICES ASSUME NEW n \in Numbers(all)
               PROVE  /\ told'[n] = "ok" => dk.docs[all[n].d] >= n
                      /\ \/ told'[n] \in Dismissed
                         \/ dk.docs[all[n].d] >= n
                         \/ Within(queue', n)
                         \/ Within(batch', n)
    BY DEF Accounted
  <2>1. /\ answers[n] = "ok" => dk.docs[all[n].d] >= n
        /\ \/ answers[n] \in Dismissed
           \/ dk.docs[all[n].d] >= n
           \/ \E i \in 1..Len(q) : q[i] = n
    BY <1>4 DEF Sound, Accounted, Within
  <2>2. \/ told'[n] \in {"error", "refused"}
        \/ told'[n] = answers[n] /\ ~ \E i \in 1..k : q[i] = n
    BY <1>8
  <2>3. ASSUME NEW i \in 1..Len(q), q[i] = n, ~ \E j \in 1..k : q[j] = n
        PROVE  Within(queue', n) \/ Within(batch', n)
    <3>1. i > k
      BY <1>4, <2>3
    <3>2. CASE i <= k + m
      <4>1. i - k \in 1..m /\ k + (i - k) = i
        BY <1>4, <3>1, <3>2
      <4>2. batch'[i - k] = n
        BY <1>6, <2>3, <4>1
      <4> QED BY <1>6, <4>1, <4>2 DEF Within
    <3>3. CASE i > k + m
      <4>1. i - (k + m) \in 1..Len(queue') /\ k + m + (i - (k + m)) = i
        BY <1>4, <1>7, <3>3
      <4>2. queue'[i - (k + m)] = n
        BY <1>7, <2>3, <4>1
      <4> QED BY <4>1, <4>2 DEF Within
    <3> QED BY <1>4, <3>2, <3>3
  <2> QED BY <2>1, <2>2, <2>3 DEF Dismissed
<1>16. Matches(all, batch', inventory', dk)
  <2>1. sc.fails \/ \A d \in Docs :
          /\ dk.meta[d] = IF dk.docs[d] = 0 THEN Unborn ELSE all[dk.docs[d]].v
          /\ inventory[d] = dk.meta[d]
    BY <1>4 DEF Sound, Matches
  <2>2. \A d \in Docs : (\A i \in 1..Len(batch') : all[batch'[i]].d # d)
                           => inventory'[d] = inventory[d]
    <3> TAKE d \in Docs
    <3> HAVE \A i \in 1..Len(batch') : all[batch'[i]].d # d
    <3>1. \A i \in 1..m : all[q[k + i]].d # d
      BY <1>6
    <3> QED BY <1>6, <3>1
  <2> QED BY <2>1, <2>2 DEF Matches
<1> QED BY <1>11, <1>12, <1>13, <1>14, <1>15, <1>16 DEF Sound

(* The storage after a batch is written: of every doc in the batch its     *)
(* record, of the others what it had.                                      *)
LEMMA StoreIs ==
    ASSUME Sound(puts, queue, batch, inventory, disk, told)
    PROVE  /\ Store(batch) = [meta |-> inventory, docs |-> Store(batch).docs]
           /\ Store(batch).docs = [d \in Docs |-> Store(batch).docs[d]]
           /\ \A d \in Docs : (\A i \in 1..Len(batch) : DocOf(batch[i]) # d)
                                 => Store(batch).docs[d] = disk.docs[d]
           /\ \A i \in 1..Len(batch) : Store(batch).docs[DocOf(batch[i])] = batch[i]
<1> DEFINE docs == [d \in Docs |->
                      IF \E i \in DOMAIN batch : DocOf(batch[i]) = d
                      THEN CHOOSE n \in ToSet(batch) : DocOf(n) = d
                      ELSE disk.docs[d]]
<1>1. Store(batch) = [meta |-> inventory, docs |-> docs]
  BY DEF Store
<1>2. Types(puts, queue, batch, inventory, disk, told) /\ Taken(puts, batch, inventory)
  BY DEF Sound
<1>3. /\ DOMAIN batch = 1..Len(batch)
      /\ \A i \in 1..Len(batch) : batch[i] \in Numbers(puts)
      /\ \A n \in Numbers(puts) : puts[n].d \in Docs
  BY <1>2, TypesAre
<1>4. \A i \in 1..Len(batch) : DocOf(batch[i]) \in Docs
  BY <1>3 DEF DocOf
<1>5. \A d \in Docs : (\A i \in 1..Len(batch) : DocOf(batch[i]) # d)
                         => docs[d] = disk.docs[d]
  BY <1>3
<1>6. ASSUME NEW i \in 1..Len(batch) PROVE docs[DocOf(batch[i])] = batch[i]
  <2> DEFINE d == DocOf(batch[i])
             c == CHOOSE n \in ToSet(batch) : DocOf(n) = d
  <2>1. batch[i] \in ToSet(batch)
    BY <1>3 DEF ToSet
  <2>2. c \in ToSet(batch) /\ DocOf(c) = d
    BY <2>1
  <2>3. docs[d] = c
    BY <1>3, <1>4
  <2> HIDE DEF c
  <2>4. PICK j \in 1..Len(batch) : c = batch[j]
    BY <1>3, <2>2 DEF ToSet
  <2>5. j = i
    BY <1>2, <2>2, <2>4 DEF Taken, DocOf
  <2> QED BY <2>3, <2>4, <2>5
<1>7. docs = [d \in Docs |-> docs[d]]
  OBVIOUS
<1>8. Store(batch).docs = docs
  BY <1>1
<1> HIDE DEF docs
<1> QED BY <1>1, <1>5, <1>6, <1>7, <1>8

(* The batch is written.                                                   *)
LEMMA StoreSound ==
    ASSUME Sound(puts, queue, batch, inventory, disk, told),
           NEW tl \in Seq(Answers), Len(tl) = Len(told),
           \A n \in Numbers(puts) : tl[n] = told[n] \/ Within(batch, n)
    PROVE  Sound(puts, queue, <<>>, inventory, Store(batch), tl)
<1> DEFINE dk == Store(batch)
<1>1. /\ Types(puts, queue, batch, inventory, disk, told)
      /\ Rising(queue, batch, disk) /\ Taken(puts, batch, inventory)
      /\ NotBehind(puts, inventory, disk)
      /\ Accounted(puts, queue, batch, disk, told)
      /\ Matches(puts, batch, inventory, disk)
  BY DEF Sound
<1>2. /\ Len(puts) \in Nat /\ Len(queue) \in Nat /\ Len(batch) \in Nat
      /\ \A n \in Numbers(puts) : /\ n \in Nat /\ n # 0 /\ puts[n].d \in Docs
                                  /\ puts[n].v \in VersionsOrNone
      /\ \A i \in 1..Len(queue) : queue[i] \in Nat
      /\ \A i \in 1..Len(batch) : batch[i] \in Numbers(puts) /\ batch[i] \in Nat
      /\ \A d \in Docs : disk.docs[d] \in 0..Len(puts) /\ disk.docs[d] \in Nat
  BY <1>1, TypesAre
<1>3. /\ dk = [meta |-> inventory, docs |-> dk.docs]
      /\ dk.docs = [d \in Docs |-> dk.docs[d]]
      /\ \A d \in Docs : (\A i \in 1..Len(batch) : puts[batch[i]].d # d)
                            => dk.docs[d] = disk.docs[d]
      /\ \A i \in 1..Len(batch) : dk.docs[puts[batch[i]].d] = batch[i]
  BY StoreIs DEF DocOf
<1>4. /\ <<>> \in Seq(Numbers(puts)) /\ Len(<<>>) = 0
  BY EmptySeq
<1> HIDE DEF dk
<1>5. dk.meta = inventory
  BY <1>3
<1>6. \A d \in Docs : \/ /\ dk.docs[d] = disk.docs[d]
                         /\ \A i \in 1..Len(batch) : puts[batch[i]].d # d
                      \/ \E i \in 1..Len(batch) : puts[batch[i]].d = d /\ dk.docs[d] = batch[i]
  <2> TAKE d \in Docs
  <2>1. CASE \A i \in 1..Len(batch) : puts[batch[i]].d # d
    BY <1>3, <2>1
  <2>2. ASSUME NEW i \in 1..Len(batch), puts[batch[i]].d = d
        PROVE  dk.docs[d] = batch[i]
    BY <1>3, <2>2
  <2> QED BY <2>1, <2>2
<1>7. \A d \in Docs : dk.docs[d] \in 0..Len(puts) /\ dk.docs[d] >= disk.docs[d]
  <2> TAKE d \in Docs
  <2>1. ASSUME NEW i \in 1..Len(batch), dk.docs[d] = batch[i]
        PROVE  dk.docs[d] \in 0..Len(puts) /\ dk.docs[d] >= disk.docs[d]
    <3>1. batch[i] \in 0..Len(puts)
      BY <1>2 DEF Numbers
    <3>2. disk.docs[d] < batch[i]
      BY <1>1 DEF Rising
    <3> QED BY <1>2, <2>1, <3>1, <3>2
  <2> QED BY <1>2, <1>6, <2>1
<1>8. Types(puts, queue, <<>>, inventory, dk, tl)
  <2>1. dk.docs \in [Docs -> 0..Len(puts)]
    BY <1>3, <1>7
  <2>2. inventory \in [Docs -> VersionsOrNone]
    BY <1>1 DEF Types
  <2>3. dk \in [meta : [Docs -> VersionsOrNone], docs : [Docs -> 0..Len(puts)]]
    BY <1>3, <2>1, <2>2
  <2>4. \A d \in Docs : dk.docs[d] # 0 => puts[dk.docs[d]].d = d
    BY <1>1, <1>6 DEF Types
  <2> QED BY <1>1, <1>4, <2>3, <2>4 DEF Types
<1>9. Rising(queue, <<>>, dk)
  <2>1. \A d \in Docs : \A j \in 1..Len(queue) : dk.docs[d] < queue[j]
    BY <1>1, <1>6 DEF Rising
  <2> QED BY <1>1, <1>4, <2>1 DEF Rising
<1>10. Taken(puts, <<>>, inventory)
  BY <1>4, BatchAssumption DEF Taken
<1>11. NotBehind(puts, inventory, dk)
  <2> SUFFICES ASSUME NEW d \in Docs, dk.docs[d] # 0
               PROVE  ~Regression(puts[dk.docs[d]].v, inventory[d])
    BY <1>5 DEF NotBehind
  <2>1. CASE dk.docs[d] = disk.docs[d]
    BY <1>1, <2>1 DEF NotBehind
  <2>2. ASSUME NEW i \in 1..Len(batch), puts[batch[i]].d = d, dk.docs[d] = batch[i]
        PROVE  ~Regression(puts[dk.docs[d]].v, inventory[d])
    <3>1. inventory[d] = puts[batch[i]].v /\ puts[batch[i]].v \in VersionsOrNone
      BY <1>1, <1>2, <2>2 DEF Taken
    <3>2. puts[batch[i]].v = Unborn \/ puts[batch[i]].v \in Nat
      BY <1>1, <3>1, BoundsAssumption DEF VersionsOrNone, Versions, Types
    <3> QED BY <2>2, <3>1, <3>2 DEF Regression
  <2> QED BY <1>6, <2>1, <2>2
<1>12. Accounted(puts, queue, <<>>, dk, tl)
  <2> SUFFICES ASSUME NEW n \in Numbers(puts)
               PROVE  /\ tl[n] = "ok" => dk.docs[puts[n].d] >= n
                      /\ \/ tl[n] \in Dismissed
                         \/ dk.docs[puts[n].d] >= n
                         \/ Within(queue, n)
    BY DEF Accounted
  <2>1. CASE Within(batch, n)
    <3>1. PICK i \in 1..Len(batch) : batch[i] = n
      BY <2>1 DEF Within
    <3>2. dk.docs[puts[n].d] = n /\ n \in Nat
      BY <1>2, <1>3, <3>1
    <3> QED BY <3>2
  <2>2. CASE ~Within(batch, n) /\ tl[n] = told[n]
    <3>1. /\ told[n] = "ok" => disk.docs[puts[n].d] >= n
          /\ \/ told[n] \in Dismissed
             \/ disk.docs[puts[n].d] >= n
             \/ Within(queue, n)
      BY <1>1, <2>2 DEF Accounted
    <3>2. disk.docs[puts[n].d] >= n => dk.docs[puts[n].d] >= n
      BY <1>2, <1>7
    <3> QED BY <2>2, <3>1, <3>2
  <2> QED BY <2>1, <2>2
<1>13. Matches(puts, <<>>, inventory, dk)
  <2> SUFFICES ASSUME ~sc.fails, NEW d \in Docs
               PROVE  inventory[d] = IF dk.docs[d] = 0 THEN Unborn ELSE puts[dk.docs[d]].v
    BY <1>5 DEF Matches
  <2>1. CASE /\ dk.docs[d] = disk.docs[d]
             /\ \A i \in 1..Len(batch) : puts[batch[i]].d # d
    BY <1>1, <2>1 DEF Matches
  <2>2. ASSUME NEW i \in 1..Len(batch), puts[batch[i]].d = d, dk.docs[d] = batch[i]
        PROVE  inventory[d] = puts[dk.docs[d]].v /\ dk.docs[d] # 0
    BY <1>1, <1>2, <2>2 DEF Taken
  <2> QED BY <1>6, <2>1, <2>2
<1> QED BY <1>8, <1>9, <1>10, <1>11, <1>12, <1>13 DEF Sound, dk

(* The storage never goes back to an earlier put.                          *)
LEMMA StoreRises ==
    ASSUME Sound(puts, queue, batch, inventory, disk, told), NEW d \in Docs
    PROVE  /\ Store(batch).docs[d] >= disk.docs[d]
           /\ disk.docs[d] # 0 =>
                ~Regression(puts[disk.docs[d]].v, puts[Store(batch).docs[d]].v)
<1>1. /\ Types(puts, queue, batch, inventory, disk, told)
      /\ Rising(queue, batch, disk) /\ Taken(puts, batch, inventory)
      /\ NotBehind(puts, inventory, disk)
  BY DEF Sound
<1>2. /\ disk.docs[d] \in Nat /\ (disk.docs[d] # 0 => disk.docs[d] \in Numbers(puts))
      /\ \A i \in 1..Len(batch) : batch[i] \in Nat
      /\ \A n \in Numbers(puts) : puts[n].v \in VersionsOrNone
  BY <1>1, TypesAre
<1>3. CASE \A i \in 1..Len(batch) : DocOf(batch[i]) # d
  <2>1. Store(batch).docs[d] = disk.docs[d]
    BY <1>3, StoreIs
  <2>2. \A v \in VersionsOrNone : ~Regression(v, v)
    BY <1>1, BoundsAssumption DEF VersionsOrNone, Versions, Types, Regression
  <2> QED BY <1>2, <2>1, <2>2
<1>4. ASSUME NEW i \in 1..Len(batch), DocOf(batch[i]) = d
      PROVE  /\ Store(batch).docs[d] >= disk.docs[d]
             /\ disk.docs[d] # 0 =>
                  ~Regression(puts[disk.docs[d]].v, puts[Store(batch).docs[d]].v)
  <2>1. Store(batch).docs[d] = batch[i]
    BY <1>4, StoreIs
  <2>2. disk.docs[d] < batch[i]
    BY <1>1 DEF Rising
  <2>3. inventory[d] = puts[batch[i]].v
    BY <1>1, <1>4 DEF Taken, DocOf
  <2>4. disk.docs[d] # 0 => ~Regression(puts[disk.docs[d]].v, inventory[d])
    BY <1>1 DEF NotBehind
  <2> QED BY <1>2, <2>1, <2>2, <2>3, <2>4
<1> QED BY <1>3, <1>4

(* The write of the batch fails.                                           *)
LEMMA FailSound ==
    ASSUME Sound(puts, queue, batch, inventory, disk, told), sc.fails,
           NEW tl \in Seq(Answers), Len(tl) = Len(told),
           \A n \in Numbers(puts) : IF Within(batch, n) THEN tl[n] \in {"error", "refused"}
                                    ELSE tl[n] = told[n]
    PROVE  Sound(puts, queue, <<>>, inventory, disk, tl)
<1>1. /\ Types(puts, queue, batch, inventory, disk, told)
      /\ Rising(queue, batch, disk) /\ NotBehind(puts, inventory, disk)
      /\ Accounted(puts, queue, batch, disk, told)
  BY DEF Sound
<1>2. /\ <<>> \in Seq(Numbers(puts)) /\ Len(<<>>) = 0
  BY EmptySeq
<1>3. Types(puts, queue, <<>>, inventory, disk, tl)
  BY <1>1, <1>2 DEF Types
<1>4. Rising(queue, <<>>, disk) /\ Taken(puts, <<>>, inventory)
  BY <1>1, <1>2, BatchAssumption DEF Rising, Taken
<1>5. Accounted(puts, queue, <<>>, disk, tl)
  BY <1>1 DEF Accounted, Dismissed
<1> QED BY <1>1, <1>3, <1>4, <1>5 DEF Sound, Matches

(* The application restarts with what is stored.                           *)
LEMMA RestartSound ==
    ASSUME NEW ps, NEW q, NEW b, NEW inv, NEW dk, NEW old,
           Sound(ps, q, b, inv, dk, old),
           NEW tl \in Seq(Answers), Len(tl) = Len(old),
           \A n \in Numbers(ps) : \/ tl[n] = "lost"
                                  \/ tl[n] = old[n] /\ ~Within(q, n) /\ ~Within(b, n)
    PROVE  Sound(ps, <<>>, <<>>, dk.meta, dk, tl)
<1>1. /\ Types(ps, q, b, inv, dk, old)
      /\ NotBehind(ps, inv, dk)
      /\ Accounted(ps, q, b, dk, old)
      /\ Matches(ps, b, inv, dk)
  BY DEF Sound
<1>2. /\ <<>> \in Seq(Numbers(ps)) /\ Len(<<>>) = 0
  BY EmptySeq
<1>3. Types(ps, <<>>, <<>>, dk.meta, dk, tl)
  BY <1>1, <1>2 DEF Types
<1>4. Rising(<<>>, <<>>, dk) /\ Taken(ps, <<>>, dk.meta)
  BY <1>2, BatchAssumption DEF Rising, Taken
<1>5. NotBehind(ps, dk.meta, dk)
  BY <1>1 DEF NotBehind
<1>6. Accounted(ps, <<>>, <<>>, dk, tl)
  BY <1>1 DEF Accounted, Dismissed
<1>7. Matches(ps, <<>>, dk.meta, dk)
  BY <1>1 DEF Matches
<1> QED BY <1>3, <1>4, <1>5, <1>6, <1>7 DEF Sound

(* Records are put: c of them, at the end of the queue.                    *)
LEMMA PutSound ==
    ASSUME Sound(puts, queue, batch, inventory, disk, told), NEW c \in Nat,
           NEW all \in Seq(PutRecords), Len(all) = Len(puts) + c,
           \A n \in 1..Len(puts) : all[n] = puts[n],
           NEW q \in Seq(Nat), Len(q) = Len(queue) + c,
           \A i \in 1..Len(queue) : q[i] = queue[i],
           \A i \in 1..c : q[Len(queue) + i] = Len(puts) + i,
           NEW tl \in Seq(Answers), Len(tl) = Len(told) + c,
           \A n \in 1..Len(puts) : tl[n] = told[n],
           \A i \in 1..c : tl[Len(puts) + i] \in {"no", "early"}
    PROVE  Sound(all, q, batch, inventory, disk, tl)
<1>1. /\ Types(puts, queue, batch, inventory, disk, told)
      /\ Rising(queue, batch, disk) /\ Taken(puts, batch, inventory)
      /\ NotBehind(puts, inventory, disk)
      /\ Accounted(puts, queue, batch, disk, told)
      /\ Matches(puts, batch, inventory, disk)
  BY DEF Sound
<1>2. /\ Len(puts) \in Nat /\ Len(queue) \in Nat /\ Len(batch) \in Nat
      /\ \A n \in Numbers(puts) : n \in Nat /\ puts[n].d \in Docs
      /\ \A i \in 1..Len(queue) : queue[i] \in Numbers(puts) /\ queue[i] \in Nat
      /\ \A i \in 1..Len(batch) : batch[i] \in Numbers(puts) /\ batch[i] \in Nat
      /\ \A d \in Docs : /\ disk.docs[d] \in 0..Len(puts) /\ disk.docs[d] \in Nat
                         /\ disk.docs[d] # 0 => disk.docs[d] \in Numbers(puts)
  BY <1>1, TypesAre
<1>3. \A n \in Numbers(puts) : /\ n \in Numbers(all) /\ n <= Len(puts)
                               /\ all[n] = puts[n] /\ tl[n] = told[n]
  BY <1>2 DEF Numbers
<1>4. \A i \in 1..Len(q) : \/ i \in 1..Len(queue) /\ q[i] = queue[i]
                           \/ i - Len(queue) \in 1..c /\ i > Len(queue) /\ q[i] = Len(puts) + (i - Len(queue))
  <2> TAKE i \in 1..Len(q)
  <2>1. CASE i <= Len(queue)
    <3>1. i \in 1..Len(queue)
      <4>1. Len(queue) \in Nat
        BY <1>2
      <4> QED BY <2>1, <4>1
    <3> QED BY <3>1
  <2>2. CASE i > Len(queue)
    <3> DEFINE j == i - Len(queue)
    <3>1. j \in 1..c /\ i = Len(queue) + j
      BY <1>2, <2>2
    <3> HIDE DEF j
    <3>2. q[Len(queue) + j] = Len(puts) + j
      BY <3>1
    <3> QED BY <2>2, <3>1, <3>2 DEF j
  <2> QED BY <1>2, <2>1, <2>2
<1>5. \A n \in Numbers(all) : \/ n \in Numbers(puts)
                              \/ /\ n - Len(puts) \in 1..c
                                 /\ tl[n] \in {"no", "early"} /\ Within(q, n)
  <2> TAKE n \in Numbers(all)
  <2>1. CASE n <= Len(puts)
    BY <1>2, <2>1 DEF Numbers
  <2>2. CASE n > Len(puts)
    <3> DEFINE j == n - Len(puts)
    <3>1. j \in 1..c /\ n = Len(puts) + j
      BY <1>2, <2>2 DEF Numbers
    <3> HIDE DEF j
    <3>a. Len(queue) + j \in 1..Len(q)
      BY <1>2, <3>1
    <3>2. q[Len(queue) + j] = n /\ Len(queue) + j \in 1..Len(q)
      BY <3>1, <3>a
    <3>3. tl[Len(puts) + j] \in {"no", "early"}
      BY <3>1
    <3> QED BY <3>1, <3>2, <3>3 DEF Within, j
  <2> QED BY <1>2, <2>1, <2>2 DEF Numbers
<1>6. \A i \in 1..Len(q) : q[i] \in Numbers(all)
  <2> TAKE i \in 1..Len(q)
  <2>1. CASE i \in 1..Len(queue) /\ q[i] = queue[i]
    BY <1>2, <1>3, <2>1
  <2>2. CASE i - Len(queue) \in 1..c /\ q[i] = Len(puts) + (i - Len(queue))
    <3>1. PICK j \in 1..c : q[i] = Len(puts) + j
      BY <2>2
    <3>2. q[i] \in 1..Len(all)
      <4>1. Len(puts) \in Nat /\ Len(all) = Len(puts) + c
        BY <1>2
      <4> QED BY <3>1, <4>1
    <3> QED BY <3>2 DEF Numbers
  <2> QED BY <1>4, <2>1, <2>2
<1>7. Types(all, q, batch, inventory, disk, tl)
  <2>1. q \in Seq(Numbers(all))
    <3>1. q \in [1..Len(q) -> Nat] /\ Len(q) \in Nat
      BY LenProperties
    <3>2. q \in [1..Len(q) -> Numbers(all)]
      BY <1>6, <3>1
    <3>3. q \in UNION {[1..n -> Numbers(all)] : n \in Nat}
      BY Zenon, <3>1, <3>2
    <3> QED BY Zenon, <3>3, SeqDef
  <2>2. batch \in Seq(Numbers(all))
    <3>1. batch \in Seq(Numbers(puts)) /\ Numbers(puts) \subseteq Numbers(all)
      BY <1>1, <1>3 DEF Types
    <3> QED BY <3>1, SeqMonotonic
  <2>3. disk \in [meta : [Docs -> VersionsOrNone], docs : [Docs -> 0..Len(all)]]
    <3>1. 0..Len(puts) \subseteq 0..Len(all)
      BY <1>2
    <3> QED BY <1>1, <3>1 DEF Types
  <2>4. \A d \in Docs : disk.docs[d] # 0 => all[disk.docs[d]].d = d
    BY <1>1, <1>2, <1>3 DEF Types
  <2>5. Len(tl) = Len(all)
    BY <1>1 DEF Types
  <2> QED BY <1>1, <2>1, <2>2, <2>3, <2>4, <2>5 DEF Types
<1>8. Rising(q, batch, disk)
  <2>1. \A i, j \in 1..Len(q) : i < j => q[i] < q[j]
    <3> TAKE i, j \in 1..Len(q)
    <3> HAVE i < j
    <3>1. CASE j \in 1..Len(queue)
      <4>1. i \in 1..Len(queue)
        BY <1>2, <3>1
      <4> QED BY <1>1, <3>1, <4>1 DEF Rising
    <3>2. CASE j > Len(queue) /\ i \in 1..Len(queue)
      <4>1. q[i] \in Nat /\ q[i] <= Len(puts)
        BY <1>2, <1>3, <3>2
      <4>2. q[j] = Len(puts) + (j - Len(queue)) /\ j - Len(queue) \in 1..c
        BY <1>2, <1>4, <3>2
      <4> QED BY <1>2, <4>1, <4>2
    <3>3. CASE j > Len(queue) /\ i > Len(queue)
      <4>1. q[i] = Len(puts) + (i - Len(queue)) /\ q[j] = Len(puts) + (j - Len(queue))
        <5>1. i \notin 1..Len(queue) /\ j \notin 1..Len(queue)
          BY <1>2, <3>3
        <5> QED BY <1>4, <5>1
      <4> QED BY <1>2, <4>1
    <3> QED BY <1>2, <1>4, <3>1, <3>2, <3>3
  <2>2. \A i \in 1..Len(batch) : \A j \in 1..Len(q) : batch[i] < q[j]
    <3> TAKE i \in 1..Len(batch)
    <3> TAKE j \in 1..Len(q)
    <3>1. batch[i] \in Nat /\ batch[i] <= Len(puts)
      BY <1>2, <1>3
    <3>2. CASE j \in 1..Len(queue)
      BY <1>1, <3>2 DEF Rising
    <3>3. CASE q[j] = Len(puts) + (j - Len(queue)) /\ j - Len(queue) \in 1..c
      <4>1. PICK k \in 1..c : q[j] = Len(puts) + k
        BY <3>3
      <4>2. Len(puts) \in Nat
        BY <1>2
      <4> QED BY <3>1, <4>1, <4>2
    <3> QED BY <1>4, <3>2, <3>3
  <2>3. \A d \in Docs : /\ \A i \in 1..Len(batch) : disk.docs[d] < batch[i]
                        /\ \A j \in 1..Len(q) : disk.docs[d] < q[j]
    <3> TAKE d \in Docs
    <3>1. \A i \in 1..Len(batch) : disk.docs[d] < batch[i]
      BY <1>1 DEF Rising
    <3>2. ASSUME NEW j \in 1..Len(q) PROVE disk.docs[d] < q[j]
      <4>1. CASE j \in 1..Len(queue)
        BY <1>1, <4>1 DEF Rising
      <4>2. CASE q[j] = Len(puts) + (j - Len(queue)) /\ j - Len(queue) \in 1..c
        <5>1. PICK k \in 1..c : q[j] = Len(puts) + k
          BY <4>2
        <5>2. Len(puts) \in Nat /\ disk.docs[d] \in 0..Len(puts)
          BY <1>2
        <5> QED BY <5>1, <5>2, SMTT(30)
      <4> QED BY <1>4, <4>1, <4>2
    <3> QED BY <3>1, <3>2
  <2> QED BY <2>1, <2>2, <2>3 DEF Rising
<1>9. Taken(all, batch, inventory)
  BY <1>1, <1>2, <1>3 DEF Taken
<1>10. NotBehind(all, inventory, disk)
  BY <1>1, <1>2, <1>3 DEF NotBehind
<1>11. Accounted(all, q, batch, disk, tl)
  <2>1. \A n \in Numbers(all) : Within(queue, n) => Within(q, n)
    <3> TAKE n \in Numbers(all)
    <3> HAVE Within(queue, n)
    <3>1. PICK i \in 1..Len(queue) : queue[i] = n
      BY DEF Within
    <3>2. i \in 1..Len(q) /\ q[i] = n
      BY <1>2, <3>1
    <3> QED BY <3>2 DEF Within
  <2>2. \A n \in Numbers(all) :
          /\ tl[n] = "ok" => disk.docs[all[n].d] >= n
          /\ \/ tl[n] \in Dismissed
             \/ disk.docs[all[n].d] >= n
             \/ Within(q, n)
             \/ Within(batch, n)
    <3> TAKE n \in Numbers(all)
    <3>1. CASE n \in Numbers(puts)
      BY <1>1, <1>3, <2>1, <3>1 DEF Accounted
    <3>2. CASE tl[n] \in {"no", "early"} /\ Within(q, n)
      BY <3>2
    <3> QED BY <1>5, <3>1, <3>2
  <2> QED BY <2>2 DEF Accounted
<1>12. Matches(all, batch, inventory, disk)
  <2> SUFFICES ASSUME ~sc.fails, NEW d \in Docs
               PROVE  /\ disk.meta[d] = IF disk.docs[d] = 0 THEN Unborn
                                        ELSE all[disk.docs[d]].v
                      /\ (\A i \in 1..Len(batch) : all[batch[i]].d # d)
                            => inventory[d] = disk.meta[d]
    BY DEF Matches
  <2>1. /\ disk.meta[d] = IF disk.docs[d] = 0 THEN Unborn ELSE puts[disk.docs[d]].v
        /\ (\A i \in 1..Len(batch) : puts[batch[i]].d # d) => inventory[d] = disk.meta[d]
    BY <1>1 DEF Matches
  <2>2. disk.docs[d] # 0 => all[disk.docs[d]] = puts[disk.docs[d]]
    BY <1>2, <1>3
  <2>3. \A i \in 1..Len(batch) : all[batch[i]] = puts[batch[i]]
    BY <1>2, <1>3
  <2> QED BY <2>1, <2>2, <2>3
<1> QED BY <1>7, <1>8, <1>9, <1>10, <1>11, <1>12 DEF Sound

-----------------------------------------------------------------------------
(* The parts of the steps.                                                 *)
LEMMA TellIs ==
    ASSUME NEW answers \in Seq(Answers), NEW S, NEW ns \in Seq(S), NEW a \in Answers
    PROVE  /\ Tell(answers, ns, a) \in Seq(Answers)
           /\ Len(Tell(answers, ns, a)) = Len(answers)
           /\ \A n \in 1..Len(answers) :
                 \/ Tell(answers, ns, a)[n] = answers[n]
                 \/ Within(ns, n) /\ Tell(answers, ns, a)[n] = a
<1> DEFINE r == Tell(answers, ns, a)
<1>1. /\ Len(answers) \in Nat /\ DOMAIN answers = 1..Len(answers)
      /\ \A n \in 1..Len(answers) : answers[n] \in Answers
      /\ DOMAIN ns = 1..Len(ns)
  BY LenProperties, ElementOfSeq
<1>2. \A n : n \in ToSet(ns) <=> Within(ns, n)
  BY <1>1 DEF ToSet, Within
<1>3. r = [n \in 1..Len(answers) |->
             IF Within(ns, n) /\ answers[n] # "early" THEN a ELSE answers[n]]
  BY <1>1, <1>2 DEF Tell
<1> HIDE DEF r
<1>4. r \in [1..Len(answers) -> Answers]
  BY <1>1, <1>3
<1>5. r \in Seq(Answers) /\ Len(r) = Len(answers)
  BY <1>1, <1>4, SeqDef, LenProperties
<1>6. \A n \in 1..Len(answers) : r[n] = answers[n] \/ (Within(ns, n) /\ r[n] = a)
  BY <1>3
<1> QED BY <1>5, <1>6 DEF r

LEMMA SetToSeqIs ==
    ASSUME NEW S, IsFiniteSet(S)
    PROVE  SetToSeq(S) \in Seq(S) /\ DOMAIN SetToSeq(S) = 1..Len(SetToSeq(S))
<1> DEFINE n == Cardinality(S)
           s == CHOOSE f \in [1..n -> S] : IsInjective(f)
<1>1. n \in Nat /\ \E f \in [1..n -> S] : IsInjective(f)
  BY FS_CardinalityType DEF ExistsBijection, Bijection, Injection
<1>2. SetToSeq(S) = s
  BY DEF SetToSeq
<1> HIDE DEF n
<1>3. s \in [1..n -> S]
  BY <1>1
<1> HIDE DEF s
<1>4. s \in Seq(S)
  BY <1>1, <1>3, SeqDef
<1> QED BY <1>2, <1>4, LenProperties

(* A step neither forgets nor changes a put, and what of it is told stays  *)
(* so, but for a refusal.                                                  *)
Keeps(answers, tl) ==
    \A n \in 1..Len(answers) : tl[n] = answers[n] \/ tl[n] \in {"error", "refused"}

LEMMA BeginKeeps ==
    ASSUME NEW S, NEW q \in Seq(S), NEW answers \in Seq(Answers), NEW all,
           Begin(q, answers, all)
    PROVE  Keeps(answers, told')
<1>1. PICK k \in 0..Len(q) : \E m \in 0..(Len(q) - k) : Begins(q, answers, all, k, m)
  BY BeginIs
<1>2. told' = Refuse(answers, SubSeq(q, 1, k))
  BY <1>1 DEF Begins
<1>3. SubSeq(q, 1, k) \in Seq(S)
  BY InFront
<1> DEFINE ns == SubSeq(q, 1, k)
<1> HIDE DEF ns
<1>4. \A n \in 1..Len(answers) :
         IF Within(ns, n) THEN Refuse(answers, ns)[n] \in {"error", "refused"}
         ELSE Refuse(answers, ns)[n] = answers[n]
  BY <1>3, RefuseIs DEF ns
<1> QED BY <1>2, <1>4 DEF Keeps, ns

(* A call that begins a batch, or finds the store busy and does not.       *)
LEMMA CallSound ==
    ASSUME NEW q, NEW answers, NEW all,
           Sound(all, q, batch, inventory, disk, answers),
           \/ ~busy /\ Begin(q, answers, all)
           \/ queue' = q /\ told' = answers /\ UNCHANGED <<batch, inventory>>
    PROVE  /\ Sound(all, queue', batch', inventory', disk, told')
           /\ Keeps(answers, told')
<1>1. answers \in Seq(Answers) /\ q \in Seq(Numbers(all))
  BY DEF Sound, Types
<1>2. CASE ~busy /\ Begin(q, answers, all)
  <2>1. batch = <<>>
    BY <1>2 DEF busy
  <2> QED BY <1>1, <1>2, <2>1, BeginSound, BeginKeeps
<1>3. CASE queue' = q /\ told' = answers /\ UNCHANGED <<batch, inventory>>
  BY <1>3 DEF Keeps
<1> QED BY <1>2, <1>3

(* What is promised stays so: a put that is stored or dismissed.           *)
Settled(ps, dk, tl, n) == tl[n] \in Dismissed \/ dk.docs[ps[n].d] >= n

LEMMA PromisesKept ==
    ASSUME DInv, sc' = sc, auto' \in BOOLEAN,
           NEW all, Sound(all, queue', batch', inventory', disk', told'), puts' = all,
           Len(puts) <= Len(all),
           \A n \in 1..promised : Settled(puts, disk, told, n)
                                     => sc.fails \/ Settled(all, disk', told', n),
           waiting' \in Seq(0..Len(all)),
           \/ promised' = promised
           \/ promised' \in 0..Len(all) /\ queue' = <<>> /\ batch' = <<>>
    PROVE  DInv'
<1>1. Sound(puts, queue, batch, inventory, disk, told)'
  <2>1. Sound(puts', queue', batch', inventory', disk', told')
    OBVIOUS
  <2> QED BY <2>1 DEF Sound, Types, Rising, Taken, NotBehind, Accounted, Matches, Within,
             Numbers, PutRecords, VersionsOrNone, Versions, Regression
<1>2. promised \in 0..Len(puts) /\ Len(puts) \in Nat /\ Len(all) \in Nat
  BY TypesAre DEF DInv, Promises, Sound
<1>3. promised' \in 0..Len(puts')
  BY <1>2
<1>4. sc.fails \/ \A n \in 1..promised' : Settled(all, disk', told', n)
  <2>1. CASE promised' = promised
    <3>1. sc.fails \/ \A n \in 1..promised : Settled(puts, disk, told, n)
      BY DEF DInv, Promises, WrittenUpTo, Settled, DocOf, Dismissed
    <3> QED BY <2>1, <3>1
  <2>2. CASE promised' \in 0..Len(all) /\ queue' = <<>> /\ batch' = <<>>
    <3>1. Accounted(all, queue', batch', disk', told') /\ Len(<<>>) = 0
      BY DEF Sound
    <3>2. \A n : ~Within(queue', n) /\ ~Within(batch', n)
      BY <2>2, <3>1 DEF Within
    <3>3. \A n \in 1..promised' : n \in Numbers(all)
      BY <1>2, <2>2 DEF Numbers
    <3> QED BY <3>1, <3>2, <3>3 DEF Accounted, Settled
  <2> QED BY <2>1, <2>2
<1>5. sc'.fails \/ WrittenUpTo(promised)'
  BY <1>4 DEF WrittenUpTo, Settled, DocOf, Dismissed
<1> QED BY <1>1, <1>3, <1>5 DEF DInv, Promises

LEMMA InitInv == Init => DInv
<1> SUFFICES ASSUME Init PROVE DInv
  OBVIOUS
<1>1. /\ sc \in Scenarios /\ puts = <<>> /\ queue = <<>> /\ batch = <<>> /\ told = <<>>
      /\ inventory = [d \in Docs |-> Unborn]
      /\ disk = [meta |-> inventory, docs |-> [d \in Docs |-> 0]]
      /\ waiting = <<>> /\ promised = 0 /\ auto \in BOOLEAN
  BY DEF Init
<1>2. Len(<<>>) = 0 /\ \A S : <<>> \in Seq(S)
  BY EmptySeq
<1>3. /\ inventory \in [Docs -> VersionsOrNone]
      /\ disk \in [meta : [Docs -> VersionsOrNone], docs : [Docs -> 0..Len(puts)]]
      /\ \A d \in Docs : disk.docs[d] = 0 /\ disk.meta[d] = Unborn /\ inventory[d] = Unborn
  BY <1>1, <1>2 DEF VersionsOrNone
<1>4. Types(puts, queue, batch, inventory, disk, told)
  BY <1>1, <1>2, <1>3 DEF Types
<1>5. /\ Rising(queue, batch, disk) /\ NotBehind(puts, inventory, disk)
      /\ Matches(puts, batch, inventory, disk)
  BY <1>1, <1>2, <1>3 DEF Rising, NotBehind, Matches
<1>6. Taken(puts, batch, inventory) /\ Accounted(puts, queue, batch, disk, told)
  BY <1>1, <1>2, BatchAssumption DEF Taken, Accounted, Numbers
<1>7. Promises
  BY <1>1, <1>2 DEF Promises, WrittenUpTo
<1> QED BY <1>1, <1>4, <1>5, <1>6, <1>7 DEF DInv, Sound

(* What a step keeps of what was told is settled still.                    *)
LEMMA SettledStays ==
    ASSUME DInv, NEW all, NEW answers, Len(answers) >= Len(puts), Len(answers) \in Nat,
           \A n \in 1..Len(puts) : all[n] = puts[n] /\ answers[n] = told[n],
           disk' = disk, Keeps(answers, told')
    PROVE  \A n \in 1..promised : Settled(puts, disk, told, n)
                                      => sc.fails \/ Settled(all, disk', told', n)
<1>1. promised \in 0..Len(puts) /\ Len(puts) \in Nat
  BY TypesAre DEF DInv, Promises, Sound
<1>2. \A n \in 1..promised : n \in 1..Len(puts) /\ n \in 1..Len(answers)
  BY <1>1
<1> QED BY <1>2 DEF Settled, Keeps, Dismissed

(* A call that may begin a batch, after records were put or not.           *)
LEMMA CallInv ==
    ASSUME DInv, NEW q, NEW answers, NEW all,
           Sound(all, q, batch, inventory, disk, answers),
           Len(answers) >= Len(puts),
           \A n \in 1..Len(puts) : all[n] = puts[n] /\ answers[n] = told[n],
           \/ ~busy /\ Begin(q, answers, all)
           \/ queue' = q /\ told' = answers /\ UNCHANGED <<batch, inventory>>,
           puts' = all, UNCHANGED <<sc, disk, promised>>,
           auto' \in BOOLEAN, waiting' \in Seq(0..Len(all))
    PROVE  DInv'
<1>1. Sound(all, queue', batch', inventory', disk, told') /\ Keeps(answers, told')
  BY CallSound
<1>2. Len(answers) \in Nat /\ Len(answers) = Len(all)
  BY TypesAre, LenProperties DEF Sound, Types
<1>3. \A n \in 1..promised : Settled(puts, disk, told, n)
                                  => sc.fails \/ Settled(all, disk', told', n)
  BY <1>1, <1>2, SettledStays
<1> QED BY <1>1, <1>2, <1>3, PromisesKept

LEMMA PutInv == ASSUME DInv, NEW d \in Docs, Put(d) PROVE DInv'
<1>1. PICK r \in Records(d) :
        LET n == Len(puts) + 1
            all == Append(puts, r)
            q == Append(queue, n)
            answers == Append(told, IF auto THEN "no" ELSE "early")
        IN /\ puts' = all
           /\ IF auto /\ ~busy
              THEN Begin(q, answers, all)
              ELSE /\ queue' = q
                   /\ told' = answers
                   /\ UNCHANGED <<batch, inventory>>
           /\ UNCHANGED <<sc, auto, disk, waiting, flushes, promised, restarts>>
  BY DEF Put
<1> DEFINE a == IF auto THEN "no" ELSE "early"
           all == Append(puts, r)
           q == Append(queue, Len(puts) + 1)
           answers == Append(told, a)
<1>2. /\ puts' = all
      /\ \/ ~busy /\ Begin(q, answers, all)
         \/ queue' = q /\ told' = answers /\ UNCHANGED <<batch, inventory>>
      /\ UNCHANGED <<sc, auto, disk, waiting, promised>>
  BY <1>1
<1>3. /\ Sound(puts, queue, batch, inventory, disk, told)
      /\ auto \in BOOLEAN /\ waiting \in Seq(0..Len(puts))
  BY DEF DInv, Promises
<1>4. /\ puts \in Seq(PutRecords) /\ told \in Seq(Answers) /\ Len(told) = Len(puts)
      /\ queue \in Seq(Numbers(puts)) /\ Len(puts) \in Nat /\ Len(queue) \in Nat
  BY <1>3, LenProperties DEF Sound, Types
<1>5. r \in PutRecords
  BY DEF Records, PutRecords, VersionsOrNone
<1>6. /\ all \in Seq(PutRecords) /\ Len(all) = Len(puts) + 1
      /\ \A n \in 1..Len(puts) : all[n] = puts[n]
  BY <1>4, <1>5, AppendProperties
<1>7. /\ q \in Seq(Nat) /\ Len(q) = Len(queue) + 1
      /\ \A i \in 1..Len(queue) : q[i] = queue[i]
      /\ q[Len(queue) + 1] = Len(puts) + 1
  <2>1. queue \in Seq(Nat)
    <3>1. Numbers(puts) \subseteq Nat
      BY <1>4 DEF Numbers
    <3> QED BY <1>4, <3>1, SeqMonotonic
  <2> QED BY <1>4, <2>1, AppendProperties
<1>8. /\ answers \in Seq(Answers) /\ Len(answers) = Len(told) + 1
      /\ \A n \in 1..Len(puts) : answers[n] = told[n]
      /\ answers[Len(puts) + 1] \in {"no", "early"}
  <2>1. a \in Answers /\ a \in {"no", "early"}
    BY DEF Answers
  <2> HIDE DEF a
  <2> QED BY <1>4, <2>1, AppendProperties
<1> HIDE DEF all, q, answers
<1>9. Sound(all, q, batch, inventory, disk, answers)
  <2>1. /\ \A i \in 1..1 : q[Len(queue) + i] = Len(puts) + i
        /\ \A i \in 1..1 : answers[Len(puts) + i] \in {"no", "early"}
    BY <1>7, <1>8
  <2> QED BY <1>3, <1>6, <1>7, <1>8, <2>1, PutSound
<1>10. waiting' \in Seq(0..Len(all))
  <2>1. 0..Len(puts) \subseteq 0..Len(all)
    BY <1>4, <1>6
  <2> QED BY <1>2, <1>3, <2>1, SeqMonotonic
<1>11. Len(answers) >= Len(puts)
  BY <1>4, <1>8
<1> QED BY <1>2, <1>3, <1>6, <1>8, <1>9, <1>10, <1>11, CallInv

(* One sequence after another.                                             *)
LEMMA Joined ==
    ASSUME NEW S, NEW r \in Seq(S), NEW t \in Seq(S), NEW u, u = r \o t
    PROVE  /\ u \in Seq(S) /\ Len(u) = Len(r) + Len(t)
           /\ \A i \in 1..Len(r) : u[i] = r[i]
           /\ \A i \in 1..Len(t) : u[Len(r) + i] = t[i]
<1>1. /\ u \in Seq(S) /\ Len(u) = Len(r) + Len(t)
      /\ \A i \in 1..Len(r) + Len(t) : u[i] = IF i <= Len(r) THEN r[i] ELSE t[i - Len(r)]
  BY ConcatProperties
<1>2. Len(r) \in Nat /\ Len(t) \in Nat
  BY LenProperties
<1>3. ASSUME NEW i \in 1..Len(r) PROVE u[i] = r[i]
  <2>1. i \in 1..Len(r) + Len(t) /\ i <= Len(r)
    BY <1>2
  <2> QED BY <1>1, <2>1
<1>4. ASSUME NEW i \in 1..Len(t) PROVE u[Len(r) + i] = t[i]
  <2>1. /\ Len(r) + i \in 1..Len(r) + Len(t) /\ ~(Len(r) + i <= Len(r))
        /\ Len(r) + i - Len(r) = i
    BY <1>2
  <2> QED BY <1>1, <2>1
<1> QED BY <1>1, <1>3, <1>4

(* The records of putDocsBulk, one for each doc of a set, as a sequence.   *)
LEMMA BulkRecords ==
    ASSUME NEW f \in UNION {[D -> UNION {Records(d) : d \in D}] : D \in (SUBSET Docs) \ {{}}}
    PROVE  LET ds == SetToSeq(DOMAIN f)
               rs == [i \in DOMAIN ds |-> f[ds[i]]]
           IN /\ DOMAIN ds = 1..Len(ds) /\ Len(ds) \in Nat
              /\ rs \in Seq(PutRecords) /\ Len(rs) = Len(ds)
<1> DEFINE ds == SetToSeq(DOMAIN f)
           c == Len(ds)
           rs == [i \in DOMAIN ds |-> f[ds[i]]]
<1>1. PICK D \in SUBSET Docs : f \in [D -> UNION {Records(d) : d \in D}]
  OBVIOUS
<1>2. /\ ds \in Seq(D) /\ DOMAIN ds = 1..c /\ c \in Nat
      /\ \A i \in 1..c : ds[i] \in D
  <2>1. DOMAIN f = D /\ IsFiniteSet(D)
    BY <1>1, DocsAssumption, FS_Subset
  <2>2. ds \in Seq(D) /\ DOMAIN ds = 1..c
    BY <2>1, SetToSeqIs
  <2> HIDE DEF ds
  <2> QED BY <2>2, LenProperties, ElementOfSeq
<1> HIDE DEF ds, c
<1>3. rs \in Seq(PutRecords) /\ Len(rs) = c
  <2>1. \A d \in D : Records(d) \subseteq PutRecords
    BY DEF Records, PutRecords, VersionsOrNone
  <2>2. \A i \in 1..c : f[ds[i]] \in PutRecords
    BY <1>1, <1>2, <2>1
  <2>3. rs \in [1..c -> PutRecords]
    BY <1>2, <2>2
  <2> HIDE DEF rs
  <2> QED BY <1>2, <2>3, SeqDef, LenProperties
<1> QED BY <1>2, <1>3 DEF ds, c

LEMMA PutBulkInv == ASSUME DInv, PutBulk PROVE DInv'
<1>1. PICK f \in UNION {[D -> UNION {Records(d) : d \in D}] : D \in (SUBSET Docs) \ {{}}} :
        LET ds == SetToSeq(DOMAIN f)
            rs == [i \in DOMAIN ds |-> f[ds[i]]]
            all == puts \o rs
            q == queue \o [i \in DOMAIN ds |-> Len(puts) + i]
            answers == told \o [i \in DOMAIN ds |-> "early"]
        IN /\ puts' = all
           /\ waiting' = Append(waiting, Len(all))
           /\ IF busy
              THEN /\ queue' = q
                   /\ told' = answers
                   /\ UNCHANGED <<batch, inventory>>
              ELSE Begin(q, answers, all)
           /\ UNCHANGED <<sc, auto, disk, promised, restarts>>
  BY DEF PutBulk
<1> DEFINE ds == SetToSeq(DOMAIN f)
           c == Len(ds)
           rs == [i \in DOMAIN ds |-> f[ds[i]]]
           qs == [i \in DOMAIN ds |-> Len(puts) + i]
           es == [i \in DOMAIN ds |-> "early"]
           all == puts \o rs
           q == queue \o qs
           answers == told \o es
<1>2. /\ puts' = all
      /\ \/ ~busy /\ Begin(q, answers, all)
         \/ queue' = q /\ told' = answers /\ UNCHANGED <<batch, inventory>>
      /\ waiting' = Append(waiting, Len(all))
      /\ UNCHANGED <<sc, auto, disk, promised>>
  BY <1>1
<1>3. /\ Sound(puts, queue, batch, inventory, disk, told)
      /\ auto \in BOOLEAN /\ waiting \in Seq(0..Len(puts))
  BY DEF DInv, Promises
<1>4. /\ puts \in Seq(PutRecords) /\ told \in Seq(Answers) /\ Len(told) = Len(puts)
      /\ queue \in Seq(Numbers(puts)) /\ Len(puts) \in Nat /\ Len(queue) \in Nat
  BY <1>3, LenProperties DEF Sound, Types
<1>5. /\ DOMAIN ds = 1..c /\ c \in Nat
      /\ rs \in Seq(PutRecords) /\ Len(rs) = c
  BY BulkRecords
<1> HIDE DEF ds, c
<1>8. qs \in Seq(Nat) /\ Len(qs) = c /\ \A i \in 1..c : qs[i] = Len(puts) + i
  <2>1. qs \in [1..c -> Nat] /\ \A i \in 1..c : qs[i] = Len(puts) + i
    BY <1>4, <1>5
  <2> HIDE DEF qs
  <2> QED BY <1>5, <2>1, SeqDef, LenProperties
<1>9. es \in Seq(Answers) /\ Len(es) = c /\ \A i \in 1..c : es[i] = "early"
  <2>1. es \in [1..c -> Answers] /\ \A i \in 1..c : es[i] = "early"
    BY <1>5 DEF Answers
  <2> HIDE DEF es
  <2> QED BY <1>5, <2>1, SeqDef, LenProperties
<1> HIDE DEF rs, qs, es
<1>a. all = puts \o rs /\ q = queue \o qs /\ answers = told \o es
  OBVIOUS
<1> HIDE DEF all, q, answers
<1>10. /\ all \in Seq(PutRecords) /\ Len(all) = Len(puts) + c
       /\ \A n \in 1..Len(puts) : all[n] = puts[n]
  <2>1. puts \in Seq(PutRecords) /\ rs \in Seq(PutRecords) /\ all = puts \o rs
    BY <1>4, <1>5, <1>a
  <2>2. all \in Seq(PutRecords)
    BY <2>1, Joined
  <2>3. Len(all) = Len(puts) + Len(rs)
    BY <2>1, Joined
  <2>4. \A n \in 1..Len(puts) : all[n] = puts[n]
    BY <2>1, Joined
  <2> QED BY <1>5, <2>2, <2>3, <2>4
<1>11. /\ q \in Seq(Nat) /\ Len(q) = Len(queue) + c
       /\ \A i \in 1..Len(queue) : q[i] = queue[i]
       /\ \A i \in 1..c : q[Len(queue) + i] = Len(puts) + i
  <2>1. Numbers(puts) \subseteq Nat
    BY <1>4 DEF Numbers
  <2>2. queue \in Seq(Nat) /\ qs \in Seq(Nat) /\ q = queue \o qs
    BY <1>4, <1>8, <1>a, <2>1, SeqMonotonic
  <2>3. q \in Seq(Nat)
    BY <2>2, Joined
  <2>4. Len(q) = Len(queue) + Len(qs)
    BY <2>2, Joined
  <2>5. \A i \in 1..Len(queue) : q[i] = queue[i]
    BY <2>2, Joined
  <2>6. \A i \in 1..Len(qs) : q[Len(queue) + i] = qs[i]
    BY <2>2, Joined
  <2> QED BY <1>8, <2>3, <2>4, <2>5, <2>6
<1>12. /\ answers \in Seq(Answers) /\ Len(answers) = Len(told) + c
       /\ \A n \in 1..Len(puts) : answers[n] = told[n]
       /\ \A i \in 1..c : answers[Len(puts) + i] \in {"no", "early"}
  <2>1. told \in Seq(Answers) /\ es \in Seq(Answers) /\ answers = told \o es
    BY <1>4, <1>9, <1>a
  <2>2. answers \in Seq(Answers)
    BY <2>1, Joined
  <2>3. Len(answers) = Len(told) + Len(es)
    BY <2>1, Joined
  <2>4. \A n \in 1..Len(told) : answers[n] = told[n]
    BY <2>1, Joined
  <2>5. \A i \in 1..Len(es) : answers[Len(told) + i] = es[i]
    BY <2>1, Joined
  <2> QED BY <1>4, <1>9, <2>2, <2>3, <2>4, <2>5
<1>13. Sound(all, q, batch, inventory, disk, answers)
  BY <1>3, <1>5, <1>10, <1>11, <1>12, PutSound
<1>14. waiting' \in Seq(0..Len(all))
  <2>1. 0..Len(puts) \subseteq 0..Len(all) /\ Len(all) \in 0..Len(all)
    BY <1>4, <1>5, <1>10
  <2>2. waiting \in Seq(0..Len(all))
    BY <1>3, <2>1, SeqMonotonic
  <2> QED BY <1>2, <2>1, <2>2, AppendProperties
<1>15. Len(answers) >= Len(puts)
  BY <1>4, <1>5, <1>12
<1> QED BY <1>2, <1>3, <1>10, <1>12, <1>13, <1>14, <1>15, CallInv

(* What the invariant says of the state, and of the number of puts.        *)
LEMMA InvSays ==
    ASSUME DInv
    PROVE  /\ Sound(puts, queue, batch, inventory, disk, told)
           /\ Types(puts, queue, batch, inventory, disk, told)
           /\ auto \in BOOLEAN /\ waiting \in Seq(0..Len(puts)) /\ promised \in 0..Len(puts)
           /\ told \in Seq(Answers) /\ Len(told) = Len(puts) /\ Len(puts) \in Nat
           /\ batch \in Seq(Numbers(puts)) /\ queue \in Seq(Numbers(puts))
           /\ \A n \in Numbers(puts) : n \in Nat /\ puts[n].d \in Docs
<1>1. /\ Sound(puts, queue, batch, inventory, disk, told)
      /\ auto \in BOOLEAN /\ waiting \in Seq(0..Len(puts)) /\ promised \in 0..Len(puts)
  BY DEF DInv, Promises
<1>2. Types(puts, queue, batch, inventory, disk, told)
  BY <1>1 DEF Sound
<1>3. Len(puts) \in Nat /\ \A n \in Numbers(puts) : n \in Nat /\ puts[n].d \in Docs
  BY <1>2, TypesAre
<1> QED BY <1>1, <1>2, <1>3 DEF Types

LEMMA FlushInv == ASSUME DInv, Flush PROVE DInv'
<1>1. /\ Sound(puts, queue, batch, inventory, disk, told)
      /\ auto \in BOOLEAN /\ waiting \in Seq(0..Len(puts))
      /\ Len(told) = Len(puts) /\ Len(puts) \in Nat
  BY InvSays
<1>2. /\ \/ ~busy /\ Begin(queue, told, puts)
         \/ queue' = queue /\ told' = told /\ UNCHANGED <<batch, inventory>>
      /\ puts' = puts /\ UNCHANGED <<sc, disk, promised, auto>>
  BY DEF Flush
<1>3. waiting' \in Seq(0..Len(puts))
  <2>1. waiting' = waiting \/ waiting' = Append(waiting, Len(puts))
    BY DEF Flush
  <2>2. Len(puts) \in 0..Len(puts)
    BY <1>1
  <2>3. Append(waiting, Len(puts)) \in Seq(0..Len(puts))
    BY <1>1, <2>2, AppendProperties
  <2> QED BY <1>1, <2>1, <2>3
<1> QED BY <1>1, <1>2, <1>3, CallInv

LEMMA SetAutoInv == ASSUME DInv, SetAuto PROVE DInv'
<1>1. /\ Sound(puts, queue, batch, inventory, disk, told)
      /\ auto \in BOOLEAN /\ waiting \in Seq(0..Len(puts))
      /\ Len(told) = Len(puts) /\ Len(puts) \in Nat
  BY InvSays
<1>2. /\ \/ ~busy /\ Begin(queue, told, puts)
         \/ queue' = queue /\ told' = told /\ UNCHANGED <<batch, inventory>>
      /\ puts' = puts /\ waiting' = waiting /\ UNCHANGED <<sc, disk, promised>>
      /\ auto' \in BOOLEAN
  BY DEF SetAuto
<1> QED BY <1>1, <1>2, CallInv

(* The end of a write.                                                     *)
LEMMA FinishInv ==
    ASSUME DInv, NEW ok \in BOOLEAN, ok \/ sc.fails, Finish(ok)
    PROVE  DInv'
<1> DEFINE answers == After(ok)
           dk == IF ok THEN Store(batch) ELSE disk
<1>1. /\ disk' = dk /\ puts' = puts /\ sc' = sc /\ auto' = auto
      /\ \/ /\ Begin(queue, answers, puts)
            /\ waiting' = waiting /\ promised' = promised
         \/ /\ queue = <<>> /\ queue' = <<>> /\ batch' = <<>> /\ told' = answers
            /\ inventory' = inventory /\ waiting' = <<>>
            /\ promised' = IF ok /\ waiting # <<>>
                           THEN Later(promised, Last(waiting))
                           ELSE promised
  BY DEF Finish
<1>2. /\ Sound(puts, queue, batch, inventory, disk, told)
      /\ auto \in BOOLEAN /\ waiting \in Seq(0..Len(puts)) /\ promised \in 0..Len(puts)
      /\ told \in Seq(Answers) /\ Len(told) = Len(puts) /\ Len(puts) \in Nat
      /\ batch \in Seq(Numbers(puts)) /\ queue \in Seq(Numbers(puts))
      /\ \A n \in Numbers(puts) : n \in Nat /\ puts[n].d \in Docs
  BY InvSays
<1>3. /\ answers \in Seq(Answers) /\ Len(answers) = Len(told)
      /\ \A n \in 1..Len(told) : answers[n] = told[n] \/ Within(batch, n)
      /\ ~ok => \A n \in 1..Len(told) :
                   IF Within(batch, n) THEN answers[n] \in {"error", "refused"}
                   ELSE answers[n] = told[n]
  <2>1. told \in Seq(Answers) /\ batch \in Seq(Numbers(puts)) /\ "ok" \in Answers
    BY <1>2 DEF Answers
  <2>2. CASE ok
    <3>1. answers = Tell(told, batch, "ok")
      BY <2>2 DEF After
    <3> HIDE DEF answers
    <3>2. /\ Tell(told, batch, "ok") \in Seq(Answers)
          /\ Len(Tell(told, batch, "ok")) = Len(told)
          /\ \A n \in 1..Len(told) :
                \/ Tell(told, batch, "ok")[n] = told[n]
                \/ Within(batch, n) /\ Tell(told, batch, "ok")[n] = "ok"
      BY <2>1, TellIs
    <3> QED BY <2>2, <3>1, <3>2
  <2>3. CASE ~ok
    <3>1. answers = Refuse(told, batch)
      BY <2>3 DEF After
    <3> HIDE DEF answers
    <3>2. /\ Refuse(told, batch) \in Seq(Answers)
          /\ Len(Refuse(told, batch)) = Len(told)
          /\ \A n \in 1..Len(told) :
                IF Within(batch, n) THEN Refuse(told, batch)[n] \in {"error", "refused"}
                ELSE Refuse(told, batch)[n] = told[n]
      BY <2>1, RefuseIs
    <3> QED BY <3>1, <3>2
  <2> QED BY <2>2, <2>3
<1> HIDE DEF answers
<1>4. Sound(puts, queue, <<>>, inventory, dk, answers)
  <2>1. CASE ok
    <3>1. \A n \in Numbers(puts) : answers[n] = told[n] \/ Within(batch, n)
      BY <1>2, <1>3 DEF Numbers
    <3> QED BY <1>2, <1>3, <2>1, <3>1, StoreSound
  <2>2. CASE ~ok
    <3>1. \A n \in Numbers(puts) :
             IF Within(batch, n) THEN answers[n] \in {"error", "refused"}
             ELSE answers[n] = told[n]
      BY <1>2, <1>3, <2>2 DEF Numbers
    <3> QED BY <1>2, <1>3, <2>2, <3>1, FailSound
  <2> QED BY <2>1, <2>2
<1>5. /\ Sound(puts, queue', batch', inventory', dk, told')
      /\ Keeps(answers, told')
  <2>1. CASE Begin(queue, answers, puts)
    BY <1>2, <1>3, <1>4, <2>1, BeginSound, BeginKeeps
  <2>2. CASE queue = <<>> /\ queue' = <<>> /\ batch' = <<>> /\ told' = answers
             /\ inventory' = inventory
    BY <1>4, <2>2 DEF Keeps
  <2> QED BY <1>1, <2>1, <2>2
<1>6. ASSUME NEW n \in 1..promised, Settled(puts, disk, told, n)
      PROVE  sc.fails \/ Settled(puts, dk, told', n)
  <2>1. n \in 1..Len(puts) /\ n \in 1..Len(answers) /\ n \in Numbers(puts)
    BY <1>2, <1>3 DEF Numbers
  <2>2. CASE ~ok
    BY <2>2
  <2>3. CASE ok
    <3>1. \A d \in Docs : dk.docs[d] >= disk.docs[d]
      BY <1>2, <2>3, StoreRises
    <3>2. dk.docs[puts[n].d] \in Nat /\ disk.docs[puts[n].d] \in Nat /\ puts[n].d \in Docs
      BY <1>2, <1>4, <2>1, TypesAre DEF Sound
    <3>3. CASE disk.docs[puts[n].d] >= n
      BY <1>2, <2>1, <3>1, <3>2, <3>3 DEF Settled
    <3>4. CASE told[n] \in Dismissed /\ Within(batch, n)
      <4>1. PICK i \in 1..Len(batch) : batch[i] = n
        BY <3>4 DEF Within
      <4>2. dk.docs[puts[n].d] = n
        BY <1>2, <2>3, <4>1, StoreIs DEF DocOf
      <4> QED BY <1>2, <2>1, <4>2 DEF Settled
    <3>5. CASE told[n] \in Dismissed /\ answers[n] = told[n]
      BY <1>5, <2>1, <3>5 DEF Keeps, Settled, Dismissed
    <3> QED BY <1>2, <1>3, <1>6, <2>1, <3>3, <3>4, <3>5 DEF Settled
  <2> QED BY <2>2, <2>3
<1> HIDE DEF dk
<1>7. waiting' \in Seq(0..Len(puts))
  BY <1>1, <1>2, EmptySeq
<1>8. promised' = promised \/ (promised' \in 0..Len(puts) /\ queue' = <<>> /\ batch' = <<>>)
  <2>1. CASE waiting # <<>> /\ promised' = Later(promised, Last(waiting))
    <3>1. Len(waiting) \in 1..Len(waiting)
      BY <1>2, <2>1, EmptySeq
    <3>2. Last(waiting) \in 0..Len(puts)
      BY <1>2, <3>1, ElementOfSeq DEF Last
    <3>3. promised' \in 0..Len(puts)
      BY <1>2, <2>1, <3>2 DEF Later
    <3> QED BY <1>1, <3>3
  <2> QED BY <1>1, <2>1
<1> QED BY <1>1, <1>2, <1>5, <1>6, <1>7, <1>8, PromisesKept

(* What is lost with the application: the puts of a set W.                 *)
LEMMA LostIs ==
    ASSUME NEW answers \in Seq(Answers), NEW W, NEW r,
           r = [n \in DOMAIN answers |-> IF n \in W THEN "lost" ELSE answers[n]]
    PROVE  /\ r \in Seq(Answers) /\ Len(r) = Len(answers)
           /\ \A n \in 1..Len(answers) : \/ r[n] = "lost"
                                         \/ n \notin W /\ r[n] = answers[n]
<1>1. /\ Len(answers) \in Nat /\ DOMAIN answers = 1..Len(answers)
      /\ \A n \in 1..Len(answers) : answers[n] \in Answers
  BY LenProperties, ElementOfSeq
<1>2. r \in [1..Len(answers) -> Answers]
  BY <1>1 DEF Answers
<1>3. r \in Seq(Answers) /\ Len(r) = Len(answers)
  BY <1>1, <1>2, SeqDef, LenProperties
<1> QED BY <1>1, <1>3

(* A restart, with the write it waited for done or not.                    *)
LEMMA RestartInv == ASSUME DInv, Restart PROVE DInv'
<1>1. PICK done \in {FALSE} \cup {busy} :
          /\ disk' = IF done THEN Store(batch) ELSE disk
          /\ inventory' = (IF done THEN Store(batch) ELSE disk).meta
          /\ told' = [n \in DOMAIN told |->
                        IF n \in ToSet(queue) \/ (n \in ToSet(batch) /\ ~done)
                        THEN "lost" ELSE told[n]]
  BY DEF Restart
<1>2. /\ queue' = <<>> /\ batch' = <<>> /\ waiting' = <<>> /\ auto' = TRUE
      /\ sc' = sc /\ puts' = puts /\ promised' = promised
  BY DEF Restart
<1> DEFINE W == {n \in DOMAIN told : n \in ToSet(queue) \/ (n \in ToSet(batch) /\ ~done)}
<1>3. told' = [n \in DOMAIN told |-> IF n \in W THEN "lost" ELSE told[n]]
  BY <1>1
<1>4. /\ Sound(puts, queue, batch, inventory, disk, told)
      /\ promised \in 0..Len(puts)
  BY DEF DInv, Promises
<1>5. Types(puts, queue, batch, inventory, disk, told)
  BY <1>4 DEF Sound
<1>6. /\ Len(puts) \in Nat /\ DOMAIN told = Numbers(puts)
      /\ DOMAIN queue = 1..Len(queue) /\ DOMAIN batch = 1..Len(batch)
      /\ \A n \in Numbers(puts) : n \in Nat /\ puts[n].d \in Docs
  BY <1>5, TypesAre
<1>7. told \in Seq(Answers) /\ Len(told) = Len(puts)
  BY <1>5 DEF Types
<1>8. \A n \in Numbers(puts) :
         n \notin W => ~Within(queue, n) /\ (done \/ ~Within(batch, n))
  BY <1>6 DEF ToSet, Within
<1> HIDE DEF W
<1>9. /\ told' \in Seq(Answers) /\ Len(told') = Len(told)
      /\ \A n \in Numbers(puts) : \/ told'[n] = "lost"
                                  \/ n \notin W /\ told'[n] = told[n]
  <2>1. /\ told' \in Seq(Answers) /\ Len(told') = Len(told)
        /\ \A n \in 1..Len(told) : \/ told'[n] = "lost"
                                   \/ n \notin W /\ told'[n] = told[n]
    BY <1>3, <1>7, LostIs
  <2> QED BY <1>7, <2>1 DEF Numbers
<1>10. Sound(puts, <<>>, <<>>, disk'.meta, disk', told')
  <2>1. CASE done
    <3>1. disk' = Store(batch)
      BY <1>1, <2>1
    <3>2. Sound(puts, queue, <<>>, inventory, Store(batch), told)
      BY <1>4, <1>7, StoreSound
    <3>3. \A n \in Numbers(puts) : ~Within(<<>>, n)
      <4>1. Len(<<>>) = 0
        BY EmptySeq
      <4> QED BY <4>1 DEF Within
    <3>4. \A n \in Numbers(puts) :
             \/ told'[n] = "lost"
             \/ told'[n] = told[n] /\ ~Within(queue, n) /\ ~Within(<<>>, n)
      BY <1>8, <1>9, <3>3
    <3>5. Sound(puts, <<>>, <<>>, Store(batch).meta, Store(batch), told')
      BY <1>9, <3>2, <3>4, RestartSound
    <3> QED BY <3>1, <3>5
  <2>2. CASE ~done
    <3>1. disk' = disk
      BY <1>1, <2>2
    <3>2. \A n \in Numbers(puts) :
             \/ told'[n] = "lost"
             \/ told'[n] = told[n] /\ ~Within(queue, n) /\ ~Within(batch, n)
      BY <1>8, <1>9, <2>2
    <3>3. Sound(puts, <<>>, <<>>, disk.meta, disk, told')
      BY <1>4, <1>9, <3>2, RestartSound
    <3> QED BY <3>1, <3>3
  <2> QED BY <2>1, <2>2
<1>11. inventory' = disk'.meta
  BY <1>1
<1>12. Sound(puts, queue', batch', inventory', disk', told')
  BY <1>2, <1>10, <1>11
<1>13. ASSUME NEW n \in 1..promised, Settled(puts, disk, told, n)
       PROVE  sc.fails \/ Settled(puts, disk', told', n)
  <2>1. n \in Numbers(puts)
    BY <1>4, <1>6 DEF Numbers
  <2>2. disk'.docs[puts[n].d] >= disk.docs[puts[n].d]
        /\ disk'.docs[puts[n].d] \in Nat /\ disk.docs[puts[n].d] \in Nat
    <3>1. disk'.docs[puts[n].d] \in Nat /\ disk.docs[puts[n].d] \in Nat
      BY <1>5, <1>6, <1>10, <2>1, TypesAre DEF Sound
    <3>2. Store(batch).docs[puts[n].d] >= disk.docs[puts[n].d]
      BY <1>4, <1>6, <2>1, StoreRises
    <3> QED BY <1>1, <3>1, <3>2
  <2>3. CASE told[n] \in Dismissed
    BY <1>9, <2>1, <2>3 DEF Settled, Dismissed
  <2>4. CASE disk.docs[puts[n].d] >= n
    BY <1>6, <2>1, <2>2, <2>4 DEF Settled
  <2> QED BY <1>13, <2>3, <2>4 DEF Settled
<1>14. waiting' \in Seq(0..Len(puts))
  BY <1>2
<1>15. auto' \in BOOLEAN /\ Len(puts) <= Len(puts)
  BY <1>2, <1>6
<1> QED BY <1>2, <1>12, <1>13, <1>14, <1>15, PromisesKept

LEMMA NextInv == ASSUME DInv, [Next]_vars PROVE DInv'
<1>1. CASE \E d \in Docs : Put(d)
  BY <1>1, PutInv
<1>2. CASE PutBulk
  BY <1>2, PutBulkInv
<1>3. CASE Flush
  BY <1>3, FlushInv
<1>4. CASE SetAuto
  BY <1>4, SetAutoInv
<1>5. CASE Written
  BY <1>5, FinishInv DEF Written
<1>6. CASE NotWritten
  BY <1>6, FinishInv DEF NotWritten
<1>7. CASE Restart
  BY <1>7, RestartInv
<1>8. CASE UNCHANGED vars
  <2>1. /\ sc' = sc /\ puts' = puts /\ queue' = queue /\ batch' = batch /\ auto' = auto
        /\ inventory' = inventory /\ disk' = disk /\ told' = told
        /\ waiting' = waiting /\ promised' = promised
    BY <1>8 DEF vars
  <2>2. Sound(puts, queue, batch, inventory, disk, told)
    BY DEF DInv
  <2>3. Sound(puts, queue', batch', inventory', disk', told')
    BY <2>1, <2>2
  <2>4. /\ auto' \in BOOLEAN /\ waiting' \in Seq(0..Len(puts))
        /\ Len(puts) <= Len(puts)
    BY <2>1, <2>2, TypesAre DEF DInv, Promises, Sound
  <2>5. \A n \in 1..promised : Settled(puts, disk, told, n)
                                  => sc.fails \/ Settled(puts, disk', told', n)
    BY <2>1
  <2> QED BY <2>1, <2>3, <2>4, <2>5, PromisesKept
<1> QED BY <1>1, <1>2, <1>3, <1>4, <1>5, <1>6, <1>7, <1>8 DEF Next

(* The inductive invariant of the store.                                   *)
THEOREM Invariance == Spec => []DInv
<1>1. Init => DInv
  BY InitInv
<1>2. DInv /\ [Next]_vars => DInv'
  BY NextInv
<1> QED BY <1>1, <1>2, PTL DEF Spec

-----------------------------------------------------------------------------
(* The shapes of the variables, no batch too large or with two records of  *)
(* a doc, and one answer for every put (durable-store.js: DurableStore).   *)
THEOREM TypeCorrect == Spec => []TypeOK
<1>1. ASSUME DInv PROVE TypeOK
  <2>1. Types(puts, queue, batch, inventory, disk, told) /\ Taken(puts, batch, inventory)
        /\ auto \in BOOLEAN
    BY <1>1 DEF DInv, Sound
  <2>2. \A i \in DOMAIN puts : puts[i].d \in Docs /\ puts[i].v \in Versions \cup {Unborn}
    BY <2>1, TypesAre DEF VersionsOrNone
  <2>3. \A n \in ToSet(queue) \cup ToSet(batch) : n \in DOMAIN puts
    <3>1. /\ DOMAIN puts = Numbers(puts) /\ DOMAIN queue = 1..Len(queue)
          /\ DOMAIN batch = 1..Len(batch)
      BY <2>1, TypesAre
    <3>2. /\ \A i \in 1..Len(queue) : queue[i] \in Numbers(puts)
          /\ \A i \in 1..Len(batch) : batch[i] \in Numbers(puts)
      BY <2>1, TypesAre
    <3> QED BY <3>1, <3>2 DEF ToSet
  <2>4. /\ Len(batch) <= MaxBatchSize
        /\ \A i, j \in DOMAIN batch : DocOf(batch[i]) = DocOf(batch[j]) => i = j
    <3>1. DOMAIN batch = 1..Len(batch)
      BY <2>1, TypesAre
    <3> QED BY <2>1, <3>1 DEF Taken, DocOf
  <2>5. /\ DOMAIN told = DOMAIN puts
        /\ \A n \in DOMAIN told :
              told[n] \in {"no", "early", "ok", "error", "refused", "lost"}
    BY <2>1, TypesAre DEF Answers
  <2> QED BY <2>1, <2>2, <2>3, <2>4, <2>5 DEF TypeOK
<1> QED BY <1>1, Invariance, PTL

(* A put whose callback waited for the write and came without an error is  *)
(* in the storage, or a later record of its doc is; one that was answered  *)
(* at once, or not yet, is stored or on its way to the storage; whatever   *)
(* writes fail and however often the application restarts                  *)
(* (durable-store.js: putDoc, _putNextBatchFromQueue).                     *)
THEOREM CallbacksAreTrue == Spec => []CallbackMeansStored
<1>1. ASSUME DInv PROVE CallbackMeansStored
  <2>1. /\ Types(puts, queue, batch, inventory, disk, told)
        /\ Accounted(puts, queue, batch, disk, told)
    BY <1>1 DEF DInv, Sound
  <2>2. /\ DOMAIN told = Numbers(puts)
        /\ DOMAIN queue = 1..Len(queue) /\ DOMAIN batch = 1..Len(batch)
    BY <2>1, TypesAre
  <2>3. \A n : Within(queue, n) \/ Within(batch, n) => n \in ToSet(queue) \cup ToSet(batch)
    BY <2>2 DEF Within, ToSet
  <2>4. ASSUME NEW n \in Numbers(puts)
        PROVE  /\ told[n] = "ok" => disk.docs[DocOf(n)] >= n
               /\ told[n] \in {"no", "early"} =>
                     disk.docs[DocOf(n)] >= n \/ n \in ToSet(queue) \cup ToSet(batch)
    BY <2>1, <2>3, <2>4 DEF Accounted, DocOf, Dismissed
  <2> QED BY <2>2, <2>4 DEF CallbackMeansStored
<1> QED BY <1>1, Invariance, PTL

(* The stored inventory says of each doc what its record says, where no    *)
(* write fails (durable-store.js: getInventoryMeta).                       *)
THEOREM InventoryIsTrue == Spec => []InventoryMatchesStore
<1>1. ASSUME DInv PROVE InventoryMatchesStore
  BY <1>1 DEF DInv, Sound, Matches, InventoryMatchesStore
<1> QED BY <1>1, Invariance, PTL

(* The callback of a flush that waited comes when all that was put before  *)
(* it is stored, refused or lost, where no write fails (durable-store.js:  *)
(* flush, _putNextBatchFromQueue).                                         *)
THEOREM FlushesAreTrue == Spec => []WaitingFlushMeansWritten
<1>1. ASSUME DInv PROVE WaitingFlushMeansWritten
  BY <1>1 DEF DInv, Promises, WaitingFlushMeansWritten
<1> QED BY <1>1, Invariance, PTL

(* The storage never takes a doc back to an earlier record or version,     *)
(* whatever fails, restarts or is put without a version (durable-store.js: *)
(* _putNextBatchFromQueue).                                                *)
THEOREM StorageRises == Spec => StoreNeverGoesBack
<1> DEFINE Up == \A d \in Docs :
                   /\ disk'.docs[d] >= disk.docs[d]
                   /\ disk.docs[d] # 0 =>
                        ~Regression(puts[disk.docs[d]].v, puts'[disk'.docs[d]].v)
<1>1. ASSUME DInv, [Next]_vars PROVE Up
  <2>1. /\ Sound(puts, queue, batch, inventory, disk, told)
        /\ Types(puts, queue, batch, inventory, disk, told)
    BY <1>1 DEF DInv, Sound
  <2>2. /\ puts \in Seq(PutRecords) /\ Len(puts) \in Nat
        /\ \A d \in Docs : disk.docs[d] \in Nat
        /\ \A d \in Docs : disk.docs[d] # 0 => disk.docs[d] \in 1..Len(puts)
        /\ \A n \in 1..Len(puts) : puts[n].v \in VersionsOrNone
    <3>1. Len(puts) \in Nat /\ \A d \in Docs : disk.docs[d] \in 0..Len(puts)
      BY <2>1, TypesAre
    <3>2. \A n \in Numbers(puts) : puts[n].v \in VersionsOrNone
      BY <2>1, TypesAre
    <3>3. puts \in Seq(PutRecords)
      BY <2>1 DEF Types
    <3> QED BY <3>1, <3>2, <3>3 DEF Numbers
  <2>3. \A v \in VersionsOrNone : ~Regression(v, v)
    BY <2>1, BoundsAssumption DEF Types, VersionsOrNone, Versions, Regression
  <2>4. CASE puts' = puts /\ (disk' = disk \/ disk' = Store(batch))
    BY <2>1, <2>2, <2>3, <2>4, StoreRises
  <2>5. CASE disk' = disk /\ \A n \in 1..Len(puts) : puts'[n] = puts[n]
    BY <2>2, <2>3, <2>5
  <2>6. CASE \E d \in Docs : Put(d)
    <3>1. PICK d \in Docs : Put(d)
      BY <2>6
    <3>2. PICK r \in Records(d) : puts' = Append(puts, r) /\ disk' = disk
      BY <3>1 DEF Put
    <3>3. r \in PutRecords
      BY DEF Records, PutRecords, VersionsOrNone
    <3>4. \A n \in 1..Len(puts) : Append(puts, r)[n] = puts[n]
      BY <2>2, <3>3, AppendProperties
    <3> QED BY <2>5, <3>2, <3>4
  <2>7. CASE PutBulk
    <3>1. PICK rs \in Seq(PutRecords) : puts' = puts \o rs /\ disk' = disk
      <4>1. PICK f \in UNION {[D -> UNION {Records(d) : d \in D}] :
                                D \in (SUBSET Docs) \ {{}}} :
              LET ds == SetToSeq(DOMAIN f)
              IN puts' = puts \o [i \in DOMAIN ds |-> f[ds[i]]] /\ disk' = disk
        BY <2>7 DEF PutBulk
      <4> DEFINE ds == SetToSeq(DOMAIN f)
                 rs == [i \in DOMAIN ds |-> f[ds[i]]]
      <4>2. rs \in Seq(PutRecords)
        BY BulkRecords
      <4>3. puts' = puts \o rs /\ disk' = disk
        BY <4>1
      <4> HIDE DEF rs
      <4> QED BY <4>2, <4>3
    <3>2. /\ Len(rs) \in Nat
          /\ \A n \in 1..Len(puts) + Len(rs) :
                (puts \o rs)[n] = IF n <= Len(puts) THEN puts[n] ELSE rs[n - Len(puts)]
      BY <2>2, <3>1, ConcatProperties, LenProperties
    <3>3. \A n \in 1..Len(puts) : n \in 1..Len(puts) + Len(rs) /\ n <= Len(puts)
      BY <2>2, <3>2
    <3> QED BY <2>5, <3>1, <3>2, <3>3
  <2>8. CASE Flush
    BY <2>4, <2>8 DEF Flush
  <2>9. CASE SetAuto
    BY <2>4, <2>9 DEF SetAuto
  <2>10. CASE \E ok \in BOOLEAN : Finish(ok)
    BY <2>4, <2>10 DEF Finish
  <2>11. CASE Restart
    BY <2>4, <2>11 DEF Restart
  <2>12. CASE UNCHANGED vars
    BY <2>4, <2>12 DEF vars
  <2> QED BY <1>1, <2>6, <2>7, <2>8, <2>9, <2>10, <2>11, <2>12 DEF Next, Written, NotWritten
<1>2. DInv /\ [Next]_vars => [Up]_vars
  BY <1>1
<1> QED BY <1>2, Invariance, PTL DEF Spec, StoreNeverGoesBack
=============================================================================
