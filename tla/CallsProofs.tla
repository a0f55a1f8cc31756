----------------------------- MODULE CallsProofs -----------------------------
(***************************************************************************)
(* Proof that no call and no stream of a Connection is lost or used twice, *)
(* for any docs, calls, drops, commits and refused reads, alone or in      *)
(* bulk, as long as no doc is astray: no unsubscribe made offline has been *)
(* answered by a drop before its nextTick.                                 *)
(*                                                                         *)
(* The inductive invariant CInv says next to NothingLost how the client,   *)
(* the messages and the agents fit: of a doc at most one subscribe or      *)
(* unsubscribe and at most one fetch are under way with any agent, counted *)
(* in the requests it has not read, its jobs and its replies; with the     *)
(* agent at the other end they are those that the doc takes for inflight;  *)
(* and subscribes alternate with unsubscribes in the queue of a doc, so    *)
(* that behind an unsubscribe answered on the next tick a subscribe waits. *)
(***************************************************************************)
EXTENDS ConnectionProofs

(* Counting in sequences of what they hold.                                *)
Places(s, B) == {i \in DOMAIN s : s[i] \in B}
Num(s, B) == Cardinality(Places(s, B))
One(P) == IF P THEN 1 ELSE 0

Groups == SUBSET Nat
Subs == [want : BOOLEAN, cbs : Groups]
Hows == {"ok", "refused", "silent"}
Tolds == [cbs : Groups, how : Hows]
DocShape == [v : Versions, want : BOOLEAN, subd : BOOLEAN,
             infSub : {None} \cup Subs, penSub : Seq(Subs),
             infFetch : Seq(Groups), penFetch : Seq(Groups),
             ticks : Nat, late : Seq(Groups), stray : BOOLEAN,
             out : Seq(Outs), told : Seq(Tolds), quiet : BOOLEAN]

(* How often a call waits in a doc, and how often it waits or was told.    *)
Having(c) == {g \in Groups : c \in g}
SubsOf(c) == {r \in Subs : c \in r.cbs}
ToldOf(c) == {t \in Tolds : c \in t.cbs}
Waits(x, c) ==
    Num(x.infFetch, Having(c)) + Num(x.penFetch, Having(c)) + Num(x.late, Having(c))
    + Num(x.penSub, SubsOf(c)) + One(x.infSub # None /\ c \in x.infSub.cbs)
Weight(x, c) == Waits(x, c) + Num(x.told, ToldOf(c))

Inf(x) == One(x.infSub # None /\ x.ticks = 0)
Fet(x) == Len(x.infFetch)
Subscribing == {"s", "u"}
Fetching == {"f"}
Sends(x, K) == Num(x.out, {o \in Outs : o.a \in K})

(* The requests about a doc under way.                                      *)
AsksAbout(s, K, d) == {m \in Range(s) : m.a \in K /\ d \in DOMAIN m.vs}
RepliesAbout(s, K, d) == {m \in Range(s) : m.a \in K /\ d \in DOMAIN m.res}
JobsAbout(js, K, a, d) == {j \in js : j.a = a /\ j.m.a \in K /\ d \in DOMAIN j.m.vs}
Asked(s, K, d) == Num(s, AsksAbout(s, K, d))
Replied(s, K, d) == Num(s, RepliesAbout(s, K, d))
Worked(js, K, a, d) == Cardinality(JobsAbout(js, K, a, d))
Under(K, a, d) == Asked(agents[a].up, K, d) + Worked(jobs, K, a, d)
                  + IF a = cur THEN Replied(down, K, d) ELSE 0

-----------------------------------------------------------------------------
(* Counting in sequences.                                                  *)
LEMMA NumIs ==
    ASSUME NEW S, NEW s \in Seq(S), NEW B
    PROVE  /\ IsFiniteSet(Places(s, B)) /\ Num(s, B) \in Nat
           /\ Num(s, B) <= Len(s)
           /\ Num(s, B) = 0 <=> Range(s) \cap B = {}
<1>1. DOMAIN s = 1..Len(s) /\ Len(s) \in Nat
  BY LenProperties
<1>2. IsFiniteSet(1..Len(s)) /\ Cardinality(1..Len(s)) = Len(s)
  BY <1>1, FS_Interval
<1>3. Places(s, B) \subseteq 1..Len(s)
  BY <1>1 DEF Places
<1>4. IsFiniteSet(Places(s, B)) /\ Cardinality(Places(s, B)) <= Len(s)
  BY <1>2, <1>3, FS_Subset
<1>5. Cardinality(Places(s, B)) \in Nat
  BY <1>4, FS_CardinalityType
<1>6. Cardinality(Places(s, B)) = 0 <=> Places(s, B) = {}
  BY <1>4, FS_EmptySet
<1>7. Places(s, B) = {} <=> Range(s) \cap B = {}
  BY DEF Places, Range
<1> QED BY <1>4, <1>5, <1>6, <1>7 DEF Num

LEMMA NumEmpty == ASSUME NEW B PROVE Num(<<>>, B) = 0
<1>1. Places(<<>>, B) = {}
  BY DEF Places
<1> QED BY <1>1, FS_EmptySet DEF Num

LEMMA NumAppend ==
    ASSUME NEW S, NEW s \in Seq(S), NEW e \in S, NEW B
    PROVE  Num(Append(s, e), B) = Num(s, B) + One(e \in B)
<1> DEFINE n == Len(s)
           t == Append(s, e)
<1>1. n \in Nat /\ DOMAIN s = 1..n
  BY LenProperties
<1>2. DOMAIN t = 1..(n + 1) /\ t[n + 1] = e /\ \A i \in 1..n : t[i] = s[i]
  BY AppendProperties, LenProperties
<1>3. IsFiniteSet(Places(s, B)) /\ Num(s, B) \in Nat
  BY NumIs
<1>4. n + 1 \notin Places(s, B)
  BY <1>1 DEF Places
<1>5. Places(t, B) = IF e \in B THEN Places(s, B) \cup {n + 1} ELSE Places(s, B)
  <2> HIDE DEF t, n
  <2> QED BY <1>1, <1>2 DEF Places
<1>6. Cardinality(Places(s, B) \cup {n + 1}) = Cardinality(Places(s, B)) + 1
  BY <1>3, <1>4, FS_AddElement
<1> QED BY <1>3, <1>5, <1>6 DEF Num, One

LEMMA NumOne == ASSUME NEW e, NEW B PROVE Num(<<e>>, B) = One(e \in B)
<1>1. <<>> \in Seq({e}) /\ e \in {e}
  BY EmptySeq
<1>2. Num(Append(<<>>, e), B) = Num(<<>>, B) + One(e \in B)
  BY <1>1, NumAppend
<1>3. Append(<<>>, e) = <<e>>
  OBVIOUS
<1> QED BY <1>2, <1>3, NumEmpty DEF One

LEMMA NumConcat ==
    ASSUME NEW S, NEW s \in Seq(S), NEW t \in Seq(S), NEW B
    PROVE  Num(s \o t, B) = Num(s, B) + Num(t, B)
<1> DEFINE m == Len(s)
           n == Len(t)
           u == s \o t
           Shifted == {i \in m + 1 .. m + n : t[i - m] \in B}
           f == [i \in Places(t, B) |-> i + m]
<1>1. m \in Nat /\ n \in Nat /\ DOMAIN s = 1..m /\ DOMAIN t = 1..n
  BY LenProperties
<1>2. DOMAIN u = 1..(m + n)
      /\ \A i \in 1..(m + n) : u[i] = IF i <= m THEN s[i] ELSE t[i - m]
  BY ConcatProperties, LenProperties
<1>3. IsFiniteSet(Places(s, B)) /\ IsFiniteSet(Places(t, B))
  BY NumIs
<1>4. f \in Bijection(Places(t, B), Shifted)
  <2>1. \A i \in Places(t, B) : i \in 1..n /\ t[i] \in B
    BY <1>1 DEF Places
  <2>2. \A i \in Places(t, B) : i + m \in Shifted
    BY <1>1, <2>1
  <2>3. \A i, k \in Places(t, B) : i + m = k + m => i = k
    BY <1>1, <2>1
  <2>4. \A k \in Shifted : k - m \in Places(t, B) /\ (k - m) + m = k
    BY <1>1 DEF Places
  <2>5. f \in Injection(Places(t, B), Shifted)
    <3> HIDE DEF Shifted
    <3> QED BY <2>2, <2>3 DEF Injection, IsInjective
  <2>6. f \in Surjection(Places(t, B), Shifted)
    <3> HIDE DEF Shifted
    <3>1. f \in [Places(t, B) -> Shifted]
      BY <2>2
    <3>2. \A k \in Shifted : \E i \in Places(t, B) : f[i] = k
      BY <2>4
    <3> QED BY <3>1, <3>2 DEF Surjection
  <2> QED BY <2>5, <2>6 DEF Bijection
<1>5. IsFiniteSet(Shifted) /\ Cardinality(Shifted) = Cardinality(Places(t, B))
  <2> HIDE DEF f, Shifted
  <2> QED BY <1>3, <1>4, FS_Bijection DEF ExistsBijection
<1>6. Places(u, B) = Places(s, B) \cup Shifted
  <2>1. \A i : i \in 1..(m + n) => (i \in 1..m \/ i \in m + 1 .. m + n)
    BY <1>1
  <2>2. \A i \in 1..m : i \in 1..(m + n) /\ u[i] = s[i]
    BY <1>1, <1>2
  <2>3. \A i \in m + 1 .. m + n : i \in 1..(m + n) /\ u[i] = t[i - m]
    BY <1>1, <1>2
  <2> HIDE DEF m, n, u
  <2> QED BY <1>1, <1>2, <2>1, <2>2, <2>3 DEF Places
<1>7. Places(s, B) \cap Shifted = {}
  BY <1>1 DEF Places
<1> HIDE DEF Shifted, u
<1>8. Cardinality(Places(s, B)) \in Nat /\ Cardinality(Shifted) \in Nat
  BY <1>3, <1>5, FS_CardinalityType
<1>9. Cardinality(Places(s, B) \cup Shifted)
         = Cardinality(Places(s, B)) + Cardinality(Shifted) - Cardinality({})
  BY <1>3, <1>5, <1>7, FS_Union
<1> QED BY <1>5, <1>6, <1>8, <1>9, FS_EmptySet DEF Num, u

LEMMA NumTail ==
    ASSUME NEW S, NEW s \in Seq(S), s # <<>>, NEW B
    PROVE  Num(s, B) = One(Head(s) \in B) + Num(Tail(s), B)
<1> DEFINE t == <<Head(s)>>
<1>1. t \in Seq(S) /\ Tail(s) \in Seq(S)
  BY HeadTailProperties
<1>2. s = t \o Tail(s)
  OBVIOUS
<1>3. Num(t \o Tail(s), B) = Num(t, B) + Num(Tail(s), B)
  BY <1>1, NumConcat
<1> QED BY <1>2, <1>3, NumOne

LEMMA NumRemove ==
    ASSUME NEW S, NEW s \in Seq(S), NEW i \in 1..Len(s), NEW B
    PROVE  /\ RemoveAt(s, i) \in Seq(S)
           /\ Num(RemoveAt(s, i), B) + One(s[i] \in B) = Num(s, B)
<1> DEFINE n == Len(s)
           a == SubSeq(s, 1, i - 1)
           e == <<s[i]>>
           b == SubSeq(s, i + 1, n)
           c == a \o e
<1>1. n \in Nat /\ \A k \in 1..n : s[k] \in S
  BY LenProperties, ElementOfSeq
<1>2. /\ a \in Seq(S) /\ Len(a) = i - 1
      /\ \A k \in 1..(i - 1) : a[k] = s[k]
  <2>1. \A k \in 1..(i - 1) : s[k] \in S
    BY <1>1
  <2>2. 1 \in Int /\ i - 1 \in Int
    BY <1>1
  <2> DEFINE m == 1
             l == i - 1
  <2>3. /\ SubSeq(s, m, l) \in Seq(S) /\ Len(SubSeq(s, m, l)) = IF m <= l THEN l - m + 1 ELSE 0
        /\ \A k \in 1..(l - m + 1) : SubSeq(s, m, l)[k] = s[m + k - 1]
    BY <2>1, <2>2, SubSeqProperties
  <2>4. Len(a) = i - 1
    BY <1>1, <2>3
  <2>5. \A k \in 1..(i - 1) : a[k] = s[k]
    BY <1>1, <2>3
  <2> QED BY <2>3, <2>4, <2>5
<1>3. /\ b \in Seq(S) /\ Len(b) = n - i
      /\ \A k \in 1..(n - i) : b[k] = s[i + k]
  <2> HIDE DEF n
  <2>1. \A k \in (i + 1)..n : s[k] \in S
    BY <1>1
  <2>2. i + 1 \in Int /\ n \in Int /\ i \in 1..n
    BY <1>1 DEF n
  <2> DEFINE m == i + 1
  <2>3. /\ SubSeq(s, m, n) \in Seq(S) /\ Len(SubSeq(s, m, n)) = IF m <= n THEN n - m + 1 ELSE 0
        /\ \A k \in 1..(n - m + 1) : SubSeq(s, m, n)[k] = s[m + k - 1]
    BY <2>1, <2>2, SubSeqProperties
  <2>4. Len(b) = n - i
    BY <1>1, <2>2, <2>3
  <2>5. \A k \in 1..(n - i) : b[k] = s[i + k]
    BY <1>1, <2>2, <2>3
  <2> QED BY <2>3, <2>4, <2>5
<1>4. e \in Seq(S) /\ Len(e) = 1 /\ e[1] = s[i]
  BY <1>1
<1>5. RemoveAt(s, i) = a \o b
  BY DEF RemoveAt
<1> HIDE DEF a, e, b, n
<1>6. /\ c \in Seq(S) /\ Len(c) = i
      /\ \A k \in 1..i : c[k] = s[k]
  <2>1. /\ c \in Seq(S) /\ Len(c) = Len(a) + Len(e)
        /\ \A k \in 1..(Len(a) + Len(e)) : c[k] = IF k <= Len(a) THEN a[k] ELSE e[k - Len(a)]
    BY <1>2, <1>4, ConcatProperties
  <2> HIDE DEF c
  <2>2. Len(a) + Len(e) = i /\ i \in 1..n
    BY <1>1, <1>2, <1>4 DEF n
  <2>3. ASSUME NEW k \in 1..i PROVE c[k] = s[k]
    <3>1. CASE k <= i - 1
      BY <1>1, <1>2, <2>1, <2>2, <3>1
    <3>2. CASE k = i
      <4>1. Len(a) = i - 1 /\ k - Len(a) = 1 /\ ~(k <= Len(a)) /\ k \in 1..(Len(a) + Len(e))
        BY <1>1, <1>2, <1>4, <2>2, <3>2
      <4>2. c[k] = e[1]
        BY <2>1, <4>1
      <4> QED BY <1>4, <3>2, <4>2
    <3> QED BY <1>1, <2>2, <3>1, <3>2
  <2> QED BY <2>1, <2>2, <2>3
<1> HIDE DEF c
<1>7. c \o b = s
  <2> DEFINE t == c \o b
  <2>1. /\ t \in Seq(S) /\ Len(t) = Len(c) + Len(b)
        /\ \A k \in 1..(Len(c) + Len(b)) : t[k] = IF k <= Len(c) THEN c[k] ELSE b[k - Len(c)]
    BY <1>3, <1>6, ConcatProperties
  <2> HIDE DEF t
  <2>2. Len(t) = n /\ i \in 1..n
    BY <1>1, <1>3, <1>6, <2>1 DEF n
  <2>3. ASSUME NEW k \in 1..n PROVE t[k] = s[k]
    <3>1. t[k] = IF k <= i THEN c[k] ELSE b[k - i]
      BY <1>1, <1>3, <1>6, <2>1, <2>2
    <3>2. CASE k <= i
      BY <1>1, <1>6, <2>2, <3>1, <3>2
    <3>3. CASE k > i
      <4>1. k - i \in 1..(n - i) /\ i + (k - i) = k
        BY <1>1, <2>2, <3>3
      <4> QED BY <1>1, <1>3, <2>2, <3>1, <3>3, <4>1
    <3> QED BY <1>1, <2>2, <3>2, <3>3
  <2>4. t = s
    BY <2>1, <2>2, <2>3, SeqEqual DEF n
  <2> QED BY <2>4 DEF t
<1>8. a \o b \in Seq(S) /\ Num(a \o b, B) = Num(a, B) + Num(b, B)
  BY <1>2, <1>3, ConcatProperties, NumConcat
<1>9. Num(c, B) = Num(a, B) + Num(e, B) /\ Num(c \o b, B) = Num(c, B) + Num(b, B)
  <2>1. Num(a \o e, B) = Num(a, B) + Num(e, B)
    BY <1>2, <1>4, NumConcat
  <2>2. Num(c \o b, B) = Num(c, B) + Num(b, B)
    BY <1>3, <1>6, NumConcat
  <2> QED BY <2>1, <2>2 DEF c
<1>10. Num(e, B) = One(s[i] \in B)
  BY NumOne DEF e
<1>11. Num(a, B) \in Nat /\ Num(b, B) \in Nat /\ One(s[i] \in B) \in Nat
  BY <1>2, <1>3, NumIs DEF One
<1> QED BY <1>5, <1>7, <1>8, <1>9, <1>10, <1>11

LEMMA NumReplace ==
    ASSUME NEW S, NEW s \in Seq(S), NEW n \in 1..Len(s), NEW e \in S, NEW B
    PROVE  Num([s EXCEPT ![n] = e], B) + One(s[n] \in B) = Num(s, B) + One(e \in B)
<1> DEFINE t == [s EXCEPT ![n] = e]
<1>1. /\ t \in Seq(S) /\ DOMAIN t = DOMAIN s /\ n \in DOMAIN s
      /\ \A i \in DOMAIN s : t[i] = IF i = n THEN e ELSE s[i]
  BY LenProperties, ExceptSeq
<1>2. IsFiniteSet(Places(s, B)) /\ IsFiniteSet(Places(t, B))
  BY <1>1, NumIs
<1> HIDE DEF t
<1>3. Places(t, B) \ {n} = Places(s, B) \ {n}
  BY <1>1 DEF Places
<1>4. (n \in Places(t, B) <=> e \in B) /\ (n \in Places(s, B) <=> s[n] \in B)
  BY <1>1 DEF Places
<1> DEFINE P == Places(t, B)
           Q == Places(s, B)
<1>5. Cardinality(P) \in Nat /\ Cardinality(Q) \in Nat
  BY <1>2, FS_CardinalityType
<1>6. Cardinality(P \ {n}) = IF n \in P THEN Cardinality(P) - 1 ELSE Cardinality(P)
  BY <1>2, FS_RemoveElement
<1>7. Cardinality(Q \ {n}) = IF n \in Q THEN Cardinality(Q) - 1 ELSE Cardinality(Q)
  BY <1>2, FS_RemoveElement
<1>8. Num(t, B) = Cardinality(P) /\ Num(s, B) = Cardinality(Q)
  BY DEF Num
<1> HIDE DEF P, Q
<1>9. Cardinality(P \ {n}) = Cardinality(Q \ {n})
  BY <1>3 DEF P, Q
<1>10. (n \in P <=> e \in B) /\ (n \in Q <=> s[n] \in B)
  BY <1>4 DEF P, Q
<1>11. One(e \in B) = IF n \in P THEN 1 ELSE 0
  BY <1>10 DEF One
<1>12. One(s[n] \in B) = IF n \in Q THEN 1 ELSE 0
  BY <1>10 DEF One
<1>13. Num(t, B) + One(s[n] \in B) = Num(s, B) + One(e \in B)
  BY <1>5, <1>6, <1>7, <1>8, <1>9, <1>11, <1>12
<1> QED BY <1>13 DEF t

LEMMA NumSame ==
    ASSUME NEW s, NEW B, NEW C, Range(s) \cap B = Range(s) \cap C
    PROVE  Num(s, B) = Num(s, C)
<1>1. Places(s, B) = Places(s, C)
  BY DEF Places, Range
<1> QED BY <1>1 DEF Num

LEMMA FlattenSteps ==
    ASSUME NEW R, NEW ss \in Seq(Seq(R)), Len(ss) # 0
    PROVE  \E f : /\ f = [i \in 1..Len(ss) |-> IF i = 1 THEN ss[i] ELSE f[i - 1] \o ss[i]]
                  /\ f \in [1..Len(ss) -> Seq(R)]
<1> DEFINE P == Seq(R)
           n == Len(ss)
           z == 1
           T == [q \in P \X (z + 1 .. n) |-> q[1] \o ss[q[2]]]
<1>1. n \in Nat /\ \A i \in 1..n : ss[i] \in P
  BY LenProperties, ElementOfSeq
<1>2. z \in Int /\ n \in Int /\ z <= n /\ ss[1] \in P
  BY <1>1
<1>3. T \in [P \X (z + 1 .. n) -> P]
  <2>1. \A q \in P \X (z + 1 .. n) : q[1] \in P /\ q[2] \in 1..n
    OBVIOUS
  <2>2. \A q \in P \X (z + 1 .. n) : q[1] \o ss[q[2]] \in P
    BY <1>1, <2>1, ConcatProperties
  <2> QED BY <2>2
<1>4. \A x \in P : \A i \in z + 1 .. n : T[<<x, i>>] = x \o ss[i]
  OBVIOUS
<1> HIDE DEF T
<1>5. PICK f \in [1..n -> P] : Steps(f, 1, n, ss[1], T)
  <2> HIDE DEF n, z, P
  <2>1. \E f \in [z..n -> P] : Steps(f, z, n, ss[1], T)
    BY <1>2, <1>3, StepsExist
  <2> QED BY <2>1 DEF z
<1>6. ASSUME NEW i \in 1..n, i # 1 PROVE T[<<f[i - 1], i>>] = f[i - 1] \o ss[i]
  <2>1. i \in z + 1 .. n /\ i - 1 \in 1..n
    BY <1>1, <1>6
  <2> QED BY <1>4, <1>5, <2>1
<1>7. f = [i \in 1..n |-> IF i = 1 THEN ss[i] ELSE f[i - 1] \o ss[i]]
  BY <1>5, <1>6 DEF Steps
<1> QED BY <1>5, <1>7

LEMMA FlattenCount ==
    ASSUME NEW R, NEW ss \in Seq(Seq(R)), NEW B, NEW N,
           N[0] = 0, \A i \in 1..Len(ss) : N[i] = N[i - 1] + Num(ss[i], B)
    PROVE  Num(FlattenSeq(ss), B) = N[Len(ss)]
<1> DEFINE n == Len(ss)
           Through(f) == f = [i \in 1..n |-> IF i = 1 THEN ss[i] ELSE f[i - 1] \o ss[i]]
           g == CHOOSE f : Through(f)
<1>1. n \in Nat /\ \A i \in 1..n : ss[i] \in Seq(R)
  BY LenProperties, ElementOfSeq
<1>2. CASE n = 0
  <2>1. ss = <<>> /\ FlattenSeq(ss) = ss
    BY <1>2, EmptySeq DEF FlattenSeq
  <2> QED BY <1>2, <2>1, NumEmpty
<1>3. CASE n # 0
  <2>1. \E f : Through(f) /\ f \in [1..n -> Seq(R)]
    BY <1>1, <1>3, FlattenSteps
  <2>2. Through(g)
    <3> HIDE DEF Through
    <3> QED BY <2>1
  <2>3. FlattenSeq(ss) = g[n]
    BY <1>3 DEF FlattenSeq
  <2> HIDE DEF g
  <2>4. \A i \in 1..n : g[i] = IF i = 1 THEN ss[i] ELSE g[i - 1] \o ss[i]
    BY <2>2
  <2> DEFINE z == 1
             G == {i \in 1..n : g[i] \in Seq(R) /\ Num(g[i], B) = N[i]}
  <2>5. z \in G
    <3>1. z \in 1..n /\ g[1] = ss[1] /\ N[1] = N[1 - 1] + Num(ss[1], B) /\ 1 - 1 = 0
      BY <1>1, <1>3, <2>4
    <3>2. ss[1] \in Seq(R) /\ Num(ss[1], B) \in Nat
      BY <1>1, <3>1, NumIs
    <3> QED BY <3>1, <3>2
  <2>6. \A i \in z..(n - 1) : i \in G => i + 1 \in G
    <3>1. ASSUME NEW i \in z..(n - 1), g[i] \in Seq(R), Num(g[i], B) = N[i]
          PROVE  g[i + 1] \in Seq(R) /\ Num(g[i + 1], B) = N[i + 1]
      <4> DEFINE k == i + 1
      <4>1. k \in 1..n /\ k - 1 = i /\ k # 1
        BY <1>1
      <4> HIDE DEF k
      <4>2. g[k] = g[i] \o ss[k] /\ ss[k] \in Seq(R)
        BY <1>1, <2>4, <4>1
      <4>3. N[k] = N[i] + Num(ss[k], B)
        BY <4>1
      <4>4. g[k] \in Seq(R) /\ Num(g[k], B) = N[k]
        BY <3>1, <4>2, <4>3, ConcatProperties, NumConcat
      <4> QED BY <4>4 DEF k
    <3> QED BY <1>1, <3>1
  <2>7. \A i \in z..n : i \in G
    <3>1. z \in Int /\ n \in Int
      BY <1>1
    <3> HIDE DEF G, z, n
    <3> QED BY <2>5, <2>6, <3>1, InductFrom
  <2>8. n \in z..n
    BY <1>1, <1>3
  <2> QED BY <2>3, <2>7, <2>8
<1> QED BY <1>2, <1>3

-----------------------------------------------------------------------------
(* A client Doc, when one of its methods makes y of x: it keeps its shape, *)
(* gains the callbacks G and loses none, and sends as many requests as     *)
(* become inflight, where s answers to subscribes and f to fetches came.   *)
Sound(x) ==
    /\ x \in DocShape
    /\ Len(x.infFetch) <= 1
    /\ x.ticks = 0 \/ (x.ticks = 1 /\ x.infSub # None /\ ~x.infSub.want)

Gains(x, y, G) == \A c \in Nat : Weight(y, c) = Weight(x, c) + One(c \in G)
Balance(x, y, s, f) ==
    /\ Sends(y, Subscribing) + Inf(x) = Sends(x, Subscribing) + Inf(y) + s
    /\ Sends(y, Fetching) + Fet(x) = Sends(x, Fetching) + Fet(y) + f
Quietly(x, y) ==
    /\ y.out = x.out /\ y.infFetch = x.infFetch
    /\ (x.ticks = 0 => x.infSub = None) => (y.ticks = 0 => y.infSub = None)
Handled(x, y, live, G) ==
    /\ Sound(y) /\ Gains(x, y, G)
    /\ live => Balance(x, y, 0, 0)
    /\ ~live => Quietly(x, y)

LEMMA OneIs == ASSUME NEW P PROVE One(P) \in Nat /\ One(P) <= 1 /\ (One(P) = 1 <=> P) /\ (One(P) = 0 <=> ~P)
BY DEF One

LEMMA NotNone == None \notin Nat /\ None \notin Subs
BY NoneAssumption DEF Subs, Groups

LEMMA WeightIs ==
    ASSUME NEW x \in DocShape, NEW c
    PROVE  /\ Num(x.infFetch, Having(c)) \in Nat /\ Num(x.penFetch, Having(c)) \in Nat
           /\ Num(x.late, Having(c)) \in Nat /\ Num(x.penSub, SubsOf(c)) \in Nat /\ Num(x.told, ToldOf(c)) \in Nat
           /\ One(x.infSub # None /\ c \in x.infSub.cbs) \in Nat
           /\ Waits(x, c) \in Nat /\ Weight(x, c) \in Nat /\ Waits(x, c) <= Weight(x, c)
<1>1. /\ x.infFetch \in Seq(Groups) /\ x.penFetch \in Seq(Groups)
      /\ x.penSub \in Seq(Subs) /\ x.told \in Seq(Tolds) /\ x.late \in Seq(Groups)
  BY DEF DocShape
<1>2. /\ Num(x.infFetch, Having(c)) \in Nat /\ Num(x.penFetch, Having(c)) \in Nat
      /\ Num(x.late, Having(c)) \in Nat /\ Num(x.penSub, SubsOf(c)) \in Nat /\ Num(x.told, ToldOf(c)) \in Nat
  BY <1>1, NumIs
<1>3. One(x.infSub # None /\ c \in x.infSub.cbs) \in Nat
  BY OneIs
<1> QED BY <1>2, <1>3 DEF Weight, Waits

LEMMA SendsIs ==
    ASSUME NEW x \in DocShape, NEW K
    PROVE  Sends(x, K) \in Nat /\ Inf(x) \in Nat /\ Fet(x) \in Nat
<1>1. x.out \in Seq(Outs) /\ x.infFetch \in Seq(Groups)
  BY DEF DocShape
<1>2. Sends(x, K) \in Nat
  BY <1>1, NumIs DEF Sends
<1> QED BY <1>1, <1>2, LenProperties DEF Inf, Fet, One

LEMMA SendsMore ==
    ASSUME NEW x \in DocShape, NEW K, NEW a \in {"f", "s", "u"}, NEW v \in Versions
    PROVE  /\ Append(x.out, [a |-> a, v |-> v]) \in Seq(Outs)
           /\ Num(Append(x.out, [a |-> a, v |-> v]), {o \in Outs : o.a \in K})
                = Sends(x, K) + One(a \in K)
<1> DEFINE e == [a |-> a, v |-> v]
<1>1. x.out \in Seq(Outs) /\ e \in Outs
  BY DEF DocShape, Outs
<1>2. Num(Append(x.out, e), {o \in Outs : o.a \in K})
         = Sends(x, K) + One(e \in {o \in Outs : o.a \in K})
  BY <1>1, NumAppend DEF Sends
<1>3. e \in {o \in Outs : o.a \in K} <=> a \in K
  BY <1>1
<1>4. Append(x.out, e) \in Seq(Outs)
  BY <1>1, AppendProperties
<1> HIDE DEF e
<1>5. One(e \in {o \in Outs : o.a \in K}) = One(a \in K)
  BY <1>3 DEF One
<1> QED BY <1>2, <1>4, <1>5 DEF e

LEMMA SameBalance ==
    ASSUME NEW x \in DocShape, NEW y \in DocShape,
           y.infFetch = x.infFetch, y.infSub = x.infSub, y.out = x.out, y.ticks = x.ticks
    PROVE  Balance(x, y, 0, 0) /\ Quietly(x, y)
<1>1. /\ Sends(x, Subscribing) \in Nat /\ Sends(x, Fetching) \in Nat
      /\ Inf(x) \in Nat /\ Fet(x) \in Nat
  BY SendsIs
<1>2. /\ Sends(y, Subscribing) = Sends(x, Subscribing) /\ Sends(y, Fetching) = Sends(x, Fetching)
      /\ Inf(y) = Inf(x) /\ Fet(y) = Fet(x)
  BY DEF Sends, Inf, Fet
<1>3. Balance(x, y, 0, 0)
  BY <1>1, <1>2 DEF Balance
<1> QED BY <1>3 DEF Quietly

(* A doc in which only what does not count has changed.                    *)
LEMMA TellHandled ==
    ASSUME NEW live \in BOOLEAN, NEW x, Sound(x), NEW cbs \in Groups, NEW how \in Hows
    PROVE  Handled(x, Tell(x, cbs, how), live, cbs)
<1> DEFINE t == [cbs |-> cbs, how |-> how]
           y == Tell(x, cbs, how)
<1>1. x \in DocShape /\ x.told \in Seq(Tolds) /\ t \in Tolds
  BY DEF Sound, DocShape, Tolds
<1>2. Append(x.told, t) \in Seq(Tolds)
  BY <1>1, AppendProperties
<1>3. /\ y \in DocShape /\ y.told = Append(x.told, t)
      /\ y.infFetch = x.infFetch /\ y.penFetch = x.penFetch /\ y.penSub = x.penSub
      /\ y.infSub = x.infSub /\ y.out = x.out /\ y.ticks = x.ticks /\ y.late = x.late
  BY <1>1, <1>2 DEF Tell, DocShape
<1>4. ASSUME NEW c \in Nat PROVE Weight(y, c) = Weight(x, c) + One(c \in cbs)
  <2>1. Num(y.told, ToldOf(c)) = Num(x.told, ToldOf(c)) + One(t \in ToldOf(c))
    BY <1>1, <1>3, NumAppend
  <2>2. t \in ToldOf(c) <=> c \in cbs
    BY <1>1 DEF ToldOf
  <2>3. One(t \in ToldOf(c)) = One(c \in cbs)
    BY <2>2 DEF One
  <2> HIDE DEF y, t
  <2>4. Waits(y, c) = Waits(x, c)
    BY <1>3 DEF Waits
  <2> QED BY <1>1, <2>1, <2>3, <2>4, WeightIs, OneIs DEF Weight
<1> HIDE DEF y
<1>5. Balance(x, y, 0, 0) /\ Quietly(x, y)
  BY <1>1, <1>3, SameBalance
<1>6. Sound(y)
  BY <1>3 DEF Sound
<1> QED BY <1>4, <1>5, <1>6 DEF Handled, Gains, y

LEMMA HandledNothing ==
    ASSUME NEW live \in BOOLEAN, NEW x, Sound(x), NEW y \in DocShape,
           y.told = x.told, y.late = x.late, y.infFetch = x.infFetch, y.penFetch = x.penFetch,
           y.penSub = x.penSub, y.infSub = x.infSub, y.out = x.out, y.ticks = x.ticks
    PROVE  Handled(x, y, live, {})
<1>1. x \in DocShape
  BY DEF Sound
<1>2. \A c \in Nat : Weight(y, c) = Weight(x, c) /\ Weight(x, c) \in Nat
  BY <1>1, WeightIs DEF Weight, Waits
<1>3. \A c \in Nat : One(c \in {}) = 0
  BY DEF One
<1>4. Balance(x, y, 0, 0) /\ Quietly(x, y)
  BY <1>1, SameBalance
<1>5. Gains(x, y, {})
  BY <1>2, <1>3 DEF Gains
<1>6. Sound(y)
  BY DEF Sound
<1> QED BY <1>4, <1>5, <1>6 DEF Handled

LEMMA BalanceThen ==
    ASSUME NEW x \in DocShape, NEW y \in DocShape, NEW z \in DocShape,
           NEW s \in Nat, NEW f \in Nat, Balance(x, y, s, f), Balance(y, z, 0, 0)
    PROVE  Balance(x, z, s, f)
<1>1. /\ Sends(x, Subscribing) \in Nat /\ Sends(x, Fetching) \in Nat
      /\ Inf(x) \in Nat /\ Fet(x) \in Nat
  BY SendsIs
<1>2. /\ Sends(y, Subscribing) \in Nat /\ Sends(y, Fetching) \in Nat
      /\ Inf(y) \in Nat /\ Fet(y) \in Nat
  BY SendsIs
<1>3. /\ Sends(z, Subscribing) \in Nat /\ Sends(z, Fetching) \in Nat
      /\ Inf(z) \in Nat /\ Fet(z) \in Nat
  BY SendsIs
<1>4. Sends(z, Subscribing) + Inf(x) = Sends(x, Subscribing) + Inf(z) + s
  BY <1>1, <1>2, <1>3 DEF Balance
<1>5. Sends(z, Fetching) + Fet(x) = Sends(x, Fetching) + Fet(z) + f
  BY <1>1, <1>2, <1>3 DEF Balance
<1> QED BY <1>4, <1>5 DEF Balance

LEMMA HandledThen ==
    ASSUME NEW live \in BOOLEAN, NEW x, NEW y, NEW z, NEW G, NEW H,
           x \in DocShape, Handled(x, y, live, G), Handled(y, z, live, H),
           G = {} \/ H = {}
    PROVE  Handled(x, z, live, G \cup H)
<1>1. x \in DocShape /\ y \in DocShape /\ z \in DocShape
  BY DEF Handled, Sound
<1>2. ASSUME NEW c \in Nat PROVE Weight(z, c) = Weight(x, c) + One(c \in G \cup H)
  <2>1. Weight(y, c) = Weight(x, c) + One(c \in G) /\ Weight(z, c) = Weight(y, c) + One(c \in H)
    BY DEF Handled, Gains
  <2>2. Weight(x, c) \in Nat
    BY <1>1, WeightIs
  <2> QED BY <2>1, <2>2 DEF One
<1>3. live => Balance(x, z, 0, 0)
  <2> SUFFICES ASSUME live PROVE Balance(x, z, 0, 0)
    OBVIOUS
  <2>1. Balance(x, y, 0, 0) /\ Balance(y, z, 0, 0)
    BY DEF Handled
  <2> QED BY <1>1, <2>1, BalanceThen
<1>4. ~live => Quietly(x, z)
  BY DEF Handled, Quietly
<1> QED BY <1>2, <1>3, <1>4 DEF Handled, Gains

LEMMA QuietHandled ==
    ASSUME NEW live \in BOOLEAN, NEW x, Sound(x)
    PROVE  Handled(x, _emitNothingPending(x), live, {})
<1> DEFINE y == _emitNothingPending(x)
<1>1. /\ y \in DocShape
      /\ y.told = x.told /\ y.late = x.late /\ y.infFetch = x.infFetch /\ y.penFetch = x.penFetch
      /\ y.penSub = x.penSub /\ y.infSub = x.infSub /\ y.out = x.out /\ y.ticks = x.ticks
  BY DEF _emitNothingPending, Sound, DocShape
<1> HIDE DEF y
<1>2. Handled(x, y, live, {})
  BY <1>1, HandledNothing
<1> QED BY <1>2 DEF y

LEMMA FetchHandled ==
    ASSUME NEW live \in BOOLEAN, NEW x, Sound(x), NEW cbs \in Groups
    PROVE  Handled(x, _fetch(x, live, cbs), live, cbs)
<1> DEFINE pen == Append(x.penFetch, cbs)
           y == [x EXCEPT !.penFetch = pen]
           out == Append(x.out, [a |-> "f", v |-> x.v])
           z == [y EXCEPT !.infFetch = <<Head(pen)>>, !.penFetch = Tail(pen), !.out = out]
<1>1. x \in DocShape /\ x.penFetch \in Seq(Groups) /\ x.infFetch \in Seq(Groups) /\ x.v \in Versions
  BY DEF Sound, DocShape
<1>2. pen \in Seq(Groups) /\ pen # <<>>
  BY <1>1, AppendProperties
<1>3. Head(pen) \in Groups /\ Tail(pen) \in Seq(Groups) /\ <<Head(pen)>> \in Seq(Groups)
  <2> HIDE DEF pen
  <2> QED BY <1>2, HeadTailProperties
<1>4. out \in Seq(Outs)
  BY <1>1, SendsMore
<1> HIDE DEF out
<1>5. ASSUME NEW c \in Nat
      PROVE  /\ Num(pen, Having(c)) = Num(x.penFetch, Having(c)) + One(c \in cbs)
             /\ Num(<<Head(pen)>>, Having(c)) + Num(Tail(pen), Having(c)) = Num(pen, Having(c))
  <2>1. cbs \in Having(c) <=> c \in cbs
    BY DEF Having
  <2>2. Num(pen, Having(c)) = Num(x.penFetch, Having(c)) + One(cbs \in Having(c))
    BY <1>1, NumAppend
  <2>3. One(cbs \in Having(c)) = One(c \in cbs)
    BY <2>1 DEF One
  <2> HIDE DEF pen
  <2>4. Num(pen, Having(c)) = One(Head(pen) \in Having(c)) + Num(Tail(pen), Having(c))
    BY <1>2, NumTail
  <2>5. Num(<<Head(pen)>>, Having(c)) = One(Head(pen) \in Having(c))
    BY NumOne
  <2> QED BY <2>2, <2>3, <2>4, <2>5
<1> HIDE DEF pen
<1>6. /\ y \in DocShape
      /\ y.told = x.told /\ y.late = x.late /\ y.infFetch = x.infFetch /\ y.penFetch = pen
      /\ y.penSub = x.penSub /\ y.infSub = x.infSub /\ y.out = x.out /\ y.ticks = x.ticks
  BY <1>1, <1>2 DEF DocShape
<1>7. /\ z \in DocShape
      /\ z.told = x.told /\ z.late = x.late /\ z.infFetch = <<Head(pen)>> /\ z.penFetch = Tail(pen)
      /\ z.penSub = x.penSub /\ z.infSub = x.infSub /\ z.out = out /\ z.ticks = x.ticks
  BY <1>1, <1>3, <1>4 DEF DocShape
<1>8. _fetch(x, live, cbs) = IF live /\ x.infFetch = <<>> THEN z ELSE y
  BY <1>1 DEF _fetch, pen, out, DocShape
<1> HIDE DEF y, z
<1>9. CASE ~(live /\ x.infFetch = <<>>)
  <2>1. ASSUME NEW c \in Nat PROVE Weight(y, c) = Weight(x, c) + One(c \in cbs)
    <3>1. Num(y.penFetch, Having(c)) = Num(x.penFetch, Having(c)) + One(c \in cbs)
      BY <1>5, <1>6
    <3>2. /\ Num(x.infFetch, Having(c)) \in Nat /\ Num(x.penFetch, Having(c)) \in Nat
          /\ Num(x.late, Having(c)) \in Nat /\ Num(x.penSub, SubsOf(c)) \in Nat /\ Num(x.told, ToldOf(c)) \in Nat
          /\ One(x.infSub # None /\ c \in x.infSub.cbs) \in Nat /\ One(c \in cbs) \in Nat
      BY <1>1, WeightIs, OneIs
    <3> QED BY <1>6, <3>1, <3>2 DEF Weight, Waits
  <2>2. Balance(x, y, 0, 0) /\ Quietly(x, y)
    BY <1>1, <1>6, SameBalance
  <2>3. Sound(y)
    BY <1>6 DEF Sound
  <2> QED BY <1>8, <1>9, <2>1, <2>2, <2>3 DEF Handled, Gains
<1>10. CASE live /\ x.infFetch = <<>>
  <2>1. ASSUME NEW c \in Nat PROVE Weight(z, c) = Weight(x, c) + One(c \in cbs)
    <3>1. Num(x.infFetch, Having(c)) = 0
      BY <1>10, NumEmpty
    <3>2. Num(z.infFetch, Having(c)) + Num(z.penFetch, Having(c))
             = Num(x.penFetch, Having(c)) + One(c \in cbs)
      BY <1>5, <1>7
    <3>3. /\ Num(x.infFetch, Having(c)) \in Nat /\ Num(x.penFetch, Having(c)) \in Nat
          /\ Num(x.late, Having(c)) \in Nat /\ Num(x.penSub, SubsOf(c)) \in Nat /\ Num(x.told, ToldOf(c)) \in Nat
          /\ One(x.infSub # None /\ c \in x.infSub.cbs) \in Nat /\ One(c \in cbs) \in Nat
      BY <1>1, WeightIs, OneIs
    <3>4. Num(z.infFetch, Having(c)) \in Nat /\ Num(z.penFetch, Having(c)) \in Nat
      BY <1>7, WeightIs
    <3>5. Waits(z, c) = Waits(x, c) + One(c \in cbs)
      BY <1>7, <3>1, <3>2, <3>3, <3>4 DEF Waits
    <3>6. z.told = x.told
      BY <1>7
    <3>7. Waits(x, c) \in Nat
      BY <1>1, WeightIs
    <3> QED BY <3>3, <3>5, <3>6, <3>7 DEF Weight
  <2>2. Sends(z, Subscribing) = Sends(x, Subscribing) /\ Sends(z, Fetching) = Sends(x, Fetching) + 1
    <3>1. One("f" \in Subscribing) = 0 /\ One("f" \in Fetching) = 1
      BY DEF One, Subscribing, Fetching
    <3>2. Sends(z, Subscribing) = Sends(x, Subscribing) + One("f" \in Subscribing)
      BY <1>1, <1>7, SendsMore DEF Sends, out
    <3>3. Sends(z, Fetching) = Sends(x, Fetching) + One("f" \in Fetching)
      BY <1>1, <1>7, SendsMore DEF Sends, out
    <3> QED BY <1>1, <3>1, <3>2, <3>3, SendsIs
  <2>3. Len(z.infFetch) = 1 /\ Fet(x) = 0 /\ Fet(z) = 1
    BY <1>7, <1>10 DEF Fet
  <2>4. Inf(z) = Inf(x)
    BY <1>7 DEF Inf
  <2>5. Balance(x, z, 0, 0)
    <3>1. /\ Sends(x, Subscribing) \in Nat /\ Sends(x, Fetching) \in Nat /\ Inf(x) \in Nat
      BY <1>1, SendsIs
    <3> QED BY <2>2, <2>3, <2>4, <3>1 DEF Balance
  <2>6. Sound(z)
    BY <1>7, <2>3 DEF Sound
  <2> QED BY <1>8, <1>10, <2>1, <2>5, <2>6 DEF Handled, Gains
<1> QED BY <1>9, <1>10

-----------------------------------------------------------------------------
(* The methods of a Doc, one after the other (doc.js: _flushSubscribe,     *)
(* _queueSubscribe).                                                       *)
LEMMA FlushHandled ==
    ASSUME NEW live \in BOOLEAN, NEW x, Sound(x)
    PROVE  Handled(x, _flushSubscribe(x, live), live, {})
<1>1. /\ x \in DocShape /\ x.penSub \in Seq(Subs) /\ x.v \in Versions
      /\ x.want \in BOOLEAN /\ x.subd \in BOOLEAN /\ x.ticks \in Nat
  BY DEF Sound, DocShape
<1>2. CASE x.infSub # None \/ x.penSub = <<>>
  <2>1. _flushSubscribe(x, live) = x
    BY <1>2 DEF _flushSubscribe
  <2> QED BY <1>1, <2>1, HandledNothing
<1>3. CASE x.infSub = None /\ x.penSub # <<>>
  <2> DEFINE r == Head(x.penSub)
             taken == [x EXCEPT !.infSub = r, !.penSub = Tail(@)]
             a == IF r.want THEN "s" ELSE "u"
             v == IF r.want THEN x.v ELSE None
             out == Append(x.out, [a |-> a, v |-> v])
             y == [taken EXCEPT !.want = r.want, !.subd = @ /\ r.want, !.out = Append(@, [a |-> a, v |-> v])]
             z == [taken EXCEPT !.ticks = @ + 1]
  <2>1. r \in Subs /\ Tail(x.penSub) \in Seq(Subs) /\ r.want \in BOOLEAN /\ r # None
    <3>1. r \in Subs /\ Tail(x.penSub) \in Seq(Subs)
      BY <1>1, <1>3, HeadTailProperties
    <3> HIDE DEF r
    <3> QED BY <3>1, NotNone DEF Subs
  <2>2. a \in {"f", "s", "u"} /\ v \in Versions /\ x.ticks = 0
    BY <1>1, <1>3 DEF Versions, Sound
  <2>3. _flushSubscribe(x, live) = CASE live -> y [] ~live /\ ~r.want -> z [] OTHER -> x
    BY <1>3 DEF _flushSubscribe
  <2>4. ASSUME NEW c \in Nat
        PROVE  /\ Num(x.penSub, SubsOf(c)) = One(r \in SubsOf(c)) + Num(Tail(x.penSub), SubsOf(c))
               /\ r \in SubsOf(c) <=> c \in r.cbs
    <3>1. Num(x.penSub, SubsOf(c)) = One(r \in SubsOf(c)) + Num(Tail(x.penSub), SubsOf(c))
      BY <1>1, <1>3, NumTail
    <3> QED BY <2>1, <3>1 DEF SubsOf
  <2>5. /\ out \in Seq(Outs)
        /\ Num(out, {o \in Outs : o.a \in Subscribing}) = Sends(x, Subscribing) + One(a \in Subscribing)
        /\ Num(out, {o \in Outs : o.a \in Fetching}) = Sends(x, Fetching) + One(a \in Fetching)
    <3> HIDE DEF a, v
    <3> QED BY <1>1, <2>2, SendsMore
  <2>6. One(a \in Subscribing) = 1 /\ One(a \in Fetching) = 0
    BY DEF One, Subscribing, Fetching
  <2> HIDE DEF r, a, v, out
  <2>7. /\ taken \in DocShape
        /\ taken.told = x.told /\ taken.late = x.late /\ taken.infFetch = x.infFetch /\ taken.penFetch = x.penFetch
        /\ taken.penSub = Tail(x.penSub) /\ taken.infSub = r /\ taken.out = x.out
        /\ taken.ticks = x.ticks
    BY <1>1, <2>1 DEF DocShape
  <2>8. /\ y \in DocShape
        /\ y.told = x.told /\ y.late = x.late /\ y.infFetch = x.infFetch /\ y.penFetch = x.penFetch
        /\ y.penSub = Tail(x.penSub) /\ y.infSub = r /\ y.out = out /\ y.ticks = x.ticks
    <3>1. y = [taken EXCEPT !.want = r.want, !.subd = @ /\ r.want, !.out = out]
      BY <2>7 DEF out, DocShape
    <3>2. (x.subd /\ r.want) \in BOOLEAN
      OBVIOUS
    <3> HIDE DEF y, taken
    <3> QED BY <2>1, <2>5, <2>7, <3>1 DEF DocShape
  <2>9. /\ z \in DocShape
        /\ z.told = x.told /\ z.late = x.late /\ z.infFetch = x.infFetch /\ z.penFetch = x.penFetch
        /\ z.penSub = Tail(x.penSub) /\ z.infSub = r /\ z.out = x.out /\ z.ticks = 1
    <3> HIDE DEF taken
    <3>1. taken.ticks + 1 = 1
      BY <2>2, <2>7
    <3>2. z = [taken EXCEPT !.ticks = 1]
      BY <3>1
    <3> HIDE DEF z
    <3> QED BY <2>7, <3>2 DEF DocShape
  <2> HIDE DEF y, z, taken
  <2>10. ASSUME NEW w, w = y \/ w = z PROVE Gains(x, w, {})
    <3>1. /\ w.told = x.told /\ w.late = x.late /\ w.infFetch = x.infFetch /\ w.penFetch = x.penFetch
          /\ w.penSub = Tail(x.penSub) /\ w.infSub = r
      BY <2>8, <2>9, <2>10
    <3>2. ASSUME NEW c \in Nat PROVE Weight(w, c) = Weight(x, c) + One(c \in {})
      <4>1. /\ Num(x.infFetch, Having(c)) \in Nat /\ Num(x.penFetch, Having(c)) \in Nat
            /\ Num(x.late, Having(c)) \in Nat /\ Num(x.penSub, SubsOf(c)) \in Nat /\ Num(x.told, ToldOf(c)) \in Nat
        BY <1>1, WeightIs
      <4>2. Num(Tail(x.penSub), SubsOf(c)) \in Nat
        BY <2>1, NumIs
      <4>3. One(c \in {}) = 0 /\ One(x.infSub # None /\ c \in x.infSub.cbs) = 0
        BY <1>3 DEF One
      <4>4. One(w.infSub # None /\ c \in w.infSub.cbs) = One(r \in SubsOf(c))
        BY <2>1, <2>4, <3>1 DEF One
      <4>5. One(r \in SubsOf(c)) \in Nat
        BY OneIs
      <4> QED BY <2>4, <3>1, <4>1, <4>2, <4>3, <4>4, <4>5 DEF Weight, Waits
    <3> QED BY <3>2 DEF Gains
  <2>11. CASE live
    <3>1. Inf(x) = 0 /\ Inf(y) = 1 /\ Fet(y) = Fet(x)
      BY <1>3, <2>1, <2>2, <2>8 DEF Inf, One, Fet
    <3>2. Sends(y, Subscribing) = Sends(x, Subscribing) + 1 /\ Sends(y, Fetching) = Sends(x, Fetching) + 0
      BY <2>5, <2>6, <2>8 DEF Sends
    <3>3. Sends(x, Subscribing) \in Nat /\ Sends(x, Fetching) \in Nat /\ Fet(x) \in Nat
      BY <1>1, SendsIs
    <3>4. Balance(x, y, 0, 0)
      BY <3>1, <3>2, <3>3 DEF Balance
    <3>5. Sound(y)
      BY <2>2, <2>8 DEF Sound
    <3> QED BY <2>3, <2>10, <2>11, <3>4, <3>5 DEF Handled
  <2>12. CASE ~live /\ ~r.want
    <3>1. Sound(z) /\ Quietly(x, z)
      BY <2>1, <2>9, <2>12 DEF Sound, Quietly
    <3> QED BY <2>3, <2>10, <2>12, <3>1 DEF Handled
  <2>13. CASE ~live /\ r.want
    <3>1. Handled(x, x, live, {})
      BY <1>1, HandledNothing
    <3> QED BY <2>1, <2>3, <2>13, <3>1
  <2> QED BY <2>1, <2>11, <2>12, <2>13
<1> QED BY <1>1, <1>2, <1>3

LEMMA QueueHandled ==
    ASSUME NEW live \in BOOLEAN, NEW x, Sound(x), NEW want \in BOOLEAN,
           NEW cbs \in Groups, \A c \in cbs : Weight(x, c) = 0
    PROVE  Handled(x, _queueSubscribe(x, live, want, cbs), live, cbs)
<1> DEFINE n == Len(x.penSub)
           e == [want |-> want, cbs |-> cbs]
           last == [x.penSub[n] EXCEPT !.cbs = @ \cup cbs]
           first == [x.infSub EXCEPT !.cbs = @ \cup cbs]
           l == [x EXCEPT !.penSub[n].cbs = @ \cup cbs]
           f == [x EXCEPT !.infSub.cbs = @ \cup cbs]
           q == [x EXCEPT !.penSub = Append(@, e)]
<1>1. /\ x \in DocShape /\ x.penSub \in Seq(Subs) /\ x.infSub \in {None} \cup Subs
      /\ n \in Nat /\ DOMAIN x.penSub = 1..n /\ \A i \in 1..n : x.penSub[i] \in Subs
  BY LenProperties, ElementOfSeq DEF Sound, DocShape
<1>2. ASSUME NEW c \in Nat, c \in cbs
      PROVE  /\ \A i \in 1..n : c \notin x.penSub[i].cbs
             /\ x.infSub # None => c \notin x.infSub.cbs
  <2>1. Weight(x, c) = 0
    BY <1>2
  <2>2. Num(x.penSub, SubsOf(c)) = 0 /\ One(x.infSub # None /\ c \in x.infSub.cbs) = 0
    <3>1. /\ Num(x.infFetch, Having(c)) \in Nat /\ Num(x.penFetch, Having(c)) \in Nat
          /\ Num(x.late, Having(c)) \in Nat /\ Num(x.penSub, SubsOf(c)) \in Nat /\ Num(x.told, ToldOf(c)) \in Nat
          /\ One(x.infSub # None /\ c \in x.infSub.cbs) \in Nat
      BY <1>1, WeightIs
    <3>2. Num(x.infFetch, Having(c)) + Num(x.penFetch, Having(c)) + Num(x.late, Having(c))
             + Num(x.penSub, SubsOf(c)) + One(x.infSub # None /\ c \in x.infSub.cbs) + Num(x.told, ToldOf(c)) = 0
      BY <2>1 DEF Weight, Waits
    <3> DEFINE fs == Num(x.infFetch, Having(c))
               p == Num(x.penFetch, Having(c))
               ls == Num(x.late, Having(c))
               ps == Num(x.penSub, SubsOf(c))
               o == One(x.infSub # None /\ c \in x.infSub.cbs)
               t == Num(x.told, ToldOf(c))
    <3> HIDE DEF n, fs, p, ls, ps, o, t
    <3>3. /\ fs \in Nat /\ p \in Nat /\ ls \in Nat /\ ps \in Nat /\ t \in Nat /\ o \in Nat
          /\ fs + p + ls + ps + o + t = 0
      BY <3>1, <3>2 DEF fs, p, ls, ps, o, t
    <3>4. ps = 0 /\ o = 0
      BY <3>3
    <3> QED BY <3>4 DEF ps, o
  <2>3. Range(x.penSub) \cap SubsOf(c) = {}
    BY <1>1, <2>2, NumIs
  <2>4. \A i \in 1..n : x.penSub[i] \in Range(x.penSub)
    BY <1>1 DEF Range
  <2>5. x.infSub # None => c \notin x.infSub.cbs
    BY <2>2, OneIs
  <2> QED BY <1>1, <2>3, <2>4, <2>5 DEF SubsOf
<1>3. CASE n > 0 /\ x.penSub[n] # None /\ x.penSub[n].want = want
  <2>1. n \in 1..n /\ x.penSub[n] \in Subs
    BY <1>1, <1>3
  <2>2. last \in Subs /\ last.cbs = x.penSub[n].cbs \cup cbs
    BY <2>1 DEF Subs, Groups
  <2>3. [x.penSub EXCEPT ![n] = last] \in Seq(Subs)
    BY <1>1, <2>1, <2>2, ExceptSeq
  <2>4. l = [x EXCEPT !.penSub = [x.penSub EXCEPT ![n] = last]]
    BY <1>1, <2>1 DEF DocShape
  <2> HIDE DEF l, last
  <2>5. /\ l \in DocShape
        /\ l.told = x.told /\ l.late = x.late /\ l.infFetch = x.infFetch /\ l.penFetch = x.penFetch
        /\ l.penSub = [x.penSub EXCEPT ![n] = last] /\ l.infSub = x.infSub /\ l.out = x.out
        /\ l.ticks = x.ticks
    BY <1>1, <2>3, <2>4 DEF DocShape
  <2>6. ASSUME NEW c \in Nat PROVE Weight(l, c) = Weight(x, c) + One(c \in cbs)
    <3>1. Num(l.penSub, SubsOf(c)) + One(x.penSub[n] \in SubsOf(c))
             = Num(x.penSub, SubsOf(c)) + One(last \in SubsOf(c))
      BY <1>1, <2>1, <2>2, <2>5, NumReplace
    <3>2. One(last \in SubsOf(c)) = One(x.penSub[n] \in SubsOf(c)) + One(c \in cbs)
      BY <1>2, <2>1, <2>2 DEF One, SubsOf
    <3>3. /\ Num(x.infFetch, Having(c)) \in Nat /\ Num(x.penFetch, Having(c)) \in Nat
          /\ Num(x.late, Having(c)) \in Nat /\ Num(x.penSub, SubsOf(c)) \in Nat /\ Num(x.told, ToldOf(c)) \in Nat
          /\ One(x.infSub # None /\ c \in x.infSub.cbs) \in Nat /\ One(c \in cbs) \in Nat
          /\ One(x.penSub[n] \in SubsOf(c)) \in Nat /\ Num(l.penSub, SubsOf(c)) \in Nat
      BY <1>1, <2>5, WeightIs, OneIs
    <3>4. Num(l.penSub, SubsOf(c)) = Num(x.penSub, SubsOf(c)) + One(c \in cbs)
      <4> DEFINE a == Num(l.penSub, SubsOf(c))
                 b == Num(x.penSub, SubsOf(c))
                 p == One(x.penSub[n] \in SubsOf(c))
                 m == One(last \in SubsOf(c))
                 k == One(c \in cbs)
      <4>1. /\ a + p = b + m /\ m = p + k
            /\ a \in Nat /\ b \in Nat /\ p \in Nat /\ k \in Nat
        BY <3>1, <3>2, <3>3
      <4> HIDE DEF a, b, p, m, k
      <4>2. a = b + k
        BY <4>1
      <4> QED BY <4>2 DEF a, b, k
    <3> QED BY <2>5, <3>3, <3>4 DEF Weight, Waits
  <2>7. Balance(x, l, 0, 0) /\ Quietly(x, l)
    BY <1>1, <2>5, SameBalance
  <2>8. Sound(l)
    BY <2>5 DEF Sound
  <2>9. _queueSubscribe(x, live, want, cbs) = l
    BY <1>3 DEF _queueSubscribe, l
  <2> QED BY <2>6, <2>7, <2>8, <2>9 DEF Handled, Gains
<1>4. CASE n = 0 /\ x.infSub # None /\ x.infSub.want = want
  <2>1. first \in Subs /\ first.cbs = x.infSub.cbs \cup cbs /\ first.want = x.infSub.want /\ first # None
    <3>1. first \in Subs /\ first.cbs = x.infSub.cbs \cup cbs /\ first.want = x.infSub.want
      BY <1>1, <1>4 DEF Subs, Groups
    <3> QED BY <3>1, NotNone
  <2>2. f = [x EXCEPT !.infSub = first]
    BY <1>1, <1>4 DEF DocShape
  <2> HIDE DEF f, first
  <2>5. /\ f \in DocShape
        /\ f.told = x.told /\ f.late = x.late /\ f.infFetch = x.infFetch /\ f.penFetch = x.penFetch
        /\ f.penSub = x.penSub /\ f.infSub = first /\ f.out = x.out /\ f.ticks = x.ticks
    BY <1>1, <2>1, <2>2 DEF DocShape
  <2>6. ASSUME NEW c \in Nat PROVE Weight(f, c) = Weight(x, c) + One(c \in cbs)
    <3>1. One(f.infSub # None /\ c \in f.infSub.cbs)
             = One(x.infSub # None /\ c \in x.infSub.cbs) + One(c \in cbs)
      BY <1>2, <1>4, <2>1, <2>5 DEF One
    <3>3. /\ Num(x.infFetch, Having(c)) \in Nat /\ Num(x.penFetch, Having(c)) \in Nat
          /\ Num(x.late, Having(c)) \in Nat /\ Num(x.penSub, SubsOf(c)) \in Nat /\ Num(x.told, ToldOf(c)) \in Nat
          /\ One(x.infSub # None /\ c \in x.infSub.cbs) \in Nat /\ One(c \in cbs) \in Nat
      BY <1>1, WeightIs, OneIs
    <3> QED BY <2>5, <3>1, <3>3 DEF Weight, Waits
  <2>7. Balance(x, f, 0, 0)
    <3>1. Sends(f, Subscribing) = Sends(x, Subscribing) /\ Sends(f, Fetching) = Sends(x, Fetching)
      BY <2>5 DEF Sends
    <3>2. Inf(f) = Inf(x) /\ Fet(f) = Fet(x)
      BY <1>4, <2>1, <2>5 DEF Inf, One, Fet
    <3>3. /\ Sends(x, Subscribing) \in Nat /\ Sends(x, Fetching) \in Nat
          /\ Inf(x) \in Nat /\ Fet(x) \in Nat
      BY <1>1, SendsIs
    <3> QED BY <3>1, <3>2, <3>3 DEF Balance
  <2>8. Sound(f) /\ Quietly(x, f)
    BY <1>4, <2>1, <2>5 DEF Sound, Quietly
  <2>9. _queueSubscribe(x, live, want, cbs) = f
    <3>1. ~(n > 0)
      BY <1>4
    <3> QED BY <1>4, <3>1 DEF _queueSubscribe, f
  <2> QED BY <2>6, <2>7, <2>8, <2>9 DEF Handled, Gains
<1>5. CASE /\ ~(n > 0 /\ x.penSub[n] # None /\ x.penSub[n].want = want)
           /\ ~(n = 0 /\ x.infSub # None /\ x.infSub.want = want)
  <2>1. e \in Subs /\ Append(x.penSub, e) \in Seq(Subs)
    <3>1. e \in Subs
      BY DEF Subs
    <3> QED BY <1>1, <3>1, AppendProperties
  <2> HIDE DEF e
  <2>5. /\ q \in DocShape
        /\ q.told = x.told /\ q.late = x.late /\ q.infFetch = x.infFetch /\ q.penFetch = x.penFetch
        /\ q.penSub = Append(x.penSub, e) /\ q.infSub = x.infSub /\ q.out = x.out
        /\ q.ticks = x.ticks
    BY <1>1, <2>1 DEF DocShape
  <2>9. _queueSubscribe(x, live, want, cbs) = _flushSubscribe(q, live)
    BY <1>5 DEF _queueSubscribe, e
  <2> HIDE DEF q
  <2>6. ASSUME NEW c \in Nat PROVE Weight(q, c) = Weight(x, c) + One(c \in cbs)
    <3>1. Num(q.penSub, SubsOf(c)) = Num(x.penSub, SubsOf(c)) + One(e \in SubsOf(c))
      BY <1>1, <2>1, <2>5, NumAppend
    <3>2. One(e \in SubsOf(c)) = One(c \in cbs)
      BY <2>1 DEF One, SubsOf, e
    <3>3. /\ Num(x.infFetch, Having(c)) \in Nat /\ Num(x.penFetch, Having(c)) \in Nat
          /\ Num(x.late, Having(c)) \in Nat /\ Num(x.penSub, SubsOf(c)) \in Nat /\ Num(x.told, ToldOf(c)) \in Nat
          /\ One(x.infSub # None /\ c \in x.infSub.cbs) \in Nat /\ One(c \in cbs) \in Nat
      BY <1>1, WeightIs, OneIs
    <3> QED BY <2>5, <3>1, <3>2, <3>3 DEF Weight, Waits
  <2>7. Balance(x, q, 0, 0) /\ Quietly(x, q)
    BY <1>1, <2>5, SameBalance
  <2>8. Sound(q)
    BY <2>5 DEF Sound
  <2>10. Handled(x, q, live, cbs)
    BY <2>6, <2>7, <2>8 DEF Handled, Gains
  <2>11. Handled(q, _flushSubscribe(q, live), live, {})
    BY <2>8, FlushHandled
  <2>12. Handled(x, _flushSubscribe(q, live), live, cbs \cup {})
    BY <1>1, <2>10, <2>11, HandledThen
  <2>13. cbs \cup {} = cbs
    OBVIOUS
  <2> QED BY <2>9, <2>12, <2>13
<1> QED BY <1>3, <1>4, <1>5

-----------------------------------------------------------------------------
(* The answers that a Doc gets (doc.js: ingestSnapshot, _handleFetch,      *)
(* _handleSubscribe, _handleOp), and what a connection that comes or goes  *)
(* does to it (_resubscribe, _onConnectionStateChanged).                   *)
LEMMA NoGroup == {} \in Groups /\ {} \cup {} = {}
BY DEF Groups

LEMMA PutOffHandled ==
    ASSUME NEW live \in BOOLEAN, NEW x, Sound(x), NEW cbs \in Groups
    PROVE  Handled(x, PutOff(x, cbs), live, cbs)
<1> DEFINE late == Append(x.late, cbs)
           y == [x EXCEPT !.late = late]
<1>1. x \in DocShape /\ x.late \in Seq(Groups)
  BY DEF Sound, DocShape
<1>2. CASE cbs = {}
  <2>1. Handled(x, x, live, {})
    BY <1>1, HandledNothing
  <2> QED BY <1>2, <2>1 DEF PutOff
<1>3. CASE cbs # {}
  <2>1. late \in Seq(Groups)
    BY <1>1, AppendProperties
  <2>2. PutOff(x, cbs) = y
    BY <1>1, <1>3 DEF PutOff, DocShape
  <2>3. ASSUME NEW c \in Nat
        PROVE  Num(late, Having(c)) = Num(x.late, Having(c)) + One(c \in cbs)
    <3>1. Num(late, Having(c)) = Num(x.late, Having(c)) + One(cbs \in Having(c))
      BY <1>1, NumAppend
    <3>2. cbs \in Having(c) <=> c \in cbs
      BY DEF Having
    <3> QED BY <3>1, <3>2 DEF One
  <2> HIDE DEF late
  <2>4. /\ y \in DocShape /\ y.told = x.told /\ y.late = late
        /\ y.infFetch = x.infFetch /\ y.penFetch = x.penFetch /\ y.penSub = x.penSub
        /\ y.infSub = x.infSub /\ y.out = x.out /\ y.ticks = x.ticks
    BY <1>1, <2>1 DEF DocShape
  <2> HIDE DEF y
  <2>5. ASSUME NEW c \in Nat PROVE Weight(y, c) = Weight(x, c) + One(c \in cbs)
    <3>1. Num(y.late, Having(c)) = Num(x.late, Having(c)) + One(c \in cbs)
      BY <2>3, <2>4
    <3>2. /\ Num(x.infFetch, Having(c)) \in Nat /\ Num(x.penFetch, Having(c)) \in Nat
          /\ Num(x.late, Having(c)) \in Nat /\ Num(x.penSub, SubsOf(c)) \in Nat
          /\ Num(x.told, ToldOf(c)) \in Nat /\ One(c \in cbs) \in Nat
          /\ One(x.infSub # None /\ c \in x.infSub.cbs) \in Nat
      BY <1>1, WeightIs, OneIs
    <3> QED BY <2>4, <3>1, <3>2 DEF Weight, Waits
  <2>6. Balance(x, y, 0, 0) /\ Quietly(x, y)
    BY <1>1, <2>4, SameBalance
  <2>7. Sound(y)
    BY <2>4 DEF Sound
  <2> QED BY <2>2, <2>5, <2>6, <2>7 DEF Handled, Gains
<1> QED BY <1>2, <1>3

LEMMA IngestHandled ==
    ASSUME NEW live \in BOOLEAN, NEW x, Sound(x), NEW snap \in Versions, NEW cbs \in Groups
    PROVE  Handled(x, ingestSnapshot(x, live, snap, cbs), live, cbs)
<1> DEFINE y == [x EXCEPT !.v = snap]
<1>1. x \in DocShape
  BY DEF Sound
<1>2. /\ y \in DocShape
      /\ y.told = x.told /\ y.late = x.late /\ y.infFetch = x.infFetch /\ y.penFetch = x.penFetch
      /\ y.penSub = x.penSub /\ y.infSub = x.infSub /\ y.out = x.out /\ y.ticks = x.ticks
  BY <1>1 DEF DocShape
<1> HIDE DEF y
<1>3. Handled(x, y, live, {})
  BY <1>2, HandledNothing
<1>4. Handled(y, PutOff(y, cbs), live, cbs)
  BY <1>3, PutOffHandled DEF Handled
<1>5. Handled(x, PutOff(y, cbs), live, {} \cup cbs)
  BY <1>1, <1>3, <1>4, HandledThen
<1>6. {} \cup cbs = cbs
  OBVIOUS
<1>7. Handled(x, PutOff(x, cbs), live, cbs) /\ Handled(x, _fetch(x, live, cbs), live, cbs)
  BY PutOffHandled, FetchHandled
<1> QED BY <1>5, <1>6, <1>7 DEF ingestSnapshot, y

LEMMA ErrorHandled ==
    ASSUME NEW live \in BOOLEAN, NEW x, Sound(x), NEW cbs \in Groups, NEW how \in Hows
    PROVE  Handled(x, _emitResponseError(x, cbs, how), live, cbs)
<1> DEFINE y == [x EXCEPT !.want = @ /\ how # "silent"]
           z == Tell(y, cbs, how)
<1>1. x \in DocShape
  BY DEF Sound
<1>2. /\ y \in DocShape
      /\ y.told = x.told /\ y.late = x.late /\ y.infFetch = x.infFetch /\ y.penFetch = x.penFetch
      /\ y.penSub = x.penSub /\ y.infSub = x.infSub /\ y.out = x.out /\ y.ticks = x.ticks
  BY <1>1 DEF DocShape
<1>3. _emitResponseError(x, cbs, how) = _emitNothingPending(z)
  BY DEF _emitResponseError
<1> HIDE DEF y
<1>4. Handled(x, y, live, {})
  BY <1>2, HandledNothing
<1>5. Handled(y, z, live, cbs)
  BY <1>4, TellHandled DEF Handled
<1> HIDE DEF z
<1>6. Handled(z, _emitNothingPending(z), live, {})
  BY <1>5, QuietHandled DEF Handled
<1>7. Handled(x, z, live, {} \cup cbs)
  BY <1>1, <1>4, <1>5, HandledThen
<1>8. Handled(x, _emitNothingPending(z), live, ({} \cup cbs) \cup {})
  BY <1>1, <1>6, <1>7, HandledThen
<1>9. ({} \cup cbs) \cup {} = cbs
  OBVIOUS
<1> QED BY <1>3, <1>8, <1>9

LEMMA UnionNum ==
    ASSUME NEW p \in Seq(Groups), NEW c \in Nat
    PROVE  /\ c \in UNION Range(p) <=> Num(p, Having(c)) # 0
           /\ UNION Range(p) \in Groups
<1>1. Range(p) \subseteq Groups
  BY RangeOfSeq
<1>2. Num(p, Having(c)) = 0 <=> Range(p) \cap Having(c) = {}
  BY NumIs
<1>3. Range(p) \cap Having(c) = {} <=> c \notin UNION Range(p)
  BY <1>1 DEF Having
<1> QED BY <1>1, <1>2, <1>3 DEF Groups

(* No call counts twice.                                                   *)
Single(x) == \A c \in Nat : Weight(x, c) <= 1

(* The doc has been relieved of the calls G, and then gained them again.   *)
Loses(x, y, G) == \A c \in Nat : Weight(y, c) + One(c \in G) = Weight(x, c)

LEMMA LostAndGained ==
    ASSUME NEW x \in DocShape, NEW y \in DocShape, NEW z \in DocShape, NEW G,
           Loses(x, y, G), Gains(y, z, G)
    PROVE  Gains(x, z, {})
<1> SUFFICES ASSUME NEW c \in Nat PROVE Weight(z, c) = Weight(x, c) + One(c \in {})
  BY DEF Gains
<1>1. Weight(y, c) + One(c \in G) = Weight(x, c) /\ Weight(z, c) = Weight(y, c) + One(c \in G)
  BY DEF Loses, Gains
<1>2. One(c \in {}) = 0
  BY DEF One
<1>3. Weight(x, c) \in Nat
  BY WeightIs
<1> QED BY <1>1, <1>2, <1>3

LEMMA HandleFetchHandled ==
    ASSUME NEW x, Sound(x), Single(x), x.infFetch # <<>>,
           NEW r, r.v \in Versions, r.how \in Hows
    PROVE  /\ Sound(_handleFetch(x, TRUE, r))
           /\ Gains(x, _handleFetch(x, TRUE, r), {})
           /\ Balance(x, _handleFetch(x, TRUE, r), 0, 1)
<1> DEFINE first == Head(x.infFetch)
           cbs == first \cup UNION Range(x.penFetch)
           y == [x EXCEPT !.penFetch = <<>>,
                          !.infFetch = IF @ = <<>> THEN @ ELSE Tail(@)]
           z == _handleFetch(x, TRUE, r)
           w == ingestSnapshot(y, TRUE, r.v, cbs)
<1>1. /\ x \in DocShape /\ x.penFetch \in Seq(Groups) /\ x.infFetch \in Seq(Groups)
      /\ Len(x.infFetch) <= 1
  BY DEF Sound, DocShape
<1>2. first \in Groups /\ Tail(x.infFetch) \in Seq(Groups) /\ Len(x.infFetch) \in Nat
      /\ Len(Tail(x.infFetch)) = Len(x.infFetch) - 1
  BY <1>1, HeadTailProperties, LenProperties
<1>3. Len(x.infFetch) = 1 /\ Tail(x.infFetch) = <<>>
  <2>1. Len(x.infFetch) # 0
    BY <1>1, EmptySeq
  <2>2. Len(x.infFetch) = 1
    <3> DEFINE n == Len(x.infFetch)
    <3>1. n \in Nat /\ n <= 1 /\ n # 0
      BY <1>1, <1>2, <2>1
    <3> HIDE DEF n
    <3>2. n = 1
      BY <3>1
    <3> QED BY <3>2 DEF n
  <2>3. Len(Tail(x.infFetch)) = 0
    BY <1>2, <2>2
  <2> QED BY <1>2, <2>2, <2>3, EmptySeq
<1>4. cbs \in Groups
  <2>1. 0 \in Nat
    OBVIOUS
  <2>2. UNION Range(x.penFetch) \in Groups
    BY <1>1, <2>1, UnionNum
  <2> QED BY <1>2, <2>2 DEF Groups
<1>5. /\ y \in DocShape
      /\ y.told = x.told /\ y.late = x.late /\ y.infFetch = <<>> /\ y.penFetch = <<>>
      /\ y.penSub = x.penSub /\ y.infSub = x.infSub /\ y.out = x.out /\ y.ticks = x.ticks
  <2>1. y = [x EXCEPT !.penFetch = <<>>, !.infFetch = <<>>]
    BY <1>1, <1>3 DEF DocShape
  <2>2. <<>> \in Seq(Groups)
    BY EmptySeq
  <2> HIDE DEF y
  <2> QED BY <1>1, <2>1, <2>2 DEF DocShape
<1>6. z = IF r.how # "ok" THEN _emitResponseError(y, cbs, r.how)
          ELSE _emitNothingPending(w)
  BY DEF _handleFetch
<1>7. Loses(x, y, cbs)
  <2> SUFFICES ASSUME NEW c \in Nat PROVE Weight(y, c) + One(c \in cbs) = Weight(x, c)
    BY DEF Loses
  <2>1. Num(x.infFetch, Having(c)) = One(first \in Having(c))
    <3>1. Num(x.infFetch, Having(c)) = One(first \in Having(c)) + Num(Tail(x.infFetch), Having(c))
      BY <1>1, NumTail
    <3>2. Num(Tail(x.infFetch), Having(c)) = 0
      BY <1>3, NumEmpty
    <3> HIDE DEF first
    <3> QED BY <3>1, <3>2, OneIs
  <2>2. first \in Having(c) <=> c \in first
    BY <1>2 DEF Having
  <2>3. c \in UNION Range(x.penFetch) <=> Num(x.penFetch, Having(c)) # 0
    BY <1>1, UnionNum
  <2> HIDE DEF y, first
  <2>4. /\ Num(x.infFetch, Having(c)) \in Nat /\ Num(x.penFetch, Having(c)) \in Nat
        /\ Num(x.late, Having(c)) \in Nat /\ Num(x.penSub, SubsOf(c)) \in Nat /\ Num(x.told, ToldOf(c)) \in Nat
        /\ One(x.infSub # None /\ c \in x.infSub.cbs) \in Nat
    BY <1>1, WeightIs
  <2>5. Weight(x, c) <= 1
    BY DEF Single
  <2>6. One(c \in cbs) = Num(x.infFetch, Having(c)) + Num(x.penFetch, Having(c))
    <3>1. Num(x.infFetch, Having(c)) + Num(x.penFetch, Having(c)) <= 1
      BY <2>4, <2>5 DEF Weight, Waits
    <3>2. Num(x.infFetch, Having(c)) = IF c \in first THEN 1 ELSE 0
      BY <2>1, <2>2 DEF One
    <3> QED BY <2>3, <2>4, <3>1, <3>2 DEF One
  <2>7. Num(y.infFetch, Having(c)) = 0 /\ Num(y.penFetch, Having(c)) = 0
    BY <1>5, NumEmpty
  <2> HIDE DEF cbs
  <2> QED BY <1>5, <2>4, <2>6, <2>7 DEF Weight, Waits
<1>8. Balance(x, y, 0, 1)
  <2>1. Fet(x) = 1 /\ Fet(y) = 0
    BY <1>3, <1>5 DEF Fet
  <2>2. Inf(y) = Inf(x) /\ Sends(y, Subscribing) = Sends(x, Subscribing)
        /\ Sends(y, Fetching) = Sends(x, Fetching)
    BY <1>5 DEF Inf, Sends
  <2>3. Inf(x) \in Nat /\ Sends(x, Subscribing) \in Nat /\ Sends(x, Fetching) \in Nat
    BY <1>1, SendsIs
  <2> QED BY <2>1, <2>2, <2>3 DEF Balance
<1>9. Sound(y)
  <2> HIDE DEF y
  <2>1. Len(y.infFetch) = 0
    BY <1>5, EmptySeq
  <2> QED BY <1>1, <1>5, <2>1 DEF Sound
<1> HIDE DEF y, cbs
<1>10. Handled(y, _emitResponseError(y, cbs, r.how), TRUE, cbs)
  BY <1>4, <1>9, ErrorHandled
<1>11. Handled(y, w, TRUE, cbs)
  BY <1>4, <1>9, IngestHandled
<1> HIDE DEF w
<1>12. Handled(w, _emitNothingPending(w), TRUE, {})
  BY <1>11, QuietHandled DEF Handled
<1>13. Handled(y, _emitNothingPending(w), TRUE, cbs)
  <2>1. Handled(y, _emitNothingPending(w), TRUE, cbs \cup {})
    BY <1>5, <1>11, <1>12, HandledThen
  <2>2. cbs \cup {} = cbs
    OBVIOUS
  <2> QED BY <2>1, <2>2
<1>14. Handled(y, z, TRUE, cbs)
  BY <1>6, <1>10, <1>13
<1> HIDE DEF z
<1>15. Sound(z) /\ z \in DocShape /\ Gains(y, z, cbs) /\ Balance(y, z, 0, 0)
  BY <1>14 DEF Handled, Sound
<1>16. Gains(x, z, {})
  BY <1>1, <1>5, <1>7, <1>15, LostAndGained
<1>17. Balance(x, z, 0, 1)
  BY <1>1, <1>5, <1>8, <1>15, BalanceThen
<1> QED BY <1>15, <1>16, <1>17 DEF z

LEMMA HandleSubscribeHandled ==
    ASSUME NEW live \in BOOLEAN, NEW x \in DocShape, Len(x.infFetch) <= 1, x.ticks = 0,
           x.infSub # None, Single(x), NEW r, r.v \in Versions, r.how \in Hows
    PROVE  /\ Sound(_handleSubscribe(x, live, r))
           /\ Gains(x, _handleSubscribe(x, live, r), {})
           /\ live => Balance(x, _handleSubscribe(x, live, r), 1, 0)
           /\ ~live => /\ _handleSubscribe(x, live, r).out = x.out
                       /\ _handleSubscribe(x, live, r).infFetch = x.infFetch
                       /\ _handleSubscribe(x, live, r).ticks = 0
                             => _handleSubscribe(x, live, r).infSub = None
<1> DEFINE s == x.infSub
           cbs == s.cbs \cup UNION Range(x.penFetch)
           y == [x EXCEPT !.infSub = None, !.penFetch = <<>>]
           t == [y EXCEPT !.subd = s.want]
           w == IF s.want THEN ingestSnapshot(t, live, r.v, cbs) ELSE Tell(t, cbs, "ok")
           q == _emitNothingPending(w)
           z == _handleSubscribe(x, live, r)
<1>1. /\ x.penFetch \in Seq(Groups) /\ x.infFetch \in Seq(Groups) /\ s \in Subs
      /\ s.want \in BOOLEAN /\ s.cbs \in Groups
  <2>1. x.infSub \in Subs /\ x.penFetch \in Seq(Groups) /\ x.infFetch \in Seq(Groups)
    BY DEF DocShape
  <2> QED BY <2>1 DEF Subs
<1>2. cbs \in Groups
  <2>1. 0 \in Nat
    OBVIOUS
  <2>2. UNION Range(x.penFetch) \in Groups
    BY <1>1, <2>1, UnionNum
  <2> QED BY <1>1, <2>2 DEF Groups
<1>3. z = IF r.how # "ok" THEN _emitResponseError(y, cbs, r.how)
          ELSE _flushSubscribe(q, live)
  BY DEF _handleSubscribe
<1>4. /\ y \in DocShape
      /\ y.told = x.told /\ y.late = x.late /\ y.infFetch = x.infFetch /\ y.penFetch = <<>>
      /\ y.penSub = x.penSub /\ y.infSub = None /\ y.out = x.out /\ y.ticks = 0
  <2>1. <<>> \in Seq(Groups)
    BY EmptySeq
  <2> QED BY <2>1 DEF DocShape
<1>5. /\ t \in DocShape
      /\ t.told = y.told /\ t.late = y.late /\ t.infFetch = y.infFetch /\ t.penFetch = y.penFetch
      /\ t.penSub = y.penSub /\ t.infSub = y.infSub /\ t.out = y.out /\ t.ticks = y.ticks
  <2> HIDE DEF y
  <2> QED BY <1>1, <1>4 DEF DocShape
<1> HIDE DEF y, t, z
<1>6. Loses(x, y, cbs)
  <2> SUFFICES ASSUME NEW c \in Nat PROVE Weight(y, c) + One(c \in cbs) = Weight(x, c)
    BY DEF Loses
  <2>3. c \in UNION Range(x.penFetch) <=> Num(x.penFetch, Having(c)) # 0
    BY <1>1, UnionNum
  <2>4. /\ Num(x.infFetch, Having(c)) \in Nat /\ Num(x.penFetch, Having(c)) \in Nat
        /\ Num(x.late, Having(c)) \in Nat /\ Num(x.penSub, SubsOf(c)) \in Nat /\ Num(x.told, ToldOf(c)) \in Nat
        /\ One(x.infSub # None /\ c \in x.infSub.cbs) \in Nat
    BY WeightIs
  <2>5. Weight(x, c) <= 1
    BY DEF Single
  <2>6. One(c \in cbs) = One(x.infSub # None /\ c \in x.infSub.cbs) + Num(x.penFetch, Having(c))
    <3>1. One(x.infSub # None /\ c \in x.infSub.cbs) + Num(x.penFetch, Having(c)) <= 1
      BY <2>4, <2>5 DEF Weight, Waits
    <3>2. One(x.infSub # None /\ c \in x.infSub.cbs) = IF c \in s.cbs THEN 1 ELSE 0
      BY DEF One
    <3> QED BY <2>3, <2>4, <3>1, <3>2 DEF One
  <2>7. Num(y.penFetch, Having(c)) = 0 /\ One(y.infSub # None /\ c \in y.infSub.cbs) = 0
    BY <1>4, NumEmpty DEF One
  <2> HIDE DEF cbs
  <2> QED BY <1>4, <2>4, <2>6, <2>7 DEF Weight, Waits
<1>7. Balance(x, y, 1, 0)
  <2>1. Inf(x) = 1 /\ Inf(y) = 0 /\ Fet(x) = Fet(y)
    BY <1>4 DEF Inf, One, Fet
  <2>2. Sends(y, Subscribing) = Sends(x, Subscribing) /\ Sends(y, Fetching) = Sends(x, Fetching)
    BY <1>4 DEF Sends
  <2>3. Fet(x) \in Nat /\ Sends(x, Subscribing) \in Nat /\ Sends(x, Fetching) \in Nat
    BY SendsIs
  <2> QED BY <2>1, <2>2, <2>3 DEF Balance
<1>8. Sound(y)
  BY <1>4 DEF Sound
<1> HIDE DEF cbs, s
<1>9. Handled(y, _emitResponseError(y, cbs, r.how), live, cbs)
  BY <1>2, <1>8, ErrorHandled
<1>10. Handled(y, t, live, {})
  BY <1>5, <1>8, HandledNothing
<1>11. Handled(t, w, live, cbs)
  <2>1. Sound(t) /\ "ok" \in Hows
    BY <1>10 DEF Handled, Hows
  <2> QED BY <1>2, <2>1, IngestHandled, TellHandled
<1> HIDE DEF w
<1>12. Handled(w, q, live, {})
  BY <1>11, QuietHandled DEF Handled
<1> HIDE DEF q
<1>13. Handled(q, _flushSubscribe(q, live), live, {})
  BY <1>12, FlushHandled DEF Handled
<1>14. Handled(y, _flushSubscribe(q, live), live, cbs)
  <2>1. Handled(y, w, live, {} \cup cbs)
    BY <1>4, <1>10, <1>11, HandledThen
  <2>2. Handled(y, q, live, ({} \cup cbs) \cup {})
    BY <1>4, <1>12, <2>1, HandledThen
  <2>3. Handled(y, _flushSubscribe(q, live), live, (({} \cup cbs) \cup {}) \cup {})
    BY <1>4, <1>13, <2>2, HandledThen
  <2>4. (({} \cup cbs) \cup {}) \cup {} = cbs
    OBVIOUS
  <2> QED BY <2>3, <2>4
<1>15. Handled(y, z, live, cbs)
  BY <1>3, <1>9, <1>14
<1>16. Sound(z) /\ z \in DocShape /\ Gains(y, z, cbs)
  BY <1>15 DEF Handled, Sound
<1>17. Gains(x, z, {})
  BY <1>4, <1>6, <1>16, LostAndGained
<1>18. live => Balance(x, z, 1, 0)
  <2>1. live => Balance(y, z, 0, 0)
    BY <1>15 DEF Handled
  <2> QED BY <1>4, <1>7, <1>16, <2>1, BalanceThen
<1>19. ~live => z.out = x.out /\ z.infFetch = x.infFetch /\ (z.ticks = 0 => z.infSub = None)
  BY <1>4, <1>15 DEF Handled, Quietly
<1> QED BY <1>16, <1>17, <1>18, <1>19 DEF z

LEMMA ResubscribeHandled ==
    ASSUME NEW x, Sound(x)
    PROVE  Handled(x, _resubscribe(x), TRUE, {})
<1> DEFINE y == _fetch(x, TRUE, {})
           w == IF \E i \in DOMAIN x.penSub : x.penSub[i].want THEN x ELSE
                IF x.penFetch # <<>> THEN y ELSE x
<1>1. x \in DocShape
  BY DEF Sound
<1>2. Handled(x, _queueSubscribe(x, TRUE, TRUE, {}), TRUE, {})
  BY NoGroup, QueueHandled
<1>3. Handled(x, y, TRUE, {})
  BY NoGroup, FetchHandled
<1>4. Handled(x, x, TRUE, {})
  BY <1>1, HandledNothing
<1>5. _resubscribe(x) = IF x.penSub = <<>> /\ x.want THEN _queueSubscribe(x, TRUE, TRUE, {})
                        ELSE _flushSubscribe(w, TRUE)
  BY DEF _resubscribe
<1> HIDE DEF y
<1>6. Handled(x, w, TRUE, {})
  BY <1>3, <1>4
<1> HIDE DEF w
<1>7. Handled(w, _flushSubscribe(w, TRUE), TRUE, {})
  BY <1>6, FlushHandled DEF Handled
<1>8. Handled(x, _flushSubscribe(w, TRUE), TRUE, {})
  <2>1. Handled(x, _flushSubscribe(w, TRUE), TRUE, {} \cup {})
    BY <1>1, <1>6, <1>7, HandledThen
  <2> QED BY <2>1, NoGroup
<1> QED BY <1>2, <1>5, <1>8

LEMMA HandleOpHandled ==
    ASSUME NEW live \in BOOLEAN, NEW x, Sound(x), NEW v \in Nat
    PROVE  Handled(x, _handleOp(x, live, v), live, {})
<1> DEFINE y == [x EXCEPT !.v = @ + 1]
<1>1. x \in DocShape
  BY DEF Sound
<1>2. Handled(x, _fetch(x, live, {}), live, {}) /\ Handled(x, x, live, {})
  BY <1>1, NoGroup, FetchHandled, HandledNothing
<1>3. ASSUME x.v # None PROVE Handled(x, y, live, {})
  <2>1. x.v \in Nat /\ x.v + 1 \in Versions
    BY <1>1, <1>3 DEF DocShape, Versions
  <2>2. /\ y \in DocShape
        /\ y.told = x.told /\ y.late = x.late /\ y.infFetch = x.infFetch /\ y.penFetch = x.penFetch
        /\ y.penSub = x.penSub /\ y.infSub = x.infSub /\ y.out = x.out /\ y.ticks = x.ticks
    BY <1>1, <2>1 DEF DocShape
  <2> HIDE DEF y
  <2> QED BY <2>2, HandledNothing
<1> HIDE DEF y
<1> QED BY <1>2, <1>3 DEF _handleOp, y

(* The connection is gone: what was asked for is asked for again.          *)
LEMMA StateChangedHandled ==
    ASSUME NEW x \in DocShape, Len(x.infFetch) <= 1, x.ticks = 0, Single(x)
    PROVE  /\ Sound(DocStateChanged(x, FALSE))
           /\ Gains(x, DocStateChanged(x, FALSE), {})
           /\ DocStateChanged(x, FALSE).out = x.out
           /\ DocStateChanged(x, FALSE).infFetch = <<>>
           /\ DocStateChanged(x, FALSE).ticks = 0 => DocStateChanged(x, FALSE).infSub = None
<1> DEFINE y == [x EXCEPT !.subd = FALSE]
           p == [y EXCEPT !.penSub = <<x.infSub>> \o @, !.infSub = None]
           u == [y EXCEPT !.stray = @ \/ y.ticks > 0]
           h == _handleSubscribe(u, FALSE, Plain)
           z == CASE y.infSub = None -> y
                  [] y.infSub # None /\ y.infSub.want -> p
                  [] OTHER -> h
           w == [z EXCEPT !.penFetch = @ \o z.infFetch, !.infFetch = <<>>]
<1>1. /\ y \in DocShape
      /\ y.told = x.told /\ y.late = x.late /\ y.infFetch = x.infFetch /\ y.penFetch = x.penFetch
      /\ y.penSub = x.penSub /\ y.infSub = x.infSub /\ y.out = x.out /\ y.ticks = 0
  BY DEF DocShape
<1>2. DocStateChanged(x, FALSE) = w
  BY DEF DocStateChanged
<1> HIDE DEF y
<1>a. /\ u \in DocShape
      /\ u.told = x.told /\ u.late = x.late /\ u.infFetch = x.infFetch /\ u.penFetch = x.penFetch
      /\ u.penSub = x.penSub /\ u.infSub = x.infSub /\ u.out = x.out /\ u.ticks = 0
  BY <1>1 DEF DocShape
<1> HIDE DEF u
<1>3. ASSUME NEW c \in Nat PROVE Weight(y, c) = Weight(x, c) /\ Weight(x, c) \in Nat
  BY <1>1, WeightIs DEF Weight, Waits
<1> DEFINE Good(k) == /\ k \in DocShape /\ \A c \in Nat : Weight(k, c) = Weight(x, c)
                      /\ Sound(k) /\ k.out = x.out /\ k.infFetch = x.infFetch
                      /\ k.ticks = 0 => k.infSub = None
<1>4. ASSUME y.infSub = None PROVE Good(y)
  BY <1>1, <1>3, <1>4 DEF Sound
<1>5. ASSUME y.infSub # None, y.infSub.want PROVE Good(p)
  <2>1. x.infSub \in Subs /\ x.penSub \in Seq(Subs) /\ x.infSub # None
    BY <1>1, <1>5 DEF DocShape
  <2>2. <<x.infSub>> \in Seq(Subs) /\ <<x.infSub>> \o x.penSub \in Seq(Subs)
    BY <2>1, ConcatProperties
  <2>3. /\ p \in DocShape
        /\ p.told = x.told /\ p.late = x.late /\ p.infFetch = x.infFetch /\ p.penFetch = x.penFetch
        /\ p.penSub = <<x.infSub>> \o x.penSub /\ p.infSub = None /\ p.out = x.out /\ p.ticks = 0
    BY <1>1, <2>2 DEF DocShape
  <2> HIDE DEF p
  <2>4. ASSUME NEW c \in Nat PROVE Weight(p, c) = Weight(x, c)
    <3>1. Num(p.penSub, SubsOf(c)) = Num(<<x.infSub>>, SubsOf(c)) + Num(x.penSub, SubsOf(c))
      <4>1. Num(<<x.infSub>> \o x.penSub, SubsOf(c))
               = Num(<<x.infSub>>, SubsOf(c)) + Num(x.penSub, SubsOf(c))
        BY <2>1, <2>2, NumConcat
      <4> QED BY <2>3, <4>1
    <3>2. Num(<<x.infSub>>, SubsOf(c)) = One(x.infSub \in SubsOf(c))
      BY NumOne
    <3>3. One(x.infSub \in SubsOf(c)) = One(x.infSub # None /\ c \in x.infSub.cbs)
      BY <2>1 DEF One, SubsOf
    <3>4. One(p.infSub # None /\ c \in p.infSub.cbs) = 0
      BY <2>3 DEF One
    <3>5. /\ Num(x.infFetch, Having(c)) \in Nat /\ Num(x.penFetch, Having(c)) \in Nat
          /\ Num(x.late, Having(c)) \in Nat /\ Num(x.penSub, SubsOf(c)) \in Nat /\ Num(x.told, ToldOf(c)) \in Nat
          /\ One(x.infSub # None /\ c \in x.infSub.cbs) \in Nat
      BY WeightIs
    <3>6. Num(p.penSub, SubsOf(c)) = One(x.infSub # None /\ c \in x.infSub.cbs) + Num(x.penSub, SubsOf(c))
      BY <3>1, <3>2, <3>3
    <3> QED BY <2>3, <3>4, <3>5, <3>6 DEF Weight, Waits
  <2>5. Sound(p)
    BY <2>3 DEF Sound
  <2> QED BY <2>3, <2>4, <2>5
<1>6. ASSUME y.infSub # None PROVE Good(h)
  <2>0. \A c \in Nat : Weight(u, c) = Weight(x, c)
    BY <1>a, WeightIs DEF Weight, Waits
  <2>1. Single(u) /\ Len(u.infFetch) <= 1 /\ u.infSub # None
    BY <1>1, <1>a, <1>6, <2>0 DEF Single
  <2>2. Plain.v \in Versions /\ Plain.how \in Hows
    BY DEF Plain, Versions, Hows
  <2>3. FALSE \in BOOLEAN
    OBVIOUS
  <2>4. /\ Sound(h) /\ Gains(u, h, {}) /\ h.out = u.out /\ h.infFetch = u.infFetch
        /\ h.ticks = 0 => h.infSub = None
    BY <1>a, <2>1, <2>2, <2>3, HandleSubscribeHandled
  <2> HIDE DEF h
  <2>5. ASSUME NEW c \in Nat PROVE Weight(h, c) = Weight(x, c)
    <3>1. Weight(h, c) = Weight(u, c) + One(c \in {}) /\ One(c \in {}) = 0
      BY <2>4 DEF Gains, One
    <3> QED BY <1>3, <2>0, <3>1
  <2> QED BY <1>a, <2>4, <2>5 DEF Sound
<1> HIDE DEF p, h
<1>7. Good(z)
  <2> HIDE DEF Good
  <2> QED BY <1>4, <1>5, <1>6
<1> HIDE DEF z
<1>8. z.infFetch \in Seq(Groups) /\ z.penFetch \in Seq(Groups) /\ z.penFetch \o z.infFetch \in Seq(Groups)
      /\ <<>> \in Seq(Groups)
  <2>1. z.infFetch \in Seq(Groups) /\ z.penFetch \in Seq(Groups)
    BY <1>7 DEF DocShape
  <2> QED BY <2>1, ConcatProperties, EmptySeq
<1>9. /\ w \in DocShape
      /\ w.told = z.told /\ w.late = z.late /\ w.infFetch = <<>> /\ w.penFetch = z.penFetch \o z.infFetch
      /\ w.penSub = z.penSub /\ w.infSub = z.infSub /\ w.out = z.out /\ w.ticks = z.ticks
  BY <1>7, <1>8 DEF DocShape
<1> HIDE DEF w
<1>10. ASSUME NEW c \in Nat PROVE Weight(w, c) = Weight(x, c) + One(c \in {})
  <2>1. Num(w.penFetch, Having(c)) = Num(z.penFetch, Having(c)) + Num(z.infFetch, Having(c))
    BY <1>8, <1>9, NumConcat
  <2>2. Num(w.infFetch, Having(c)) = 0
    BY <1>9, NumEmpty
  <2>3. /\ Num(z.infFetch, Having(c)) \in Nat /\ Num(z.penFetch, Having(c)) \in Nat
        /\ Num(z.late, Having(c)) \in Nat /\ Num(z.penSub, SubsOf(c)) \in Nat /\ Num(z.told, ToldOf(c)) \in Nat
        /\ One(z.infSub # None /\ c \in z.infSub.cbs) \in Nat
    BY <1>7, WeightIs
  <2>4. Weight(w, c) = Weight(z, c)
    BY <1>9, <2>1, <2>2, <2>3 DEF Weight, Waits
  <2>5. One(c \in {}) = 0
    BY DEF One
  <2> QED BY <1>3, <1>7, <2>4, <2>5
<1>11. Sound(w)
  <2>1. Len(w.infFetch) = 0
    BY <1>9
  <2> QED BY <1>7, <1>9, <2>1 DEF Sound
<1> QED BY <1>2, <1>7, <1>9, <1>10, <1>11 DEF Gains

-----------------------------------------------------------------------------
(* Messages about a doc: the requests and the replies.                     *)
About(m, K, d) == m.a \in K /\ d \in DOMAIN m.vs
Replying(m, K, d) == m.a \in K /\ d \in DOMAIN m.res

LEMMA AskedIs ==
    ASSUME NEW s, List(s), NEW K, NEW d
    PROVE  /\ Asked(s, K, d) \in Nat /\ Replied(s, K, d) \in Nat
           /\ Asked(s, K, d) = 0 <=> \A m \in Range(s) : ~About(m, K, d)
           /\ Replied(s, K, d) = 0 <=> \A m \in Range(s) : ~Replying(m, K, d)
<1>1. s \in Seq(Range(s))
  BY DEF List
<1>2. Asked(s, K, d) \in Nat /\ (Asked(s, K, d) = 0 <=> Range(s) \cap AsksAbout(s, K, d) = {})
  BY <1>1, NumIs DEF Asked
<1>3. Replied(s, K, d) \in Nat /\ (Replied(s, K, d) = 0 <=> Range(s) \cap RepliesAbout(s, K, d) = {})
  BY <1>1, NumIs DEF Replied
<1>4. Range(s) \cap AsksAbout(s, K, d) = {} <=> \A m \in Range(s) : ~About(m, K, d)
  BY DEF AsksAbout, About
<1>5. Range(s) \cap RepliesAbout(s, K, d) = {} <=> \A m \in Range(s) : ~Replying(m, K, d)
  BY DEF RepliesAbout, Replying
<1> QED BY <1>2, <1>3, <1>4, <1>5

(* In any set that holds the messages.                                     *)
LEMMA AskedIn ==
    ASSUME NEW s, NEW R, Range(s) \subseteq R, NEW K, NEW d
    PROVE  /\ Asked(s, K, d) = Num(s, {m \in R : About(m, K, d)})
           /\ Replied(s, K, d) = Num(s, {m \in R : Replying(m, K, d)})
<1>1. Range(s) \cap AsksAbout(s, K, d) = Range(s) \cap {m \in R : About(m, K, d)}
  BY DEF AsksAbout, About
<1>2. Range(s) \cap RepliesAbout(s, K, d) = Range(s) \cap {m \in R : Replying(m, K, d)}
  BY DEF RepliesAbout, Replying
<1>3. Num(s, AsksAbout(s, K, d)) = Num(s, {m \in R : About(m, K, d)})
  BY <1>1, NumSame
<1>4. Num(s, RepliesAbout(s, K, d)) = Num(s, {m \in R : Replying(m, K, d)})
  BY <1>2, NumSame
<1> QED BY <1>3, <1>4 DEF Asked, Replied

LEMMA AskedConcat ==
    ASSUME NEW s, List(s), NEW t, List(t), NEW K, NEW d
    PROVE  /\ Asked(s \o t, K, d) = Asked(s, K, d) + Asked(t, K, d)
           /\ Replied(s \o t, K, d) = Replied(s, K, d) + Replied(t, K, d)
<1> DEFINE R == Range(s) \cup Range(t)
           A == {m \in R : About(m, K, d)}
           B == {m \in R : Replying(m, K, d)}
<1>1. Range(s \o t) = R
  BY ConcatList
<1>2. s \in Seq(R) /\ t \in Seq(R)
  BY SeqMonotonic DEF List
<1>3. Range(s) \subseteq R /\ Range(t) \subseteq R
  OBVIOUS
<1> HIDE DEF R
<1>4. /\ Asked(s \o t, K, d) = Num(s \o t, A) /\ Asked(s, K, d) = Num(s, A)
      /\ Asked(t, K, d) = Num(t, A)
      /\ Replied(s \o t, K, d) = Num(s \o t, B) /\ Replied(s, K, d) = Num(s, B)
      /\ Replied(t, K, d) = Num(t, B)
  BY <1>1, <1>3, AskedIn
<1> HIDE DEF A, B
<1>5. Num(s \o t, A) = Num(s, A) + Num(t, A) /\ Num(s \o t, B) = Num(s, B) + Num(t, B)
  BY <1>2, NumConcat
<1> QED BY <1>4, <1>5

LEMMA AskedOne ==
    ASSUME NEW m, NEW K, NEW d
    PROVE  /\ Asked(<<m>>, K, d) = One(About(m, K, d))
           /\ Replied(<<m>>, K, d) = One(Replying(m, K, d))
<1>1. Range(<<m>>) = {m}
  BY OneList
<1>2. m \in AsksAbout(<<m>>, K, d) <=> About(m, K, d)
  BY <1>1 DEF AsksAbout, About
<1>3. m \in RepliesAbout(<<m>>, K, d) <=> Replying(m, K, d)
  BY <1>1 DEF RepliesAbout, Replying
<1>4. /\ Num(<<m>>, AsksAbout(<<m>>, K, d)) = One(m \in AsksAbout(<<m>>, K, d))
      /\ Num(<<m>>, RepliesAbout(<<m>>, K, d)) = One(m \in RepliesAbout(<<m>>, K, d))
  BY NumOne
<1> QED BY <1>2, <1>3, <1>4 DEF Asked, Replied, One

LEMMA AskedTail ==
    ASSUME NEW s, List(s), s # <<>>, NEW K, NEW d
    PROVE  /\ Asked(s, K, d) = One(About(Head(s), K, d)) + Asked(Tail(s), K, d)
           /\ Replied(s, K, d) = One(Replying(Head(s), K, d)) + Replied(Tail(s), K, d)
           /\ List(Tail(s)) /\ Head(s) \in Range(s) /\ Range(Tail(s)) \subseteq Range(s)
<1>1. s = <<Head(s)>> \o Tail(s)
  BY DEF List
<1>2. List(<<Head(s)>>)
  BY OneList
<1>3. List(Tail(s)) /\ Head(s) \in Range(s) /\ Range(Tail(s)) \subseteq Range(s)
  BY TailList
<1>4. /\ Asked(<<Head(s)>> \o Tail(s), K, d) = Asked(<<Head(s)>>, K, d) + Asked(Tail(s), K, d)
      /\ Replied(<<Head(s)>> \o Tail(s), K, d)
           = Replied(<<Head(s)>>, K, d) + Replied(Tail(s), K, d)
  BY <1>2, <1>3, AskedConcat
<1>5. /\ Asked(<<Head(s)>>, K, d) = One(About(Head(s), K, d))
      /\ Replied(<<Head(s)>>, K, d) = One(Replying(Head(s), K, d))
  BY AskedOne
<1> QED BY <1>1, <1>3, <1>4, <1>5

LEMMA AskedEmpty ==
    ASSUME NEW K, NEW d
    PROVE  Asked(<<>>, K, d) = 0 /\ Replied(<<>>, K, d) = 0
BY NumEmpty DEF Asked, Replied

-----------------------------------------------------------------------------
(* A set as a sequence: each element at one place.                         *)
LEMMA SetToSeqAll ==
    ASSUME NEW S, IsFiniteSet(S)
    PROVE  /\ SetToSeq(S) \in Seq(S) /\ Range(SetToSeq(S)) = S
           /\ \A i, k \in 1..Len(SetToSeq(S)) : SetToSeq(S)[i] = SetToSeq(S)[k] => i = k
<1> DEFINE n == Cardinality(S)
           s == CHOOSE f \in [1..n -> S] : IsInjective(f)
<1>1. n \in Nat /\ \E f \in [1..n -> S] : IsInjective(f)
  BY FS_CardinalityType DEF ExistsBijection, Bijection, Injection
<1>2. SetToSeq(S) = s
  BY DEF SetToSeq
<1>3. IsFiniteSet(1..n) /\ Cardinality(1..n) = n
  BY <1>1, FS_Interval
<1>4. s \in Injection(1..n, S)
  <2> HIDE DEF n
  <2> QED BY <1>1 DEF Injection
<1>5. s \in Surjection(1..n, S)
  <2>1. Cardinality(1..n) = Cardinality(S)
    BY <1>3
  <2> HIDE DEF s, n
  <2> QED BY <1>4, <2>1, FS_Injection
<1> HIDE DEF s, n
<1>6. s \in [1..n -> S] /\ \A e \in S : \E i \in 1..n : s[i] = e
  BY <1>5 DEF Surjection
<1>7. s \in Seq(S) /\ Len(s) = n /\ DOMAIN s = 1..n
  BY <1>1, <1>6, SeqDef, LenProperties
<1>8. Range(s) = S
  BY <1>6, <1>7 DEF Range
<1>9. \A i, k \in 1..n : s[i] = s[k] => i = k
  BY <1>4, <1>6 DEF Injection, IsInjective
<1> QED BY <1>2, <1>7, <1>8, <1>9

(* Of sequences put in a row, one only has what is counted.                *)
LEMMA FlattenNum ==
    ASSUME NEW R, NEW S \in SUBSET Seq(R), IsFiniteSet(S), NEW t \in S, NEW B,
           \A s \in S : s # t => Num(s, B) = 0
    PROVE  Num(FlattenSeq(SetToSeq(S)), B) = Num(t, B)
<1> DEFINE ss == SetToSeq(S)
           n == Len(ss)
<1>1. /\ ss \in Seq(S) /\ Range(ss) = S
      /\ \A i, k \in 1..n : ss[i] = ss[k] => i = k
  BY SetToSeqAll
<1> HIDE DEF ss
<1>2. ss \in Seq(Seq(R)) /\ n \in Nat /\ DOMAIN ss = 1..n
  BY <1>1, SeqMonotonic, LenProperties
<1>3. PICK p \in 1..n : ss[p] = t
  BY <1>1, <1>2 DEF Range
<1>4. ASSUME NEW i \in 1..n PROVE Num(ss[i], B) = IF i = p THEN Num(t, B) ELSE 0
  <2>1. ss[i] \in S
    BY <1>1, <1>2, ElementOfSeq
  <2>2. i # p => ss[i] # t
    BY <1>1, <1>3
  <2> QED BY <1>3, <2>1, <2>2
<1>5. Num(t, B) \in Nat
  <2>1. t \in Seq(R)
    OBVIOUS
  <2> QED BY <2>1, NumIs
<1> DEFINE N == [i \in 0..n |-> IF i < p THEN 0 ELSE Num(t, B)]
<1>6. N[0] = 0 /\ N[n] = Num(t, B)
  BY <1>2, <1>3
<1>7. \A i \in 1..n : N[i] = N[i - 1] + Num(ss[i], B)
  <2> TAKE i \in 1..n
  <2>1. i - 1 \in 0..n /\ i \in 0..n
    BY <1>2
  <2>2. N[i] = IF i < p THEN 0 ELSE Num(t, B)
    BY <2>1
  <2>3. N[i - 1] = IF i - 1 < p THEN 0 ELSE Num(t, B)
    BY <2>1
  <2>4. Num(ss[i], B) = IF i = p THEN Num(t, B) ELSE 0
    BY <1>4
  <2>5. n \in Nat /\ i \in 1..n /\ p \in 1..n
    BY <1>2
  <2> HIDE DEF N, n
  <2>6. CASE i < p
    BY <1>5, <2>2, <2>3, <2>4, <2>5, <2>6
  <2>7. CASE i = p
    BY <1>5, <2>2, <2>3, <2>4, <2>5, <2>7
  <2>8. CASE i > p
    BY <1>5, <2>2, <2>3, <2>4, <2>5, <2>8
  <2> QED BY <2>5, <2>6, <2>7, <2>8
<1> HIDE DEF N
<1>8. Num(FlattenSeq(ss), B) = N[n]
  BY <1>2, <1>6, <1>7, FlattenCount
<1> QED BY <1>6, <1>8 DEF ss

-----------------------------------------------------------------------------
(* What the docs send, as messages for one doc each or in bulk             *)
(* (connection.js: _sendAction, sendSubscribe, endBulk).                   *)
LEMMA ShapeIsOK == ASSUME NEW x \in DocShape PROVE DocOK(x)
BY DEF DocShape, DocOK

LEMMA AskedAs ==
    ASSUME NEW s, NEW K, NEW d, NEW B, \A m \in Range(s) : m \in B <=> About(m, K, d)
    PROVE  Asked(s, K, d) = Num(s, B)
<1>1. Range(s) \cap AsksAbout(s, K, d) = Range(s) \cap B
  BY DEF AsksAbout, About
<1> QED BY <1>1, NumSame DEF Asked

LEMMA MessagesCount ==
    ASSUME NEW xs, \A d \in Doc : xs[d] \in DocShape, NEW K, NEW d \in Doc
    PROVE  Asked(Messages(xs), K, d) = Sends(xs[d], K)
<1> DEFINE of(e) == [i \in DOMAIN xs[e].out |->
                        [a |-> xs[e].out[i].a, vs |-> [x \in {e} |-> xs[e].out[i].v]]]
           S == {of(e) : e \in Doc}
           R == UNION {Range(of(e)) : e \in Doc}
           B == {m \in R : About(m, K, d)}
           O == {o \in Outs : o.a \in K}
<1>1. ASSUME NEW e \in Doc
      PROVE  /\ xs[e].out \in Seq(Outs) /\ of(e) \in Seq(R)
             /\ DOMAIN of(e) = DOMAIN xs[e].out
             /\ \A i \in DOMAIN xs[e].out :
                  /\ of(e)[i].a = xs[e].out[i].a /\ DOMAIN of(e)[i].vs = {e}
                  /\ of(e)[i] \in R /\ xs[e].out[i] \in Outs
  <2> DEFINE n == Len(xs[e].out)
             o == of(e)
  <2>1. xs[e].out \in Seq(Outs)
    BY DEF DocShape
  <2>2. n \in Nat /\ DOMAIN xs[e].out = 1..n /\ \A i \in 1..n : xs[e].out[i] \in Outs
    BY <2>1, LenProperties, ElementOfSeq
  <2>3. DOMAIN o = 1..n /\ o = [i \in 1..n |-> o[i]]
    BY <2>2
  <2>4. ASSUME NEW i \in 1..n
        PROVE  /\ o[i].a = xs[e].out[i].a /\ DOMAIN o[i].vs = {e} /\ o[i] \in R
    <3>1. o[i] = [a |-> xs[e].out[i].a, vs |-> [x \in {e} |-> xs[e].out[i].v]]
      BY <2>2
    <3>2. o[i] \in Range(of(e))
      BY <2>3 DEF Range
    <3> HIDE DEF of
    <3>3. o[i] \in R
      BY <3>2
    <3> HIDE DEF o
    <3> QED BY <3>1, <3>3
  <2> HIDE DEF R, o, n, of
  <2>5. o \in [1..n -> R]
    BY <2>3, <2>4
  <2>6. o \in Seq(R)
    BY <2>2, <2>5, SeqDef
  <2> QED BY <2>1, <2>2, <2>3, <2>4, <2>6 DEF o
<1>2. IsFiniteSet(S)
  <2> DEFINE F == [e \in Doc |-> of(e)]
  <2> HIDE DEF of
  <2>1. F \in Surjection(Doc, S)
    BY DEF Surjection
  <2> HIDE DEF F, S
  <2> QED BY <2>1, DocAssumption, FS_Surjection DEF ExistsSurjection
<1>3. Messages(xs) = FlattenSeq(SetToSeq(S))
  BY DEF Messages
<1>4. S \in SUBSET Seq(R) /\ of(d) \in S
  <2> HIDE DEF of, R
  <2> QED BY <1>1
<1>5. ASSUME NEW s \in S, s # of(d) PROVE Num(s, B) = 0
  <2>1. PICK e \in Doc : s = of(e)
    OBVIOUS
  <2>2. e # d
    <3> HIDE DEF of
    <3> QED BY <1>5, <2>1
  <2> DEFINE o == of(e)
  <2>3. /\ o \in Seq(R) /\ \A i \in DOMAIN o : DOMAIN o[i].vs = {e}
    <3> HIDE DEF R
    <3> QED BY <1>1
  <2> HIDE DEF o, R, B
  <2>4. \A m \in Range(o) : ~About(m, K, d)
    BY <2>2, <2>3 DEF Range, About
  <2>5. Range(o) \cap B = {}
    BY <2>4 DEF B
  <2>6. Num(o, B) = 0
    BY <2>3, <2>5, NumIs
  <2> QED BY <2>1, <2>6 DEF o
<1> DEFINE o == of(d)
<1>6. o \in Seq(R) /\ DOMAIN o = DOMAIN xs[d].out
      /\ \A i \in DOMAIN xs[d].out :
            /\ o[i].a = xs[d].out[i].a /\ DOMAIN o[i].vs = {d}
            /\ o[i] \in R /\ xs[d].out[i] \in Outs
  <2> HIDE DEF R
  <2> QED BY <1>1
<1>7. o \in S /\ \A s \in S : s # o => Num(s, B) = 0
  <2> HIDE DEF S, R, B
  <2> QED BY <1>4, <1>5
<1> HIDE DEF of, S, R, o
<1>8. Num(FlattenSeq(SetToSeq(S)), B) = Num(o, B)
  <2> HIDE DEF B
  <2> QED BY <1>2, <1>4, <1>7, FlattenNum
<1>9. Num(o, B) = Num(xs[d].out, O)
  <2>1. \A i \in DOMAIN xs[d].out : o[i] \in B <=> xs[d].out[i] \in O
    BY <1>6 DEF About
  <2> HIDE DEF O, B
  <2>2. Places(o, B) = Places(xs[d].out, O)
    BY <1>6, <2>1 DEF Places
  <2> QED BY <2>2 DEF Num
<1>10. Range(FlattenSeq(SetToSeq(S))) \subseteq R
  <2>1. SetToSeq(S) \in Seq(S)
    BY <1>2, SetToSeqAll
  <2>2. SetToSeq(S) \in Seq(Seq(R))
    BY <1>4, <2>1, SeqMonotonic
  <2>3. FlattenSeq(SetToSeq(S)) \in Seq(R)
    BY <2>2, FlattenIs
  <2> QED BY <2>3, RangeOfSeq
<1>11. Asked(Messages(xs), K, d) = Num(FlattenSeq(SetToSeq(S)), B)
  <2> DEFINE fl == FlattenSeq(SetToSeq(S))
  <2> HIDE DEF fl
  <2>1. Range(fl) \subseteq R
    BY <1>10 DEF fl
  <2>2. Asked(fl, K, d) = Num(fl, B)
    BY <2>1, AskedAs
  <2> QED BY <1>3, <2>2 DEF fl
<1> QED BY <1>8, <1>9, <1>11 DEF Sends

(* In bulk a message stands for what several docs ask, once each.          *)
LEMMA BulkCount ==
    ASSUME NEW xs, \A d \in Doc : xs[d] \in DocShape, NEW K \in {Subscribing, Fetching},
           NEW d \in Doc, Sends(xs[d], K) <= 1
    PROVE  Asked(Bulk(xs), K, d) = Sends(xs[d], K)
<1> DEFINE asks(a, known) ==
               {e \in Doc : \E i \in DOMAIN xs[e].out :
                   xs[e].out[i].a = a /\ ((xs[e].out[i].v # None) = known)}
           message(a, known) ==
               IF asks(a, known) = {} THEN <<>>
               ELSE <<[a |-> a, vs |-> [e \in asks(a, known) |->
                                           IF known THEN xs[e].v ELSE None]]>>
           kind(k) == <<"f", "s", "u">>[k]
           both(k) == message(kind(k), FALSE) \o message(kind(k), TRUE)
           ss == [k \in 1..3 |-> both(k)]
           has(a, known) == a \in K /\ d \in asks(a, known)
<1>1. ASSUME NEW a, NEW known \in BOOLEAN
      PROVE  /\ List(message(a, known))
             /\ Asked(message(a, known), K, d) = One(has(a, known))
  <2> DEFINE D == asks(a, known)
             e == [a |-> a, vs |-> [x \in D |-> IF known THEN xs[x].v ELSE None]]
             has1 == a \in K /\ d \in D
  <2>1. message(a, known) = IF D = {} THEN <<>> ELSE <<e>>
    OBVIOUS
  <2>2. has1 <=> has(a, known)
    OBVIOUS
  <2> HIDE DEF D, message, has
  <2>3. About(e, K, d) <=> has1
    BY DEF About
  <2>4. D = {} => ~has1
    OBVIOUS
  <2> HIDE DEF e, has1
  <2>5. One(has1) = One(has(a, known))
    BY <2>2 DEF One
  <2>6. CASE D = {}
    <3>1. One(has1) = 0
      BY <2>4, <2>6 DEF One
    <3> QED BY <2>1, <2>5, <2>6, <3>1, AskedEmpty, EmptyList
  <2>7. CASE D # {}
    <3>1. Asked(<<e>>, K, d) = One(About(e, K, d))
      BY AskedOne
    <3>2. One(About(e, K, d)) = One(has1)
      BY <2>3 DEF One
    <3> QED BY <2>1, <2>5, <2>7, <3>1, <3>2, OneList
  <2> QED BY <2>6, <2>7
<1>2. /\ message("f", FALSE) \o message("f", TRUE) = both(1)
      /\ message("s", FALSE) \o message("s", TRUE) = both(2)
      /\ message("u", FALSE) \o message("u", TRUE) = both(3)
  <2> HIDE DEF message
  <2> QED OBVIOUS
<1>3. \A k \in 1..3 : kind(k) \in {"f", "s", "u"} /\ both(k) = message(kind(k), FALSE) \o message(kind(k), TRUE)
  <2> HIDE DEF message
  <2> QED OBVIOUS
<1>4. Bulk(xs) = FlattenSeq(ss)
  BY DEF Bulk
<1> HIDE DEF message, has
<1>5. /\ List(both(1)) /\ List(both(2)) /\ List(both(3))
      /\ Asked(both(1), K, d) = One(has("f", FALSE)) + One(has("f", TRUE))
      /\ Asked(both(2), K, d) = One(has("s", FALSE)) + One(has("s", TRUE))
      /\ Asked(both(3), K, d) = One(has("u", FALSE)) + One(has("u", TRUE))
  <2> HIDE DEF both
  <2>1. ASSUME NEW a
        PROVE  /\ List(message(a, FALSE) \o message(a, TRUE))
               /\ Asked(message(a, FALSE) \o message(a, TRUE), K, d)
                    = One(has(a, FALSE)) + One(has(a, TRUE))
    <3>1. /\ List(message(a, FALSE)) /\ List(message(a, TRUE))
          /\ Asked(message(a, FALSE), K, d) = One(has(a, FALSE))
          /\ Asked(message(a, TRUE), K, d) = One(has(a, TRUE))
      BY <1>1
    <3> DEFINE s == message(a, FALSE)
               t == message(a, TRUE)
    <3> HIDE DEF s, t
    <3>2. List(s) /\ List(t)
      BY <3>1 DEF s, t
    <3>3. List(s \o t)
      BY <3>2, ConcatList
    <3>4. Asked(s \o t, K, d) = Asked(s, K, d) + Asked(t, K, d)
      BY <3>2, AskedConcat
    <3> QED BY <3>1, <3>3, <3>4 DEF s, t
  <2> QED BY <1>2, <2>1
<1> HIDE DEF both, kind
<1> DEFINE R == Range(both(1)) \cup Range(both(2)) \cup Range(both(3))
           B == {m \in R : About(m, K, d)}
           c == [k \in 1..3 |-> Asked(both(k), K, d)]
           N == [k \in 0..3 |-> IF k = 0 THEN 0 ELSE IF k = 1 THEN c[1]
                                ELSE IF k = 2 THEN c[1] + c[2] ELSE c[1] + c[2] + c[3]]
<1>6. ss \in Seq(Seq(R)) /\ Len(ss) = 3
  <2>1. ASSUME NEW k \in 1..3 PROVE both(k) \in Seq(R)
    <3>1. both(k) \in Seq(Range(both(k))) /\ Range(both(k)) \subseteq R
      <4>1. k = 1 \/ k = 2 \/ k = 3
        OBVIOUS
      <4> QED BY <1>5, <4>1 DEF List
    <3> HIDE DEF R
    <3> QED BY <3>1, SeqMonotonic
  <2> HIDE DEF R
  <2>2. ss \in [1..3 -> Seq(R)] /\ 3 \in Nat /\ DOMAIN ss = 1..3
    BY <2>1
  <2> DEFINE Q == Seq(R)
  <2> HIDE DEF ss, Q
  <2>3. ss \in [1..3 -> Q]
    BY <2>2 DEF Q
  <2>4. ss \in Seq(Q)
    BY <2>3, SeqDef
  <2>5. Len(ss) = 3
    BY <2>2, <2>4, LenProperties
  <2> QED BY <2>4, <2>5 DEF Q
<1>7. /\ \A k \in 1..3 : Num(ss[k], B) = c[k]
      /\ c[1] \in Nat /\ c[2] \in Nat /\ c[3] \in Nat
  <2>1. ASSUME NEW k \in 1..3 PROVE Num(both(k), B) = Asked(both(k), K, d) /\ Asked(both(k), K, d) \in Nat
    <3>1. Range(both(k)) \subseteq R /\ List(both(k))
      <4>1. k = 1 \/ k = 2 \/ k = 3
        OBVIOUS
      <4> QED BY <1>5, <4>1
    <3> DEFINE s == both(k)
    <3> HIDE DEF R, s
    <3>2. Range(s) \subseteq R /\ List(s)
      BY <3>1 DEF s
    <3>3. Asked(s, K, d) = Num(s, B)
      BY <3>2, AskedAs
    <3>4. Asked(s, K, d) \in Nat
      BY <3>2, AskedIs
    <3> QED BY <3>3, <3>4 DEF s
  <2> HIDE DEF B
  <2> QED BY <2>1
<1>8. Num(FlattenSeq(ss), B) = c[1] + c[2] + c[3]
  <2>1. N[0] = 0 /\ N[1] = c[1] /\ N[2] = c[1] + c[2] /\ N[3] = c[1] + c[2] + c[3]
    <3> HIDE DEF c
    <3> QED OBVIOUS
  <2> HIDE DEF N, c, B, ss, R
  <2>2. ASSUME NEW k \in 1..Len(ss) PROVE N[k] = N[k - 1] + Num(ss[k], B)
    <3>1. k \in 1..3
      BY <1>6
    <3>2. k = 1 \/ k = 2 \/ k = 3
      BY <3>1
    <3>3. CASE k = 1
      <4>1. Num(ss[1], B) = c[1] /\ k - 1 = 0
        BY <1>7, <3>3
      <4> QED BY <1>7, <2>1, <3>3, <4>1
    <3>4. CASE k = 2
      <4>1. Num(ss[2], B) = c[2] /\ k - 1 = 1
        BY <1>7, <3>4
      <4> QED BY <1>7, <2>1, <3>4, <4>1
    <3>5. CASE k = 3
      <4>1. Num(ss[3], B) = c[3] /\ k - 1 = 2
        BY <1>7, <3>5
      <4> QED BY <1>7, <2>1, <3>5, <4>1
    <3> QED BY <3>2, <3>3, <3>4, <3>5
  <2>3. Num(FlattenSeq(ss), B) = N[Len(ss)]
    BY <1>6, <2>1, <2>2, FlattenCount
  <2> QED BY <1>6, <2>1, <2>3
<1>9. Asked(Bulk(xs), K, d) = c[1] + c[2] + c[3]
  <2>1. Range(FlattenSeq(ss)) \subseteq R
    <3> HIDE DEF R, ss
    <3> QED BY <1>6, FlattenIs, RangeOfSeq
  <2> DEFINE fl == FlattenSeq(ss)
  <2> HIDE DEF c, R, ss, fl
  <2>2. Range(fl) \subseteq R
    BY <2>1 DEF fl
  <2>3. Asked(fl, K, d) = Num(fl, B)
    BY <2>2, AskedAs
  <2> QED BY <1>4, <1>8, <2>3 DEF fl
<1>10. /\ c[1] = One(has("f", FALSE)) + One(has("f", TRUE))
       /\ c[2] = One(has("s", FALSE)) + One(has("s", TRUE))
       /\ c[3] = One(has("u", FALSE)) + One(has("u", TRUE))
  <2>1. /\ c[1] = Asked(both(1), K, d) /\ c[2] = Asked(both(2), K, d)
        /\ c[3] = Asked(both(3), K, d)
    OBVIOUS
  <2> HIDE DEF c
  <2> QED BY <1>5, <2>1
<1> DEFINE h1 == One(has("f", FALSE))
           h2 == One(has("f", TRUE))
           h3 == One(has("s", FALSE))
           h4 == One(has("s", TRUE))
           h5 == One(has("u", FALSE))
           h6 == One(has("u", TRUE))
<1> HIDE DEF c, ss, h1, h2, h3, h4, h5, h6
<1>17. Asked(Bulk(xs), K, d) = (h1 + h2) + (h3 + h4) + (h5 + h6)
  BY <1>9, <1>10 DEF h1, h2, h3, h4, h5, h6
<1> DEFINE o == xs[d].out
           O == {x \in Outs : x.a \in K}
<1>11. /\ o \in Seq(Outs) /\ DOMAIN o = 1..Len(o) /\ \A i \in DOMAIN o : o[i] \in Outs
  <2>1. o \in Seq(Outs)
    BY DEF DocShape
  <2> HIDE DEF o
  <2> QED BY <2>1, LenProperties, ElementOfSeq
<1>12. IsFiniteSet(Places(o, O)) /\ Sends(xs[d], K) = Cardinality(Places(o, O))
  BY <1>11, NumIs DEF Sends, Num
<1>13. \A a, known : has(a, known) <=>
          \E i \in DOMAIN o : a \in K /\ o[i].a = a /\ ((o[i].v # None) = known)
  BY DEF has
<1> HIDE DEF o, O
<1>14. \A i \in DOMAIN o : i \in Places(o, O) <=> o[i].a \in K
  BY <1>11 DEF Places, O
<1>15. CASE Places(o, O) = {}
  <2>1. Sends(xs[d], K) = 0
    BY <1>12, <1>15, FS_EmptySet
  <2>2. \A a, known : ~has(a, known)
    BY <1>13, <1>14, <1>15
  <2>3. \A a, known : One(has(a, known)) = 0
    BY <2>2 DEF One
  <2>4. h1 = 0 /\ h2 = 0 /\ h3 = 0 /\ h4 = 0 /\ h5 = 0 /\ h6 = 0
    BY <2>3 DEF h1, h2, h3, h4, h5, h6
  <2> QED BY <1>17, <2>1, <2>4
<1>16. CASE Places(o, O) # {}
  <2>1. Sends(xs[d], K) \in Nat /\ Sends(xs[d], K) # 0
    BY <1>12, <1>16, FS_EmptySet, SendsIs
  <2>2. Sends(xs[d], K) = 1
    BY <2>1
  <2>3. PICK p : Places(o, O) = {p}
    BY <1>12, <2>2, FS_Singleton
  <2> DEFINE a0 == o[p].a
             k0 == o[p].v # None
  <2>4. p \in DOMAIN o /\ a0 \in K /\ a0 \in {"f", "s", "u"} /\ k0 \in BOOLEAN
    <3>1. p \in DOMAIN o
      BY <2>3 DEF Places
    <3>2. o[p] \in Outs /\ o[p].a \in K
      BY <1>11, <1>14, <2>3, <3>1
    <3> QED BY <3>1, <3>2 DEF Outs
  <2>5. \A a, known : has(a, known) <=> a = a0 /\ known = k0
    BY <1>13, <1>14, <2>3, <2>4
  <2>6. ASSUME NEW a, NEW known \in BOOLEAN
        PROVE  One(has(a, known)) = IF a = a0 /\ known = k0 THEN 1 ELSE 0
    BY <2>5 DEF One
  <2> HIDE DEF a0, k0
  <2>7. /\ h1 = IF "f" = a0 /\ FALSE = k0 THEN 1 ELSE 0
        /\ h2 = IF "f" = a0 /\ TRUE = k0 THEN 1 ELSE 0
        /\ h3 = IF "s" = a0 /\ FALSE = k0 THEN 1 ELSE 0
        /\ h4 = IF "s" = a0 /\ TRUE = k0 THEN 1 ELSE 0
        /\ h5 = IF "u" = a0 /\ FALSE = k0 THEN 1 ELSE 0
        /\ h6 = IF "u" = a0 /\ TRUE = k0 THEN 1 ELSE 0
    BY <2>6 DEF h1, h2, h3, h4, h5, h6
  <2>8. (h1 + h2) + (h3 + h4) + (h5 + h6) = 1
    BY <2>4, <2>7
  <2> QED BY <1>17, <2>2, <2>8
<1> QED BY <1>15, <1>16

-----------------------------------------------------------------------------
(* Subscribes and unsubscribes alternate in the queue of a doc: a call that *)
(* asks for the same as the last joins it.                                  *)
Alternating(s) == \A i \in 1..(Len(s) - 1) : s[i].want # s[i + 1].want
Alternates(x) ==
    /\ Alternating(x.penSub)
    /\ x.infSub # None /\ x.penSub # <<>> => x.infSub.want # x.penSub[1].want

LEMMA AltTail ==
    ASSUME NEW s \in Seq(Subs), s # <<>>, Alternating(s)
    PROVE  /\ Tail(s) \in Seq(Subs) /\ Alternating(Tail(s)) /\ Head(s) = s[1] /\ s[1] \in Subs
           /\ Tail(s) # <<>> => s[1].want # Tail(s)[1].want
<1> DEFINE n == Len(s)
           t == Tail(s)
<1>1. n \in Nat /\ n > 0 /\ Head(s) = s[1] /\ s[1] \in Subs
  BY LenProperties, EmptySeq, ElementOfSeq, HeadTailProperties
<1>2. t \in Seq(Subs) /\ Len(t) = n - 1 /\ \A i \in 1..(n - 1) : t[i] = s[i + 1]
  BY <1>1, HeadTailProperties
<1>3. t # <<>> => n - 1 # 0
  BY <1>2, EmptySeq
<1>4. \A i \in 1..(n - 1) : s[i].want # s[i + 1].want
  BY DEF Alternating
<1> HIDE DEF n, t
<1>5. ASSUME NEW i \in 1..(Len(t) - 1) PROVE t[i].want # t[i + 1].want
  <2>1. i \in 1..(n - 1) /\ i + 1 \in 1..(n - 1)
    BY <1>1, <1>2
  <2>2. t[i] = s[i + 1] /\ t[i + 1] = s[(i + 1) + 1]
    BY <1>2, <2>1
  <2> QED BY <1>4, <2>1, <2>2
<1>6. t # <<>> => s[1].want # t[1].want
  <2> SUFFICES ASSUME t # <<>> PROVE s[1].want # t[1].want
    OBVIOUS
  <2>1. 1 \in 1..(n - 1)
    BY <1>1, <1>3
  <2>2. t[1] = s[1 + 1]
    BY <1>2, <2>1
  <2> QED BY <1>4, <2>1, <2>2
<1>7. Alternating(t)
  BY <1>5 DEF Alternating
<1> QED BY <1>1, <1>2, <1>6, <1>7 DEF t

LEMMA AltAppend ==
    ASSUME NEW s \in Seq(Subs), Alternating(s), NEW e \in Subs,
           s # <<>> => s[Len(s)].want # e.want
    PROVE  /\ Append(s, e) \in Seq(Subs) /\ Alternating(Append(s, e)) /\ Append(s, e) # <<>>
           /\ Append(s, e)[1] = IF s = <<>> THEN e ELSE s[1]
<1> DEFINE n == Len(s)
           t == Append(s, e)
<1>1. n \in Nat /\ (s # <<>> => n # 0) /\ (s = <<>> => n = 0)
  BY LenProperties, EmptySeq
<1>2. t \in Seq(Subs) /\ Len(t) = n + 1 /\ t[n + 1] = e /\ \A i \in 1..n : t[i] = s[i]
  BY AppendProperties
<1>3. \A i \in 1..(n - 1) : s[i].want # s[i + 1].want
  BY DEF Alternating
<1>4. s # <<>> => s[n].want # e.want
  OBVIOUS
<1> HIDE DEF n, t
<1>5. ASSUME NEW i \in 1..(Len(t) - 1) PROVE t[i].want # t[i + 1].want
  <2>1. i \in 1..n /\ n # 0
    BY <1>1, <1>2
  <2>2. CASE i = n
    <3>1. t[i] = s[n] /\ t[i + 1] = e
      BY <1>2, <2>1, <2>2
    <3> QED BY <1>1, <1>4, <2>1, <3>1
  <2>3. CASE i # n
    <3>1. i \in 1..(n - 1) /\ i + 1 \in 1..n
      BY <1>1, <2>1, <2>3
    <3>2. t[i] = s[i] /\ t[i + 1] = s[i + 1]
      BY <1>2, <2>1, <3>1
    <3> QED BY <1>3, <3>1, <3>2
  <2> QED BY <2>2, <2>3
<1>6. t[1] = IF s = <<>> THEN e ELSE s[1]
  <2>1. CASE s = <<>>
    <3>1. n + 1 = 1
      BY <1>1, <2>1
    <3> QED BY <1>2, <2>1, <3>1
  <2>2. CASE s # <<>>
    <3>1. 1 \in 1..n
      BY <1>1, <2>2
    <3> QED BY <1>2, <2>2, <3>1
  <2> QED BY <2>1, <2>2
<1>7. t # <<>>
  BY <1>1, <1>2, EmptySeq
<1>8. Alternating(t)
  BY <1>5 DEF Alternating
<1> QED BY <1>2, <1>6, <1>7, <1>8 DEF t

LEMMA AltCons ==
    ASSUME NEW s \in Seq(Subs), Alternating(s), NEW e \in Subs,
           s # <<>> => e.want # s[1].want
    PROVE  Alternating(<<e>> \o s)
<1> DEFINE n == Len(s)
           t == <<e>> \o s
<1>1. n \in Nat /\ (s # <<>> <=> n # 0)
  BY LenProperties, EmptySeq
<1>2. <<e>> \in Seq(Subs) /\ Len(<<e>>) = 1 /\ <<e>>[1] = e
  OBVIOUS
<1>3. Len(t) = 1 + n /\ t[1] = e /\ \A i \in 2..(1 + n) : t[i] = s[i - 1]
  <2>1. /\ Len(<<e>> \o s) = Len(<<e>>) + Len(s)
        /\ \A i \in 1..(Len(<<e>>) + Len(s)) :
             (<<e>> \o s)[i] = IF i <= Len(<<e>>) THEN <<e>>[i] ELSE s[i - Len(<<e>>)]
    BY <1>2, ConcatProperties
  <2> HIDE DEF n, t
  <2>2. \A i \in 1..(1 + Len(s)) : t[i] = IF i <= 1 THEN <<e>>[i] ELSE s[i - 1]
    BY <1>2, <2>1 DEF t
  <2>3. 1 \in 1..(1 + n) /\ \A i \in 2..(1 + n) : i \in 1..(1 + n) /\ ~(i <= 1)
    BY <1>1
  <2>4. t[1] = e
    BY <1>2, <2>2, <2>3 DEF n
  <2>5. \A i \in 2..(1 + n) : t[i] = s[i - 1]
    BY <2>2, <2>3 DEF n
  <2>6. Len(t) = 1 + n
    BY <1>2, <2>1 DEF n, t
  <2> QED BY <2>4, <2>5, <2>6
<1>4. \A i \in 1..(n - 1) : s[i].want # s[i + 1].want
  BY DEF Alternating
<1> HIDE DEF n, t
<1>5. ASSUME NEW i \in 1..(Len(t) - 1) PROVE t[i].want # t[i + 1].want
  <2>1. i \in 1..n /\ n # 0
    BY <1>1, <1>3
  <2>2. CASE i = 1
    <3>1. t[i] = e /\ t[i + 1] = s[1]
      <4>1. i + 1 \in 2..(1 + n) /\ (i + 1) - 1 = 1
        BY <1>1, <2>1, <2>2
      <4> QED BY <1>3, <2>2, <4>1
    <3> QED BY <1>1, <2>1, <3>1
  <2>3. CASE i # 1
    <3>1. i - 1 \in 1..(n - 1) /\ i \in 2..(1 + n) /\ i + 1 \in 2..(1 + n)
          /\ (i + 1) - 1 = (i - 1) + 1
      BY <1>1, <2>1, <2>3
    <3>2. t[i] = s[i - 1] /\ t[i + 1] = s[(i + 1) - 1]
      BY <1>3, <3>1
    <3> QED BY <1>4, <3>1, <3>2
  <2> QED BY <2>2, <2>3
<1> QED BY <1>5 DEF Alternating, t

(* What a step leaves of the queue.                                        *)
LEMMA AltSame ==
    ASSUME NEW x, Alternates(x), NEW y, y.penSub = x.penSub, y.infSub = x.infSub
    PROVE  Alternates(y)
BY DEF Alternates, Alternating

LEMMA AltFlush ==
    ASSUME NEW x \in DocShape, Alternates(x), NEW live
    PROVE  /\ Alternates(_flushSubscribe(x, live))
           /\ ~live /\ (x.penSub # <<>> => x.penSub[1].want) =>
                 _flushSubscribe(x, live) = x
<1>1. CASE x.infSub # None \/ x.penSub = <<>>
  BY <1>1 DEF _flushSubscribe
<1>2. CASE ~(x.infSub # None \/ x.penSub = <<>>)
  <2> DEFINE y == _flushSubscribe(x, live)
  <2>1. x.penSub \in Seq(Subs) /\ x.penSub # <<>> /\ Alternating(x.penSub)
    BY <1>2 DEF DocShape, Alternates
  <2>2. /\ Alternating(Tail(x.penSub)) /\ Head(x.penSub) = x.penSub[1]
        /\ Tail(x.penSub) # <<>> => x.penSub[1].want # Tail(x.penSub)[1].want
    BY <2>1, AltTail
  <2>3. y = x \/ (y.infSub = Head(x.penSub) /\ y.penSub = Tail(x.penSub))
    BY <1>2 DEF _flushSubscribe, DocShape
  <2>4. ~live /\ Head(x.penSub).want => y = x
    BY <1>2 DEF _flushSubscribe
  <2> HIDE DEF y
  <2>5. Alternates(y)
    BY <2>2, <2>3 DEF Alternates
  <2> QED BY <2>1, <2>2, <2>4, <2>5 DEF y
<1> QED BY <1>1, <1>2

LEMMA AltQueue ==
    ASSUME NEW x \in DocShape, Alternates(x), NEW live \in BOOLEAN, NEW want \in BOOLEAN,
           NEW cbs \in Groups
    PROVE  Alternates(_queueSubscribe(x, live, want, cbs))
<1> DEFINE n == Len(x.penSub)
           e == [want |-> want, cbs |-> cbs]
           sameAs(r) == r # None /\ r.want = want
           y == _queueSubscribe(x, live, want, cbs)
<1>1. /\ x.penSub \in Seq(Subs) /\ x.infSub \in {None} \cup Subs /\ Alternating(x.penSub)
      /\ e \in Subs
  BY DEF DocShape, Alternates, Subs
<1>2. n \in Nat /\ (n = 0 <=> x.penSub = <<>>) /\ \A i \in 1..n : x.penSub[i] \in Subs
  BY <1>1, LenProperties, EmptySeq, ElementOfSeq
<1>3. CASE n > 0 /\ sameAs(x.penSub[n])
  <2> DEFINE s == x.penSub
             t == [s EXCEPT ![n].cbs = @ \cup cbs]
  <2>1. y = [x EXCEPT !.penSub[n].cbs = @ \cup cbs]
    BY <1>3 DEF _queueSubscribe
  <2>2. y.penSub = t /\ y.infSub = x.infSub
    BY <2>1 DEF DocShape
  <2>3. DOMAIN s = 1..n /\ s \in Seq(Subs)
    BY <1>1, LenProperties
  <2>4. DOMAIN t = 1..n /\ \A i \in 1..n : t[i].want = s[i].want
    <3>1. \A i \in 1..n : s[i] \in Subs
      BY <1>2
    <3> HIDE DEF n, s
    <3> QED BY <2>3, <3>1 DEF Subs
  <2>5. Len(t) = n
    <3>1. t = [i \in 1..n |-> t[i]]
      BY <2>3
    <3> HIDE DEF t
    <3>2. Len([i \in 1..n |-> t[i]]) = n
      BY <1>2
    <3> QED BY <3>1, <3>2
  <2> HIDE DEF t, s, n, y
  <2>6. Alternating(t)
    <3> SUFFICES ASSUME NEW i \in 1..(Len(t) - 1) PROVE t[i].want # t[i + 1].want
      BY DEF Alternating
    <3>1. i \in 1..n /\ i + 1 \in 1..n /\ i \in 1..(n - 1)
      BY <1>2, <2>5
    <3>2. s[i].want # s[i + 1].want
      BY <1>1, <3>1 DEF Alternating, s, n
    <3> QED BY <2>4, <3>1, <3>2
  <2>7. t # <<>> /\ s # <<>> /\ 1 \in 1..n
    <3>1. n # 0 /\ 1 \in 1..n
      BY <1>2, <1>3
    <3> QED BY <2>4, <3>1, <1>2 DEF s
  <2>8. y.infSub # None => y.infSub.want # t[1].want
    <3>1. x.infSub # None => x.infSub.want # s[1].want
      BY <2>7 DEF Alternates, s
    <3> QED BY <2>2, <2>4, <2>7, <3>1
  <2>9. Alternates(y)
    BY <2>2, <2>6, <2>8 DEF Alternates
  <2> QED BY <2>9 DEF y
<1>4. CASE n = 0 /\ sameAs(x.infSub)
  <2>1. y = [x EXCEPT !.infSub.cbs = @ \cup cbs]
    BY <1>2, <1>4 DEF _queueSubscribe
  <2>2. y.penSub = x.penSub
    BY <2>1 DEF DocShape
  <2> HIDE DEF y
  <2>3. Alternates(y)
    BY <1>2, <1>4, <2>2 DEF Alternates
  <2> QED BY <2>3 DEF y
<1>5. CASE ~(n > 0 /\ sameAs(x.penSub[n])) /\ ~(n = 0 /\ sameAs(x.infSub))
  <2> DEFINE z == [x EXCEPT !.penSub = Append(@, e)]
             t == Append(x.penSub, e)
  <2>1. y = _flushSubscribe(z, live)
    BY <1>5 DEF _queueSubscribe
  <2>2. x.penSub # <<>> => x.penSub[Len(x.penSub)].want # e.want
    <3> SUFFICES ASSUME x.penSub # <<>> PROVE x.penSub[n].want # want
      OBVIOUS
    <3>1. n > 0 /\ n \in 1..n
      BY <1>2
    <3>2. x.penSub[n] # None
      BY <1>2, <3>1, NotNone
    <3> QED BY <1>5, <3>1, <3>2
  <2>3. t \in Seq(Subs) /\ Alternating(t) /\ t # <<>> /\ t[1] = IF x.penSub = <<>> THEN e ELSE x.penSub[1]
    BY <1>1, <2>2, AltAppend
  <2>4. z \in DocShape /\ z.penSub = t /\ z.infSub = x.infSub
    BY <2>3 DEF DocShape
  <2>5. x.infSub # None => x.infSub.want # t[1].want
    <3>1. CASE x.penSub = <<>>
      BY <1>2, <1>5, <2>3, <3>1
    <3>2. CASE x.penSub # <<>>
      BY <2>3, <3>2 DEF Alternates
    <3> QED BY <3>1, <3>2
  <2> HIDE DEF z, t
  <2>6. Alternates(z)
    BY <2>3, <2>4, <2>5 DEF Alternates
  <2>7. Alternates(_flushSubscribe(z, live))
    BY <2>4, <2>6, AltFlush
  <2> QED BY <2>1, <2>7 DEF z
<1> QED BY <1>3, <1>4, <1>5

-----------------------------------------------------------------------------
(* The answers leave the order of subscribes and unsubscribes.             *)
LEMMA FetchLeaves ==
    ASSUME NEW x \in DocShape, NEW live, NEW cbs
    PROVE  /\ _fetch(x, live, cbs).penSub = x.penSub
           /\ _fetch(x, live, cbs).infSub = x.infSub
           /\ _fetch(x, live, cbs).ticks = x.ticks
BY DEF _fetch, DocShape

LEMMA TellLeaves ==
    ASSUME NEW x \in DocShape, NEW cbs, NEW how
    PROVE  /\ Tell(x, cbs, how).penSub = x.penSub
           /\ Tell(x, cbs, how).infSub = x.infSub
           /\ Tell(x, cbs, how).ticks = x.ticks
           /\ Tell(x, cbs, how).infFetch = x.infFetch
           /\ Tell(x, cbs, how).out = x.out
BY DEF Tell, DocShape

LEMMA IngestLeaves ==
    ASSUME NEW x \in DocShape, NEW live, NEW snap, NEW cbs
    PROVE  /\ ingestSnapshot(x, live, snap, cbs).penSub = x.penSub
           /\ ingestSnapshot(x, live, snap, cbs).infSub = x.infSub
           /\ ingestSnapshot(x, live, snap, cbs).ticks = x.ticks
<1> DEFINE y == [x EXCEPT !.v = snap]
<1>1. y.penSub = x.penSub /\ y.infSub = x.infSub /\ y.ticks = x.ticks
  BY DEF DocShape
<1>2. /\ PutOff(x, cbs).penSub = x.penSub /\ PutOff(x, cbs).infSub = x.infSub
      /\ PutOff(x, cbs).ticks = x.ticks
  BY DEF PutOff, DocShape
<1>3. /\ PutOff(y, cbs).penSub = y.penSub /\ PutOff(y, cbs).infSub = y.infSub
      /\ PutOff(y, cbs).ticks = y.ticks
  BY DEF PutOff, DocShape
<1> HIDE DEF y
<1>4. \/ ingestSnapshot(x, live, snap, cbs) = PutOff(x, cbs)
      \/ ingestSnapshot(x, live, snap, cbs) = PutOff(y, cbs)
      \/ ingestSnapshot(x, live, snap, cbs) = _fetch(x, live, cbs)
  BY DEF ingestSnapshot, y
<1> QED BY <1>1, <1>2, <1>3, <1>4, FetchLeaves

LEMMA ErrorLeaves ==
    ASSUME NEW x \in DocShape, NEW cbs, NEW how
    PROVE  /\ _emitResponseError(x, cbs, how).penSub = x.penSub
           /\ _emitResponseError(x, cbs, how).infSub = x.infSub
           /\ _emitResponseError(x, cbs, how).ticks = x.ticks
BY DEF _emitResponseError, _emitNothingPending, Tell, DocShape

LEMMA AltHandleFetch ==
    ASSUME NEW x \in DocShape, Alternates(x), NEW live, NEW r
    PROVE  Alternates(_handleFetch(x, live, r))
<1> DEFINE first == IF x.infFetch = <<>> THEN {} ELSE Head(x.infFetch)
           cbs == first \cup UNION Range(x.penFetch)
           y == [x EXCEPT !.penFetch = <<>>,
                          !.infFetch = IF @ = <<>> THEN @ ELSE Tail(@)]
           w == ingestSnapshot(y, live, r.v, cbs)
           h == _handleFetch(x, live, r)
<1>1. /\ y \in DocShape /\ y.penSub = x.penSub /\ y.infSub = x.infSub
  <2>1. x.infFetch \in Seq(Groups) /\ <<>> \in Seq(Groups)
    BY DEF DocShape
  <2>2. x.infFetch # <<>> => Tail(x.infFetch) \in Seq(Groups)
    BY <2>1
  <2> QED BY <2>1, <2>2 DEF DocShape
<1>2. h = _emitResponseError(y, cbs, r.how) \/ h = _emitNothingPending(w)
  BY DEF _handleFetch
<1> HIDE DEF y, cbs, h
<1>3. w.penSub = x.penSub /\ w.infSub = x.infSub
  BY <1>1, IngestLeaves
<1>4. _emitNothingPending(w).penSub = w.penSub /\ _emitNothingPending(w).infSub = w.infSub
  BY DEF _emitNothingPending
<1>5. h.penSub = x.penSub /\ h.infSub = x.infSub
  BY <1>1, <1>2, <1>3, <1>4, ErrorLeaves
<1>6. Alternates(h)
  BY <1>5, AltSame
<1> QED BY <1>6 DEF h

LEMMA AltHandleOp ==
    ASSUME NEW x \in DocShape, Alternates(x), NEW live, NEW v
    PROVE  Alternates(_handleOp(x, live, v))
<1> DEFINE y == _handleOp(x, live, v)
<1>1. y = x \/ y = _fetch(x, live, {}) \/ y = [x EXCEPT !.v = @ + 1]
  BY DEF _handleOp
<1>2. y.penSub = x.penSub /\ y.infSub = x.infSub
  BY <1>1, FetchLeaves DEF DocShape
<1> HIDE DEF y
<1>3. Alternates(y)
  BY <1>2, AltSame
<1> QED BY <1>3 DEF y

(* Offline, what is behind an unsubscribe is a subscribe, and waits.       *)
LEMMA AltHandleSubscribe ==
    ASSUME NEW x \in DocShape, Len(x.infFetch) <= 1, x.ticks = 0, x.infSub # None,
           Alternates(x), NEW live \in BOOLEAN, NEW r, r.v \in Versions, r.how \in Hows
    PROVE  /\ Alternates(_handleSubscribe(x, live, r))
           /\ (~live /\ ~x.infSub.want /\ r.how = "ok") =>
                /\ _handleSubscribe(x, live, r).infSub = None
                /\ _handleSubscribe(x, live, r).ticks = 0
<1> DEFINE s == x.infSub
           y == [x EXCEPT !.infSub = None, !.penFetch = <<>>]
           cbs == s.cbs \cup UNION Range(x.penFetch)
           z == [y EXCEPT !.subd = s.want]
           w == IF s.want THEN ingestSnapshot(z, live, r.v, cbs) ELSE Tell(z, cbs, "ok")
           q == _emitNothingPending(w)
           h == _handleSubscribe(x, live, r)
<1>1. s \in Subs /\ s # None
  BY DEF DocShape
<1>2. /\ y \in DocShape /\ y.penSub = x.penSub /\ y.infSub = None /\ y.ticks = x.ticks
      /\ z \in DocShape /\ z.penSub = x.penSub /\ z.infSub = None /\ z.ticks = x.ticks
      /\ z.infFetch = x.infFetch
  <2>1. x.penFetch \in Seq(Groups) /\ <<>> \in Seq(Groups) /\ s.want \in BOOLEAN
    BY <1>1 DEF DocShape, Subs
  <2>2. /\ y \in DocShape /\ y.penSub = x.penSub /\ y.infSub = None /\ y.ticks = x.ticks
        /\ y.infFetch = x.infFetch
    BY <2>1 DEF DocShape
  <2> HIDE DEF y, s
  <2>3. /\ z \in DocShape /\ z.penSub = y.penSub /\ z.infSub = y.infSub /\ z.ticks = y.ticks
        /\ z.infFetch = y.infFetch
    BY <2>1, <2>2 DEF DocShape
  <2> QED BY <2>2, <2>3
<1>3. h = IF r.how # "ok" THEN _emitResponseError(y, cbs, r.how)
          ELSE _flushSubscribe(q, live)
  BY <1>1 DEF _handleSubscribe
<1>4. cbs \in Groups
  <2>1. x.penFetch \in Seq(Groups) /\ s.cbs \in Groups
    BY <1>1 DEF DocShape, Subs
  <2>2. Range(x.penFetch) \subseteq Groups
    BY <2>1, RangeOfSeq
  <2> QED BY <2>1, <2>2 DEF Groups
<1> HIDE DEF y, z, cbs, h, s
<1>5. /\ w.penSub = x.penSub /\ w.infSub = None /\ w.ticks = x.ticks
  BY <1>2, IngestLeaves, TellLeaves
<1>6. w \in DocShape /\ Sound(w)
  <2>1. Sound(z)
    BY <1>2 DEF Sound
  <2>2. r.v \in Versions /\ "ok" \in Hows
    BY DEF Hows
  <2>3. Sound(ingestSnapshot(z, live, r.v, cbs)) /\ Sound(Tell(z, cbs, "ok"))
    BY <1>4, <2>1, <2>2, IngestHandled, TellHandled DEF Handled
  <2> QED BY <2>3 DEF Sound
<1> HIDE DEF w
<1>7. q \in DocShape /\ q.penSub = x.penSub /\ q.infSub = None /\ q.ticks = x.ticks
  <2>1. Sound(q)
    BY <1>6, QuietHandled DEF Handled
  <2>2. q.penSub = w.penSub /\ q.infSub = w.infSub /\ q.ticks = w.ticks
    BY <1>6 DEF _emitNothingPending, DocShape
  <2> HIDE DEF q
  <2> QED BY <1>5, <2>1, <2>2 DEF Sound
<1> HIDE DEF q
<1>8. Alternates(q) /\ (~s.want => (q.penSub # <<>> => q.penSub[1].want))
  <2>1. x.penSub \in Seq(Subs) /\ Alternating(x.penSub)
    BY DEF DocShape, Alternates
  <2>2. x.penSub # <<>> => s.want # x.penSub[1].want /\ x.penSub[1] \in Subs
    BY <2>1, AltTail DEF Alternates, s
  <2>3. s.want \in BOOLEAN /\ (x.penSub # <<>> => x.penSub[1].want \in BOOLEAN)
    BY <1>1, <2>2 DEF Subs
  <2> QED BY <1>7, <2>1, <2>2, <2>3 DEF Alternates
<1>9. Alternates(_emitResponseError(y, cbs, r.how))
  <2>1. /\ _emitResponseError(y, cbs, r.how).penSub = x.penSub
        /\ _emitResponseError(y, cbs, r.how).infSub = None
    BY <1>2, ErrorLeaves
  <2> QED BY <2>1 DEF Alternates
<1>10. /\ Alternates(_flushSubscribe(q, live))
       /\ ~live /\ ~s.want => _flushSubscribe(q, live) = q
  BY <1>7, <1>8, AltFlush
<1> QED BY <1>3, <1>7, <1>9, <1>10 DEF h, s

-----------------------------------------------------------------------------
(* And so do connections that come and go.                                 *)
LEMMA AltResubscribe ==
    ASSUME NEW x, Sound(x), Alternates(x)
    PROVE  Alternates(_resubscribe(x))
<1> DEFINE z == _fetch(x, TRUE, {})
<1>1. x \in DocShape /\ {} \in Groups
  BY DEF Sound, Groups
<1>2. Alternates(_queueSubscribe(x, TRUE, TRUE, {}))
  BY <1>1, AltQueue
<1>3. z \in DocShape
  BY <1>1, FetchHandled DEF Handled, Sound
<1>4. z.penSub = x.penSub /\ z.infSub = x.infSub
  BY <1>1, FetchLeaves
<1>5. \/ _resubscribe(x) = _queueSubscribe(x, TRUE, TRUE, {})
      \/ _resubscribe(x) = _flushSubscribe(z, TRUE)
      \/ _resubscribe(x) = _flushSubscribe(x, TRUE)
  BY DEF _resubscribe
<1> HIDE DEF z
<1>6. Alternates(z)
  BY <1>4, AltSame
<1>7. Alternates(_flushSubscribe(z, TRUE)) /\ Alternates(_flushSubscribe(x, TRUE))
  BY <1>1, <1>3, <1>6, AltFlush
<1> QED BY <1>2, <1>5, <1>7

(* What a drop leaves of a doc: nothing inflight.                          *)
LEMMA DropHandled ==
    ASSUME NEW x \in DocShape, Len(x.infFetch) <= 1, x.ticks = 0, Single(x), Alternates(x)
    PROVE  LET y == DocStateChanged(x, FALSE)
           IN  /\ Sound(y) /\ Alternates(y) /\ Gains(x, y, {})
               /\ y.out = x.out /\ y.infFetch = <<>> /\ y.infSub = None /\ y.ticks = 0
<1> DEFINE y == [x EXCEPT !.subd = FALSE]
           p == [y EXCEPT !.penSub = <<x.infSub>> \o @, !.infSub = None]
           u == [y EXCEPT !.stray = @ \/ y.ticks > 0]
           h == _handleSubscribe(u, FALSE, Plain)
           z == CASE y.infSub = None -> y
                  [] y.infSub # None /\ y.infSub.want -> p
                  [] OTHER -> h
           w == [z EXCEPT !.penFetch = @ \o z.infFetch, !.infFetch = <<>>]
           c == DocStateChanged(x, FALSE)
<1>1. /\ y \in DocShape /\ y.penSub = x.penSub /\ y.infSub = x.infSub /\ y.ticks = 0
      /\ y.infFetch = x.infFetch
  BY DEF DocShape
<1>2. c = w
  BY DEF DocStateChanged
<1> HIDE DEF y, c
<1>a. /\ u \in DocShape /\ u.penSub = x.penSub /\ u.infSub = x.infSub /\ u.ticks = 0
      /\ u.told = x.told /\ u.late = x.late /\ u.infFetch = x.infFetch /\ u.penFetch = x.penFetch
  <2>1. y.told = x.told /\ y.late = x.late /\ y.penFetch = x.penFetch
    BY DEF y, DocShape
  <2> QED BY <1>1, <2>1 DEF DocShape
<1> HIDE DEF u
<1>3. Alternates(y) /\ Alternates(u)
  BY <1>1, <1>a, AltSame
<1> DEFINE Good(k) == k \in DocShape /\ Alternates(k) /\ k.infSub = None /\ k.ticks = 0
<1>4. ASSUME y.infSub = None PROVE Good(y)
  BY <1>1, <1>3, <1>4
<1>5. ASSUME y.infSub # None, y.infSub.want PROVE Good(p)
  <2>1. x.infSub \in Subs /\ x.penSub \in Seq(Subs) /\ Alternating(x.penSub)
    BY <1>1, <1>5 DEF DocShape, Alternates
  <2>2. x.penSub # <<>> => x.infSub.want # x.penSub[1].want
    BY <1>1, <1>5 DEF Alternates
  <2>3. Alternating(<<x.infSub>> \o x.penSub)
    BY <2>1, <2>2, AltCons
  <2>4. <<x.infSub>> \o x.penSub \in Seq(Subs)
    <3>1. <<x.infSub>> \in Seq(Subs)
      BY <2>1
    <3> QED BY <2>1, <3>1, ConcatProperties
  <2>5. p \in DocShape /\ p.penSub = <<x.infSub>> \o x.penSub /\ p.infSub = None /\ p.ticks = 0
    BY <1>1, <2>4 DEF DocShape
  <2> HIDE DEF p
  <2> QED BY <2>3, <2>5 DEF Alternates
<1>6. ASSUME y.infSub # None, ~y.infSub.want PROVE Good(h)
  <2>1. Plain.v \in Versions /\ Plain.how \in Hows /\ Plain.how = "ok"
    BY DEF Plain, Versions, Hows
  <2>2. Single(u) /\ Len(u.infFetch) <= 1 /\ u.infSub # None /\ ~u.infSub.want
    <3>1. \A n \in Nat : Weight(u, n) = Weight(x, n)
      BY <1>a DEF Weight, Waits
    <3> QED BY <1>1, <1>a, <1>6, <3>1 DEF Single
  <2>3. Sound(h)
    BY <1>a, <2>1, <2>2, HandleSubscribeHandled
  <2> QED BY <1>a, <1>3, <2>1, <2>2, <2>3, AltHandleSubscribe DEF Sound
<1>7. Good(z)
  <2> HIDE DEF Good, p, h
  <2> QED BY <1>4, <1>5, <1>6
<1>8. z.infSub = None /\ w.infSub = z.infSub /\ w.penSub = z.penSub /\ w.ticks = z.ticks
  <2>1. z \in DocShape /\ z.infSub = None
    BY <1>7
  <2> HIDE DEF z
  <2> QED BY <2>1 DEF DocShape
<1> HIDE DEF w, z
<1>9. Alternates(c) /\ c.infSub = None /\ c.ticks = 0
  BY <1>2, <1>7, <1>8, AltSame
<1> QED BY <1>9, StateChangedHandled DEF c

-----------------------------------------------------------------------------
(* Nothing that happens to a doc makes it forget that it went astray.      *)
SameStray(x, y) == DOMAIN y = DOMAIN x /\ y.stray = x.stray

LEMMA KeepsThen ==
    ASSUME NEW x, NEW y, NEW z, SameStray(x, y), SameStray(y, z)
    PROVE  SameStray(x, z)
BY DEF SameStray

LEMMA FetchKeeps ==
    ASSUME NEW x, "stray" \in DOMAIN x, NEW live, NEW cbs
    PROVE  SameStray(x, _fetch(x, live, cbs))
BY DEF SameStray, _fetch

LEMMA PutOffKeeps ==
    ASSUME NEW x, "stray" \in DOMAIN x, NEW cbs
    PROVE  SameStray(x, PutOff(x, cbs))
BY DEF SameStray, PutOff

LEMMA TellKeeps ==
    ASSUME NEW x, "stray" \in DOMAIN x, NEW cbs, NEW how
    PROVE  SameStray(x, Tell(x, cbs, how))
BY DEF SameStray, Tell

LEMMA QuietKeeps ==
    ASSUME NEW x, "stray" \in DOMAIN x
    PROVE  SameStray(x, _emitNothingPending(x))
BY DEF SameStray, _emitNothingPending

LEMMA IngestKeeps ==
    ASSUME NEW x, "stray" \in DOMAIN x, NEW live, NEW snap, NEW cbs
    PROVE  SameStray(x, ingestSnapshot(x, live, snap, cbs))
<1> DEFINE y == [x EXCEPT !.v = snap]
<1>1. SameStray(x, y)
  BY DEF SameStray
<1> HIDE DEF y
<1>2. SameStray(y, PutOff(y, cbs))
  BY <1>1, PutOffKeeps DEF SameStray
<1>3. SameStray(x, PutOff(y, cbs))
  BY <1>1, <1>2, KeepsThen
<1>4. \/ ingestSnapshot(x, live, snap, cbs) = PutOff(x, cbs)
      \/ ingestSnapshot(x, live, snap, cbs) = PutOff(y, cbs)
      \/ ingestSnapshot(x, live, snap, cbs) = _fetch(x, live, cbs)
  BY DEF ingestSnapshot, y
<1> QED BY <1>3, <1>4, PutOffKeeps, FetchKeeps

LEMMA ErrorKeeps ==
    ASSUME NEW x, "stray" \in DOMAIN x, NEW cbs, NEW how
    PROVE  SameStray(x, _emitResponseError(x, cbs, how))
<1> DEFINE y == [x EXCEPT !.want = @ /\ how # "silent"]
           z == Tell(y, cbs, how)
<1>1. SameStray(x, y)
  BY DEF SameStray
<1> HIDE DEF y
<1>2. SameStray(y, z)
  BY <1>1, TellKeeps DEF SameStray
<1> HIDE DEF z
<1>3. SameStray(z, _emitNothingPending(z))
  BY <1>1, <1>2, QuietKeeps DEF SameStray
<1>4. SameStray(x, _emitNothingPending(z))
  BY <1>1, <1>2, <1>3, KeepsThen
<1> QED BY <1>4 DEF _emitResponseError, y, z

LEMMA FlushKeeps ==
    ASSUME NEW x, "stray" \in DOMAIN x, NEW live \in BOOLEAN
    PROVE  SameStray(x, _flushSubscribe(x, live))
<1> DEFINE r == Head(x.penSub)
           taken == [x EXCEPT !.infSub = r, !.penSub = Tail(@)]
           out == Append(taken.out, [a |-> IF r.want THEN "s" ELSE "u",
                                     v |-> IF r.want THEN x.v ELSE None])
           y == [taken EXCEPT !.want = r.want, !.subd = @ /\ r.want,
                              !.out = Append(@, [a |-> IF r.want THEN "s" ELSE "u",
                                                 v |-> IF r.want THEN x.v ELSE None])]
           z == [taken EXCEPT !.ticks = @ + 1]
<1>1. SameStray(x, taken)
  BY DEF SameStray
<1>2. SameStray(x, y) /\ SameStray(x, z)
  <2> HIDE DEF taken, r
  <2>1. SameStray(taken, y) /\ SameStray(taken, z)
    BY <1>1 DEF SameStray
  <2> QED BY <1>1, <2>1, KeepsThen
<1>3. _flushSubscribe(x, live) = x \/ _flushSubscribe(x, live) = y \/ _flushSubscribe(x, live) = z
  BY DEF _flushSubscribe
<1> HIDE DEF y, z
<1> QED BY <1>2, <1>3 DEF SameStray

LEMMA QueueKeeps ==
    ASSUME NEW x, "stray" \in DOMAIN x, NEW live \in BOOLEAN, NEW want, NEW cbs
    PROVE  SameStray(x, _queueSubscribe(x, live, want, cbs))
<1> DEFINE n == Len(x.penSub)
           p == [x EXCEPT !.penSub[n].cbs = @ \cup cbs]
           q == [x EXCEPT !.infSub.cbs = @ \cup cbs]
           y == [x EXCEPT !.penSub = Append(@, [want |-> want, cbs |-> cbs])]
<1>1. SameStray(x, p) /\ SameStray(x, q) /\ SameStray(x, y)
  BY DEF SameStray
<1>2. \/ _queueSubscribe(x, live, want, cbs) = p
      \/ _queueSubscribe(x, live, want, cbs) = q
      \/ _queueSubscribe(x, live, want, cbs) = _flushSubscribe(y, live)
  BY DEF _queueSubscribe
<1> HIDE DEF p, q, y
<1>3. SameStray(y, _flushSubscribe(y, live))
  BY <1>1, FlushKeeps DEF SameStray
<1>4. SameStray(x, _flushSubscribe(y, live))
  BY <1>1, <1>3, KeepsThen
<1> QED BY <1>1, <1>2, <1>4

LEMMA HandleFetchKeeps ==
    ASSUME NEW x, "stray" \in DOMAIN x, NEW live, NEW r
    PROVE  SameStray(x, _handleFetch(x, live, r))
<1> DEFINE first == IF x.infFetch = <<>> THEN {} ELSE Head(x.infFetch)
           cbs == first \cup UNION Range(x.penFetch)
           y == [x EXCEPT !.penFetch = <<>>,
                          !.infFetch = IF @ = <<>> THEN @ ELSE Tail(@)]
           w == ingestSnapshot(y, live, r.v, cbs)
           h == _handleFetch(x, live, r)
<1>1. SameStray(x, y)
  BY DEF SameStray
<1>2. h = _emitResponseError(y, cbs, r.how) \/ h = _emitNothingPending(w)
  BY DEF _handleFetch
<1> HIDE DEF y, cbs, h
<1>3. SameStray(y, w) /\ SameStray(y, _emitResponseError(y, cbs, r.how))
  BY <1>1, IngestKeeps, ErrorKeeps DEF SameStray
<1> HIDE DEF w
<1>4. SameStray(w, _emitNothingPending(w))
  BY <1>1, <1>3, QuietKeeps DEF SameStray
<1>5. SameStray(y, h)
  BY <1>2, <1>3, <1>4, KeepsThen
<1>6. SameStray(x, h)
  BY <1>1, <1>5, KeepsThen
<1> QED BY <1>6 DEF h

LEMMA HandleSubscribeKeeps ==
    ASSUME NEW x, "stray" \in DOMAIN x, NEW live \in BOOLEAN, NEW r
    PROVE  SameStray(x, _handleSubscribe(x, live, r))
<1> DEFINE s == x.infSub
           y == [x EXCEPT !.infSub = None, !.penFetch = <<>>]
           cbs == s.cbs \cup UNION Range(x.penFetch)
           z == [y EXCEPT !.subd = s.want]
           w == IF s.want THEN ingestSnapshot(z, live, r.v, cbs) ELSE Tell(z, cbs, "ok")
           q == _emitNothingPending(w)
           h == _handleSubscribe(x, live, r)
<1>1. SameStray(x, y) /\ SameStray(x, z)
  BY DEF SameStray
<1>2. h = y \/ h = _emitResponseError(y, cbs, r.how) \/ h = _flushSubscribe(q, live)
  BY DEF _handleSubscribe
<1> HIDE DEF y, z, cbs, h
<1>3. SameStray(y, _emitResponseError(y, cbs, r.how))
  BY <1>1, ErrorKeeps DEF SameStray
<1>4. SameStray(z, w)
  BY <1>1, IngestKeeps, TellKeeps DEF SameStray
<1> HIDE DEF w
<1>5. SameStray(w, q)
  BY <1>1, <1>4, QuietKeeps DEF SameStray
<1> HIDE DEF q
<1>6. SameStray(q, _flushSubscribe(q, live))
  BY <1>1, <1>4, <1>5, FlushKeeps DEF SameStray
<1>7. SameStray(x, _flushSubscribe(q, live)) /\ SameStray(x, _emitResponseError(y, cbs, r.how))
  BY <1>1, <1>3, <1>4, <1>5, <1>6, KeepsThen
<1>8. SameStray(x, h)
  BY <1>1, <1>2, <1>7
<1> QED BY <1>8 DEF h

LEMMA ResubscribeKeeps ==
    ASSUME NEW x, "stray" \in DOMAIN x
    PROVE  SameStray(x, _resubscribe(x))
<1> DEFINE z == _fetch(x, TRUE, {})
<1>1. \/ _resubscribe(x) = _queueSubscribe(x, TRUE, TRUE, {})
      \/ _resubscribe(x) = _flushSubscribe(z, TRUE)
      \/ _resubscribe(x) = _flushSubscribe(x, TRUE)
  BY DEF _resubscribe
<1>2. SameStray(x, z)
  BY FetchKeeps
<1> HIDE DEF z
<1>3. SameStray(z, _flushSubscribe(z, TRUE))
  BY <1>2, FlushKeeps DEF SameStray
<1>4. SameStray(x, _flushSubscribe(z, TRUE))
  BY <1>2, <1>3, KeepsThen
<1> QED BY <1>1, <1>4, QueueKeeps, FlushKeeps

LEMMA HandleOpKeeps ==
    ASSUME NEW x, "stray" \in DOMAIN x, NEW live, NEW v
    PROVE  SameStray(x, _handleOp(x, live, v))
<1> DEFINE y == [x EXCEPT !.v = @ + 1]
<1>1. _handleOp(x, live, v) = x \/ _handleOp(x, live, v) = _fetch(x, live, {}) \/ _handleOp(x, live, v) = y
  BY DEF _handleOp
<1>2. SameStray(x, x) /\ SameStray(x, y)
  BY DEF SameStray
<1> HIDE DEF y
<1> QED BY <1>1, <1>2, FetchKeeps

(* A drop that finds an unsubscribe waiting for its nextTick does more.    *)
LEMMA DropKeeps ==
    ASSUME NEW x, "stray" \in DOMAIN x
    PROVE  LET y == DocStateChanged(x, FALSE)
           IN  /\ DOMAIN y = DOMAIN x
               /\ x.stray => y.stray
               /\ x.infSub # None /\ ~x.infSub.want /\ x.ticks > 0
                  /\ {"infSub", "ticks"} \subseteq DOMAIN x => y.stray
<1> DEFINE y == [x EXCEPT !.subd = FALSE]
           p == [y EXCEPT !.penSub = <<x.infSub>> \o @, !.infSub = None]
           u == [y EXCEPT !.stray = @ \/ y.ticks > 0]
           h == _handleSubscribe(u, FALSE, Plain)
           z == CASE y.infSub = None -> y
                  [] y.infSub # None /\ y.infSub.want -> p
                  [] OTHER -> h
           w == [z EXCEPT !.penFetch = @ \o z.infFetch, !.infFetch = <<>>]
<1>1. SameStray(x, y)
  BY DEF SameStray
<1>2. "infSub" \in DOMAIN x => y.infSub = x.infSub
  OBVIOUS
<1>3. "ticks" \in DOMAIN x => y.ticks = x.ticks
  OBVIOUS
<1>4. DocStateChanged(x, FALSE) = w
  BY DEF DocStateChanged
<1> HIDE DEF y
<1>5. SameStray(x, p)
  <2>1. SameStray(y, p)
    BY <1>1 DEF SameStray
  <2> QED BY <1>1, <2>1, KeepsThen
<1>6. DOMAIN u = DOMAIN x /\ u.stray = (x.stray \/ y.ticks > 0)
  BY <1>1 DEF SameStray
<1> HIDE DEF u
<1>7. SameStray(u, h)
  BY <1>6, HandleSubscribeKeeps
<1>8. DOMAIN h = DOMAIN x /\ h.stray = (x.stray \/ y.ticks > 0)
  BY <1>6, <1>7 DEF SameStray
<1> HIDE DEF p, h
<1>9. z = y \/ z = p \/ z = h
  OBVIOUS
<1>10. DOMAIN z = DOMAIN x /\ (x.stray => z.stray)
  BY <1>1, <1>5, <1>8, <1>9 DEF SameStray
<1>11. ASSUME x.infSub # None, ~x.infSub.want, x.ticks > 0, {"infSub", "ticks"} \subseteq DOMAIN x
       PROVE  z.stray
  <2>1. y.infSub = x.infSub /\ y.ticks = x.ticks
    BY <1>2, <1>3, <1>11
  <2>2. z = h
    BY <1>11, <2>1
  <2> QED BY <1>8, <1>11, <2>1, <2>2
<1> HIDE DEF z
<1>12. DOMAIN w = DOMAIN z /\ w.stray = z.stray
  BY <1>10
<1> HIDE DEF w
<1> QED BY <1>4, <1>10, <1>11, <1>12

LEMMA SetStateKeeps ==
    ASSUME NEW xs, NEW from, NEW to, to # "connected", NEW d \in Doc, "stray" \in DOMAIN xs[d]
    PROVE  LET y == _setState(from, xs, to).xs[d]
           IN  "stray" \in DOMAIN y /\ (xs[d].stray => y.stray)
<1> DEFINE ys == _setState(from, xs, to).xs
<1>1. ys[d] = xs[d] \/ ys[d] = DocStateChanged(xs[d], FALSE)
  <2>1. (to = "connected") = FALSE
    OBVIOUS
  <2> QED BY <2>1 DEF _setState
<1> HIDE DEF ys
<1>2. "stray" \in DOMAIN ys[d] /\ (xs[d].stray => ys[d].stray)
  BY <1>1, DropKeeps
<1> QED BY <1>2 DEF ys

LEMMA PutKeeps ==
    ASSUME NEW xs, NEW asked, Put(xs, asked), NEW d \in Doc, "stray" \in DOMAIN xs[d]
    PROVE  "stray" \in DOMAIN doc'[d] /\ doc'[d].stray = xs[d].stray
<1>1. doc'[d] = [xs[d] EXCEPT !.out = <<>>, !.told = <<>>, !.quiet = FALSE]
  BY DEF Put
<1> DEFINE x == xs[d]
<1> HIDE DEF x
<1>2. doc'[d] = [x EXCEPT !.out = <<>>, !.told = <<>>, !.quiet = FALSE]
  BY <1>1 DEF x
<1> QED BY <1>2 DEF x

(* So a doc that has not gone astray had no nextTick to come.              *)
LEMMA NotAstray ==
    ASSUME NEW x, Sound(x), ~DocStateChanged(x, FALSE).stray
    PROVE  x.ticks = 0 /\ ~x.stray
<1>1. {"stray", "infSub", "ticks"} \subseteq DOMAIN x
  BY DEF Sound, DocShape
<1>2. x.ticks # 0 => x.ticks > 0 /\ x.infSub # None /\ ~x.infSub.want
  BY DEF Sound
<1> QED BY <1>1, <1>2, DropKeeps

-----------------------------------------------------------------------------
(* The inductive invariant, in parts.  It holds while no doc is astray.    *)
NoStray == \A d \in Doc : ~doc[d].stray

(*                                                                         *)
(* The connection, its socket and the agents.                              *)
Wired ==
    /\ canSend => state = "connected" /\ sock = "open"
    /\ cur \in 1..MaxAgents
    /\ sock = "closed" => down = <<>>
    /\ sock # "closed" => agents[cur].st = "open"
    /\ \A a \in 1..MaxAgents :
        /\ DOMAIN agents[a] = {"st", "src", "up", "held"}
        /\ agents[a].st \in {"none", "open", "closed"}
        /\ agents[a].st = "none" <=> a > cur
        /\ agents[a].st = "none" => agents[a].up = <<>>
        /\ agents[a].st # "open" => \A d \in Doc : agents[a].held[d] = None

(* What a job holds at its stages.                                         *)
JobShape(j) ==
    /\ DOMAIN j = {"n", "a", "m", "stage", "from", "to", "ops", "res", "q"}
    /\ j.a \in 1..cur
    /\ DOMAIN j.q \subseteq IF j.m.a = "s" THEN DOMAIN j.m.vs ELSE {}
    /\ j.m.a \in {"f", "s"} =>
        /\ j.stage \in {"read", "reply"}
        /\ j.stage = "reply" => /\ DOMAIN j.res = DOMAIN j.m.vs
                                /\ \A d \in DOMAIN j.res : j.res[d].how \in Hows
JobsShape == IsFiniteSet(jobs) /\ \A j \in jobs : JobShape(j)

Reply(m) == /\ DOMAIN m.res \subseteq Doc
            /\ \A d \in DOMAIN m.res : m.res[d].how \in Hows
DownShape == \A m \in Range(down) : m.a \in {"f", "s", "u"} => Reply(m)

(* A doc of a connection that is not up has nothing inflight, except for an *)
(* unsubscribe that is answered on the next tick.                          *)
Resting(x) == x.infFetch = <<>> /\ (x.ticks = 0 => x.infSub = None)
Tidy(x) == /\ Sound(x) /\ Alternates(x) /\ x.out = <<>> /\ x.told = <<>>
           /\ state # "connected" => Resting(x)
DocsTidy == DOMAIN doc = Doc /\ \A d \in Doc : Tidy(doc[d])

(* Of a doc at most one subscribe or unsubscribe and one fetch are under    *)
(* way, with any agent; with the agent at the other end of the socket those *)
(* that the doc takes for inflight.                                        *)
OneUnderWay ==
    /\ \A d \in Doc, a \in 1..MaxAgents :
        Under(Subscribing, a, d) <= 1 /\ Under(Fetching, a, d) <= 1
    /\ sock # "closed" => \A d \in Doc :
        /\ Under(Subscribing, cur, d) = IF canSend THEN Inf(doc[d]) ELSE 0
        /\ Under(Fetching, cur, d) = IF canSend THEN Fet(doc[d]) ELSE 0

Calls == [kind : {"fetch", "subscribe", "unsubscribe"}, d : Doc, told : Seq(Hows)]
Owing(cs, d, c) == c \in DOMAIN cs /\ cs[c].d = d /\ cs[c].told = <<>>
CallsOK ==
    /\ calls \in Seq(Calls)
    /\ \A c \in DOMAIN calls : Len(calls[c].told) <= 1
    /\ \A d \in Doc, c \in Nat : Waits(doc[d], c) = One(Owing(calls, d, c))

CInv == /\ Wired /\ JobsShape /\ DownShape /\ DocsTidy
        /\ OneUnderWay /\ CallsOK /\ StreamsOwned

-----------------------------------------------------------------------------
(* The sequences that flatten to no more than one element for each of some. *)
LEMMA LenFlatten ==
    ASSUME NEW told \in Seq(Tolds), NEW c
    PROVE  LET ss == [k \in DOMAIN told |->
                        IF c \in told[k].cbs THEN <<told[k].how>> ELSE <<>>]
           IN  /\ FlattenSeq(ss) \in Seq(Hows)
               /\ Len(FlattenSeq(ss)) = Num(told, ToldOf(c))
<1> DEFINE n == Len(told)
           B == ToldOf(c)
           ss == [k \in DOMAIN told |-> IF c \in told[k].cbs THEN <<told[k].how>> ELSE <<>>]
           P(i) == {k \in 1..i : told[k] \in B}
           N == [i \in 0..n |-> Cardinality(P(i))]
<1>1. n \in Nat /\ DOMAIN told = 1..n /\ \A k \in 1..n : told[k] \in Tolds
  BY LenProperties, ElementOfSeq
<1> HIDE DEF n
<1>2. \A k \in 1..n : told[k].how \in Hows /\ (told[k] \in B <=> c \in told[k].cbs)
  BY <1>1 DEF Tolds, ToldOf
<1>3. ss \in Seq(Seq(Hows)) /\ Len(ss) = n /\ DOMAIN ss = 1..n
  <2>1. ASSUME NEW k \in 1..n PROVE ss[k] \in Seq(Hows)
    <3>1. ss[k] = IF c \in told[k].cbs THEN <<told[k].how>> ELSE <<>>
      BY <1>1
    <3>2. told[k].how \in Hows
      BY <1>2
    <3> DEFINE h == told[k].how
    <3> HIDE DEF ss, h
    <3>3. <<h>> \in Seq(Hows) /\ <<>> \in Seq(Hows)
      BY <3>2 DEF h
    <3> QED BY <3>1, <3>3 DEF h
  <2> DEFINE Q == Seq(Hows)
  <2>2. DOMAIN ss = 1..n
    BY <1>1
  <2>3. ss = [k \in 1..n |-> ss[k]]
    BY <1>1
  <2> HIDE DEF ss, Q
  <2>4. ss \in [1..n -> Q]
    BY <2>1, <2>3 DEF Q
  <2>5. ss \in Seq(Q)
    BY <1>1, <2>4, SeqDef
  <2>6. Len(ss) = n
    BY <1>1, <2>2, <2>5, LenProperties
  <2> QED BY <2>2, <2>5, <2>6 DEF Q
<1>4. ASSUME NEW k \in 1..n PROVE Num(ss[k], Hows) = One(told[k] \in B)
  <2>1. CASE c \in told[k].cbs
    <3>1. ss[k] = <<told[k].how>>
      BY <1>1, <2>1
    <3>2. Num(<<told[k].how>>, Hows) = One(told[k].how \in Hows)
      BY NumOne
    <3> HIDE DEF ss, B
    <3> QED BY <1>2, <2>1, <3>1, <3>2 DEF One
  <2>2. CASE c \notin told[k].cbs
    <3>1. ss[k] = <<>>
      BY <1>1, <2>2
    <3>2. Num(<<>>, Hows) = 0
      BY NumEmpty
    <3> HIDE DEF ss, B
    <3> QED BY <1>2, <2>2, <3>1, <3>2 DEF One
  <2> QED BY <2>1, <2>2
<1> HIDE DEF ss, B
<1>5. \A i \in 0..n : IsFiniteSet(P(i)) /\ Cardinality(P(i)) \in Nat
  <2> TAKE i \in 0..n
  <2>1. IsFiniteSet(1..i) /\ P(i) \subseteq 1..i
    BY <1>1, FS_Interval
  <2> QED BY <2>1, FS_Subset, FS_CardinalityType
<1>6. P(0) = {} /\ N[0] = 0
  <2>1. P(0) = {}
    OBVIOUS
  <2> HIDE DEF P
  <2> QED BY <1>1, <2>1, FS_EmptySet
<1>7. ASSUME NEW i \in 1..n PROVE N[i] = N[i - 1] + Num(ss[i], Hows)
  <2>1. i - 1 \in 0..n /\ i \in 0..n
    BY <1>1
  <2>2. CASE told[i] \in B
    <3>1. P(i) = P(i - 1) \cup {i} /\ i \notin P(i - 1)
      BY <1>1, <2>2
    <3> HIDE DEF P
    <3>2. Cardinality(P(i)) = Cardinality(P(i - 1)) + 1
      BY <1>5, <2>1, <3>1, FS_AddElement
    <3> QED BY <1>4, <2>1, <2>2, <3>2 DEF One
  <2>3. CASE told[i] \notin B
    <3>1. P(i) = P(i - 1)
      BY <1>1, <2>3
    <3> HIDE DEF P
    <3>2. Cardinality(P(i)) = Cardinality(P(i - 1)) + 0
      BY <1>5, <2>1, <3>1
    <3> QED BY <1>4, <2>1, <2>3, <3>2 DEF One
  <2> QED BY <2>2, <2>3
<1>8. N[n] = Num(told, B)
  <2>1. P(n) = Places(told, B)
    BY <1>1 DEF Places
  <2> HIDE DEF P
  <2> QED BY <1>1, <2>1 DEF Num
<1> HIDE DEF N, P
<1>9. Num(FlattenSeq(ss), Hows) = Num(told, B)
  <2>1. Num(FlattenSeq(ss), Hows) = N[Len(ss)]
    BY <1>3, <1>6, <1>7, FlattenCount
  <2> QED BY <1>3, <1>8, <2>1
<1>10. FlattenSeq(ss) \in Seq(Hows)
  BY <1>3, FlattenIs
<1> DEFINE f == FlattenSeq(ss)
<1>11. Num(f, Hows) = Len(f)
  <2> HIDE DEF f
  <2> DEFINE m == Len(f)
  <2>1. m \in Nat /\ DOMAIN f = 1..m /\ \A k \in 1..m : f[k] \in Hows
    BY <1>10, LenProperties, ElementOfSeq DEF f
  <2>2. Places(f, Hows) = 1..m
    BY <2>1 DEF Places
  <2> HIDE DEF m
  <2>3. Cardinality(1..m) = m
    BY <2>1, FS_Interval
  <2> QED BY <2>2, <2>3 DEF Num, m
<1> QED BY <1>9, <1>10, <1>11 DEF ss, B, f

-----------------------------------------------------------------------------
(* Where the calls go when a step puts the docs back.                      *)
(* The callbacks that a step calls, once for each call that no longer waits. *)
LEMMA PutCalls ==
    ASSUME NEW xs, NEW asked \in Seq(Calls), \A d \in Doc : xs[d] \in DocShape,
           \A c \in DOMAIN asked : Len(asked[c].told) <= 1,
           \A d \in Doc, c \in Nat : Weight(xs[d], c) = One(Owing(asked, d, c)),
           Put(xs, asked)
    PROVE  CallsOK'
<1> DEFINE n == Len(asked)
           told(i) == xs[asked[i].d].told
           ss(i) == [k \in DOMAIN told(i) |->
                        IF i \in told(i)[k].cbs THEN <<told(i)[k].how>> ELSE <<>>]
           hows(i) == FlattenSeq(ss(i))
           y(d) == [xs[d] EXCEPT !.out = <<>>, !.told = <<>>, !.quiet = FALSE]
<1>1. /\ calls' = [i \in DOMAIN asked |-> [asked[i] EXCEPT !.told = @ \o hows(i)]]
      /\ doc' = [d \in Doc |-> y(d)]
  BY DEF Put
<1>2. n \in Nat /\ DOMAIN asked = 1..n /\ \A i \in 1..n : asked[i] \in Calls
  BY LenProperties, ElementOfSeq
<1>3. ASSUME NEW i \in 1..n
      PROVE  /\ hows(i) \in Seq(Hows)
             /\ Len(hows(i)) = Num(xs[asked[i].d].told, ToldOf(i))
  <2>1. asked[i].d \in Doc
    BY <1>2 DEF Calls
  <2>2. told(i) \in Seq(Tolds)
    BY <2>1 DEF DocShape
  <2> QED BY <2>2, LenFlatten
<1> HIDE DEF n, hows, y
<1>4. ASSUME NEW i \in 1..n
      PROVE  /\ calls'[i] \in Calls /\ calls'[i].d = asked[i].d
             /\ calls'[i].told = asked[i].told \o hows(i)
  <2>1. calls'[i] = [asked[i] EXCEPT !.told = @ \o hows(i)]
    BY <1>1, <1>2
  <2>2. asked[i] \in Calls /\ asked[i].told \in Seq(Hows)
    BY <1>2 DEF Calls
  <2>3. asked[i].told \o hows(i) \in Seq(Hows)
    BY <1>3, <2>2, ConcatProperties
  <2> QED BY <2>1, <2>2, <2>3 DEF Calls
<1>5. calls' \in Seq(Calls) /\ DOMAIN calls' = 1..n
  <2>1. DOMAIN calls' = 1..n
    BY <1>1, <1>2
  <2>2. calls' = [i \in 1..n |-> calls'[i]]
    BY <1>1, <1>2
  <2>3. calls' \in [1..n -> Calls]
    BY <1>4, <2>2
  <2> QED BY <1>2, <2>1, <2>3, SeqDef
<1>6. ASSUME NEW d \in Doc, NEW c \in Nat PROVE Waits(doc'[d], c) = Waits(xs[d], c)
  <2>1. doc'[d] = y(d)
    BY <1>1
  <2>2. /\ y(d).infFetch = xs[d].infFetch /\ y(d).penFetch = xs[d].penFetch
        /\ y(d).penSub = xs[d].penSub /\ y(d).infSub = xs[d].infSub
        /\ y(d).late = xs[d].late
    BY DEF y, DocShape
  <2> QED BY <2>1, <2>2 DEF Waits
<1>7. ASSUME NEW i \in 1..n
      PROVE  /\ Len(calls'[i].told) = Len(asked[i].told) + Len(hows(i))
             /\ Len(asked[i].told) \in Nat /\ Len(asked[i].told) <= 1
             /\ Len(hows(i)) \in Nat
             /\ (asked[i].told = <<>> <=> Len(asked[i].told) = 0)
             /\ (calls'[i].told = <<>> <=> Len(calls'[i].told) = 0)
  <2>1. asked[i].told \in Seq(Hows) /\ calls'[i].told \in Seq(Hows)
    BY <1>2, <1>4 DEF Calls
  <2>2. Len(asked[i].told \o hows(i)) = Len(asked[i].told) + Len(hows(i))
    BY <1>3, <2>1, ConcatProperties
  <2>3. Len(asked[i].told) \in Nat /\ Len(hows(i)) \in Nat
    BY <1>3, <2>1, LenProperties
  <2>4. /\ asked[i].told = <<>> <=> Len(asked[i].told) = 0
        /\ calls'[i].told = <<>> <=> Len(calls'[i].told) = 0
    BY <2>1, EmptySeq
  <2>5. Len(asked[i].told) <= 1
    BY <1>2
  <2> QED BY <1>4, <2>2, <2>3, <2>4, <2>5
<1>8. ASSUME NEW d \in Doc, NEW c \in Nat
      PROVE  /\ Waits(xs[d], c) \in Nat /\ Num(xs[d].told, ToldOf(c)) \in Nat
             /\ Waits(xs[d], c) + Num(xs[d].told, ToldOf(c)) = One(Owing(asked, d, c))
  <2>1. Weight(xs[d], c) = One(Owing(asked, d, c))
    OBVIOUS
  <2> QED BY <2>1, WeightIs DEF Weight
<1>9. ASSUME NEW i \in 1..n PROVE Len(calls'[i].told) <= 1
  <2> DEFINE d == asked[i].d
             l == Len(asked[i].told)
             h == Len(hows(i))
             w == Waits(xs[d], i)
  <2>1. d \in Doc /\ i \in Nat
    BY <1>2 DEF Calls
  <2>2. w \in Nat /\ h \in Nat /\ w + h = One(Owing(asked, d, i))
    BY <1>3, <1>7, <1>8, <2>1
  <2>3. Owing(asked, d, i) <=> l = 0
    BY <1>2, <1>7 DEF Owing
  <2>4. One(Owing(asked, d, i)) = IF l = 0 THEN 1 ELSE 0
    BY <2>3 DEF One
  <2>5. l \in Nat /\ l <= 1 /\ Len(calls'[i].told) = l + h
    BY <1>7
  <2> HIDE DEF l, h, w
  <2> QED BY <2>2, <2>4, <2>5
<1>10. ASSUME NEW d \in Doc, NEW c \in Nat
       PROVE  Waits(doc'[d], c) = One(Owing(calls', d, c))
  <2> DEFINE w == Waits(xs[d], c)
             h == Num(xs[d].told, ToldOf(c))
  <2>1. w \in Nat /\ h \in Nat /\ w + h = One(Owing(asked, d, c)) /\ Waits(doc'[d], c) = w
    BY <1>6, <1>8
  <2>2. CASE c \in 1..n /\ asked[c].d = d
    <3> DEFINE l == Len(asked[c].told)
               k == Len(calls'[c].told)
    <3>1. l \in Nat /\ k = l + h /\ l <= 1
      BY <1>3, <1>7, <2>2
    <3>2. Owing(asked, d, c) <=> l = 0
      BY <1>2, <1>7, <2>2 DEF Owing
    <3>3. Owing(calls', d, c) <=> k = 0
      BY <1>4, <1>5, <1>7, <2>2 DEF Owing
    <3>4. /\ One(Owing(asked, d, c)) = IF l = 0 THEN 1 ELSE 0
          /\ One(Owing(calls', d, c)) = IF k = 0 THEN 1 ELSE 0
      BY <3>2, <3>3 DEF One
    <3> HIDE DEF l, k, w, h
    <3> QED BY <2>1, <3>1, <3>4
  <2>3. CASE ~(c \in 1..n /\ asked[c].d = d)
    <3>1. ~Owing(asked, d, c) /\ ~Owing(calls', d, c)
      BY <1>2, <1>4, <1>5, <2>3 DEF Owing
    <3>2. One(Owing(asked, d, c)) = 0 /\ One(Owing(calls', d, c)) = 0
      BY <3>1 DEF One
    <3> HIDE DEF w, h
    <3> QED BY <2>1, <3>2
  <2> QED BY <2>2, <2>3
<1> QED BY <1>5, <1>9, <1>10 DEF CallsOK

LEMMA PutDocs ==
    ASSUME NEW xs, NEW asked, Put(xs, asked),
           \A d \in Doc : /\ Sound(xs[d]) /\ Alternates(xs[d])
                          /\ state' # "connected" => Resting(xs[d])
    PROVE  DocsTidy'
<1> DEFINE y(d) == [xs[d] EXCEPT !.out = <<>>, !.told = <<>>, !.quiet = FALSE]
<1>1. doc' = [d \in Doc |-> y(d)]
  BY DEF Put
<1>2. ASSUME NEW d \in Doc PROVE Tidy(doc[d])'
  <2>1. /\ y(d) \in DocShape /\ y(d).out = <<>> /\ y(d).told = <<>>
        /\ y(d).penSub = xs[d].penSub /\ y(d).infSub = xs[d].infSub
        /\ y(d).ticks = xs[d].ticks /\ y(d).infFetch = xs[d].infFetch
    <3>1. xs[d] \in DocShape /\ <<>> \in Seq(Outs) /\ <<>> \in Seq(Tolds)
      BY EmptySeq DEF Sound
    <3> QED BY <3>1 DEF DocShape
  <2>2. doc'[d] = y(d)
    BY <1>1
  <2> HIDE DEF y
  <2>3. Sound(y(d))
    BY <2>1 DEF Sound
  <2>4. Alternates(y(d))
    BY <2>1, AltSame
  <2>5. state' # "connected" => Resting(y(d))
    BY <2>1 DEF Resting
  <2>6. /\ Sound(y(d)) /\ Alternates(y(d)) /\ y(d).out = <<>> /\ y(d).told = <<>>
        /\ state' # "connected" => Resting(y(d))
    BY <2>1, <2>3, <2>4, <2>5
  <2> QED BY <2>2, <2>6 DEF Tidy
<1> QED BY <1>1, <1>2 DEF DocsTidy

-----------------------------------------------------------------------------
(* Requests under way: with an agent not yet read, in a job, or answered.  *)
Returning(K, a, d) == IF a = cur THEN Replied(down, K, d) ELSE 0

LEMMA UnderIs ==
    ASSUME IInv, CInv, NEW K, NEW a \in 1..MaxAgents, NEW d
    PROVE  /\ Asked(agents[a].up, K, d) \in Nat /\ Worked(jobs, K, a, d) \in Nat
           /\ Replied(down, K, d) \in Nat /\ Returning(K, a, d) \in Nat
           /\ IsFiniteSet(JobsAbout(jobs, K, a, d)) /\ List(agents[a].up) /\ List(down)
           /\ Under(K, a, d) = Asked(agents[a].up, K, d) + Worked(jobs, K, a, d)
                               + Returning(K, a, d)
           /\ Under(K, a, d) \in Nat
<1>1. List(agents[a].up) /\ List(down)
  BY DEF IInv, AgentsOK, AgentOK, ArrivesOK
<1>2. Asked(agents[a].up, K, d) \in Nat /\ Replied(down, K, d) \in Nat
  BY <1>1, AskedIs
<1>3. IsFiniteSet(JobsAbout(jobs, K, a, d)) /\ Worked(jobs, K, a, d) \in Nat
  <2>1. IsFiniteSet(jobs) /\ JobsAbout(jobs, K, a, d) \subseteq jobs
    BY DEF CInv, JobsShape, JobsAbout
  <2>2. IsFiniteSet(JobsAbout(jobs, K, a, d))
    BY <2>1, FS_Subset
  <2> QED BY <2>2, FS_CardinalityType DEF Worked
<1>4. Returning(K, a, d) \in Nat
  BY <1>2 DEF Returning
<1>5. Under(K, a, d) = Asked(agents[a].up, K, d) + Worked(jobs, K, a, d)
                       + Returning(K, a, d)
  BY DEF Under, Returning
<1> QED BY <1>1, <1>2, <1>3, <1>4, <1>5

(* What an agent is, but for what is on its way to it.                     *)
SameAgents ==
    /\ DOMAIN agents' = DOMAIN agents
    /\ \A a \in 1..MaxAgents : /\ DOMAIN agents'[a] = DOMAIN agents[a]
                               /\ agents'[a].st = agents[a].st
                               /\ agents'[a].held = agents[a].held

Sent(msgs) ==
    /\ SameAgents
    /\ \A a \in 1..MaxAgents :
         agents'[a].up = IF a = cur THEN agents[a].up \o msgs ELSE agents[a].up

LEMMA SendSame == ASSUME IInv, CInv, NEW msgs, Send(msgs) PROVE Sent(msgs)
<1>1. DOMAIN agents = 1..MaxAgents /\ cur \in 1..MaxAgents
  BY DEF IInv, AgentsOK, CInv, Wired
<1>2. \A a \in 1..MaxAgents : DOMAIN agents[a] = {"st", "src", "up", "held"}
  BY DEF CInv, Wired
<1> QED BY <1>1, <1>2 DEF Send, Sent, SameAgents

LEMMA NothingSent == ASSUME IInv, CInv, UNCHANGED agents PROVE Sent(<<>>)
<1>1. ASSUME NEW a \in 1..MaxAgents PROVE agents[a].up \o <<>> = agents[a].up
  <2>1. agents[a].up \in Seq(Range(agents[a].up))
    BY DEF IInv, AgentsOK, AgentOK, List
  <2> QED BY <2>1, ConcatEmptySeq
<1> QED BY <1>1 DEF Sent, SameAgents

LEMMA SameAgentsOwn ==
    ASSUME IInv, CInv, SameAgents, UNCHANGED <<jobs, streams>>
    PROVE  StreamsOwned'
<1>1. DOMAIN agents = 1..MaxAgents
  BY DEF IInv, AgentsOK
<1>2. ASSUME NEW d \in Doc
      PROVE  {a \in DOMAIN agents : agents[a].st = "open" /\ agents[a].held[d] # None}'
             = {a \in DOMAIN agents : agents[a].st = "open" /\ agents[a].held[d] # None}
  BY <1>1 DEF SameAgents
<1> QED BY <1>2 DEF CInv, StreamsOwned

LEMMA SameAgentsWired ==
    ASSUME IInv, CInv, SameAgents, UNCHANGED <<cur, sock>>,
           canSend' => state' = "connected" /\ sock = "open",
           sock = "closed" => down' = <<>>,
           \A a \in 1..MaxAgents : agents[a].st = "none" => agents'[a].up = <<>>
    PROVE  Wired'
BY DEF CInv, Wired, SameAgents

LEMMA SentWired ==
    ASSUME IInv, CInv, NEW msgs, Sent(msgs), UNCHANGED <<cur, sock>>,
           canSend' => state' = "connected" /\ sock = "open",
           sock = "closed" => down' = <<>>
    PROVE  Wired' /\ (UNCHANGED <<jobs, streams>> => StreamsOwned')
<1>1. /\ SameAgents
      /\ \A a \in 1..MaxAgents :
           agents'[a].up = IF a = cur THEN agents[a].up \o msgs ELSE agents[a].up
  BY DEF Sent
<1>2. agents[cur].st # "none"
  BY DEF CInv, Wired
<1>3. \A a \in 1..MaxAgents : agents[a].st = "none" => agents'[a].up = <<>>
  BY <1>1, <1>2 DEF CInv, Wired
<1> QED BY <1>1, <1>3, SameAgentsWired, SameAgentsOwn

(* A step of the client: s and f are the answers it takes.                 *)
LEMMA ClientUnder ==
    ASSUME IInv, CInv, NEW msgs, List(msgs), Sent(msgs),
           UNCHANGED <<jobs, cur, sock, canSend>>, List(down'),
           NEW s \in [Doc -> Nat], NEW f \in [Doc -> Nat],
           \A d \in Doc :
             /\ Replied(down, Subscribing, d) = Replied(down', Subscribing, d) + s[d]
             /\ Replied(down, Fetching, d) = Replied(down', Fetching, d) + f[d]
             /\ canSend =>
                  /\ Asked(msgs, Subscribing, d) + Inf(doc[d]) = Inf(doc'[d]) + s[d]
                  /\ Asked(msgs, Fetching, d) + Fet(doc[d]) = Fet(doc'[d]) + f[d]
             /\ ~canSend => Asked(msgs, Subscribing, d) = 0 /\ Asked(msgs, Fetching, d) = 0,
           \A d \in Doc : /\ Inf(doc[d]) \in Nat /\ Fet(doc[d]) \in Nat
                          /\ Inf(doc'[d]) \in 0..1 /\ Fet(doc'[d]) \in 0..1
    PROVE  OneUnderWay'
<1>1. ASSUME NEW d \in Doc, NEW K, NEW t \in Nat, NEW x \in Nat, NEW y \in 0..1,
             Replied(down, K, d) = Replied(down', K, d) + t,
             canSend => Asked(msgs, K, d) + x = y + t,
             ~canSend => Asked(msgs, K, d) = 0,
             \A a \in 1..MaxAgents : Under(K, a, d) <= 1,
             sock # "closed" => Under(K, cur, d) = IF canSend THEN x ELSE 0
      PROVE  /\ \A a \in 1..MaxAgents : Under(K, a, d)' <= 1
             /\ sock # "closed" => Under(K, cur, d)' = IF canSend THEN y ELSE 0
  <2>1. cur \in 1..MaxAgents /\ (sock = "closed" => ~canSend)
    BY DEF CInv, Wired
  <2>2. ASSUME NEW a \in 1..MaxAgents
        PROVE  Under(K, a, d)' + (IF a = cur THEN t ELSE 0)
                 = Under(K, a, d) + IF a = cur THEN Asked(msgs, K, d) ELSE 0
    <3> DEFINE u == Asked(agents[a].up, K, d)
               u2 == Asked(agents'[a].up, K, d)
               w == Worked(jobs, K, a, d)
               n == Asked(msgs, K, d)
               r == Replied(down, K, d)
               r2 == Replied(down', K, d)
    <3>1. /\ u \in Nat /\ w \in Nat /\ r \in Nat /\ List(agents[a].up)
          /\ Under(K, a, d) = u + w + IF a = cur THEN r ELSE 0
      BY UnderIs DEF Returning
    <3>2. n \in Nat /\ r2 \in Nat
      BY AskedIs
    <3>3. agents'[a].up = IF a = cur THEN agents[a].up \o msgs ELSE agents[a].up
      BY DEF Sent
    <3>4. u2 = u + IF a = cur THEN n ELSE 0
      <4>1. Asked(agents[a].up \o msgs, K, d) = u + n
        BY <3>1, AskedConcat
      <4> QED BY <3>1, <3>2, <3>3, <4>1
    <3>5. Under(K, a, d)' = u2 + w + IF a = cur THEN r2 ELSE 0
      BY DEF Under
    <3> HIDE DEF u, u2, w, n, r, r2
    <3>6. r = r2 + t
      BY <1>1 DEF r, r2
    <3> QED BY <3>1, <3>2, <3>4, <3>5, <3>6 DEF n
  <2> DEFINE n == Asked(msgs, K, d)
             U(a) == Under(K, a, d)
             V(a) == Under(K, a, d)'
  <2>3. n \in Nat
    BY AskedIs
  <2>4. ASSUME NEW a \in 1..MaxAgents PROVE U(a) \in Nat
    BY UnderIs
  <2>5. ASSUME NEW a \in 1..MaxAgents PROVE V(a) \in Nat
    <3>1. List(agents[a].up) /\ Worked(jobs, K, a, d) \in Nat
      BY UnderIs
    <3>2. List(agents'[a].up)
      <4>1. agents'[a].up = IF a = cur THEN agents[a].up \o msgs ELSE agents[a].up
        BY DEF Sent
      <4> QED BY <3>1, <4>1, ConcatList
    <3>3. Asked(agents'[a].up, K, d) \in Nat /\ Replied(down', K, d) \in Nat
      BY <3>2, AskedIs
    <3>4. V(a) = Asked(agents'[a].up, K, d) + Worked(jobs, K, a, d)
                 + IF a = cur THEN Replied(down', K, d) ELSE 0
      BY DEF Under
    <3> HIDE DEF V
    <3> QED BY <3>1, <3>3, <3>4
  <2>6. \A a \in 1..MaxAgents : V(a) + (IF a = cur THEN t ELSE 0) = U(a) + IF a = cur THEN n ELSE 0
    BY <2>2
  <2>7. \A a \in 1..MaxAgents : U(a) <= 1
    BY <1>1
  <2>8. sock # "closed" => U(cur) = IF canSend THEN x ELSE 0
    BY <1>1
  <2>9. /\ canSend => n + x = y + t
        /\ ~canSend => n = 0
    BY <1>1
  <2> HIDE DEF U, V, n
  <2>10. V(cur) + t = U(cur) + n /\ V(cur) \in Nat /\ U(cur) \in Nat /\ U(cur) <= 1
    BY <2>1, <2>4, <2>5, <2>6, <2>7
  <2>11. CASE canSend
    <3>1. V(cur) = y
      BY <2>1, <2>3, <2>8, <2>9, <2>10, <2>11
    <3>2. \A a \in 1..MaxAgents : V(a) <= 1
      <4> TAKE a \in 1..MaxAgents
      <4>1. a # cur => V(a) = U(a)
        BY <2>4, <2>5, <2>6
      <4> QED BY <2>7, <3>1, <4>1
    <3> QED BY <2>11, <3>1, <3>2 DEF V
  <2>12. CASE ~canSend
    <3>1. V(cur) + t = U(cur)
      BY <2>3, <2>9, <2>10, <2>12
    <3>2. V(cur) <= U(cur)
      BY <2>10, <3>1
    <3>3. \A a \in 1..MaxAgents : V(a) <= 1
      <4> TAKE a \in 1..MaxAgents
      <4>1. a # cur => V(a) = U(a)
        BY <2>4, <2>5, <2>6
      <4> QED BY <2>7, <2>10, <3>2, <4>1
    <3>4. sock # "closed" => V(cur) = 0
      BY <2>8, <2>10, <2>12, <3>2
    <3> QED BY <2>12, <3>3, <3>4 DEF V
  <2> QED BY <2>11, <2>12
<1>2. ASSUME NEW d \in Doc
      PROVE  /\ \A a \in 1..MaxAgents : Under(Subscribing, a, d)' <= 1
             /\ sock # "closed" => Under(Subscribing, cur, d)' = IF canSend THEN Inf(doc'[d]) ELSE 0
  <2>1. /\ \A a \in 1..MaxAgents : Under(Subscribing, a, d) <= 1
        /\ sock # "closed" => Under(Subscribing, cur, d) = IF canSend THEN Inf(doc[d]) ELSE 0
    BY DEF CInv, OneUnderWay
  <2>2. s[d] \in Nat /\ Inf(doc[d]) \in Nat /\ Inf(doc'[d]) \in 0..1
    OBVIOUS
  <2> QED BY <1>1, <2>1, <2>2
<1>3. ASSUME NEW d \in Doc
      PROVE  /\ \A a \in 1..MaxAgents : Under(Fetching, a, d)' <= 1
             /\ sock # "closed" => Under(Fetching, cur, d)' = IF canSend THEN Fet(doc'[d]) ELSE 0
  <2>1. /\ \A a \in 1..MaxAgents : Under(Fetching, a, d) <= 1
        /\ sock # "closed" => Under(Fetching, cur, d) = IF canSend THEN Fet(doc[d]) ELSE 0
    BY DEF CInv, OneUnderWay
  <2>2. f[d] \in Nat /\ Fet(doc[d]) \in Nat /\ Fet(doc'[d]) \in 0..1
    OBVIOUS
  <2> QED BY <1>1, <2>1, <2>2
<1>4. /\ \A d \in Doc, a \in 1..MaxAgents :
           Under(Subscribing, a, d)' <= 1 /\ Under(Fetching, a, d)' <= 1
      /\ sock' # "closed" => \A d \in Doc :
           /\ Under(Subscribing, cur, d)' = IF canSend' THEN Inf(doc'[d]) ELSE 0
           /\ Under(Fetching, cur, d)' = IF canSend' THEN Fet(doc'[d]) ELSE 0
  BY <1>2, <1>3
<1> QED BY <1>4 DEF OneUnderWay

-----------------------------------------------------------------------------
(* Steps of the docs.                                                      *)
(* A doc with the calls that wait in it.                                   *)
LEMMA TidyIs ==
    ASSUME IInv, CInv, NEW d \in Doc
    PROVE  /\ Tidy(doc[d]) /\ doc[d] \in DocShape /\ Single(doc[d])
           /\ Sends(doc[d], Subscribing) = 0 /\ Sends(doc[d], Fetching) = 0
           /\ Inf(doc[d]) \in 0..1 /\ Fet(doc[d]) \in 0..1
           /\ \A c \in Nat : /\ Weight(doc[d], c) = One(Owing(calls, d, c))
                             /\ Weight(doc[d], c) \in Nat
<1>1. Tidy(doc[d]) /\ doc[d] \in DocShape /\ Len(doc[d].infFetch) <= 1
      /\ doc[d].out = <<>> /\ doc[d].told = <<>>
  BY DEF CInv, DocsTidy, Tidy, Sound
<1>2. Sends(doc[d], Subscribing) = 0 /\ Sends(doc[d], Fetching) = 0
  BY <1>1, NumEmpty DEF Sends
<1>3. Inf(doc[d]) \in 0..1
  BY DEF Inf, One
<1>4. Fet(doc[d]) \in 0..1
  <2>1. Fet(doc[d]) \in Nat
    BY <1>1, SendsIs
  <2>2. Fet(doc[d]) <= 1
    BY <1>1 DEF Fet
  <2> HIDE DEF Fet
  <2> QED BY <2>1, <2>2
<1>5. ASSUME NEW c \in Nat
      PROVE  /\ Weight(doc[d], c) = One(Owing(calls, d, c)) /\ Weight(doc[d], c) <= 1
             /\ Weight(doc[d], c) \in Nat
  <2>1. Waits(doc[d], c) = One(Owing(calls, d, c))
    BY DEF CInv, CallsOK
  <2>2. Num(doc[d].told, ToldOf(c)) = 0
    BY <1>1, NumEmpty
  <2>3. One(Owing(calls, d, c)) \in Nat /\ One(Owing(calls, d, c)) <= 1
    BY OneIs
  <2> QED BY <2>1, <2>2, <2>3 DEF Weight
<1> QED BY <1>1, <1>2, <1>3, <1>4, <1>5 DEF Single

(* What a step does to a doc, when it takes s answers to subscribes and f   *)
(* to fetches.                                                             *)
Moves(x, y, s, f) ==
    /\ Sound(y) /\ Alternates(y)
    /\ canSend => Balance(x, y, s, f)
    /\ ~canSend => y.out = x.out /\ (Resting(x) => Resting(y))

LEMMA MovesHandled ==
    ASSUME NEW x, NEW y, NEW G, Handled(x, y, canSend, G), Alternates(y)
    PROVE  Moves(x, y, 0, 0)
BY DEF Moves, Handled, Quietly, Resting

LEMMA MovesNot ==
    ASSUME IInv, CInv, NEW d \in Doc
    PROVE  Moves(doc[d], doc[d], 0, 0)
<1>1. Sound(doc[d]) /\ Alternates(doc[d]) /\ doc[d] \in DocShape
  BY TidyIs DEF Tidy
<1>2. Balance(doc[d], doc[d], 0, 0)
  BY <1>1, SameBalance
<1> QED BY <1>1, <1>2 DEF Moves

(* A step of the docs and of nothing else.                                 *)
LEMMA DocsMove ==
    ASSUME IInv, CInv, NEW xs, NEW asked \in Seq(Calls), NEW s \in [Doc -> Nat], NEW f \in [Doc -> Nat],
           \A d \in Doc : Moves(doc[d], xs[d], s[d], f[d]),
           \A c \in DOMAIN asked : Len(asked[c].told) <= 1,
           \A d \in Doc, c \in Nat : Weight(xs[d], c) = One(Owing(asked, d, c)),
           Put(xs, asked), Send(Messages(xs)),
           UNCHANGED <<state, canSend, sock, cur, jobs, streams>>,
           List(down'), Range(down') \subseteq Range(down), sock = "closed" => down' = <<>>,
           \A d \in Doc :
             /\ Replied(down, Subscribing, d) = Replied(down', Subscribing, d) + s[d]
             /\ Replied(down, Fetching, d) = Replied(down', Fetching, d) + f[d]
    PROVE  CInv'
<1>1. \A d \in Doc : xs[d] \in DocShape /\ DocOK(xs[d])
  BY ShapeIsOK DEF Moves, Sound
<1>2. List(Messages(xs)) /\ Sent(Messages(xs))
  BY <1>1, MessagesOK, SendSame
<1>3. CallsOK'
  BY <1>1, PutCalls
<1>4. DocsTidy'
  <2>1. ASSUME NEW d \in Doc
        PROVE  /\ Sound(xs[d]) /\ Alternates(xs[d])
               /\ state' # "connected" => Resting(xs[d])
    <3>1. state' # "connected" => ~canSend /\ Resting(doc[d])
      BY TidyIs DEF CInv, Wired, Tidy
    <3> QED BY <3>1 DEF Moves
  <2> QED BY <2>1, PutDocs
<1>5. ASSUME NEW d \in Doc
      PROVE  /\ Inf(doc'[d]) = Inf(xs[d]) /\ Fet(doc'[d]) = Fet(xs[d])
             /\ Inf(xs[d]) \in 0..1 /\ Fet(xs[d]) \in 0..1
  <2> DEFINE y == [xs[d] EXCEPT !.out = <<>>, !.told = <<>>, !.quiet = FALSE]
  <2>1. doc'[d] = y
    BY DEF Put
  <2>2. y.infSub = xs[d].infSub /\ y.infFetch = xs[d].infFetch /\ y.ticks = xs[d].ticks
    BY <1>1 DEF DocShape
  <2>3. Inf(doc'[d]) = Inf(xs[d]) /\ Fet(doc'[d]) = Fet(xs[d])
    BY <2>1, <2>2 DEF Inf, Fet
  <2>4. Fet(xs[d]) \in Nat /\ Fet(xs[d]) <= 1
    <3>1. Fet(xs[d]) \in Nat
      BY <1>1, SendsIs
    <3> QED BY <3>1 DEF Moves, Sound, Fet
  <2>5. Inf(xs[d]) \in 0..1
    BY DEF Inf, One
  <2> QED BY <2>3, <2>4, <2>5
<1>6. ASSUME NEW d \in Doc
      PROVE  /\ canSend =>
                  /\ Asked(Messages(xs), Subscribing, d) + Inf(doc[d]) = Inf(doc'[d]) + s[d]
                  /\ Asked(Messages(xs), Fetching, d) + Fet(doc[d]) = Fet(doc'[d]) + f[d]
             /\ ~canSend => /\ Asked(Messages(xs), Subscribing, d) = 0
                            /\ Asked(Messages(xs), Fetching, d) = 0
  <2>1. /\ Asked(Messages(xs), Subscribing, d) = Sends(xs[d], Subscribing)
        /\ Asked(Messages(xs), Fetching, d) = Sends(xs[d], Fetching)
    BY <1>1, MessagesCount
  <2>2. /\ Sends(xs[d], Subscribing) \in Nat /\ Sends(xs[d], Fetching) \in Nat
        /\ s[d] \in Nat /\ f[d] \in Nat
    BY <1>1, SendsIs
  <2>3. /\ Sends(doc[d], Subscribing) = 0 /\ Sends(doc[d], Fetching) = 0
        /\ Inf(doc[d]) \in 0..1 /\ Fet(doc[d]) \in 0..1 /\ doc[d].out = <<>>
    BY TidyIs DEF Tidy
  <2>4. CASE canSend
    <3>1. Balance(doc[d], xs[d], s[d], f[d])
      BY <2>4 DEF Moves
    <3>2. /\ Sends(xs[d], Subscribing) + Inf(doc[d]) = 0 + Inf(xs[d]) + s[d]
          /\ Sends(xs[d], Fetching) + Fet(doc[d]) = 0 + Fet(xs[d]) + f[d]
      BY <2>3, <3>1 DEF Balance
    <3> QED BY <1>5, <2>1, <2>2, <2>3, <2>4, <3>2
  <2>5. CASE ~canSend
    <3>1. xs[d].out = <<>>
      BY <2>3, <2>5 DEF Moves
    <3>2. Sends(xs[d], Subscribing) = 0 /\ Sends(xs[d], Fetching) = 0
      BY <3>1, NumEmpty DEF Sends
    <3> QED BY <2>1, <2>5, <3>2
  <2> QED BY <2>4, <2>5
<1>7. OneUnderWay'
  <2>1. \A d \in Doc : /\ Inf(doc[d]) \in Nat /\ Fet(doc[d]) \in Nat
                       /\ Inf(doc'[d]) \in 0..1 /\ Fet(doc'[d]) \in 0..1
    <3> TAKE d \in Doc
    <3>1. Inf(doc[d]) \in 0..1 /\ Fet(doc[d]) \in 0..1
      BY TidyIs
    <3>2. Inf(doc'[d]) \in 0..1 /\ Fet(doc'[d]) \in 0..1
      BY <1>5
    <3> QED BY <3>1, <3>2
  <2>2. \A d \in Doc :
             /\ Replied(down, Subscribing, d) = Replied(down', Subscribing, d) + s[d]
             /\ Replied(down, Fetching, d) = Replied(down', Fetching, d) + f[d]
             /\ canSend =>
                  /\ Asked(Messages(xs), Subscribing, d) + Inf(doc[d]) = Inf(doc'[d]) + s[d]
                  /\ Asked(Messages(xs), Fetching, d) + Fet(doc[d]) = Fet(doc'[d]) + f[d]
             /\ ~canSend => /\ Asked(Messages(xs), Subscribing, d) = 0
                            /\ Asked(Messages(xs), Fetching, d) = 0
    BY <1>6
  <2> QED BY <1>2, <2>1, <2>2, ClientUnder
<1>8. Wired' /\ StreamsOwned'
  <2>1. canSend' => state' = "connected" /\ sock = "open"
    BY DEF CInv, Wired
  <2> QED BY <1>2, <2>1, SentWired
<1>9. JobsShape' /\ DownShape'
  BY DEF CInv, JobsShape, JobShape, DownShape, Reply
<1> QED BY <1>3, <1>4, <1>7, <1>8, <1>9 DEF CInv

-----------------------------------------------------------------------------
(* A reply reaches the docs that it is about.                              *)
LEMMA CallsAre ==
    ASSUME CInv
    PROVE  calls \in Seq(Calls) /\ \A c \in DOMAIN calls : Len(calls[c].told) <= 1
BY DEF CInv, CallsOK

LEMMA SameWeights ==
    ASSUME IInv, CInv, NEW xs, \A d \in Doc : Gains(doc[d], xs[d], {})
    PROVE  \A d \in Doc, c \in Nat : Weight(xs[d], c) = One(Owing(calls, d, c))
<1> TAKE d \in Doc, c \in Nat
<1>1. Weight(xs[d], c) = Weight(doc[d], c) + One(c \in {}) /\ One(c \in {}) = 0
  BY DEF Gains, One
<1> QED BY <1>1, TidyIs

LEMMA ReceivingSafe ==
    ASSUME IInv, CInv, NEW kinds, Receiving(kinds)
    PROVE  /\ sock = "open" /\ Head(down).a \in kinds
           /\ Head(down).a \in {"f", "s", "u"} => Reply(Head(down))
           /\ List(down') /\ Range(down') \subseteq Range(down)
           /\ UNCHANGED <<sock, cur, jobs, streams>>
           /\ \A K, d : /\ Replied(down, K, d) = One(Replying(Head(down), K, d)) + Replied(down', K, d)
                        /\ Replied(down', K, d) \in Nat
<1>1. List(down) /\ down # <<>> /\ down' = Tail(down)
  BY DEF Receiving, IInv, ArrivesOK
<1>2. List(Tail(down)) /\ Head(down) \in Range(down) /\ Range(Tail(down)) \subseteq Range(down)
  BY <1>1, TailList
<1>3. \A K, d : Replied(down, K, d) = One(Replying(Head(down), K, d)) + Replied(Tail(down), K, d)
  BY <1>1, AskedTail
<1>4. \A K, d : Replied(Tail(down), K, d) \in Nat
  BY <1>2, AskedIs
<1> QED BY <1>1, <1>2, <1>3, <1>4 DEF Receiving, CInv, DownShape

(* What is answered is inflight.                                           *)
LEMMA AnsweredIsInflight ==
    ASSUME IInv, CInv, sock = "open", NEW m \in Range(down), NEW d \in Doc,
           d \in DOMAIN m.res
    PROVE  /\ m.a \in Subscribing => canSend /\ doc[d].infSub # None /\ doc[d].ticks = 0
           /\ m.a \in Fetching => canSend /\ doc[d].infFetch # <<>>
<1>1. cur \in 1..MaxAgents
  BY DEF CInv, Wired
<1>2. ASSUME NEW K, m.a \in K PROVE Under(K, cur, d) \in Nat /\ Under(K, cur, d) # 0
  <2>1. Replied(down, K, d) # 0
    <3>1. Replying(m, K, d)
      BY <1>2 DEF Replying
    <3>2. List(down)
      BY DEF IInv, ArrivesOK
    <3> QED BY <3>1, <3>2, AskedIs
  <2>2. /\ Asked(agents[cur].up, K, d) \in Nat /\ Worked(jobs, K, cur, d) \in Nat
        /\ Replied(down, K, d) \in Nat
        /\ Under(K, cur, d) = Asked(agents[cur].up, K, d) + Worked(jobs, K, cur, d)
                              + Replied(down, K, d)
    BY <1>1, UnderIs DEF Returning
  <2> QED BY <2>1, <2>2
<1>3. /\ Under(Subscribing, cur, d) = IF canSend THEN Inf(doc[d]) ELSE 0
      /\ Under(Fetching, cur, d) = IF canSend THEN Fet(doc[d]) ELSE 0
  BY DEF CInv, OneUnderWay
<1>4. ~(doc[d].infSub # None /\ doc[d].ticks = 0) => Inf(doc[d]) = 0
  BY DEF Inf, One
<1>5. doc[d].infFetch = <<>> => Fet(doc[d]) = 0
  BY DEF Fet
<1> QED BY <1>2, <1>3, <1>4, <1>5

-----------------------------------------------------------------------------
LEMMA HandleReplySafe == ASSUME IInv, CInv, HandleReply PROVE CInv'
<1> DEFINE m == Head(down)
           handle(x, r) == IF m.a = "f" THEN _handleFetch(x, canSend, r)
                           ELSE _handleSubscribe(x, canSend, r)
           xs == [d \in Doc |-> IF d \in DOMAIN m.res THEN handle(doc[d], m.res[d])
                                ELSE doc[d]]
           s == [d \in Doc |-> One(Replying(m, Subscribing, d))]
           f == [d \in Doc |-> One(Replying(m, Fetching, d))]
<1>1. /\ Receiving({"f", "s", "u"}) /\ Put(xs, calls) /\ Send(Messages(xs))
      /\ UNCHANGED <<state, canSend>>
  BY DEF HandleReply, DocsStep
<1>2. /\ sock = "open" /\ m.a \in {"f", "s", "u"} /\ Reply(m)
      /\ List(down') /\ Range(down') \subseteq Range(down)
      /\ UNCHANGED <<sock, cur, jobs, streams>>
      /\ \A K, d : /\ Replied(down, K, d) = One(Replying(m, K, d)) + Replied(down', K, d)
                   /\ Replied(down', K, d) \in Nat
  BY <1>1, ReceivingSafe
<1>3. m \in Range(down) /\ \A d \in DOMAIN m.res : m.res[d].v \in Versions
  <2>1. List(down) /\ down # <<>>
    BY <1>1 DEF Receiving, IInv, ArrivesOK
  <2>2. m \in Range(down)
    BY <2>1, TailList
  <2> QED BY <1>2, <2>2 DEF IInv, ArrivesOK, DownOK
<1>4. ASSUME NEW d \in Doc
      PROVE  Moves(doc[d], xs[d], s[d], f[d]) /\ Gains(doc[d], xs[d], {})
  <2>1. /\ Tidy(doc[d]) /\ doc[d] \in DocShape /\ Single(doc[d]) /\ Alternates(doc[d])
        /\ Sound(doc[d]) /\ Len(doc[d].infFetch) <= 1
    BY TidyIs DEF Tidy, Sound
  <2>2. CASE d \notin DOMAIN m.res
    <3>1. xs[d] = doc[d]
      BY <2>2
    <3>2. s[d] = 0 /\ f[d] = 0
      BY <2>2 DEF Replying, One
    <3>3. Gains(doc[d], doc[d], {})
      <4>1. \A c \in Nat : Weight(doc[d], c) \in Nat /\ One(c \in {}) = 0
        BY TidyIs DEF One
      <4> QED BY <4>1 DEF Gains
    <3> HIDE DEF xs, s, f
    <3> QED BY <3>1, <3>2, <3>3, MovesNot
  <2>3. CASE d \in DOMAIN m.res
    <3> DEFINE r == m.res[d]
    <3>1. r.v \in Versions /\ r.how \in Hows
      BY <1>2, <1>3, <2>3 DEF Reply
    <3>2. xs[d] = handle(doc[d], r)
      BY <2>3
    <3>3. canSend = TRUE
      BY <1>2, <1>3, <2>3, AnsweredIsInflight DEF IInv, Subscribing, Fetching
    <3>5. CASE m.a = "f"
      <4>1. s[d] = 0 /\ f[d] = 1
        BY <2>3, <3>5 DEF Replying, One, Subscribing, Fetching
      <4>2. doc[d].infFetch # <<>>
        BY <1>2, <1>3, <2>3, <3>5, AnsweredIsInflight DEF Fetching
      <4>3. xs[d] = _handleFetch(doc[d], TRUE, r)
        BY <3>2, <3>3, <3>5
      <4>4. Sound(doc[d])
        BY <2>1, <3>3
      <4> HIDE DEF xs, s, f, r, m
      <4>5. /\ Sound(_handleFetch(doc[d], TRUE, r))
            /\ Gains(doc[d], _handleFetch(doc[d], TRUE, r), {})
            /\ Balance(doc[d], _handleFetch(doc[d], TRUE, r), 0, 1)
        BY <2>1, <3>1, <4>2, <4>4, HandleFetchHandled
      <4>6. Alternates(_handleFetch(doc[d], TRUE, r))
        BY <2>1, AltHandleFetch
      <4>7. Sound(xs[d])
        BY <3>3, <4>3, <4>5
      <4> QED BY <3>3, <4>1, <4>3, <4>5, <4>6, <4>7 DEF Moves
    <3>6. CASE m.a # "f"
      <4>1. s[d] = 1 /\ f[d] = 0
        BY <1>2, <2>3, <3>6 DEF Replying, One, Subscribing, Fetching
      <4>2. doc[d].infSub # None /\ doc[d].ticks = 0
        BY <1>2, <1>3, <2>3, <3>6, AnsweredIsInflight DEF Subscribing
      <4>3. xs[d] = _handleSubscribe(doc[d], TRUE, r)
        BY <3>2, <3>3, <3>6
      <4> HIDE DEF xs, s, f, r, m
      <4>5. /\ Sound(_handleSubscribe(doc[d], TRUE, r))
            /\ Gains(doc[d], _handleSubscribe(doc[d], TRUE, r), {})
            /\ Balance(doc[d], _handleSubscribe(doc[d], TRUE, r), 1, 0)
        BY <2>1, <3>1, <4>2, HandleSubscribeHandled
      <4>6. Alternates(_handleSubscribe(doc[d], TRUE, r))
        BY <2>1, <3>1, <4>2, AltHandleSubscribe
      <4>7. Sound(xs[d])
        BY <3>3, <4>3, <4>5
      <4> QED BY <3>3, <4>1, <4>3, <4>5, <4>6, <4>7 DEF Moves
    <3> QED BY <3>5, <3>6
  <2> QED BY <2>2, <2>3
<1>5. s \in [Doc -> Nat] /\ f \in [Doc -> Nat]
  <2>1. \A d \in Doc : One(Replying(m, Subscribing, d)) \in Nat /\ One(Replying(m, Fetching, d)) \in Nat
    BY OneIs
  <2> QED BY <2>1
<1>6. \A d \in Doc :
        /\ Replied(down, Subscribing, d) = Replied(down', Subscribing, d) + s[d]
        /\ Replied(down, Fetching, d) = Replied(down', Fetching, d) + f[d]
  <2> TAKE d \in Doc
  <2>1. /\ Replied(down, Subscribing, d) = s[d] + Replied(down', Subscribing, d)
        /\ Replied(down, Fetching, d) = f[d] + Replied(down', Fetching, d)
        /\ Replied(down', Subscribing, d) \in Nat /\ Replied(down', Fetching, d) \in Nat
        /\ s[d] \in Nat /\ f[d] \in Nat
    BY <1>2, <1>5
  <2> HIDE DEF s, f
  <2> QED BY <2>1
<1> HIDE DEF xs, s, f, m
<1>7. \A d \in Doc, c \in Nat : Weight(xs[d], c) = One(Owing(calls, d, c))
  BY <1>4, SameWeights
<1>8. calls \in Seq(Calls) /\ (\A c \in DOMAIN calls : Len(calls[c].told) <= 1)
      /\ sock # "closed" /\ \A d \in Doc : Moves(doc[d], xs[d], s[d], f[d])
  BY <1>2, <1>4, CallsAre
<1> QED BY <1>1, <1>2, <1>5, <1>6, <1>7, <1>8, DocsMove

-----------------------------------------------------------------------------
(* Ops, ticks and calls.                                                   *)
(* A step that takes no answer.                                            *)
LEMMA DocsAlone ==
    ASSUME IInv, CInv, NEW xs, NEW asked \in Seq(Calls),
           \A d \in Doc : Moves(doc[d], xs[d], 0, 0),
           \A c \in DOMAIN asked : Len(asked[c].told) <= 1,
           \A d \in Doc, c \in Nat : Weight(xs[d], c) = One(Owing(asked, d, c)),
           Put(xs, asked), Send(Messages(xs)),
           UNCHANGED <<state, canSend, sock, cur, jobs, streams>>,
           List(down'), Range(down') \subseteq Range(down), sock = "closed" => down' = <<>>,
           \A d \in Doc : /\ Replied(down, Subscribing, d) = Replied(down', Subscribing, d)
                          /\ Replied(down, Fetching, d) = Replied(down', Fetching, d)
    PROVE  CInv'
<1> DEFINE s == [d \in Doc |-> 0]
<1>1. s \in [Doc -> Nat] /\ \A d \in Doc : s[d] = 0
  OBVIOUS
<1> HIDE DEF s
<1>2. \A d \in Doc : Moves(doc[d], xs[d], s[d], s[d])
  BY <1>1
<1>3. \A d \in Doc :
        /\ Replied(down, Subscribing, d) = Replied(down', Subscribing, d) + s[d]
        /\ Replied(down, Fetching, d) = Replied(down', Fetching, d) + s[d]
  <2> TAKE d \in Doc
  <2>1. Replied(down', Subscribing, d) \in Nat /\ Replied(down', Fetching, d) \in Nat
    BY AskedIs
  <2> QED BY <1>1, <2>1
<1> QED BY <1>1, <1>2, <1>3, DocsMove

LEMMA HandleOpSafe == ASSUME IInv, CInv, HandleOp PROVE CInv'
<1> DEFINE m == Head(down)
           xs == [doc EXCEPT ![m.d] = _handleOp(@, canSend, m.v)]
<1>1. /\ Receiving({"op"}) /\ Put(xs, calls) /\ Send(Messages(xs))
      /\ UNCHANGED <<state, canSend>>
  BY DEF HandleOp, DocsStep
<1>2. /\ sock = "open" /\ m.a = "op"
      /\ List(down') /\ Range(down') \subseteq Range(down)
      /\ UNCHANGED <<sock, cur, jobs, streams>>
      /\ \A K, d : /\ Replied(down, K, d) = One(Replying(m, K, d)) + Replied(down', K, d)
                   /\ Replied(down', K, d) \in Nat
  BY <1>1, ReceivingSafe
<1>3. m.v \in Nat
  <2>1. List(down) /\ down # <<>>
    BY <1>1 DEF Receiving, IInv, ArrivesOK
  <2>2. m \in Range(down)
    BY <2>1, TailList
  <2> QED BY <1>2, <2>2 DEF IInv, ArrivesOK, DownOK
<1>4. \A d \in Doc : /\ Replied(down, Subscribing, d) = Replied(down', Subscribing, d)
                     /\ Replied(down, Fetching, d) = Replied(down', Fetching, d)
  <2> TAKE d \in Doc
  <2>1. One(Replying(m, Subscribing, d)) = 0 /\ One(Replying(m, Fetching, d)) = 0
    BY <1>2 DEF Replying, One, Subscribing, Fetching
  <2>2. /\ Replied(down, Subscribing, d) = 0 + Replied(down', Subscribing, d)
        /\ Replied(down, Fetching, d) = 0 + Replied(down', Fetching, d)
        /\ Replied(down', Subscribing, d) \in Nat /\ Replied(down', Fetching, d) \in Nat
    BY <1>2, <2>1
  <2> QED BY <2>2
<1>5. ASSUME NEW d \in Doc
      PROVE  Moves(doc[d], xs[d], 0, 0) /\ Gains(doc[d], xs[d], {})
  <2>1. Sound(doc[d]) /\ doc[d] \in DocShape /\ Alternates(doc[d]) /\ canSend \in BOOLEAN
    BY TidyIs DEF Tidy, IInv
  <2>2. Handled(doc[d], _handleOp(doc[d], canSend, m.v), canSend, {})
    BY <1>3, <2>1, HandleOpHandled
  <2>3. Alternates(_handleOp(doc[d], canSend, m.v))
    BY <2>1, AltHandleOp
  <2>4. xs[d] = IF d = m.d THEN _handleOp(doc[d], canSend, m.v) ELSE doc[d]
    BY DEF CInv, DocsTidy
  <2> HIDE DEF xs
  <2>5. Moves(doc[d], doc[d], 0, 0)
    BY MovesNot
  <2>6. Gains(doc[d], doc[d], {})
    <3>1. \A c \in Nat : Weight(doc[d], c) \in Nat /\ One(c \in {}) = 0
      BY TidyIs DEF One
    <3> QED BY <3>1 DEF Gains
  <2>7. Moves(doc[d], _handleOp(doc[d], canSend, m.v), 0, 0)
    BY <2>2, <2>3, MovesHandled
  <2>8. Gains(doc[d], _handleOp(doc[d], canSend, m.v), {})
    BY <2>2 DEF Handled
  <2> QED BY <2>4, <2>5, <2>6, <2>7, <2>8
<1> HIDE DEF xs, m
<1>6. \A d \in Doc, c \in Nat : Weight(xs[d], c) = One(Owing(calls, d, c))
  BY <1>5, SameWeights
<1> QED BY <1>1, <1>2, <1>4, <1>5, <1>6, CallsAre, DocsAlone

LEMMA TickSafe == ASSUME IInv, CInv, NEW d \in Doc, Tick(d) PROVE CInv'
<1> DEFINE x == [doc[d] EXCEPT !.ticks = @ - 1]
           y == _handleSubscribe(x, canSend, Plain)
           xs == [doc EXCEPT ![d] = y]
<1>1. /\ doc[d].ticks > 0 /\ Put(xs, calls) /\ Send(Messages(xs))
      /\ UNCHANGED <<state, canSend, sock, cur, down, jobs, streams>>
  BY DEF Tick, DocsStep
<1>2. /\ Tidy(doc[d]) /\ doc[d] \in DocShape /\ Single(doc[d]) /\ Alternates(doc[d])
      /\ Sound(doc[d]) /\ Len(doc[d].infFetch) <= 1
  BY TidyIs DEF Tidy, Sound
<1>3. /\ doc[d].ticks = 1 /\ doc[d].infSub # None /\ ~doc[d].infSub.want
      /\ canSend \in BOOLEAN
  BY <1>1, <1>2 DEF Sound, IInv
<1>4. /\ x \in DocShape /\ x.ticks = 0 /\ x.infSub = doc[d].infSub /\ x.penSub = doc[d].penSub
      /\ x.infFetch = doc[d].infFetch /\ x.penFetch = doc[d].penFetch
      /\ x.told = doc[d].told /\ x.out = doc[d].out /\ x.late = doc[d].late
  <2> DEFINE n == doc[d].ticks - 1
  <2>1. n = 0 /\ n \in Nat
    BY <1>3
  <2>2. x = [doc[d] EXCEPT !.ticks = n]
    BY <1>2 DEF DocShape
  <2> HIDE DEF n, x
  <2> QED BY <1>2, <2>1, <2>2 DEF DocShape
<1> HIDE DEF x
<1>5. Alternates(x)
  BY <1>2, <1>4, AltSame
<1>6. \A c \in Nat : Weight(x, c) = Weight(doc[d], c)
  BY <1>4 DEF Weight, Waits
<1>7. Single(x)
  BY <1>2, <1>6 DEF Single
<1>8. Plain.v \in Versions /\ Plain.how \in Hows /\ Plain.how = "ok"
  BY DEF Plain, Versions, Hows
<1>9. /\ Sound(y) /\ Gains(x, y, {})
      /\ canSend => Balance(x, y, 1, 0)
      /\ ~canSend => /\ y.out = x.out /\ y.infFetch = x.infFetch
                     /\ y.ticks = 0 => y.infSub = None
  BY <1>2, <1>3, <1>4, <1>7, <1>8, HandleSubscribeHandled
<1>10. Alternates(y)
  BY <1>2, <1>3, <1>4, <1>5, <1>8, AltHandleSubscribe
<1> HIDE DEF y
<1>11. Moves(doc[d], y, 0, 0)
  <2>1. ASSUME canSend PROVE Balance(doc[d], y, 0, 0)
    <3>1. Inf(x) = 1 /\ Inf(doc[d]) = 0 /\ Fet(x) = Fet(doc[d])
      BY <1>3, <1>4 DEF Inf, One, Fet
    <3>2. /\ Sends(x, Subscribing) = Sends(doc[d], Subscribing)
          /\ Sends(x, Fetching) = Sends(doc[d], Fetching)
      BY <1>4 DEF Sends
    <3>3. /\ Sends(x, Subscribing) \in Nat /\ Sends(x, Fetching) \in Nat /\ Fet(x) \in Nat
      BY <1>4, SendsIs
    <3>4. /\ Sends(y, Subscribing) \in Nat /\ Sends(y, Fetching) \in Nat
          /\ Inf(y) \in Nat /\ Fet(y) \in Nat
      BY <1>9, SendsIs DEF Sound
    <3>5. /\ Sends(y, Subscribing) + Inf(x) = Sends(x, Subscribing) + Inf(y) + 1
          /\ Sends(y, Fetching) + Fet(x) = Sends(x, Fetching) + Fet(y) + 0
      BY <1>9, <2>1 DEF Balance
    <3> QED BY <3>1, <3>2, <3>3, <3>4, <3>5 DEF Balance
  <2>2. ~canSend => y.out = doc[d].out /\ (Resting(doc[d]) => Resting(y))
    BY <1>4, <1>9 DEF Resting
  <2> QED BY <1>9, <1>10, <2>1, <2>2 DEF Moves
<1>12. Gains(doc[d], y, {})
  BY <1>6, <1>9 DEF Gains
<1>13. ASSUME NEW e \in Doc
       PROVE  Moves(doc[e], xs[e], 0, 0) /\ Gains(doc[e], xs[e], {})
  <2>1. xs[e] = IF e = d THEN y ELSE doc[e]
    BY DEF CInv, DocsTidy
  <2> HIDE DEF xs
  <2>2. Moves(doc[e], doc[e], 0, 0)
    BY MovesNot
  <2>3. Gains(doc[e], doc[e], {})
    <3>1. \A c \in Nat : Weight(doc[e], c) \in Nat /\ One(c \in {}) = 0
      BY TidyIs DEF One
    <3> QED BY <3>1 DEF Gains
  <2> QED BY <1>11, <1>12, <2>1, <2>2, <2>3
<1> HIDE DEF xs
<1>14. \A e \in Doc, c \in Nat : Weight(xs[e], c) = One(Owing(calls, e, c))
  BY <1>13, SameWeights
<1>15. List(down') /\ Range(down') \subseteq Range(down) /\ (sock = "closed" => down' = <<>>)
  BY <1>1 DEF IInv, ArrivesOK, CInv, Wired
<1> QED BY <1>1, <1>13, <1>14, <1>15, CallsAre, DocsAlone

(* A callback that was put off.                                            *)
LEMMA CallBackSafe == ASSUME IInv, CInv, NEW d \in Doc, CallBack(d) PROVE CInv'
<1> PICK i \in DOMAIN doc[d].late :
      LET x == [doc[d] EXCEPT !.late = RemoveAt(@, i)]
          xs == [doc EXCEPT ![d] = Tell(x, doc[d].late[i], "ok")]
      IN  /\ DocsStep(xs)
          /\ UNCHANGED <<sc, state, canSend, id, sock, cur, request, down, jobs,
                         streams, log, saved>>
  BY DEF CallBack
<1> DEFINE s == doc[d].late
           cbs == s[i]
           x == [doc[d] EXCEPT !.late = RemoveAt(@, i)]
           y == Tell(x, cbs, "ok")
           xs == [doc EXCEPT ![d] = y]
<1>1. /\ Put(xs, calls) /\ Send(Messages(xs))
      /\ UNCHANGED <<state, canSend, sock, cur, down, jobs, streams>>
  BY DEF DocsStep
<1>2. /\ Tidy(doc[d]) /\ doc[d] \in DocShape /\ Alternates(doc[d]) /\ Sound(doc[d])
      /\ canSend \in BOOLEAN
  BY TidyIs DEF Tidy, IInv
<1>3. s \in Seq(Groups) /\ i \in 1..Len(s) /\ cbs \in Groups
  <2>1. s \in Seq(Groups)
    BY <1>2 DEF DocShape
  <2>2. DOMAIN s = 1..Len(s)
    BY <2>1, LenProperties
  <2> QED BY <2>1, <2>2, ElementOfSeq
<1>4. /\ RemoveAt(s, i) \in Seq(Groups)
      /\ \A c : Num(RemoveAt(s, i), Having(c)) + One(cbs \in Having(c)) = Num(s, Having(c))
  BY <1>3, NumRemove
<1>5. /\ x \in DocShape /\ x.ticks = doc[d].ticks /\ x.infSub = doc[d].infSub
      /\ x.penSub = doc[d].penSub /\ x.infFetch = doc[d].infFetch
      /\ x.penFetch = doc[d].penFetch /\ x.told = doc[d].told /\ x.out = doc[d].out
      /\ x.late = RemoveAt(s, i)
  BY <1>2, <1>4 DEF DocShape
<1> HIDE DEF x
<1>6. Sound(x) /\ Alternates(x) /\ Balance(doc[d], x, 0, 0) /\ Quietly(doc[d], x)
  BY <1>2, <1>5, AltSame, SameBalance DEF Sound
<1>7. Loses(doc[d], x, cbs)
  <2> SUFFICES ASSUME NEW c \in Nat PROVE Weight(x, c) + One(c \in cbs) = Weight(doc[d], c)
    BY DEF Loses
  <2>1. One(cbs \in Having(c)) = One(c \in cbs)
    <3>1. cbs \in Having(c) <=> c \in cbs
      BY <1>3 DEF Having
    <3> QED BY <3>1 DEF One
  <2>2. Num(x.late, Having(c)) + One(c \in cbs) = Num(doc[d].late, Having(c))
    BY <1>4, <1>5, <2>1
  <2>3. /\ Num(x.infFetch, Having(c)) \in Nat /\ Num(x.penFetch, Having(c)) \in Nat
        /\ Num(x.late, Having(c)) \in Nat /\ Num(x.penSub, SubsOf(c)) \in Nat
        /\ Num(x.told, ToldOf(c)) \in Nat /\ One(c \in cbs) \in Nat
        /\ One(x.infSub # None /\ c \in x.infSub.cbs) \in Nat
    BY <1>5, WeightIs, OneIs
  <2> HIDE DEF cbs, s
  <2> QED BY <1>5, <2>2, <2>3 DEF Weight, Waits
<1> HIDE DEF cbs, s
<1>8. Handled(x, y, canSend, cbs)
  BY <1>2, <1>3, <1>6, TellHandled DEF Hows
<1>9. Alternates(y)
  <2>1. y.penSub = x.penSub /\ y.infSub = x.infSub
    BY <1>5, TellLeaves
  <2> HIDE DEF y
  <2> QED BY <1>6, <2>1, AltSame
<1> HIDE DEF y
<1>10. y \in DocShape /\ Sound(y) /\ Gains(x, y, cbs)
  BY <1>8 DEF Handled, Sound
<1>11. Gains(doc[d], y, {})
  BY <1>2, <1>5, <1>7, <1>10, LostAndGained
<1>12. Moves(doc[d], y, 0, 0)
  <2>1. canSend => Balance(doc[d], y, 0, 0)
    BY <1>2, <1>5, <1>6, <1>8, <1>10, BalanceThen DEF Handled
  <2>2. ~canSend => y.out = doc[d].out /\ (Resting(doc[d]) => Resting(y))
    BY <1>6, <1>8 DEF Handled, Quietly, Resting
  <2> QED BY <1>9, <1>10, <2>1, <2>2 DEF Moves
<1>13. ASSUME NEW e \in Doc
       PROVE  Moves(doc[e], xs[e], 0, 0) /\ Gains(doc[e], xs[e], {})
  <2>1. xs[e] = IF e = d THEN y ELSE doc[e]
    BY DEF CInv, DocsTidy
  <2> HIDE DEF xs
  <2>2. Moves(doc[e], doc[e], 0, 0)
    BY MovesNot
  <2>3. Gains(doc[e], doc[e], {})
    <3>1. \A c \in Nat : Weight(doc[e], c) \in Nat /\ One(c \in {}) = 0
      BY TidyIs DEF One
    <3> QED BY <3>1 DEF Gains
  <2> QED BY <1>11, <1>12, <2>1, <2>2, <2>3
<1> HIDE DEF xs
<1>14. \A e \in Doc, c \in Nat : Weight(xs[e], c) = One(Owing(calls, e, c))
  BY <1>13, SameWeights
<1>15. List(down') /\ Range(down') \subseteq Range(down) /\ (sock = "closed" => down' = <<>>)
  BY <1>1 DEF IInv, ArrivesOK, CInv, Wired
<1> QED BY <1>1, <1>13, <1>14, <1>15, CallsAre, DocsAlone

LEMMA CallSafe ==
    ASSUME IInv, CInv, NEW d \in Doc, NEW kind \in {"fetch", "subscribe", "unsubscribe"},
           Call(kind, d)
    PROVE  CInv'
<1> DEFINE c == Len(calls) + 1
           x == CASE kind = "fetch" -> _fetch(doc[d], canSend, {c})
                  [] kind = "subscribe" -> _queueSubscribe(doc[d], canSend, TRUE, {c})
                  [] OTHER -> _queueSubscribe(doc[d], canSend, FALSE, {c})
           xs == [doc EXCEPT ![d] = x]
           new == [kind |-> kind, d |-> d, told |-> <<>>]
           asked == Append(calls, new)
<1>1. /\ Put(xs, asked) /\ Send(Messages(xs))
      /\ UNCHANGED <<state, canSend, sock, cur, down, jobs, streams>>
  BY DEF Call
<1>2. /\ Tidy(doc[d]) /\ doc[d] \in DocShape /\ Alternates(doc[d])
      /\ Sound(doc[d]) /\ canSend \in BOOLEAN
  BY TidyIs DEF Tidy, IInv
<1>3. calls \in Seq(Calls) /\ (\A i \in DOMAIN calls : Len(calls[i].told) <= 1)
  BY CallsAre
<1>4. Len(calls) \in Nat /\ DOMAIN calls = 1..Len(calls)
  BY <1>3, LenProperties
<1>5. c \in Nat /\ {c} \in Groups /\ c \notin DOMAIN calls
  BY <1>4 DEF Groups
<1>6. new \in Calls /\ new.d = d /\ new.told = <<>>
  BY EmptySeq DEF Calls
<1>7. /\ asked \in Seq(Calls) /\ DOMAIN asked = DOMAIN calls \cup {c}
      /\ asked[c] = new /\ \A i \in DOMAIN calls : asked[i] = calls[i]
  <2>1. /\ Append(calls, new) \in Seq(Calls) /\ Len(Append(calls, new)) = Len(calls) + 1
        /\ \A i \in 1..Len(calls) : Append(calls, new)[i] = calls[i]
        /\ Append(calls, new)[Len(calls) + 1] = new
    BY <1>3, <1>6, AppendProperties
  <2>2. DOMAIN asked = 1..(Len(calls) + 1)
    BY <2>1, LenProperties
  <2>3. 1..(Len(calls) + 1) = 1..Len(calls) \cup {Len(calls) + 1}
    BY <1>4
  <2> QED BY <1>4, <2>1, <2>2, <2>3
<1> HIDE DEF c, new, asked
<1>8. \A e \in {c} : Weight(doc[d], e) = 0
  <2>1. ~Owing(calls, d, c)
    BY <1>5 DEF Owing
  <2>2. Weight(doc[d], c) = One(Owing(calls, d, c))
    BY <1>5, TidyIs
  <2>3. One(Owing(calls, d, c)) = 0
    BY <2>1 DEF One
  <2> QED BY <2>2, <2>3
<1>9. Handled(doc[d], x, canSend, {c}) /\ Alternates(x)
  <2>1. CASE kind = "fetch"
    <3>1. x = _fetch(doc[d], canSend, {c})
      BY <2>1
    <3>2. Handled(doc[d], _fetch(doc[d], canSend, {c}), canSend, {c})
      BY <1>2, <1>5, FetchHandled
    <3>3. Alternates(_fetch(doc[d], canSend, {c}))
      BY <1>2, FetchLeaves, AltSame
    <3> HIDE DEF x
    <3> QED BY <3>1, <3>2, <3>3
  <2>2. CASE kind = "subscribe"
    <3>1. x = _queueSubscribe(doc[d], canSend, TRUE, {c})
      BY <2>2
    <3>2. Handled(doc[d], _queueSubscribe(doc[d], canSend, TRUE, {c}), canSend, {c})
      BY <1>2, <1>5, <1>8, QueueHandled
    <3>3. Alternates(_queueSubscribe(doc[d], canSend, TRUE, {c}))
      BY <1>2, <1>5, AltQueue
    <3> HIDE DEF x
    <3> QED BY <3>1, <3>2, <3>3
  <2>3. CASE kind = "unsubscribe"
    <3>1. x = _queueSubscribe(doc[d], canSend, FALSE, {c})
      BY <2>3
    <3>2. Handled(doc[d], _queueSubscribe(doc[d], canSend, FALSE, {c}), canSend, {c})
      BY <1>2, <1>5, <1>8, QueueHandled
    <3>3. Alternates(_queueSubscribe(doc[d], canSend, FALSE, {c}))
      BY <1>2, <1>5, AltQueue
    <3> HIDE DEF x
    <3> QED BY <3>1, <3>2, <3>3
  <2> QED BY <2>1, <2>2, <2>3
<1> HIDE DEF x
<1>10. ASSUME NEW e \in Doc
       PROVE  /\ Moves(doc[e], xs[e], 0, 0)
              /\ \A i \in Nat : Weight(xs[e], i) = Weight(doc[e], i) + One(e = d /\ i = c)
  <2>1. xs[e] = IF e = d THEN x ELSE doc[e]
    BY DEF CInv, DocsTidy
  <2> HIDE DEF xs
  <2>2. Moves(doc[e], doc[e], 0, 0)
    BY MovesNot
  <2>3. Moves(doc[d], x, 0, 0)
    BY <1>9, MovesHandled
  <2>4. ASSUME NEW i \in Nat PROVE Weight(xs[e], i) = Weight(doc[e], i) + One(e = d /\ i = c)
    <3>1. CASE e = d
      <4>1. Weight(x, i) = Weight(doc[d], i) + One(i \in {c})
        BY <1>9 DEF Handled, Gains
      <4>2. One(i \in {c}) = One(e = d /\ i = c)
        BY <3>1 DEF One
      <4> QED BY <2>1, <3>1, <4>1, <4>2
    <3>2. CASE e # d
      <4>1. One(e = d /\ i = c) = 0 /\ Weight(doc[e], i) \in Nat
        BY <3>2, TidyIs DEF One
      <4> QED BY <2>1, <3>2, <4>1
    <3> QED BY <3>1, <3>2
  <2> QED BY <2>1, <2>2, <2>3, <2>4
<1> HIDE DEF xs
<1>11. \A e \in Doc, i \in Nat : Weight(xs[e], i) = One(Owing(asked, e, i))
  <2> TAKE e \in Doc, i \in Nat
  <2>1. /\ Weight(xs[e], i) = Weight(doc[e], i) + One(e = d /\ i = c)
        /\ Weight(doc[e], i) = One(Owing(calls, e, i))
    BY <1>10, TidyIs
  <2>2. CASE i = c
    <3>1. ~Owing(calls, e, i) /\ (Owing(asked, e, i) <=> e = d)
      BY <1>5, <1>6, <1>7, <2>2 DEF Owing
    <3>2. One(Owing(calls, e, i)) = 0 /\ One(Owing(asked, e, i)) = One(e = d /\ i = c)
      BY <2>2, <3>1 DEF One
    <3>3. One(e = d /\ i = c) \in Nat
      BY OneIs
    <3> QED BY <2>1, <3>2, <3>3
  <2>3. CASE i # c
    <3>1. Owing(calls, e, i) <=> Owing(asked, e, i)
      BY <1>7, <2>3 DEF Owing
    <3>2. One(Owing(calls, e, i)) = One(Owing(asked, e, i)) /\ One(e = d /\ i = c) = 0
      BY <2>3, <3>1 DEF One
    <3>3. One(Owing(asked, e, i)) \in Nat
      BY OneIs
    <3> QED BY <2>1, <3>2, <3>3
  <2> QED BY <2>2, <2>3
<1>12. \A i \in DOMAIN asked : Len(asked[i].told) <= 1
  <2>1. Len(new.told) = 0
    BY <1>6
  <2> QED BY <1>3, <1>7, <2>1
<1>13. List(down') /\ Range(down') \subseteq Range(down) /\ (sock = "closed" => down' = <<>>)
  BY <1>1 DEF IInv, ArrivesOK, CInv, Wired
<1> QED BY <1>1, <1>7, <1>10, <1>11, <1>12, <1>13, DocsAlone

-----------------------------------------------------------------------------
(* The steps about no doc: whenNothingPending and snapshot requests.       *)
LEMMA MaxAgentsIs ==
    ASSUME NEW s \in Scenarios
    PROVE  MaxAgents \in Nat /\ s.agents <= MaxAgents
<1> DEFINE A == {x.agents : x \in Scenarios}
           F == [x \in Scenarios |-> x.agents]
<1>1. A \in SUBSET Int /\ A \in SUBSET Nat /\ A # {} /\ s.agents \in A
  BY ScenariosAssumption
<1>2. IsFiniteSet(A)
  <2>1. F \in Surjection(Scenarios, A)
    BY DEF Surjection
  <2> HIDE DEF F, A
  <2> QED BY <2>1, ScenariosAssumption, FS_Surjection DEF ExistsSurjection
<1> HIDE DEF A
<1>3. PICK m \in A : \A k \in A : k <= m
  BY <1>1, <1>2, GreatestOfFinite
<1>4. \A y \in A : m >= y
  BY <1>1, <1>3
<1>5. Max(A) \in A /\ \A y \in A : Max(A) >= y
  BY <1>3, <1>4 DEF Max
<1>6. MaxAgents = Max(A)
  BY DEF MaxAgents, A
<1>7. MaxAgents \in Nat /\ s.agents \in Nat /\ MaxAgents >= s.agents
  BY <1>1, <1>5, <1>6
<1> QED BY <1>7

(* Messages about no doc.                                                  *)
Silent(msgs) == List(msgs) /\ \A m \in Range(msgs) : m.a \notin {"f", "s", "u"}

LEMMA SilentAsks ==
    ASSUME NEW msgs, Silent(msgs), NEW K \in {Subscribing, Fetching}, NEW d
    PROVE  Asked(msgs, K, d) = 0 /\ Replied(msgs, K, d) = 0
<1>1. \A m \in Range(msgs) : ~About(m, K, d) /\ ~Replying(m, K, d)
  BY DEF Silent, About, Replying, Subscribing, Fetching
<1> QED BY <1>1, AskedIs DEF Silent

LEMMA SilentOnes ==
    /\ Silent(<<>>) /\ Silent(<<Handshake>>) /\ Silent(<<[a |-> "init"]>>)
    /\ \A q : Silent(<<RequestMessage(q)>>)
<1>1. Silent(<<>>)
  BY EmptyList DEF Silent
<1>2. ASSUME NEW m, m.a \notin {"f", "s", "u"} PROVE Silent(<<m>>)
  BY <1>2, OneList DEF Silent
<1>3. Handshake.a = "hs" /\ [a |-> "init"].a = "init"
  BY DEF Handshake
<1>4. ASSUME NEW q PROVE RequestMessage(q).a \notin {"f", "s", "u"}
  BY DEF RequestMessage
<1> QED BY <1>1, <1>2, <1>3, <1>4

(* A step of the client that is about no doc.                              *)
LEMMA SilentStep ==
    ASSUME IInv, CInv, NEW msgs, Silent(msgs), Sent(msgs),
           UNCHANGED <<state, canSend, sock, cur, doc, calls, jobs, streams>>,
           List(down'), Range(down') \subseteq Range(down), sock = "closed" => down' = <<>>,
           \A d \in Doc : /\ Replied(down, Subscribing, d) = Replied(down', Subscribing, d)
                          /\ Replied(down, Fetching, d) = Replied(down', Fetching, d)
    PROVE  CInv'
<1> DEFINE s == [d \in Doc |-> 0]
<1>1. s \in [Doc -> Nat] /\ \A d \in Doc : s[d] = 0
  OBVIOUS
<1> HIDE DEF s
<1>2. \A d \in Doc : Asked(msgs, Subscribing, d) = 0 /\ Asked(msgs, Fetching, d) = 0
  BY SilentAsks
<1>3. \A d \in Doc : /\ Inf(doc[d]) \in Nat /\ Fet(doc[d]) \in Nat
                     /\ Inf(doc'[d]) \in 0..1 /\ Fet(doc'[d]) \in 0..1
  <2> TAKE d \in Doc
  <2>1. Inf(doc[d]) \in 0..1 /\ Fet(doc[d]) \in 0..1
    BY TidyIs
  <2> QED BY <2>1
<1>4. \A d \in Doc :
        /\ Replied(down, Subscribing, d) = Replied(down', Subscribing, d) + s[d]
        /\ Replied(down, Fetching, d) = Replied(down', Fetching, d) + s[d]
        /\ canSend =>
             /\ Asked(msgs, Subscribing, d) + Inf(doc[d]) = Inf(doc'[d]) + s[d]
             /\ Asked(msgs, Fetching, d) + Fet(doc[d]) = Fet(doc'[d]) + s[d]
        /\ ~canSend => Asked(msgs, Subscribing, d) = 0 /\ Asked(msgs, Fetching, d) = 0
  <2> TAKE d \in Doc
  <2>1. Replied(down', Subscribing, d) \in Nat /\ Replied(down', Fetching, d) \in Nat
    BY AskedIs
  <2>2. Inf(doc[d]) \in Nat /\ Fet(doc[d]) \in Nat /\ doc' = doc
    BY <1>3
  <2> QED BY <1>1, <1>2, <2>1, <2>2
<1>5. OneUnderWay'
  <2>1. List(msgs)
    BY DEF Silent
  <2> QED BY <1>1, <1>3, <1>4, <2>1, ClientUnder
<1>6. Wired' /\ StreamsOwned'
  <2>1. canSend' => state' = "connected" /\ sock = "open"
    BY DEF CInv, Wired
  <2> QED BY <2>1, SentWired
<1>7. JobsShape' /\ DownShape' /\ DocsTidy' /\ CallsOK'
  BY DEF CInv, JobsShape, JobShape, DownShape, Reply, DocsTidy, Tidy, CallsOK
<1> QED BY <1>5, <1>6, <1>7 DEF CInv

LEMMA SilentReceipt ==
    ASSUME IInv, CInv, NEW kinds, Receiving(kinds), kinds \cap {"f", "s", "u"} = {},
           NEW msgs, Silent(msgs), Sent(msgs),
           UNCHANGED <<state, canSend, doc, calls>>
    PROVE  CInv'
<1>1. /\ sock = "open" /\ Head(down).a \notin {"f", "s", "u"}
      /\ List(down') /\ Range(down') \subseteq Range(down)
      /\ UNCHANGED <<sock, cur, jobs, streams>>
      /\ \A K, d : /\ Replied(down, K, d) = One(Replying(Head(down), K, d)) + Replied(down', K, d)
                   /\ Replied(down', K, d) \in Nat
  BY ReceivingSafe
<1>2. \A d \in Doc : /\ Replied(down, Subscribing, d) = Replied(down', Subscribing, d)
                     /\ Replied(down, Fetching, d) = Replied(down', Fetching, d)
  <2> TAKE d \in Doc
  <2>1. One(Replying(Head(down), Subscribing, d)) = 0 /\ One(Replying(Head(down), Fetching, d)) = 0
    BY <1>1 DEF Replying, One, Subscribing, Fetching
  <2>2. /\ Replied(down, Subscribing, d) = 0 + Replied(down', Subscribing, d)
        /\ Replied(down, Fetching, d) = 0 + Replied(down', Fetching, d)
        /\ Replied(down', Subscribing, d) \in Nat /\ Replied(down', Fetching, d) \in Nat
    BY <1>1, <2>1
  <2> QED BY <2>2
<1> QED BY <1>1, <1>2, SilentStep

LEMMA LookSafe == ASSUME IInv, CInv, Look PROVE CInv'
<1>1. UNCHANGED <<state, canSend, sock, cur, doc, calls, agents, jobs, streams, down>>
  BY DEF Look, server
<1>2. List(down') /\ Range(down') \subseteq Range(down) /\ (sock = "closed" => down' = <<>>)
  BY <1>1 DEF IInv, ArrivesOK, CInv, Wired
<1> QED BY <1>1, <1>2, NothingSent, SilentOnes, SilentStep

LEMMA FetchSnapshotSafe ==
    ASSUME IInv, CInv, NEW d \in Doc, NEW ts, NEW arg, FetchSnapshot(d, ts, arg)
    PROVE  CInv'
<1>1. UNCHANGED <<state, canSend, sock, cur, doc, calls, jobs, streams, down>>
  BY DEF FetchSnapshot
<1>2. List(down') /\ Range(down') \subseteq Range(down) /\ (sock = "closed" => down' = <<>>)
  BY <1>1 DEF IInv, ArrivesOK, CInv, Wired
<1>3. PICK msgs : Send(msgs) /\ (msgs = <<>> \/ \E q : msgs = <<RequestMessage(q)>>)
  BY DEF FetchSnapshot
<1>4. Silent(msgs) /\ Sent(msgs)
  BY <1>3, SilentOnes, SendSame
<1> QED BY <1>1, <1>2, <1>4, SilentStep

LEMMA LegacyInitSafe == ASSUME IInv, CInv, _handleLegacyInit PROVE CInv'
<1>1. Receiving({"init"}) /\ Send(<<Handshake>>) /\ UNCHANGED <<state, canSend, doc, calls>>
  BY DEF _handleLegacyInit
<1>2. Silent(<<Handshake>>) /\ Sent(<<Handshake>>)
  BY <1>1, SilentOnes, SendSame
<1> QED BY <1>1, <1>2, SilentReceipt

LEMMA SnapshotFetchSafe == ASSUME IInv, CInv, _handleSnapshotFetch PROVE CInv'
<1>1. Receiving({"nf", "nt"}) /\ UNCHANGED <<state, canSend, doc, calls, agents>>
  BY DEF _handleSnapshotFetch
<1>2. Silent(<<>>) /\ Sent(<<>>)
  BY <1>1, SilentOnes, NothingSent
<1> QED BY <1>1, <1>2, SilentReceipt

-----------------------------------------------------------------------------
(* The socket closes, or opens.                                            *)
(* Docs that hold what the client's docs hold, with nothing to be sent.    *)
Kept(xs, from) ==
    \A d \in Doc : /\ Sound(xs[d]) /\ Alternates(xs[d])
                   /\ Gains(doc[d], xs[d], {}) /\ xs[d].out = <<>>
                   /\ from # "connected" => Resting(xs[d])

LEMMA DocsKept ==
    ASSUME IInv, CInv
    PROVE  Kept(doc, state)
<1> SUFFICES ASSUME NEW d \in Doc
             PROVE  /\ Sound(doc[d]) /\ Alternates(doc[d])
                    /\ Gains(doc[d], doc[d], {}) /\ doc[d].out = <<>>
                    /\ state # "connected" => Resting(doc[d])
  BY DEF Kept
<1>1. Tidy(doc[d]) /\ \A c \in Nat : Weight(doc[d], c) \in Nat /\ One(c \in {}) = 0
  BY TidyIs DEF One
<1>2. Gains(doc[d], doc[d], {})
  BY <1>1 DEF Gains
<1> QED BY <1>1, <1>2 DEF Tidy, Sound

LEMMA SetStateKept ==
    ASSUME IInv, CInv, NEW xs, NEW from, Kept(xs, from), NEW to, to # "connected",
           \A d \in Doc : ~_setState(from, xs, to).xs[d].stray
    PROVE  LET s == _setState(from, xs, to)
           IN  /\ Kept(s.xs, s.state)
               /\ s.state = from \/ s.state = to
               /\ to # "connecting" => s.state = to
               /\ \A d \in Doc : ~xs[d].stray
<1> DEFINE s == _setState(from, xs, to)
           ys == [d \in Doc |-> DocStateChanged(xs[d], FALSE)]
<1>1. CASE from = to \/ Refused(from, to)
  <2>1. s.state = from /\ s.xs = xs
    BY <1>1 DEF _setState
  <2>2. to # "connecting" => s.state = to
    BY <1>1, <2>1 DEF Refused
  <2>3. \A d \in Doc : ~xs[d].stray
    BY <2>1
  <2> HIDE DEF s
  <2> QED BY <2>1, <2>2, <2>3 DEF s
<1>2. CASE ~(from = to \/ Refused(from, to))
  <2>1. s.state = to /\ s.xs = ys
    <3>1. (to = "connected") = FALSE
      OBVIOUS
    <3> QED BY <1>2, <3>1 DEF _setState
  <2>2. ASSUME NEW d \in Doc
        PROVE  /\ Sound(ys[d]) /\ Alternates(ys[d]) /\ ~xs[d].stray
               /\ Gains(doc[d], ys[d], {}) /\ ys[d].out = <<>> /\ Resting(ys[d])
    <3> DEFINE y == DocStateChanged(xs[d], FALSE)
    <3>0. ys[d] = y /\ ~ys[d].stray
      BY <2>1
    <3>1. /\ Sound(xs[d]) /\ Alternates(xs[d]) /\ xs[d].ticks = 0 /\ ~xs[d].stray
          /\ Gains(doc[d], xs[d], {}) /\ xs[d].out = <<>>
      <4>1. Sound(xs[d]) /\ Alternates(xs[d]) /\ Gains(doc[d], xs[d], {}) /\ xs[d].out = <<>>
        BY DEF Kept
      <4>2. ~DocStateChanged(xs[d], FALSE).stray
        BY <3>0
      <4> HIDE DEF ys, y
      <4> QED BY <4>1, <4>2, NotAstray
    <3>2. xs[d] \in DocShape /\ Len(xs[d].infFetch) <= 1
      BY <3>1 DEF Sound
    <3>3. \A c \in Nat : /\ Weight(xs[d], c) = Weight(doc[d], c) + One(c \in {})
                         /\ One(c \in {}) = 0 /\ Weight(doc[d], c) \in Nat
                         /\ Weight(doc[d], c) <= 1
      BY <3>1, TidyIs DEF Gains, One, Single
    <3>4. Single(xs[d])
      BY <3>3 DEF Single
    <3>5. /\ Sound(y) /\ Alternates(y) /\ Gains(xs[d], y, {})
          /\ y.out = xs[d].out /\ y.infFetch = <<>> /\ y.infSub = None /\ y.ticks = 0
      BY <3>1, <3>2, <3>4, DropHandled
    <3>6. ys[d] = y
      OBVIOUS
    <3> HIDE DEF ys, y
    <3>7. Gains(doc[d], y, {})
      BY <3>3, <3>5 DEF Gains
    <3> QED BY <3>1, <3>5, <3>6, <3>7 DEF Resting
  <2> HIDE DEF s, ys
  <2> QED BY <2>1, <2>2 DEF Kept, s
<1> QED BY <1>1, <1>2

(* The docs and the calls once the connection is down.                     *)
LEMMA DownDocs ==
    ASSUME IInv, CInv, NEW s, Kept(s.xs, s.state), canSend' = FALSE, Down(s, canSend')
    PROVE  DocsTidy' /\ CallsOK'
<1>1. Put(s.xs, calls) /\ state' = s.state
  BY DEF Down
<1>2. \A d \in Doc : /\ Sound(s.xs[d]) /\ Alternates(s.xs[d])
                     /\ state' # "connected" => Resting(s.xs[d])
  BY <1>1 DEF Kept
<1>3. DocsTidy'
  BY <1>1, <1>2, PutDocs
<1>4. \A d \in Doc, c \in Nat : Weight(s.xs[d], c) = One(Owing(calls, d, c))
  BY SameWeights DEF Kept
<1>5. \A d \in Doc : s.xs[d] \in DocShape
  BY <1>2 DEF Sound
<1>6. CallsOK'
  BY <1>1, <1>4, <1>5, CallsAre, PutCalls
<1> QED BY <1>3, <1>6

(* An agent that did not get anything.                                     *)
LEMMA UnderElsewhere ==
    ASSUME IInv, CInv, NEW K, NEW a \in 1..MaxAgents, NEW d,
           agents'[a].up = agents[a].up, UNCHANGED jobs, a = cur' => Replied(down', K, d) = 0
    PROVE  Under(K, a, d)' <= Under(K, a, d) /\ Under(K, a, d)' \in Nat
<1> DEFINE u == Asked(agents[a].up, K, d)
           w == Worked(jobs, K, a, d)
           r == Returning(K, a, d)
           v == Under(K, a, d)'
<1>1. u \in Nat /\ w \in Nat /\ r \in Nat /\ Under(K, a, d) = u + w + r
  BY UnderIs
<1>2. v = u + w + IF a = cur' THEN Replied(down', K, d) ELSE 0
  BY DEF Under
<1> HIDE DEF u, w, r, v
<1>3. v = u + w
  BY <1>1, <1>2
<1>4. v <= Under(K, a, d) /\ v \in Nat
  BY <1>1, <1>3
<1> QED BY <1>4 DEF v

(* The docs of a connection that goes down, where none goes astray.        *)
LEMMA KeptStraight ==
    ASSUME IInv, CInv, NoStray', NEW to, to # "connected",
           Put(_setState(state, doc, to).xs, calls)
    PROVE  LET s == _setState(state, doc, to)
           IN  /\ Kept(s.xs, s.state)
               /\ s.state = state \/ s.state = to
               /\ to # "connecting" => s.state = to
<1> DEFINE s == _setState(state, doc, to)
<1>1. \A d \in Doc : "stray" \in DOMAIN doc[d]
  BY TidyIs DEF DocShape
<1>2. \A d \in Doc : "stray" \in DOMAIN s.xs[d]
  BY <1>1, SetStateKeeps
<1>3. \A d \in Doc : ~s.xs[d].stray
  <2> HIDE DEF s
  <2> QED BY <1>2, PutKeeps DEF NoStray, s
<1> QED BY <1>3, DocsKept, SetStateKept

LEMMA SocketClosedSafe ==
    ASSUME IInv, CInv, NoStray', NEW to \in {"closed", "disconnected", "stopped"},
           SocketClosed(to)
    PROVE  CInv'
<1> DEFINE s == _setState(state, doc, to)
<1>1. /\ sock' = "closed" /\ down' = <<>>
      /\ Down(s, IF s.state = state THEN canSend ELSE FALSE)
      /\ UNCHANGED <<cur, agents, jobs, streams>>
  BY DEF SocketClosed, server
<1>2. Kept(s.xs, s.state) /\ s.state = to
  BY <1>1, KeptStraight DEF Down
<1> HIDE DEF s
<1>3. canSend' = FALSE /\ Down(s, canSend')
  <2>1. s.state = state => ~canSend
    BY <1>2 DEF CInv, Wired
  <2>2. (IF s.state = state THEN canSend ELSE FALSE) = FALSE
    BY <2>1 DEF IInv
  <2> QED BY <1>1, <2>2 DEF Down
<1>4. DocsTidy' /\ CallsOK'
  BY <1>2, <1>3, DownDocs
<1>5. OneUnderWay'
  <2>1. ASSUME NEW d \in Doc, NEW a \in 1..MaxAgents
        PROVE  Under(Subscribing, a, d)' <= 1 /\ Under(Fetching, a, d)' <= 1
    <3>1. Replied(down', Subscribing, d) = 0 /\ Replied(down', Fetching, d) = 0
      BY <1>1, AskedEmpty
    <3>2. Under(Subscribing, a, d)' <= Under(Subscribing, a, d) /\ Under(Subscribing, a, d)' \in Nat
          /\ Under(Fetching, a, d)' <= Under(Fetching, a, d) /\ Under(Fetching, a, d)' \in Nat
      BY <1>1, <3>1, UnderElsewhere
    <3>3. Under(Subscribing, a, d) <= 1 /\ Under(Fetching, a, d) <= 1
      BY DEF CInv, OneUnderWay
    <3>4. Under(Subscribing, a, d) \in Nat /\ Under(Fetching, a, d) \in Nat
      BY UnderIs
    <3> QED BY <3>2, <3>3, <3>4
  <2> QED BY <1>1, <2>1 DEF OneUnderWay
<1>6. Wired'
  BY <1>1, <1>3 DEF CInv, Wired
<1>7. SameAgents
  BY <1>1 DEF SameAgents
<1>8. StreamsOwned'
  BY <1>1, <1>7, SameAgentsOwn
<1>9. JobsShape' /\ DownShape'
  BY <1>1, EmptyList DEF CInv, JobsShape, JobShape, DownShape
<1> QED BY <1>4, <1>5, <1>6, <1>8, <1>9 DEF CInv

LEMMA OpenSafe == ASSUME IInv, CInv, NoStray', Open PROVE CInv'
<1> DEFINE s == _setState(state, doc, "connecting")
<1>1. /\ sock = "opening" /\ sock' = "open" /\ Down(s, canSend)
      /\ Send(<<Handshake>>) /\ UNCHANGED <<cur, down, jobs, streams>>
  BY DEF Open
<1>2. Kept(s.xs, s.state)
  BY <1>1, KeptStraight DEF Down
<1> HIDE DEF s
<1>3. canSend = FALSE /\ canSend' = FALSE /\ Down(s, canSend')
  BY <1>1 DEF CInv, Wired, IInv, Down
<1>4. DocsTidy' /\ CallsOK'
  BY <1>2, <1>3, DownDocs
<1>5. Silent(<<Handshake>>) /\ Sent(<<Handshake>>)
  BY <1>1, SilentOnes, SendSame
<1>6. OneUnderWay'
  <2>1. ASSUME NEW d \in Doc, NEW K \in {Subscribing, Fetching}, NEW a \in 1..MaxAgents
        PROVE  Under(K, a, d)' = Under(K, a, d)
    <3> DEFINE u == Asked(agents[a].up, K, d)
               u2 == Asked(agents'[a].up, K, d)
    <3>1. u \in Nat /\ List(agents[a].up)
      BY UnderIs
    <3>2. agents'[a].up = IF a = cur THEN agents[a].up \o <<Handshake>> ELSE agents[a].up
      BY <1>5 DEF Sent
    <3>3. Asked(agents[a].up \o <<Handshake>>, K, d) = u + 0
      <4>1. Asked(<<Handshake>>, K, d) = 0 /\ List(<<Handshake>>)
        BY <1>5, SilentAsks DEF Silent
      <4> QED BY <3>1, <4>1, AskedConcat
    <3>4. u2 = u
      BY <3>1, <3>2, <3>3
    <3> HIDE DEF u, u2
    <3>5. Under(K, a, d) = u + Worked(jobs, K, a, d) + IF a = cur THEN Replied(down, K, d) ELSE 0
      BY DEF Under, u
    <3>6. Under(K, a, d)' = u2 + Worked(jobs, K, a, d) + IF a = cur THEN Replied(down, K, d) ELSE 0
      BY <1>1 DEF Under, u2
    <3> QED BY <3>4, <3>5, <3>6
  <2>2. \A d \in Doc, a \in 1..MaxAgents :
          Under(Subscribing, a, d)' <= 1 /\ Under(Fetching, a, d)' <= 1
    BY <2>1 DEF CInv, OneUnderWay
  <2>3. ASSUME NEW d \in Doc PROVE Under(Subscribing, cur, d)' = 0 /\ Under(Fetching, cur, d)' = 0
    <3>1. cur \in 1..MaxAgents
      BY DEF CInv, Wired
    <3>2. Under(Subscribing, cur, d) = 0 /\ Under(Fetching, cur, d) = 0
      BY <1>1, <1>3 DEF CInv, OneUnderWay
    <3>3. Under(Subscribing, cur, d)' = Under(Subscribing, cur, d)
      <4>1. \A a \in 1..MaxAgents : Under(Subscribing, a, d)' = Under(Subscribing, a, d)
        BY <2>1
      <4> QED BY <1>1, <3>1, <4>1
    <3>4. Under(Fetching, cur, d)' = Under(Fetching, cur, d)
      <4>1. \A a \in 1..MaxAgents : Under(Fetching, a, d)' = Under(Fetching, a, d)
        BY <2>1
      <4> QED BY <1>1, <3>1, <4>1
    <3> QED BY <3>2, <3>3, <3>4
  <2> QED BY <1>3, <2>2, <2>3 DEF OneUnderWay
<1>7. Wired'
  <2>1. SameAgents /\ agents[cur].st = "open"
    BY <1>1, <1>5 DEF Sent, CInv, Wired
  <2>2. \A a \in 1..MaxAgents : agents[a].st = "none" => agents'[a].up = <<>>
    BY <1>5, <2>1 DEF Sent, CInv, Wired
  <2> QED BY <1>1, <1>3, <2>1, <2>2 DEF CInv, Wired, SameAgents
<1>8. StreamsOwned'
  BY <1>1, <1>5, SameAgentsOwn DEF Sent
<1>9. JobsShape' /\ DownShape'
  BY <1>1 DEF CInv, JobsShape, JobShape, DownShape
<1> QED BY <1>4, <1>6, <1>7, <1>8, <1>9 DEF CInv

-----------------------------------------------------------------------------
(* A connection meets the next agent.                                      *)
(* A new agent at the other end of a new socket.                           *)
LEMMA MetSafe ==
    ASSUME IInv, CInv, cur < sc.agents, cur' = cur + 1, canSend' = FALSE,
           sock' # "closed", down' = <<[a |-> "init"]>>, UNCHANGED <<jobs, streams>>,
           NEW msgs, Silent(msgs), DOMAIN agents' = DOMAIN agents,
           \A a \in 1..MaxAgents :
             agents'[a] = IF a = cur + 1
                          THEN [st |-> "open", src |-> a, up |-> msgs,
                                held |-> [d \in Doc |-> None]]
                          ELSE agents[a]
    PROVE  OneUnderWay' /\ Wired' /\ StreamsOwned' /\ JobsShape' /\ DownShape'
<1>1. cur \in 1..MaxAgents /\ cur + 1 \in 1..MaxAgents /\ cur \in Nat
  <2>1. MaxAgents \in Nat /\ sc.agents <= MaxAgents /\ sc.agents \in Nat
    BY MaxAgentsIs, ScenariosAssumption DEF IInv
  <2>2. cur \in 1..MaxAgents
    BY DEF CInv, Wired
  <2> QED BY <2>1, <2>2
<1>2. \A a \in 1..MaxAgents :
        /\ agents[a].st \in {"none", "open", "closed"}
        /\ agents[a].st = "none" <=> a > cur
        /\ agents[a].st = "none" => agents[a].up = <<>>
        /\ agents[a].st # "open" => \A d \in Doc : agents[a].held[d] = None
        /\ DOMAIN agents[a] = {"st", "src", "up", "held"}
  BY DEF CInv, Wired
<1>3. \A a \in 1..MaxAgents : a # cur + 1 => agents'[a] = agents[a]
  OBVIOUS
<1>4. /\ agents'[cur + 1].st = "open" /\ agents'[cur + 1].up = msgs
      /\ DOMAIN agents'[cur + 1] = {"st", "src", "up", "held"}
      /\ \A d \in Doc : agents'[cur + 1].held[d] = None
  <2>1. agents'[cur + 1] = [st |-> "open", src |-> cur + 1, up |-> msgs,
                            held |-> [d \in Doc |-> None]]
    BY <1>1
  <2> QED BY <2>1
<1>5. Silent(down')
  BY SilentOnes
<1>6. ASSUME NEW K \in {Subscribing, Fetching}, NEW d \in Doc
      PROVE  /\ \A b : b = cur + 1 => Under(K, b, d)' = 0
             /\ \A a \in 1..MaxAgents : Under(K, a, d) <= 1 => Under(K, a, d)' <= 1
  <2>1. Replied(down', K, d) = 0 /\ Asked(msgs, K, d) = 0
    BY <1>5, SilentAsks
  <2>2. Worked(jobs, K, cur + 1, d) = 0
    <3>1. \A j \in jobs : j.a # cur + 1
      BY <1>1 DEF CInv, JobsShape, JobShape
    <3>2. JobsAbout(jobs, K, cur + 1, d) = {}
      BY <3>1 DEF JobsAbout
    <3> QED BY <3>2, FS_EmptySet DEF Worked
  <2>3. \A b : b = cur + 1 => Under(K, b, d)' = 0
    <3> TAKE b
    <3> HAVE b = cur + 1
    <3>1. Under(K, b, d)' = Asked(agents'[b].up, K, d) + Worked(jobs, K, b, d)
                            + IF b = cur' THEN Replied(down', K, d) ELSE 0
      BY DEF Under
    <3>2. Asked(agents'[b].up, K, d) = 0 /\ Worked(jobs, K, b, d) = 0
      BY <1>4, <2>1, <2>2
    <3> QED BY <2>1, <3>1, <3>2
  <2>4. ASSUME NEW a \in 1..MaxAgents, a # cur + 1, Under(K, a, d) <= 1
        PROVE  Under(K, a, d)' <= 1
    <3>1. agents'[a].up = agents[a].up
      BY <1>3, <2>4
    <3>2. Under(K, a, d)' <= Under(K, a, d) /\ Under(K, a, d)' \in Nat
      BY <2>1, <3>1, UnderElsewhere
    <3>3. Under(K, a, d) \in Nat
      BY UnderIs
    <3> QED BY <2>4, <3>2, <3>3
  <2>5. ASSUME NEW a \in 1..MaxAgents, a = cur + 1
        PROVE  Under(K, a, d)' <= 1
    <3>1. Under(K, a, d)' = 0
      BY <2>3, <2>5
    <3> QED BY <3>1
  <2> QED BY <2>3, <2>4, <2>5
<1>7. OneUnderWay'
  <2>1. ASSUME NEW d \in Doc, NEW a \in 1..MaxAgents
        PROVE  Under(Subscribing, a, d)' <= 1 /\ Under(Fetching, a, d)' <= 1
    <3>1. Under(Subscribing, a, d) <= 1 /\ Under(Fetching, a, d) <= 1
      BY DEF CInv, OneUnderWay
    <3> QED BY <1>6, <3>1
  <2>2. ASSUME NEW d \in Doc PROVE Under(Subscribing, cur, d)' = 0 /\ Under(Fetching, cur, d)' = 0
    <3>1. \A b : b = cur + 1 => Under(Subscribing, b, d)' = 0 /\ Under(Fetching, b, d)' = 0
      BY <1>6
    <3> QED BY <3>1
  <2> QED BY <2>1, <2>2 DEF OneUnderWay
<1>8. Wired'
  <2>1. \A a \in 1..MaxAgents : agents'[a].st = "none" <=> a > cur + 1
    BY <1>1, <1>2, <1>3, <1>4
  <2>2. \A a \in 1..MaxAgents :
        /\ agents'[a].st \in {"none", "open", "closed"}
        /\ agents'[a].st = "none" => agents'[a].up = <<>>
        /\ agents'[a].st # "open" => \A d \in Doc : agents'[a].held[d] = None
        /\ DOMAIN agents'[a] = {"st", "src", "up", "held"}
    <3> TAKE a \in 1..MaxAgents
    <3> QED BY <1>2, <1>3, <1>4
  <2> QED BY <1>1, <1>4, <2>1, <2>2 DEF Wired
<1>9. StreamsOwned'
  <2>1. DOMAIN agents = 1..MaxAgents
    BY DEF IInv, AgentsOK
  <2>2. ASSUME NEW d \in Doc
        PROVE  {a \in DOMAIN agents : agents[a].st = "open" /\ agents[a].held[d] # None}'
               = {a \in DOMAIN agents : agents[a].st = "open" /\ agents[a].held[d] # None}
    <3>1. agents[cur + 1].st = "none"
      BY <1>1, <1>2
    <3> QED BY <1>1, <1>3, <1>4, <2>1, <3>1
  <2> QED BY <2>2 DEF CInv, StreamsOwned
<1>10. JobsShape'
  <2>1. 1..cur \subseteq 1..(cur + 1)
    BY <1>1
  <2> QED BY <2>1 DEF CInv, JobsShape, JobShape
<1>11. DownShape'
  <2>1. \A m \in Range(down') : m.a \notin {"f", "s", "u"}
    BY <1>5 DEF Silent
  <2> QED BY <2>1 DEF DownShape
<1> QED BY <1>7, <1>8, <1>9, <1>10, <1>11

-----------------------------------------------------------------------------
LEMMA BindToSocketSafe ==
    ASSUME IInv, CInv, NoStray', BindToSocket
    PROVE  CInv'
<1> PICK atOnce \in BOOLEAN :
      LET s1 == IF sock # "closed" /\ atOnce THEN _setState(state, doc, "closed")
                ELSE [state |-> state, xs |-> doc]
          s2 == _setState(s1.state, s1.xs, "connecting")
      IN  /\ cur < sc.agents
          /\ sock' = "opening" /\ cur' = cur + 1
          /\ agents' = NewAgent(cur + 1) /\ down' = <<[a |-> "init"]>>
          /\ Down(s2, FALSE)
          /\ UNCHANGED <<sc, id, jobs, streams, log, saved>>
  BY DEF BindToSocket
<1> DEFINE closing == sock # "closed" /\ atOnce
           c == _setState(state, doc, "closed")
           s0 == [state |-> state, xs |-> doc]
           s1 == IF closing THEN c ELSE s0
           s2 == _setState(s1.state, s1.xs, "connecting")
<1>1. /\ cur < sc.agents /\ sock' = "opening" /\ cur' = cur + 1
      /\ agents' = NewAgent(cur + 1) /\ down' = <<[a |-> "init"]>>
      /\ Down(s2, FALSE) /\ UNCHANGED <<jobs, streams>>
  OBVIOUS
<1>9. s1.xs = (IF closing THEN c.xs ELSE doc) /\ s1.state = (IF closing THEN c.state ELSE state)
  OBVIOUS
<1>2. /\ \A d \in Doc : "stray" \in DOMAIN s1.xs[d]
      /\ \A d \in Doc : (~s1.xs[d].stray /\ closing) => ~c.xs[d].stray
  <2>1. \A d \in Doc : "stray" \in DOMAIN doc[d]
    BY TidyIs DEF DocShape
  <2>2. \A d \in Doc : "stray" \in DOMAIN c.xs[d]
    BY <2>1, SetStateKeeps
  <2> HIDE DEF s1, c, closing
  <2> QED BY <1>9, <2>1, <2>2
<1> HIDE DEF s1
<1>3. \A d \in Doc : ~s2.xs[d].stray /\ ~s1.xs[d].stray
  <2>1. /\ \A d \in Doc : "stray" \in DOMAIN s2.xs[d]
        /\ \A d \in Doc : s1.xs[d].stray => s2.xs[d].stray
    BY <1>2, SetStateKeeps
  <2>2. Put(s2.xs, calls)
    BY <1>1 DEF Down
  <2> HIDE DEF s2
  <2>3. ASSUME NEW d \in Doc PROVE ~s2.xs[d].stray /\ ~s1.xs[d].stray
    <3>1. ~doc'[d].stray
      BY DEF NoStray
    <3>2. doc'[d].stray = s2.xs[d].stray
      BY <2>1, <2>2, PutKeeps
    <3>3. ~s2.xs[d].stray
      BY <3>1, <3>2
    <3> QED BY <2>1, <3>3
  <2> QED BY <2>3
<1>b. Kept(s1.xs, s1.state)
  <2>1. Kept(doc, state)
    BY DocsKept
  <2>2. CASE closing
    <3>1. \A d \in Doc : ~c.xs[d].stray
      BY <1>2, <1>3, <2>2
    <3>2. Kept(c.xs, c.state)
      BY <2>1, <3>1, SetStateKept
    <3> HIDE DEF c
    <3> QED BY <1>9, <2>2, <3>2
  <2>3. CASE ~closing
    BY <1>9, <2>1, <2>3
  <2> QED BY <2>2, <2>3
<1>a. Kept(s2.xs, s2.state)
  BY <1>3, <1>b, SetStateKept
<1> HIDE DEF s2
<1>4. canSend' = FALSE /\ Down(s2, canSend')
  BY <1>1 DEF Down
<1>5. DocsTidy' /\ CallsOK'
  BY <1>a, <1>4, DownDocs
<1>6. DOMAIN agents = 1..MaxAgents
  BY DEF IInv, AgentsOK
<1>7. /\ DOMAIN agents' = DOMAIN agents
      /\ \A a \in 1..MaxAgents :
             agents'[a] = IF a = cur + 1
                          THEN [st |-> "open", src |-> a, up |-> <<>>,
                                held |-> [d \in Doc |-> None]]
                          ELSE agents[a]
  BY <1>1, <1>6 DEF NewAgent
<1>8. OneUnderWay' /\ Wired' /\ StreamsOwned' /\ JobsShape' /\ DownShape'
  BY <1>1, <1>4, <1>7, SilentOnes, MetSafe
<1> QED BY <1>5, <1>8 DEF CInv

LEMMA ReopenSafe == ASSUME IInv, CInv, NoStray', Reopen PROVE CInv'
<1> DEFINE s == _setState(state, doc, "connecting")
<1>1. /\ cur < sc.agents /\ sock' = "open" /\ cur' = cur + 1
      /\ agents' = [NewAgent(cur + 1) EXCEPT ![cur + 1].up = <<Handshake>>]
      /\ down' = <<[a |-> "init"]>>
      /\ Down(s, FALSE) /\ UNCHANGED <<jobs, streams>>
  BY DEF Reopen
<1>2. Kept(s.xs, s.state)
  BY <1>1, KeptStraight DEF Down
<1> HIDE DEF s
<1>3. canSend' = FALSE /\ Down(s, canSend')
  BY <1>1 DEF Down
<1>4. DocsTidy' /\ CallsOK'
  BY <1>2, <1>3, DownDocs
<1>5. DOMAIN agents = 1..MaxAgents
  BY DEF IInv, AgentsOK
<1>6. /\ DOMAIN agents' = DOMAIN agents
      /\ \A a \in 1..MaxAgents :
             agents'[a] = IF a = cur + 1
                          THEN [st |-> "open", src |-> a, up |-> <<Handshake>>,
                                held |-> [d \in Doc |-> None]]
                          ELSE agents[a]
  BY <1>1, <1>5 DEF NewAgent
<1>7. OneUnderWay' /\ Wired' /\ StreamsOwned' /\ JobsShape' /\ DownShape'
  BY <1>1, <1>3, <1>6, SilentOnes, MetSafe
<1> QED BY <1>4, <1>7 DEF CInv

-----------------------------------------------------------------------------
(* The handshake ends, and everything is asked for again.                  *)
LEMMA SentUnder ==
    ASSUME IInv, CInv, NEW msgs, List(msgs), Sent(msgs), UNCHANGED <<jobs, cur>>,
           NEW K, NEW d, Replied(down', K, d) = Replied(down, K, d),
           NEW a \in 1..MaxAgents
    PROVE  Under(K, a, d)' = Under(K, a, d) + IF a = cur THEN Asked(msgs, K, d) ELSE 0
<1> DEFINE u == Asked(agents[a].up, K, d)
           u2 == Asked(agents'[a].up, K, d)
           w == Worked(jobs, K, a, d)
           n == Asked(msgs, K, d)
           r == Replied(down, K, d)
<1>1. /\ u \in Nat /\ w \in Nat /\ r \in Nat /\ List(agents[a].up)
      /\ Under(K, a, d) = u + w + IF a = cur THEN r ELSE 0
  BY UnderIs DEF Returning
<1>2. n \in Nat
  BY AskedIs
<1>3. agents'[a].up = IF a = cur THEN agents[a].up \o msgs ELSE agents[a].up
  BY DEF Sent
<1>4. u2 = u + IF a = cur THEN n ELSE 0
  <2>1. Asked(agents[a].up \o msgs, K, d) = u + n
    BY <1>1, AskedConcat
  <2> QED BY <1>1, <1>2, <1>3, <2>1
<1>5. Under(K, a, d)' = u2 + w + IF a = cur THEN r ELSE 0
  BY DEF Under
<1> HIDE DEF u, u2, w, n, r
<1> QED BY <1>1, <1>2, <1>4, <1>5 DEF n

(* _resubscribe sends one request for each that is inflight afterwards.    *)
LEMMA ComesUp ==
    ASSUME IInv, CInv, state = "connecting", NEW d \in Doc
    PROVE  LET y == _resubscribe(doc[d])
           IN  /\ Sound(y) /\ Alternates(y) /\ Gains(doc[d], y, {})
               /\ Sends(y, Subscribing) = Inf(y) /\ Sends(y, Fetching) = Fet(y)
               /\ Inf(y) \in 0..1 /\ Fet(y) \in 0..1
<1> DEFINE y == _resubscribe(doc[d])
<1>1. /\ Tidy(doc[d]) /\ doc[d] \in DocShape
      /\ Sends(doc[d], Subscribing) = 0 /\ Sends(doc[d], Fetching) = 0
  BY TidyIs
<1>3. Sound(doc[d]) /\ Alternates(doc[d])
      /\ (doc[d].ticks = 0 => doc[d].infSub = None) /\ doc[d].infFetch = <<>>
  BY <1>1 DEF Tidy, Sound, Resting
<1>4. Inf(doc[d]) = 0 /\ Fet(doc[d]) = 0
  BY <1>3 DEF Inf, Fet, One
<1>5. Sound(y) /\ Gains(doc[d], y, {}) /\ Balance(doc[d], y, 0, 0)
  BY <1>3, ResubscribeHandled DEF Handled
<1>6. Alternates(y)
  BY <1>3, AltResubscribe
<1> HIDE DEF y
<1>7. /\ Sends(y, Subscribing) \in Nat /\ Sends(y, Fetching) \in Nat
      /\ Inf(y) \in Nat /\ Fet(y) \in Nat
  BY <1>5, SendsIs DEF Sound
<1>8. Sends(y, Subscribing) = Inf(y) /\ Sends(y, Fetching) = Fet(y)
  BY <1>1, <1>4, <1>5, <1>7 DEF Balance
<1>9. Inf(y) \in 0..1
  BY DEF Inf, One
<1>10. Fet(y) <= 1
  BY <1>5 DEF Sound, Fet
<1>11. Fet(y) \in 0..1
  BY <1>7, <1>10
<1> QED BY <1>5, <1>6, <1>8, <1>9, <1>11 DEF y

LEMMA ConnectedSafe ==
    ASSUME IInv, CInv, _handleHandshake, state = "connecting"
    PROVE  CInv'
<1> DEFINE s == _setState(state, doc, "connected")
           xs == [d \in Doc |-> _resubscribe(doc[d])]
           resend == Unanswered /\ ~request.sent
           first == IF resend THEN <<RequestMessage(request)>> ELSE <<>>
           msgs == first \o Bulk(xs)
<1>1. s.xs = xs
  <2>1. ~Refused("connecting", "connected") /\ ("connected" = "connected") = TRUE
    BY DEF Refused
  <2>2. s.xs = [d \in Doc |-> DocStateChanged(doc[d], TRUE)]
    BY <2>1 DEF _setState
  <2> QED BY <2>2 DEF DocStateChanged
<1>2. /\ Receiving({"hs"}) /\ state' = "connected" /\ canSend' = TRUE
      /\ Put(xs, calls) /\ Send(msgs)
  BY <1>1 DEF _handleHandshake
<1>3. /\ sock = "open" /\ Head(down).a = "hs"
      /\ List(down') /\ Range(down') \subseteq Range(down)
      /\ UNCHANGED <<sock, cur, jobs, streams>>
      /\ \A K, d : /\ Replied(down, K, d) = One(Replying(Head(down), K, d)) + Replied(down', K, d)
                   /\ Replied(down', K, d) \in Nat
  BY <1>2, ReceivingSafe
<1>5. ASSUME NEW d \in Doc
      PROVE  /\ Sound(xs[d]) /\ Alternates(xs[d]) /\ Gains(doc[d], xs[d], {})
             /\ Sends(xs[d], Subscribing) = Inf(xs[d]) /\ Sends(xs[d], Fetching) = Fet(xs[d])
             /\ Inf(xs[d]) \in 0..1 /\ Fet(xs[d]) \in 0..1
             /\ xs[d] \in DocShape /\ DocOK(xs[d])
  <2>1. xs[d] = _resubscribe(doc[d])
    OBVIOUS
  <2> HIDE DEF xs
  <2>2. /\ Sound(xs[d]) /\ Alternates(xs[d]) /\ Gains(doc[d], xs[d], {})
        /\ Sends(xs[d], Subscribing) = Inf(xs[d]) /\ Sends(xs[d], Fetching) = Fet(xs[d])
        /\ Inf(xs[d]) \in 0..1 /\ Fet(xs[d]) \in 0..1
    BY <2>1, ComesUp
  <2>3. xs[d] \in DocShape
    BY <2>2 DEF Sound
  <2> QED BY <2>2, <2>3, ShapeIsOK
<1> HIDE DEF s, xs
<1>6. Silent(first)
  BY SilentOnes
<1> HIDE DEF first
<1>7. List(Bulk(xs)) /\ List(first) /\ List(msgs)
  <2>1. List(Bulk(xs)) /\ List(first)
    BY <1>5, <1>6, BulkOK DEF Silent
  <2> QED BY <2>1, ConcatList
<1>8. ASSUME NEW d \in Doc
      PROVE  /\ Asked(msgs, Subscribing, d) = Inf(xs[d])
             /\ Asked(msgs, Fetching, d) = Fet(xs[d])
  <2>1. ASSUME NEW K \in {Subscribing, Fetching}, Sends(xs[d], K) <= 1, Sends(xs[d], K) \in Nat
        PROVE  Asked(msgs, K, d) = Sends(xs[d], K)
    <3>1. Asked(Bulk(xs), K, d) = Sends(xs[d], K)
      BY <1>5, <2>1, BulkCount
    <3>2. Asked(first, K, d) = 0
      BY <1>6, SilentAsks
    <3>3. Asked(msgs, K, d) = Asked(first, K, d) + Asked(Bulk(xs), K, d)
      BY <1>7, AskedConcat
    <3> QED BY <2>1, <3>1, <3>2, <3>3
  <2>2. /\ Sends(xs[d], Subscribing) <= 1 /\ Sends(xs[d], Subscribing) \in Nat
        /\ Sends(xs[d], Fetching) <= 1 /\ Sends(xs[d], Fetching) \in Nat
        /\ Sends(xs[d], Subscribing) = Inf(xs[d]) /\ Sends(xs[d], Fetching) = Fet(xs[d])
    <3>1. /\ Sends(xs[d], Subscribing) = Inf(xs[d]) /\ Sends(xs[d], Fetching) = Fet(xs[d])
          /\ Inf(xs[d]) \in 0..1 /\ Fet(xs[d]) \in 0..1
      BY <1>5
    <3> QED BY <3>1
  <2> QED BY <2>1, <2>2
<1>9. Sent(msgs)
  BY <1>2, SendSame
<1> HIDE DEF msgs
<1>10. ASSUME NEW d \in Doc
       PROVE  Inf(doc'[d]) = Inf(xs[d]) /\ Fet(doc'[d]) = Fet(xs[d])
  <2> DEFINE y == [xs[d] EXCEPT !.out = <<>>, !.told = <<>>, !.quiet = FALSE]
  <2>1. doc'[d] = y
    BY <1>2 DEF Put
  <2>2. y.infSub = xs[d].infSub /\ y.infFetch = xs[d].infFetch /\ y.ticks = xs[d].ticks
    BY <1>5 DEF DocShape
  <2> QED BY <2>1, <2>2 DEF Inf, Fet
<1>11. cur \in 1..MaxAgents /\ canSend = FALSE
  BY DEF CInv, Wired, IInv
<1>12. ASSUME NEW d \in Doc, NEW K \in {Subscribing, Fetching}, NEW n \in 0..1,
              Asked(msgs, K, d) = n,
              \A a \in 1..MaxAgents : Under(K, a, d) <= 1, Under(K, cur, d) = 0
       PROVE  /\ \A a \in 1..MaxAgents : Under(K, a, d)' <= 1
              /\ Under(K, cur, d)' = n
  <2>1. Replied(down', K, d) = Replied(down, K, d)
    <3>1. One(Replying(Head(down), K, d)) = 0
      BY <1>3 DEF Replying, One, Subscribing, Fetching
    <3>2. Replied(down, K, d) = 0 + Replied(down', K, d) /\ Replied(down', K, d) \in Nat
      BY <1>3, <3>1
    <3> QED BY <3>2
  <2>2. \A a \in 1..MaxAgents : Under(K, a, d)' = Under(K, a, d) + IF a = cur THEN n ELSE 0
    <3> TAKE a \in 1..MaxAgents
    <3>1. Under(K, a, d)' = Under(K, a, d) + IF a = cur THEN Asked(msgs, K, d) ELSE 0
      BY <1>3, <1>7, <1>9, <2>1, SentUnder
    <3> QED BY <1>12, <3>1
  <2>3. \A a \in 1..MaxAgents : Under(K, a, d) \in Nat
    BY UnderIs
  <2>4. \A a \in 1..MaxAgents : Under(K, a, d)' <= 1
    <3> TAKE a \in 1..MaxAgents
    <3> DEFINE U == Under(K, a, d)
               V == Under(K, a, d)'
    <3>1. V = U + (IF a = cur THEN n ELSE 0) /\ U \in Nat /\ U <= 1 /\ (a = cur => U = 0)
      BY <1>12, <2>2, <2>3
    <3> HIDE DEF U, V
    <3>2. V <= 1
      BY <3>1
    <3> QED BY <3>2 DEF V
  <2>5. \A b : b = cur => Under(K, b, d)' = n
    <3> TAKE b
    <3> HAVE b = cur
    <3> DEFINE V == Under(K, b, d)'
    <3>1. Under(K, b, d)' = Under(K, b, d) + (IF b = cur THEN n ELSE 0) /\ Under(K, b, d) = 0
      BY <1>11, <1>12, <2>2
    <3> QED BY <3>1
  <2> QED BY <1>3, <2>4, <2>5
<1>13. OneUnderWay'
  <2>1. ASSUME NEW d \in Doc
        PROVE  /\ \A a \in 1..MaxAgents : Under(Subscribing, a, d)' <= 1 /\ Under(Fetching, a, d)' <= 1
               /\ Under(Subscribing, cur, d)' = Inf(doc'[d])
               /\ Under(Fetching, cur, d)' = Fet(doc'[d])
    <3>1. /\ \A a \in 1..MaxAgents : Under(Subscribing, a, d) <= 1 /\ Under(Fetching, a, d) <= 1
          /\ Under(Subscribing, cur, d) = 0 /\ Under(Fetching, cur, d) = 0
      BY <1>3, <1>11 DEF CInv, OneUnderWay
    <3>2. Inf(xs[d]) \in 0..1 /\ Fet(xs[d]) \in 0..1
      BY <1>5
    <3>3. /\ \A a \in 1..MaxAgents : Under(Subscribing, a, d)' <= 1
          /\ Under(Subscribing, cur, d)' = Inf(xs[d])
      BY <1>8, <1>12, <3>1, <3>2
    <3>4. /\ \A a \in 1..MaxAgents : Under(Fetching, a, d)' <= 1
          /\ Under(Fetching, cur, d)' = Fet(xs[d])
      BY <1>8, <1>12, <3>1, <3>2
    <3> QED BY <1>10, <3>3, <3>4
  <2> QED BY <1>2, <2>1 DEF OneUnderWay
<1>14. Wired' /\ StreamsOwned'
  BY <1>2, <1>3, <1>9, SentWired
<1>15. JobsShape' /\ DownShape'
  BY <1>3 DEF CInv, JobsShape, JobShape, DownShape, Reply
<1>16. DocsTidy'
  <2>1. \A d \in Doc : /\ Sound(xs[d]) /\ Alternates(xs[d])
                       /\ state' # "connected" => Resting(xs[d])
    BY <1>2, <1>5
  <2> QED BY <1>2, <2>1, PutDocs
<1>17. CallsOK'
  <2>1. \A d \in Doc, c \in Nat : Weight(xs[d], c) = One(Owing(calls, d, c))
    BY <1>5, SameWeights
  <2> QED BY <1>2, <1>5, <2>1, CallsAre, PutCalls
<1> QED BY <1>13, <1>14, <1>15, <1>16, <1>17 DEF CInv

LEMMA ClientHandshakeSafe ==
    ASSUME IInv, CInv, _handleHandshake
    PROVE  CInv'
<1>1. CASE state = "connecting"
  BY <1>1, ConnectedSafe
<1>2. CASE state # "connecting"
  <2>1. Receiving({"hs"}) /\ UNCHANGED <<state, canSend, doc, calls, agents>>
    BY <1>2 DEF _handleHandshake
  <2>2. Silent(<<>>) /\ Sent(<<>>)
    BY <2>1, SilentOnes, NothingSent
  <2> QED BY <2>1, <2>2, SilentReceipt
<1> QED BY <1>1, <1>2

-----------------------------------------------------------------------------
(* The agents.                                                             *)
(* A step of an agent: no more under way with any agent, and as much with  *)
(* the one whose messages arrive.                                          *)
Fewer(K, d) ==
    \A b \in 1..MaxAgents :
        /\ Under(K, b, d)' \in Nat /\ Under(K, b, d)' <= Under(K, b, d)
        /\ b = cur /\ sock = "open" => Under(K, b, d)' = Under(K, b, d)

LEMMA ServerSafe ==
    ASSUME IInv, CInv, UNCHANGED <<state, canSend, sock, cur, doc, calls>>,
           \A d \in Doc : Fewer(Subscribing, d) /\ Fewer(Fetching, d),
           Wired', JobsShape', DownShape', StreamsOwned'
    PROVE  CInv'
<1>1. cur \in 1..MaxAgents /\ (sock # "open" => ~canSend)
  BY DEF CInv, Wired
<1>2. ASSUME NEW d \in Doc, NEW K \in {Subscribing, Fetching}, NEW n \in Nat,
             Fewer(K, d), \A a \in 1..MaxAgents : Under(K, a, d) <= 1,
             sock # "closed" => Under(K, cur, d) = IF canSend THEN n ELSE 0
      PROVE  /\ \A a \in 1..MaxAgents : Under(K, a, d)' <= 1
             /\ sock # "closed" => Under(K, cur, d)' = IF canSend THEN n ELSE 0
  <2> DEFINE U(a) == Under(K, a, d)
             V(a) == Under(K, a, d)'
  <2>1. /\ \A a \in 1..MaxAgents : V(a) \in Nat /\ V(a) <= U(a)
        /\ sock = "open" => \A a \in 1..MaxAgents : a = cur => V(a) = U(a)
    BY <1>2 DEF Fewer
  <2>2. \A a \in 1..MaxAgents : U(a) \in Nat
    BY UnderIs
  <2>3. \A a \in 1..MaxAgents : U(a) <= 1
    BY <1>2
  <2>4. sock # "closed" => U(cur) = IF canSend THEN n ELSE 0
    BY <1>2
  <2> HIDE DEF U, V
  <2>5. \A a \in 1..MaxAgents : V(a) <= 1
    BY <2>1, <2>2, <2>3
  <2>6. sock # "closed" => V(cur) = IF canSend THEN n ELSE 0
    <3>1. CASE sock = "open"
      BY <1>1, <2>1, <2>4, <3>1
    <3>2. CASE sock # "open" /\ sock # "closed"
      <4>1. U(cur) = 0 /\ V(cur) \in Nat /\ V(cur) <= U(cur)
        BY <1>1, <2>1, <2>4, <3>2
      <4>2. V(cur) = 0
        BY <4>1
      <4> QED BY <1>1, <3>2, <4>2
    <3> QED BY <3>1, <3>2
  <2> QED BY <2>5, <2>6 DEF V
<1>3. ASSUME NEW d \in Doc
      PROVE  /\ \A a \in 1..MaxAgents : Under(Subscribing, a, d)' <= 1 /\ Under(Fetching, a, d)' <= 1
             /\ sock # "closed" =>
                  /\ Under(Subscribing, cur, d)' = IF canSend THEN Inf(doc[d]) ELSE 0
                  /\ Under(Fetching, cur, d)' = IF canSend THEN Fet(doc[d]) ELSE 0
  <2>1. /\ \A a \in 1..MaxAgents : Under(Subscribing, a, d) <= 1 /\ Under(Fetching, a, d) <= 1
        /\ sock # "closed" =>
                  /\ Under(Subscribing, cur, d) = IF canSend THEN Inf(doc[d]) ELSE 0
                  /\ Under(Fetching, cur, d) = IF canSend THEN Fet(doc[d]) ELSE 0
    BY DEF CInv, OneUnderWay
  <2>2. Inf(doc[d]) \in Nat /\ Fet(doc[d]) \in Nat
    <3>1. Inf(doc[d]) \in 0..1 /\ Fet(doc[d]) \in 0..1
      BY TidyIs
    <3> QED BY <3>1
  <2>3. /\ \A a \in 1..MaxAgents : Under(Subscribing, a, d)' <= 1
        /\ sock # "closed" => Under(Subscribing, cur, d)' = IF canSend THEN Inf(doc[d]) ELSE 0
    BY <1>2, <2>1, <2>2
  <2>4. /\ \A a \in 1..MaxAgents : Under(Fetching, a, d)' <= 1
        /\ sock # "closed" => Under(Fetching, cur, d)' = IF canSend THEN Fet(doc[d]) ELSE 0
    BY <1>2, <2>1, <2>2
  <2> QED BY <2>3, <2>4
<1>4. OneUnderWay'
  BY <1>3 DEF OneUnderWay
<1>5. DocsTidy' /\ CallsOK'
  BY DEF CInv, DocsTidy, Tidy, CallsOK
<1> QED BY <1>4, <1>5 DEF CInv

(* What an agent sends.                                                    *)
LEMMA ArrivesSafe ==
    ASSUME IInv, CInv, UNCHANGED <<sock, cur>>, NEW a, NEW msgs, List(msgs), down' = Arrives(a, msgs)
    PROVE  /\ \A K, d : /\ Replied(down', K, d) \in Nat
                        /\ Replied(down', K, d)
                             = Replied(down, K, d) + IF Is(a) THEN Replied(msgs, K, d) ELSE 0
           /\ sock = "closed" => down' = <<>>
           /\ (\A m \in Range(msgs) : m.a \in {"f", "s", "u"} => Reply(m)) => DownShape'
<1>1. List(down)
  BY DEF IInv, ArrivesOK
<1>2. List(down') /\ Range(down') \subseteq Range(down) \cup Range(msgs)
  <2>1. List(down \o msgs) /\ Range(down \o msgs) = Range(down) \cup Range(msgs)
    BY <1>1, ConcatList
  <2> QED BY <1>1, <2>1 DEF Arrives
<1>3. \A K, d : /\ Replied(down', K, d) \in Nat
                /\ Replied(down', K, d)
                     = Replied(down, K, d) + IF Is(a) THEN Replied(msgs, K, d) ELSE 0
  <2> TAKE K, d
  <2>1. Replied(down', K, d) \in Nat /\ Replied(down, K, d) \in Nat
    BY <1>1, <1>2, AskedIs
  <2>2. Replied(down \o msgs, K, d) = Replied(down, K, d) + Replied(msgs, K, d)
    BY <1>1, AskedConcat
  <2> QED BY <2>1, <2>2 DEF Arrives
<1>4. sock = "closed" => down' = <<>>
  BY DEF Arrives, Is, CInv, Wired
<1>5. (\A m \in Range(msgs) : m.a \in {"f", "s", "u"} => Reply(m)) => DownShape'
  BY <1>2 DEF CInv, DownShape, Reply
<1> QED BY <1>3, <1>4, <1>5

(* The balance of a step of the agent a: it takes t requests and n answers *)
(* come out, with u jobs done and w begun.                                 *)
LEMMA ServerUnder ==
    ASSUME IInv, CInv, UNCHANGED <<sock, cur>>, NEW a \in 1..MaxAgents, NEW K, NEW d,
           NEW msgs, List(msgs), down' = Arrives(a, msgs),
           NEW t \in Nat, NEW u \in Nat, NEW w \in Nat, NEW n \in Nat,
           Asked(agents'[a].up, K, d) \in Nat, Worked(jobs', K, a, d) \in Nat,
           Asked(agents[a].up, K, d) = Asked(agents'[a].up, K, d) + t,
           Worked(jobs', K, a, d) + u = Worked(jobs, K, a, d) + w,
           Replied(msgs, K, d) = n, t + u = w + n,
           \A b \in 1..MaxAgents : b # a => /\ agents'[b].up = agents[b].up
                                            /\ Worked(jobs', K, b, d) = Worked(jobs, K, b, d)
    PROVE  Fewer(K, d)
<1> SUFFICES ASSUME NEW b \in 1..MaxAgents
             PROVE  /\ Under(K, b, d)' \in Nat /\ Under(K, b, d)' <= Under(K, b, d)
                    /\ b = cur /\ sock = "open" => Under(K, b, d)' = Under(K, b, d)
  BY DEF Fewer
<1> DEFINE A == Asked(agents[b].up, K, d)
           A2 == Asked(agents'[b].up, K, d)
           W == Worked(jobs, K, b, d)
           W2 == Worked(jobs', K, b, d)
           R == Replied(down, K, d)
           R2 == Replied(down', K, d)
           U == Under(K, b, d)
           V == Under(K, b, d)'
<1>1. A \in Nat /\ W \in Nat /\ R \in Nat /\ U = A + W + IF b = cur THEN R ELSE 0
  BY UnderIs DEF Returning
<1>2. V = A2 + W2 + IF b = cur THEN R2 ELSE 0
  BY DEF Under
<1>3. R2 \in Nat /\ R2 = R + IF Is(a) THEN n ELSE 0
  BY ArrivesSafe
<1>4. b = a => A2 \in Nat /\ W2 \in Nat /\ A = A2 + t /\ W2 + u = W + w
  OBVIOUS
<1>5. b # a => A2 = A /\ W2 = W
  OBVIOUS
<1> HIDE DEF A, A2, W, W2, R, R2, U, V
<1>6. CASE b = a
  <2>1. CASE a = cur /\ sock = "open"
    <3>1. R2 = R + n /\ V = A2 + W2 + R2 /\ U = A + W + R
      BY <1>1, <1>2, <1>3, <1>6, <2>1 DEF Is
    <3>2. V = U /\ V \in Nat /\ U \in Nat
      BY <1>1, <1>3, <1>4, <1>6, <3>1
    <3> QED BY <1>6, <2>1, <3>2 DEF U, V
  <2>2. CASE ~(a = cur /\ sock = "open")
    <3>1. R2 = R
      BY <1>1, <1>3, <2>2 DEF Is
    <3>2. V + n = U /\ V \in Nat /\ U \in Nat
      BY <1>1, <1>2, <1>4, <1>6, <3>1
    <3>3. V <= U
      BY <3>2
    <3> QED BY <1>6, <2>2, <3>2, <3>3 DEF U, V
  <2> QED BY <2>1, <2>2
<1>7. CASE b # a
  <2>1. b = cur => R2 = R
    BY <1>1, <1>3, <1>7 DEF Is
  <2>2. V = U /\ V \in Nat
    BY <1>1, <1>2, <1>5, <1>7, <2>1
  <2> QED BY <2>2 DEF U, V
<1> QED BY <1>6, <1>7

-----------------------------------------------------------------------------
(* The jobs about a doc.                                                   *)
Owned(js, d) == {j \in js : d \in DOMAIN j.q}
Holders(ags, d) == {a \in DOMAIN ags : ags[a].st = "open" /\ ags[a].held[d] # None}

LEMMA JobsAre ==
    ASSUME IInv, CInv
    PROVE  /\ IsFiniteSet(jobs)
           /\ \A j \in jobs : /\ JobShape(j) /\ JobOK(j, request, log)
                              /\ j.a \in 1..cur /\ j.a \in 1..MaxAgents
                              /\ DOMAIN j.q \subseteq Doc
           /\ \A d : /\ IsFiniteSet(Owned(jobs, d)) /\ Cardinality(Owned(jobs, d)) \in Nat
                     /\ IsFiniteSet(Holders(agents, d)) /\ Cardinality(Holders(agents, d)) \in Nat
           /\ \A K, a, d : /\ IsFiniteSet(JobsAbout(jobs, K, a, d))
                           /\ Worked(jobs, K, a, d) \in Nat
<1>1. IsFiniteSet(jobs) /\ \A j \in jobs : JobShape(j) /\ JobOK(j, request, log)
  BY DEF CInv, JobsShape, IInv, JobsOK
<1>2. ASSUME NEW j \in jobs
      PROVE  j.a \in 1..cur /\ j.a \in 1..MaxAgents /\ DOMAIN j.q \subseteq Doc
  <2>1. cur \in 1..MaxAgents /\ MaxAgents \in Nat
    BY MaxAgentsIs DEF CInv, Wired, IInv
  <2>2. j.a \in 1..cur
    BY <1>1 DEF JobShape
  <2>3. j.a \in 1..MaxAgents
    BY <2>1, <2>2
  <2>4. DOMAIN j.q \subseteq Doc
    BY <1>1 DEF JobShape, JobOK, UpOK, Asks
  <2> QED BY <2>2, <2>3, <2>4
<1>3. ASSUME NEW S, S \subseteq jobs PROVE IsFiniteSet(S) /\ Cardinality(S) \in Nat
  BY <1>1, <1>3, FS_Subset, FS_CardinalityType
<1>4. \A K, a, d : IsFiniteSet(JobsAbout(jobs, K, a, d)) /\ Worked(jobs, K, a, d) \in Nat
  BY <1>3 DEF JobsAbout, Worked
<1>5. \A d : IsFiniteSet(Owned(jobs, d)) /\ Cardinality(Owned(jobs, d)) \in Nat
  BY <1>3 DEF Owned
<1>6. \A d : IsFiniteSet(Holders(agents, d)) /\ Cardinality(Holders(agents, d)) \in Nat
  <2> TAKE d
  <2>1. IsFiniteSet(1..MaxAgents)
    BY MaxAgentsIs, FS_Interval DEF IInv
  <2>2. Holders(agents, d) \subseteq 1..MaxAgents
    BY DEF Holders, IInv, AgentsOK
  <2> QED BY <2>1, <2>2, FS_Subset, FS_CardinalityType
<1> QED BY <1>1, <1>2, <1>4, <1>5, <1>6

(* No two jobs of an agent are about the same doc.                         *)
LEMMA JobsAlone ==
    ASSUME IInv, CInv, NEW K \in {Subscribing, Fetching}, NEW d \in Doc, NEW a \in 1..MaxAgents
    PROVE  /\ \A i, j \in JobsAbout(jobs, K, a, d) : i = j
           /\ \A j \in JobsAbout(jobs, K, a, d) : Worked(jobs, K, a, d) = 1
           /\ Worked(jobs, K, a, d) <= 1
           /\ Asked(agents[a].up, K, d) # 0 => JobsAbout(jobs, K, a, d) = {}
<1> DEFINE S == JobsAbout(jobs, K, a, d)
           w == Worked(jobs, K, a, d)
           u == Asked(agents[a].up, K, d)
<1>1. /\ u \in Nat /\ w \in Nat /\ IsFiniteSet(S) /\ Returning(K, a, d) \in Nat
      /\ Under(K, a, d) = u + w + Returning(K, a, d)
  BY UnderIs
<1>2. Under(K, a, d) <= 1
  BY DEF CInv, OneUnderWay
<1>3. w = Cardinality(S)
  BY DEF Worked
<1> HIDE DEF w, u, S
<1>4. w <= 1 /\ (u # 0 => w = 0)
  BY <1>1, <1>2
<1>5. w = 0 => S = {}
  BY <1>1, <1>3, FS_EmptySet
<1>6. w = 1 => \E x : S = {x}
  BY <1>1, <1>3, FS_Singleton
<1>7. w = 0 \/ w = 1
  BY <1>1, <1>4
<1>8. \A i, j \in S : i = j
  BY <1>5, <1>6, <1>7
<1>9. \A j \in S : w = 1
  BY <1>5, <1>7
<1> QED BY <1>4, <1>5, <1>8, <1>9 DEF w, u, S

(* What a job owns it has subscribed to.                                   *)
LEMMA OwnedIs ==
    ASSUME IInv, CInv, NEW j \in jobs, NEW d \in DOMAIN j.q
    PROVE  d \in Doc /\ j.m.a = "s" /\ j \in JobsAbout(jobs, Subscribing, j.a, d)
BY JobsAre DEF JobShape, JobsAbout, Subscribing

-----------------------------------------------------------------------------
(* Jobs that end, begin or go on, counted.                                 *)
Doing(j, K, a, d) == j.a = a /\ About(j.m, K, d)

LEMMA AboutIs == ASSUME NEW js, NEW K, NEW a, NEW d
                 PROVE  JobsAbout(js, K, a, d) = {j \in js : Doing(j, K, a, d)}
BY DEF JobsAbout, Doing, About

LEMMA LessOne ==
    ASSUME NEW S, IsFiniteSet(S), NEW x \in S
    PROVE  /\ IsFiniteSet(S \ {x}) /\ Cardinality(S \ {x}) \in Nat /\ Cardinality(S) \in Nat
           /\ Cardinality(S \ {x}) + 1 = Cardinality(S)
<1>1. Cardinality(S) \in Nat /\ Cardinality(S \ {x}) \in Nat /\ IsFiniteSet(S \ {x})
  BY FS_RemoveElement, FS_CardinalityType
<1>2. Cardinality(S \ {x}) = Cardinality(S) - 1
  BY FS_RemoveElement
<1> QED BY <1>1, <1>2

LEMMA MoreOne ==
    ASSUME NEW S, IsFiniteSet(S), NEW x, x \notin S
    PROVE  /\ IsFiniteSet(S \cup {x}) /\ Cardinality(S \cup {x}) \in Nat /\ Cardinality(S) \in Nat
           /\ Cardinality(S \cup {x}) = Cardinality(S) + 1
<1>1. Cardinality(S) \in Nat
  BY FS_CardinalityType
<1>2. IsFiniteSet(S \cup {x}) /\ Cardinality(S \cup {x}) = Cardinality(S) + 1
  BY FS_AddElement
<1> QED BY <1>1, <1>2

LEMMA JobGone ==
    ASSUME IInv, CInv, NEW j \in jobs, jobs' = jobs \ {j}
    PROVE  /\ \A K, a, d : /\ Worked(jobs', K, a, d) \in Nat
                           /\ Worked(jobs', K, a, d) + One(Doing(j, K, a, d)) = Worked(jobs, K, a, d)
           /\ \A d : /\ Cardinality(Owned(jobs', d)) \in Nat
                     /\ Cardinality(Owned(jobs', d)) + One(d \in DOMAIN j.q)
                          = Cardinality(Owned(jobs, d))
<1>1. ASSUME NEW S, IsFiniteSet(S), NEW T, NEW P, P \in BOOLEAN,
             P => j \in S /\ T = S \ {j}, ~P => T = S
      PROVE  Cardinality(T) \in Nat /\ Cardinality(T) + One(P) = Cardinality(S)
  <2>1. Cardinality(S) \in Nat
    BY <1>1, FS_CardinalityType
  <2>2. CASE P
    <3>1. Cardinality(S \ {j}) + 1 = Cardinality(S) /\ Cardinality(S \ {j}) \in Nat
      BY <1>1, <2>2, LessOne
    <3> QED BY <1>1, <2>2, <3>1 DEF One
  <2>3. CASE ~P
    BY <1>1, <2>1, <2>3 DEF One
  <2> QED BY <2>2, <2>3
<1>2. \A K, a, d : /\ Worked(jobs', K, a, d) \in Nat
                   /\ Worked(jobs', K, a, d) + One(Doing(j, K, a, d)) = Worked(jobs, K, a, d)
  <2> TAKE K, a, d
  <2> DEFINE S == JobsAbout(jobs, K, a, d)
             T == JobsAbout(jobs', K, a, d)
             P == Doing(j, K, a, d)
  <2>1. IsFiniteSet(S)
    BY JobsAre
  <2>2. P \in BOOLEAN
    BY DEF Doing, About
  <2>3. (P => j \in S /\ T = S \ {j}) /\ (~P => T = S)
    BY AboutIs
  <2> HIDE DEF S, T, P
  <2>4. Cardinality(T) \in Nat /\ Cardinality(T) + One(P) = Cardinality(S)
    BY <1>1, <2>1, <2>2, <2>3
  <2> QED BY <2>4 DEF S, T, P, Worked
<1>3. \A d : /\ Cardinality(Owned(jobs', d)) \in Nat
             /\ Cardinality(Owned(jobs', d)) + One(d \in DOMAIN j.q) = Cardinality(Owned(jobs, d))
  <2> TAKE d
  <2> DEFINE S == Owned(jobs, d)
             T == Owned(jobs', d)
             P == d \in DOMAIN j.q
  <2>1. IsFiniteSet(S)
    BY JobsAre
  <2>2. P \in BOOLEAN /\ (P => j \in S /\ T = S \ {j}) /\ (~P => T = S)
    BY DEF Owned
  <2> HIDE DEF S, T, P
  <2>3. Cardinality(T) \in Nat /\ Cardinality(T) + One(P) = Cardinality(S)
    BY <1>1, <2>1, <2>2
  <2> QED BY <2>3 DEF S, T, P
<1> QED BY <1>2, <1>3

LEMMA JobNew ==
    ASSUME IInv, CInv, NEW k, jobs' = jobs \cup {k},
           NEW a, NEW K, NEW d, Doing(k, K, a, d) => JobsAbout(jobs, K, a, d) = {}
    PROVE  /\ Worked(jobs', K, a, d) \in Nat
           /\ Worked(jobs', K, a, d) = Worked(jobs, K, a, d) + One(Doing(k, K, a, d))
<1> DEFINE S == JobsAbout(jobs, K, a, d)
           T == JobsAbout(jobs', K, a, d)
           P == Doing(k, K, a, d)
<1>1. IsFiniteSet(S) /\ Cardinality(S) \in Nat
  BY JobsAre, FS_CardinalityType
<1>2. (P => S = {} /\ T = S \cup {k}) /\ (~P => T = S)
  BY AboutIs
<1> HIDE DEF S, T, P
<1>3. CASE P
  <2>1. Cardinality(T) \in Nat /\ Cardinality(T) = Cardinality(S) + 1
    BY <1>1, <1>2, <1>3, MoreOne
  <2> QED BY <1>3, <2>1 DEF One, S, T, P, Worked
<1>4. CASE ~P
  <2>1. Cardinality(T) \in Nat /\ Cardinality(T) = Cardinality(S) + 0
    BY <1>1, <1>2, <1>4
  <2> QED BY <1>4, <2>1 DEF One, S, T, P, Worked
<1> QED BY <1>3, <1>4

LEMMA OwnedNew ==
    ASSUME IInv, CInv, NEW k, jobs' = jobs \cup {k}, NEW d, d \in DOMAIN k.q => k \notin jobs
    PROVE  /\ Cardinality(Owned(jobs', d)) \in Nat
           /\ Cardinality(Owned(jobs', d)) = Cardinality(Owned(jobs, d)) + One(d \in DOMAIN k.q)
<1> DEFINE S == Owned(jobs, d)
           T == Owned(jobs', d)
           P == d \in DOMAIN k.q
<1>1. IsFiniteSet(S) /\ Cardinality(S) \in Nat
  BY JobsAre
<1>2. (P => k \notin S /\ T = S \cup {k}) /\ (~P => T = S)
  BY DEF Owned
<1> HIDE DEF S, T, P
<1>3. CASE P
  <2>1. Cardinality(T) \in Nat /\ Cardinality(T) = Cardinality(S) + 1
    BY <1>1, <1>2, <1>3, MoreOne
  <2> QED BY <1>3, <2>1 DEF One, S, T, P
<1>4. CASE ~P
  <2>1. Cardinality(T) \in Nat /\ Cardinality(T) = Cardinality(S) + 0
    BY <1>1, <1>2, <1>4
  <2> QED BY <1>4, <2>1 DEF One, S, T, P
<1> QED BY <1>3, <1>4

(* A job that has come one step further.                                   *)
LEMMA JobFurther ==
    ASSUME IInv, CInv, NEW j \in jobs, NEW k, jobs' = (jobs \ {j}) \cup {k},
           k.a = j.a, k.m = j.m, DOMAIN k.q \subseteq DOMAIN j.q
    PROVE  /\ \A K \in {Subscribing, Fetching}, d \in Doc, a \in 1..MaxAgents :
                /\ Worked(jobs', K, a, d) \in Nat
                /\ Worked(jobs', K, a, d) = Worked(jobs, K, a, d)
           /\ \A d \in Doc :
                /\ Cardinality(Owned(jobs', d)) \in Nat
                /\ Cardinality(Owned(jobs', d))
                     + One(d \in DOMAIN j.q /\ d \notin DOMAIN k.q)
                   = Cardinality(Owned(jobs, d))
<1>1. ASSUME NEW K \in {Subscribing, Fetching}, NEW d \in Doc, NEW a \in 1..MaxAgents
      PROVE  /\ Worked(jobs', K, a, d) \in Nat
             /\ Worked(jobs', K, a, d) = Worked(jobs, K, a, d)
  <2> DEFINE S == JobsAbout(jobs, K, a, d)
             T == JobsAbout(jobs', K, a, d)
             P == Doing(j, K, a, d)
  <2>1. IsFiniteSet(S) /\ Cardinality(S) \in Nat
    BY JobsAre, FS_CardinalityType
  <2>2. Doing(k, K, a, d) <=> P
    BY DEF Doing
  <2>3. S = {i \in jobs : Doing(i, K, a, d)} /\ T = {i \in jobs' : Doing(i, K, a, d)}
    BY AboutIs
  <2>4. \A i, h \in S : i = h
    BY JobsAlone
  <2>5. CASE P
    <3>1. S = {j} /\ T = {k}
      BY <2>2, <2>3, <2>4, <2>5
    <3>2. Cardinality(S) = 1 /\ Cardinality(T) = 1
      BY <3>1, FS_Singleton
    <3> QED BY <3>2 DEF Worked
  <2>6. CASE ~P
    <3>1. S = T
      BY <2>2, <2>3, <2>6
    <3> QED BY <2>1, <3>1 DEF Worked
  <2> QED BY <2>5, <2>6
<1>2. ASSUME NEW d \in Doc
      PROVE  /\ Cardinality(Owned(jobs', d)) \in Nat
             /\ Cardinality(Owned(jobs', d))
                     + One(d \in DOMAIN j.q /\ d \notin DOMAIN k.q)
                = Cardinality(Owned(jobs, d))
  <2> DEFINE S == Owned(jobs, d)
             T == Owned(jobs', d)
             C == d \in DOMAIN j.q /\ d \notin DOMAIN k.q
  <2>1. IsFiniteSet(S) /\ Cardinality(S) \in Nat
    BY JobsAre
  <2>2. CASE d \in DOMAIN k.q
    <3>1. j \in S /\ T = (S \ {j}) \cup {k} /\ ~C
      BY <2>2 DEF Owned
    <3>2. k \notin S \ {j}
      <4>1. SUFFICES ASSUME k \in S PROVE k = j
        OBVIOUS
      <4>2. k \in jobs /\ d \in DOMAIN k.q /\ d \in DOMAIN j.q
        BY <2>2, <4>1 DEF Owned
      <4>3. k \in JobsAbout(jobs, Subscribing, j.a, d) /\ j \in JobsAbout(jobs, Subscribing, j.a, d)
        BY <4>2, OwnedIs
      <4>4. j.a \in 1..MaxAgents
        BY JobsAre
      <4> QED BY <4>3, <4>4, JobsAlone
    <3>3. One(C) = 0
      BY <3>1 DEF One
    <3> HIDE DEF S, T, C
    <3>4. /\ IsFiniteSet(S \ {j}) /\ Cardinality(S \ {j}) + 1 = Cardinality(S)
          /\ Cardinality(S \ {j}) \in Nat
      BY <2>1, <3>1, LessOne
    <3>5. Cardinality(T) = Cardinality(S \ {j}) + 1
      BY <3>1, <3>2, <3>4, MoreOne
    <3>6. Cardinality(T) = Cardinality(S)
      BY <3>4, <3>5
    <3>7. Cardinality(T) + One(C) = Cardinality(S)
      BY <2>1, <3>3, <3>6
    <3> QED BY <2>1, <3>6, <3>7 DEF S, T, C
  <2>3. CASE C
    <3>1. j \in S /\ T = S \ {j} /\ One(C) = 1
      BY <2>3 DEF Owned, One
    <3> HIDE DEF S, T, C
    <3>2. Cardinality(S \ {j}) + 1 = Cardinality(S) /\ Cardinality(S \ {j}) \in Nat
      BY <2>1, <3>1, LessOne
    <3> QED BY <3>1, <3>2 DEF S, T, C
  <2>4. CASE d \notin DOMAIN j.q
    <3>1. T = S /\ One(C) = 0
      BY <2>4 DEF Owned, One
    <3> HIDE DEF S, T, C
    <3> QED BY <2>1, <3>1 DEF S, T, C
  <2> QED BY <2>2, <2>3, <2>4
<1> QED BY <1>1, <1>2

(* A step of one agent.                                                    *)
LEMMA HoldersChange ==
    ASSUME IInv, CInv, NEW a \in 1..MaxAgents, NEW x, agents' = [agents EXCEPT ![a] = x], NEW d
    PROVE  LET P == agents[a].st = "open" /\ agents[a].held[d] # None
               Q == x.st = "open" /\ x.held[d] # None
           IN  /\ Cardinality(Holders(agents', d)) \in Nat
               /\ Cardinality(Holders(agents', d)) + One(P)
                    = Cardinality(Holders(agents, d)) + One(Q)
<1> DEFINE S == Holders(agents, d)
           T == Holders(agents', d)
           P == agents[a].st = "open" /\ agents[a].held[d] # None
           Q == x.st = "open" /\ x.held[d] # None
<1>1. IsFiniteSet(S) /\ Cardinality(S) \in Nat
  BY JobsAre
<1>2. DOMAIN agents = 1..MaxAgents
  BY DEF IInv, AgentsOK
<1>3. \A b \in 1..MaxAgents : b \in T <=> IF b = a THEN Q ELSE b \in S
  BY <1>2 DEF Holders
<1>4. (a \in S <=> P) /\ S \subseteq 1..MaxAgents /\ T \subseteq 1..MaxAgents
  BY <1>2 DEF Holders
<1> HIDE DEF S, T, P, Q
<1>5. CASE P /\ Q
  <2>1. S = T /\ One(P) = 1 /\ One(Q) = 1
    BY <1>3, <1>4, <1>5 DEF One
  <2> QED BY <1>1, <2>1 DEF S, T, P, Q
<1>6. CASE P /\ ~Q
  <2>1. T = S \ {a} /\ a \in S /\ One(P) = 1 /\ One(Q) = 0
    BY <1>3, <1>4, <1>6 DEF One
  <2>2. Cardinality(S \ {a}) + 1 = Cardinality(S) /\ Cardinality(S \ {a}) \in Nat
    BY <1>1, <2>1, LessOne
  <2>3. Cardinality(T) \in Nat /\ Cardinality(T) + 1 = Cardinality(S) + 0
    BY <1>1, <2>1, <2>2
  <2> QED BY <2>1, <2>3 DEF S, T, P, Q
<1>7. CASE ~P /\ Q
  <2>1. T = S \cup {a} /\ a \notin S /\ One(P) = 0 /\ One(Q) = 1
    BY <1>3, <1>4, <1>7 DEF One
  <2>2. Cardinality(S \cup {a}) = Cardinality(S) + 1 /\ Cardinality(S \cup {a}) \in Nat
    BY <1>1, <2>1, MoreOne
  <2>3. Cardinality(T) \in Nat /\ Cardinality(T) + 0 = Cardinality(S) + 1
    BY <1>1, <2>1, <2>2
  <2> QED BY <2>1, <2>3 DEF S, T, P, Q
<1>8. CASE ~P /\ ~Q
  <2>1. S = T /\ One(P) = 0 /\ One(Q) = 0
    BY <1>3, <1>4, <1>8 DEF One
  <2> QED BY <1>1, <2>1 DEF S, T, P, Q
<1> QED BY <1>5, <1>6, <1>7, <1>8

-----------------------------------------------------------------------------
(* An agent takes a request: the handshake, and those it begins a job for. *)
LEMMA OwnedIn ==
    ASSUME \A d \in Doc : streams'[d] = Cardinality(Holders(agents', d)) + Cardinality(Owned(jobs', d))
    PROVE  StreamsOwned'
BY DEF StreamsOwned, Holders, Owned

LEMMA OwnedNow ==
    ASSUME IInv, CInv, NEW d \in Doc
    PROVE  /\ streams[d] = Cardinality(Holders(agents, d)) + Cardinality(Owned(jobs, d))
           /\ Cardinality(Holders(agents, d)) \in Nat /\ Cardinality(Owned(jobs, d)) \in Nat
<1>1. streams[d] = Cardinality(Holders(agents, d)) + Cardinality(Owned(jobs, d))
  BY DEF CInv, StreamsOwned, Holders, Owned
<1> QED BY <1>1, JobsAre

(* A step of one agent.                                                    *)
LEMMA OneAgentWired ==
    ASSUME IInv, CInv, NEW a \in 1..MaxAgents, a <= cur, NEW x,
           agents' = [agents EXCEPT ![a] = x], UNCHANGED <<state, canSend, sock, cur>>,
           DOMAIN x = {"st", "src", "up", "held"}, x.st \in {"open", "closed"},
           x.st # "open" => \A d \in Doc : x.held[d] = None,
           a = cur /\ sock # "closed" => x.st = "open",
           sock = "closed" => down' = <<>>
    PROVE  /\ Wired' /\ agents'[a] = x
           /\ \A b \in 1..MaxAgents : b # a => agents'[b] = agents[b]
<1>1. DOMAIN agents = 1..MaxAgents
  BY DEF IInv, AgentsOK
<1>2. agents'[a] = x /\ \A b \in 1..MaxAgents : b # a => agents'[b] = agents[b]
  BY <1>1
<1>3. cur \in Nat /\ a \in Nat /\ ~(a > cur)
  <2>1. MaxAgents \in Nat /\ cur \in 1..MaxAgents
    BY MaxAgentsIs DEF IInv, CInv, Wired
  <2> QED BY <2>1
<1>4. Wired
  BY DEF CInv
<1> QED BY <1>2, <1>3, <1>4 DEF Wired

LEMMA SameJobs == ASSUME UNCHANGED jobs, IInv, CInv PROVE JobsShape' \/ cur' # cur
BY DEF CInv, JobsShape, JobShape

(* A request taken by an agent.                                            *)
LEMMA TakingSafe ==
    ASSUME IInv, CInv, NEW a \in 1..MaxAgents, NEW kinds, Taking(a, kinds)
    PROVE  LET m == Head(agents[a].up)
           IN  /\ m.a \in kinds /\ UpOK(m, request) /\ a <= cur
               /\ DOMAIN agents[a] = {"st", "src", "up", "held"} /\ agents[a].st = "open"
               /\ agents[a].held \in [Doc -> Seq(Nat) \cup {None}]
               /\ UNCHANGED <<state, canSend, sock, cur, doc, calls>>
               /\ \A K, d : /\ Asked(Tail(agents[a].up), K, d) \in Nat
                            /\ Asked(agents[a].up, K, d)
                                 = Asked(Tail(agents[a].up), K, d) + One(About(m, K, d))
<1> DEFINE m == Head(agents[a].up)
           s == agents[a].up
<1>1. List(s) /\ s # <<>> /\ m.a \in kinds /\ agents[a].st = "open"
      /\ UNCHANGED <<state, canSend, sock, cur, doc, calls>>
  BY DEF Taking, client, IInv, AgentsOK, AgentOK
<1>2. m \in Range(s) /\ UpOK(m, request) /\ agents[a].held \in [Doc -> Seq(Nat) \cup {None}]
  <2>1. m \in Range(s)
    BY <1>1, TailList
  <2> QED BY <2>1 DEF IInv, AgentsOK, AgentOK
<1>3. a <= cur /\ DOMAIN agents[a] = {"st", "src", "up", "held"}
  <2>1. MaxAgents \in Nat /\ cur \in 1..MaxAgents /\ ~(a > cur)
    BY <1>1, MaxAgentsIs DEF IInv, CInv, Wired
  <2> QED BY <2>1 DEF CInv, Wired
<1>4. \A K, d : /\ Asked(Tail(s), K, d) \in Nat
                /\ Asked(s, K, d) = Asked(Tail(s), K, d) + One(About(m, K, d))
  <2> TAKE K, d
  <2>1. List(Tail(s)) /\ Asked(s, K, d) = One(About(m, K, d)) + Asked(Tail(s), K, d)
    BY <1>1, AskedTail
  <2>2. Asked(Tail(s), K, d) \in Nat
    BY <2>1, AskedIs
  <2>3. One(About(m, K, d)) \in Nat
    BY OneIs
  <2> QED BY <2>1, <2>2, <2>3
<1> QED BY <1>1, <1>2, <1>3, <1>4

LEMMA SameWorked ==
    ASSUME IInv, CInv, UNCHANGED jobs
    PROVE  /\ \A K, a, d : Worked(jobs', K, a, d) \in Nat /\ Worked(jobs', K, a, d) = Worked(jobs, K, a, d)
           /\ \A d : Owned(jobs', d) = Owned(jobs, d)
BY JobsAre

LEMMA AgentHandshakeSafe ==
    ASSUME IInv, CInv, NEW a \in 1..MaxAgents, AgentHandshake(a)
    PROVE  CInv'
<1> DEFINE m == Head(agents[a].up)
           src == IF m.id = None THEN agents[a].src ELSE m.id
           x == [agents[a] EXCEPT !.up = Tail(@), !.src = src]
           reply == [a |-> "hs", id |-> src]
           msgs == <<reply>>
<1>1. /\ Taking(a, {"hs"}) /\ agents' = [agents EXCEPT ![a] = x]
      /\ down' = Arrives(a, msgs) /\ UNCHANGED <<jobs, streams>>
  BY DEF AgentHandshake
<1>2. /\ m.a = "hs" /\ a <= cur
      /\ DOMAIN agents[a] = {"st", "src", "up", "held"} /\ agents[a].st = "open"
      /\ UNCHANGED <<state, canSend, sock, cur, doc, calls>>
      /\ \A K, d : /\ Asked(Tail(agents[a].up), K, d) \in Nat
                   /\ Asked(agents[a].up, K, d)
                        = Asked(Tail(agents[a].up), K, d) + One(About(m, K, d))
  BY <1>1, TakingSafe
<1>3. Silent(msgs)
  BY OneList DEF Silent
<1>4. /\ DOMAIN x = {"st", "src", "up", "held"} /\ x.st = "open"
      /\ x.up = Tail(agents[a].up) /\ x.held = agents[a].held
  BY <1>2
<1> HIDE DEF x, msgs, m
<1>5. /\ sock = "closed" => down' = <<>>
      /\ DownShape'
  BY <1>1, <1>2, <1>3, ArrivesSafe DEF Silent
<1>6. /\ Wired' /\ agents'[a] = x
      /\ \A b \in 1..MaxAgents : b # a => agents'[b] = agents[b]
  BY <1>1, <1>2, <1>4, <1>5, OneAgentWired
<1>7. ASSUME NEW d \in Doc, NEW K \in {Subscribing, Fetching} PROVE Fewer(K, d)
  <2>1. Replied(msgs, K, d) = 0 /\ List(msgs)
    BY <1>3, SilentAsks DEF Silent
  <2>2. One(About(m, K, d)) = 0
    BY <1>2 DEF About, One, Subscribing, Fetching
  <2>3. Asked(agents[a].up, K, d) = Asked(agents'[a].up, K, d) + 0 /\ Asked(agents'[a].up, K, d) \in Nat
    <3>1. agents'[a].up = Tail(agents[a].up)
      BY <1>4, <1>6
    <3>2. /\ Asked(Tail(agents[a].up), K, d) \in Nat
          /\ Asked(agents[a].up, K, d) = Asked(Tail(agents[a].up), K, d) + One(About(m, K, d))
      BY <1>2
    <3> QED BY <2>2, <3>1, <3>2
  <2>4. \A b : Worked(jobs', K, b, d) = Worked(jobs, K, b, d) /\ Worked(jobs', K, b, d) \in Nat
    BY <1>1, SameWorked
  <2>5. Worked(jobs', K, a, d) + 0 = Worked(jobs, K, a, d) + 0
    BY <2>4
  <2>6. \A b \in 1..MaxAgents : b # a => agents'[b].up = agents[b].up
    BY <1>6
  <2>7. 0 + 0 = 0 + 0 /\ 0 \in Nat
    OBVIOUS
  <2> QED BY <1>1, <1>2, <2>1, <2>3, <2>4, <2>5, <2>6, <2>7, ServerUnder
<1>8. SameAgents
  <2>1. DOMAIN agents' = DOMAIN agents
    BY <1>1
  <2> QED BY <1>2, <1>4, <1>6, <2>1 DEF SameAgents
<1>9. StreamsOwned' /\ JobsShape'
  BY <1>1, <1>2, <1>8, SameAgentsOwn, SameJobs
<1> QED BY <1>2, <1>5, <1>6, <1>7, <1>9, ServerSafe

LEMMA StartJobSafe ==
    ASSUME IInv, CInv, NEW a \in 1..MaxAgents, StartJob(a)
    PROVE  CInv'
<1> DEFINE m == Head(agents[a].up)
           docs == IF m.a \in {"f", "s"} THEN DOMAIN m.vs ELSE {}
           n == CHOOSE k \in 1..(Cardinality(jobs) + 1) : \A j \in jobs : j.n # k
           job == [n |-> n, a |-> a, m |-> m, stage |-> "read", from |-> NoMilestone,
                   to |-> NoMilestone, ops |-> [d \in docs |-> <<>>], res |-> None,
                   q |-> [d \in IF m.a = "s" THEN docs ELSE {} |-> <<>>]]
           x == [agents[a] EXCEPT !.up = Tail(@)]
           kinds == {"f", "s", "nf", "nt"}
<1>1. /\ Taking(a, kinds) /\ agents' = [agents EXCEPT ![a] = x]
      /\ jobs' = jobs \cup {job} /\ UNCHANGED down
      /\ streams' = [d \in Doc |-> streams[d] + IF d \in DOMAIN job.q THEN 1 ELSE 0]
  BY DEF StartJob
<1>2. /\ m.a \in kinds /\ UpOK(m, request) /\ a <= cur
      /\ DOMAIN agents[a] = {"st", "src", "up", "held"} /\ agents[a].st = "open"
      /\ UNCHANGED <<state, canSend, sock, cur, doc, calls>>
      /\ \A K, d : /\ Asked(Tail(agents[a].up), K, d) \in Nat
                   /\ Asked(agents[a].up, K, d)
                        = Asked(Tail(agents[a].up), K, d) + One(About(m, K, d))
  BY <1>1, TakingSafe
<1>3. /\ DOMAIN x = {"st", "src", "up", "held"} /\ x.st = "open"
      /\ x.up = Tail(agents[a].up) /\ x.held = agents[a].held
  BY <1>2
<1> HIDE DEF n
<1>4. /\ DOMAIN job = {"n", "a", "m", "stage", "from", "to", "ops", "res", "q"}
      /\ job.a = a /\ job.m = m /\ job.stage = "read"
      /\ DOMAIN job.q = IF m.a = "s" THEN DOMAIN m.vs ELSE {}
  OBVIOUS
<1> HIDE DEF x, m, job
<1>5. sock = "closed" => down' = <<>>
  BY <1>1 DEF CInv, Wired
<1>6. /\ Wired' /\ agents'[a] = x
      /\ \A b \in 1..MaxAgents : b # a => agents'[b] = agents[b]
  BY <1>1, <1>2, <1>3, <1>5, OneAgentWired
<1>7. ASSUME NEW d \in Doc, NEW K \in {Subscribing, Fetching}
      PROVE  /\ Fewer(K, d)
             /\ About(m, K, d) => job \notin jobs
  <2> DEFINE t == One(About(m, K, d))
  <2>1. t \in Nat /\ Asked(agents[a].up, K, d) = Asked(agents'[a].up, K, d) + t
        /\ Asked(agents'[a].up, K, d) \in Nat
    <3>1. agents'[a].up = Tail(agents[a].up)
      BY <1>3, <1>6
    <3>2. /\ Asked(Tail(agents[a].up), K, d) \in Nat
          /\ Asked(agents[a].up, K, d) = Asked(Tail(agents[a].up), K, d) + t
      BY <1>2
    <3> QED BY <3>1, <3>2, OneIs
  <2>2. About(m, K, d) => JobsAbout(jobs, K, a, d) = {}
    <3>1. About(m, K, d) => t = 1
      BY DEF One
    <3> HIDE DEF t
    <3>2. About(m, K, d) => Asked(agents[a].up, K, d) # 0
      BY <2>1, <3>1
    <3> QED BY <3>2, JobsAlone
  <2>3. \A b : Doing(job, K, b, d) <=> b = a /\ About(m, K, d)
    BY <1>4 DEF Doing
  <2>4. \A b : /\ Worked(jobs', K, b, d) \in Nat
               /\ Worked(jobs', K, b, d) = Worked(jobs, K, b, d) + One(Doing(job, K, b, d))
    <3> TAKE b
    <3>1. Doing(job, K, b, d) => JobsAbout(jobs, K, b, d) = {}
      BY <2>2, <2>3
    <3>2. jobs' = jobs \cup {job}
      BY <1>1
    <3> QED BY <3>1, <3>2, JobNew
  <2>5. \A b : One(Doing(job, K, b, d)) = IF b = a THEN t ELSE 0
    BY <2>3 DEF One
  <2>6. Worked(jobs', K, a, d) + 0 = Worked(jobs, K, a, d) + t /\ Worked(jobs', K, a, d) \in Nat
    BY <2>4, <2>5
  <2>7. \A b \in 1..MaxAgents : b # a => /\ agents'[b].up = agents[b].up
                                         /\ Worked(jobs', K, b, d) = Worked(jobs, K, b, d)
    <3> TAKE b \in 1..MaxAgents
    <3>1. Worked(jobs, K, b, d) \in Nat
      BY JobsAre
    <3> QED BY <1>6, <2>4, <2>5, <3>1
  <2>8. down' = Arrives(a, <<>>) /\ List(<<>>) /\ Replied(<<>>, K, d) = 0
    <3>1. down \o <<>> = down
      <4>1. down \in Seq(Range(down))
        BY DEF IInv, ArrivesOK, List
      <4> QED BY <4>1, ConcatEmptySeq
    <3> QED BY <1>1, <3>1, EmptyList, AskedEmpty DEF Arrives
  <2> HIDE DEF t
  <2> DEFINE z == 0
  <2>9. z \in Nat /\ t + z = t + z /\ Replied(<<>>, K, d) = z
        /\ Worked(jobs', K, a, d) + z = Worked(jobs, K, a, d) + t
    BY <2>6, <2>8
  <2> HIDE DEF z
  <2>10. Fewer(K, d)
    BY <1>2, <2>1, <2>6, <2>7, <2>8, <2>9, ServerUnder
  <2>11. About(m, K, d) => job \notin jobs
    <3>1. SUFFICES ASSUME About(m, K, d), job \in jobs PROVE FALSE
      OBVIOUS
    <3>2. job \in JobsAbout(jobs, K, a, d)
      BY <2>3, <3>1, AboutIs
    <3> QED BY <2>2, <3>1, <3>2
  <2> QED BY <2>10, <2>11
<1>8. StreamsOwned'
  <2>1. ASSUME NEW d \in Doc
        PROVE  streams'[d] = Cardinality(Holders(agents', d)) + Cardinality(Owned(jobs', d))
    <3> DEFINE h == Cardinality(Holders(agents, d))
               o == Cardinality(Owned(jobs, d))
               h2 == Cardinality(Holders(agents', d))
               o2 == Cardinality(Owned(jobs', d))
               p == One(d \in DOMAIN job.q)
    <3>1. streams[d] = h + o /\ h \in Nat /\ o \in Nat
      BY OwnedNow
    <3>2. h2 = h
      <4>1. DOMAIN agents' = DOMAIN agents /\ DOMAIN agents = 1..MaxAgents
        BY <1>1 DEF IInv, AgentsOK
      <4>2. Holders(agents', d) = Holders(agents, d)
        BY <1>2, <1>3, <1>6, <4>1 DEF Holders
      <4> QED BY <4>2
    <3>3. d \in DOMAIN job.q => job \notin jobs
      BY <1>4, <1>7 DEF About, Subscribing
    <3>4. o2 = o + p
      BY <1>1, <3>3, OwnedNew
    <3>5. streams'[d] = streams[d] + p
      BY <1>1 DEF One
    <3>6. p \in Nat
      BY OneIs
    <3> HIDE DEF h, o, h2, o2, p
    <3>7. streams'[d] = h2 + o2
      BY <3>1, <3>2, <3>4, <3>5, <3>6
    <3> QED BY <3>7 DEF h2, o2
  <2> QED BY <2>1, OwnedIn
<1>9. JobsShape'
  <2>1. IsFiniteSet(jobs')
    BY <1>1, JobsAre, FS_AddElement
  <2>2. a \in 1..cur
    BY <1>2 DEF CInv, Wired
  <2>3. JobShape(job)
    BY <1>2, <1>4, <2>2 DEF JobShape
  <2>4. \A j : JobShape(j)' <=> JobShape(j)
    BY <1>2 DEF JobShape
  <2>5. \A j \in jobs' : JobShape(j)
    BY <1>1, <2>3 DEF CInv, JobsShape
  <2> QED BY <2>1, <2>4, <2>5 DEF JobsShape
<1>10. DownShape'
  BY <1>1 DEF CInv, DownShape
<1> QED BY <1>2, <1>6, <1>7, <1>8, <1>9, <1>10, ServerSafe

-----------------------------------------------------------------------------
(* An agent unsubscribes, sends the ops of a stream, or closes.            *)
(* The ops that an agent sends before its reply.                           *)
LEMMA RepliesCount ==
    ASSUME NEW D, D \subseteq Doc, NEW f, \A d \in D : f[d] \in Seq(Nat), NEW reply
    PROVE  LET ms == FlattenSeq(SetToSeq({OpMessages(d, f[d]) : d \in D})) \o <<reply>>
           IN  /\ List(ms)
               /\ \A K \in {Subscribing, Fetching} : \A d : Replied(ms, K, d) = One(Replying(reply, K, d))
               /\ (reply.a \in {"f", "s", "u"} => Reply(reply))
                    => \A m \in Range(ms) : m.a \in {"f", "s", "u"} => Reply(m)
<1> DEFINE ops == FlattenSeq(SetToSeq({OpMessages(d, f[d]) : d \in D}))
<1>1. List(ops) /\ \A m \in Range(ops) : m.a = "op"
  <2>1. List(ops) /\ \A m \in Range(ops) : DownOK(m, None, log) /\ m.a = "op"
    BY AllOpsOK
  <2> QED BY <2>1
<1> HIDE DEF ops
<1>2. Silent(ops)
  BY <1>1 DEF Silent
<1>3. List(ops \o <<reply>>) /\ Range(ops \o <<reply>>) = Range(ops) \cup {reply}
  BY <1>1, ConcatList, OneList
<1>4. ASSUME NEW K \in {Subscribing, Fetching}, NEW d
      PROVE  Replied(ops \o <<reply>>, K, d) = One(Replying(reply, K, d))
  <2>1. Replied(ops, K, d) = 0
    BY <1>2, SilentAsks
  <2>2. Replied(ops \o <<reply>>, K, d) = Replied(ops, K, d) + Replied(<<reply>>, K, d)
    BY <1>1, AskedConcat, OneList
  <2>3. Replied(<<reply>>, K, d) = One(Replying(reply, K, d)) /\ One(Replying(reply, K, d)) \in Nat
    BY AskedOne, OneIs
  <2> QED BY <2>1, <2>2, <2>3
<1>5. \A m \in Range(ops \o <<reply>>) : m.a = "op" \/ m = reply
  BY <1>1, <1>3
<1> QED BY <1>3, <1>4, <1>5 DEF ops

LEMMA UnsubscribeSafe ==
    ASSUME IInv, CInv, NEW a \in 1..MaxAgents, Unsubscribe(a)
    PROVE  CInv'
<1> DEFINE m == Head(agents[a].up)
           docs == DOMAIN m.vs
           held == agents[a].held
           x == [agents[a] EXCEPT !.up = Tail(@), !.held =
                    [d \in Doc |-> IF d \in docs THEN None ELSE held[d]]]
           reply == [a |-> "u", res |-> [d \in docs |-> Plain]]
           left(ns) == [d \in docs |-> IF held[d] = None THEN <<>>
                                       ELSE SubSeq(held[d], 1, ns[d])]
           sent(ns) == FlattenSeq(SetToSeq({OpMessages(d,
                           IF held[d] = None THEN <<>>
                           ELSE SubSeq(held[d], 1, ns[d])) : d \in docs}))
<1>1. /\ Taking(a, {"u"}) /\ UNCHANGED jobs
      /\ agents' = [agents EXCEPT ![a] = x]
      /\ streams' = [d \in Doc |-> IF d \in docs /\ held[d] # None
                                   THEN streams[d] - 1 ELSE streams[d]]
  BY DEF Unsubscribe
<1>2. PICK ns \in [docs -> 0..sc.commits] :
         /\ \A d \in docs : ns[d] <= IF held[d] = None THEN 0 ELSE Len(held[d])
         /\ down' = Arrives(a, sent(ns) \o <<reply>>)
  BY DEF Unsubscribe
<1>3. /\ m.a = "u" /\ UpOK(m, request) /\ a <= cur
      /\ DOMAIN agents[a] = {"st", "src", "up", "held"} /\ agents[a].st = "open"
      /\ held \in [Doc -> Seq(Nat) \cup {None}]
      /\ UNCHANGED <<state, canSend, sock, cur, doc, calls>>
      /\ \A K, d : /\ Asked(Tail(agents[a].up), K, d) \in Nat
                   /\ Asked(agents[a].up, K, d)
                        = Asked(Tail(agents[a].up), K, d) + One(About(m, K, d))
  <2> HIDE DEF x, reply, left, sent
  <2>1. m.a \in {"u"} /\ agents[a].held \in [Doc -> Seq(Nat) \cup {None}]
    BY <1>1, TakingSafe
  <2> QED BY <1>1, <2>1, TakingSafe
<1>4. docs \subseteq Doc
  BY <1>3 DEF UpOK, Asks
<1>5. ASSUME NEW d \in docs PROVE left(ns)[d] \in Seq(Nat)
  <2>1. held[d] \in Seq(Nat) \cup {None}
    BY <1>3, <1>4
  <2>2. CASE held[d] = None
    BY <2>2, EmptySeq
  <2>3. CASE held[d] # None
    <3>1. held[d] \in Seq(Nat) /\ ns[d] \in Int /\ ns[d] <= Len(held[d])
      <4>1. sc.commits \in Nat
        BY ScenariosAssumption DEF IInv
      <4>2. ns[d] \in 0..sc.commits
        OBVIOUS
      <4> QED BY <1>2, <2>1, <2>3, <4>1, <4>2
    <3>2. Len(held[d]) \in Nat /\ \A i \in 1..Len(held[d]) : held[d][i] \in Nat
      BY <3>1, LenProperties, ElementOfSeq
    <3>3. \A i \in 1..ns[d] : held[d][i] \in Nat
      BY <3>1, <3>2
    <3> DEFINE h == held[d]
               k == ns[d]
    <3>4. SubSeq(h, 1, k) \in Seq(Nat)
      <4>1. k \in Int /\ 1 \in Int /\ \A i \in 1..k : h[i] \in Nat
        BY <3>1, <3>3
      <4> HIDE DEF h, k
      <4> QED BY <4>1, SubSeqProperties
    <3> QED BY <2>3, <3>4
  <2> QED BY <2>2, <2>3
<1> DEFINE f == left(ns)
           ms == FlattenSeq(SetToSeq({OpMessages(d, f[d]) : d \in docs})) \o <<reply>>
<1>6. down' = Arrives(a, ms)
  <2>1. \A d \in docs : f[d] = IF held[d] = None THEN <<>> ELSE SubSeq(held[d], 1, ns[d])
    OBVIOUS
  <2> HIDE DEF f, docs, held, reply
  <2>2. {OpMessages(d, IF held[d] = None THEN <<>>
                       ELSE SubSeq(held[d], 1, ns[d])) : d \in docs}
        = {OpMessages(d, f[d]) : d \in docs}
    BY <2>1
  <2> QED BY <1>2, <2>2
<1>7. /\ DOMAIN x = {"st", "src", "up", "held"} /\ x.st = "open"
      /\ x.up = Tail(agents[a].up)
      /\ \A d \in Doc : x.held[d] = IF d \in docs THEN None ELSE held[d]
  BY <1>3
<1>8. reply.a = "u" /\ Reply(reply) /\ DOMAIN reply.res = docs
  BY <1>4 DEF Reply, Plain, Hows
<1>9. \A d \in docs : f[d] \in Seq(Nat)
  BY <1>5
<1> HIDE DEF x, f, docs, reply, sent, left
<1>10. /\ List(ms)
       /\ \A K \in {Subscribing, Fetching} : \A d : Replied(ms, K, d) = One(Replying(reply, K, d))
       /\ \A e \in Range(ms) : e.a \in {"f", "s", "u"} => Reply(e)
  <2>1. /\ List(ms)
        /\ \A K \in {Subscribing, Fetching} : \A d : Replied(ms, K, d) = One(Replying(reply, K, d))
        /\ (reply.a \in {"f", "s", "u"} => Reply(reply))
             => \A e \in Range(ms) : e.a \in {"f", "s", "u"} => Reply(e)
    BY <1>4, <1>9, RepliesCount
  <2> HIDE DEF ms
  <2> QED BY <1>8, <2>1
<1> HIDE DEF ms, m
<1>11. /\ sock = "closed" => down' = <<>>
       /\ DownShape'
  BY <1>3, <1>6, <1>10, ArrivesSafe
<1>12. /\ Wired' /\ agents'[a] = x
       /\ \A b \in 1..MaxAgents : b # a => agents'[b] = agents[b]
  BY <1>1, <1>3, <1>7, <1>11, OneAgentWired
<1>13. ASSUME NEW d \in Doc, NEW K \in {Subscribing, Fetching} PROVE Fewer(K, d)
  <2> DEFINE t == One(About(m, K, d))
             z == 0
  <2>1. t \in Nat /\ Asked(agents[a].up, K, d) = Asked(agents'[a].up, K, d) + t
        /\ Asked(agents'[a].up, K, d) \in Nat
    <3>1. agents'[a].up = Tail(agents[a].up)
      BY <1>7, <1>12
    <3>2. /\ Asked(Tail(agents[a].up), K, d) \in Nat
          /\ Asked(agents[a].up, K, d) = Asked(Tail(agents[a].up), K, d) + t
      BY <1>3
    <3> QED BY <3>1, <3>2, OneIs
  <2>2. Replying(reply, K, d) <=> About(m, K, d)
    BY <1>3, <1>8 DEF Replying, About, docs
  <2>3. Replied(ms, K, d) = t
    <3>1. Replied(ms, K, d) = One(Replying(reply, K, d))
      BY <1>10
    <3> QED BY <2>2, <3>1 DEF One
  <2>4. \A b : Worked(jobs', K, b, d) = Worked(jobs, K, b, d) /\ Worked(jobs', K, b, d) \in Nat
    BY <1>1, SameWorked
  <2>5. z \in Nat /\ t + z = z + t /\ Worked(jobs', K, a, d) + z = Worked(jobs, K, a, d) + z
    BY <2>1, <2>4
  <2>6. \A b \in 1..MaxAgents : b # a => agents'[b].up = agents[b].up
    BY <1>12
  <2> HIDE DEF t, z
  <2> QED BY <1>3, <1>6, <1>10, <2>1, <2>3, <2>4, <2>5, <2>6, ServerUnder
<1>14. StreamsOwned'
  <2>1. ASSUME NEW d \in Doc
        PROVE  streams'[d] = Cardinality(Holders(agents', d)) + Cardinality(Owned(jobs', d))
    <3> DEFINE h == Cardinality(Holders(agents, d))
               o == Cardinality(Owned(jobs, d))
               h2 == Cardinality(Holders(agents', d))
               P == agents[a].st = "open" /\ agents[a].held[d] # None
               Q == x.st = "open" /\ x.held[d] # None
    <3>1. streams[d] = h + o /\ h \in Nat /\ o \in Nat
      BY OwnedNow
    <3>2. h2 \in Nat /\ h2 + One(P) = h + One(Q)
      BY <1>1, HoldersChange
    <3>3. Owned(jobs', d) = Owned(jobs, d)
      BY <1>1, SameWorked
    <3>4. streams'[d] = IF d \in docs /\ held[d] # None THEN streams[d] - 1 ELSE streams[d]
      BY <1>1
    <3>5. CASE d \in docs /\ held[d] # None
      <4>1. One(P) = 1 /\ One(Q) = 0
        BY <1>3, <1>7, <3>5 DEF One
      <4> HIDE DEF h, o, h2, P, Q
      <4>2. streams'[d] = h2 + o
        BY <3>1, <3>2, <3>4, <3>5, <4>1
      <4> QED BY <3>3, <4>2 DEF h2, o
    <3>6. CASE ~(d \in docs /\ held[d] # None)
      <4>1. One(P) = One(Q) /\ One(P) \in Nat
        <5>1. P <=> Q
          BY <1>3, <1>7, <3>6
        <5> QED BY <5>1, OneIs DEF One
      <4> HIDE DEF h, o, h2, P, Q
      <4>2. streams'[d] = h2 + o
        BY <3>1, <3>2, <3>4, <3>6, <4>1
      <4> QED BY <3>3, <4>2 DEF h2, o
    <3> QED BY <3>5, <3>6
  <2> QED BY <2>1, OwnedIn
<1>15. JobsShape'
  BY <1>1, <1>3, SameJobs
<1> QED BY <1>3, <1>11, <1>12, <1>13, <1>14, <1>15, ServerSafe

LEMMA DeliverSafe ==
    ASSUME IInv, CInv, NEW a \in 1..MaxAgents, NEW d \in Doc, Deliver(a, d)
    PROVE  CInv'
<1> DEFINE q == agents[a].held[d]
           x == [agents[a] EXCEPT !.held[d] = Tail(@)]
           ms == OpMessages(d, <<Head(q)>>)
<1>1. /\ agents[a].st = "open" /\ q # None /\ q # <<>>
      /\ agents' = [agents EXCEPT ![a] = x] /\ down' = Arrives(a, ms)
      /\ UNCHANGED <<state, canSend, sock, cur, doc, calls, jobs, streams>>
  BY DEF Deliver, client
<1>2. AgentOK(agents[a], request) /\ DOMAIN agents[a] = {"st", "src", "up", "held"}
  BY DEF IInv, AgentsOK, CInv, Wired
<1>3. a <= cur
  <2>1. MaxAgents \in Nat /\ cur \in 1..MaxAgents /\ ~(a > cur)
    BY <1>1, MaxAgentsIs DEF IInv, CInv, Wired
  <2> QED BY <2>1
<1>4. q \in Seq(Nat)
  BY <1>1, <1>2 DEF AgentOK
<1>5. Head(q) \in Nat /\ Tail(q) \in Seq(Nat) /\ Tail(q) # None
  <2> HIDE DEF q
  <2>1. Head(q) \in Nat /\ Tail(q) \in Seq(Nat)
    BY <1>1, <1>4, HeadTailProperties
  <2> QED BY <2>1, NoneAssumption
<1>6. /\ DOMAIN x = {"st", "src", "up", "held"} /\ x.st = "open" /\ x.up = agents[a].up
      /\ \A e \in Doc : x.held[e] = IF e = d THEN Tail(q) ELSE agents[a].held[e]
  BY <1>1, <1>2 DEF AgentOK
<1>7. Silent(ms)
  <2>1. <<Head(q)>> \in Seq(Nat)
    <3> HIDE DEF q
    <3> QED BY <1>5
  <2>2. List(ms) /\ \A m \in Range(ms) : DownOK(m, None, log) /\ m.a = "op"
    BY <2>1, OpMessagesOK
  <2> HIDE DEF ms
  <2> QED BY <2>2 DEF Silent
<1> HIDE DEF x, ms
<1>8. /\ sock = "closed" => down' = <<>>
      /\ DownShape'
  BY <1>1, <1>7, ArrivesSafe DEF Silent
<1>9. /\ Wired' /\ agents'[a] = x
      /\ \A b \in 1..MaxAgents : b # a => agents'[b] = agents[b]
  BY <1>1, <1>3, <1>6, <1>8, OneAgentWired
<1>10. ASSUME NEW e \in Doc, NEW K \in {Subscribing, Fetching} PROVE Fewer(K, e)
  <2> DEFINE z == 0
  <2>1. Replied(ms, K, e) = z /\ List(ms)
    BY <1>7, SilentAsks DEF Silent
  <2>2. Asked(agents[a].up, K, e) \in Nat /\ agents'[a].up = agents[a].up
    BY <1>6, <1>9, UnderIs
  <2>3. \A b : Worked(jobs', K, b, e) = Worked(jobs, K, b, e) /\ Worked(jobs', K, b, e) \in Nat
    BY <1>1, SameWorked
  <2>4. /\ z \in Nat /\ z + z = z + z /\ Worked(jobs', K, a, e) + z = Worked(jobs, K, a, e) + z
        /\ Asked(agents[a].up, K, e) = Asked(agents'[a].up, K, e) + z
        /\ Asked(agents'[a].up, K, e) \in Nat
    BY <2>2, <2>3
  <2>5. \A b \in 1..MaxAgents : b # a => agents'[b].up = agents[b].up
    BY <1>9
  <2> HIDE DEF z
  <2> QED BY <1>1, <2>1, <2>3, <2>4, <2>5, ServerUnder
<1>11. StreamsOwned'
  <2>1. ASSUME NEW e \in Doc
        PROVE  streams'[e] = Cardinality(Holders(agents', e)) + Cardinality(Owned(jobs', e))
    <3>1. Holders(agents', e) = Holders(agents, e)
      <4>1. DOMAIN agents' = DOMAIN agents /\ DOMAIN agents = 1..MaxAgents
        BY <1>1 DEF IInv, AgentsOK
      <4>2. x.st = agents[a].st /\ (x.held[e] # None <=> agents[a].held[e] # None)
        BY <1>1, <1>5, <1>6
      <4> QED BY <1>9, <4>1, <4>2 DEF Holders
    <3>2. Owned(jobs', e) = Owned(jobs, e)
      BY <1>1, SameWorked
    <3> QED BY <1>1, <3>1, <3>2, OwnedNow
  <2> QED BY <2>1, OwnedIn
<1>12. JobsShape'
  BY <1>1, SameJobs
<1> QED BY <1>1, <1>8, <1>9, <1>10, <1>11, <1>12, ServerSafe

LEMMA CleanupSafe ==
    ASSUME IInv, CInv, NEW a \in 1..MaxAgents, Cleanup(a)
    PROVE  CInv'
<1> DEFINE held == agents[a].held
           x == [agents[a] EXCEPT !.st = "closed", !.up = <<>>,
                                  !.held = [d \in Doc |-> None]]
<1>1. /\ agents[a].st = "open" /\ (a # cur \/ sock = "closed")
      /\ agents' = [agents EXCEPT ![a] = x]
      /\ streams' = [d \in Doc |-> IF held[d] = None THEN streams[d] ELSE streams[d] - 1]
      /\ UNCHANGED <<state, canSend, sock, cur, doc, calls, jobs, down>>
  BY DEF Cleanup, client
<1>2. DOMAIN agents[a] = {"st", "src", "up", "held"}
  BY DEF CInv, Wired
<1>3. a <= cur
  <2>1. MaxAgents \in Nat /\ cur \in 1..MaxAgents /\ ~(a > cur)
    BY <1>1, MaxAgentsIs DEF IInv, CInv, Wired
  <2> QED BY <2>1
<1>4. /\ DOMAIN x = {"st", "src", "up", "held"} /\ x.st = "closed" /\ x.up = <<>>
      /\ \A d \in Doc : x.held[d] = None
  BY <1>2
<1> HIDE DEF x
<1>5. sock = "closed" => down' = <<>>
  BY <1>1 DEF CInv, Wired
<1>6. /\ Wired' /\ agents'[a] = x
      /\ \A b \in 1..MaxAgents : b # a => agents'[b] = agents[b]
  BY <1>1, <1>3, <1>4, <1>5, OneAgentWired
<1>7. ASSUME NEW d \in Doc, NEW K \in {Subscribing, Fetching} PROVE Fewer(K, d)
  <2> SUFFICES ASSUME NEW b \in 1..MaxAgents
               PROVE  /\ Under(K, b, d)' \in Nat /\ Under(K, b, d)' <= Under(K, b, d)
                      /\ b = cur /\ sock = "open" => Under(K, b, d)' = Under(K, b, d)
    BY DEF Fewer
  <2> DEFINE A == Asked(agents[b].up, K, d)
             A2 == Asked(agents'[b].up, K, d)
             W == Worked(jobs, K, b, d)
             R == IF b = cur THEN Replied(down, K, d) ELSE 0
             U == Under(K, b, d)
             V == Under(K, b, d)'
  <2>1. A \in Nat /\ W \in Nat /\ R \in Nat /\ U = A + W + R
    BY UnderIs DEF Returning
  <2>2. V = A2 + W + R
    BY <1>1 DEF Under
  <2>3. b = a => A2 = 0
    BY <1>4, <1>6, AskedEmpty
  <2>4. b # a => A2 = A
    BY <1>6
  <2> HIDE DEF A, A2, W, R, U, V
  <2>5. V \in Nat /\ V <= U /\ (b # a => V = U)
    BY <2>1, <2>2, <2>3, <2>4
  <2>6. b = cur /\ sock = "open" => b # a
    BY <1>1
  <2> QED BY <2>5, <2>6 DEF U, V
<1>8. StreamsOwned'
  <2>1. ASSUME NEW d \in Doc
        PROVE  streams'[d] = Cardinality(Holders(agents', d)) + Cardinality(Owned(jobs', d))
    <3> DEFINE h == Cardinality(Holders(agents, d))
               o == Cardinality(Owned(jobs, d))
               h2 == Cardinality(Holders(agents', d))
               P == agents[a].st = "open" /\ agents[a].held[d] # None
               Q == x.st = "open" /\ x.held[d] # None
    <3>1. streams[d] = h + o /\ h \in Nat /\ o \in Nat
      BY OwnedNow
    <3>2. h2 \in Nat /\ h2 + One(P) = h + One(Q)
      BY <1>1, HoldersChange
    <3>3. Owned(jobs', d) = Owned(jobs, d)
      BY <1>1, SameWorked
    <3>4. streams'[d] = IF held[d] = None THEN streams[d] ELSE streams[d] - 1
      BY <1>1
    <3>5. One(P) = (IF held[d] = None THEN 0 ELSE 1) /\ One(Q) = 0
      BY <1>1, <1>4 DEF One
    <3> HIDE DEF h, o, h2, P, Q
    <3>6. streams'[d] = h2 + o
      BY <3>1, <3>2, <3>4, <3>5
    <3> QED BY <3>3, <3>6 DEF h2, o
  <2> QED BY <2>1, OwnedIn
<1>9. JobsShape' /\ DownShape'
  BY <1>1, SameJobs DEF CInv, DownShape
<1> QED BY <1>1, <1>6, <1>7, <1>8, <1>9, ServerSafe

-----------------------------------------------------------------------------
(* A job goes on, and is answered.                                         *)
LEMMA FurtherSafe ==
    ASSUME IInv, CInv, NEW j \in jobs, NEW k, jobs' = (jobs \ {j}) \cup {k}, JobShape(k),
           k.a = j.a, k.m = j.m, DOMAIN k.q \subseteq DOMAIN j.q,
           UNCHANGED <<state, canSend, sock, cur, doc, calls, agents, down>>,
           \A d \in Doc : streams'[d] = IF d \in DOMAIN j.q /\ d \notin DOMAIN k.q
                                        THEN streams[d] - 1 ELSE streams[d]
    PROVE  CInv'
<1>1. Wired' /\ DownShape'
  BY DEF CInv, Wired, DownShape, Reply
<1>2. ASSUME NEW d \in Doc, NEW K \in {Subscribing, Fetching} PROVE Fewer(K, d)
  <2> SUFFICES ASSUME NEW b \in 1..MaxAgents
               PROVE  /\ Under(K, b, d)' \in Nat /\ Under(K, b, d)' <= Under(K, b, d)
                      /\ b = cur /\ sock = "open" => Under(K, b, d)' = Under(K, b, d)
    BY DEF Fewer
  <2>1. Worked(jobs', K, b, d) = Worked(jobs, K, b, d)
    BY JobFurther
  <2>2. Under(K, b, d)' = Under(K, b, d)
    BY <2>1 DEF Under
  <2>3. Under(K, b, d) \in Nat
    BY UnderIs
  <2> QED BY <2>2, <2>3
<1>3. StreamsOwned'
  <2>1. ASSUME NEW d \in Doc
        PROVE  streams'[d] = Cardinality(Holders(agents', d)) + Cardinality(Owned(jobs', d))
    <3> DEFINE h == Cardinality(Holders(agents, d))
               o == Cardinality(Owned(jobs, d))
               o2 == Cardinality(Owned(jobs', d))
               P == d \in DOMAIN j.q /\ d \notin DOMAIN k.q
    <3>1. streams[d] = h + o /\ h \in Nat /\ o \in Nat
      BY OwnedNow
    <3>2. o2 \in Nat /\ o2 + One(P) = o
      BY JobFurther
    <3>3. streams'[d] = IF P THEN streams[d] - 1 ELSE streams[d]
      OBVIOUS
    <3>4. Holders(agents', d) = Holders(agents, d)
      OBVIOUS
    <3>5. One(P) = IF P THEN 1 ELSE 0
      BY DEF One
    <3> HIDE DEF h, o, o2, P
    <3>6. CASE P
      BY <3>1, <3>2, <3>3, <3>4, <3>5, <3>6 DEF h, o2
    <3>7. CASE ~P
      BY <3>1, <3>2, <3>3, <3>4, <3>5, <3>7 DEF h, o2
    <3> QED BY <3>6, <3>7
  <2> QED BY <2>1, OwnedIn
<1>4. JobsShape'
  <2>1. IsFiniteSet(jobs')
    <3>1. IsFiniteSet(jobs \ {j})
      BY JobsAre, FS_RemoveElement
    <3> QED BY <3>1, FS_AddElement
  <2>2. \A i : JobShape(i)' <=> JobShape(i)
    BY DEF JobShape
  <2>3. \A i \in jobs' : JobShape(i)
    BY DEF CInv, JobsShape
  <2> QED BY <2>1, <2>2, <2>3 DEF JobsShape
<1> QED BY <1>1, <1>2, <1>3, <1>4, ServerSafe

LEMMA ReadDocsSafe ==
    ASSUME IInv, CInv, NEW j \in jobs, ReadDocs(j)
    PROVE  CInv'
<1> DEFINE docs == DOMAIN j.m.vs
           known(d) == j.m.vs[d] # None
           hows == IF sc.refuse THEN {"ok", "refused", "silent"} ELSE {"ok"}
           ops == [d \in docs |-> IF known(d)
                                  THEN GetOps(log[d], j.m.vs[d], NoMilestone) ELSE <<>>]
           res(how) == [d \in docs |-> [how |-> how[d], v |->
                            IF known(d) \/ how[d] # "ok" THEN None ELSE Len(log[d])]]
           q(how) == [d \in {e \in DOMAIN j.q : how[e] = "ok"} |-> j.q[d]]
           k(how) == [j EXCEPT !.stage = "reply", !.ops = ops, !.res = res(how),
                               !.q = q(how)]
<1>1. /\ j.m.a \in {"f", "s"}
      /\ UNCHANGED <<state, canSend, sock, cur, doc, calls, agents, down>>
  BY DEF ReadDocs, client
<1>2. PICK how \in [docs -> hows] :
         /\ jobs' = (jobs \ {j}) \cup {k(how)}
         /\ streams' = [d \in Doc |-> IF d \in DOMAIN j.q /\ how[d] # "ok"
                                      THEN streams[d] - 1 ELSE streams[d]]
  BY DEF ReadDocs
<1>3. JobShape(j)
  BY JobsAre
<1>4. DOMAIN res(how) = docs /\ \A d \in docs : res(how)[d].how \in Hows
  BY DEF Hows
<1>5. DOMAIN q(how) = {e \in DOMAIN j.q : how[e] = "ok"}
  OBVIOUS
<1> HIDE DEF ops, res, q
<1>6. /\ k(how).a = j.a /\ k(how).m = j.m /\ k(how).stage = "reply"
      /\ k(how).res = res(how) /\ k(how).q = q(how) /\ DOMAIN k(how) = DOMAIN j
  BY <1>3 DEF JobShape
<1> DEFINE kk == k(how)
<1> HIDE DEF k
<1>7. JobShape(kk)
  BY <1>3, <1>4, <1>5, <1>6 DEF JobShape
<1>8. \A d \in Doc : streams'[d] = IF d \in DOMAIN j.q /\ d \notin DOMAIN kk.q
                                   THEN streams[d] - 1 ELSE streams[d]
  BY <1>2, <1>5, <1>6
<1>9. DOMAIN kk.q \subseteq DOMAIN j.q /\ kk.a = j.a /\ kk.m = j.m
      /\ jobs' = (jobs \ {j}) \cup {kk}
  BY <1>2, <1>5, <1>6
<1> HIDE DEF kk
<1> QED BY <1>1, <1>7, <1>8, <1>9, FurtherSafe

LEMMA ContinueSafe ==
    ASSUME IInv, CInv, NEW j \in jobs, NEW k, Continue(j, k), DOMAIN k = DOMAIN j,
           k.a = j.a, k.m = j.m, k.q = j.q, j.m.a \in {"nf", "nt"}
    PROVE  CInv'
<1>1. /\ jobs' = (jobs \ {j}) \cup {k}
      /\ UNCHANGED <<state, canSend, sock, cur, doc, calls, agents, down, streams>>
  BY DEF Continue, client
<1>2. JobShape(j)
  BY JobsAre
<1>3. JobShape(k)
  BY <1>2 DEF JobShape
<1>4. \A d \in Doc : streams'[d] = IF d \in DOMAIN j.q /\ d \notin DOMAIN k.q
                                   THEN streams[d] - 1 ELSE streams[d]
  BY <1>1
<1> QED BY <1>1, <1>3, <1>4, FurtherSafe

LEMMA ReadMilestoneSafe ==
    ASSUME IInv, CInv, NEW j \in jobs, ReadMilestone(j)
    PROVE  CInv'
<1>1. JobShape(j) /\ j.m.a \in {"nf", "nt"}
  BY JobsAre DEF ReadMilestone
<1>2. PICK k : /\ Continue(j, k)
               /\ \/ \E from, stage : k = [j EXCEPT !.from = from, !.stage = stage]
                  \/ \E to : k = [j EXCEPT !.to = to, !.stage = "ops"]
  BY DEF ReadMilestone
<1>3. DOMAIN k = DOMAIN j /\ k.a = j.a /\ k.m = j.m /\ k.q = j.q
  BY <1>1, <1>2 DEF JobShape
<1> QED BY <1>1, <1>2, <1>3, ContinueSafe

LEMMA ReadSnapshotSafe ==
    ASSUME IInv, CInv, NEW j \in jobs, ReadSnapshot(j)
    PROVE  CInv'
<1>1. JobShape(j) /\ j.m.a \in {"nf", "nt"}
  BY JobsAre DEF ReadSnapshot
<1>2. PICK k : Continue(j, k) /\ \E res : k = [j EXCEPT !.res = res, !.stage = "reply"]
  BY DEF ReadSnapshot
<1>3. DOMAIN k = DOMAIN j /\ k.a = j.a /\ k.m = j.m /\ k.q = j.q
  BY <1>1, <1>2 DEF JobShape
<1> QED BY <1>1, <1>2, <1>3, ContinueSafe

(* An agent answers what a job asked.                                       *)
LEMMA AnsweredUnder ==
    ASSUME IInv, CInv, UNCHANGED <<sock, cur>>, NEW a \in 1..MaxAgents, NEW K, NEW d,
           NEW msgs, List(msgs), down' = Arrives(a, msgs), NEW n \in Nat,
           Worked(jobs', K, a, d) \in Nat,
           Worked(jobs', K, a, d) + n = Worked(jobs, K, a, d),
           Replied(msgs, K, d) = n,
           \A b \in 1..MaxAgents : agents'[b].up = agents[b].up,
           \A b \in 1..MaxAgents : b # a =>
                Worked(jobs', K, b, d) = Worked(jobs, K, b, d)
    PROVE  Fewer(K, d)
<1> DEFINE z == 0
           A == Asked(agents[a].up, K, d)
           A2 == Asked(agents'[a].up, K, d)
           W == Worked(jobs, K, a, d)
           W2 == Worked(jobs', K, a, d)
<1>1. A \in Nat /\ A2 = A /\ W \in Nat /\ W2 \in Nat /\ W2 + n = W
  BY UnderIs
<1>2. z \in Nat /\ z = 0
  OBVIOUS
<1> HIDE DEF z, A, A2, W, W2
<1>3. A2 \in Nat /\ A = A2 + z /\ W2 + n = W + z /\ z + n = z + n
  BY <1>1, <1>2
<1>4. \A b \in 1..MaxAgents : b # a => /\ agents'[b].up = agents[b].up
                                        /\ Worked(jobs', K, b, d) = Worked(jobs, K, b, d)
  OBVIOUS
<1> QED BY <1>2, <1>3, <1>4, ServerUnder DEF A, A2, W, W2

LEMMA FinishSafe ==
    ASSUME IInv, CInv, NEW j \in jobs, Finish(j)
    PROVE  CInv'
<1> DEFINE a == j.a
           docs == DOMAIN j.q
           x == [agents[a] EXCEPT !.held =
                    [d \in Doc |-> IF d \in docs THEN j.q[d] ELSE @[d]]]
           reply == [a |-> j.m.a, res |-> j.res]
           f == j.ops
           ms == FlattenSeq(SetToSeq({OpMessages(d, f[d]) : d \in DOMAIN f})) \o <<reply>>
<1>1. /\ j.stage = "reply" /\ jobs' = jobs \ {j}
      /\ UNCHANGED <<state, canSend, sock, cur, doc, calls>>
  BY DEF Finish, client
<1>2. /\ JobShape(j) /\ JobOK(j, request, log) /\ a \in 1..cur /\ a \in 1..MaxAgents
      /\ docs \subseteq Doc
  BY JobsAre
<1>3. JobsShape'
  <2>1. IsFiniteSet(jobs')
    BY <1>1, JobsAre, FS_RemoveElement
  <2>2. \A i : JobShape(i)' <=> JobShape(i)
    BY <1>1 DEF JobShape
  <2>3. \A i \in jobs' : JobShape(i)
    BY <1>1 DEF CInv, JobsShape
  <2> QED BY <2>1, <2>2, <2>3 DEF JobsShape
<1>4. /\ DOMAIN agents[a] = {"st", "src", "up", "held"}
      /\ agents[a].st \in {"open", "closed"} /\ a <= cur
      /\ agents[a].st # "open" => \A d \in Doc : agents[a].held[d] = None
      /\ a = cur /\ sock # "closed" => agents[a].st = "open"
  <2>1. MaxAgents \in Nat /\ cur \in 1..MaxAgents
    BY MaxAgentsIs DEF IInv, CInv, Wired
  <2>2. a <= cur /\ ~(a > cur)
    BY <1>2, <2>1
  <2> QED BY <1>2, <2>2 DEF CInv, Wired
<1>5. AgentOK(agents[a], request)
  BY <1>2 DEF IInv, AgentsOK
<1>6. /\ \A K, b, d : /\ Worked(jobs', K, b, d) \in Nat
                      /\ Worked(jobs', K, b, d) + One(Doing(j, K, b, d)) = Worked(jobs, K, b, d)
      /\ \A d : /\ Cardinality(Owned(jobs', d)) \in Nat
                /\ Cardinality(Owned(jobs', d)) + One(d \in DOMAIN j.q)
                     = Cardinality(Owned(jobs, d))
  BY <1>1, JobGone
<1>7. CASE agents[a].st = "closed"
  <2>1. /\ UNCHANGED <<agents, down>>
        /\ streams' = [d \in Doc |-> IF d \in docs THEN streams[d] - 1 ELSE streams[d]]
    BY <1>7 DEF Finish
  <2>2. Wired' /\ DownShape'
    BY <1>1, <2>1 DEF CInv, Wired, DownShape, Reply
  <2>3. ASSUME NEW d \in Doc, NEW K \in {Subscribing, Fetching} PROVE Fewer(K, d)
    <3> SUFFICES ASSUME NEW b \in 1..MaxAgents
                 PROVE  /\ Under(K, b, d)' \in Nat /\ Under(K, b, d)' <= Under(K, b, d)
                        /\ b = cur /\ sock = "open" => Under(K, b, d)' = Under(K, b, d)
      BY DEF Fewer
    <3> DEFINE A == Asked(agents[b].up, K, d)
               W == Worked(jobs, K, b, d)
               W2 == Worked(jobs', K, b, d)
               t == One(Doing(j, K, b, d))
               R == IF b = cur THEN Replied(down, K, d) ELSE 0
               U == Under(K, b, d)
               V == Under(K, b, d)'
    <3>1. A \in Nat /\ W \in Nat /\ R \in Nat /\ U = A + W + R
      BY UnderIs DEF Returning
    <3>2. V = A + W2 + R
      BY <1>1, <2>1 DEF Under
    <3>3. W2 \in Nat /\ W2 + t = W /\ t \in Nat
      BY <1>6, OneIs
    <3>4. b = cur /\ sock = "open" => t = 0
      BY <1>4, <1>7 DEF Doing, One
    <3> HIDE DEF A, W, W2, t, R, U, V
    <3>5. V \in Nat /\ V <= U /\ (t = 0 => V = U)
      BY <3>1, <3>2, <3>3
    <3> QED BY <3>4, <3>5 DEF U, V
  <2>4. StreamsOwned'
    <3>1. ASSUME NEW d \in Doc
          PROVE  streams'[d] = Cardinality(Holders(agents', d)) + Cardinality(Owned(jobs', d))
      <4> DEFINE h == Cardinality(Holders(agents, d))
                 o == Cardinality(Owned(jobs, d))
                 o2 == Cardinality(Owned(jobs', d))
                 p == One(d \in DOMAIN j.q)
      <4>1. streams[d] = h + o /\ h \in Nat /\ o \in Nat
        BY OwnedNow
      <4>2. o2 \in Nat /\ o2 + p = o
        BY <1>6
      <4>3. Holders(agents', d) = Holders(agents, d)
        BY <2>1
      <4>4. streams'[d] = streams[d] - p /\ p \in Nat
        <5>1. streams'[d] = IF d \in docs THEN streams[d] - 1 ELSE streams[d]
          BY <2>1
        <5>2. streams[d] \in Nat
          BY <4>1
        <5>3. p = IF d \in docs THEN 1 ELSE 0
          BY DEF One
        <5> HIDE DEF p, docs
        <5> QED BY <5>1, <5>2, <5>3
      <4> HIDE DEF h, o, o2, p
      <4>5. streams'[d] = h + o2
        BY <4>1, <4>2, <4>4
      <4> QED BY <4>3, <4>5 DEF h, o2
    <3> QED BY <3>1, OwnedIn
  <2> QED BY <1>1, <1>3, <2>2, <2>3, <2>4, ServerSafe
<1>8. CASE agents[a].st = "open"
  <2>1. /\ agents' = [agents EXCEPT ![a] = x]
        /\ down' = Arrives(a, ms)
        /\ streams' = [d \in Doc |-> IF d \in docs /\ agents[a].held[d] # None
                                     THEN streams[d] - 1 ELSE streams[d]]
    BY <1>8 DEF Finish
  <2>2. /\ DOMAIN x = {"st", "src", "up", "held"} /\ x.st = "open" /\ x.up = agents[a].up
        /\ \A d \in Doc : x.held[d] = IF d \in docs THEN j.q[d] ELSE agents[a].held[d]
    BY <1>4, <1>8
  <2>3. \A d \in docs : j.q[d] # None
    <3>1. \A d \in docs : j.q[d] \in Seq(Nat)
      BY <1>2 DEF JobOK
    <3> QED BY <3>1, NoneAssumption
  <2>4. /\ reply.a = j.m.a /\ reply.res = j.res
        /\ reply.a \in {"f", "s", "u"} => Reply(reply)
        /\ j.m.a \in {"f", "s"} => DOMAIN reply.res = DOMAIN j.m.vs
        /\ j.m.a # "u"
    <3>1. j.m.a \in {"f", "s", "nf", "nt"} /\ (j.m.a \in {"f", "s"} => DOMAIN j.m.vs \subseteq Doc)
      BY <1>2 DEF JobOK, UpOK, Asks
    <3>2. j.m.a \in {"f", "s"} => /\ DOMAIN j.res = DOMAIN j.m.vs
                                  /\ \A d \in DOMAIN j.res : j.res[d].how \in Hows
      BY <1>1, <1>2 DEF JobShape
    <3>3. reply.a = j.m.a /\ reply.res = j.res
      OBVIOUS
    <3> HIDE DEF reply
    <3> QED BY <3>1, <3>2, <3>3 DEF Reply
  <2>5. DOMAIN f \subseteq Doc /\ \A d \in DOMAIN f : f[d] \in Seq(Nat)
    BY <1>2 DEF JobOK
  <2> HIDE DEF x, reply, f
  <2>6. /\ List(ms)
        /\ \A K \in {Subscribing, Fetching} : \A d : Replied(ms, K, d) = One(Replying(reply, K, d))
        /\ (reply.a \in {"f", "s", "u"} => Reply(reply))
             => \A e \in Range(ms) : e.a \in {"f", "s", "u"} => Reply(e)
    BY <2>5, RepliesCount
  <2> HIDE DEF ms
  <2>7. \A e \in Range(ms) : e.a \in {"f", "s", "u"} => Reply(e)
    BY <2>4, <2>6
  <2>8. (sock = "closed" => down' = <<>>) /\ DownShape'
    BY <1>1, <2>1, <2>6, <2>7, ArrivesSafe
  <2>9. /\ Wired' /\ agents'[a] = x
        /\ \A b \in 1..MaxAgents : b # a => agents'[b] = agents[b]
    BY <1>1, <1>2, <1>4, <2>1, <2>2, <2>8, OneAgentWired
  <2>10. ASSUME NEW d \in Doc, NEW K \in {Subscribing, Fetching} PROVE Fewer(K, d)
    <3> DEFINE t == One(About(j.m, K, d))
    <3>1. Replying(reply, K, d) <=> About(j.m, K, d)
      BY <2>4 DEF Replying, About, Subscribing, Fetching
    <3>2. Replied(ms, K, d) = t
      <4>1. Replied(ms, K, d) = One(Replying(reply, K, d))
        BY <2>6
      <4> QED BY <3>1, <4>1 DEF One
    <3>3. \A b : One(Doing(j, K, b, d)) = IF b = a THEN t ELSE 0
      BY DEF Doing, One
    <3>4. \A b : /\ Worked(jobs', K, b, d) \in Nat
                 /\ Worked(jobs', K, b, d) + One(Doing(j, K, b, d)) = Worked(jobs, K, b, d)
      BY <1>6
    <3>5. t \in Nat
      BY OneIs
    <3>6. Worked(jobs', K, a, d) + t = Worked(jobs, K, a, d) /\ Worked(jobs', K, a, d) \in Nat
      BY <3>3, <3>4
    <3>7. \A b \in 1..MaxAgents : b # a => Worked(jobs', K, b, d) = Worked(jobs, K, b, d)
      <4> TAKE b \in 1..MaxAgents
      <4>1. b # a => Worked(jobs', K, b, d) + 0 = Worked(jobs, K, b, d)
        BY <3>3, <3>4
      <4>2. Worked(jobs', K, b, d) \in Nat
        BY <3>4
      <4> QED BY <4>1, <4>2
    <3>8. \A b \in 1..MaxAgents : agents'[b].up = agents[b].up
      BY <2>2, <2>9
    <3>9. down' = Arrives(a, ms) /\ List(ms) /\ a \in 1..MaxAgents
      BY <1>2, <2>1, <2>6
    <3>10. UNCHANGED <<sock, cur>>
      BY <1>1
    <3> HIDE DEF t, a
    <3> QED BY <3>2, <3>5, <3>6, <3>7, <3>8, <3>9, <3>10, AnsweredUnder
  <2>11. StreamsOwned'
    <3>1. ASSUME NEW d \in Doc
          PROVE  streams'[d] = Cardinality(Holders(agents', d)) + Cardinality(Owned(jobs', d))
      <4> DEFINE h == Cardinality(Holders(agents, d))
                 o == Cardinality(Owned(jobs, d))
                 h2 == Cardinality(Holders(agents', d))
                 o2 == Cardinality(Owned(jobs', d))
                 P == agents[a].st = "open" /\ agents[a].held[d] # None
                 Q == x.st = "open" /\ x.held[d] # None
                 D == d \in DOMAIN j.q
      <4>1. streams[d] = h + o /\ h \in Nat /\ o \in Nat
        BY OwnedNow
      <4>2. h2 \in Nat /\ h2 + One(P) = h + One(Q)
        BY <1>2, <2>1, HoldersChange
      <4>3. o2 \in Nat /\ o2 + One(D) = o
        BY <1>6
      <4>4. streams'[d] = IF D /\ P THEN streams[d] - 1 ELSE streams[d]
        BY <1>8, <2>1
      <4>5. Q <=> D \/ P
        BY <1>8, <2>2, <2>3
      <4>6. /\ One(P) = IF P THEN 1 ELSE 0
            /\ One(Q) = IF D THEN 1 ELSE IF P THEN 1 ELSE 0
            /\ One(D) = IF D THEN 1 ELSE 0
        BY <4>5 DEF One
      <4> HIDE DEF h, o, h2, o2, P, Q, D
      <4>7. CASE D /\ P
        <5>1. One(P) = 1 /\ One(Q) = 1 /\ One(D) = 1 /\ streams'[d] = streams[d] - 1
          BY <4>4, <4>6, <4>7
        <5> QED BY <4>1, <4>2, <4>3, <5>1 DEF h2, o2
      <4>8. CASE D /\ ~P
        <5>1. One(P) = 0 /\ One(Q) = 1 /\ One(D) = 1 /\ streams'[d] = streams[d]
          BY <4>4, <4>6, <4>8
        <5> QED BY <4>1, <4>2, <4>3, <5>1 DEF h2, o2
      <4>9. CASE ~D
        <5>1. One(P) = One(Q) /\ One(P) \in 0..1 /\ One(D) = 0 /\ streams'[d] = streams[d]
          BY <4>4, <4>6, <4>9
        <5> QED BY <4>1, <4>2, <4>3, <5>1 DEF h2, o2
      <4> QED BY <4>7, <4>8, <4>9
    <3> QED BY <3>1, OwnedIn
  <2> QED BY <1>1, <1>3, <2>8, <2>9, <2>10, <2>11, ServerSafe
<1> QED BY <1>4, <1>7, <1>8

-----------------------------------------------------------------------------
(* The other clients.  What a stream gets does not make two jobs one.      *)
LEMMA OneToOne ==
    ASSUME NEW f, NEW S, S \subseteq DOMAIN f, IsFiniteSet(S),
           \A i, j \in S : f[i] = f[j] => i = j
    PROVE  /\ IsFiniteSet({f[j] : j \in S})
           /\ Cardinality({f[j] : j \in S}) = Cardinality(S)
<1> DEFINE T == {f[j] : j \in S}
           g == [j \in S |-> f[j]]
<1>1. g \in Bijection(S, T)
  BY DEF Bijection, Injection, IsInjective, Surjection
<1>2. ExistsBijection(S, T)
  BY <1>1 DEF ExistsBijection
<1> HIDE DEF T, g
<1>3. IsFiniteSet(T) /\ Cardinality(T) = Cardinality(S)
  BY <1>2, FS_Bijection
<1> QED BY <1>3 DEF T

LEMMA CommitSafe ==
    ASSUME IInv, CInv, NEW d \in Doc, Commit(d)
    PROVE  CInv'
<1> DEFINE v == Len(log[d])
           taken(j) == IF d \in DOMAIN j.q THEN [j EXCEPT !.q[d] = Append(@, v)] ELSE j
<1>1. /\ UNCHANGED <<state, canSend, sock, cur, doc, calls, down, streams>>
      /\ agents' = [a \in DOMAIN agents |-> [agents[a] EXCEPT !.held[d] =
                       IF @ = None THEN None ELSE Append(@, v)]]
      /\ jobs' = {taken(j) : j \in jobs}
  BY DEF Commit, client
<1>2. v \in Nat
  BY LenProperties DEF IInv, LogOK, Times
<1> HIDE DEF v
<1>3. ASSUME NEW j \in jobs
      PROVE  /\ DOMAIN taken(j) = DOMAIN j /\ taken(j).a = j.a /\ taken(j).m = j.m
             /\ taken(j).stage = j.stage /\ taken(j).res = j.res
             /\ DOMAIN taken(j).q = DOMAIN j.q
  BY JobsAre DEF JobShape
<1>4. ASSUME NEW i \in jobs, NEW j \in jobs, taken(i) = taken(j) PROVE i = j
  <2>1. DOMAIN i.q = DOMAIN j.q /\ i.a = j.a
    BY <1>3, <1>4
  <2>2. CASE d \in DOMAIN i.q
    <3>1. /\ i \in JobsAbout(jobs, Subscribing, i.a, d) /\ i.a \in 1..MaxAgents
          /\ j \in JobsAbout(jobs, Subscribing, i.a, d)
      BY <2>1, <2>2, OwnedIs, JobsAre
    <3> QED BY <3>1, JobsAlone
  <2>3. CASE d \notin DOMAIN i.q
    BY <1>4, <2>1, <2>3
  <2> QED BY <2>2, <2>3
<1>5. ASSUME NEW j \in jobs PROVE JobShape(taken(j))
  BY <1>3, JobsAre DEF JobShape
<1> HIDE DEF taken
<1>6. ASSUME NEW S, S \subseteq jobs
      PROVE  /\ IsFiniteSet({taken(j) : j \in S})
             /\ Cardinality({taken(j) : j \in S}) = Cardinality(S)
  <2>1. IsFiniteSet(S)
    BY <1>6, JobsAre, FS_Subset
  <2> DEFINE f == [j \in jobs |-> taken(j)]
  <2>2. S \subseteq DOMAIN f /\ \A i, j \in S : f[i] = f[j] => i = j
    BY <1>4, <1>6
  <2>3. {f[j] : j \in S} = {taken(j) : j \in S}
    BY <1>6
  <2> HIDE DEF f
  <2>4. /\ IsFiniteSet({f[j] : j \in S})
        /\ Cardinality({f[j] : j \in S}) = Cardinality(S)
    BY <2>1, <2>2, OneToOne
  <2> QED BY <2>3, <2>4
<1>7. \A K, a, e : Worked(jobs', K, a, e) = Worked(jobs, K, a, e)
  <2> TAKE K, a, e
  <2> DEFINE S == JobsAbout(jobs, K, a, e)
  <2>1. JobsAbout(jobs', K, a, e) = {taken(j) : j \in S} /\ S \subseteq jobs
    BY <1>1, <1>3 DEF JobsAbout
  <2> HIDE DEF S
  <2> QED BY <1>6, <2>1 DEF Worked, S
<1>8. \A e : Cardinality(Owned(jobs', e)) = Cardinality(Owned(jobs, e))
  <2> TAKE e
  <2> DEFINE S == Owned(jobs, e)
  <2>1. Owned(jobs', e) = {taken(j) : j \in S} /\ S \subseteq jobs
    BY <1>1, <1>3 DEF Owned
  <2> HIDE DEF S
  <2>2. Cardinality(Owned(jobs', e)) = Cardinality(S)
    BY <1>6, <2>1
  <2> QED BY <2>2 DEF S
<1>9. JobsShape'
  <2>1. IsFiniteSet(jobs')
    BY <1>1, <1>6
  <2>2. \A j : JobShape(j)' <=> JobShape(j)
    BY <1>1 DEF JobShape
  <2>3. \A j \in jobs' : JobShape(j)
    BY <1>1, <1>5
  <2> QED BY <2>1, <2>2, <2>3 DEF JobsShape
<1>10. DOMAIN agents = 1..MaxAgents /\ DOMAIN agents' = 1..MaxAgents
  BY <1>1 DEF IInv, AgentsOK
<1>11. ASSUME NEW a \in 1..MaxAgents
       PROVE  /\ DOMAIN agents'[a] = DOMAIN agents[a] /\ agents'[a].st = agents[a].st
              /\ agents'[a].up = agents[a].up
              /\ \A e \in Doc : agents'[a].held[e] = None <=> agents[a].held[e] = None
  <2> DEFINE h == agents[a].held[d]
             h2 == IF h = None THEN None ELSE Append(h, v)
  <2>1. agents[a].held \in [Doc -> Seq(Nat) \cup {None}]
    BY DEF IInv, AgentsOK, AgentOK
  <2>2. DOMAIN agents[a] = {"st", "src", "up", "held"}
    BY DEF CInv, Wired
  <2>3. h2 = None <=> h = None
    <3>1. h # None => h \in Seq(Nat)
      BY <2>1
    <3> HIDE DEF h
    <3>2. h \in Seq(Nat) => Append(h, v) \in Seq(Nat)
      BY <1>2, AppendProperties
    <3> QED BY <3>1, <3>2, NoneAssumption
  <2>4. agents'[a] = [agents[a] EXCEPT !.held[d] = h2]
    BY <1>1, <1>10
  <2> HIDE DEF h2
  <2>5. /\ DOMAIN agents'[a] = DOMAIN agents[a] /\ agents'[a].st = agents[a].st
        /\ agents'[a].up = agents[a].up
        /\ agents'[a].held = [agents[a].held EXCEPT ![d] = h2]
    BY <2>2, <2>4
  <2>6. \A e \in Doc : agents'[a].held[e] = IF e = d THEN h2 ELSE agents[a].held[e]
    BY <2>1, <2>5
  <2> QED BY <2>3, <2>5, <2>6
<1>12. Wired'
  <2>1. Wired /\ cur \in 1..MaxAgents
    BY DEF CInv, Wired
  <2>2. \A a \in 1..MaxAgents :
          /\ DOMAIN agents'[a] = {"st", "src", "up", "held"}
          /\ agents'[a].st \in {"none", "open", "closed"}
          /\ agents'[a].st = "none" <=> a > cur
          /\ agents'[a].st = "none" => agents'[a].up = <<>>
          /\ agents'[a].st # "open" => \A e \in Doc : agents'[a].held[e] = None
    BY <1>11, <2>1 DEF Wired
  <2>3. sock # "closed" => agents'[cur].st = "open"
    BY <1>11, <2>1 DEF Wired
  <2> QED BY <1>1, <2>1, <2>2, <2>3 DEF Wired
<1>13. \A e \in Doc : Fewer(Subscribing, e) /\ Fewer(Fetching, e)
  <2> TAKE e \in Doc
  <2>1. ASSUME NEW K PROVE Fewer(K, e)
    <3>1. ASSUME NEW b \in 1..MaxAgents
          PROVE  Under(K, b, e)' = Under(K, b, e) /\ Under(K, b, e) \in Nat
      BY <1>1, <1>7, <1>11, UnderIs DEF Under
    <3> DEFINE U(b) == Under(K, b, e)
               V(b) == Under(K, b, e)'
    <3>2. \A b \in 1..MaxAgents : V(b) = U(b) /\ U(b) \in Nat
      BY <3>1
    <3> HIDE DEF U, V
    <3>3. \A b \in 1..MaxAgents : V(b) \in Nat /\ V(b) <= U(b) /\ V(b) = U(b)
      BY <3>2
    <3> QED BY <3>3 DEF Fewer, U, V
  <2> QED BY <2>1
<1>14. StreamsOwned'
  <2>1. \A e \in Doc : Holders(agents', e) = Holders(agents, e)
    BY <1>10, <1>11 DEF Holders
  <2>2. \A e \in Doc : streams'[e] = Cardinality(Holders(agents', e)) + Cardinality(Owned(jobs', e))
    BY <1>1, <1>8, <2>1, OwnedNow
  <2> QED BY <2>2, OwnedIn
<1>15. DownShape'
  BY <1>1 DEF CInv, DownShape, Reply
<1> QED BY <1>1, <1>9, <1>12, <1>13, <1>14, <1>15, ServerSafe

LEMMA NothingMovesSafe ==
    ASSUME IInv, CInv, UNCHANGED <<state, canSend, sock, cur, doc, calls, agents, jobs, streams, down>>
    PROVE  CInv'
<1>1. List(down') /\ Range(down') \subseteq Range(down) /\ (sock = "closed" => down' = <<>>)
  BY DEF IInv, ArrivesOK, CInv, Wired
<1>2. Silent(<<>>) /\ Sent(<<>>)
  BY SilentOnes, NothingSent
<1> QED BY <1>1, <1>2, SilentStep

LEMMA SaveMilestoneSafe ==
    ASSUME IInv, CInv, NEW d \in Doc, NEW v, SaveMilestone(d, v)
    PROVE  CInv'
BY NothingMovesSafe DEF SaveMilestone, client

-----------------------------------------------------------------------------
(* The invariant holds from the start and in every step.                   *)
LEMMA NewDocTidy ==
    /\ Sound(NewDoc) /\ Alternates(NewDoc) /\ NewDoc.out = <<>> /\ NewDoc.told = <<>>
    /\ Resting(NewDoc) /\ \A c : Waits(NewDoc, c) = 0
<1>1. NewDoc \in DocShape
  <2>1. <<>> \in Seq(Subs) /\ <<>> \in Seq(Groups) /\ <<>> \in Seq(Outs) /\ <<>> \in Seq(Tolds)
    BY EmptySeq
  <2> QED BY <2>1 DEF NewDoc, DocShape, Versions
<1>2. Len(NewDoc.infFetch) = 0
  BY EmptySeq DEF NewDoc
<1>3. Sound(NewDoc)
  BY <1>1, <1>2 DEF Sound, NewDoc
<1>4. Alternates(NewDoc)
  BY DEF Alternates, Alternating, NewDoc
<1>5. ASSUME NEW c PROVE Waits(NewDoc, c) = 0
  <2>1. /\ NewDoc.infFetch = <<>> /\ NewDoc.penFetch = <<>> /\ NewDoc.penSub = <<>>
        /\ NewDoc.infSub = None /\ NewDoc.late = <<>>
    BY DEF NewDoc
  <2>2. One(NewDoc.infSub # None /\ c \in NewDoc.infSub.cbs) = 0
    BY <2>1 DEF One
  <2> QED BY <2>1, <2>2, NumEmpty DEF Waits
<1> QED BY <1>3, <1>4, <1>5 DEF Resting, NewDoc

LEMMA InitSafe == ASSUME Init PROVE CInv
<1>0. IInv
  BY InitOK
<1>1. MaxAgents \in Nat /\ sc.agents <= MaxAgents /\ sc.agents \in Nat \ {0}
  BY MaxAgentsIs, ScenariosAssumption DEF Init
<1>2. 1 \in 1..MaxAgents /\ \A a \in 1..MaxAgents : a > 1 <=> a # 1
  BY <1>1
<1>3. Wired
  <2>1. ASSUME NEW a \in 1..MaxAgents
        PROVE  /\ DOMAIN agents[a] = {"st", "src", "up", "held"}
               /\ agents[a].st = (IF a = 1 THEN "open" ELSE "none")
               /\ agents[a].up = <<>> /\ \A d \in Doc : agents[a].held[d] = None
    BY DEF Init
  <2> QED BY <1>2, <2>1 DEF Wired, Init
<1>4. JobsShape
  BY FS_EmptySet DEF Init, JobsShape
<1>5. Range(down) = {[a |-> "init"]}
  BY OneList DEF Init
<1>6. DownShape
  BY <1>5 DEF DownShape
<1>7. DocsTidy
  BY NewDocTidy DEF Init, DocsTidy, Tidy
<1>8. ASSUME NEW d \in Doc, NEW a \in 1..MaxAgents, NEW K \in {Subscribing, Fetching}
      PROVE  Under(K, a, d) = 0
  <2>1. Asked(agents[a].up, K, d) = 0
    BY NumEmpty DEF Init, Asked
  <2>2. Worked(jobs, K, a, d) = 0
    <3>1. JobsAbout(jobs, K, a, d) = {}
      BY DEF Init, JobsAbout
    <3> QED BY <3>1, FS_EmptySet DEF Worked
  <2>3. Replied(down, K, d) = 0
    <3>1. down = <<[a |-> "init"]>>
      BY DEF Init
    <3> QED BY <3>1, SilentOnes, SilentAsks
  <2> QED BY <2>1, <2>2, <2>3 DEF Under
<1>9. OneUnderWay
  <2>1. \A d \in Doc, a \in 1..MaxAgents : Under(Subscribing, a, d) = 0 /\ Under(Fetching, a, d) = 0
    BY <1>8
  <2> QED BY <1>2, <2>1 DEF OneUnderWay, Init
<1>10. CallsOK
  <2>1. calls \in Seq(Calls) /\ DOMAIN calls = {}
    BY EmptySeq DEF Init
  <2>2. \A d \in Doc, c \in Nat : Waits(doc[d], c) = One(Owing(calls, d, c))
    BY <2>1, NewDocTidy DEF Init, Owing, One
  <2> QED BY <2>1, <2>2 DEF CallsOK
<1>11. StreamsOwned
  <2>1. ASSUME NEW d \in Doc
        PROVE  /\ {a \in DOMAIN agents : agents[a].st = "open" /\ agents[a].held[d] # None} = {}
               /\ {j \in jobs : d \in DOMAIN j.q} = {}
               /\ streams[d] = 0
    BY DEF Init
  <2>2. Cardinality({}) = 0
    BY FS_EmptySet
  <2>3. \A d \in Doc : streams[d] = Cardinality(Holders(agents, d)) + Cardinality(Owned(jobs, d))
    <3> TAKE d \in Doc
    <3>1. Holders(agents, d) = {} /\ Owned(jobs, d) = {} /\ streams[d] = 0
      BY <2>1 DEF Holders, Owned
    <3> QED BY <2>2, <3>1
  <2> QED BY <2>3 DEF StreamsOwned, Holders, Owned
<1> QED BY <1>3, <1>4, <1>6, <1>7, <1>9, <1>10, <1>11 DEF CInv

LEMMA NextSafe == ASSUME IInv, CInv, NoStray', [Next]_vars PROVE CInv'
<1>1. CASE Application
  BY <1>1, CallSafe, FetchSnapshotSafe, LookSafe, SocketClosedSafe, BindToSocketSafe
     DEF Application, WhenNothingPending
<1>2. CASE Fails
  BY <1>2, SocketClosedSafe DEF Fails
<1>3. CASE Client
  BY <1>3, LookSafe, OpenSafe, ReopenSafe, LegacyInitSafe, ClientHandshakeSafe,
     HandleReplySafe, HandleOpSafe, SnapshotFetchSafe, TickSafe, CallBackSafe
     DEF Client, _nothingPendingRetry
<1>4. CASE Server
  BY <1>4, AgentHandshakeSafe, StartJobSafe, UnsubscribeSafe, CleanupSafe, DeliverSafe,
     ReadDocsSafe, ReadMilestoneSafe, ReadSnapshotSafe, FinishSafe DEF Server
<1>5. CASE Others
  BY <1>5, CommitSafe, SaveMilestoneSafe DEF Others
<1>6. CASE UNCHANGED vars
  BY <1>6, NothingMovesSafe DEF vars, client, server
<1> QED BY <1>1, <1>2, <1>3, <1>4, <1>5, <1>6 DEF Next

LEMMA CallsAccounted == ASSUME CInv PROVE Accounted
<1> SUFFICES ASSUME NEW c \in DOMAIN calls
    PROVE  LET x == doc[calls[c].d]
               inSeq(s) == Cardinality({i \in DOMAIN s : c \in s[i]})
               waits == inSeq(x.infFetch) + inSeq(x.penFetch) + inSeq(x.late)
                        + Cardinality({i \in DOMAIN x.penSub : c \in x.penSub[i].cbs})
                        + IF x.infSub # None /\ c \in x.infSub.cbs THEN 1 ELSE 0
           IN  /\ waits + Len(calls[c].told) <= 1
               /\ waits + Len(calls[c].told) = 0 => x.stray
  BY DEF Accounted, CallId
<1> DEFINE d == calls[c].d
           x == doc[d]
           t == calls[c].told
           n == Len(t)
           fetching == {i \in DOMAIN x.infFetch : c \in x.infFetch[i]}
           queued == {i \in DOMAIN x.penFetch : c \in x.penFetch[i]}
           deferred == {i \in DOMAIN x.late : c \in x.late[i]}
           pending == {i \in DOMAIN x.penSub : c \in x.penSub[i].cbs}
           inflight == One(x.infSub # None /\ c \in x.infSub.cbs)
<1>1. calls \in Seq(Calls) /\ Len(t) <= 1
  BY DEF CInv, CallsOK
<1>2. c \in Nat /\ calls[c] \in Calls
  BY <1>1, LenProperties, ElementOfSeq
<1>3. d \in Doc /\ t \in Seq(Hows)
  BY <1>2 DEF Calls
<1>4. n \in Nat /\ n <= 1 /\ (n = 0 <=> t = <<>>)
  <2> HIDE DEF t
  <2> QED BY <1>1, <1>3, LenProperties, EmptySeq
<1>5. Waits(x, c) = One(t = <<>>)
  BY <1>2, <1>3 DEF CInv, CallsOK, Owing, One
<1>6. x \in DocShape
  BY <1>3 DEF CInv, DocsTidy, Tidy, Sound
<1>7. /\ fetching = Places(x.infFetch, Having(c)) /\ queued = Places(x.penFetch, Having(c))
      /\ deferred = Places(x.late, Having(c)) /\ pending = Places(x.penSub, SubsOf(c))
  <2> DEFINE f == x.infFetch
             p == x.penFetch
             l == x.late
             s == x.penSub
  <2>1. f \in Seq(Groups) /\ p \in Seq(Groups) /\ l \in Seq(Groups) /\ s \in Seq(Subs)
    BY <1>6 DEF DocShape
  <2> HIDE DEF f, p, l, s
  <2>2. /\ \A i \in DOMAIN f : f[i] \in Groups
        /\ \A i \in DOMAIN p : p[i] \in Groups
        /\ \A i \in DOMAIN l : l[i] \in Groups
        /\ \A i \in DOMAIN s : s[i] \in Subs
    BY <2>1, ElementOfSeq, LenProperties
  <2>3. /\ {i \in DOMAIN f : c \in f[i]} = Places(f, Having(c))
        /\ {i \in DOMAIN p : c \in p[i]} = Places(p, Having(c))
        /\ {i \in DOMAIN l : c \in l[i]} = Places(l, Having(c))
        /\ {i \in DOMAIN s : c \in s[i].cbs} = Places(s, SubsOf(c))
    BY <2>2 DEF Places, Having, SubsOf
  <2> QED BY <2>3 DEF f, p, l, s
<1>8. /\ Cardinality(fetching) \in Nat /\ Cardinality(queued) \in Nat
      /\ Cardinality(deferred) \in Nat /\ Cardinality(pending) \in Nat /\ inflight \in Nat
      /\ Waits(x, c) = Cardinality(fetching) + Cardinality(queued) + Cardinality(deferred)
                       + Cardinality(pending) + inflight
  <2> HIDE DEF fetching, queued, deferred, pending, x
  <2> QED BY <1>6, <1>7, WeightIs DEF Waits, Num
<1> HIDE DEF fetching, queued, deferred, pending, inflight, n
<1>9. Cardinality(fetching) + Cardinality(queued) + Cardinality(deferred)
      + Cardinality(pending) + inflight + n = 1
  <2>1. CASE t = <<>>
    BY <1>4, <1>5, <1>8, <2>1 DEF One
  <2>2. CASE t # <<>>
    <3>1. Waits(x, c) = 0
      BY <1>5, <2>2 DEF One
    <3>2. n = 1
      BY <1>4, <2>2
    <3> HIDE DEF x, t
    <3> QED BY <1>8, <3>1, <3>2
  <2> QED BY <2>1, <2>2
<1> QED BY <1>9 DEF fetching, queued, deferred, pending, inflight, n, One

-----------------------------------------------------------------------------
(* And it holds while no doc is astray, since one that is remains so.      *)
Marked == DOMAIN doc = Doc /\ \A d \in Doc : "stray" \in DOMAIN doc[d]
Astray == Marked' /\ \A d \in Doc : doc[d].stray => doc'[d].stray

LEMMA PutStays ==
    ASSUME NEW xs, NEW asked, Put(xs, asked),
           \A d \in Doc : "stray" \in DOMAIN xs[d] /\ (doc[d].stray => xs[d].stray)
    PROVE  Astray
<1>1. DOMAIN doc' = Doc
  BY DEF Put
<1> QED BY <1>1, PutKeeps DEF Astray, Marked

LEMMA OneStays ==
    ASSUME Marked, NEW d \in Doc, NEW x, SameStray(doc[d], x), NEW asked,
           Put([doc EXCEPT ![d] = x], asked)
    PROVE  Astray
<1> DEFINE xs == [doc EXCEPT ![d] = x]
<1>1. \A e \in Doc : xs[e] = IF e = d THEN x ELSE doc[e]
  BY DEF Marked
<1>2. \A e \in Doc : "stray" \in DOMAIN xs[e] /\ (doc[e].stray => xs[e].stray)
  <2> HIDE DEF xs
  <2> QED BY <1>1 DEF Marked, SameStray
<1>3. Put(xs, asked)
  OBVIOUS
<1> HIDE DEF xs
<1> QED BY <1>2, <1>3, PutStays

LEMMA CallStays ==
    ASSUME IInv, Marked, NEW d \in Doc, NEW kind, Call(kind, d)
    PROVE  Astray
<1> DEFINE c == Len(calls) + 1
           x == CASE kind = "fetch" -> _fetch(doc[d], canSend, {c})
                  [] kind = "subscribe" -> _queueSubscribe(doc[d], canSend, TRUE, {c})
                  [] OTHER -> _queueSubscribe(doc[d], canSend, FALSE, {c})
<1>1. "stray" \in DOMAIN doc[d] /\ canSend \in BOOLEAN
  BY DEF Marked, IInv
<1>2. SameStray(doc[d], x)
  <2>1. /\ SameStray(doc[d], _fetch(doc[d], canSend, {c}))
        /\ SameStray(doc[d], _queueSubscribe(doc[d], canSend, TRUE, {c}))
        /\ SameStray(doc[d], _queueSubscribe(doc[d], canSend, FALSE, {c}))
    BY <1>1, FetchKeeps, QueueKeeps
  <2> QED BY <2>1
<1>3. \E asked : Put([doc EXCEPT ![d] = x], asked)
  BY DEF Call
<1> HIDE DEF x
<1> QED BY <1>2, <1>3, OneStays

LEMMA TickStays ==
    ASSUME IInv, Marked, NEW d \in Doc, Tick(d)
    PROVE  Astray
<1> DEFINE x == [doc[d] EXCEPT !.ticks = @ - 1]
           y == _handleSubscribe(x, canSend, Plain)
<1>1. "stray" \in DOMAIN doc[d] /\ canSend \in BOOLEAN
  BY DEF Marked, IInv
<1>2. SameStray(doc[d], x)
  BY <1>1 DEF SameStray
<1>3. Put([doc EXCEPT ![d] = y], calls)
  BY DEF Tick, DocsStep
<1> HIDE DEF x
<1>4. SameStray(x, y)
  BY <1>1, <1>2, HandleSubscribeKeeps DEF SameStray
<1> HIDE DEF y
<1>5. SameStray(doc[d], y)
  BY <1>2, <1>4, KeepsThen
<1> QED BY <1>3, <1>5, OneStays

LEMMA CallBackStays ==
    ASSUME Marked, NEW d \in Doc, CallBack(d)
    PROVE  Astray
<1> PICK i \in DOMAIN doc[d].late :
      Put([doc EXCEPT ![d] = Tell([doc[d] EXCEPT !.late = RemoveAt(@, i)],
                                  doc[d].late[i], "ok")], calls)
  BY DEF CallBack, DocsStep
<1> DEFINE x == [doc[d] EXCEPT !.late = RemoveAt(@, i)]
           y == Tell(x, doc[d].late[i], "ok")
<1>1. SameStray(doc[d], x)
  BY DEF SameStray, Marked
<1>2. Put([doc EXCEPT ![d] = y], calls)
  OBVIOUS
<1> HIDE DEF x
<1>3. SameStray(x, y)
  BY <1>1, TellKeeps DEF SameStray, Marked
<1> HIDE DEF y
<1>4. SameStray(doc[d], y)
  BY <1>1, <1>3, KeepsThen
<1> QED BY <1>2, <1>4, OneStays

LEMMA MessageStays ==
    ASSUME IInv, Marked, HandleReply \/ HandleOp \/ _handleHandshake
    PROVE  Astray
<1>1. canSend \in BOOLEAN /\ \A d \in Doc : "stray" \in DOMAIN doc[d]
  BY DEF Marked, IInv
<1>2. CASE HandleReply
  <2> DEFINE m == Head(down)
             handle(x, r) == IF m.a = "f" THEN _handleFetch(x, canSend, r)
                             ELSE _handleSubscribe(x, canSend, r)
             xs == [d \in Doc |-> IF d \in DOMAIN m.res THEN handle(doc[d], m.res[d])
                                  ELSE doc[d]]
  <2>1. Put(xs, calls)
    BY <1>2 DEF HandleReply, DocsStep
  <2>2. ASSUME NEW d \in Doc PROVE "stray" \in DOMAIN xs[d] /\ (doc[d].stray => xs[d].stray)
    <3>1. xs[d] = doc[d] \/ xs[d] = _handleFetch(doc[d], canSend, m.res[d])
          \/ xs[d] = _handleSubscribe(doc[d], canSend, m.res[d])
      OBVIOUS
    <3> HIDE DEF xs
    <3> QED BY <1>1, <3>1, HandleFetchKeeps, HandleSubscribeKeeps DEF SameStray
  <2> HIDE DEF xs
  <2> QED BY <2>1, <2>2, PutStays
<1>3. CASE HandleOp
  <2> DEFINE m == Head(down)
             xs == [doc EXCEPT ![m.d] = _handleOp(@, canSend, m.v)]
  <2>1. Put(xs, calls)
    BY <1>3 DEF HandleOp, DocsStep
  <2>2. ASSUME NEW d \in Doc PROVE "stray" \in DOMAIN xs[d] /\ (doc[d].stray => xs[d].stray)
    <3>1. xs[d] = doc[d] \/ xs[d] = _handleOp(doc[d], canSend, m.v)
      BY DEF Marked
    <3> HIDE DEF xs
    <3> QED BY <1>1, <3>1, HandleOpKeeps DEF SameStray
  <2> HIDE DEF xs
  <2> QED BY <2>1, <2>2, PutStays
<1>4. CASE _handleHandshake /\ state = "connecting"
  <2> DEFINE xs == _setState(state, doc, "connected").xs
  <2>1. Put(xs, calls)
    BY <1>4 DEF _handleHandshake
  <2>2. \A d \in Doc : xs[d] = _resubscribe(doc[d])
    <3>1. ~Refused(state, "connected") /\ state # "connected" /\ ("connected" = "connected") = TRUE
      BY <1>4 DEF Refused
    <3>2. xs = [d \in Doc |-> DocStateChanged(doc[d], TRUE)]
      BY <3>1 DEF _setState
    <3> QED BY <3>2 DEF DocStateChanged
  <2> HIDE DEF xs
  <2>3. \A d \in Doc : "stray" \in DOMAIN xs[d] /\ (doc[d].stray => xs[d].stray)
    BY <1>1, <2>2, ResubscribeKeeps DEF SameStray
  <2> QED BY <2>1, <2>3, PutStays
<1>5. CASE _handleHandshake /\ state # "connecting"
  BY <1>5 DEF _handleHandshake, Astray, Marked
<1> QED BY <1>2, <1>3, <1>4, <1>5

LEMMA StateStays ==
    ASSUME Marked, NEW to, to # "connected", Put(_setState(state, doc, to).xs, calls)
    PROVE  Astray
<1> DEFINE xs == _setState(state, doc, to).xs
<1>1. \A d \in Doc : "stray" \in DOMAIN xs[d] /\ (doc[d].stray => xs[d].stray)
  BY SetStateKeeps DEF Marked
<1>2. Put(xs, calls)
  OBVIOUS
<1> HIDE DEF xs
<1> QED BY <1>1, <1>2, PutStays

LEMMA BindStays == ASSUME Marked, BindToSocket PROVE Astray
<1> DEFINE c == _setState(state, doc, "closed")
           s0 == [state |-> state, xs |-> doc]
<1> PICK s1 \in {c, s0} : Put(_setState(s1.state, s1.xs, "connecting").xs, calls)
  BY DEF BindToSocket, Down
<1> DEFINE xs == _setState(s1.state, s1.xs, "connecting").xs
<1>1. \A d \in Doc : "stray" \in DOMAIN s1.xs[d] /\ (doc[d].stray => s1.xs[d].stray)
  <2>1. CASE s1 = c
    BY <2>1, SetStateKeeps DEF Marked
  <2>2. CASE s1 = s0
    BY <2>2 DEF Marked
  <2> QED BY <2>1, <2>2
<1>2. Put(xs, calls)
  OBVIOUS
<1>3. \A d \in Doc : "stray" \in DOMAIN xs[d] /\ (doc[d].stray => xs[d].stray)
  BY <1>1, SetStateKeeps
<1> HIDE DEF xs
<1> QED BY <1>2, <1>3, PutStays

LEMMA StraysStay == ASSUME IInv, Marked, [Next]_vars PROVE Astray
<1>1. ASSUME NEW to \in {"closed", "disconnected", "stopped"}, SocketClosed(to) PROVE Astray
  BY <1>1, StateStays DEF SocketClosed, Down
<1>2. CASE Open \/ Reopen
  BY <1>2, StateStays DEF Open, Reopen, Down
<1>3. CASE doc' = doc
  BY <1>3 DEF Astray, Marked
<1>4. CASE Application
  BY <1>1, <1>3, <1>4, CallStays, BindStays
     DEF Application, FetchSnapshot, WhenNothingPending, Look
<1>5. CASE Fails
  BY <1>1, <1>5 DEF Fails
<1>6. CASE Client
  BY <1>2, <1>3, <1>6, MessageStays, TickStays, CallBackStays
     DEF Client, _nothingPendingRetry, Look, _handleLegacyInit, _handleSnapshotFetch
<1>7. CASE Server
  <2>1. UNCHANGED client
    BY <1>7 DEF Server, AgentHandshake, StartJob, Unsubscribe, Cleanup, Deliver, Taking,
                ReadDocs, ReadMilestone, ReadSnapshot, Continue, Finish
  <2> QED BY <1>3, <2>1 DEF client
<1>8. CASE Others
  BY <1>3, <1>8 DEF Others, Commit, SaveMilestone, client
<1>9. CASE UNCHANGED vars
  BY <1>3, <1>9 DEF vars, client
<1> QED BY <1>4, <1>5, <1>6, <1>7, <1>8, <1>9 DEF Next

LEMMA InitMarked == ASSUME Init PROVE Marked
BY DEF Init, Marked, NewDoc

(* Every call waits in one queue until its callback is called, once, and   *)
(* every open stream has one owner, an agent or a job, whatever drops,     *)
(* reconnects and refused reads come between (doc.js: _queueSubscribe,     *)
(* _handleSubscribe, _onConnectionStateChanged; agent.js: _cleanup,        *)
(* _subscribeToStream); as long as no unsubscribe made offline has been    *)
(* answered by a drop before its nextTick, after which calls of that doc   *)
(* may be lost (doc.js:512).                                               *)
THEOREM NothingIsLost == Spec => [](NoStray => NothingLost)
<1> DEFINE J == IInv /\ Marked /\ (NoStray => CInv)
<1>1. Init => J
  BY InitOK, InitMarked, InitSafe
<1>2. J /\ [Next]_vars => J'
  <2> SUFFICES ASSUME J, [Next]_vars PROVE J'
    OBVIOUS
  <2>1. IInv' /\ Astray
    BY NextOK, StraysStay
  <2>2. NoStray' => NoStray
    BY <2>1 DEF Astray, NoStray
  <2>3. NoStray' => CInv'
    BY <2>2, NextSafe
  <2> QED BY <2>1, <2>3 DEF Astray
<1>3. J => (NoStray => NothingLost)
  BY CallsAccounted DEF NothingLost, CInv
<1> HIDE DEF J
<1> QED BY <1>1, <1>2, <1>3, PTL DEF Spec
=============================================================================
