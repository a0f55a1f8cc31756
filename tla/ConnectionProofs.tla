-------------------------- MODULE ConnectionProofs --------------------------
(***************************************************************************)
(* Proof that a snapshot of the past is what the ops up to then made:      *)
(* first of the operators of Snapshots, for logs and milestones of any     *)
(* length, then of every request of a Connection, while connections drop,  *)
(* ops are committed and milestones are saved between any two reads.       *)
(***************************************************************************)
EXTENDS Connection, Induction, SequenceTheorems

-----------------------------------------------------------------------------
(* The milestones that are found.                                          *)
LEMMA LatestIs ==
    ASSUME NEW n \in Nat, NEW vs \in SUBSET (1..n)
    PROVE  /\ Latest(vs) \in 0..n
           /\ Latest(vs) # NoMilestone => Latest(vs) \in vs
           /\ vs # {} => Latest(vs) # NoMilestone
<1>1. CASE vs = {}
  BY <1>1 DEF Latest, NoMilestone
<1>2. CASE vs # {}
  <2>1. vs \in SUBSET (0..n) /\ \A k, m \in vs : k <= m <=> m >= k
    OBVIOUS
  <2>2. PICK m \in vs : \A k \in vs : k <= m
    BY <1>2, <2>1, GreatestNumber
  <2>3. \E x \in vs : \A y \in vs : x >= y
    BY <2>1, <2>2
  <2>4. Latest(vs) \in vs
    BY <1>2, <2>3 DEF Latest, Max
  <2>5. Latest(vs) \in 1..n
    BY <2>4
  <2> QED BY <1>2, <2>4, <2>5 DEF NoMilestone
<1> QED BY <1>1, <1>2

(* A milestone of the version asked for, or of an earlier one.             *)
LEMMA MilestoneSnapshotIs ==
    ASSUME NEW n \in Nat, NEW vs \in SUBSET (1..n), NEW version \in Nat
    PROVE  /\ MilestoneSnapshot(vs, version) \in 0..n
           /\ MilestoneSnapshot(vs, version) <= version
<1> DEFINE older == Before(vs, {w \in vs : w > version})
<1>1. older \in SUBSET (1..n) /\ \A v \in older : v <= version
  <2>1. older \subseteq vs
    BY DEF Before
  <2> HIDE DEF older
  <2>2. ASSUME NEW v \in older PROVE v <= version
    <3>1. v \in vs /\ v \in Nat
      BY <2>1
    <3>2. v > version => v < v
      BY <3>1 DEF Before, older
    <3> QED BY <3>1, <3>2
  <2> QED BY <2>1, <2>2
<1> HIDE DEF older
<1>2. Latest(older) \in 0..n /\ (Latest(older) # NoMilestone => Latest(older) \in older)
  BY <1>1, LatestIs
<1>3. Latest(older) <= version
  BY <1>1, <1>2 DEF NoMilestone
<1> QED BY <1>2, <1>3 DEF MilestoneSnapshot, older

(* The times of a log rise.                                                *)
Times(l) ==
    /\ l \in Seq(Nat)
    /\ \A i, j \in 1..Len(l) : i <= j => l[i] <= l[j]

(* The milestones on either side of a time.                                *)
FromBefore(l, ts, from) ==
    from \in 0..Len(l) /\ (from # NoMilestone => l[from] <= ts)

ToAfter(l, ts, to) ==
    to \in 0..Len(l) /\ (to # NoMilestone => l[to] >= ts)

LEMMA AtOrBeforeTimeIs ==
    ASSUME NEW l, Times(l), NEW vs \in SUBSET (1..Len(l)), NEW ts \in Nat
    PROVE  FromBefore(l, ts, AtOrBeforeTime(l, vs, ts))
<1> DEFINE older == Before(vs, {w \in vs : mtime(l, w) > ts})
<1>1. Len(l) \in Nat /\ \A i \in 1..Len(l) : l[i] \in Nat
  BY LenProperties, ElementOfSeq DEF Times
<1>2. older \in SUBSET (1..Len(l)) /\ \A v \in older : l[v] <= ts
  <2>1. ASSUME NEW v \in older PROVE l[v] <= ts
    <3> SUFFICES ASSUME l[v] > ts PROVE FALSE
      BY <1>1 DEF Before
    <3>1. v < v
      BY DEF Before, mtime
    <3> QED BY <3>1, <1>1 DEF Before
  <2> QED BY <2>1 DEF Before
<1> HIDE DEF older
<1>3. Latest(older) \in 0..Len(l) /\ (Latest(older) # NoMilestone => Latest(older) \in older)
  BY <1>1, <1>2, LatestIs
<1> QED BY <1>2, <1>3 DEF AtOrBeforeTime, FromBefore, older

LEMMA AtOrAfterTimeIs ==
    ASSUME NEW l, Times(l), NEW vs \in SUBSET (1..Len(l)), NEW ts \in Nat
    PROVE  ToAfter(l, ts, AtOrAfterTime(l, vs, ts))
<1> DEFINE late == {w \in vs : mtime(l, w) >= ts}
           found == IF late = {} THEN Latest(vs) ELSE Min(late)
<1>1. Len(l) \in Nat /\ \A i \in 1..Len(l) : l[i] \in Nat
  BY LenProperties, ElementOfSeq DEF Times
<1>2. found \in 0..Len(l)
  <2>1. CASE late = {}
    BY <1>1, <2>1, LatestIs
  <2>2. CASE late # {}
    <3>1. late \in SUBSET Nat /\ late \subseteq 1..Len(l)
      <4>1. late \subseteq vs /\ 1..Len(l) \subseteq Nat
        BY <1>1
      <4> HIDE DEF late
      <4> QED BY <4>1
    <3>2. \E m \in late : \A k \in late : m <= k
      <4> HIDE DEF late
      <4> QED BY <2>2, <3>1, LeastNumber
    <3>3. Min(late) \in late
      BY <3>2 DEF Min
    <3>4. Min(late) \in 1..Len(l)
      BY <3>1, <3>3
    <3> QED BY <2>2, <3>4, <1>1
  <2> QED BY <2>1, <2>2
<1>3. AtOrAfterTime(l, vs, ts) =
         IF found = NoMilestone \/ mtime(l, found) < ts THEN NoMilestone ELSE found
  BY DEF AtOrAfterTime
<1> HIDE DEF found
<1>4. found # NoMilestone => found \in 1..Len(l)
  BY <1>1, <1>2 DEF NoMilestone
<1> QED BY <1>1, <1>2, <1>3, <1>4 DEF ToAfter, NoMilestone, mtime

-----------------------------------------------------------------------------
(* Snapshots from ops.  The ops that follow a snapshot without a gap.      *)
After(from, k) == [i \in 1..k |-> from + i - 1]

LEMMA AfterIs ==
    ASSUME NEW from \in Nat, NEW k \in Nat
    PROVE  /\ After(from, k) \in Seq(Nat) /\ Len(After(from, k)) = k
           /\ \A i \in 1..k : After(from, k)[i] = from + i - 1
           /\ After(from, 0) = <<>>
<1>1. \A n \in Nat : After(from, n) \in [1..n -> Nat]
  BY DEF After
<1>2. \A n \in Nat : After(from, n) \in Seq(Nat) /\ Len(After(from, n)) = n
  BY <1>1, SeqDef, LenProperties
<1>3. After(from, 0) = <<>>
  BY <1>2, EmptySeq
<1> QED BY <1>2, <1>3 DEF After

LEMMA PrefixIs ==
    ASSUME NEW n \in Nat
    PROVE  /\ Prefix(n) \in Seq(Nat) /\ Len(Prefix(n)) = n
           /\ \A i \in 1..n : Prefix(n)[i] = i - 1
<1>1. Prefix(n) \in [1..n -> Nat]
  BY DEF Prefix
<1>2. Prefix(n) \in Seq(Nat)
  BY <1>1, SeqDef
<1> QED BY <1>1, <1>2, LenProperties DEF Prefix

LEMMA BuildSnapshotIs ==
    ASSUME NEW from \in Nat, NEW k \in Nat
    PROVE  BuildSnapshot(from, After(from, k)) = SnapshotAt(from + k)
<1> DEFINE a == After(from, k)
           p == Prefix(from) \o a
           q == Prefix(from + k)
<1>1. /\ a \in Seq(Nat) /\ Len(a) = k /\ \A i \in 1..k : a[i] = from + i - 1
      /\ k = 0 => a = <<>>
  BY AfterIs
<1>2. /\ Prefix(from) \in Seq(Nat) /\ Len(Prefix(from)) = from
      /\ \A i \in 1..from : Prefix(from)[i] = i - 1
  BY PrefixIs
<1>3. q \in Seq(Nat) /\ Len(q) = from + k /\ \A i \in 1..from + k : q[i] = i - 1
  <2>1. from + k \in Nat
    OBVIOUS
  <2> QED BY <2>1, PrefixIs
<1> HIDE DEF a, q
<1>4. /\ p \in Seq(Nat) /\ Len(p) = from + k
      /\ \A i \in 1..from + k : p[i] = IF i <= from THEN Prefix(from)[i] ELSE a[i - from]
  <2> HIDE DEF p
  <2>1. /\ p \in Seq(Nat) /\ Len(p) = Len(Prefix(from)) + Len(a)
        /\ \A i \in 1 .. Len(Prefix(from)) + Len(a) : p[i] =
              IF i <= Len(Prefix(from)) THEN Prefix(from)[i] ELSE a[i - Len(Prefix(from))]
    BY <1>1, <1>2, ConcatProperties DEF p
  <2> QED BY <1>1, <1>2, <2>1
<1> HIDE DEF p
<1>5. \A i \in 1..from + k : p[i] = q[i]
  <2>1. ASSUME NEW i \in 1..from + k, i > from PROVE p[i] = q[i]
    <3>1. i - from \in 1..k
      BY <2>1
    <3> QED BY <1>1, <1>3, <1>4, <2>1, <3>1
  <2> QED BY <1>2, <1>3, <1>4, <2>1
<1>6. p = q
  BY <1>3, <1>4, <1>5, SeqEqual
<1>7. (IF a = <<>> THEN from ELSE a[Len(a)] + 1) = from + k
  <2>1. CASE k = 0
    BY <1>1, <2>1
  <2>2. CASE k # 0
    <3>1. a # <<>> /\ k \in 1..k
      BY <1>1, <2>2, EmptySeq
    <3> QED BY <1>1, <3>1
  <2> QED BY <2>1, <2>2
<1> QED BY <1>6, <1>7 DEF BuildSnapshot, SnapshotAt, a, p, q

LEMMA GetOpsIs ==
    ASSUME NEW l \in Seq(Nat), NEW from \in Nat, NEW to \in Nat
    PROVE  LET end == IF to = NoMilestone \/ to > Len(l) THEN Len(l) ELSE to
           IN  GetOps(l, from, to) = After(from, IF from >= end THEN 0 ELSE end - from)
<1>1. Len(l) \in Nat
  BY LenProperties
<1>2. After(from, 0) = <<>>
  BY AfterIs
<1> QED BY <1>1, <1>2 DEF GetOps, After, NoMilestone

(* A snapshot by version is that version, or an error when the document    *)
(* has not come so far, from whatever earlier milestone it is built        *)
(* (backend.js: _fetchSnapshot; milestone-db/memory.js).                   *)
THEOREM SnapshotOfVersion ==
    ASSUME NEW l \in Seq(Nat), NEW version \in Nat \ {0},
           NEW from \in Nat, from <= version
    PROVE  ByVersion(l, from, version) =
               IF version > Len(l) THEN [error |-> TRUE]
               ELSE [error |-> FALSE, snap |-> SnapshotAt(version)]
<1>1. Len(l) \in Nat
  BY LenProperties
<1>2. CASE version > Len(l)
  BY <1>2 DEF ByVersion, MissingOps
<1>3. CASE ~(version > Len(l))
  <2>1. GetOps(l, from, version) = After(from, IF from >= version THEN 0 ELSE version - from)
    BY <1>1, <1>3, GetOpsIs DEF NoMilestone
  <2>2. (IF from >= version THEN 0 ELSE version - from) = version - from /\ version - from \in Nat
    OBVIOUS
  <2>3. BuildSnapshot(from, GetOps(l, from, version)) = SnapshotAt(version)
    <3>1. from + (version - from) = version
      OBVIOUS
    <3>2. BuildSnapshot(from, After(from, version - from)) = SnapshotAt(from + (version - from))
      BY <2>2, BuildSnapshotIs
    <3>3. GetOps(l, from, version) = After(from, version - from)
      BY <2>1, <2>2
    <3> QED BY <3>1, <3>2, <3>3
  <2> QED BY <1>1, <1>3, <2>3 DEF ByVersion, MissingOps, SnapshotAt
<1> QED BY <1>2, <1>3

(* A snapshot by time has no op younger than the time, and every older one *)
(* that the log has, whichever milestones it is built between (backend.js: *)
(* _fetchSnapshotByTimestamp, filterOpsInPlaceBeforeTimestamp).            *)
THEOREM SnapshotOfTime ==
    ASSUME NEW l, Times(l), NEW ts \in Nat, NEW from, FromBefore(l, ts, from),
           NEW to, ToAfter(l, ts, to)
    PROVE  \E v \in 0..Len(l) :
               /\ ByTimestamp(l, from, to, ts) = [error |-> FALSE, snap |-> SnapshotAt(v)]
               /\ \A i \in 1..v : l[i] <= ts
               /\ \A i \in 1..Len(l) : l[i] < ts => i <= v
<1> DEFINE end == IF to = NoMilestone \/ to > Len(l) THEN Len(l) ELSE to
           k == IF from >= end THEN 0 ELSE end - from
           ops == After(from, k)
           young == {i \in DOMAIN ops : l[ops[i] + 1] > ts}
           c == IF young = {} THEN k ELSE Min(young) - 1
           v == from + c
<1>1. Len(l) \in Nat /\ \A i \in 1..Len(l) : l[i] \in Nat
  BY LenProperties, ElementOfSeq DEF Times
<1>2. from \in Nat /\ to \in Nat /\ from <= Len(l) /\ to <= Len(l)
  BY <1>1 DEF FromBefore, ToAfter
<1>3. end \in Nat /\ end <= Len(l) /\ k \in Nat /\ from + k <= Len(l) /\ from + k >= end
  BY <1>1, <1>2
<1>4. GetOps(l, from, to) = ops
  BY <1>2, GetOpsIs DEF Times
<1> HIDE DEF end, k
<1>5. /\ ops \in Seq(Nat) /\ Len(ops) = k /\ DOMAIN ops = 1..k
      /\ \A i \in 1..k : ops[i] = from + i - 1
  <2>1. /\ ops \in Seq(Nat) /\ Len(ops) = k
        /\ \A i \in 1..k : ops[i] = from + i - 1
    BY <1>2, <1>3, AfterIs
  <2> HIDE DEF ops
  <2>2. DOMAIN ops = 1..Len(ops)
    BY <2>1, LenProperties
  <2> QED BY <2>1, <2>2
<1>6. \A i \in 1..k : ops[i] + 1 = from + i /\ from + i \in 1..Len(l)
  BY <1>1, <1>2, <1>3, <1>5
<1>7. young = {i \in 1..k : l[from + i] > ts}
  BY <1>5, <1>6
<1> HIDE DEF young
<1>8. young # {} => Min(young) \in young /\ \A i \in young : Min(young) <= i
  <2>1. young \in SUBSET Nat
    BY <1>3, <1>7
  <2>2. young # {} => \E x \in young : \A y \in young : x <= y
    BY <2>1, LeastNumber
  <2> QED BY <2>2 DEF Min
<1>9. c \in 0..k /\ (\A i \in 1..c : i \notin young)
      /\ (young # {} => c + 1 \in young)
  <2>1. CASE young = {}
    BY <2>1, <1>3
  <2>2. CASE young # {}
    <3>1. Min(young) \in 1..k
      BY <1>7, <1>8, <2>2
    <3> QED BY <1>3, <1>8, <2>2, <3>1
  <2> QED BY <2>1, <2>2
<1>10. BeforeTimestamp(l, ops, ts) = After(from, c)
  <2>1. CASE young = {}
    BY <2>1 DEF BeforeTimestamp, young
  <2>2. CASE young # {}
    <3>1. c = Min(young) - 1 /\ c \in Nat /\ c <= k
      BY <2>2, <1>9
    <3> HIDE DEF c, ops
    <3>2. \A i \in 1..c : i \in 1..k /\ ops[i] \in Nat
      BY <1>2, <1>3, <1>5, <3>1
    <3>3. /\ SubSeq(ops, 1, c) \in Seq(Nat)
          /\ Len(SubSeq(ops, 1, c)) = c
          /\ \A i \in 1..c : SubSeq(ops, 1, c)[i] = ops[i]
      <4>1. /\ SubSeq(ops, 1, c) \in Seq(Nat)
            /\ Len(SubSeq(ops, 1, c)) = IF 1 <= c THEN c - 1 + 1 ELSE 0
            /\ \A i \in 1..(c - 1 + 1) : SubSeq(ops, 1, c)[i] = ops[1 + i - 1]
        BY <3>1, <3>2, SubSeqProperties
      <4>2. c - 1 + 1 = c /\ \A i \in 1..c : 1 + i - 1 = i
        BY <3>1
      <4> QED BY <3>1, <4>1, <4>2
    <3>4. /\ After(from, c) \in Seq(Nat) /\ Len(After(from, c)) = c
          /\ \A i \in 1..c : After(from, c)[i] = from + i - 1
      BY <1>2, <3>1, AfterIs
    <3>5. \A i \in 1..c : SubSeq(ops, 1, c)[i] = After(from, c)[i]
      BY <1>5, <3>2, <3>3, <3>4
    <3>6. SubSeq(ops, 1, c) = After(from, c)
      BY <3>3, <3>4, <3>5, SeqEqual
    <3> QED BY <2>2, <3>1, <3>6 DEF BeforeTimestamp, young
  <2> QED BY <2>1, <2>2
<1> HIDE DEF ops
<1>11. ByTimestamp(l, from, to, ts) = [error |-> FALSE, snap |-> SnapshotAt(v)]
  <2>1. c \in Nat
    BY <1>3, <1>9
  <2> HIDE DEF c
  <2>2. BuildSnapshot(from, After(from, c)) = SnapshotAt(from + c)
    BY <1>2, <2>1, BuildSnapshotIs
  <2> QED BY <1>4, <1>10, <2>2 DEF ByTimestamp
<1> HIDE DEF c
<1>12. v \in 0..Len(l) /\ v \in Nat
  BY <1>1, <1>2, <1>3, <1>9
<1>13. ASSUME NEW i \in 1..v PROVE l[i] <= ts
  <2>1. i \in 1..Len(l) /\ l[i] \in Nat
    BY <1>1, <1>12
  <2>2. CASE i <= from
    <3>1. from # NoMilestone /\ from \in 1..Len(l) /\ l[from] <= ts
      BY <1>1, <1>2, <2>1, <2>2 DEF FromBefore, NoMilestone
    <3>2. l[i] <= l[from]
      BY <2>1, <2>2, <3>1 DEF Times
    <3> QED BY <1>1, <2>1, <3>1, <3>2
  <2>3. CASE i > from
    <3>1. i - from \in 1..c /\ i - from \in 1..k /\ from + (i - from) = i
      BY <1>2, <1>3, <1>9, <2>1, <2>3
    <3>2. i - from \notin young
      BY <1>9, <3>1
    <3>3. ~(l[from + (i - from)] > ts)
      BY <1>7, <3>1, <3>2
    <3> QED BY <2>1, <3>1, <3>3
  <2> QED BY <1>2, <2>1, <2>2, <2>3
<1>14. ASSUME NEW i \in 1..Len(l), l[i] < ts PROVE i <= v
  <2> SUFFICES ASSUME i > v PROVE FALSE
    BY <1>1, <1>12
  <2>1. l[i] \in Nat
    BY <1>1
  <2>2. CASE young # {}
    <3>1. c + 1 \in young /\ c + 1 \in 1..k /\ l[from + (c + 1)] > ts
      BY <1>7, <1>9, <2>2
    <3>2. from + (c + 1) = v + 1 /\ v + 1 \in 1..Len(l) /\ v + 1 <= i
      BY <1>1, <1>2, <1>3, <1>9, <1>12, <3>1
    <3>3. l[v + 1] <= l[i] /\ l[v + 1] > ts
      BY <3>1, <3>2 DEF Times
    <3> QED BY <1>1, <1>14, <2>1, <3>2, <3>3
  <2>3. CASE young = {}
    <3>1. v = from + k
      BY <2>3 DEF c
    <3>2. end <= v /\ end < i
      BY <1>2, <1>3, <1>12, <3>1
    <3>3. end = to /\ to \in 1..Len(l) /\ to <= i /\ l[to] >= ts
      BY <1>1, <1>2, <3>2 DEF end, ToAfter, NoMilestone
    <3>4. l[to] <= l[i]
      BY <3>3 DEF Times
    <3> QED BY <1>1, <1>14, <2>1, <3>3, <3>4
  <2> QED BY <2>2, <2>3
<1> HIDE DEF v
<1> QED BY <1>11, <1>12, <1>13, <1>14

-----------------------------------------------------------------------------
(* Sequences, of whatever they hold.                                       *)
List(s) == s \in Seq(Range(s))

LEMMA ListIs ==
    ASSUME NEW S, NEW s \in Seq(S)
    PROVE  /\ List(s) /\ Range(s) \subseteq S
           /\ Len(s) \in Nat /\ DOMAIN s = 1..Len(s)
BY SeqOfRange, RangeOfSeq, LenProperties DEF List

LEMMA EmptyList == List(<<>>) /\ Range(<<>>) = {}
<1> DEFINE e == <<>>
           S == {}
<1>1. e \in Seq(S)
  BY EmptySeq
<1> HIDE DEF e, S
<1>2. List(e) /\ Range(e) \subseteq S
  BY <1>1, ListIs
<1> QED BY <1>2 DEF e, S

LEMMA OneList == ASSUME NEW e PROVE List(<<e>>) /\ Range(<<e>>) = {e}
<1>1. <<e>> \in Seq({e})
  OBVIOUS
<1>2. Range(<<e>>) = {e}
  BY DEF Range
<1> QED BY <1>1, <1>2 DEF List

LEMMA ConcatList ==
    ASSUME NEW s, List(s), NEW t, List(t)
    PROVE  List(s \o t) /\ Range(s \o t) = Range(s) \cup Range(t)
<1> DEFINE S == Range(s) \cup Range(t)
<1>1. s \in Seq(S) /\ t \in Seq(S)
  BY SeqMonotonic DEF List
<1> HIDE DEF S
<1>2. s \o t \in Seq(S)
  BY <1>1, ConcatProperties
<1>3. Range(s \o t) = Range(s) \cup Range(t)
  BY <1>1, RangeConcatenation
<1> QED BY <1>2, <1>3, ListIs

LEMMA TailList ==
    ASSUME NEW s, List(s), s # <<>>
    PROVE  /\ Head(s) \in Range(s)
           /\ List(Tail(s)) /\ Range(Tail(s)) \subseteq Range(s)
<1> DEFINE S == Range(s)
<1>1. s \in Seq(S)
  BY DEF List
<1> HIDE DEF S
<1>2. Head(s) \in S /\ Tail(s) \in Seq(S)
  BY <1>1, HeadTailProperties
<1> QED BY <1>2, ListIs DEF S

LEMMA SetToSeqIs ==
    ASSUME NEW S, IsFiniteSet(S)
    PROVE  List(SetToSeq(S)) /\ Range(SetToSeq(S)) \subseteq S
<1> DEFINE n == Cardinality(S)
           s == CHOOSE f \in [1..n -> S] : IsInjective(f)
<1>1. n \in Nat /\ \E f \in [1..n -> S] : IsInjective(f)
  BY FS_CardinalityType DEF ExistsBijection, Bijection, Injection
<1>2. SetToSeq(S) = s
  BY DEF SetToSeq
<1> HIDE DEF n
<1>3. s \in [1..n -> S]
  BY <1>1
<1> HIDE DEF s
<1>4. s \in Seq(S)
  BY <1>1, <1>3, SeqDef
<1> QED BY <1>2, <1>4, ListIs

LEMMA FlattenIs ==
    ASSUME NEW R, NEW ss \in Seq(Seq(R))
    PROVE  FlattenSeq(ss) \in Seq(R)
<1> DEFINE P == Seq(R)
           n == Len(ss)
           z == 1
           T == [q \in P \X (z + 1 .. n) |-> q[1] \o ss[q[2]]]
           Through(f) == f = [i \in 1..n |-> IF i = 1 THEN ss[i] ELSE f[i - 1] \o ss[i]]
           g == CHOOSE f : Through(f)
<1>1. n \in Nat /\ \A i \in 1..n : ss[i] \in P
  BY LenProperties, ElementOfSeq
<1>2. CASE n = 0
  <2>1. ss = <<>> /\ FlattenSeq(ss) = ss
    BY <1>2, EmptySeq DEF FlattenSeq
  <2> QED BY <2>1, EmptySeq
<1>3. CASE n # 0
  <2>1. z \in Int /\ n \in Int /\ z <= n /\ ss[1] \in P
    BY <1>1, <1>3
  <2>2. T \in [P \X (z + 1 .. n) -> P]
    <3>1. \A q \in P \X (z + 1 .. n) : q[1] \in P /\ q[2] \in 1..n
      OBVIOUS
    <3>2. \A q \in P \X (z + 1 .. n) : q[1] \o ss[q[2]] \in P
      BY <1>1, <3>1, ConcatProperties
    <3> QED BY <3>2
  <2>3. \A x \in P : \A i \in z + 1 .. n : T[<<x, i>>] = x \o ss[i]
    OBVIOUS
  <2> HIDE DEF T
  <2>4. PICK f \in [1..n -> P] : Steps(f, 1, n, ss[1], T)
    <3> HIDE DEF n, z, P
    <3>1. \E f \in [z..n -> P] : Steps(f, z, n, ss[1], T)
      BY <2>1, <2>2, StepsExist
    <3> QED BY <3>1 DEF z
  <2>5. ASSUME NEW i \in 1..n, i # 1 PROVE T[<<f[i - 1], i>>] = f[i - 1] \o ss[i]
    <3>1. i \in z + 1 .. n /\ i - 1 \in 1..n
      BY <1>1, <2>5
    <3> QED BY <2>3, <2>4, <3>1
  <2>6. Through(f)
    BY <2>4, <2>5 DEF Steps
  <2>7. Through(g)
    <3> HIDE DEF Through
    <3> QED BY <2>6
  <2>8. FlattenSeq(ss) = g[n]
    BY <1>3 DEF FlattenSeq
  <2> HIDE DEF g
  <2>9. \A i \in 1..n : g[i] = IF i = 1 THEN ss[i] ELSE g[i - 1] \o ss[i]
    BY <2>7
  <2> DEFINE G == {i \in 1..n : g[i] \in P}
  <2>10. z \in G
    BY <2>1, <2>9
  <2>11. \A i \in z..(n - 1) : i \in G => i + 1 \in G
    <3>1. ASSUME NEW i \in z..(n - 1), g[i] \in P PROVE g[i + 1] \in P
      <4>1. i + 1 \in 1..n /\ i + 1 - 1 = i /\ i + 1 # 1
        BY <1>1
      <4> DEFINE k == i + 1
      <4>2. g[k] = IF k = 1 THEN ss[k] ELSE g[k - 1] \o ss[k]
        <5> HIDE DEF k
        <5> QED BY <2>9, <4>1 DEF k
      <4>3. g[i + 1] = g[i] \o ss[i + 1]
        <5>1. k # 1 /\ k - 1 = i
          BY <4>1
        <5> HIDE DEF k
        <5>2. g[k] = g[i] \o ss[k]
          BY <4>2, <5>1
        <5> QED BY <5>2 DEF k
      <4> QED BY <1>1, <3>1, <4>1, <4>3, ConcatProperties
    <3> QED BY <1>1, <3>1
  <2>12. \A i \in z..n : i \in G
    <3> HIDE DEF G, z, n
    <3> QED BY <2>1, <2>10, <2>11, InductFrom
  <2>13. n \in z..n
    BY <2>1
  <2>14. g[n] \in P
    BY <2>12, <2>13
  <2> QED BY <2>8, <2>14
<1> QED BY <1>2, <1>3

LEMMA FlattenList ==
    ASSUME NEW ss, List(ss), \A s \in Range(ss) : List(s)
    PROVE  /\ List(FlattenSeq(ss))
           /\ \A e \in Range(FlattenSeq(ss)) : \E s \in Range(ss) : e \in Range(s)
<1> DEFINE R == UNION {Range(s) : s \in Range(ss)}
<1>1. \A s \in Range(ss) : s \in Seq(R)
  <2>1. ASSUME NEW s \in Range(ss) PROVE s \in Seq(R)
    <3>1. Range(s) \subseteq R /\ s \in Seq(Range(s))
      BY DEF List
    <3> HIDE DEF R
    <3> QED BY <3>1, SeqMonotonic
  <2> QED BY <2>1
<1> HIDE DEF R
<1>2. ss \in Seq(Seq(R))
  <2>1. ss \in Seq(Range(ss)) /\ Range(ss) \subseteq Seq(R)
    BY <1>1 DEF List
  <2> QED BY <2>1, SeqMonotonic
<1>3. FlattenSeq(ss) \in Seq(R)
  BY <1>2, FlattenIs
<1>4. List(FlattenSeq(ss)) /\ Range(FlattenSeq(ss)) \subseteq R
  BY <1>3, ListIs
<1> QED BY <1>4 DEF R

-----------------------------------------------------------------------------
(* The client Doc: its version is a number or null, and it sends fetches,  *)
(* subscribes and unsubscribes only.                                       *)
Versions == Nat \cup {None}
Outs == [a : {"f", "s", "u"}, v : Versions]
DocOK(x) == /\ {"v", "out"} \subseteq DOMAIN x
            /\ x.v \in Versions /\ x.out \in Seq(Outs)

LEMMA SendOK ==
    ASSUME NEW x, DocOK(x), NEW a \in {"f", "s", "u"}, NEW v \in Versions
    PROVE  Append(x.out, [a |-> a, v |-> v]) \in Seq(Outs)
BY AppendProperties DEF DocOK, Outs

LEMMA FetchOK ==
    ASSUME NEW x, DocOK(x), NEW live, NEW cbs
    PROVE  DocOK(_fetch(x, live, cbs))
<1> DEFINE y == [x EXCEPT !.penFetch = Append(@, cbs)]
<1>1. DocOK(y) /\ y.v = x.v
  BY DEF DocOK
<1> HIDE DEF y
<1>2. DocOK([y EXCEPT !.infFetch = <<Head(y.penFetch)>>, !.penFetch = Tail(@),
                      !.out = Append(@, [a |-> "f", v |-> x.v])])
  BY <1>1, SendOK DEF DocOK
<1> QED BY <1>1, <1>2 DEF _fetch, y

LEMMA FlushSubscribeOK ==
    ASSUME NEW x, DocOK(x), NEW live
    PROVE  DocOK(_flushSubscribe(x, live))
<1> DEFINE r == Head(x.penSub)
           y == [x EXCEPT !.infSub = r, !.penSub = Tail(@)]
           sends == [a |-> IF r.want THEN "s" ELSE "u", v |-> IF r.want THEN x.v ELSE None]
<1>1. DocOK(y) /\ y.out = x.out
  BY DEF DocOK
<1>2. Append(x.out, sends) \in Seq(Outs)
  <2>1. (IF r.want THEN x.v ELSE None) \in Versions
        /\ (IF r.want THEN "s" ELSE "u") \in {"f", "s", "u"}
    BY DEF DocOK, Versions
  <2> QED BY <2>1, SendOK
<1> HIDE DEF y, r
<1>3. DocOK([y EXCEPT !.want = r.want, !.subd = @ /\ r.want, !.out = Append(@, sends)])
  BY <1>1, <1>2 DEF DocOK
<1>4. DocOK([y EXCEPT !.ticks = @ + 1])
  BY <1>1 DEF DocOK
<1> DEFINE answer == CASE live -> [y EXCEPT !.want = r.want, !.subd = @ /\ r.want,
                                            !.out = Append(@, sends)]
                       [] ~live /\ ~r.want -> [y EXCEPT !.ticks = @ + 1]
                       [] OTHER -> x
<1>5. DocOK(answer)
  BY <1>3, <1>4
<1>6. _flushSubscribe(x, live) =
         IF x.infSub # None \/ x.penSub = <<>> THEN x ELSE answer
  BY DEF _flushSubscribe, y, r
<1> HIDE DEF answer
<1> QED BY <1>5, <1>6

LEMMA QueueSubscribeOK ==
    ASSUME NEW x, DocOK(x), NEW live, NEW want, NEW cbs
    PROVE  DocOK(_queueSubscribe(x, live, want, cbs))
<1> DEFINE n == Len(x.penSub)
           y == [x EXCEPT !.penSub = Append(@, [want |-> want, cbs |-> cbs])]
<1>1. DocOK([x EXCEPT !.penSub[n].cbs = @ \cup cbs])
  BY DEF DocOK
<1>2. DocOK([x EXCEPT !.infSub.cbs = @ \cup cbs])
  BY DEF DocOK
<1>3. DocOK(y)
  BY DEF DocOK
<1> HIDE DEF y
<1>4. DocOK(_flushSubscribe(y, live))
  BY <1>3, FlushSubscribeOK
<1> QED BY <1>1, <1>2, <1>4 DEF _queueSubscribe, y

LEMMA TellOK ==
    ASSUME NEW x, DocOK(x), NEW cbs, NEW how
    PROVE  DocOK(Tell(x, cbs, how)) /\ DocOK(_emitNothingPending(x))
BY DEF DocOK, Tell, _emitNothingPending

LEMMA PutOffOK ==
    ASSUME NEW x, DocOK(x), NEW cbs
    PROVE  DocOK(PutOff(x, cbs))
BY DEF DocOK, PutOff

LEMMA IngestOK ==
    ASSUME NEW x, DocOK(x), NEW live, NEW snap \in Versions, NEW cbs
    PROVE  DocOK(ingestSnapshot(x, live, snap, cbs))
<1>1. DocOK([x EXCEPT !.v = snap])
  BY DEF DocOK
<1> DEFINE y == [x EXCEPT !.v = snap]
<1> HIDE DEF y
<1>2. DocOK(PutOff(y, cbs)) /\ DocOK(PutOff(x, cbs))
  BY <1>1, PutOffOK DEF y
<1> QED BY <1>2, FetchOK DEF ingestSnapshot, y

LEMMA ResponseErrorOK ==
    ASSUME NEW x, DocOK(x), NEW cbs, NEW how
    PROVE  DocOK(_emitResponseError(x, cbs, how))
<1> DEFINE y == [x EXCEPT !.want = @ /\ how # "silent"]
<1>1. DocOK(y)
  BY DEF DocOK
<1> HIDE DEF y
<1> QED BY <1>1, TellOK DEF _emitResponseError, y

LEMMA HandleFetchOK ==
    ASSUME NEW x, DocOK(x), NEW live, NEW r, r.v \in Versions
    PROVE  DocOK(_handleFetch(x, live, r))
<1> DEFINE first == IF x.infFetch = <<>> THEN {} ELSE Head(x.infFetch)
           cbs == first \cup UNION Range(x.penFetch)
           y == [x EXCEPT !.penFetch = <<>>,
                          !.infFetch = IF @ = <<>> THEN @ ELSE Tail(@)]
<1>1. DocOK(y)
  BY DEF DocOK
<1> HIDE DEF y, cbs
<1>2. DocOK(_emitResponseError(y, cbs, r.how))
  BY <1>1, ResponseErrorOK
<1>3. DocOK(_emitNothingPending(ingestSnapshot(y, live, r.v, cbs)))
  BY <1>1, IngestOK, TellOK
<1> QED BY <1>2, <1>3 DEF _handleFetch, y, cbs

LEMMA HandleSubscribeOK ==
    ASSUME NEW x, DocOK(x), NEW live, NEW r, r.v \in Versions
    PROVE  DocOK(_handleSubscribe(x, live, r))
<1> DEFINE s == x.infSub
           y == [x EXCEPT !.infSub = None, !.penFetch = <<>>]
           cbs == s.cbs \cup UNION Range(x.penFetch)
           z == [y EXCEPT !.subd = s.want]
           w == IF s.want THEN ingestSnapshot(z, live, r.v, cbs) ELSE Tell(z, cbs, "ok")
<1>1. DocOK(y)
  BY DEF DocOK
<1>2. DocOK(z)
  <2> HIDE DEF y
  <2> QED BY <1>1 DEF DocOK
<1> HIDE DEF y, z, s, cbs
<1>3. DocOK(_emitResponseError(y, cbs, r.how))
  BY <1>1, ResponseErrorOK
<1>4. DocOK(w)
  BY <1>2, IngestOK, TellOK
<1> HIDE DEF w
<1>5. DocOK(_flushSubscribe(_emitNothingPending(w), live))
  BY <1>4, TellOK, FlushSubscribeOK
<1>6. _handleSubscribe(x, live, r) =
         CASE s = None -> y
           [] s # None /\ r.how # "ok" -> _emitResponseError(y, cbs, r.how)
           [] OTHER -> _flushSubscribe(_emitNothingPending(w), live)
  BY DEF _handleSubscribe, w, z, y, cbs, s
<1> QED BY <1>1, <1>3, <1>5, <1>6

LEMMA ResubscribeOK ==
    ASSUME NEW x, DocOK(x)
    PROVE  DocOK(_resubscribe(x))
<1> DEFINE y == _fetch(x, TRUE, {})
<1>1. DocOK(_queueSubscribe(x, TRUE, TRUE, {}))
  BY QueueSubscribeOK
<1>2. DocOK(y)
  BY FetchOK
<1> HIDE DEF y
<1>3. DocOK(_flushSubscribe(y, TRUE)) /\ DocOK(_flushSubscribe(x, TRUE))
  BY <1>2, FlushSubscribeOK
<1> QED BY <1>1, <1>3 DEF _resubscribe, y

LEMMA PlainOK == Plain.v \in Versions
BY DEF Plain, Versions

LEMMA StateChangedOK ==
    ASSUME NEW x, DocOK(x), NEW live
    PROVE  DocOK(DocStateChanged(x, live))
<1> DEFINE y == [x EXCEPT !.subd = FALSE]
           z == CASE y.infSub = None -> y
                  [] y.infSub # None /\ y.infSub.want ->
                       [y EXCEPT !.penSub = <<x.infSub>> \o @, !.infSub = None]
                  [] OTHER -> _handleSubscribe(
                       [y EXCEPT !.stray = @ \/ y.ticks > 0], FALSE, Plain)
<1>1. DocOK(y)
  BY DEF DocOK
<1> HIDE DEF y
<1>2. DocOK([y EXCEPT !.penSub = <<x.infSub>> \o @, !.infSub = None])
  BY <1>1 DEF DocOK
<1>3. DocOK(_handleSubscribe([y EXCEPT !.stray = @ \/ y.ticks > 0], FALSE, Plain))
  <2> DEFINE w == [y EXCEPT !.stray = @ \/ y.ticks > 0]
  <2>1. DocOK(w)
    BY <1>1 DEF DocOK
  <2> HIDE DEF w
  <2>2. DocOK(_handleSubscribe(w, FALSE, Plain))
    BY <2>1, HandleSubscribeOK, PlainOK
  <2> QED BY <2>2 DEF w
<1>4. DocOK(z)
  BY <1>1, <1>2, <1>3
<1> HIDE DEF z
<1>5. DocOK([z EXCEPT !.penFetch = @ \o z.infFetch, !.infFetch = <<>>])
  BY <1>4 DEF DocOK
<1> QED BY <1>5, ResubscribeOK DEF DocStateChanged, z, y

LEMMA HandleOpOK ==
    ASSUME NEW x, DocOK(x), NEW live, NEW v \in Nat
    PROVE  DocOK(_handleOp(x, live, v))
<1>1. x.v # None => DocOK([x EXCEPT !.v = @ + 1])
  BY DEF DocOK, Versions
<1> QED BY <1>1, FetchOK DEF _handleOp

-----------------------------------------------------------------------------
(* What the docs send.                                                     *)
Asks(m) ==
    /\ m.a \in {"f", "s", "u"}
    /\ DOMAIN m.vs \subseteq Doc /\ \A d \in DOMAIN m.vs : m.vs[d] \in Versions

LEMMA MessagesOK ==
    ASSUME NEW xs, \A d \in Doc : DocOK(xs[d])
    PROVE  List(Messages(xs)) /\ \A m \in Range(Messages(xs)) : Asks(m)
<1> DEFINE of(d) == [i \in DOMAIN xs[d].out |->
                        [a |-> xs[d].out[i].a, vs |-> [e \in {d} |-> xs[d].out[i].v]]]
           S == {of(d) : d \in Doc}
           ss == SetToSeq(S)
<1>1. ASSUME NEW d \in Doc
      PROVE  List(of(d)) /\ \A m \in Range(of(d)) : Asks(m)
  <2> DEFINE n == Len(xs[d].out)
             A == {m \in Range(of(d)) : Asks(m)}
             o == of(d)
  <2>1. n \in Nat /\ DOMAIN xs[d].out = 1..n /\ \A i \in 1..n : xs[d].out[i] \in Outs
    BY LenProperties, ElementOfSeq DEF DocOK
  <2>2. ASSUME NEW i \in 1..n PROVE o[i] \in A
    <3>1. o[i] = [a |-> xs[d].out[i].a, vs |-> [x \in {d} |-> xs[d].out[i].v]]
      BY <2>1
    <3>2. o[i] \in Range(o)
      BY <2>1 DEF Range
    <3>3. xs[d].out[i].a \in {"f", "s", "u"} /\ xs[d].out[i].v \in Versions
      BY <2>1 DEF Outs
    <3> HIDE DEF o
    <3>4. Asks(o[i])
      BY <3>1, <3>3 DEF Asks
    <3> QED BY <3>2, <3>4 DEF o
  <2>3. DOMAIN o = 1..n /\ o = [i \in 1..n |-> o[i]]
    BY <2>1
  <2> HIDE DEF o, A, n
  <2>4. o \in [1..n -> A]
    BY <2>2, <2>3
  <2>5. o \in Seq(A)
    BY <2>1, <2>4, SeqDef
  <2>6. List(o) /\ Range(o) \subseteq A
    BY <2>5, ListIs
  <2> QED BY <2>6 DEF o, A
<1>2. IsFiniteSet(S)
  <2> DEFINE F == [d \in Doc |-> of(d)]
  <2> HIDE DEF of
  <2>1. F \in Surjection(Doc, S)
    BY DEF Surjection
  <2> HIDE DEF F, S
  <2> QED BY <2>1, DocAssumption, FS_Surjection DEF ExistsSurjection
<1>3. List(ss) /\ Range(ss) \subseteq S
  <2> HIDE DEF S
  <2> QED BY <1>2, SetToSeqIs
<1>4. \A s \in Range(ss) : List(s) /\ \A m \in Range(s) : Asks(m)
  <2> HIDE DEF of, ss
  <2>1. \A s \in S : List(s) /\ \A m \in Range(s) : Asks(m)
    BY <1>1
  <2> QED BY <1>3, <2>1
<1>5. Messages(xs) = FlattenSeq(ss)
  BY DEF Messages
<1> HIDE DEF ss
<1> QED BY <1>3, <1>4, <1>5, FlattenList

LEMMA BulkOK ==
    ASSUME NEW xs, \A d \in Doc : DocOK(xs[d])
    PROVE  List(Bulk(xs)) /\ \A m \in Range(Bulk(xs)) : Asks(m)
<1> DEFINE asks(a, known) ==
               {d \in Doc : \E i \in DOMAIN xs[d].out :
                   xs[d].out[i].a = a /\ ((xs[d].out[i].v # None) = known)}
           message(a, known) ==
               IF asks(a, known) = {} THEN <<>>
               ELSE <<[a |-> a, vs |-> [d \in asks(a, known) |->
                                           IF known THEN xs[d].v ELSE None]]>>
           kind(k) == <<"f", "s", "u">>[k]
           both(k) == message(kind(k), FALSE) \o message(kind(k), TRUE)
           ss == [k \in 1..3 |-> both(k)]
<1>1. ASSUME NEW a \in {"f", "s", "u"}, NEW known \in BOOLEAN
      PROVE  List(message(a, known)) /\ \A m \in Range(message(a, known)) : Asks(m)
  <2> DEFINE D == asks(a, known)
             e == [a |-> a, vs |-> [d \in D |-> IF known THEN xs[d].v ELSE None]]
  <2>1. D \subseteq Doc
    OBVIOUS
  <2>2. message(a, known) = IF D = {} THEN <<>> ELSE <<e>>
    OBVIOUS
  <2> HIDE DEF D, message
  <2>3. Asks(e)
    BY <2>1 DEF Asks, DocOK, Versions
  <2> HIDE DEF e
  <2> QED BY <2>2, <2>3, OneList, EmptyList
<1> HIDE DEF message
<1>2. ASSUME NEW k \in 1..3
      PROVE  List(both(k)) /\ \A m \in Range(both(k)) : Asks(m)
  <2>1. kind(k) \in {"f", "s", "u"}
    OBVIOUS
  <2> HIDE DEF kind
  <2>2. /\ List(message(kind(k), FALSE)) /\ \A m \in Range(message(kind(k), FALSE)) : Asks(m)
        /\ List(message(kind(k), TRUE)) /\ \A m \in Range(message(kind(k), TRUE)) : Asks(m)
    BY <1>1, <2>1
  <2> QED BY <2>2, ConcatList
<1> HIDE DEF both
<1>3. List(ss) /\ \A s \in Range(ss) : \E k \in 1..3 : s = both(k)
  <2>1. ss \in Seq(Range(ss)) /\ \A s \in Range(ss) : \E k \in 1..3 : s = both(k)
    <3>1. ss \in [1..3 -> Range(ss)] /\ 3 \in Nat
      BY DEF Range
    <3>2. \A s \in Range(ss) : \E k \in 1..3 : s = both(k)
      BY DEF Range
    <3> QED BY <3>1, <3>2, SeqDef
  <2> QED BY <2>1 DEF List
<1>4. Bulk(xs) = FlattenSeq(ss)
  BY DEF Bulk, both, message
<1> HIDE DEF ss
<1>5. \A s \in Range(ss) : List(s) /\ \A m \in Range(s) : Asks(m)
  BY <1>2, <1>3
<1> QED BY <1>3, <1>4, <1>5, FlattenList

-----------------------------------------------------------------------------
(* The inductive invariant.  An answer is right for a request `q' on a doc *)
(* whose log is `l'.                                                       *)
Right(q, l, r) ==
    /\ r \in Answers
    /\ r.error => ~q.ts /\ q.arg # None /\ q.arg > q.since
    /\ ~r.error =>
        LET v == r.snap.v
        IN  /\ v \in 0..Len(l) /\ r.snap.data = Prefix(v)
            /\ q.arg = None => v >= q.since
            /\ q.arg # None /\ ~q.ts => v = q.arg
            /\ q.arg # None /\ q.ts => /\ \A i \in 1..v : l[i] <= q.arg
                                       /\ \A i \in 1..q.since : l[i] < q.arg => i <= v

LogOK ==
    /\ DOMAIN log = Doc /\ DOMAIN saved = Doc
    /\ \A d \in Doc : /\ Times(log[d]) /\ log[d] # <<>>
                      /\ saved[d] \subseteq 1..Len(log[d])

RequestOK ==
    LET q == request
    IN  q # None => /\ q \in Requests
                    /\ q.arg # None /\ ~q.ts => q.arg > 0
                    /\ q.since <= Len(log[q.d])
                    /\ q.told # None => Right(q, log[q.d], q.told)

DocsOK == DOMAIN doc = Doc /\ \A d \in Doc : DocOK(doc[d]) /\ doc[d].out = <<>>

(* On its way to an agent; what an agent is; a request it works on; on its *)
(* way to the client.                                                      *)
UpOK(m, q) ==
    /\ m.a \in {"f", "s", "u"} => Asks(m)
    /\ m.a \in {"nf", "nt"} => q # None /\ m = RequestMessage(q)

AgentOK(x, q) ==
    /\ {"up", "held"} \subseteq DOMAIN x
    /\ List(x.up) /\ \A m \in Range(x.up) : UpOK(m, q)
    /\ x.held \in [Doc -> Seq(Nat) \cup {None}]

Reading(j, q, l) ==
    /\ j.stage \in {"after", "ops"} => q.arg # None
    /\ j.stage = "after" => q.ts
    /\ j.stage \in {"after", "ops"} /\ q.ts => FromBefore(l, q.arg, j.from)
    /\ j.stage = "ops" /\ q.ts => ToAfter(l, q.arg, j.to)
    /\ j.stage = "ops" /\ ~q.ts => j.from \in Nat /\ j.from <= q.arg
    /\ j.stage = "reply" => Right(q, l, j.res)

JobOK(j, q, ls) ==
    /\ {"m", "stage", "from", "to", "ops", "res", "q"} \subseteq DOMAIN j
    /\ UpOK(j.m, q) /\ j.m.a \in {"f", "s", "nf", "nt"}
    /\ DOMAIN j.ops \subseteq Doc /\ \A d \in DOMAIN j.ops : j.ops[d] \in Seq(Nat)
    /\ \A d \in DOMAIN j.q : j.q[d] \in Seq(Nat)
    /\ (j.m.a \in {"f", "s"} /\ j.stage = "reply") =>
           \A d \in DOMAIN j.res : j.res[d].v \in Versions
    /\ j.m.a \in {"nf", "nt"} => Reading(j, q, ls[q.d])

DownOK(m, q, ls) ==
    /\ m.a \in {"f", "s", "u"} => \A d \in DOMAIN m.res : m.res[d].v \in Versions
    /\ m.a = "op" => m.v \in Nat
    /\ m.a \in {"nf", "nt"} => q # None /\ Right(q, ls[q.d], m.res)

AgentsOK == /\ DOMAIN agents = 1..MaxAgents
            /\ \A a \in 1..MaxAgents : AgentOK(agents[a], request)
JobsOK == \A j \in jobs : JobOK(j, request, log)
ArrivesOK == List(down) /\ \A m \in Range(down) : DownOK(m, request, log)

IInv == /\ sc \in Scenarios /\ canSend \in BOOLEAN
        /\ LogOK /\ RequestOK /\ DocsOK /\ AgentsOK /\ JobsOK /\ ArrivesOK

LEMMA IInvIsRight == IInv => SnapshotRight
<1> SUFFICES ASSUME IInv, request # None, ~Unanswered PROVE SnapshotRight
  BY DEF SnapshotRight
<1> DEFINE q == request
           r == q.told
           l == log[q.d]
<1>1. q \in Requests /\ r # None /\ Right(q, l, r) /\ q.ts \in BOOLEAN
  BY DEF IInv, RequestOK, Unanswered, Requests
<1>2. Times(l) /\ Len(l) \in Nat
  BY <1>1, LenProperties DEF IInv, LogOK, Requests, Times
<1>3. CASE r.error
  BY <1>1, <1>3 DEF SnapshotRight, Right
<1>4. CASE ~r.error
  <2>1. r.snap.v \in 0..Len(l)
    BY <1>1, <1>4 DEF Right
  <2> QED BY <1>1, <1>2, <1>4, <2>1 DEF SnapshotRight, Right
<1> QED BY <1>3, <1>4

-----------------------------------------------------------------------------
(* What a step leaves alone stays right: a request keeps what it asks for, *)
(* and a log only grows.                                                   *)
SameAs(q, p) == p.d = q.d /\ p.ts = q.ts /\ p.arg = q.arg /\ p.since = q.since
Keeps(q, p) == q # None => p # None /\ SameAs(q, p)
Longer(l, k) == /\ Times(l) /\ Times(k) /\ Len(l) <= Len(k)
                /\ \A i \in 1..Len(l) : k[i] = l[i]

LEMMA SameLonger == ASSUME NEW l, Times(l) PROVE Longer(l, l)
<1>1. Len(l) \in Nat
  BY LenProperties DEF Times
<1> QED BY <1>1 DEF Longer

LEMMA RightStays ==
    ASSUME NEW q \in Requests, NEW p, SameAs(q, p), NEW l, NEW k, Longer(l, k),
           q.since <= Len(l), NEW r, Right(q, l, r)
    PROVE  Right(p, k, r)
<1>1. Len(l) \in Nat /\ Len(k) \in Nat /\ Len(l) <= Len(k)
  BY LenProperties DEF Longer, Times
<1>2. q.since \in Nat
  BY DEF Requests
<1>3. CASE r.error
  BY <1>3 DEF Right, SameAs
<1>4. CASE ~r.error
  <2> DEFINE v == r.snap.v
  <2>1. v \in 0..Len(l) /\ v \in 0..Len(k)
    BY <1>1, <1>4 DEF Right
  <2>2. \A i \in 1..v : i \in 1..Len(l) /\ k[i] = l[i]
    BY <1>1, <2>1 DEF Longer
  <2>3. \A i \in 1..q.since : i \in 1..Len(l) /\ k[i] = l[i]
    BY <1>1, <1>2 DEF Longer
  <2> QED BY <1>4, <2>1, <2>2, <2>3 DEF Right, SameAs
<1> QED BY <1>3, <1>4

LEMMA ReadingStays ==
    ASSUME NEW q \in Requests, NEW p, SameAs(q, p), NEW l, NEW k, Longer(l, k),
           q.since <= Len(l), NEW j, Reading(j, q, l)
    PROVE  Reading(j, p, k)
<1>1. Len(l) \in Nat /\ Len(k) \in Nat /\ Len(l) <= Len(k)
  BY LenProperties DEF Longer, Times
<1>2. \A i \in 0..Len(l) : i \in 0..Len(k) /\ (i # 0 => k[i] = l[i])
  BY <1>1 DEF Longer
<1>3. \A from : FromBefore(l, q.arg, from) => FromBefore(k, p.arg, from)
  BY <1>2 DEF FromBefore, SameAs, NoMilestone
<1>4. \A to : ToAfter(l, q.arg, to) => ToAfter(k, p.arg, to)
  BY <1>2 DEF ToAfter, SameAs, NoMilestone
<1>5. j.stage = "reply" => Right(p, k, j.res)
  BY RightStays DEF Reading
<1> QED BY <1>3, <1>4, <1>5 DEF Reading, SameAs

LEMMA UpStays ==
    ASSUME NEW q, NEW p, Keeps(q, p), NEW m, UpOK(m, q)
    PROVE  UpOK(m, p)
BY DEF UpOK, Keeps, SameAs, RequestMessage

(* Of the whole state.                                                     *)
Goes == /\ Keeps(request, request')
        /\ \A d \in Doc : Longer(log[d], log'[d])

LEMMA LogsStay ==
    ASSUME IInv, UNCHANGED log, Keeps(request, request')
    PROVE  Goes
BY SameLonger DEF Goes, IInv, LogOK

LEMMA AgentStays ==
    ASSUME NEW q, NEW p, Keeps(q, p), NEW x, AgentOK(x, q)
    PROVE  AgentOK(x, p)
BY UpStays DEF AgentOK

LEMMA JobStays ==
    ASSUME IInv, Goes, NEW j, JobOK(j, request, log)
    PROVE  JobOK(j, request', log')
<1>1. UpOK(j.m, request')
  BY UpStays DEF JobOK, Goes
<1>2. ASSUME j.m.a \in {"nf", "nt"} PROVE Reading(j, request', log'[request'.d])
  <2>1. request # None /\ request \in Requests /\ request.since <= Len(log[request.d])
    BY <1>2 DEF JobOK, UpOK, IInv, RequestOK
  <2>2. SameAs(request, request') /\ Longer(log[request.d], log'[request.d])
    BY <2>1 DEF Goes, Keeps, Requests
  <2>3. Reading(j, request, log[request.d])
    BY <1>2 DEF JobOK
  <2>4. Reading(j, request', log'[request.d])
    BY <2>1, <2>2, <2>3, ReadingStays
  <2> QED BY <2>2, <2>4 DEF SameAs
<1> QED BY <1>1, <1>2 DEF JobOK

LEMMA ArrivingStays ==
    ASSUME IInv, Goes, NEW m, DownOK(m, request, log)
    PROVE  DownOK(m, request', log')
<1>1. ASSUME m.a \in {"nf", "nt"}
      PROVE  request' # None /\ Right(request', log'[request'.d], m.res)
  <2>1. /\ request # None /\ request \in Requests /\ request.since <= Len(log[request.d])
        /\ Right(request, log[request.d], m.res)
    BY <1>1 DEF DownOK, IInv, RequestOK
  <2>2. request' # None /\ SameAs(request, request') /\ Longer(log[request.d], log'[request.d])
    BY <2>1 DEF Goes, Keeps, Requests
  <2>3. Right(request', log'[request.d], m.res)
    BY <2>1, <2>2, RightStays
  <2> QED BY <2>2, <2>3 DEF SameAs
<1> QED BY <1>1 DEF DownOK

(* The request stays right when it changes in what was sent and told.      *)
LEMMA RequestStays ==
    ASSUME IInv, Goes,
           \/ UNCHANGED request
           \/ \E b \in BOOLEAN : request # None /\ request' = [request EXCEPT !.sent = b]
    PROVE  RequestOK'
<1> SUFFICES ASSUME request' # None PROVE RequestOK'
  BY DEF RequestOK
<1>1. request # None /\ request \in Requests
  BY DEF IInv, RequestOK
<1>2. /\ SameAs(request, request') /\ request'.told = request.told /\ request' \in Requests
  BY <1>1 DEF SameAs, Requests
<1>3. /\ request.d \in Doc /\ request.since \in Nat /\ request.since <= Len(log[request.d])
      /\ Longer(log[request.d], log'[request.d])
  BY <1>1 DEF IInv, RequestOK, Goes, Requests
<1>4. request'.since <= Len(log'[request'.d])
  <2>1. Len(log[request.d]) \in Nat /\ Len(log'[request.d]) \in Nat
    BY <1>3, LenProperties DEF Longer, Times
  <2> QED BY <1>2, <1>3, <2>1 DEF Longer, SameAs
<1>5. request.told # None => Right(request', log'[request.d], request.told)
  <2>1. request.told # None => Right(request, log[request.d], request.told)
    BY <1>1 DEF IInv, RequestOK
  <2> QED BY <1>1, <1>2, <1>3, <2>1, RightStays
<1>6. request.arg # None /\ ~request.ts => request.arg > 0
  BY <1>1 DEF IInv, RequestOK
<1> HIDE DEF SameAs
<1> QED BY <1>2, <1>4, <1>5, <1>6 DEF RequestOK, SameAs

-----------------------------------------------------------------------------
(* The parts of the state that a step changes.                             *)
LEMMA RequestMarked ==
    ASSUME IInv, request # None, NEW b \in BOOLEAN,
           request' = [request EXCEPT !.sent = b]
    PROVE  Keeps(request, request')
<1>1. request \in Requests
  BY DEF IInv, RequestOK
<1>2. request' \in Requests
  BY <1>1 DEF Requests
<1> QED BY <1>1, <1>2, NoneAssumption DEF Keeps, SameAs, Requests

LEMMA LogsSame == ASSUME IInv, UNCHANGED <<log, saved>> PROVE LogOK'
BY DEF IInv, LogOK

LEMMA DocsSame == ASSUME IInv, UNCHANGED doc PROVE DocsOK'
BY DEF IInv, DocsOK

LEMMA AgentsSame == ASSUME IInv, Goes, UNCHANGED agents PROVE AgentsOK'
BY AgentStays DEF IInv, AgentsOK, Goes

LEMMA JobsSame == ASSUME IInv, Goes, UNCHANGED jobs PROVE JobsOK'
BY JobStays DEF IInv, JobsOK

LEMMA DownSame == ASSUME IInv, Goes, UNCHANGED down PROVE ArrivesOK'
BY ArrivingStays DEF IInv, ArrivesOK

LEMMA OneAgent ==
    ASSUME IInv, Goes, NEW a, NEW x, a \in 1..MaxAgents => AgentOK(x, request'),
           agents' = [agents EXCEPT ![a] = x]
    PROVE  AgentsOK'
<1>1. DOMAIN agents = 1..MaxAgents /\ DOMAIN agents' = 1..MaxAgents
  BY DEF IInv, AgentsOK
<1>2. ASSUME NEW b \in 1..MaxAgents PROVE AgentOK(agents'[b], request')
  <2>1. CASE b = a
    BY <1>1, <2>1
  <2>2. CASE b # a
    <3>1. agents'[b] = agents[b] /\ AgentOK(agents[b], request)
      BY <1>1, <2>2 DEF IInv, AgentsOK
    <3> QED BY <3>1, AgentStays DEF Goes
  <2> QED BY <2>1, <2>2
<1> QED BY <1>1, <1>2 DEF AgentsOK

LEMMA SentOK ==
    ASSUME IInv, Goes, NEW msgs, List(msgs), \A m \in Range(msgs) : UpOK(m, request'),
           Send(msgs)
    PROVE  AgentsOK'
<1> DEFINE x == [agents[cur] EXCEPT !.up = @ \o msgs]
<1>1. agents' = [agents EXCEPT ![cur] = x]
  BY DEF Send
<1>2. ASSUME cur \in 1..MaxAgents PROVE AgentOK(x, request')
  <2>1. AgentOK(agents[cur], request')
    BY <1>2, AgentStays DEF IInv, AgentsOK, Goes
  <2>2. /\ List(agents[cur].up \o msgs)
        /\ \A m \in Range(agents[cur].up \o msgs) : UpOK(m, request')
    BY <2>1, ConcatList DEF AgentOK
  <2> QED BY <2>1, <2>2 DEF AgentOK
<1> HIDE DEF x
<1> QED BY <1>1, <1>2, OneAgent

(* A request that came, taken by its agent.                                *)
LEMMA TakenOK ==
    ASSUME IInv, NEW a \in 1..MaxAgents, NEW kinds, Taking(a, kinds)
    PROVE  /\ UpOK(Head(agents[a].up), request) /\ Head(agents[a].up).a \in kinds
           /\ \A x : (/\ {"up", "held"} \subseteq DOMAIN x
                      /\ x.up = Tail(agents[a].up)
                      /\ x.held \in [Doc -> Seq(Nat) \cup {None}])
                     => AgentOK(x, request)
<1>1. AgentOK(agents[a], request)
  BY DEF IInv, AgentsOK
<1>2. agents[a].up # <<>> /\ List(agents[a].up)
  BY <1>1 DEF AgentOK, Taking
<1>3. /\ Head(agents[a].up) \in Range(agents[a].up)
      /\ List(Tail(agents[a].up)) /\ Range(Tail(agents[a].up)) \subseteq Range(agents[a].up)
  BY <1>2, TailList
<1> QED BY <1>1, <1>3 DEF AgentOK, Taking

LEMMA JobsChange ==
    ASSUME IInv, Goes, NEW k, JobOK(k, request', log'), jobs' \subseteq jobs \cup {k}
    PROVE  JobsOK'
BY JobStays DEF IInv, JobsOK

LEMMA ArrivesIs ==
    ASSUME IInv, Goes, NEW a, NEW msgs, List(msgs),
           \A m \in Range(msgs) : DownOK(m, request', log'),
           down' = Arrives(a, msgs)
    PROVE  ArrivesOK'
<1>1. List(down) /\ \A m \in Range(down) : DownOK(m, request', log')
  BY ArrivingStays DEF IInv, ArrivesOK
<1>2. down' = down \/ down' = down \o msgs
  BY DEF Arrives
<1>3. List(down') /\ \A m \in Range(down') : DownOK(m, request', log')
  BY <1>1, <1>2, ConcatList
<1> QED BY <1>3 DEF ArrivesOK

LEMMA PutOK ==
    ASSUME NEW xs, NEW asked, \A d \in Doc : DocOK(xs[d]), Put(xs, asked)
    PROVE  DocsOK'
<1>1. doc' = [d \in Doc |-> [xs[d] EXCEPT !.out = <<>>, !.told = <<>>, !.quiet = FALSE]]
  BY DEF Put
<1>2. ASSUME NEW d \in Doc PROVE DocOK(doc'[d]) /\ doc'[d].out = <<>>
  <2>1. <<>> \in Seq(Outs)
    BY EmptySeq
  <2>2. doc'[d] = [xs[d] EXCEPT !.out = <<>>, !.told = <<>>, !.quiet = FALSE]
    BY <1>1
  <2> QED BY <2>1, <2>2 DEF DocOK
<1> QED BY <1>1, <1>2 DEF DocsOK

LEMMA AsksAreOK == ASSUME NEW m, Asks(m), NEW q PROVE UpOK(m, q)
BY DEF Asks, UpOK

LEMMA DocsStepOK ==
    ASSUME IInv, Goes, NEW xs, \A d \in Doc : DocOK(xs[d]), DocsStep(xs)
    PROVE  DocsOK' /\ AgentsOK'
<1>1. Put(xs, calls) /\ Send(Messages(xs))
  BY DEF DocsStep
<1>2. List(Messages(xs)) /\ \A m \in Range(Messages(xs)) : UpOK(m, request')
  BY MessagesOK, AsksAreOK
<1> QED BY <1>1, <1>2, PutOK, SentOK

-----------------------------------------------------------------------------
(* The steps of the client and of the application.                         *)
LEMMA NothingGoes ==
    ASSUME IInv, UNCHANGED <<request, log>>
    PROVE  Goes /\ RequestOK'
<1>1. Keeps(request, request')
  BY DEF Keeps, SameAs
<1> QED BY <1>1, LogsStay, RequestStays

LEMMA NewDocOK == DocOK(NewDoc) /\ NewDoc.out = <<>>
<1>1. <<>> \in Seq(Outs)
  BY EmptySeq
<1> QED BY <1>1 DEF DocOK, NewDoc, Versions

LEMMA InitOK == ASSUME Init PROVE IInv
<1>1. sc \in Scenarios /\ canSend \in BOOLEAN /\ RequestOK /\ JobsOK
  BY DEF Init, RequestOK, JobsOK
<1>2. LogOK
  <2>1. <<1>> \in Seq(Nat) /\ Len(<<1>>) = 1 /\ <<1>> # <<>>
    OBVIOUS
  <2>2. Times(<<1>>)
    BY <2>1 DEF Times
  <2> QED BY <2>1, <2>2 DEF Init, LogOK
<1>3. DocsOK
  BY NewDocOK DEF Init, DocsOK
<1>4. AgentsOK
  <2>1. ASSUME NEW a \in 1..MaxAgents PROVE AgentOK(agents[a], request)
    BY EmptyList DEF Init, AgentOK
  <2> QED BY <2>1 DEF Init, AgentsOK
<1>5. ArrivesOK
  <2> DEFINE m == [a |-> "init"]
  <2>1. DownOK(m, request, log)
    BY DEF DownOK
  <2>2. down = <<m>>
    BY DEF Init
  <2> HIDE DEF m
  <2> QED BY <2>1, <2>2, OneList DEF ArrivesOK
<1> QED BY <1>1, <1>2, <1>3, <1>4, <1>5 DEF IInv

LEMMA CallOK ==
    ASSUME IInv, NEW d \in Doc, NEW kind, Call(kind, d)
    PROVE  IInv'
<1> DEFINE c == Len(calls) + 1
           x == CASE kind = "fetch" -> _fetch(doc[d], canSend, {c})
                  [] kind = "subscribe" -> _queueSubscribe(doc[d], canSend, TRUE, {c})
                  [] OTHER -> _queueSubscribe(doc[d], canSend, FALSE, {c})
           xs == [doc EXCEPT ![d] = x]
           asked == Append(calls, [kind |-> kind, d |-> d, told |-> <<>>])
<1>1. /\ Put(xs, asked) /\ Send(Messages(xs))
      /\ UNCHANGED <<sc, canSend, request, down, jobs, log, saved>>
  BY DEF Call
<1>2. DOMAIN doc = Doc /\ \A e \in Doc : DocOK(doc[e])
  BY DEF IInv, DocsOK
<1> HIDE DEF c
<1>3. DocOK(x)
  BY <1>2, FetchOK, QueueSubscribeOK
<1> HIDE DEF x, asked
<1>4. \A e \in Doc : DocOK(xs[e])
  BY <1>2, <1>3
<1> HIDE DEF xs
<1>5. Goes /\ RequestOK'
  BY <1>1, NothingGoes
<1>6. DocsOK'
  BY <1>1, <1>4, PutOK
<1>7. AgentsOK'
  BY <1>1, <1>4, <1>5, MessagesOK, AsksAreOK, SentOK
<1> QED BY <1>1, <1>5, <1>6, <1>7, LogsSame, JobsSame, DownSame DEF IInv

LEMMA FetchSnapshotOK ==
    ASSUME IInv, NEW d \in Doc, NEW ts \in BOOLEAN, NEW arg \in Versions,
           arg # None /\ ~ts => arg > 0, FetchSnapshot(d, ts, arg)
    PROVE  IInv'
<1> DEFINE r == [d |-> d, ts |-> ts, arg |-> arg, sent |-> canSend,
                 since |-> Len(log[d]), told |-> None]
<1>1. /\ request = None /\ request' = r
      /\ Send(IF canSend THEN <<RequestMessage(r)>> ELSE <<>>)
      /\ UNCHANGED <<sc, canSend, doc, down, jobs, log, saved>>
  BY DEF FetchSnapshot
<1>2. Len(log[d]) \in Nat
  BY LenProperties DEF IInv, LogOK, Times
<1>3. r \in Requests /\ r # None
  <2>1. r \in Requests
    BY <1>2 DEF IInv, Requests, Versions
  <2> HIDE DEF r
  <2> QED BY <2>1, NoneAssumption
<1>4. r.d = d /\ r.ts = ts /\ r.arg = arg /\ r.since = Len(log[d]) /\ r.told = None
  OBVIOUS
<1> HIDE DEF r
<1>5. Goes
  BY <1>1, LogsStay DEF Keeps
<1>6. RequestOK'
  BY <1>1, <1>2, <1>3, <1>4 DEF RequestOK
<1>7. AgentsOK'
  <2> DEFINE m == RequestMessage(r)
  <2>1. UpOK(m, request')
    <3>1. m.a \in {"nf", "nt"}
      BY DEF RequestMessage
    <3>2. m.a \notin {"f", "s", "u"}
      BY DEF RequestMessage
    <3> QED BY <1>1, <1>3, <3>1, <3>2 DEF UpOK
  <2> HIDE DEF m
  <2>2. Send(<<m>>) \/ Send(<<>>)
    BY <1>1 DEF m
  <2>3. List(<<m>>) /\ \A e \in Range(<<m>>) : UpOK(e, request')
    BY <2>1, OneList
  <2>4. List(<<>>) /\ \A e \in Range(<<>>) : UpOK(e, request')
    BY EmptyList
  <2> QED BY <1>5, <2>2, <2>3, <2>4, SentOK
<1> QED BY <1>1, <1>5, <1>6, <1>7, LogsSame, DocsSame, JobsSame, DownSame DEF IInv

LEMMA LookOK == ASSUME IInv, Look PROVE IInv'
<1>1. UNCHANGED <<sc, canSend, doc, request, agents, jobs, log, saved, down>>
  BY DEF Look, server
<1>2. Goes /\ RequestOK'
  BY <1>1, NothingGoes
<1> QED BY <1>1, <1>2, LogsSame, DocsSame, AgentsSame, JobsSame, DownSame DEF IInv

LEMMA TickOK == ASSUME IInv, NEW d \in Doc, Tick(d) PROVE IInv'
<1> DEFINE y == [doc[d] EXCEPT !.ticks = @ - 1]
           x == _handleSubscribe(y, canSend, Plain)
           xs == [doc EXCEPT ![d] = x]
<1>1. DocsStep(xs) /\ UNCHANGED <<sc, canSend, request, down, jobs, log, saved>>
  BY DEF Tick
<1>2. DOMAIN doc = Doc /\ \A e \in Doc : DocOK(doc[e])
  BY DEF IInv, DocsOK
<1>3. DocOK(y)
  BY <1>2 DEF DocOK
<1> HIDE DEF y
<1>4. DocOK(x)
  BY <1>3, HandleSubscribeOK, PlainOK
<1> HIDE DEF x
<1>5. \A e \in Doc : DocOK(xs[e])
  BY <1>2, <1>4
<1> HIDE DEF xs
<1>6. Goes /\ RequestOK'
  BY <1>1, NothingGoes
<1>7. DocsOK' /\ AgentsOK'
  BY <1>1, <1>5, <1>6, DocsStepOK
<1> QED BY <1>1, <1>6, <1>7, LogsSame, JobsSame, DownSame DEF IInv

LEMMA CallBackOK == ASSUME IInv, NEW d \in Doc, CallBack(d) PROVE IInv'
<1> DEFINE y(i) == [doc[d] EXCEPT !.late = RemoveAt(@, i)]
           x(i) == Tell(y(i), doc[d].late[i], "ok")
           ys(i) == [doc EXCEPT ![d] = x(i)]
<1>1. PICK i \in DOMAIN doc[d].late :
         DocsStep(ys(i)) /\ UNCHANGED <<sc, canSend, request, down, jobs, log, saved>>
  BY DEF CallBack
<1> DEFINE xs == ys(i)
<1>2. DOMAIN doc = Doc /\ \A e \in Doc : DocOK(doc[e])
  BY DEF IInv, DocsOK
<1>3. DocOK(y(i))
  BY <1>2 DEF DocOK
<1> HIDE DEF y
<1>4. DocOK(x(i))
  BY <1>3, TellOK
<1> HIDE DEF x
<1>5. \A e \in Doc : DocOK(xs[e])
  BY <1>2, <1>4
<1> HIDE DEF ys
<1>6. Goes /\ RequestOK'
  BY <1>1, NothingGoes
<1>7. DocsOK' /\ AgentsOK'
  BY <1>1, <1>5, <1>6, DocsStepOK
<1> QED BY <1>1, <1>6, <1>7, LogsSame, JobsSame, DownSame DEF IInv

-----------------------------------------------------------------------------
(* The socket.                                                             *)
LEMMA SetStateOK ==
    ASSUME NEW xs, \A d \in Doc : DocOK(xs[d]), NEW from, NEW to
    PROVE  \A d \in Doc : DocOK(_setState(from, xs, to).xs[d])
<1>1. \A d \in Doc : DocOK(DocStateChanged(xs[d], to = "connected"))
  BY StateChangedOK
<1> QED BY <1>1 DEF _setState

LEMMA LeavesOK ==
    ASSUME IInv, NEW s, \A d \in Doc : DocOK(s.xs[d]), NEW sends \in BOOLEAN,
           Down(s, sends), UNCHANGED log
    PROVE  Goes /\ RequestOK' /\ DocsOK' /\ canSend' \in BOOLEAN
<1>1. Goes /\ RequestOK'
  <2>1. CASE UNCHANGED request
    BY <2>1, NothingGoes
  <2>2. CASE request # None /\ request' = [request EXCEPT !.sent = FALSE]
    <3>1. FALSE \in BOOLEAN
      OBVIOUS
    <3>2. Goes
      BY <2>2, <3>1, RequestMarked, LogsStay
    <3> QED BY <2>2, <3>1, <3>2, RequestStays
  <2> QED BY <2>1, <2>2 DEF Down
<1>2. DocsOK'
  <2> DEFINE xs == s.xs
  <2>1. \A d \in Doc : DocOK(xs[d])
    OBVIOUS
  <2>2. Put(xs, calls)
    BY DEF Down
  <2> HIDE DEF xs
  <2> QED BY <2>1, <2>2, PutOK
<1> QED BY <1>1, <1>2 DEF Down

LEMMA InitialDown ==
    ASSUME NEW q, NEW ls
    PROVE  List(<<[a |-> "init"]>>) /\ \A m \in Range(<<[a |-> "init"]>>) : DownOK(m, q, ls)
<1> DEFINE m == [a |-> "init"]
<1>1. DownOK(m, q, ls)
  BY DEF DownOK
<1> HIDE DEF m
<1>2. List(<<m>>) /\ \A e \in Range(<<m>>) : DownOK(e, q, ls)
  BY <1>1, OneList
<1> QED BY <1>2 DEF m

LEMMA HandshakeOK ==
    ASSUME NEW q
    PROVE  /\ List(<<Handshake>>) /\ \A m \in Range(<<Handshake>>) : UpOK(m, q)
<1>1. UpOK(Handshake, q)
  BY DEF Handshake, UpOK
<1> QED BY <1>1, OneList

LEMMA SocketClosedOK ==
    ASSUME IInv, NEW to, SocketClosed(to)
    PROVE  IInv'
<1> DEFINE s == _setState(state, doc, to)
           sends == IF s.state = state THEN canSend ELSE FALSE
<1>1. Down(s, sends) /\ down' = <<>> /\ UNCHANGED <<sc, agents, jobs, log, saved>>
  BY DEF SocketClosed, server
<1>2. \A d \in Doc : DocOK(s.xs[d])
  BY SetStateOK DEF IInv, DocsOK
<1>3. sends \in BOOLEAN
  BY DEF IInv
<1> HIDE DEF s, sends
<1>4. Goes /\ RequestOK' /\ DocsOK' /\ canSend' \in BOOLEAN
  BY <1>1, <1>2, <1>3, LeavesOK
<1>5. ArrivesOK'
  BY <1>1, EmptyList DEF ArrivesOK
<1> QED BY <1>1, <1>4, <1>5, LogsSame, AgentsSame, JobsSame DEF IInv

LEMMA NewAgentOK ==
    ASSUME IInv, Goes, NEW a, agents' = NewAgent(a)
    PROVE  AgentsOK'
<1> DEFINE x == [st |-> "open", src |-> a, up |-> <<>>, held |-> [d \in Doc |-> None]]
<1>1. AgentOK(x, request')
  BY EmptyList DEF AgentOK
<1>2. agents' = [agents EXCEPT ![a] = x]
  BY DEF NewAgent
<1> HIDE DEF x
<1> QED BY <1>1, <1>2, OneAgent

LEMMA BindToSocketOK == ASSUME IInv, BindToSocket PROVE IInv'
<1> DEFINE left(b) == IF sock # "closed" /\ b THEN _setState(state, doc, "closed")
                      ELSE [state |-> state, xs |-> doc]
           next(b) == _setState(left(b).state, left(b).xs, "connecting")
<1>1. PICK atOnce \in BOOLEAN :
      /\ Down(next(atOnce), FALSE) /\ agents' = NewAgent(cur + 1)
      /\ down' = <<[a |-> "init"]>> /\ UNCHANGED <<sc, jobs, log, saved>>
  BY DEF BindToSocket
<1> DEFINE s1 == left(atOnce)
           s2 == next(atOnce)
<1>2. \A d \in Doc : DocOK(s1.xs[d])
  BY SetStateOK DEF IInv, DocsOK
<1> DEFINE xs == s1.xs
           from == s1.state
<1>3. \A d \in Doc : DocOK(s2.xs[d])
  <2>1. \A d \in Doc : DocOK(xs[d])
    BY <1>2
  <2> HIDE DEF xs, from
  <2>2. \A d \in Doc : DocOK(_setState(from, xs, "connecting").xs[d])
    BY <2>1, SetStateOK
  <2> QED BY <2>2 DEF xs, from
<1> HIDE DEF left, next
<1>4. Goes /\ RequestOK' /\ DocsOK' /\ canSend' \in BOOLEAN
  BY <1>1, <1>3, LeavesOK
<1>5. ArrivesOK'
  BY <1>1, InitialDown DEF ArrivesOK
<1>6. AgentsOK'
  BY <1>1, <1>4, NewAgentOK
<1> QED BY <1>1, <1>4, <1>5, <1>6, LogsSame, JobsSame DEF IInv

LEMMA OpenOK == ASSUME IInv, Open PROVE IInv'
<1> DEFINE s == _setState(state, doc, "connecting")
<1>1. /\ Down(s, canSend) /\ Send(<<Handshake>>)
      /\ UNCHANGED <<sc, down, jobs, log, saved>>
  BY DEF Open
<1>2. \A d \in Doc : DocOK(s.xs[d])
  BY SetStateOK DEF IInv, DocsOK
<1> HIDE DEF s
<1>3. Goes /\ RequestOK' /\ DocsOK' /\ canSend' \in BOOLEAN
  BY <1>1, <1>2, LeavesOK DEF IInv
<1>4. AgentsOK'
  BY <1>1, <1>3, HandshakeOK, SentOK
<1> QED BY <1>1, <1>3, <1>4, LogsSame, JobsSame, DownSame DEF IInv

LEMMA ReopenOK == ASSUME IInv, Reopen PROVE IInv'
<1> DEFINE s == _setState(state, doc, "connecting")
           a == cur + 1
           x == [st |-> "open", src |-> a, up |-> <<>>, held |-> [d \in Doc |-> None]]
           up == <<Handshake>>
           y == [x EXCEPT !.up = up]
<1>1. /\ Down(s, FALSE) /\ down' = <<[a |-> "init"]>>
      /\ agents' = [NewAgent(cur + 1) EXCEPT ![cur + 1].up = <<Handshake>>]
      /\ UNCHANGED <<sc, jobs, log, saved>>
  BY DEF Reopen
<1>2. \A d \in Doc : DocOK(s.xs[d])
  BY SetStateOK DEF IInv, DocsOK
<1> HIDE DEF s
<1>3. Goes /\ RequestOK' /\ DocsOK' /\ canSend' \in BOOLEAN
  BY <1>1, <1>2, LeavesOK
<1>4. agents' = [agents EXCEPT ![a] = y]
  <2>1. agents' = [[agents EXCEPT ![a] = x] EXCEPT ![a].up = up]
    BY <1>1 DEF NewAgent
  <2> HIDE DEF x, up, a
  <2> QED BY <2>1
<1>5. AgentOK(y, request')
  BY HandshakeOK DEF AgentOK
<1> HIDE DEF y, a
<1>6. AgentsOK'
  BY <1>3, <1>4, <1>5, OneAgent
<1>7. ArrivesOK'
  BY <1>1, InitialDown DEF ArrivesOK
<1> QED BY <1>1, <1>3, <1>6, <1>7, LogsSame, JobsSame DEF IInv

-----------------------------------------------------------------------------
(* What the client receives.                                               *)
LEMMA ReceivingOK ==
    ASSUME IInv, NEW kinds, Receiving(kinds)
    PROVE  /\ DownOK(Head(down), request, log) /\ Head(down).a \in kinds
           /\ UNCHANGED <<sc, jobs, log, saved>>
           /\ Goes => ArrivesOK'
<1>1. List(down) /\ down # <<>> /\ down' = Tail(down)
  BY DEF Receiving, IInv, ArrivesOK
<1>2. Head(down) \in Range(down) /\ List(down') /\ Range(down') \subseteq Range(down)
  BY <1>1, TailList
<1>3. Goes => ArrivesOK'
  BY <1>2, ArrivingStays DEF IInv, ArrivesOK
<1> QED BY <1>2, <1>3 DEF Receiving, IInv, ArrivesOK

LEMMA LegacyInitOK == ASSUME IInv, _handleLegacyInit PROVE IInv'
<1>1. /\ Receiving({"init"}) /\ Send(<<Handshake>>)
      /\ UNCHANGED <<canSend, doc, request>>
  BY DEF _handleLegacyInit
<1>2. UNCHANGED <<sc, jobs, log, saved>> /\ (Goes => ArrivesOK')
  BY <1>1, ReceivingOK
<1>3. Goes /\ RequestOK'
  BY <1>1, <1>2, NothingGoes
<1>4. AgentsOK'
  BY <1>1, <1>3, HandshakeOK, SentOK
<1> QED BY <1>1, <1>2, <1>3, <1>4, LogsSame, DocsSame, JobsSame DEF IInv

LEMMA MessageOK ==
    ASSUME NEW q, q # None
    PROVE  /\ List(<<RequestMessage(q)>>)
           /\ \A m \in Range(<<RequestMessage(q)>>) : UpOK(m, q)
<1> DEFINE m == RequestMessage(q)
<1>1. m.a \in {"nf", "nt"} /\ m.a \notin {"f", "s", "u"}
  BY DEF RequestMessage
<1>2. UpOK(m, q)
  BY <1>1 DEF UpOK
<1> HIDE DEF m
<1>3. List(<<m>>) /\ \A e \in Range(<<m>>) : UpOK(e, q)
  BY <1>2, OneList
<1> QED BY <1>3 DEF m

LEMMA ClientHandshakeOK == ASSUME IInv, _handleHandshake PROVE IInv'
<1> DEFINE s == _setState(state, doc, "connected")
           resend == Unanswered /\ ~request.sent
           first == IF resend THEN <<RequestMessage(request)>> ELSE <<>>
<1>1. Receiving({"hs"})
  BY DEF _handleHandshake
<1>2. UNCHANGED <<sc, jobs, log, saved>> /\ (Goes => ArrivesOK')
  BY <1>1, ReceivingOK
<1>3. CASE state # "connecting"
  <2>1. UNCHANGED <<canSend, doc, request, agents>>
    BY <1>3 DEF _handleHandshake
  <2>2. Goes /\ RequestOK'
    BY <1>2, <2>1, NothingGoes
  <2> QED BY <1>2, <2>1, <2>2, LogsSame, DocsSame, AgentsSame, JobsSame DEF IInv
<1>4. CASE state = "connecting"
  <2> DEFINE xs == s.xs
  <2>1. /\ canSend' = TRUE /\ Put(xs, calls) /\ Send(first \o Bulk(xs))
        /\ request' = IF resend THEN [request EXCEPT !.sent = TRUE] ELSE request
    BY <1>4 DEF _handleHandshake
  <2>2. \A d \in Doc : DocOK(xs[d])
    BY SetStateOK DEF IInv, DocsOK
  <2> HIDE DEF xs, s
  <2>3. Goes /\ RequestOK'
    <3>1. CASE UNCHANGED request
      BY <1>2, <3>1, NothingGoes
    <3>2. CASE request # None /\ request' = [request EXCEPT !.sent = TRUE]
      <4>1. TRUE \in BOOLEAN
        OBVIOUS
      <4>2. Goes
        BY <1>2, <3>2, <4>1, RequestMarked, LogsStay
      <4> QED BY <3>2, <4>1, <4>2, RequestStays
    <3> QED BY <2>1, <3>1, <3>2 DEF Unanswered
  <2>4. List(first) /\ \A m \in Range(first) : UpOK(m, request')
    <3>1. CASE resend
      <4>1. request # None
        BY <3>1 DEF Unanswered
      <4>2. List(first) /\ \A m \in Range(first) : UpOK(m, request)
        BY <3>1, <4>1, MessageOK
      <4> HIDE DEF first
      <4> QED BY <2>3, <4>2, UpStays DEF Goes
    <3>2. CASE ~resend
      BY <3>2, EmptyList
    <3> QED BY <3>1, <3>2
  <2> HIDE DEF first
  <2>5. List(Bulk(xs)) /\ \A m \in Range(Bulk(xs)) : UpOK(m, request')
    BY <2>2, BulkOK, AsksAreOK
  <2>6. AgentsOK'
    <3>1. List(first \o Bulk(xs)) /\ \A m \in Range(first \o Bulk(xs)) : UpOK(m, request')
      BY <2>4, <2>5, ConcatList
    <3> QED BY <2>1, <2>3, <3>1, SentOK
  <2>7. DocsOK'
    BY <2>1, <2>2, PutOK
  <2> QED BY <1>2, <2>1, <2>3, <2>6, <2>7, LogsSame, JobsSame DEF IInv
<1> QED BY <1>3, <1>4

LEMMA HandleReplyOK == ASSUME IInv, HandleReply PROVE IInv'
<1> DEFINE m == Head(down)
           handle(x, r) == IF m.a = "f" THEN _handleFetch(x, canSend, r)
                           ELSE _handleSubscribe(x, canSend, r)
           xs == [d \in Doc |-> IF d \in DOMAIN m.res THEN handle(doc[d], m.res[d])
                                ELSE doc[d]]
<1>1. /\ Receiving({"f", "s", "u"}) /\ DocsStep(xs)
      /\ UNCHANGED <<canSend, request>>
  BY DEF HandleReply
<1>2. /\ UNCHANGED <<sc, jobs, log, saved>> /\ (Goes => ArrivesOK')
      /\ m.a \in {"f", "s", "u"} /\ DownOK(m, request, log)
  BY <1>1, ReceivingOK
<1> HIDE DEF m
<1>3. \A d \in Doc : DocOK(xs[d])
  <2>1. ASSUME NEW d \in Doc, d \in DOMAIN m.res PROVE DocOK(handle(doc[d], m.res[d]))
    <3>1. m.res[d].v \in Versions /\ DocOK(doc[d])
      BY <1>2, <2>1 DEF DownOK, IInv, DocsOK
    <3> QED BY <3>1, HandleFetchOK, HandleSubscribeOK
  <2> HIDE DEF handle
  <2> QED BY <2>1 DEF IInv, DocsOK
<1> HIDE DEF xs
<1>4. Goes /\ RequestOK'
  BY <1>1, <1>2, NothingGoes
<1>5. DocsOK' /\ AgentsOK'
  BY <1>1, <1>3, <1>4, DocsStepOK
<1> QED BY <1>1, <1>2, <1>4, <1>5, LogsSame, JobsSame DEF IInv

LEMMA ClientOpOK == ASSUME IInv, HandleOp PROVE IInv'
<1> DEFINE m == Head(down)
           e == m.d
           x == _handleOp(doc[e], canSend, m.v)
           xs == [doc EXCEPT ![e] = x]
<1>1. /\ Receiving({"op"}) /\ DocsStep(xs)
      /\ UNCHANGED <<canSend, request>>
  BY DEF HandleOp
<1>2. /\ UNCHANGED <<sc, jobs, log, saved>> /\ (Goes => ArrivesOK')
      /\ m.a = "op" /\ DownOK(m, request, log)
  BY <1>1, ReceivingOK
<1>3. m.v \in Nat
  BY <1>2 DEF DownOK
<1> HIDE DEF m
<1>4. DOMAIN doc = Doc /\ \A d \in Doc : DocOK(doc[d])
  BY DEF IInv, DocsOK
<1>5. e \in Doc => DocOK(x)
  BY <1>3, <1>4, HandleOpOK
<1> HIDE DEF e, x
<1>6. \A d \in Doc : DocOK(xs[d])
  BY <1>4, <1>5
<1> HIDE DEF xs
<1>7. Goes /\ RequestOK'
  BY <1>1, <1>2, NothingGoes
<1>8. DocsOK' /\ AgentsOK'
  BY <1>1, <1>6, <1>7, DocsStepOK
<1> QED BY <1>1, <1>2, <1>7, <1>8, LogsSame, JobsSame DEF IInv

LEMMA SnapshotFetchOK == ASSUME IInv, _handleSnapshotFetch PROVE IInv'
<1> DEFINE m == Head(down)
<1>1. /\ Receiving({"nf", "nt"}) /\ request' = [request EXCEPT !.told = m.res]
      /\ UNCHANGED <<canSend, doc, agents>>
  BY DEF _handleSnapshotFetch
<1>2. /\ UNCHANGED <<sc, jobs, log, saved>> /\ (Goes => ArrivesOK')
      /\ m.a \in {"nf", "nt"} /\ DownOK(m, request, log)
  BY <1>1, ReceivingOK
<1> DEFINE r == m.res
           q == request
<1>3. /\ q # None /\ q \in Requests /\ Right(q, log[q.d], r) /\ r \in Answers
      /\ q.since <= Len(log[q.d]) /\ (q.arg # None /\ ~q.ts => q.arg > 0)
  BY <1>2 DEF DownOK, IInv, RequestOK, Right
<1> HIDE DEF m
<1>4. /\ request' \in Requests /\ SameAs(q, request') /\ request'.told = r
  BY <1>1, <1>3 DEF Requests, SameAs
<1>5. Goes
  BY <1>2, <1>4, NoneAssumption, LogsStay DEF Keeps
<1>6. RequestOK'
  <2>1. Longer(log[q.d], log'[q.d])
    BY <1>3, <1>5 DEF Goes, Requests
  <2>2. Right(request', log'[q.d], r)
    BY <1>3, <1>4, <2>1, RightStays
  <2>3. log' = log
    BY <1>2
  <2> QED BY <1>3, <1>4, <2>2, <2>3 DEF RequestOK, SameAs
<1> QED BY <1>1, <1>2, <1>5, <1>6, LogsSame, DocsSame, AgentsSame, JobsSame DEF IInv

-----------------------------------------------------------------------------
(* The agents.  The ops they send.                                         *)
LEMMA OpMessagesOK ==
    ASSUME NEW d, NEW vs \in Seq(Nat), NEW q, NEW ls
    PROVE  /\ List(OpMessages(d, vs))
           /\ \A m \in Range(OpMessages(d, vs)) : DownOK(m, q, ls) /\ m.a = "op"
<1> DEFINE n == Len(vs)
           o == OpMessages(d, vs)
           A == {m \in Range(o) : DownOK(m, q, ls) /\ m.a = "op"}
<1>1. n \in Nat /\ DOMAIN vs = 1..n /\ \A i \in 1..n : vs[i] \in Nat
  BY LenProperties, ElementOfSeq
<1>2. o = [i \in 1..n |-> [a |-> "op", d |-> d, v |-> vs[i]]]
  BY <1>1 DEF OpMessages
<1>3. ASSUME NEW i \in 1..n PROVE o[i] \in A
  <2>1. o[i] = [a |-> "op", d |-> d, v |-> vs[i]] /\ o[i] \in Range(o)
    BY <1>2 DEF Range
  <2> HIDE DEF o
  <2>2. DownOK(o[i], q, ls) /\ o[i].a = "op"
    BY <1>1, <2>1 DEF DownOK
  <2> QED BY <2>1, <2>2
<1> HIDE DEF A
<1>4. o \in [1..n -> A]
  BY <1>2, <1>3
<1> HIDE DEF o, n
<1>5. o \in Seq(A)
  BY <1>1, <1>4, SeqDef
<1>6. List(o) /\ Range(o) \subseteq A
  BY <1>5, ListIs
<1> QED BY <1>6 DEF A, o

LEMMA AllOpsOK ==
    ASSUME NEW D, D \subseteq Doc, NEW f, \A d \in D : f[d] \in Seq(Nat),
           NEW q, NEW ls
    PROVE  LET ms == FlattenSeq(SetToSeq({OpMessages(d, f[d]) : d \in D}))
           IN  List(ms) /\ \A m \in Range(ms) : DownOK(m, q, ls) /\ m.a = "op"
<1> DEFINE S == {OpMessages(d, f[d]) : d \in D}
           F == [d \in D |-> OpMessages(d, f[d])]
           ss == SetToSeq(S)
<1>1. IsFiniteSet(D)
  BY DocAssumption, FS_Subset
<1>2. F \in Surjection(D, S)
  BY DEF Surjection
<1>3. \A s \in S : List(s) /\ \A m \in Range(s) : DownOK(m, q, ls) /\ m.a = "op"
  BY OpMessagesOK
<1> HIDE DEF F, S
<1>4. IsFiniteSet(S)
  BY <1>1, <1>2, FS_Surjection
<1>5. List(ss) /\ Range(ss) \subseteq S
  BY <1>4, SetToSeqIs
<1> HIDE DEF ss
<1>6. /\ List(FlattenSeq(ss))
      /\ \A e \in Range(FlattenSeq(ss)) : \E s \in Range(ss) : e \in Range(s)
  BY <1>3, <1>5, FlattenList
<1>7. List(FlattenSeq(ss)) /\ \A e \in Range(FlattenSeq(ss)) : DownOK(e, q, ls) /\ e.a = "op"
  BY <1>3, <1>5, <1>6
<1> QED BY <1>7 DEF ss, S

LEMMA AgentHandshakeOK ==
    ASSUME IInv, NEW a \in 1..MaxAgents, AgentHandshake(a)
    PROVE  IInv'
<1> DEFINE m == Head(agents[a].up)
           src == IF m.id = None THEN agents[a].src ELSE m.id
           x == [agents[a] EXCEPT !.up = Tail(@), !.src = src]
           reply == [a |-> "hs", id |-> src]
<1>1. /\ Taking(a, {"hs"}) /\ agents' = [agents EXCEPT ![a] = x]
      /\ down' = Arrives(a, <<reply>>) /\ UNCHANGED jobs
  BY DEF AgentHandshake
<1>2. UNCHANGED <<sc, canSend, doc, request, log, saved>>
  BY <1>1 DEF Taking, client
<1>3. AgentOK(x, request')
  <2>1. AgentOK(agents[a], request)
    BY DEF IInv, AgentsOK
  <2>2. {"up", "held"} \subseteq DOMAIN x /\ x.up = Tail(agents[a].up)
        /\ x.held \in [Doc -> Seq(Nat) \cup {None}]
    BY <2>1 DEF AgentOK
  <2> HIDE DEF x
  <2> QED BY <1>1, <1>2, <2>2, TakenOK
<1> HIDE DEF x, src
<1>4. DownOK(reply, request', log')
  BY DEF DownOK
<1> HIDE DEF reply
<1>5. Goes /\ RequestOK'
  BY <1>2, NothingGoes
<1>6. ArrivesOK'
  BY <1>1, <1>4, <1>5, OneList, ArrivesIs
<1>7. AgentsOK'
  BY <1>1, <1>3, <1>5, OneAgent
<1> QED BY <1>1, <1>2, <1>5, <1>6, <1>7, LogsSame, DocsSame, JobsSame DEF IInv

LEMMA StartJobOK ==
    ASSUME IInv, NEW a \in 1..MaxAgents, StartJob(a)
    PROVE  IInv'
<1> DEFINE m == Head(agents[a].up)
           docs == IF m.a \in {"f", "s"} THEN DOMAIN m.vs ELSE {}
           n == CHOOSE k \in 1..(Cardinality(jobs) + 1) : \A j \in jobs : j.n # k
           job == [n |-> n, a |-> a, m |-> m, stage |-> "read", from |-> NoMilestone,
                   to |-> NoMilestone, ops |-> [d \in docs |-> <<>>], res |-> None,
                   q |-> [d \in IF m.a = "s" THEN docs ELSE {} |-> <<>>]]
           x == [agents[a] EXCEPT !.up = Tail(@)]
           kinds == {"f", "s", "nf", "nt"}
<1>1. /\ Taking(a, kinds) /\ agents' = [agents EXCEPT ![a] = x]
      /\ jobs' = jobs \cup {job} /\ UNCHANGED down
  BY DEF StartJob
<1>2. UNCHANGED <<sc, canSend, doc, request, log, saved>>
  BY <1>1 DEF Taking, client
<1>3. AgentOK(x, request')
  <2>1. AgentOK(agents[a], request)
    BY DEF IInv, AgentsOK
  <2>2. {"up", "held"} \subseteq DOMAIN x /\ x.up = Tail(agents[a].up)
        /\ x.held \in [Doc -> Seq(Nat) \cup {None}]
    BY <2>1 DEF AgentOK
  <2> HIDE DEF x
  <2> QED BY <1>1, <1>2, <2>2, TakenOK
<1>4. UpOK(m, request) /\ m.a \in kinds
  BY <1>1, TakenOK
<1> HIDE DEF m, x, n
<1>5. JobOK(job, request', log')
  <2>1. docs \subseteq Doc
    BY <1>4 DEF UpOK, Asks
  <2>2. <<>> \in Seq(Nat)
    BY EmptySeq
  <2> HIDE DEF docs
  <2>3. /\ {"m", "stage", "from", "to", "ops", "res", "q"} \subseteq DOMAIN job
        /\ job.m = m /\ job.stage = "read" /\ DOMAIN job.ops = docs
        /\ \A d \in DOMAIN job.ops : job.ops[d] = <<>>
        /\ \A d \in DOMAIN job.q : job.q[d] = <<>>
    OBVIOUS
  <2> HIDE DEF job
  <2>4. Reading(job, request', log'[request'.d])
    BY <2>3 DEF Reading
  <2> QED BY <1>2, <1>4, <2>1, <2>2, <2>3, <2>4 DEF JobOK
<1> HIDE DEF job
<1>6. Goes /\ RequestOK'
  BY <1>2, NothingGoes
<1>7. AgentsOK'
  BY <1>1, <1>3, <1>6, OneAgent
<1>8. JobsOK'
  BY <1>1, <1>5, <1>6, JobsChange
<1> QED BY <1>1, <1>2, <1>6, <1>7, <1>8, LogsSame, DocsSame, DownSame DEF IInv

LEMMA UnsubscribeOK ==
    ASSUME IInv, NEW a \in 1..MaxAgents, Unsubscribe(a)
    PROVE  IInv'
<1> DEFINE m == Head(agents[a].up)
           docs == DOMAIN m.vs
           held == agents[a].held
           x == [agents[a] EXCEPT !.up = Tail(@), !.held =
                    [d \in Doc |-> IF d \in docs THEN None ELSE held[d]]]
           reply == [a |-> "u", res |-> [d \in docs |-> Plain]]
           left(ns) == [d \in docs |-> IF held[d] = None THEN <<>>
                                       ELSE SubSeq(held[d], 1, ns[d])]
           sent(ns) == FlattenSeq(SetToSeq({OpMessages(d,
                           IF held[d] = None THEN <<>>
                           ELSE SubSeq(held[d], 1, ns[d])) : d \in docs}))
<1>1. Taking(a, {"u"}) /\ UNCHANGED jobs
  BY DEF Unsubscribe
<1>2. PICK ns \in [docs -> 0..sc.commits] :
         /\ \A d \in docs : ns[d] <= IF held[d] = None THEN 0 ELSE Len(held[d])
         /\ down' = Arrives(a, sent(ns) \o <<reply>>)
  BY DEF Unsubscribe
<1>3. agents' = [agents EXCEPT ![a] = x]
  BY DEF Unsubscribe
<1>4. UNCHANGED <<sc, canSend, doc, request, log, saved>>
  BY <1>1 DEF Taking, client
<1>5. UpOK(m, request) /\ m.a \in {"u"}
  BY <1>1, TakenOK
<1>6. docs \subseteq Doc
  BY <1>5 DEF UpOK, Asks
<1>7. AgentOK(agents[a], request)
  BY DEF IInv, AgentsOK
<1>8. AgentOK(x, request')
  <2> HIDE DEF docs, m
  <2>1. {"up", "held"} \subseteq DOMAIN x /\ x.up = Tail(agents[a].up)
        /\ x.held \in [Doc -> Seq(Nat) \cup {None}]
    BY <1>6, <1>7 DEF AgentOK
  <2> HIDE DEF x
  <2> QED BY <1>1, <1>4, <2>1, TakenOK
<1> HIDE DEF x
<1>9. Goes /\ RequestOK'
  BY <1>4, NothingGoes
<1>10. DownOK(reply, request', log')
  <2> HIDE DEF docs
  <2> QED BY PlainOK DEF DownOK
<1>11. ASSUME NEW d \in docs PROVE left(ns)[d] \in Seq(Nat)
  <2>1. held[d] \in Seq(Nat) \cup {None}
    BY <1>6, <1>7 DEF AgentOK
  <2>2. CASE held[d] = None
    BY <2>2, EmptySeq
  <2>3. CASE held[d] # None
    <3>1. held[d] \in Seq(Nat) /\ ns[d] \in Int /\ ns[d] <= Len(held[d])
      <4>1. sc.commits \in Nat
        BY ScenariosAssumption DEF IInv
      <4>2. ns[d] \in 0..sc.commits
        OBVIOUS
      <4> QED BY <1>2, <2>1, <2>3, <4>1, <4>2
    <3>2. Len(held[d]) \in Nat /\ \A i \in 1..Len(held[d]) : held[d][i] \in Nat
      BY <3>1, LenProperties, ElementOfSeq
    <3>3. \A i \in 1..ns[d] : held[d][i] \in Nat
      BY <3>1, <3>2
    <3> DEFINE h == held[d]
               k == ns[d]
    <3>4. SubSeq(h, 1, k) \in Seq(Nat)
      <4>1. k \in Int /\ 1 \in Int /\ \A i \in 1..k : h[i] \in Nat
        BY <3>1, <3>3
      <4> HIDE DEF h, k
      <4> QED BY <4>1, SubSeqProperties
    <3> QED BY <2>3, <3>4
  <2> QED BY <2>2, <2>3
<1> DEFINE f == left(ns)
<1>12. List(sent(ns)) /\ \A e \in Range(sent(ns)) : DownOK(e, request', log')
  <2> DEFINE ms == FlattenSeq(SetToSeq({OpMessages(d, f[d]) : d \in docs}))
  <2>1. sent(ns) = ms
    <3>1. \A d \in docs : f[d] = IF held[d] = None THEN <<>> ELSE SubSeq(held[d], 1, ns[d])
      OBVIOUS
    <3> HIDE DEF f, docs, held
    <3>2. {OpMessages(d, IF held[d] = None THEN <<>>
                         ELSE SubSeq(held[d], 1, ns[d])) : d \in docs}
          = {OpMessages(d, f[d]) : d \in docs}
      BY <3>1
    <3> QED BY <3>2
  <2> HIDE DEF f, docs, sent
  <2>2. \A d \in docs : f[d] \in Seq(Nat)
    BY <1>11 DEF f
  <2>3. List(ms) /\ \A e \in Range(ms) : DownOK(e, request', log')
    BY <1>6, <2>2, AllOpsOK
  <2> QED BY <2>1, <2>3
<1> HIDE DEF sent, reply
<1>13. ArrivesOK'
  <2> DEFINE ms == sent(ns) \o <<reply>>
  <2>1. List(ms) /\ \A e \in Range(ms) : DownOK(e, request', log')
    BY <1>10, <1>12, ConcatList, OneList
  <2> HIDE DEF ms
  <2>2. down' = Arrives(a, ms)
    BY <1>2 DEF ms
  <2> QED BY <1>9, <2>1, <2>2, ArrivesIs
<1>14. AgentsOK'
  BY <1>3, <1>8, <1>9, OneAgent
<1> QED BY <1>1, <1>4, <1>9, <1>13, <1>14, LogsSame, DocsSame, JobsSame DEF IInv

LEMMA CleanupOK ==
    ASSUME IInv, NEW a \in 1..MaxAgents, Cleanup(a)
    PROVE  IInv'
<1> DEFINE x == [agents[a] EXCEPT !.st = "closed", !.up = <<>>,
                                  !.held = [d \in Doc |-> None]]
<1>1. /\ agents' = [agents EXCEPT ![a] = x]
      /\ UNCHANGED <<sc, canSend, doc, request, jobs, down, log, saved>>
  BY DEF Cleanup, client
<1>2. AgentOK(x, request')
  <2>1. AgentOK(agents[a], request)
    BY DEF IInv, AgentsOK
  <2> QED BY <2>1, EmptyList DEF AgentOK
<1> HIDE DEF x
<1>3. Goes /\ RequestOK'
  BY <1>1, NothingGoes
<1>4. AgentsOK'
  BY <1>1, <1>2, <1>3, OneAgent
<1> QED BY <1>1, <1>3, <1>4, LogsSame, DocsSame, JobsSame, DownSame DEF IInv

LEMMA DeliverOK ==
    ASSUME IInv, NEW a \in 1..MaxAgents, NEW d \in Doc, Deliver(a, d)
    PROVE  IInv'
<1> DEFINE q == agents[a].held[d]
           x == [agents[a] EXCEPT !.held[d] = Tail(@)]
           ms == OpMessages(d, <<Head(q)>>)
<1>1. /\ q # None /\ q # <<>> /\ agents' = [agents EXCEPT ![a] = x]
      /\ down' = Arrives(a, ms)
      /\ UNCHANGED <<sc, canSend, doc, request, jobs, log, saved>>
  BY DEF Deliver, client
<1>2. AgentOK(agents[a], request)
  BY DEF IInv, AgentsOK
<1>3. q \in Seq(Nat)
  BY <1>1, <1>2 DEF AgentOK
<1>4. Head(q) \in Nat /\ Tail(q) \in Seq(Nat)
  <2> HIDE DEF q
  <2> QED BY <1>1, <1>3, HeadTailProperties
<1>5. AgentOK(x, request)
  BY <1>2, <1>4 DEF AgentOK
<1> HIDE DEF x
<1>6. Goes /\ RequestOK'
  BY <1>1, NothingGoes
<1>7. AgentsOK'
  <2>1. AgentOK(x, request')
    BY <1>1, <1>5
  <2> QED BY <1>1, <1>6, <2>1, OneAgent
<1>8. ArrivesOK'
  <2>1. <<Head(q)>> \in Seq(Nat)
    <3> HIDE DEF q
    <3> QED BY <1>4
  <2>2. List(ms) /\ \A m \in Range(ms) : DownOK(m, request', log')
    BY <2>1, OpMessagesOK
  <2> HIDE DEF ms
  <2> QED BY <1>1, <1>6, <2>2, ArrivesIs
<1> QED BY <1>1, <1>6, <1>7, <1>8, LogsSame, DocsSame, JobsSame DEF IInv

-----------------------------------------------------------------------------
(* The requests that agents work on.                                       *)
LEMMA GetOpsTyped ==
    ASSUME NEW l \in Seq(Nat), NEW from \in Nat
    PROVE  GetOps(l, from, NoMilestone) \in Seq(Nat)
<1> DEFINE to == NoMilestone
           end == IF to = NoMilestone \/ to > Len(l) THEN Len(l) ELSE to
           k == IF from >= end THEN 0 ELSE end - from
<1>1. Len(l) \in Nat /\ to \in Nat
  BY LenProperties DEF NoMilestone
<1>2. GetOps(l, from, to) = After(from, k)
  <2> HIDE DEF to
  <2> QED BY <1>1, GetOpsIs
<1>3. k \in Nat
  BY <1>1
<1> HIDE DEF k
<1> QED BY <1>2, <1>3, AfterIs

LEMMA ReadDocsOK ==
    ASSUME IInv, NEW j \in jobs, ReadDocs(j)
    PROVE  IInv'
<1> DEFINE docs == DOMAIN j.m.vs
           known(d) == j.m.vs[d] # None
           hows == IF sc.refuse THEN {"ok", "refused", "silent"} ELSE {"ok"}
           ops == [d \in docs |-> IF known(d)
                                  THEN GetOps(log[d], j.m.vs[d], NoMilestone) ELSE <<>>]
           res(how) == [d \in docs |-> [how |-> how[d], v |->
                            IF known(d) \/ how[d] # "ok" THEN None ELSE Len(log[d])]]
           q(how) == [d \in {e \in DOMAIN j.q : how[e] = "ok"} |-> j.q[d]]
           k(how) == [j EXCEPT !.stage = "reply", !.ops = ops, !.res = res(how),
                               !.q = q(how)]
<1>1. /\ j.m.a \in {"f", "s"}
      /\ UNCHANGED <<sc, canSend, doc, request, agents, down, log, saved>>
  BY DEF ReadDocs, client
<1>2. PICK how \in [docs -> hows] : jobs' = (jobs \ {j}) \cup {k(how)}
  BY DEF ReadDocs
<1>3. JobOK(j, request, log)
  BY DEF IInv, JobsOK
<1>4. /\ docs \subseteq Doc
      /\ \A d \in docs : j.m.vs[d] \in Versions
  BY <1>1, <1>3 DEF JobOK, UpOK, Asks
<1>5. \A d \in Doc : log[d] \in Seq(Nat) /\ Len(log[d]) \in Nat
  BY LenProperties DEF IInv, LogOK, Times
<1>6. \A d \in docs : ops[d] \in Seq(Nat)
  <2>1. ASSUME NEW d \in docs PROVE ops[d] \in Seq(Nat)
    <3>1. CASE known(d)
      <4>1. j.m.vs[d] \in Nat
        BY <1>4, <3>1 DEF Versions
      <4>2. GetOps(log[d], j.m.vs[d], NoMilestone) \in Seq(Nat)
        BY <1>4, <1>5, <4>1, GetOpsTyped
      <4> QED BY <3>1, <4>2
    <3>2. CASE ~known(d)
      BY <3>2, EmptySeq
    <3> QED BY <3>1, <3>2
  <2> QED BY <2>1
<1>7. DOMAIN ops = docs
  OBVIOUS
<1>8. \A d \in DOMAIN res(how) : res(how)[d].v \in Versions
  <2> HIDE DEF docs
  <2> QED BY <1>4, <1>5 DEF Versions
<1>9. \A d \in DOMAIN q(how) : q(how)[d] \in Seq(Nat)
  BY <1>3 DEF JobOK
<1> HIDE DEF ops, res, q, docs
<1>10. JobOK(k(how), request', log')
  <2>1. k(how).m = j.m /\ k(how).stage = "reply" /\ k(how).ops = ops
        /\ k(how).res = res(how) /\ k(how).q = q(how) /\ DOMAIN k(how) = DOMAIN j
    BY <1>3 DEF JobOK
  <2> HIDE DEF k
  <2>2. k(how).m.a \notin {"nf", "nt"}
    BY <1>1, <2>1
  <2> QED BY <1>1, <1>3, <1>4, <1>6, <1>7, <1>8, <1>9, <2>1, <2>2 DEF JobOK
<1>11. Goes /\ RequestOK'
  BY <1>1, NothingGoes
<1>12. JobsOK'
  <2> HIDE DEF k
  <2> QED BY <1>2, <1>10, <1>11, JobsChange
<1> QED BY <1>1, <1>11, <1>12, LogsSame, DocsSame, AgentsSame, DownSame DEF IInv

(* A step of a snapshot request.                                           *)
LEMMA ContinueOK ==
    ASSUME IInv, NEW j \in jobs, NEW k, Continue(j, k), JobOK(k, request, log)
    PROVE  IInv'
<1>1. /\ jobs' \subseteq jobs \cup {k}
      /\ UNCHANGED <<sc, canSend, doc, request, agents, down, log, saved>>
  BY DEF Continue, client
<1>2. Goes /\ RequestOK'
  BY <1>1, NothingGoes
<1>3. JobsOK'
  BY <1>1, <1>2, JobsChange
<1> QED BY <1>1, <1>2, <1>3, LogsSame, DocsSame, AgentsSame, DownSame DEF IInv

LEMMA SnapshotJob ==
    ASSUME IInv, NEW j \in jobs, j.m.a \in {"nf", "nt"}
    PROVE  /\ request # None /\ request \in Requests /\ j.m = RequestMessage(request)
           /\ j.m.d = request.d /\ j.m.arg = request.arg /\ request.d \in Doc
           /\ (j.m.a = "nt") = request.ts /\ (j.m.a = "nf") = ~request.ts
           /\ JobOK(j, request, log) /\ Reading(j, request, log[request.d])
           /\ request.since \in 0..Len(log[request.d])
           /\ request.arg # None => request.arg \in Nat
           /\ request.arg # None /\ ~request.ts => request.arg > 0
           /\ log[request.d] \in Seq(Nat) /\ Len(log[request.d]) \in Nat
           /\ Times(log[request.d])
           /\ saved[request.d] \in SUBSET (1..Len(log[request.d]))
           /\ \A k : (/\ DOMAIN k = DOMAIN j /\ k.m = j.m /\ k.ops = j.ops /\ k.q = j.q
                      /\ Reading(k, request, log[request.d]))
                     => JobOK(k, request, log)
<1>1. JobOK(j, request, log)
  BY DEF IInv, JobsOK
<1>2. request # None /\ request \in Requests /\ j.m = RequestMessage(request)
  BY <1>1 DEF JobOK, UpOK, IInv, RequestOK
<1>3. /\ request.d \in Doc /\ request.ts \in BOOLEAN /\ request.since \in Nat
      /\ request.arg # None => request.arg \in Nat
  BY <1>2 DEF Requests
<1>4. /\ log[request.d] \in Seq(Nat) /\ Len(log[request.d]) \in Nat
      /\ Times(log[request.d]) /\ saved[request.d] \in SUBSET (1..Len(log[request.d]))
  BY <1>3, LenProperties DEF IInv, LogOK, Times
<1>5. /\ request.since <= Len(log[request.d])
      /\ request.arg # None /\ ~request.ts => request.arg > 0
  BY <1>2 DEF IInv, RequestOK
<1>6. /\ j.m.d = request.d /\ j.m.arg = request.arg
      /\ j.m.a = IF request.ts THEN "nt" ELSE "nf"
  BY <1>2 DEF RequestMessage
<1>7. Reading(j, request, log[request.d])
  BY <1>1 DEF JobOK
<1>8. ASSUME NEW k, DOMAIN k = DOMAIN j, k.m = j.m, k.ops = j.ops, k.q = j.q,
             Reading(k, request, log[request.d])
      PROVE  JobOK(k, request, log)
  BY <1>1, <1>8 DEF JobOK
<1> HIDE DEF RequestMessage
<1> QED BY <1>1, <1>2, <1>3, <1>4, <1>5, <1>6, <1>7, <1>8

LEMMA ReadMilestoneOK ==
    ASSUME IInv, NEW j \in jobs, ReadMilestone(j)
    PROVE  IInv'
<1> DEFINE d == j.m.d
           q == request
           l == log[q.d]
           at == IF j.m.a = "nf" THEN MilestoneSnapshot(saved[d], j.m.arg)
                 ELSE AtOrBeforeTime(log[d], saved[d], j.m.arg)
           next == IF j.m.a = "nf" THEN "ops" ELSE "after"
           to == AtOrAfterTime(log[d], saved[d], j.m.arg)
           k1 == [j EXCEPT !.from = at, !.stage = next]
           k2 == [j EXCEPT !.to = to, !.stage = "ops"]
<1>1. /\ j.m.a \in {"nf", "nt"} /\ j.m.arg # None
      /\ (j.stage = "read" /\ Continue(j, k1)) \/ (j.stage = "after" /\ Continue(j, k2))
  BY DEF ReadMilestone
<1>2. /\ q # None /\ d = q.d /\ j.m.arg = q.arg /\ q.arg \in Nat /\ q.arg # None
      /\ (j.m.a = "nt") = q.ts /\ (j.m.a = "nf") = ~q.ts
      /\ JobOK(j, q, log) /\ Reading(j, q, l)
      /\ l \in Seq(Nat) /\ Len(l) \in Nat /\ Times(l) /\ saved[q.d] \in SUBSET (1..Len(l))
  BY <1>1, SnapshotJob
<1>3. \A k : (/\ DOMAIN k = DOMAIN j /\ k.m = j.m /\ k.ops = j.ops /\ k.q = j.q
              /\ Reading(k, q, l)) => JobOK(k, q, log)
  BY <1>1, SnapshotJob
<1>4. CASE j.stage = "read" /\ Continue(j, k1)
  <2>1. q.ts => FromBefore(l, q.arg, at)
    BY <1>2, AtOrBeforeTimeIs
  <2>2. ~q.ts => at \in Nat /\ at <= q.arg
    <3>1. MilestoneSnapshot(saved[q.d], q.arg) \in 0..Len(l)
          /\ MilestoneSnapshot(saved[q.d], q.arg) <= q.arg
      BY <1>2, MilestoneSnapshotIs
    <3> QED BY <1>2, <3>1
  <2>3. next = IF q.ts THEN "after" ELSE "ops"
    BY <1>1, <1>2
  <2> HIDE DEF at, next
  <2>4. /\ DOMAIN k1 = DOMAIN j /\ k1.m = j.m /\ k1.ops = j.ops /\ k1.q = j.q
        /\ k1.from = at /\ k1.stage = next
    BY <1>2 DEF JobOK
  <2> HIDE DEF k1
  <2>5. Reading(k1, q, l)
    BY <1>2, <2>1, <2>2, <2>3, <2>4 DEF Reading
  <2>6. JobOK(k1, q, log)
    BY <1>3, <2>4, <2>5
  <2> QED BY <1>4, <2>6, ContinueOK
<1>5. CASE j.stage = "after" /\ Continue(j, k2)
  <2>1. q.ts => ToAfter(l, q.arg, to)
    BY <1>2, AtOrAfterTimeIs
  <2>2. /\ DOMAIN k2 = DOMAIN j /\ k2.m = j.m /\ k2.ops = j.ops /\ k2.q = j.q
        /\ k2.from = j.from /\ k2.to = to /\ k2.stage = "ops"
    BY <1>2 DEF JobOK
  <2> HIDE DEF k2, to
  <2>3. q.ts
    BY <1>1, <1>2, <1>5 DEF Reading
  <2>4. Reading(k2, q, l)
    BY <1>2, <1>5, <2>1, <2>2, <2>3 DEF Reading
  <2>5. JobOK(k2, q, log)
    BY <1>3, <2>2, <2>4
  <2> QED BY <1>5, <2>5, ContinueOK
<1> QED BY <1>1, <1>4, <1>5

LEMMA SnapshotIsAnswer ==
    ASSUME NEW v \in Nat
    PROVE  [error |-> FALSE, snap |-> SnapshotAt(v)] \in Answers
<1>1. Prefix(v) \in Seq(Nat)
  BY PrefixIs
<1> QED BY <1>1 DEF SnapshotAt, Answers

LEMMA ReadSnapshotOK ==
    ASSUME IInv, NEW j \in jobs, ReadSnapshot(j)
    PROVE  IInv'
<1> DEFINE d == j.m.d
           q == request
           l == log[q.d]
           latest == [error |-> FALSE, snap |-> SnapshotAt(Len(log[d]))]
           r == IF j.m.a = "nf" THEN ByVersion(log[d], j.from, j.m.arg)
                ELSE ByTimestamp(log[d], j.from, j.to, j.m.arg)
           k1 == [j EXCEPT !.res = latest, !.stage = "reply"]
           k2 == [j EXCEPT !.res = r, !.stage = "reply"]
<1>1. /\ j.m.a \in {"nf", "nt"}
      /\ \/ j.stage = "read" /\ j.m.arg = None /\ Continue(j, k1)
         \/ j.stage = "ops" /\ Continue(j, k2)
  BY DEF ReadSnapshot
<1>2. /\ q # None /\ d = q.d /\ j.m.arg = q.arg
      /\ (j.m.a = "nt") = q.ts /\ (j.m.a = "nf") = ~q.ts
      /\ JobOK(j, q, log) /\ Reading(j, q, l) /\ q.since \in 0..Len(l)
      /\ (q.arg # None => q.arg \in Nat) /\ (q.arg # None /\ ~q.ts => q.arg > 0)
      /\ l \in Seq(Nat) /\ Len(l) \in Nat /\ Times(l)
  BY <1>1, SnapshotJob
<1>3. \A k : (/\ DOMAIN k = DOMAIN j /\ k.m = j.m /\ k.ops = j.ops /\ k.q = j.q
              /\ Reading(k, q, l)) => JobOK(k, q, log)
  BY <1>1, SnapshotJob
<1>4. CASE j.stage = "read" /\ j.m.arg = None /\ Continue(j, k1)
  <2>1. Right(q, l, latest)
    <3>1. latest \in Answers /\ latest.error = FALSE
          /\ latest.snap.v = Len(l) /\ latest.snap.data = Prefix(Len(l))
      BY <1>2, SnapshotIsAnswer DEF SnapshotAt
    <3> HIDE DEF latest
    <3> QED BY <1>2, <1>4, <3>1 DEF Right
  <2> HIDE DEF latest
  <2>2. /\ DOMAIN k1 = DOMAIN j /\ k1.m = j.m /\ k1.ops = j.ops /\ k1.q = j.q
        /\ k1.res = latest /\ k1.stage = "reply"
    BY <1>2 DEF JobOK
  <2> HIDE DEF k1
  <2>3. JobOK(k1, q, log)
    BY <1>3, <2>1, <2>2 DEF Reading
  <2> QED BY <1>4, <2>3, ContinueOK
<1>5. CASE j.stage = "ops" /\ Continue(j, k2)
  <2>1. q.arg # None /\ q.arg \in Nat
    BY <1>2, <1>5 DEF Reading
  <2>2. Right(q, l, r)
    <3>1. CASE ~q.ts
      <4>1. /\ q.arg \in Nat \ {0} /\ j.from \in Nat /\ j.from <= q.arg
        BY <1>2, <1>5, <2>1, <3>1 DEF Reading
      <4>2. r = IF q.arg > Len(l) THEN [error |-> TRUE]
                ELSE [error |-> FALSE, snap |-> SnapshotAt(q.arg)]
        <5>1. r = ByVersion(l, j.from, q.arg) /\ l \in Seq(Nat)
          BY <1>2, <3>1
        <5> DEFINE from == j.from
                   version == q.arg
        <5> HIDE DEF r, l, from, version
        <5>2. from \in Nat /\ version \in Nat \ {0} /\ from <= version
          BY <4>1 DEF from, version
        <5>3. ByVersion(l, from, version) =
                  IF version > Len(l) THEN [error |-> TRUE]
                  ELSE [error |-> FALSE, snap |-> SnapshotAt(version)]
          BY <5>1, <5>2, SnapshotOfVersion
        <5> QED BY <5>1, <5>3 DEF from, version
      <4>3. CASE q.arg > Len(l)
        <5>1. r \in Answers /\ r.error
          <6>1. [error |-> TRUE] \in Answers
            BY DEF Answers
          <6>2. r = [error |-> TRUE]
            BY <4>2, <4>3
          <6> HIDE DEF r
          <6> QED BY <6>1, <6>2
        <5> QED BY <1>2, <2>1, <3>1, <4>3, <5>1 DEF Right
      <4>4. CASE ~(q.arg > Len(l))
        <5>1. r \in Answers /\ ~r.error /\ r.snap.v = q.arg /\ r.snap.data = Prefix(q.arg)
          BY <2>1, <4>2, <4>4, SnapshotIsAnswer DEF SnapshotAt
        <5> HIDE DEF r
        <5> QED BY <1>2, <2>1, <3>1, <4>4, <5>1 DEF Right
      <4> QED BY <4>3, <4>4
    <3>2. CASE q.ts
      <4>1. FromBefore(l, q.arg, j.from) /\ ToAfter(l, q.arg, j.to)
        BY <1>2, <1>5, <3>2 DEF Reading
      <4>2. r = ByTimestamp(l, j.from, j.to, q.arg)
        BY <1>2, <3>2
      <4>3. PICK v \in 0..Len(l) :
               /\ ByTimestamp(l, j.from, j.to, q.arg) = [error |-> FALSE, snap |-> SnapshotAt(v)]
               /\ \A i \in 1..v : l[i] <= q.arg
               /\ \A i \in 1..Len(l) : l[i] < q.arg => i <= v
        <5> DEFINE ts == q.arg
                   from == j.from
                   last == j.to
        <5>1. /\ Times(l) /\ ts \in Nat /\ FromBefore(l, ts, from) /\ ToAfter(l, ts, last)
          BY <1>2, <2>1, <4>1
        <5> HIDE DEF l, ts, from, last
        <5>2. \E v \in 0..Len(l) :
                 /\ ByTimestamp(l, from, last, ts) = [error |-> FALSE, snap |-> SnapshotAt(v)]
                 /\ \A i \in 1..v : l[i] <= ts
                 /\ \A i \in 1..Len(l) : l[i] < ts => i <= v
          BY <5>1, SnapshotOfTime
        <5> QED BY <5>2 DEF ts, from, last
      <4>4. r \in Answers /\ ~r.error /\ r.snap.v = v /\ r.snap.data = Prefix(v)
        <5>1. r = [error |-> FALSE, snap |-> SnapshotAt(v)] /\ v \in Nat
          BY <1>2, <4>2, <4>3
        <5> QED BY <5>1, SnapshotIsAnswer DEF SnapshotAt
      <4> HIDE DEF r
      <4>5. \A i \in 1..q.since : i \in 1..Len(l)
        BY <1>2
      <4> QED BY <2>1, <3>2, <4>3, <4>4, <4>5 DEF Right
    <3> QED BY <3>1, <3>2
  <2> HIDE DEF r
  <2>3. /\ DOMAIN k2 = DOMAIN j /\ k2.m = j.m /\ k2.ops = j.ops /\ k2.q = j.q
        /\ k2.res = r /\ k2.stage = "reply"
    BY <1>2 DEF JobOK
  <2> HIDE DEF k2
  <2>4. JobOK(k2, q, log)
    BY <1>3, <2>2, <2>3 DEF Reading
  <2> QED BY <1>5, <2>4, ContinueOK
<1> QED BY <1>1, <1>4, <1>5

LEMMA FinishOK ==
    ASSUME IInv, NEW j \in jobs, Finish(j)
    PROVE  IInv'
<1> DEFINE a == j.a
           docs == DOMAIN j.q
           x == [agents[a] EXCEPT !.held =
                    [d \in Doc |-> IF d \in docs THEN j.q[d] ELSE @[d]]]
           reply == [a |-> j.m.a, res |-> j.res]
           f == j.ops
           sent == FlattenSeq(SetToSeq({OpMessages(d, f[d]) : d \in DOMAIN f}))
           ms == sent \o <<reply>>
<1>1. /\ j.stage = "reply" /\ jobs' \subseteq jobs
      /\ UNCHANGED <<sc, canSend, doc, request, log, saved>>
  BY DEF Finish, client
<1>2. \/ UNCHANGED <<agents, down>>
      \/ agents' = [agents EXCEPT ![a] = x] /\ down' = Arrives(a, ms)
  BY DEF Finish
<1>3. JobOK(j, request, log)
  BY DEF IInv, JobsOK
<1>4. Goes /\ RequestOK'
  BY <1>1, NothingGoes
<1>5. JobsOK'
  BY <1>1, <1>4, JobStays DEF IInv, JobsOK
<1>6. ASSUME a \in 1..MaxAgents PROVE AgentOK(x, request')
  <2>1. AgentOK(agents[a], request)
    BY <1>6 DEF IInv, AgentsOK
  <2>2. \A d \in docs : j.q[d] \in Seq(Nat)
    BY <1>3 DEF JobOK
  <2> HIDE DEF docs
  <2> QED BY <1>1, <2>1, <2>2 DEF AgentOK
<1> HIDE DEF x
<1>7. List(ms) /\ \A m \in Range(ms) : DownOK(m, request', log')
  <2>1. DOMAIN f \subseteq Doc /\ \A d \in DOMAIN f : f[d] \in Seq(Nat)
    BY <1>3 DEF JobOK
  <2> DEFINE D == DOMAIN f
  <2>2. List(sent) /\ \A m \in Range(sent) : DownOK(m, request', log')
    <3>1. D \subseteq Doc /\ \A d \in D : f[d] \in Seq(Nat)
      BY <2>1
    <3> DEFINE all == FlattenSeq(SetToSeq({OpMessages(d, f[d]) : d \in D}))
    <3>2. all = sent
      OBVIOUS
    <3> HIDE DEF D, f, sent
    <3>3. List(all) /\ \A m \in Range(all) : DownOK(m, request', log')
      BY <3>1, AllOpsOK
    <3> QED BY <3>2, <3>3
  <2>3. DownOK(reply, request', log')
    <3>1. CASE j.m.a \in {"f", "s"}
      BY <1>1, <1>3, <3>1 DEF JobOK, DownOK
    <3>2. CASE j.m.a \in {"nf", "nt"}
      <4>1. request # None /\ Right(request, log[request.d], j.res)
        BY <1>1, <3>2, SnapshotJob DEF Reading
      <4> QED BY <1>1, <3>2, <4>1 DEF DownOK
    <3> QED BY <1>3, <3>1, <3>2 DEF JobOK
  <2> HIDE DEF reply, sent
  <2> QED BY <2>2, <2>3, ConcatList, OneList
<1> HIDE DEF ms, a
<1>8. AgentsOK'
  BY <1>2, <1>4, <1>6, AgentsSame, OneAgent
<1>9. ArrivesOK'
  BY <1>2, <1>4, <1>7, DownSame, ArrivesIs
<1> QED BY <1>1, <1>4, <1>5, <1>8, <1>9, LogsSame, DocsSame DEF IInv

-----------------------------------------------------------------------------
(* The other clients.  A log that an op is added to.                       *)
LEMMA TimesAppend ==
    ASSUME NEW l, Times(l), l # <<>>, NEW ts \in {Last(l), Last(l) + 1}
    PROVE  /\ Longer(l, Append(l, ts)) /\ Append(l, ts) # <<>>
           /\ Len(Append(l, ts)) = Len(l) + 1 /\ Len(l) \in Nat
<1> DEFINE k == Append(l, ts)
           n == Len(l)
<1>1. n \in Nat \ {0} /\ l \in Seq(Nat) /\ \A i \in 1..n : l[i] \in Nat
  BY EmptySeq, ElementOfSeq DEF Times
<1>2. Last(l) = l[n] /\ n \in 1..n
  BY <1>1 DEF Last
<1>3. ts \in Nat /\ l[n] <= ts
  BY <1>1, <1>2
<1>4. /\ k \in Seq(Nat) /\ k # <<>> /\ Len(k) = n + 1
      /\ (\A i \in 1..n : k[i] = l[i]) /\ k[n + 1] = ts
  BY <1>1, <1>3, AppendProperties
<1> HIDE DEF k
<1>5. ASSUME NEW i \in 1..Len(k), NEW m \in 1..Len(k), i <= m PROVE k[i] <= k[m]
  <2>1. CASE m \in 1..n
    <3>1. i \in 1..n /\ l[i] <= l[m]
      BY <1>1, <1>5, <2>1 DEF Times
    <3> QED BY <1>4, <2>1, <3>1
  <2>2. CASE m = n + 1 /\ i \in 1..n
    <3>1. l[i] <= l[n] /\ l[i] \in Nat /\ l[n] \in Nat
      BY <1>1, <1>2, <2>2 DEF Times
    <3> QED BY <1>3, <1>4, <2>2, <3>1
  <2>3. CASE m = n + 1 /\ i = n + 1
    BY <1>3, <1>4, <2>3
  <2> QED BY <1>1, <1>4, <1>5, <2>1, <2>2, <2>3
<1>6. Times(k)
  BY <1>4, <1>5 DEF Times
<1> HIDE DEF n
<1>7. Len(l) = n
  BY DEF n
<1>8. n <= n + 1
  BY <1>1
<1>9. Longer(l, k)
  BY <1>4, <1>6, <1>7, <1>8 DEF Longer
<1> QED BY <1>1, <1>4, <1>7, <1>9 DEF k

LEMMA CommitOK ==
    ASSUME IInv, NEW d \in Doc, Commit(d)
    PROVE  IInv'
<1> DEFINE now == Last(log[d])
           v == Len(log[d])
           held(a) == IF agents[a].held[d] = None THEN None
                      ELSE Append(agents[a].held[d], v)
           taken(j) == IF d \in DOMAIN j.q THEN [j EXCEPT !.q[d] = Append(@, v)] ELSE j
<1>1. /\ \E ts \in {now, now + 1} : log' = [log EXCEPT ![d] = Append(@, ts)]
      /\ UNCHANGED <<sc, canSend, doc, request, down, saved>>
  BY DEF Commit, client
<1>2. /\ agents' = [a \in DOMAIN agents |-> [agents[a] EXCEPT !.held[d] =
                       IF @ = None THEN None ELSE Append(@, v)]]
      /\ jobs' = {taken(j) : j \in jobs}
  BY DEF Commit
<1>3. /\ DOMAIN log = Doc /\ DOMAIN saved = Doc
      /\ \A e \in Doc : /\ Times(log[e]) /\ log[e] # <<>>
                        /\ saved[e] \subseteq 1..Len(log[e])
  BY DEF IInv, LogOK
<1>4. PICK ts \in {now, now + 1} : log' = [log EXCEPT ![d] = Append(@, ts)]
  BY <1>1
<1>5. /\ Longer(log[d], log'[d]) /\ log'[d] # <<>>
      /\ Len(log'[d]) = Len(log[d]) + 1 /\ v \in Nat
  <2> DEFINE l == log[d]
  <2>1. Times(l) /\ l # <<>> /\ ts \in {Last(l), Last(l) + 1}
    BY <1>3
  <2> HIDE DEF l
  <2>2. /\ Longer(l, Append(l, ts)) /\ Append(l, ts) # <<>>
        /\ Len(Append(l, ts)) = Len(l) + 1 /\ Len(l) \in Nat
    BY <2>1, TimesAppend
  <2>3. log'[d] = Append(l, ts)
    BY <1>3, <1>4 DEF l
  <2> QED BY <2>2, <2>3 DEF l
<1>6. \A e \in Doc : e # d => log'[e] = log[e]
  BY <1>3, <1>4
<1>7. \A e \in Doc : Longer(log[e], log'[e])
  BY <1>3, <1>5, <1>6, SameLonger
<1>8. Goes
  BY <1>1, <1>7 DEF Goes, Keeps, SameAs
<1>9. RequestOK'
  BY <1>1, <1>8, RequestStays
<1>10. LogOK'
  <2>1. DOMAIN log' = Doc /\ DOMAIN saved' = Doc
    BY <1>1, <1>3, <1>4
  <2>2. ASSUME NEW e \in Doc
        PROVE  Times(log'[e]) /\ log'[e] # <<>> /\ saved'[e] \subseteq 1..Len(log'[e])
    <3>1. Times(log'[e])
      BY <1>7 DEF Longer
    <3>2. CASE e = d
      BY <1>1, <1>3, <1>5, <3>1, <3>2
    <3>3. CASE e # d
      BY <1>1, <1>3, <1>6, <3>1, <3>3
    <3> QED BY <3>2, <3>3
  <2> QED BY <2>1, <2>2 DEF LogOK
<1> HIDE DEF v
<1>11. AgentsOK'
  <2>1. DOMAIN agents' = 1..MaxAgents /\ DOMAIN agents = 1..MaxAgents
    BY <1>2 DEF IInv, AgentsOK
  <2>2. ASSUME NEW a \in 1..MaxAgents PROVE AgentOK(agents'[a], request')
    <3>1. AgentOK(agents[a], request')
      BY <1>8, AgentStays DEF IInv, AgentsOK, Goes
    <3>2. agents[a].held[d] # None => Append(agents[a].held[d], v) \in Seq(Nat)
      <4>1. agents[a].held[d] # None => agents[a].held[d] \in Seq(Nat)
        BY <3>1 DEF AgentOK
      <4> DEFINE h == agents[a].held[d]
      <4> HIDE DEF h
      <4>2. h \in Seq(Nat) => Append(h, v) \in Seq(Nat)
        BY <1>5, AppendProperties
      <4> QED BY <4>1, <4>2 DEF h
    <3>3. agents'[a] = [agents[a] EXCEPT !.held[d] =
                           IF @ = None THEN None ELSE Append(@, v)]
      BY <1>2, <2>1
    <3> QED BY <3>1, <3>2, <3>3 DEF AgentOK
  <2> QED BY <2>1, <2>2 DEF AgentsOK
<1>12. JobsOK'
  <2>1. ASSUME NEW j \in jobs PROVE JobOK(taken(j), request', log')
    <3>1. JobOK(j, request', log')
      BY <1>8, JobStays DEF IInv, JobsOK
    <3>2. CASE d \in DOMAIN j.q
      <4> DEFINE k == [j EXCEPT !.q[d] = Append(@, v)]
      <4>1. Append(j.q[d], v) \in Seq(Nat)
        BY <1>5, <3>1, <3>2, AppendProperties DEF JobOK
      <4>2. /\ DOMAIN k = DOMAIN j /\ k.m = j.m /\ k.stage = j.stage /\ k.from = j.from
            /\ k.to = j.to /\ k.ops = j.ops /\ k.res = j.res
            /\ DOMAIN k.q = DOMAIN j.q
            /\ \A e \in DOMAIN k.q : k.q[e] = IF e = d THEN Append(j.q[d], v) ELSE j.q[e]
        BY <3>1 DEF JobOK
      <4> HIDE DEF k
      <4>3. \A e \in DOMAIN k.q : k.q[e] \in Seq(Nat)
        BY <3>1, <4>1, <4>2 DEF JobOK
      <4>4. Reading(j, request', log'[request'.d]) => Reading(k, request', log'[request'.d])
        BY <4>2 DEF Reading
      <4>5. JobOK(k, request', log')
        BY <3>1, <4>2, <4>3, <4>4 DEF JobOK
      <4> QED BY <3>2, <4>5 DEF k
    <3>3. CASE d \notin DOMAIN j.q
      BY <3>1, <3>3
    <3> QED BY <3>2, <3>3
  <2> HIDE DEF taken
  <2> QED BY <1>2, <2>1 DEF JobsOK
<1> QED BY <1>1, <1>8, <1>9, <1>10, <1>11, <1>12, DocsSame, DownSame DEF IInv

LEMMA SaveMilestoneOK ==
    ASSUME IInv, NEW d \in Doc, NEW v \in 1..Len(log[d]), SaveMilestone(d, v)
    PROVE  IInv'
<1>1. /\ saved' = [saved EXCEPT ![d] = @ \cup {v}]
      /\ UNCHANGED <<sc, canSend, doc, request, agents, down, jobs, log>>
  BY DEF SaveMilestone, client
<1>2. LogOK'
  BY <1>1 DEF IInv, LogOK
<1>3. Goes /\ RequestOK'
  BY <1>1, NothingGoes
<1> QED BY <1>1, <1>2, <1>3, DocsSame, AgentsSame, JobsSame, DownSame DEF IInv

-----------------------------------------------------------------------------
LEMMA NextOK == ASSUME IInv, [Next]_vars PROVE IInv'
<1>1. CASE Application
  <2>1. sc.commits \in Nat
    BY ScenariosAssumption DEF IInv
  <2>2. ASSUME NEW d \in Doc, NEW arg \in {None} \cup 1..(sc.commits + 2),
               FetchSnapshot(d, FALSE, arg)
        PROVE  IInv'
    <3>1. arg \in Versions /\ (arg # None => arg > 0)
      BY <2>1 DEF Versions
    <3> QED BY <2>2, <3>1, FetchSnapshotOK
  <2>3. ASSUME NEW d \in Doc, NEW arg \in {None} \cup 0..(sc.commits + 1),
               FetchSnapshot(d, TRUE, arg)
        PROVE  IInv'
    <3>1. arg \in Versions
      BY <2>1 DEF Versions
    <3> QED BY <2>3, <3>1, FetchSnapshotOK
  <2>4. ASSUME WhenNothingPending PROVE IInv'
    BY <2>4, LookOK DEF WhenNothingPending
  <2> QED BY <1>1, <2>2, <2>3, <2>4, CallOK, SocketClosedOK, BindToSocketOK
          DEF Application
<1>2. CASE Fails
  BY <1>2, SocketClosedOK DEF Fails
<1>3. CASE Client
  BY <1>3, LookOK, OpenOK, ReopenOK, LegacyInitOK, ClientHandshakeOK, HandleReplyOK,
     ClientOpOK, SnapshotFetchOK, TickOK, CallBackOK DEF Client, _nothingPendingRetry
<1>4. CASE Server
  BY <1>4, AgentHandshakeOK, StartJobOK, UnsubscribeOK, CleanupOK, DeliverOK,
     ReadDocsOK, ReadMilestoneOK, ReadSnapshotOK, FinishOK DEF Server
<1>5. CASE Others
  BY <1>5, CommitOK, SaveMilestoneOK DEF Others
<1>6. CASE UNCHANGED vars
  <2>1. UNCHANGED <<sc, canSend, doc, request, agents, down, jobs, log, saved>>
    BY <1>6 DEF vars, client, server
  <2>2. Goes /\ RequestOK'
    BY <2>1, NothingGoes
  <2> QED BY <2>1, <2>2, LogsSame, DocsSame, AgentsSame, JobsSame, DownSame DEF IInv
<1> QED BY <1>1, <1>2, <1>3, <1>4, <1>5, <1>6 DEF Next

(* A snapshot of the past, by version or by time, is the one the log       *)
(* makes, for any docs, commits, milestones and requests, whatever is      *)
(* committed, saved or lost between the reads (backend.js: _fetchSnapshot, *)
(* _fetchSnapshotByTimestamp; client/snapshot-request).                    *)
THEOREM SnapshotsAreRight == Spec => []SnapshotRight
<1>1. Init => IInv
  BY InitOK
<1>2. IInv /\ [Next]_vars => IInv'
  BY NextOK
<1>3. IInv => SnapshotRight
  BY IInvIsRight
<1> QED BY <1>1, <1>2, <1>3, PTL DEF Spec
=============================================================================
