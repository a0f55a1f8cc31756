----------------------------- MODULE SyncProofs -----------------------------
EXTENDS Sync, Induction, SequenceTheorems

-----------------------------------------------------------------------------
(* Sequences, as the sets of their elements.                               *)
LEMMA ElementsOfEmpty == Elements(<<>>) = {}
BY DEF Elements

LEMMA ElementsOfTail ==
    ASSUME NEW S, NEW s \in Seq(S), s # <<>>
    PROVE  /\ Head(s) \in Elements(s) /\ Head(s) \in S
           /\ Tail(s) \in Seq(S) /\ Elements(Tail(s)) \subseteq Elements(s)
<1>1. /\ Len(s) \in Nat \ {0} /\ Head(s) = s[1] /\ Head(s) \in S
      /\ Tail(s) \in Seq(S) /\ Len(Tail(s)) = Len(s) - 1
      /\ \A i \in 1..Len(Tail(s)) : Tail(s)[i] = s[i + 1]
  BY HeadTailProperties, EmptySeq, LenProperties
<1>2. 1 \in 1..Len(s) /\ \A i \in 1..Len(Tail(s)) : i + 1 \in 1..Len(s)
  BY <1>1
<1> QED BY <1>1, <1>2 DEF Elements

LEMMA ElementsOfConcat ==
    ASSUME NEW S, NEW s \in Seq(S), NEW t \in Seq(S)
    PROVE  /\ s \o t \in Seq(S)
           /\ Elements(s \o t) \subseteq Elements(s) \cup Elements(t)
<1>1. /\ s \o t \in Seq(S) /\ Len(s) \in Nat /\ Len(t) \in Nat
      /\ Len(s \o t) = Len(s) + Len(t)
      /\ \A i \in 1 .. Len(s) + Len(t) : (s \o t)[i] =
                     IF i <= Len(s) THEN s[i] ELSE t[i - Len(s)]
  BY ConcatProperties, LenProperties
<1>2. ASSUME NEW i \in 1..Len(s \o t)
      PROVE  (s \o t)[i] \in Elements(s) \cup Elements(t)
  <2>1. CASE i <= Len(s)
    BY <1>1, <2>1 DEF Elements
  <2>2. CASE ~(i <= Len(s))
    <3>1. i - Len(s) \in 1..Len(t)
      BY <1>1, <2>2
    <3> QED BY <1>1, <2>2, <3>1 DEF Elements
  <2> QED BY <2>1, <2>2
<1> QED BY <1>1, <1>2 DEF Elements

LEMMA ElementsOfAppend ==
    ASSUME NEW S, NEW s \in Seq(S), NEW e \in S
    PROVE  /\ Append(s, e) \in Seq(S)
           /\ Elements(Append(s, e)) = Elements(s) \cup {e}
<1>1. /\ Append(s, e) \in Seq(S) /\ Len(s) \in Nat
      /\ Len(Append(s, e)) = Len(s) + 1
      /\ \A i \in 1..Len(s) : Append(s, e)[i] = s[i]
      /\ Append(s, e)[Len(s) + 1] = e
  BY AppendProperties, LenProperties
<1>2. 1..Len(Append(s, e)) = (1..Len(s)) \cup {Len(s) + 1}
  BY <1>1
<1> QED BY <1>1, <1>2 DEF Elements

(* Bags of requests.                                                       *)
LEMMA BagAdded ==
    ASSUME NEW B, IsABag(B), NEW x
    PROVE  IsABag(BagAdd(B, x)) /\ DOMAIN BagAdd(B, x) = DOMAIN B \cup {x}
<1> DEFINE P == {n \in Nat : n > 0}
<1>1. B \in [DOMAIN B -> P]
  BY DEF IsABag
<1>2. 1 \in P /\ \A n \in P : n + 1 \in P
  OBVIOUS
<1> HIDE DEF P
<1>3. CASE x \in DOMAIN B
  <2> DEFINE C == [e \in DOMAIN B |-> IF e = x THEN B[e] + 1 ELSE B[e]]
  <2>1. C \in [DOMAIN B -> P] /\ DOMAIN C = DOMAIN B
    BY <1>1, <1>2
  <2>2. BagAdd(B, x) = C
    BY <1>3 DEF BagAdd
  <2> QED BY <1>3, <2>1, <2>2 DEF IsABag, P
<1>4. CASE x \notin DOMAIN B
  <2> DEFINE C == [e \in DOMAIN B \cup {x} |-> IF e = x THEN 1 ELSE B[e]]
  <2>1. C \in [DOMAIN B \cup {x} -> P] /\ DOMAIN C = DOMAIN B \cup {x}
    BY <1>1, <1>2
  <2>2. BagAdd(B, x) = C
    BY <1>4 DEF BagAdd
  <2> QED BY <2>1, <2>2 DEF IsABag, P
<1> QED BY <1>3, <1>4

LEMMA BagRemoved ==
    ASSUME NEW B, IsABag(B), NEW x
    PROVE  IsABag(BagRemove(B, x)) /\ DOMAIN BagRemove(B, x) \subseteq DOMAIN B
<1> USE DEF IsABag, BagRemove
<1>1. CASE x \in DOMAIN B /\ B[x] = 1
  BY <1>1
<1>2. CASE x \in DOMAIN B /\ B[x] # 1
  <2>1. B[x] - 1 \in {n \in Nat : n > 0}
    BY <1>2
  <2> QED BY <1>2, <2>1
<1>3. CASE x \notin DOMAIN B
  BY <1>3
<1> QED BY <1>1, <1>2, <1>3

-----------------------------------------------------------------------------
(* Text: an insertion into a text.                                         *)
Inserted(S, t, p, x, s) ==
    /\ s \in Seq(S)
    /\ Len(s) = Len(t) + 1
    /\ \A i \in 1 .. Len(t) + 1 :
          s[i] = IF i <= p THEN t[i] ELSE IF i = p + 1 THEN x ELSE t[i - 1]

LEMMA InsertIs ==
    ASSUME NEW S, NEW t \in Seq(S), NEW p \in 0..Len(t), NEW x \in S
    PROVE  Inserted(S, t, p, x, Insert(t, p, x))
<1> DEFINE a == SubSeq(t, 1, p)
           b == SubSeq(t, p + 1, Len(t))
<1>1. Len(t) \in Nat /\ \A i \in 1..Len(t) : t[i] \in S
  BY LenProperties, ElementOfSeq
<1>2. /\ a \in Seq(S) /\ Len(a) = p
      /\ \A i \in 1..p : a[i] = t[i]
  <2>1. \A i \in 1..p : t[i] \in S
    BY <1>1
  <2>2. /\ a \in Seq(S) /\ Len(a) = IF 1 <= p THEN p - 1 + 1 ELSE 0
        /\ \A i \in 1 .. p - 1 + 1 : a[i] = t[1 + i - 1]
    BY <1>1, <2>1, SubSeqProperties
  <2> QED BY <1>1, <2>2
<1>3. /\ b \in Seq(S) /\ Len(b) = Len(t) - p
      /\ \A i \in 1..(Len(t) - p) : b[i] = t[p + i]
  <2>1. \A i \in p + 1 .. Len(t) : t[i] \in S
    BY <1>1
  <2>2. /\ b \in Seq(S)
        /\ Len(b) = IF p + 1 <= Len(t) THEN Len(t) - (p + 1) + 1 ELSE 0
        /\ \A i \in 1 .. Len(t) - (p + 1) + 1 : b[i] = t[p + 1 + i - 1]
    BY <1>1, <2>1, SubSeqProperties
  <2> QED BY <1>1, <2>2
<1>4. <<x>> \in Seq(S) /\ Len(<<x>>) = 1 /\ <<x>>[1] = x
  OBVIOUS
<1> HIDE DEF a, b
<1> DEFINE c == a \o <<x>>
<1>5. /\ c \in Seq(S) /\ Len(c) = p + 1
      /\ \A i \in 1 .. p + 1 : c[i] = IF i <= p THEN a[i] ELSE <<x>>[i - p]
  BY <1>2, <1>4, ConcatProperties
<1> HIDE DEF c
<1>6. /\ c \o b \in Seq(S) /\ Len(c \o b) = Len(t) + 1
      /\ \A i \in 1 .. Len(t) + 1 :
            (c \o b)[i] = IF i <= p + 1 THEN c[i] ELSE b[i - (p + 1)]
  <2>1. /\ c \o b \in Seq(S) /\ Len(c \o b) = Len(c) + Len(b)
        /\ \A i \in 1 .. Len(c) + Len(b) :
              (c \o b)[i] = IF i <= Len(c) THEN c[i] ELSE b[i - Len(c)]
    BY <1>3, <1>5, ConcatProperties
  <2>2. Len(c) + Len(b) = Len(t) + 1
    BY <1>1, <1>3, <1>5
  <2> QED BY <1>5, <2>1, <2>2
<1>7. Insert(t, p, x) = c \o b
  BY DEF Insert, a, b, c
<1>8. ASSUME NEW i \in 1 .. Len(t) + 1
      PROVE  (c \o b)[i] = IF i <= p THEN t[i]
                           ELSE IF i = p + 1 THEN x ELSE t[i - 1]
  <2>1. CASE i <= p
    BY <1>1, <1>2, <1>5, <1>6, <2>1
  <2>2. CASE i = p + 1
    <3>1. c[i] = <<x>>[1]
      BY <1>1, <1>5, <2>2
    <3> QED BY <1>1, <1>4, <1>6, <2>2, <3>1
  <2>3. CASE i > p + 1
    <3>1. i - (p + 1) \in 1..(Len(t) - p) /\ p + (i - (p + 1)) = i - 1
      BY <1>1, <2>3
    <3>2. b[i - (p + 1)] = t[i - 1]
      BY <1>3, <3>1
    <3> QED BY <1>1, <1>6, <2>3, <3>2
  <2>4. i <= p \/ i = p + 1 \/ i > p + 1
    BY <1>1
  <2> QED BY <2>1, <2>2, <2>3, <2>4, Zenon
<1> QED BY <1>6, <1>7, <1>8 DEF Inserted

LEMMA ShiftIs ==
    ASSUME NEW p \in Nat, NEW q \in Nat, NEW side \in {"left", "right"}
    PROVE  Shift(p, q, side) \in {p, p + 1} /\ Shift(p, q, side) \in Nat
BY DEF Shift

(* The transform of the text type converges: of two insertions into one    *)
(* text either may be applied first, if the other is moved past it, the    *)
(* client's as the left one and the server's as the right one              *)
(* (client/doc.js: transformX).                                            *)
THEOREM TransformConverges ==
    ASSUME NEW S, NEW t \in Seq(S), NEW p \in 0..Len(t), NEW q \in 0..Len(t),
           NEW x \in S, NEW y \in S
    PROVE  Insert(Insert(t, q, x), Shift(p, q, "left"), y)
             = Insert(Insert(t, p, y), Shift(q, p, "right"), x)
<1> DEFINE u == Insert(t, q, x)
           v == Insert(t, p, y)
           l == Shift(p, q, "left")
           r == Shift(q, p, "right")
           a == Insert(u, l, y)
           b == Insert(v, r, x)
           n == Len(t)
<1>1. n \in Nat /\ p \in 0..n /\ q \in 0..n
  BY LenProperties
<1>2. Inserted(S, t, q, x, u) /\ Inserted(S, t, p, y, v)
  <2> HIDE DEF u, v
  <2> QED BY InsertIs, Zenon DEF u, v
<1>3. /\ l \in 0 .. n + 1 /\ r \in 0 .. n + 1
      /\ q < p => l = p + 1 /\ r = q
      /\ ~(q < p) => l = p /\ r = q + 1
  BY <1>1 DEF Shift
<1> HIDE DEF u, v, l, r, n
<1>4. /\ u \in Seq(S) /\ Len(u) = n + 1
      /\ v \in Seq(S) /\ Len(v) = n + 1
  BY <1>2 DEF Inserted, n
<1>5. l \in 0..Len(u) /\ r \in 0..Len(v)
  BY <1>3, <1>4
<1>6. Inserted(S, u, l, y, a) /\ Inserted(S, v, r, x, b)
  <2> HIDE DEF a, b
  <2> QED BY <1>4, <1>5, InsertIs, Zenon DEF a, b
<1> HIDE DEF a, b
<1>7. /\ a \in Seq(S) /\ Len(a) = n + 2 /\ b \in Seq(S) /\ Len(b) = n + 2
      /\ \A i \in 1 .. n + 2 :
            /\ a[i] = IF i <= l THEN u[i] ELSE IF i = l + 1 THEN y ELSE u[i - 1]
            /\ b[i] = IF i <= r THEN v[i] ELSE IF i = r + 1 THEN x ELSE v[i - 1]
  BY <1>1, <1>4, <1>6 DEF Inserted
<1>8. \A i \in 1 .. n + 1 :
            /\ u[i] = IF i <= q THEN t[i] ELSE IF i = q + 1 THEN x ELSE t[i - 1]
            /\ v[i] = IF i <= p THEN t[i] ELSE IF i = p + 1 THEN y ELSE t[i - 1]
  BY <1>2 DEF Inserted, n
<1>9. ASSUME NEW i \in 1 .. n + 2 PROVE a[i] = b[i]
  <2>1. /\ a[i] = IF i <= l THEN u[i] ELSE IF i = l + 1 THEN y ELSE u[i - 1]
        /\ b[i] = IF i <= r THEN v[i] ELSE IF i = r + 1 THEN x ELSE v[i - 1]
    BY <1>7
  <2>2. i <= n + 1 =>
          /\ u[i] = IF i <= q THEN t[i] ELSE IF i = q + 1 THEN x ELSE t[i - 1]
          /\ v[i] = IF i <= p THEN t[i] ELSE IF i = p + 1 THEN y ELSE t[i - 1]
    BY <1>1, <1>8
  <2>3. i > 1 =>
          /\ u[i - 1] = IF i - 1 <= q THEN t[i - 1]
                        ELSE IF i - 1 = q + 1 THEN x ELSE t[i - 1 - 1]
          /\ v[i - 1] = IF i - 1 <= p THEN t[i - 1]
                        ELSE IF i - 1 = p + 1 THEN y ELSE t[i - 1 - 1]
    <3>1. i > 1 => i - 1 \in 1 .. n + 1
      BY <1>1
    <3> QED BY <1>8, <3>1
  <2>4. CASE q < p
    <3>1. l = p + 1 /\ r = q
      BY <1>3, <2>4
    <3> QED BY <1>1, <2>1, <2>2, <2>3, <2>4, <3>1
  <2>5. CASE ~(q < p)
    <3>1. l = p /\ r = q + 1
      BY <1>3, <2>5
    <3> QED BY <1>1, <2>1, <2>2, <2>3, <2>5, <3>1
  <2> QED BY <2>4, <2>5
<1>10. a = b
  BY <1>7, <1>9, SeqEqual
<1> QED BY <1>10 DEF a, b, u, v, l, r

-----------------------------------------------------------------------------
(* Types that go with the state: what a client made, what the log, the     *)
(* messages, the requests and the commits may hold.                        *)
MadeBy(c) == {o \in Ops : Owner[o] = c /\ pos[o] # NotMade}

Entries == [id : {o \in Ops : Owner[o] = Nil \/ pos[o] # NotMade}, at : Nat, after : Docs]

MessagesTo(c) ==
    {m \in Messages :
        /\ m.t \in {"op", "ack"} => m.v + 1 \in 1..Len(log) /\ log[m.v + 1].id = m.id
        /\ m.t = "ack" => m.id \in MadeBy(c)
        /\ m.t \in {"fetched", "subscribed"} => m.v <= Len(log)}

Versions == {NullV} \cup 0..Len(log)

Requests ==
    {q \in [t : RequestTypes, c : Clients, conn : Nat, v : Nat \cup {NullV},
            id : Ops \cup {Nil}, at : Nat] :
        /\ q.v \in Versions
        /\ q.t = "op" => q.id \in MadeBy(q.c)
        /\ q.t \in {"fetched", "subscribed"} => q.at \in Versions}

Commits ==
    {u \in [c : Clients, conn : Nat, from : Nat, v : Nat] :
        u.v + 1 \in 1..Len(log) /\ log[u.v + 1].id \in MadeBy(u.c)}

Published == 0 .. Len(log) - 1

ServerOK == log \in Seq(Entries) /\ unpublished \subseteq Commits

RequestsOK == IsABag(reqs) /\ DOMAIN reqs \subseteq Requests

AgentsOK ==
    /\ inbox \in [Clients -> Seq(Messages)]
    /\ \A c \in Clients : inbox[c] \in Seq(MessagesTo(c))
    /\ open \in [Clients -> {"none", "open", "attached"}]
    /\ stream \in [Clients -> Seq(Published)]

DocsOK ==
    /\ data \in [Clients -> Docs]
    /\ version \in [Clients -> Versions]
    /\ sent \in [Clients -> BOOLEAN]
    /\ tick \in [Clients -> BOOLEAN]
    /\ sub \in [Clients -> {"wanted", "asked", "on"}]
    /\ up \in [Clients -> BOOLEAN]
    /\ drops \in [Clients -> Nat]
    /\ pos \in [Ops -> Nat \cup {NotMade}]
    /\ outcome \in [Ops -> {"none", "ok", "failed"}]

QueuesOK ==
    /\ ops \in [Clients -> Seq(Ops)]
    /\ persisting \in [Clients -> Seq(Ops)]
    /\ \A c \in Clients :
          /\ ops[c] \in Seq(MadeBy(c))
          /\ persisting[c] \in Seq(MadeBy(c))
          /\ sent[c] => ops[c] # <<>>

WaitingOK ==
    /\ inflight \in [Clients -> Seq(SUBSET Ops)]
    /\ pending \in [Clients -> Seq(SUBSET Ops)]
    /\ owed \in [Clients -> SUBSET Ops]
    /\ deferred \in [Clients -> SUBSET Ops]

HistoryOK == late \subseteq Ops /\ abandoned \subseteq Ops /\ overlooked \subseteq Clients

Typed ==
    ServerOK /\ RequestsOK /\ AgentsOK /\ DocsOK /\ QueuesOK /\ WaitingOK /\ HistoryOK

LEMMA TypedGivesTypeOK == Typed => TypeOK
<1> SUFFICES ASSUME Typed PROVE TypeOK
  OBVIOUS
<1>1. log \in Seq([id : Ops, at : Nat, after : Docs])
  <2>1. Entries \subseteq [id : Ops, at : Nat, after : Docs]
    BY DEF Entries
  <2> QED BY <2>1, SeqMonotonic DEF Typed, ServerOK
<1>2. stream \in [Clients -> Seq(Nat)]
  <2>1. Len(log) \in Nat
    BY LenProperties DEF Typed, ServerOK
  <2>2. Published \subseteq Nat
    BY <2>1 DEF Published
  <2>3. Seq(Published) \subseteq Seq(Nat)
    BY <2>2, SeqMonotonic
  <2> QED BY <2>3 DEF Typed, AgentsOK
<1>3. /\ unpublished \subseteq [c : Clients, conn : Nat, from : Nat, v : Nat]
      /\ DOMAIN reqs \subseteq
          [t : RequestTypes, c : Clients, conn : Nat, v : Nat \cup {NullV},
           id : Ops \cup {Nil}, at : Nat]
  BY DEF Typed, ServerOK, RequestsOK, Commits, Requests
<1> QED
  BY <1>1, <1>2, <1>3
  DEF Typed, RequestsOK, AgentsOK, DocsOK, QueuesOK, WaitingOK, HistoryOK, TypeOK, Versions

(* The log only grows, and an op that was made stays made.                 *)
Grows ==
    /\ Len(log) \in Nat /\ Len(log') \in Nat /\ Len(log) <= Len(log')
    /\ \A i \in 1..Len(log) : log'[i] = log[i]
    /\ \A o \in Ops : pos[o] # NotMade => pos'[o] # NotMade

LEMMA GrowsWhenSame ==
    ASSUME Typed, log' = log, pos' = pos
    PROVE  Grows
<1>1. Len(log) \in Nat
  BY LenProperties DEF Typed, ServerOK
<1> QED BY <1>1 DEF Grows

LEMMA SetsGrow ==
    ASSUME Grows, NEW c
    PROVE  /\ MadeBy(c) \subseteq MadeBy(c)'
           /\ Entries \subseteq Entries'
           /\ MessagesTo(c) \subseteq MessagesTo(c)'
           /\ Versions \subseteq Versions'
           /\ Published \subseteq Published'
<1>1. MadeBy(c) \subseteq MadeBy(c)'
  BY DEF Grows, MadeBy
<1>2. Entries \subseteq Entries'
  BY DEF Grows, Entries
<1>3. Versions \subseteq Versions' /\ Published \subseteq Published'
  BY DEF Grows, Versions, Published
<1>4. ASSUME NEW m \in MessagesTo(c) PROVE m \in MessagesTo(c)'
  <2>1. m \in Messages /\ m.v \in Int
    BY DEF MessagesTo, Messages, NullV
  <2>2. m.t \in {"op", "ack"} => m.v + 1 \in 1..Len(log') /\ log'[m.v + 1].id = m.id
    BY <2>1 DEF Grows, MessagesTo
  <2>3. m.t = "ack" => m.id \in MadeBy(c)'
    BY <1>1 DEF MessagesTo
  <2>4. m.t \in {"fetched", "subscribed"} => m.v <= Len(log')
    BY <2>1 DEF Grows, MessagesTo
  <2> QED BY <2>1, <2>2, <2>3, <2>4 DEF MessagesTo
<1> QED BY <1>1, <1>2, <1>3, <1>4

LEMMA RequestsGrow ==
    ASSUME Grows
    PROVE  Requests \subseteq Requests' /\ Commits \subseteq Commits'
<1>1. \A c : MadeBy(c) \subseteq MadeBy(c)'
  BY SetsGrow
<1>2. Versions \subseteq Versions'
  BY SetsGrow
<1>3. ASSUME NEW q \in Requests PROVE q \in Requests'
  <2>1. q.t = "op" => q.id \in MadeBy(q.c)'
    BY <1>1 DEF Requests
  <2> QED BY <1>2, <2>1 DEF Requests
<1>4. ASSUME NEW u \in Commits PROVE u \in Commits'
  <2>1. log[u.v + 1].id \in MadeBy(u.c)'
    BY <1>1 DEF Commits
  <2>2. u.v + 1 \in 1..Len(log') /\ log'[u.v + 1] = log[u.v + 1]
    BY DEF Grows, Commits
  <2> QED BY <2>1, <2>2 DEF Commits
<1> QED BY <1>3, <1>4

(* What was typed stays so in the state after the step.                    *)
LEMMA StaysTyped ==
    ASSUME Typed, Grows
    PROVE  /\ log \in Seq(Entries')
           /\ unpublished \subseteq Commits'
           /\ DOMAIN reqs \subseteq Requests'
           /\ \A c \in Clients : inbox[c] \in Seq(MessagesTo(c)')
           /\ stream \in [Clients -> Seq(Published')]
           /\ version \in [Clients -> Versions']
           /\ \A c \in Clients : /\ ops[c] \in Seq(MadeBy(c)')
                                 /\ persisting[c] \in Seq(MadeBy(c)')
<1>1. Entries \subseteq Entries' /\ Versions \subseteq Versions' /\ Published \subseteq Published'
  BY SetsGrow
<1>2. log \in Seq(Entries')
  BY <1>1, SeqMonotonic DEF Typed, ServerOK
<1>3. unpublished \subseteq Commits' /\ DOMAIN reqs \subseteq Requests'
  BY RequestsGrow DEF Typed, ServerOK, RequestsOK
<1>4. ASSUME NEW c \in Clients
      PROVE  /\ inbox[c] \in Seq(MessagesTo(c)')
             /\ ops[c] \in Seq(MadeBy(c)')
             /\ persisting[c] \in Seq(MadeBy(c)')
  <2>1. MadeBy(c) \subseteq MadeBy(c)' /\ MessagesTo(c) \subseteq MessagesTo(c)'
    BY SetsGrow
  <2>2. /\ inbox[c] \in Seq(MessagesTo(c))
        /\ ops[c] \in Seq(MadeBy(c)) /\ persisting[c] \in Seq(MadeBy(c))
    BY DEF Typed, AgentsOK, QueuesOK
  <2> QED BY <2>1, <2>2, SeqMonotonic
<1>5. stream \in [Clients -> Seq(Published')]
  <2>1. Seq(Published) \subseteq Seq(Published')
    BY <1>1, SeqMonotonic
  <2> QED BY <2>1 DEF Typed, AgentsOK
<1>6. version \in [Clients -> Versions']
  BY <1>1 DEF Typed, DocsOK
<1> QED BY <1>2, <1>3, <1>4, <1>5, <1>6

-----------------------------------------------------------------------------
(* The model's operators.                                                  *)
LEMMA LogTyped ==
    ASSUME Typed
    PROVE  /\ Len(log) \in Nat
           /\ \A i \in 1..Len(log) :
                 /\ log[i] \in Entries /\ log[i].id \in Ops
                 /\ log[i].at \in Nat /\ log[i].after \in Docs
           /\ \A v \in Versions : v \in Int /\ At(v) \in Docs
<1>1. log \in Seq(Entries) /\ Len(log) \in Nat
  BY LenProperties DEF Typed, ServerOK
<1>2. \A i \in 1..Len(log) : log[i] \in Entries
  BY <1>1, ElementOfSeq
<1>3. \A i \in 1..Len(log) :
         log[i].id \in Ops /\ log[i].at \in Nat /\ log[i].after \in Docs
  BY <1>2 DEF Entries
<1>4. ASSUME NEW v \in Versions PROVE v \in Int /\ At(v) \in Docs
  <2>1. v \in Int /\ (v <= 0 \/ v \in 1..Len(log))
    BY <1>1 DEF Versions, NullV
  <2>2. NoDoc \in Docs
    BY DEF Docs
  <2> QED BY <2>1, <2>2, <1>3 DEF At
<1> QED BY <1>1, <1>2, <1>3, <1>4

LEMMA KindOf == ASSUME NEW o \in Ops PROVE Kind[o] \in {"create", "edit", "del"}
BY KindAssumption DEF Kinds

LEMMA ApplyTyped ==
    ASSUME NEW d \in Docs, NEW o \in Ops, NEW p \in Nat, NEW k \in Kinds,
           ~Throws(d, p, k)
    PROVE  Apply(d, o, p, k) \in Docs
<1>1. <<>> \in Docs /\ NoDoc \in Docs
  BY EmptySeq DEF Docs
<1>2. CASE k = "edit"
  <2>1. d # NoDoc /\ ~(p > Len(d))
    BY <1>2 DEF Throws
  <2>2. d \in Seq(Ops)
    BY <2>1 DEF Docs
  <2>3. p \in 0..Len(d)
    BY <2>1, <2>2, LenProperties
  <2>4. Insert(d, p, o) \in Seq(Ops)
    BY <2>2, <2>3, InsertIs DEF Inserted
  <2> QED BY <1>2, <2>4 DEF Apply, Docs
<1>3. CASE k # "edit"
  BY <1>1, <1>3 DEF Apply, Kinds
<1> QED BY <1>2, <1>3

(* A server op on its way past the client's ops.                           *)
ServerOps == [kind : Kinds, at : Nat]

LEMMA NewServerTyped ==
    ASSUME NEW o \in Ops, NEW s \in ServerOps
    PROVE  NewServer(o, s) \in ServerOps
<1>1. s.kind \in Kinds /\ s.at \in Nat /\ "noop" \in Kinds /\ s = [kind |-> s.kind, at |-> s.at]
  BY DEF ServerOps, Kinds
<1>2. Shift(s.at, pos[o], "right") \in Nat
  BY <1>1 DEF Shift
<1>3. CASE Kind[o] = "del"
  BY <1>1, <1>3 DEF NewServer, ServerOps, Both
<1>4. CASE Kind[o] # "del" /\ Both(o, s)
  BY <1>1, <1>2, <1>4 DEF NewServer, ServerOps
<1>5. CASE Kind[o] # "del" /\ ~Both(o, s)
  BY <1>1, <1>5 DEF NewServer
<1> QED BY <1>3, <1>4, <1>5

LEMMA PastIs ==
    ASSUME NEW c, ops[c] \in Seq(Ops), NEW s \in ServerOps
    PROVE  /\ Past(c, s) \in [0..Len(ops[c]) -> ServerOps]
           /\ Past(c, s)[0] = s
           /\ \A i \in 1..Len(ops[c]) : Past(c, s)[i] = NewServer(ops[c][i], Past(c, s)[i - 1])
<1> DEFINE n == Len(ops[c])
           z == 0
           T == [q \in ServerOps \X (z + 1 .. n) |-> NewServer(ops[c][q[2]], q[1])]
           Through(f) == f = [i \in 0..n |-> IF i = 0 THEN s ELSE NewServer(ops[c][i], f[i - 1])]
           g == CHOOSE f : Through(f)
<1>1. n \in Nat /\ \A i \in 1..n : ops[c][i] \in Ops
  BY LenProperties, ElementOfSeq
<1>2. T \in [ServerOps \X (z + 1 .. n) -> ServerOps]
  <2>1. \A q \in ServerOps \X (z + 1 .. n) : q[1] \in ServerOps /\ q[2] \in 1..n
    OBVIOUS
  <2>2. \A q \in ServerOps \X (z + 1 .. n) : NewServer(ops[c][q[2]], q[1]) \in ServerOps
    BY <1>1, <2>1, NewServerTyped
  <2> QED BY <2>2
<1>3. \A x \in ServerOps : \A i \in z + 1 .. n : T[<<x, i>>] = NewServer(ops[c][i], x)
  OBVIOUS
<1> HIDE DEF T
<1>4. PICK f \in [0..n -> ServerOps] : Steps(f, 0, n, s, T)
  <2>1. z \in Int /\ n \in Int /\ z <= n
    BY <1>1
  <2> HIDE DEF n, z
  <2>2. \E f \in [z..n -> ServerOps] : Steps(f, z, n, s, T)
    BY <1>2, <2>1, StepsExist
  <2> QED BY <2>2 DEF z
<1>5. ASSUME NEW i \in 0..n, i # 0
      PROVE  T[<<f[i - 1], i>>] = NewServer(ops[c][i], f[i - 1])
  <2>1. i \in z + 1 .. n /\ i - 1 \in 0..n
    BY <1>1, <1>5
  <2> QED BY <1>3, <1>4, <2>1
<1>6. Through(f)
  BY <1>4, <1>5 DEF Steps
<1>7. Through(g)
  <2> HIDE DEF Through
  <2> QED BY <1>6
<1>8. Past(c, s) = g
  BY DEF Past
<1> HIDE DEF g
<1>9. g[0] = s /\ \A i \in 1..n : g[i] = NewServer(ops[c][i], g[i - 1])
  BY <1>1, <1>7
<1>10. \A i \in 0..n : g[i] \in ServerOps
  <2> DEFINE G == {i \in 0..n : g[i] \in ServerOps}
  <2>1. 0 \in G
    BY <1>1, <1>9
  <2>2. \A i \in 0..(n - 1) : i \in G => i + 1 \in G
    <3>1. ASSUME NEW i \in 0..(n - 1), g[i] \in ServerOps PROVE g[i + 1] \in ServerOps
      <4>1. i + 1 \in 1..n /\ i + 1 - 1 = i
        BY <1>1
      <4>2. g[i + 1] = NewServer(ops[c][i + 1], g[i])
        BY <1>9, <4>1
      <4> QED BY <1>1, <3>1, <4>1, <4>2, NewServerTyped
    <3> QED BY <1>1, <3>1
  <2>3. \A i \in 0..n : i \in G
    <3>1. z \in Int /\ n \in Int /\ z \in G /\ \A i \in z..(n - 1) : i \in G => i + 1 \in G
      BY <1>1, <2>1, <2>2
    <3> HIDE DEF G, z, n
    <3>2. \A i \in z..n : i \in G
      BY <3>1, InductFrom
    <3> QED BY <3>2 DEF z
  <2> QED BY <2>3
<1>11. g = [i \in 0..n |-> IF i = 0 THEN s ELSE NewServer(ops[c][i], g[i - 1])]
  BY <1>7
<1> HIDE DEF Through, n
<1>12. g \in [0..n -> ServerOps]
  BY <1>10, <1>11
<1> QED BY <1>8, <1>9, <1>12 DEF n

(* An op's place on its way through the log.                               *)
PlacesOf(q, f) ==
    /\ f[First(q)] = q.at
    /\ \A i \in First(q) + 1 .. Len(log) :
          f[i] = IF Kind[q.id] = "edit" /\ Kind[log[i].id] = "edit"
                 THEN Shift(f[i - 1], log[i].at, "left") ELSE f[i - 1]

LEMMA PlaceIs ==
    ASSUME Typed, NEW q \in Requests, First(q) <= Len(log)
    PROVE  /\ First(q) \in Nat /\ Place(q) \in Nat
           /\ \E f \in [First(q)..Len(log) -> Nat] :
                 PlacesOf(q, f) /\ Place(q) = f[Len(log)]
<1> DEFINE a == First(q)
           n == Len(log)
           Next1(x, i) == IF Kind[q.id] = "edit" /\ Kind[log[i].id] = "edit"
                          THEN Shift(x, log[i].at, "left") ELSE x
           T == [r \in Nat \X (a + 1 .. n) |-> Next1(r[1], r[2])]
           Through(f) == f = [i \in a..n |-> IF i = a THEN q.at ELSE
                                IF Kind[q.id] = "edit" /\ Kind[log[i].id] = "edit"
                                THEN Shift(f[i - 1], log[i].at, "left") ELSE f[i - 1]]
           g == CHOOSE f : Through(f)
<1>1. n \in Nat /\ a \in 0..n /\ q.at \in Nat
  <2>1. n \in Nat
    BY LogTyped
  <2>2. q.v \in Nat \cup {NullV} /\ q.at \in Nat
    BY DEF Requests
  <2> QED BY <2>1, <2>2 DEF First, NullV
<1>2. \A x \in Nat : \A i \in a + 1 .. n : Next1(x, i) \in Nat
  BY DEF Shift
<1>3. T \in [Nat \X (a + 1 .. n) -> Nat]
  <2> HIDE DEF Next1
  <2>1. \A r \in Nat \X (a + 1 .. n) : r[1] \in Nat /\ r[2] \in a + 1 .. n
    OBVIOUS
  <2>2. \A r \in Nat \X (a + 1 .. n) : Next1(r[1], r[2]) \in Nat
    BY <1>2, <2>1
  <2> QED BY <2>2
<1>4. \A x \in Nat : \A i \in a + 1 .. n : T[<<x, i>>] = Next1(x, i)
  <2> HIDE DEF Next1
  <2> QED OBVIOUS
<1> HIDE DEF T, a, n
<1>5. PICK f \in [a..n -> Nat] : Steps(f, a, n, q.at, T)
  <2> DEFINE P == Nat
             p == q.at
  <2>1. a \in Int /\ n \in Int /\ a <= n /\ p \in P /\ T \in [P \X (a + 1 .. n) -> P]
    BY <1>1, <1>3
  <2> HIDE DEF P, p
  <2>2. \E f \in [a..n -> P] : Steps(f, a, n, p, T)
    BY <2>1, StepsExist
  <2> QED BY <2>2 DEF P, p
<1>6. ASSUME NEW i \in a..n, i # a
      PROVE  T[<<f[i - 1], i>>] = Next1(f[i - 1], i)
  <2>1. i \in a + 1 .. n /\ i - 1 \in a..n
    BY <1>1, <1>6
  <2> QED BY <1>4, <1>5, <2>1
<1>7. Through(f)
  BY <1>5, <1>6 DEF Steps
<1>8. Through(g)
  <2> HIDE DEF Through
  <2> QED BY <1>7
<1>9. Place(q) = g[n]
  BY DEF Place, a, n
<1> HIDE DEF g
<1>10. g[a] = q.at /\ \A i \in a + 1 .. n : g[i] = Next1(g[i - 1], i)
  BY <1>1, <1>8
<1>11. \A i \in a..n : g[i] \in Nat
  <2> HIDE DEF Next1, Through
  <2> DEFINE G == {i \in a..n : g[i] \in Nat}
  <2>1. a \in G
    BY <1>1, <1>10
  <2>2. \A i \in a..(n - 1) : i \in G => i + 1 \in G
    <3>1. ASSUME NEW i \in a..(n - 1), g[i] \in Nat PROVE g[i + 1] \in Nat
      <4>1. i + 1 \in a + 1 .. n /\ i + 1 - 1 = i
        BY <1>1
      <4>2. g[i + 1] = Next1(g[i], i + 1)
        BY <1>10, <4>1
      <4> QED BY <1>2, <3>1, <4>1, <4>2
    <3> QED BY <1>1, <3>1
  <2>3. \A i \in a..n : i \in G
    <3>1. a \in Int /\ n \in Int
      BY <1>1
    <3> HIDE DEF G
    <3> QED BY <2>1, <2>2, <3>1, InductFrom
  <2> QED BY <2>3
<1>12. g \in [a..n -> Nat]
  BY <1>8, <1>11
<1>13. PlacesOf(q, g)
  BY <1>10 DEF PlacesOf, a, n
<1> HIDE DEF Next1, Through
<1>14. n \in a..n
  BY <1>1
<1> QED BY <1>1, <1>9, <1>11, <1>12, <1>13, <1>14 DEF a, n

-----------------------------------------------------------------------------
(* What a step leaves behind, typed by the state before it.                *)
RequestsFit == IsABag(reqs') /\ DOMAIN reqs' \subseteq Requests

InboxFit ==
    /\ inbox' \in [Clients -> Seq(Messages)]
    /\ \A k \in Clients : inbox'[k] \in Seq(MessagesTo(k))

AgentsFit ==
    /\ InboxFit
    /\ open' \in [Clients -> {"none", "open", "attached"}]
    /\ stream' \in [Clients -> Seq(Published)]

DocsFit ==
    /\ data' \in [Clients -> Docs]
    /\ version' \in [Clients -> Versions]
    /\ tick' \in [Clients -> BOOLEAN]
    /\ sub' \in [Clients -> {"wanted", "asked", "on"}]
    /\ up' \in [Clients -> BOOLEAN]
    /\ drops' \in [Clients -> Nat]
    /\ pos' \in [Ops -> Nat \cup {NotMade}]
    /\ outcome' \in [Ops -> {"none", "ok", "failed"}]

QueuesFit ==
    /\ ops' \in [Clients -> Seq(Ops)]
    /\ persisting' \in [Clients -> Seq(Ops)]
    /\ sent' \in [Clients -> BOOLEAN]
    /\ \A k \in Clients :
          /\ ops'[k] \in Seq(MadeBy(k))
          /\ persisting'[k] \in Seq(MadeBy(k))
          /\ sent'[k] => ops'[k] # <<>>

LEMMA RequestsStay ==
    ASSUME Grows, RequestsFit
    PROVE  RequestsOK'
<1>1. Requests \subseteq Requests'
  BY RequestsGrow
<1> QED BY <1>1 DEF RequestsFit, RequestsOK

LEMMA AgentsStay ==
    ASSUME Grows, AgentsFit
    PROVE  AgentsOK'
<1>1. ASSUME NEW k \in Clients PROVE inbox'[k] \in Seq(MessagesTo(k)')
  <2>1. MessagesTo(k) \subseteq MessagesTo(k)'
    BY SetsGrow
  <2>2. inbox'[k] \in Seq(MessagesTo(k))
    BY DEF AgentsFit, InboxFit
  <2> QED BY <2>1, <2>2, SeqMonotonic
<1>2. stream' \in [Clients -> Seq(Published')]
  <2>1. Published \subseteq Published'
    BY SetsGrow
  <2>2. Seq(Published) \subseteq Seq(Published')
    BY <2>1, SeqMonotonic
  <2> QED BY <2>2 DEF AgentsFit
<1> QED BY <1>1, <1>2 DEF AgentsFit, InboxFit, AgentsOK

LEMMA DocsStay ==
    ASSUME Grows, DocsFit, sent' \in [Clients -> BOOLEAN]
    PROVE  DocsOK'
<1>1. Versions \subseteq Versions'
  BY SetsGrow
<1>2. version' \in [Clients -> Versions']
  BY <1>1 DEF DocsFit
<1> QED BY <1>2 DEF DocsFit, DocsOK

LEMMA QueuesStay ==
    ASSUME Grows, QueuesFit
    PROVE  QueuesOK'
<1>1. ASSUME NEW k \in Clients
      PROVE  ops'[k] \in Seq(MadeBy(k)') /\ persisting'[k] \in Seq(MadeBy(k)')
  <2>1. MadeBy(k) \subseteq MadeBy(k)'
    BY SetsGrow
  <2>2. ops'[k] \in Seq(MadeBy(k)) /\ persisting'[k] \in Seq(MadeBy(k))
    BY DEF QueuesFit
  <2> QED BY <2>1, <2>2, SeqMonotonic
<1> QED BY <1>1 DEF QueuesFit, QueuesOK

LEMMA StepTyped ==
    ASSUME Typed, Grows, log' = log, unpublished' \subseteq Commits,
           RequestsFit, AgentsFit, DocsFit, QueuesFit, WaitingOK', HistoryOK'
    PROVE  Typed'
<1>1. log' \in Seq(Entries')
  BY StaysTyped
<1>2. unpublished' \subseteq Commits'
  BY RequestsGrow
<1>3. sent' \in [Clients -> BOOLEAN]
  BY DEF QueuesFit
<1>4. RequestsOK' /\ AgentsOK'
  BY RequestsStay, AgentsStay
<1>5. DocsOK' /\ QueuesOK'
  BY <1>3, DocsStay, QueuesStay
<1> QED BY <1>1, <1>2, <1>4, <1>5 DEF Typed, ServerOK

(* The parts that a step leaves alone.                                     *)
LEMMA Same ==
    ASSUME Typed
    PROVE  /\ unpublished \subseteq Commits
           /\ reqs' = reqs => RequestsFit
           /\ inbox' = inbox => InboxFit
           /\ InboxFit /\ UNCHANGED agentVars => AgentsFit
           /\ UNCHANGED <<data, version, tick, sub, up, drops, pos, outcome>>
                => DocsFit
           /\ UNCHANGED <<ops, persisting, sent>> => QueuesFit
           /\ UNCHANGED fetchVars => WaitingOK'
           /\ UNCHANGED history => HistoryOK'
<1> USE DEF Typed
<1>1. unpublished \subseteq Commits /\ (reqs' = reqs => RequestsFit)
  BY DEF ServerOK, RequestsOK, RequestsFit
<1>2. inbox' = inbox => InboxFit
  BY DEF AgentsOK, InboxFit
<1>3. InboxFit /\ UNCHANGED agentVars => AgentsFit
  BY DEF AgentsOK, AgentsFit, agentVars
<1>4. UNCHANGED <<data, version, tick, sub, up, drops, pos, outcome>> => DocsFit
  BY DEF DocsOK, DocsFit
<1>5. UNCHANGED <<ops, persisting, sent>> => QueuesFit
  BY DEF DocsOK, QueuesOK, QueuesFit
<1>6. UNCHANGED fetchVars => WaitingOK'
  BY DEF WaitingOK, fetchVars
<1>7. UNCHANGED history => HistoryOK'
  BY DEF HistoryOK, history
<1> QED BY <1>1, <1>2, <1>3, <1>4, <1>5, <1>6, <1>7

-----------------------------------------------------------------------------
(* The pieces of which the client's steps are made.                        *)
LEMMA FlushTyped ==
    ASSUME Typed, NEW c \in Clients, NEW q \in Seq(MadeBy(c)),
           NEW busy \in BOOLEAN, NEW canSend \in BOOLEAN,
           busy => q # <<>>, Flush(c, q, busy, canSend)
    PROVE  QueuesFit
<1> DEFINE go == canSend /\ ~busy /\ q # <<>>
<1>1. /\ ops' = [ops EXCEPT ![c] = q]
      /\ sent' = [sent EXCEPT ![c] = busy \/ go]
      /\ persisting' = [persisting EXCEPT ![c] = IF go THEN Append(@, Head(q)) ELSE @]
  BY DEF Flush
<1>2. /\ ops \in [Clients -> Seq(Ops)] /\ persisting \in [Clients -> Seq(Ops)]
      /\ sent \in [Clients -> BOOLEAN]
      /\ \A k \in Clients : /\ ops[k] \in Seq(MadeBy(k)) /\ persisting[k] \in Seq(MadeBy(k))
                            /\ sent[k] => ops[k] # <<>>
  BY DEF Typed, DocsOK, QueuesOK
<1>3. q \in Seq(Ops)
  <2>1. MadeBy(c) \subseteq Ops
    BY DEF MadeBy
  <2> QED BY <2>1, SeqMonotonic
<1>4. persisting'[c] \in Seq(MadeBy(c)) /\ persisting'[c] \in Seq(Ops)
  <2>1. CASE go
    <3>1. Head(q) \in MadeBy(c) /\ Head(q) \in Ops
      BY <2>1, <1>3, ElementsOfTail
    <3>2. persisting'[c] = Append(persisting[c], Head(q))
      BY <1>1, <1>2, <2>1
    <3> QED BY <1>2, <3>1, <3>2, AppendProperties
  <2>2. CASE ~go
    BY <1>1, <1>2, <2>2
  <2> QED BY <2>1, <2>2
<1>5. \A k \in Clients : k # c => ops'[k] = ops[k] /\ persisting'[k] = persisting[k] /\ sent'[k] = sent[k]
  BY <1>1, <1>2
<1>6. ops'[c] = q /\ (sent'[c] => q # <<>>)
  BY <1>1, <1>2
<1>7. ops' \in [Clients -> Seq(Ops)] /\ sent' \in [Clients -> BOOLEAN]
  BY <1>1, <1>2, <1>3
<1>8. persisting' \in [Clients -> Seq(Ops)]
  <2>1. persisting' = [k \in Clients |-> persisting'[k]]
    BY <1>1, <1>2
  <2>2. \A k \in Clients : persisting'[k] \in Seq(Ops)
    BY <1>2, <1>4, <1>5
  <2> QED BY <2>1, <2>2
<1> QED BY <1>2, <1>4, <1>5, <1>6, <1>7, <1>8 DEF QueuesFit

LEMMA RequestTyped ==
    ASSUME Typed, NEW c \in Clients, NEW v \in Versions,
           NEW t \in {"fetch", "subscribe"}
    PROVE  Request(t, c, v) \in Requests
<1>1. Len(log) \in Nat /\ drops[c] \in Nat
  BY LogTyped DEF Typed, DocsOK
<1>2. v \in Nat \cup {NullV}
  BY <1>1 DEF Versions
<1> QED BY <1>1, <1>2 DEF Request, Requests, RequestTypes

LEMMA RequestAdded ==
    ASSUME Typed, NEW q \in Requests
    PROVE  /\ IsABag(BagAdd(reqs, q)) /\ DOMAIN BagAdd(reqs, q) \subseteq Requests
           /\ reqs' = BagAdd(reqs, q) => RequestsFit
<1>1. IsABag(reqs) /\ DOMAIN reqs \subseteq Requests
  BY DEF Typed, RequestsOK
<1>2. IsABag(BagAdd(reqs, q)) /\ DOMAIN BagAdd(reqs, q) = DOMAIN reqs \cup {q}
  BY <1>1, BagAdded
<1> QED BY <1>1, <1>2 DEF RequestsFit

LEMMA RequestRemoved ==
    ASSUME Typed, NEW q
    PROVE  reqs' = BagRemove(reqs, q) => RequestsFit
<1>1. IsABag(reqs) /\ DOMAIN reqs \subseteq Requests
  BY DEF Typed, RequestsOK
<1>2. IsABag(BagRemove(reqs, q)) /\ DOMAIN BagRemove(reqs, q) \subseteq DOMAIN reqs
  BY <1>1, BagRemoved
<1> QED BY <1>1, <1>2 DEF RequestsFit

LEMMA RequestReplaced ==
    ASSUME Typed, NEW q, NEW r \in Requests
    PROVE  reqs' = BagAdd(BagRemove(reqs, q), r) => RequestsFit
<1>1. IsABag(reqs) /\ DOMAIN reqs \subseteq Requests
  BY DEF Typed, RequestsOK
<1> DEFINE B == BagRemove(reqs, q)
<1>2. IsABag(B) /\ DOMAIN B \subseteq DOMAIN reqs
  BY <1>1, BagRemoved
<1> HIDE DEF B
<1>3. IsABag(BagAdd(B, r)) /\ DOMAIN BagAdd(B, r) = DOMAIN B \cup {r}
  BY <1>2, BagAdded
<1> QED BY <1>1, <1>2, <1>3 DEF RequestsFit, B

LEMMA ElementsAreSubset ==
    ASSUME NEW S, NEW s \in Seq(S)
    PROVE  Elements(s) \subseteq S
BY ElementOfSeq, LenProperties DEF Elements

LEMMA FetchTyped ==
    ASSUME Typed, NEW c \in Clients, NEW f \in Seq(SUBSET Ops), NEW p \in Seq(SUBSET Ops),
           NEW callback \in SUBSET Ops, NEW force, NEW v \in Versions,
           Fetch(c, f, p, callback, force, v)
    PROVE  /\ inflight' \in [Clients -> Seq(SUBSET Ops)]
           /\ pending' \in [Clients -> Seq(SUBSET Ops)]
           /\ overlooked' \subseteq Clients /\ RequestsFit
<1> DEFINE q == Append(p, callback)
           send == up[c] /\ (force \/ f = <<>>)
<1>1. /\ inflight' = [inflight EXCEPT ![c] = IF send THEN Append(f, Head(q)) ELSE f]
      /\ pending' = [pending EXCEPT ![c] = IF send THEN Tail(q) ELSE q]
      /\ reqs' = IF send THEN BagAdd(reqs, Request("fetch", c, v)) ELSE reqs
      /\ overlooked' = IF send THEN overlooked \ {c} ELSE overlooked
  BY DEF Fetch
<1>2. /\ inflight \in [Clients -> Seq(SUBSET Ops)] /\ pending \in [Clients -> Seq(SUBSET Ops)]
      /\ overlooked \subseteq Clients
  BY DEF Typed, WaitingOK, HistoryOK
<1>3. q \in Seq(SUBSET Ops) /\ q # <<>>
  BY AppendProperties
<1>4. Head(q) \in SUBSET Ops /\ Tail(q) \in Seq(SUBSET Ops)
  <2> HIDE DEF q
  <2> QED BY <1>3, ElementsOfTail
<1> HIDE DEF q
<1>5. Append(f, Head(q)) \in Seq(SUBSET Ops)
  BY <1>4, AppendProperties
<1>6. Request("fetch", c, v) \in Requests
  BY RequestTyped
<1>7. RequestsFit
  <2>1. CASE send
    BY <1>1, <1>6, <2>1, RequestAdded
  <2>2. CASE ~send
    BY <1>1, <2>2, Same
  <2> QED BY <2>1, <2>2
<1> HIDE DEF send
<1> QED BY <1>1, <1>2, <1>3, <1>4, <1>5, <1>7

LEMMA FailTyped ==
    ASSUME Typed, NEW q
    PROVE  Fail(q) \in [Ops -> {"none", "ok", "failed"}]
BY DEF Typed, DocsOK, Fail

LEMMA EmitTyped ==
    ASSUME Typed, NEW c \in Clients, NEW q, NEW r \in SUBSET Ops, EmitNothingPending(c, q, r)
    PROVE  /\ outcome' \in [Ops -> {"none", "ok", "failed"}]
           /\ deferred' \in [Clients -> SUBSET Ops]
<1>1. Fail(r) \in [Ops -> {"none", "ok", "failed"}]
  BY FailTyped
<1> QED BY <1>1 DEF EmitNothingPending, Typed, DocsOK, WaitingOK

LEMMA HardRollbackTyped ==
    ASSUME Typed, NEW c \in Clients, NEW q, Elements(q) \in SUBSET Ops, HardRollback(c, q),
           UNCHANGED netVars, pos' \in [Ops -> Nat \cup {NotMade}], abandoned' \subseteq Ops
    PROVE  DocsFit /\ QueuesFit /\ RequestsFit /\ WaitingOK' /\ HistoryOK'
<1>1. /\ data' = [data EXCEPT ![c] = NoDoc] /\ version' = [version EXCEPT ![c] = NullV]
      /\ ops' = [ops EXCEPT ![c] = <<>>] /\ sent' = [sent EXCEPT ![c] = FALSE]
      /\ Fetch(c, inflight[c], pending[c], Elements(q), TRUE, NullV)
      /\ tick' = tick /\ sub' = sub /\ persisting' = persisting /\ outcome' = outcome
      /\ up' = up /\ drops' = drops /\ owed' = owed /\ deferred' = deferred /\ late' = late
  BY DEF HardRollback, netVars
<1>2. /\ inflight' \in [Clients -> Seq(SUBSET Ops)] /\ pending' \in [Clients -> Seq(SUBSET Ops)]
      /\ overlooked' \subseteq Clients /\ RequestsFit
  <2>1. /\ inflight[c] \in Seq(SUBSET Ops) /\ pending[c] \in Seq(SUBSET Ops)
        /\ NullV \in Versions
    BY DEF Typed, WaitingOK, Versions
  <2> QED BY <1>1, <2>1, FetchTyped
<1>3. QueuesFit
  <2>1. /\ ops \in [Clients -> Seq(Ops)] /\ persisting \in [Clients -> Seq(Ops)]
        /\ sent \in [Clients -> BOOLEAN]
        /\ \A k \in Clients : /\ ops[k] \in Seq(MadeBy(k)) /\ persisting[k] \in Seq(MadeBy(k))
                              /\ sent[k] => ops[k] # <<>>
    BY DEF Typed, DocsOK, QueuesOK
  <2>2. <<>> \in Seq(Ops) /\ <<>> \in Seq(MadeBy(c))
    BY EmptySeq
  <2> QED BY <1>1, <2>1, <2>2 DEF QueuesFit
<1>4. DocsFit
  BY <1>1 DEF DocsFit, Typed, DocsOK, Docs, Versions
<1>5. WaitingOK' /\ HistoryOK'
  BY <1>1, <1>2 DEF WaitingOK, HistoryOK, Typed
<1> QED BY <1>2, <1>3, <1>4, <1>5

LEMMA IngestTyped ==
    ASSUME Typed, NEW c \in Clients, NEW v \in Versions, NEW f \in Seq(SUBSET Ops),
           NEW r \in SUBSET Ops, Ingest(c, v, f, r), late' = late, abandoned' = abandoned
    PROVE  /\ data' \in [Clients -> Docs] /\ version' \in [Clients -> Versions]
           /\ outcome' \in [Ops -> {"none", "ok", "failed"}]
           /\ RequestsFit /\ WaitingOK' /\ HistoryOK'
<1>1. /\ data \in [Clients -> Docs] /\ version \in [Clients -> Versions] /\ At(v) \in Docs
      /\ inflight \in [Clients -> Seq(SUBSET Ops)] /\ pending \in [Clients -> Seq(SUBSET Ops)]
      /\ owed \in [Clients -> SUBSET Ops] /\ deferred \in [Clients -> SUBSET Ops]
      /\ late \subseteq Ops /\ abandoned \subseteq Ops /\ overlooked \subseteq Clients
  BY LogTyped DEF Typed, DocsOK, WaitingOK, HistoryOK
<1>2. data' \in [Clients -> Docs] /\ version' \in [Clients -> Versions]
  BY <1>1 DEF Ingest
<1>3. PICK behind \in BOOLEAN, blind \in BOOLEAN :
         /\ IF behind
            THEN Fetch(c, f, <<>>, r, FALSE, version[c])
            ELSE /\ inflight' = [inflight EXCEPT ![c] = f]
                 /\ pending' = [pending EXCEPT ![c] = <<>>]
                 /\ UNCHANGED <<reqs, overlooked>>
         /\ owed' = [owed EXCEPT ![c] = IF behind \/ blind THEN @ ELSE @ \cup r]
         /\ EmitNothingPending(c, ops[c], IF blind THEN deferred[c] \cup r ELSE deferred[c])
  <2> DEFINE behind == (data[c] # NoDoc \/ ops[c] # <<>>) /\ version[c] # NullV /\ v > version[c]
             blind == v # NullV /\ ops[c] # <<>> /\ version[c] = NullV
  <2>1. behind \in BOOLEAN /\ blind \in BOOLEAN
    OBVIOUS
  <2>2. /\ IF behind
           THEN Fetch(c, f, <<>>, r, FALSE, version[c])
           ELSE /\ inflight' = [inflight EXCEPT ![c] = f]
                /\ pending' = [pending EXCEPT ![c] = <<>>]
                /\ UNCHANGED <<reqs, overlooked>>
        /\ owed' = [owed EXCEPT ![c] = IF behind \/ blind THEN @ ELSE @ \cup r]
        /\ EmitNothingPending(c, ops[c], IF blind THEN deferred[c] \cup r ELSE deferred[c])
    BY DEF Ingest
  <2> HIDE DEF behind, blind
  <2> QED BY <2>1, <2>2
<1>4. <<>> \in Seq(SUBSET Ops)
  BY EmptySeq
<1>5. /\ inflight' \in [Clients -> Seq(SUBSET Ops)] /\ pending' \in [Clients -> Seq(SUBSET Ops)]
      /\ overlooked' \subseteq Clients /\ RequestsFit
  <2>1. CASE behind
    <3>1. Fetch(c, f, <<>>, r, FALSE, version[c]) /\ version[c] \in Versions
      BY <1>1, <1>3, <2>1
    <3> QED BY <1>4, <3>1, FetchTyped
  <2>2. CASE ~behind
    <3>1. /\ inflight' = [inflight EXCEPT ![c] = f] /\ pending' = [pending EXCEPT ![c] = <<>>]
          /\ reqs' = reqs /\ overlooked' = overlooked
      BY <1>3, <2>2
    <3> QED BY <1>1, <1>4, <3>1, Same
  <2> QED BY <2>1, <2>2
<1>6. owed' \in [Clients -> SUBSET Ops]
  BY <1>1, <1>3
<1>7. outcome' \in [Ops -> {"none", "ok", "failed"}] /\ deferred' \in [Clients -> SUBSET Ops]
  <2> DEFINE d == IF blind THEN deferred[c] \cup r ELSE deferred[c]
  <2>1. d \in SUBSET Ops /\ EmitNothingPending(c, ops[c], d)
    BY <1>1, <1>3
  <2> HIDE DEF d
  <2> QED BY <2>1, EmitTyped
<1> QED BY <1>1, <1>2, <1>5, <1>6, <1>7 DEF WaitingOK, HistoryOK

LEMMA SendTyped ==
    ASSUME Typed, NEW c \in Clients, NEW n, NEW ms \in Seq(MessagesTo(c)), Send(c, n, ms)
    PROVE  InboxFit
<1>1. /\ inbox \in [Clients -> Seq(Messages)]
      /\ \A k \in Clients : inbox[k] \in Seq(MessagesTo(k))
  BY DEF Typed, AgentsOK
<1>2. inbox' = [inbox EXCEPT ![c] = IF n = drops[c] THEN @ \o ms ELSE @]
  BY DEF Send
<1>3. inbox'[c] \in Seq(MessagesTo(c))
  <2>1. inbox[c] \o ms \in Seq(MessagesTo(c))
    BY <1>1, ConcatProperties
  <2> QED BY <1>1, <1>2, <2>1
<1>4. \A k \in Clients : inbox'[k] \in Seq(MessagesTo(k))
  BY <1>1, <1>2, <1>3
<1>5. \A k \in Clients : inbox'[k] \in Seq(Messages)
  <2>1. \A k \in Clients : MessagesTo(k) \subseteq Messages
    BY DEF MessagesTo
  <2> QED BY <1>4, <2>1, SeqMonotonic
<1>6. inbox' \in [Clients -> Seq(Messages)]
  <2>1. inbox' = [k \in Clients |-> inbox'[k]]
    BY <1>1, <1>2
  <2> QED BY <1>5, <2>1
<1> QED BY <1>4, <1>6 DEF InboxFit

LEMMA OpMessageTyped ==
    ASSUME Typed, NEW c \in Clients, NEW v \in Published
    PROVE  OpMessage(v) \in MessagesTo(c)
<1>1. Len(log) \in Nat /\ v \in Nat /\ v + 1 \in 1..Len(log) /\ log[v + 1].id \in Ops
  BY LogTyped DEF Published
<1> QED BY <1>1 DEF OpMessage, MessagesTo, Messages

LEMMA OpMessagesTyped ==
    ASSUME Typed, NEW c \in Clients, NEW v \in Nat, NEW w \in Versions
    PROVE  OpMessages(v, w) \in Seq(MessagesTo(c))
<1>1. w \in Int /\ w <= Len(log) /\ Len(log) \in Nat
  BY LogTyped DEF Versions, NullV
<1>2. \A i \in 1..(w - v) : v + i - 1 \in Published
  BY <1>1 DEF Published
<1>3. \A i \in 1..(w - v) : OpMessage(v + i - 1) \in MessagesTo(c)
  BY <1>2, OpMessageTyped
<1>4. OpMessages(v, w) \in [1..(w - v) -> MessagesTo(c)]
  BY <1>3 DEF OpMessages
<1> DEFINE n == IF w >= v THEN w - v ELSE 0
<1>5. n \in Nat /\ 1..(w - v) = 1..n
  BY <1>1
<1> HIDE DEF n
<1> QED BY <1>4, <1>5, SeqDef

-----------------------------------------------------------------------------
(* Every step keeps the types: the client's own steps.                     *)
LEMMA SubmitTyped ==
    ASSUME Typed, NEW c \in Clients, NEW o \in Ops, NEW p \in Nat, Submit(c, o, p)
    PROVE  Typed' /\ Grows
<1>1. /\ Owner[o] = c /\ pos[o] = NotMade
      /\ CanApply(Kind[o], data[c] # NoDoc)
      /\ p \in IF Kind[o] = "edit" THEN 0..Len(data[c]) ELSE {0}
      /\ pos' = [pos EXCEPT ![o] = p]
      /\ data' = [data EXCEPT ![c] = Apply(@, o, p, Kind[o])]
      /\ ops' = [ops EXCEPT ![c] = Append(@, o)]
      /\ tick' = [tick EXCEPT ![c] = TRUE]
      /\ UNCHANGED <<log, unpublished, open, stream, up, drops, reqs, inbox, version, sent,
                     sub, persisting, outcome>>
      /\ UNCHANGED fetchVars /\ UNCHANGED history
  BY DEF Submit, serverVars, agentVars, netVars
<1>2. /\ pos \in [Ops -> Nat \cup {NotMade}] /\ data \in [Clients -> Docs]
      /\ tick \in [Clients -> BOOLEAN]
  BY DEF Typed, DocsOK
<1>3. pos' \in [Ops -> Nat \cup {NotMade}] /\ pos'[o] = p /\ p # NotMade
      /\ \A x \in Ops : x # o => pos'[x] = pos[x]
  BY <1>1, <1>2 DEF NotMade
<1>4. Grows
  <2>1. Len(log) \in Nat
    BY LogTyped
  <2> QED BY <1>1, <1>3, <2>1 DEF Grows
<1>5. Apply(data[c], o, p, Kind[o]) \in Docs
  <2>1. Kind[o] \in Kinds /\ data[c] \in Docs
    BY <1>2, KindAssumption
  <2>2. ~Throws(data[c], p, Kind[o])
    <3> SUFFICES ASSUME Kind[o] = "edit" PROVE ~Throws(data[c], p, Kind[o])
      BY DEF Throws
    <3>1. data[c] # NoDoc
      BY <1>1 DEF CanApply
    <3>2. data[c] \in Seq(Ops)
      BY <2>1, <3>1 DEF Docs
    <3>3. Len(data[c]) \in Nat /\ p \in 0..Len(data[c])
      BY <1>1, <3>2, LenProperties
    <3> QED BY <3>1, <3>3 DEF Throws
  <2> QED BY <2>1, <2>2, ApplyTyped
<1>6. DocsFit
  BY <1>1, <1>2, <1>3, <1>5 DEF DocsFit, Typed, DocsOK
<1>7. QueuesOK'
  <2>1. /\ \A k \in Clients : ops[k] \in Seq(MadeBy(k)') /\ persisting[k] \in Seq(MadeBy(k)')
        /\ ops \in [Clients -> Seq(Ops)] /\ persisting \in [Clients -> Seq(Ops)]
        /\ \A k \in Clients : sent[k] => ops[k] # <<>>
    BY <1>4, StaysTyped DEF Typed, QueuesOK
  <2>2. o \in MadeBy(c)'
    BY <1>1, <1>3 DEF MadeBy
  <2>3. /\ Append(ops[c], o) \in Seq(MadeBy(c)') /\ Append(ops[c], o) # <<>>
    BY <2>1, <2>2, AppendProperties
  <2>4. Append(ops[c], o) \in Seq(Ops)
    BY <2>1, AppendProperties
  <2> HIDE DEF QueuesOK
  <2>5. \A k \in Clients : ops'[k] \in Seq(MadeBy(k)')
    BY <1>1, <2>1, <2>3
  <2>6. \A k \in Clients : sent'[k] => ops'[k] # <<>>
    BY <1>1, <2>1, <2>3
  <2>7. ops' \in [Clients -> Seq(Ops)]
    BY <1>1, <2>1, <2>4
  <2> QED BY <1>1, <2>1, <2>5, <2>6, <2>7 DEF QueuesOK
<1>8. RequestsFit /\ AgentsFit /\ WaitingOK' /\ HistoryOK'
  BY <1>1, Same DEF agentVars
<1>9. log' \in Seq(Entries') /\ unpublished' \subseteq Commits'
  BY <1>1, <1>4, StaysTyped
<1>10. DocsOK' /\ RequestsOK' /\ AgentsOK'
  BY <1>1, <1>4, <1>6, <1>8, RequestsStay, AgentsStay, DocsStay DEF Typed, DocsOK
<1> QED BY <1>4, <1>7, <1>8, <1>9, <1>10 DEF Typed, ServerOK

LEMMA SubmitBrokenTyped ==
    ASSUME Typed, NEW c \in Clients, NEW o \in Ops, SubmitBroken(c, o)
    PROVE  Typed' /\ Grows
<1>1. /\ pos[o] = NotMade /\ pos' = [pos EXCEPT ![o] = 0]
      /\ HardRollback(c, Append(ops[c], o))
      /\ log' = log /\ unpublished' = unpublished /\ inbox' = inbox
      /\ UNCHANGED agentVars /\ UNCHANGED netVars
      /\ abandoned' = abandoned \cup {x \in Elements(ops[c]) : UnderWay(reqs, x) \/ Logged(x)}
  BY DEF SubmitBroken, serverVars
<1>2. pos \in [Ops -> Nat \cup {NotMade}]
  BY DEF Typed, DocsOK
<1>3. pos' \in [Ops -> Nat \cup {NotMade}]
  BY <1>1, <1>2
<1>4. Grows
  <2>1. Len(log) \in Nat
    BY LogTyped
  <2> QED BY <1>1, <1>2, <2>1 DEF Grows
<1>5. DocsFit /\ QueuesFit /\ RequestsFit /\ WaitingOK' /\ HistoryOK'
  <2>1. ops[c] \in Seq(Ops) /\ abandoned \subseteq Ops
    BY DEF Typed, QueuesOK, HistoryOK
  <2>2. Append(ops[c], o) \in Seq(Ops)
    BY <2>1, AppendProperties
  <2>3. Elements(ops[c]) \subseteq Ops /\ Elements(Append(ops[c], o)) \in SUBSET Ops
    BY <2>1, <2>2, ElementsAreSubset
  <2> QED BY <1>1, <1>3, <2>1, <2>3, HardRollbackTyped
<1>6. AgentsFit /\ unpublished' \subseteq Commits
  BY <1>1, Same
<1> QED BY <1>1, <1>4, <1>5, <1>6, StepTyped

LEMMA FlushTickTyped ==
    ASSUME Typed, NEW c \in Clients, FlushTick(c)
    PROVE  Typed' /\ Grows
<1>1. /\ tick' = [tick EXCEPT ![c] = FALSE]
      /\ Flush(c, ops[c], sent[c], up[c])
      /\ UNCHANGED <<log, unpublished, up, drops, reqs, inbox, data, version,
                     sub, pos, outcome>>
      /\ UNCHANGED fetchVars /\ UNCHANGED history
      /\ UNCHANGED agentVars
  BY DEF FlushTick, serverVars, netVars
<1>2. Grows
  BY <1>1, GrowsWhenSame
<1>3. QueuesFit
  <2>1. ops[c] \in Seq(MadeBy(c)) /\ sent[c] \in BOOLEAN /\ up[c] \in BOOLEAN
        /\ (sent[c] => ops[c] # <<>>)
    BY DEF Typed, DocsOK, QueuesOK
  <2> QED BY <1>1, <2>1, FlushTyped
<1>4. DocsFit
  BY <1>1 DEF DocsFit, Typed, DocsOK
<1>5. RequestsFit /\ AgentsFit /\ unpublished' \subseteq Commits /\ WaitingOK' /\ HistoryOK'
  BY <1>1, Same
<1> QED BY <1>1, <1>2, <1>3, <1>4, <1>5, StepTyped

LEMMA OpRequestTyped ==
    ASSUME Typed, NEW c \in Clients, NEW o \in MadeBy(c)
    PROVE  [Request("op", c, version[c]) EXCEPT !.id = o, !.at = pos[o]] \in Requests
<1> DEFINE q == [t |-> "op", c |-> c, conn |-> drops[c], v |-> version[c], id |-> o,
                 at |-> pos[o]]
<1>1. /\ Len(log) \in Nat /\ drops[c] \in Nat /\ version[c] \in Versions
      /\ o \in Ops /\ pos[o] \in Nat
  BY LogTyped DEF Typed, DocsOK, MadeBy
<1>2. version[c] \in Nat \cup {NullV}
  BY <1>1 DEF Versions
<1>3. [Request("op", c, version[c]) EXCEPT !.id = o, !.at = pos[o]] = q
  <2> DEFINE r == [t |-> "op", c |-> c, conn |-> drops[c], v |-> version[c], id |-> Nil,
                   at |-> 0]
             s == [r EXCEPT !.id = o]
  <2>1. Request("op", c, version[c]) = r
    BY DEF Request
  <2>2. s = [t |-> "op", c |-> c, conn |-> drops[c], v |-> version[c], id |-> o, at |-> 0]
    OBVIOUS
  <2>3. [s EXCEPT !.at = pos[o]] = q
    <3> HIDE DEF s
    <3> QED BY <2>2
  <2> QED BY <2>1, <2>3
<1>4. q \in Requests
  BY <1>1, <1>2 DEF Requests, RequestTypes
<1> QED BY <1>3, <1>4

LEMMA PersistedTyped ==
    ASSUME Typed, NEW c \in Clients, Persisted(c)
    PROVE  Typed' /\ Grows
<1> DEFINE o == Head(persisting[c])
           q == [Request("op", c, version[c]) EXCEPT !.id = o, !.at = pos[o]]
<1>1. /\ persisting[c] # <<>>
      /\ persisting' = [persisting EXCEPT ![c] = Tail(@)]
      /\ reqs' = IF up[c] THEN BagAdd(reqs, q) ELSE reqs
      /\ UNCHANGED <<log, unpublished, up, drops, inbox, data, version, ops,
                     sent, tick, sub, pos, outcome, abandoned, overlooked>>
      /\ UNCHANGED agentVars /\ UNCHANGED fetchVars
      /\ late' \in {late, late \cup {o}}
  BY DEF Persisted, serverVars, netVars
<1>2. Grows
  BY <1>1, GrowsWhenSame
<1>3. /\ persisting \in [Clients -> Seq(Ops)] /\ ops \in [Clients -> Seq(Ops)]
      /\ sent \in [Clients -> BOOLEAN]
      /\ \A k \in Clients : /\ ops[k] \in Seq(MadeBy(k)) /\ persisting[k] \in Seq(MadeBy(k))
                            /\ sent[k] => ops[k] # <<>>
  BY DEF Typed, DocsOK, QueuesOK
<1>4. /\ o \in MadeBy(c) /\ Tail(persisting[c]) \in Seq(MadeBy(c))
      /\ Tail(persisting[c]) \in Seq(Ops)
  BY <1>1, <1>3, ElementsOfTail
<1>5. RequestsFit
  <2>1. q \in Requests
    BY <1>4, OpRequestTyped
  <2> QED BY <1>1, <2>1, RequestAdded, Same
<1>6. QueuesFit
  BY <1>1, <1>3, <1>4 DEF QueuesFit
<1>7. DocsFit
  BY <1>1 DEF DocsFit, Typed, DocsOK
<1>8. AgentsFit /\ unpublished' \subseteq Commits /\ WaitingOK'
  BY <1>1, Same
<1>9. HistoryOK'
  <2>1. o \in Ops
    BY <1>4 DEF MadeBy
  <2> QED BY <1>1, <2>1 DEF Typed, HistoryOK
<1> QED BY <1>1, <1>2, <1>5, <1>6, <1>7, <1>8, <1>9, StepTyped

LEMMA TellTyped ==
    ASSUME Typed, NEW c \in Clients, Tell(c)
    PROVE  Typed' /\ Grows
<1>1. /\ outcome' = Fail(owed[c]) /\ owed' = [owed EXCEPT ![c] = {}]
      /\ UNCHANGED <<log, unpublished, up, drops, reqs, inbox, data, version, ops, sent, tick,
                     sub, inflight, pending, deferred, persisting, pos>>
      /\ UNCHANGED agentVars /\ UNCHANGED history
  BY DEF Tell, serverVars, netVars
<1>2. Grows
  BY <1>1, GrowsWhenSame
<1>3. DocsFit
  <2>1. outcome' \in [Ops -> {"none", "ok", "failed"}]
    BY <1>1, FailTyped
  <2> QED BY <1>1, <2>1 DEF DocsFit, Typed, DocsOK
<1>4. WaitingOK'
  BY <1>1 DEF Typed, WaitingOK
<1>5. RequestsFit /\ AgentsFit /\ QueuesFit /\ HistoryOK' /\ unpublished' \subseteq Commits
  BY <1>1, Same
<1> QED BY <1>1, <1>2, <1>3, <1>4, <1>5, StepTyped

(* A message is taken and handled.                                         *)
LEMMA TakenTyped ==
    ASSUME Typed, NEW c \in Clients, Taken(c)
    PROVE  /\ log' = log /\ unpublished' = unpublished /\ unpublished' \subseteq Commits
           /\ up' = up /\ drops' = drops
           /\ AgentsFit /\ Head(inbox[c]) \in MessagesTo(c)
<1>1. /\ inbox[c] # <<>> /\ inbox' = [inbox EXCEPT ![c] = Tail(@)]
      /\ log' = log /\ unpublished' = unpublished /\ up' = up /\ drops' = drops
      /\ UNCHANGED agentVars
  BY DEF Taken, serverVars, netVars
<1>2. /\ inbox \in [Clients -> Seq(Messages)]
      /\ \A k \in Clients : inbox[k] \in Seq(MessagesTo(k))
  BY DEF Typed, AgentsOK
<1>3. /\ Head(inbox[c]) \in MessagesTo(c) /\ Tail(inbox[c]) \in Seq(MessagesTo(c))
      /\ Tail(inbox[c]) \in Seq(Messages)
  BY <1>1, <1>2, ElementsOfTail
<1>4. InboxFit
  BY <1>1, <1>2, <1>3 DEF InboxFit
<1> QED BY <1>1, <1>3, <1>4, Same

LEMMA ReceiveAckTyped ==
    ASSUME Typed, NEW c \in Clients, Taken(c), ReceiveAck(c, Head(inbox[c]))
    PROVE  Typed' /\ Grows
<1> DEFINE m == Head(inbox[c])
<1>1. /\ log' = log /\ unpublished' \subseteq Commits /\ up' = up /\ drops' = drops
      /\ AgentsFit /\ m \in MessagesTo(c)
  BY TakenTyped
<1> HIDE DEF m
<1>2. /\ m.t \in {"op", "ack"} /\ sent[c]
      /\ version' = [version EXCEPT ![c] = m.v + 1]
      /\ Flush(c, Tail(ops[c]), FALSE, up[c])
      /\ \A o \in Ops : outcome'[o] \in {"ok", "failed", outcome[o]}
      /\ outcome' = [o \in Ops |-> outcome'[o]]
      /\ deferred' \in {deferred, [deferred EXCEPT ![c] = {}]}
      /\ UNCHANGED <<reqs, data, tick, sub, inflight, pending, owed, pos>>
      /\ UNCHANGED history
  <2>1. /\ m.t \in {"op", "ack"} /\ sent[c]
        /\ version' = [version EXCEPT ![c] = m.v + 1]
        /\ Flush(c, Tail(ops[c]), FALSE, up[c])
        /\ UNCHANGED <<reqs, data, tick, sub, inflight, pending, owed, pos>>
        /\ UNCHANGED history
    BY DEF ReceiveAck, IsOwn, m, history
  <2> DEFINE last == Tail(ops[c]) = <<>>
  <2>2. /\ outcome' = [o \in Ops |->
               IF o = m.id THEN "ok"
               ELSE IF last /\ o \in deferred[c] THEN "failed" ELSE outcome[o]]
        /\ deferred' = [deferred EXCEPT ![c] = IF last THEN {} ELSE @]
    BY DEF ReceiveAck, m
  <2>3. deferred \in [Clients -> SUBSET Ops]
    BY DEF Typed, WaitingOK
  <2>4. deferred' \in {deferred, [deferred EXCEPT ![c] = {}]}
    <3> HIDE DEF last
    <3> QED BY <2>2, <2>3
  <2>5. /\ \A o \in Ops : outcome'[o] \in {"ok", "failed", outcome[o]}
        /\ outcome' = [o \in Ops |-> outcome'[o]]
    <3> HIDE DEF last
    <3> QED BY <2>2
  <2> QED BY <2>1, <2>4, <2>5
<1>3. Grows
  BY <1>1, <1>2, GrowsWhenSame
<1>4. QueuesFit
  <2>1. ops[c] \in Seq(MadeBy(c)) /\ ops[c] # <<>> /\ up[c] \in BOOLEAN
    BY <1>2 DEF Typed, DocsOK, QueuesOK
  <2>2. Tail(ops[c]) \in Seq(MadeBy(c))
    BY <2>1, ElementsOfTail
  <2> QED BY <1>2, <2>1, <2>2, FlushTyped
<1>5. m.v + 1 \in Versions
  BY <1>1, <1>2, LogTyped DEF MessagesTo, Versions
<1>6. DocsFit
  <2>1. outcome' \in [Ops -> {"none", "ok", "failed"}]
    BY <1>2 DEF Typed, DocsOK
  <2> QED BY <1>1, <1>2, <1>5, <2>1 DEF DocsFit, Typed, DocsOK
<1>7. RequestsFit /\ HistoryOK'
  BY <1>2, Same
<1>8. WaitingOK'
  BY <1>2 DEF Typed, WaitingOK
<1> QED BY <1>1, <1>3, <1>4, <1>6, <1>7, <1>8, StepTyped

LEMMA ReceiveGapTyped ==
    ASSUME Typed, NEW c \in Clients, Taken(c), ReceiveGap(c, Head(inbox[c]))
    PROVE  Typed' /\ Grows
<1>1. /\ log' = log /\ unpublished' \subseteq Commits /\ up' = up /\ drops' = drops
      /\ AgentsFit
  BY TakenTyped
<1>2. /\ IF inflight[c] = <<>>
         THEN Fetch(c, <<>>, pending[c], {}, FALSE, version[c])
         ELSE /\ pending' = [pending EXCEPT ![c] = Append(@, {})]
              /\ overlooked' = overlooked \cup {c}
              /\ UNCHANGED <<inflight, reqs>>
      /\ UNCHANGED <<data, version, ops, sent, tick, sub, owed, deferred, persisting, pos,
                     outcome, late, abandoned>>
  BY DEF ReceiveGap
<1>3. Grows
  BY <1>1, <1>2, GrowsWhenSame
<1>4. /\ inflight' \in [Clients -> Seq(SUBSET Ops)] /\ pending' \in [Clients -> Seq(SUBSET Ops)]
      /\ overlooked' \subseteq Clients /\ RequestsFit
  <2>1. /\ inflight \in [Clients -> Seq(SUBSET Ops)] /\ pending \in [Clients -> Seq(SUBSET Ops)]
        /\ overlooked \subseteq Clients /\ version[c] \in Versions
    BY DEF Typed, DocsOK, WaitingOK, HistoryOK
  <2>2. CASE inflight[c] = <<>>
    <3>1. <<>> \in Seq(SUBSET Ops) /\ {} \in SUBSET Ops /\ pending[c] \in Seq(SUBSET Ops)
      BY <2>1, EmptySeq
    <3>2. Fetch(c, <<>>, pending[c], {}, FALSE, version[c])
      BY <1>2, <2>2
    <3> QED BY <2>1, <3>1, <3>2, FetchTyped
  <2>3. CASE inflight[c] # <<>>
    <3>1. Append(pending[c], {}) \in Seq(SUBSET Ops)
      BY <2>1, AppendProperties
    <3>2. /\ pending' = [pending EXCEPT ![c] = Append(@, {})]
          /\ overlooked' = overlooked \cup {c} /\ inflight' = inflight /\ reqs' = reqs
      BY <1>2, <2>3
    <3> QED BY <2>1, <3>1, <3>2, Same
  <2> QED BY <2>2, <2>3
<1>5. DocsFit /\ QueuesFit
  BY <1>1, <1>2, <1>4 DEF DocsFit, QueuesFit, Typed, DocsOK, QueuesOK
<1>6. WaitingOK' /\ HistoryOK'
  BY <1>2, <1>4 DEF Typed, WaitingOK, HistoryOK
<1> QED BY <1>1, <1>3, <1>4, <1>5, <1>6, StepTyped

LEMMA ReceiveNothingTyped ==
    ASSUME Typed, NEW c \in Clients, Taken(c), UNCHANGED <<reqs, docVars>>
    PROVE  Typed' /\ Grows
<1>1. /\ log' = log /\ unpublished' \subseteq Commits /\ up' = up /\ drops' = drops
      /\ AgentsFit
  BY TakenTyped
<1>2. /\ UNCHANGED <<reqs, data, version, ops, sent, tick, sub, persisting, pos, outcome>>
      /\ UNCHANGED fetchVars /\ UNCHANGED history
  BY DEF docVars, stateVars
<1>3. Grows
  BY <1>1, <1>2, GrowsWhenSame
<1>4. DocsFit /\ QueuesFit /\ RequestsFit /\ WaitingOK' /\ HistoryOK'
  BY <1>1, <1>2, Same
<1> QED BY <1>1, <1>3, <1>4, StepTyped

LEMMA RollbackTyped ==
    ASSUME Typed, NEW c \in Clients, Taken(c), HardRollback(c, ops[c]), UNCHANGED pos,
           abandoned' \subseteq Ops
    PROVE  Typed' /\ Grows
<1>1. /\ log' = log /\ unpublished' \subseteq Commits /\ UNCHANGED netVars
      /\ AgentsFit
  BY TakenTyped DEF netVars
<1>2. Grows
  BY <1>1, GrowsWhenSame
<1>3. DocsFit /\ QueuesFit /\ RequestsFit /\ WaitingOK' /\ HistoryOK'
  <2>1. ops[c] \in Seq(Ops)
    BY DEF Typed, QueuesOK
  <2>2. Elements(ops[c]) \in SUBSET Ops
    BY <2>1, ElementsAreSubset
  <2>3. pos' \in [Ops -> Nat \cup {NotMade}]
    BY DEF Typed, DocsOK
  <2> QED BY <1>1, <2>2, <2>3, HardRollbackTyped
<1> QED BY <1>1, <1>2, <1>3, StepTyped

LEMMA ReceiveFetchedTyped ==
    ASSUME Typed, NEW c \in Clients, Taken(c), ReceiveFetched(c, Head(inbox[c]))
    PROVE  Typed' /\ Grows
<1> DEFINE m == Head(inbox[c])
           oldest == IF inflight[c] = <<>> THEN {} ELSE Head(inflight[c])
           f == IF inflight[c] = <<>> THEN <<>> ELSE Tail(inflight[c])
           r == oldest \cup UNION Elements(pending[c])
<1>1. /\ log' = log /\ unpublished' \subseteq Commits /\ up' = up /\ drops' = drops
      /\ AgentsFit /\ m \in MessagesTo(c)
  BY TakenTyped
<1> HIDE DEF m
<1>2. /\ m.t = "fetched" /\ Ingest(c, m.v, f, r)
      /\ UNCHANGED <<ops, sent, tick, sub, persisting, pos, late, abandoned>>
  BY DEF ReceiveFetched, m
<1>3. Grows
  BY <1>1, <1>2, GrowsWhenSame
<1>4. m.v \in Versions
  BY <1>1, <1>2, LogTyped DEF MessagesTo, Messages, Versions
<1>5. f \in Seq(SUBSET Ops) /\ r \in SUBSET Ops
  <2>1. inflight[c] \in Seq(SUBSET Ops) /\ pending[c] \in Seq(SUBSET Ops)
    BY DEF Typed, WaitingOK
  <2>2. Elements(pending[c]) \subseteq SUBSET Ops
    BY <2>1, ElementsAreSubset
  <2>3. CASE inflight[c] = <<>>
    BY <2>2, <2>3, EmptySeq
  <2>4. CASE inflight[c] # <<>>
    <3>1. Head(inflight[c]) \in SUBSET Ops /\ Tail(inflight[c]) \in Seq(SUBSET Ops)
      BY <2>1, <2>4, ElementsOfTail
    <3> QED BY <2>2, <2>4, <3>1
  <2> QED BY <2>3, <2>4
<1> HIDE DEF f, r
<1>6. /\ data' \in [Clients -> Docs] /\ version' \in [Clients -> Versions]
      /\ outcome' \in [Ops -> {"none", "ok", "failed"}]
      /\ RequestsFit /\ WaitingOK' /\ HistoryOK'
  BY <1>2, <1>4, <1>5, IngestTyped
<1>7. DocsFit /\ QueuesFit
  BY <1>1, <1>2, <1>6 DEF DocsFit, QueuesFit, Typed, DocsOK, QueuesOK
<1> QED BY <1>1, <1>3, <1>6, <1>7, StepTyped

LEMMA ReceiveSubscribedTyped ==
    ASSUME Typed, NEW c \in Clients, Taken(c), ReceiveSubscribed(c, Head(inbox[c]))
    PROVE  Typed' /\ Grows
<1> DEFINE m == Head(inbox[c])
           r == UNION Elements(pending[c])
<1>1. /\ log' = log /\ unpublished' \subseteq Commits /\ up' = up /\ drops' = drops
      /\ AgentsFit /\ m \in MessagesTo(c)
  BY TakenTyped
<1> HIDE DEF m
<1>2. /\ m.t = "subscribed" /\ Ingest(c, m.v, inflight[c], r)
      /\ sub' = [sub EXCEPT ![c] = "on"]
      /\ UNCHANGED <<ops, sent, tick, persisting, pos, late, abandoned>>
  BY DEF ReceiveSubscribed, m
<1>3. Grows
  BY <1>1, <1>2, GrowsWhenSame
<1>4. m.v \in Versions
  BY <1>1, <1>2, LogTyped DEF MessagesTo, Messages, Versions
<1>5. inflight[c] \in Seq(SUBSET Ops) /\ r \in SUBSET Ops
  <2>1. inflight[c] \in Seq(SUBSET Ops) /\ pending[c] \in Seq(SUBSET Ops)
    BY DEF Typed, WaitingOK
  <2>2. Elements(pending[c]) \subseteq SUBSET Ops
    BY <2>1, ElementsAreSubset
  <2> QED BY <2>1, <2>2
<1> HIDE DEF r
<1>6. /\ data' \in [Clients -> Docs] /\ version' \in [Clients -> Versions]
      /\ outcome' \in [Ops -> {"none", "ok", "failed"}]
      /\ RequestsFit /\ WaitingOK' /\ HistoryOK'
  BY <1>2, <1>4, <1>5, IngestTyped
<1>7. DocsFit /\ QueuesFit
  BY <1>1, <1>2, <1>6 DEF DocsFit, QueuesFit, Typed, DocsOK, QueuesOK
<1> QED BY <1>1, <1>3, <1>6, <1>7, StepTyped

LEMMA ContentTyped ==
    ASSUME Typed, NEW c \in Clients, NEW m \in MessagesTo(c), m.t \in {"op", "ack"}
    PROVE  /\ Content(m) \in ServerOps
           /\ m.id \in Ops /\ m.v \in 0 .. Len(log) - 1
           /\ log[m.v + 1] \in Entries /\ log[m.v + 1].id = m.id
<1>1. m.v + 1 \in 1..Len(log) /\ log[m.v + 1].id = m.id /\ m.v \in Int /\ Len(log) \in Nat
  BY LogTyped DEF MessagesTo, Messages, NullV
<1>2. log[m.v + 1] \in Entries /\ log[m.v + 1].at \in Nat /\ m.id \in Ops
  BY <1>1, LogTyped
<1>3. m.v \in 0 .. Len(log) - 1
  BY <1>1
<1>4. Kind[m.id] \in Kinds
  BY <1>2, KindAssumption
<1> QED BY <1>1, <1>2, <1>3, <1>4 DEF Content, ServerOps, Kinds

LEMMA ReceiveRemoteTyped ==
    ASSUME Typed, NEW c \in Clients, Taken(c), ReceiveRemote(c, Head(inbox[c]))
    PROVE  Typed' /\ Grows
<1> DEFINE m == Head(inbox[c])
           n == Len(ops[c])
           s == Past(c, Content(m))
           last == s[n]
           at(o) == CHOOSE i \in 1..n : ops[c][i] = o
<1>1. /\ log' = log /\ unpublished' \subseteq Commits /\ up' = up /\ drops' = drops
      /\ AgentsFit /\ m \in MessagesTo(c)
  BY TakenTyped
<1>2. /\ m.t \in {"op", "ack"} /\ m.v = version[c]
      /\ ~Conflicting(c, m)
      /\ data' = [data EXCEPT ![c] = Apply(@, m.id, last.at, last.kind)]
      /\ pos' = [o \in Ops |->
                   IF \E i \in 1..n : ops[c][i] = o
                   THEN NewClient(o, s[at(o) - 1])
                   ELSE pos[o]]
      /\ version' = [version EXCEPT ![c] = @ + 1]
      /\ UNCHANGED <<reqs, ops, sent, tick, sub, persisting, outcome>>
      /\ UNCHANGED fetchVars /\ UNCHANGED history
  BY DEF ReceiveRemote, IsNext
<1>3. /\ Content(m) \in ServerOps /\ m.id \in Ops /\ m.v \in 0 .. Len(log) - 1
  BY <1>1, <1>2, ContentTyped
<1>4. ops[c] \in Seq(Ops) /\ n \in Nat
  BY LenProperties DEF Typed, QueuesOK
<1>5. s \in [0..n -> ServerOps]
  BY <1>3, <1>4, PastIs
<1>6. ~Throws(data[c], last.at, last.kind)
  BY <1>2 DEF Conflicting
<1> HIDE DEF m, s
<1>7. Apply(data[c], m.id, last.at, last.kind) \in Docs
  <2>1. last \in ServerOps
    BY <1>4, <1>5
  <2> HIDE DEF last
  <2>2. last.at \in Nat /\ last.kind \in Kinds /\ data[c] \in Docs
    BY <2>1 DEF ServerOps, Typed, DocsOK
  <2> QED BY <1>3, <1>6, <2>2, ApplyTyped
<1>8. version[c] + 1 \in Versions
  BY <1>2, <1>3, LogTyped DEF Versions
<1>9. /\ pos' \in [Ops -> Nat \cup {NotMade}]
      /\ \A o \in Ops : pos[o] # NotMade => pos'[o] # NotMade
  <2>1. ASSUME NEW o \in Ops
        PROVE  /\ pos'[o] \in Nat \cup {NotMade}
               /\ pos[o] # NotMade => pos'[o] # NotMade
    <3>1. pos[o] \in Nat \cup {NotMade}
      BY DEF Typed, DocsOK
    <3>2. CASE ~\E i \in 1..n : ops[c][i] = o
      <4>1. pos'[o] = pos[o]
        BY <1>2, <3>2
      <4> QED BY <3>1, <4>1
    <3>3. CASE \E i \in 1..n : ops[c][i] = o
      <4>1. pos'[o] = NewClient(o, s[at(o) - 1])
        BY <1>2, <3>3
      <4>2. at(o) \in 1..n
        BY <3>3
      <4> HIDE DEF at
      <4>3. s[at(o) - 1] \in ServerOps
        BY <1>4, <1>5, <4>2
      <4>4. s[at(o) - 1].at \in Nat
        BY <4>3 DEF ServerOps
      <4>5. /\ NewClient(o, s[at(o) - 1]) \in Nat \cup {NotMade}
            /\ pos[o] # NotMade => NewClient(o, s[at(o) - 1]) # NotMade
        BY <3>1, <4>4 DEF NewClient, Shift, NotMade
      <4> QED BY <4>1, <4>5
    <3> QED BY <3>2, <3>3
  <2>2. pos' = [o \in Ops |-> pos'[o]]
    BY <1>2
  <2> QED BY <2>1, <2>2
<1>10. Grows
  BY <1>1, <1>9, LogTyped DEF Grows
<1>11. DocsFit /\ QueuesFit /\ RequestsFit /\ WaitingOK' /\ HistoryOK'
  <2>1. DocsFit
    BY <1>1, <1>2, <1>7, <1>8, <1>9 DEF DocsFit, Typed, DocsOK
  <2>2. QueuesFit /\ RequestsFit /\ WaitingOK' /\ HistoryOK'
    BY <1>2, Same
  <2> QED BY <2>1, <2>2
<1> QED BY <1>1, <1>10, <1>11, StepTyped

LEMMA ReceiveTyped ==
    ASSUME Typed, NEW c \in Clients, Receive(c)
    PROVE  Typed' /\ Grows
<1> DEFINE m == Head(inbox[c])
<1>1. Taken(c) /\ Handlers(c, m)
  BY DEF Receive
<1>2. CASE ReceiveAck(c, m)
  BY <1>1, <1>2, ReceiveAckTyped
<1>3. CASE ReceiveGap(c, m)
  BY <1>1, <1>3, ReceiveGapTyped
<1>4. CASE ReceiveOld(c, m)
  BY <1>1, <1>4, ReceiveNothingTyped DEF ReceiveOld
<1>5. CASE ReceiveRemote(c, m)
  BY <1>1, <1>5, ReceiveRemoteTyped
<1>6. CASE ReceiveConflict(c, m)
  <2>1. abandoned' \subseteq Ops
    BY <1>6 DEF ReceiveConflict, Typed, HistoryOK
  <2> QED BY <1>1, <1>6, <2>1, RollbackTyped DEF ReceiveConflict
<1>7. CASE ReceiveError(c, m)
  <2>1. CASE sent[c]
    <3>1. /\ HardRollback(c, ops[c]) /\ UNCHANGED pos
          /\ abandoned' = abandoned \cup
                {o \in Elements(ops[c]) \ {m.id} : UnderWay(reqs, o) \/ Logged(o)}
      BY <1>7, <2>1 DEF ReceiveError
    <3>2. ops[c] \in Seq(Ops) /\ abandoned \subseteq Ops
      BY DEF Typed, QueuesOK, HistoryOK
    <3>3. abandoned' \subseteq Ops
      BY <3>1, <3>2, ElementsAreSubset
    <3> QED BY <1>1, <3>1, <3>3, RollbackTyped
  <2>2. CASE ~sent[c]
    BY <1>1, <1>7, <2>2, ReceiveNothingTyped DEF ReceiveError
  <2> QED BY <2>1, <2>2
<1>8. CASE ReceiveFetched(c, m)
  BY <1>1, <1>8, ReceiveFetchedTyped
<1>9. CASE ReceiveSubscribed(c, m)
  BY <1>1, <1>9, ReceiveSubscribedTyped
<1> QED BY <1>1, <1>2, <1>3, <1>4, <1>5, <1>6, <1>7, <1>8, <1>9 DEF Handlers

(* The connection.                                                         *)
LEMMA DropTyped ==
    ASSUME Typed, NEW c \in Clients, Drop(c)
    PROVE  Typed' /\ Grows
<1>1. /\ up' = [up EXCEPT ![c] = FALSE] /\ drops' = [drops EXCEPT ![c] = @ + 1]
      /\ sent' = [sent EXCEPT ![c] = FALSE] /\ sub' = [sub EXCEPT ![c] = "wanted"]
      /\ inflight' = [inflight EXCEPT ![c] = <<>>]
      /\ pending' = [pending EXCEPT ![c] = @ \o inflight[c]]
      /\ inbox' = [inbox EXCEPT ![c] = <<>>]
      /\ open' = [open EXCEPT ![c] = "none"]
      /\ stream' = [stream EXCEPT ![c] = <<>>]
      /\ reqs' = [q \in {r \in DOMAIN reqs : r.c # c \/ r.t = "op"} |-> reqs[q]]
      /\ UNCHANGED <<log, unpublished, data, version, ops, tick, owed, deferred, persisting,
                     pos, outcome>>
      /\ UNCHANGED history
  BY DEF Drop, serverVars
<1>2. Grows
  BY <1>1, GrowsWhenSame
<1>3. RequestsFit
  <2>1. reqs \in [DOMAIN reqs -> {n \in Nat : n > 0}] /\ DOMAIN reqs \subseteq Requests
    BY DEF Typed, RequestsOK, IsABag
  <2> DEFINE D == {r \in DOMAIN reqs : r.c # c \/ r.t = "op"}
  <2>2. D \subseteq DOMAIN reqs
    OBVIOUS
  <2>3. reqs' = [q \in D |-> reqs[q]]
    BY <1>1
  <2> HIDE DEF D
  <2>4. DOMAIN reqs' = D /\ reqs' \in [D -> {n \in Nat : n > 0}]
    BY <2>1, <2>2, <2>3
  <2> QED BY <2>1, <2>2, <2>4 DEF RequestsFit, IsABag
<1>4. AgentsFit
  <2>1. /\ inbox \in [Clients -> Seq(Messages)]
        /\ \A k \in Clients : inbox[k] \in Seq(MessagesTo(k))
        /\ open \in [Clients -> {"none", "open", "attached"}]
        /\ stream \in [Clients -> Seq(Published)]
    BY DEF Typed, AgentsOK
  <2>2. /\ <<>> \in Seq(Messages) /\ <<>> \in Seq(MessagesTo(c)) /\ <<>> \in Seq(Published)
    BY EmptySeq
  <2>3. InboxFit
    BY <1>1, <2>1, <2>2 DEF InboxFit
  <2>4. stream' \in [Clients -> Seq(Published)] /\ open' \in [Clients -> {"none", "open", "attached"}]
    BY <1>1, <2>1, <2>2
  <2> QED BY <2>3, <2>4 DEF AgentsFit
<1>5. DocsFit
  BY <1>1 DEF DocsFit, Typed, DocsOK
<1>6. QueuesFit
  BY <1>1 DEF QueuesFit, Typed, DocsOK, QueuesOK
<1>7. unpublished' \subseteq Commits /\ HistoryOK'
  BY <1>1, Same
<1>8. WaitingOK'
  <2>1. /\ inflight \in [Clients -> Seq(SUBSET Ops)] /\ pending \in [Clients -> Seq(SUBSET Ops)]
        /\ owed \in [Clients -> SUBSET Ops] /\ deferred \in [Clients -> SUBSET Ops]
    BY DEF Typed, WaitingOK
  <2>2. pending[c] \o inflight[c] \in Seq(SUBSET Ops) /\ <<>> \in Seq(SUBSET Ops)
    BY <2>1, ConcatProperties, EmptySeq
  <2> QED BY <1>1, <2>1, <2>2 DEF WaitingOK
<1> QED BY <1>1, <1>2, <1>3, <1>4, <1>5, <1>6, <1>7, <1>8, StepTyped

LEMMA ConnectTyped ==
    ASSUME Typed, NEW c \in Clients, Connect(c)
    PROVE  Typed' /\ Grows
<1>1. /\ up' = [up EXCEPT ![c] = TRUE] /\ Flush(c, ops[c], sent[c], TRUE)
      /\ sub' = [sub EXCEPT ![c] = "asked"]
      /\ reqs' = BagAdd(reqs, Request("subscribe", c, version[c]))
      /\ UNCHANGED <<log, unpublished, inbox, drops, data, version, tick, pos, outcome>>
      /\ UNCHANGED agentVars /\ UNCHANGED fetchVars
      /\ late' = late /\ abandoned' = abandoned /\ overlooked' = overlooked \ {c}
  BY DEF Connect, serverVars
<1>2. Grows
  BY <1>1, GrowsWhenSame
<1>3. RequestsFit
  <2>1. version[c] \in Versions
    BY DEF Typed, DocsOK
  <2>2. Request("subscribe", c, version[c]) \in Requests
    BY <2>1, RequestTyped
  <2> QED BY <1>1, <2>2, RequestAdded
<1>4. QueuesFit
  <2>1. ops[c] \in Seq(MadeBy(c)) /\ sent[c] \in BOOLEAN /\ (sent[c] => ops[c] # <<>>)
    BY DEF Typed, DocsOK, QueuesOK
  <2> QED BY <1>1, <2>1, FlushTyped
<1>5. DocsFit
  BY <1>1 DEF DocsFit, Typed, DocsOK
<1>6. AgentsFit /\ unpublished' \subseteq Commits /\ WaitingOK'
  BY <1>1, Same
<1>7. HistoryOK'
  BY <1>1 DEF Typed, HistoryOK
<1> QED BY <1>1, <1>2, <1>3, <1>4, <1>5, <1>6, <1>7, StepTyped

(* A step of the server that leaves the log and the documents alone.       *)
LEMMA ServerStepTyped ==
    ASSUME Typed, log' = log, unpublished' \subseteq unpublished,
           UNCHANGED netVars, UNCHANGED stateVars, RequestsFit, AgentsFit, HistoryOK'
    PROVE  Typed' /\ Grows
<1>1. /\ UNCHANGED <<up, drops, data, version, ops, sent, tick, sub, persisting, pos, outcome>>
      /\ UNCHANGED fetchVars
  BY DEF netVars, stateVars
<1>2. Grows
  BY <1>1, GrowsWhenSame
<1>3. DocsFit /\ QueuesFit /\ WaitingOK' /\ unpublished' \subseteq Commits
  BY <1>1, Same
<1> QED BY <1>2, <1>3, StepTyped

LEMMA LoseTyped ==
    ASSUME Typed, NEW q \in DOMAIN reqs, Lose(q)
    PROVE  Typed' /\ Grows
<1>1. RequestsFit /\ AgentsFit /\ HistoryOK'
  BY RequestRemoved, Same DEF Lose, docVars
<1> QED BY <1>1, ServerStepTyped DEF Lose, serverVars, docVars

(* The server's steps.                                                     *)
LEMMA RequestIs ==
    ASSUME Typed, NEW q \in DOMAIN reqs
    PROVE  /\ q \in Requests /\ q.c \in Clients /\ q.v \in Versions /\ q.v \in Nat \cup {NullV}
           /\ q.conn \in Nat /\ q.at \in Nat /\ Len(log) \in Nat
           /\ q.t = "op" => q.id \in MadeBy(q.c) /\ q.id \in Ops
           /\ First(q) \in Nat
<1>1. q \in Requests /\ Len(log) \in Nat
  BY LogTyped DEF Typed, RequestsOK
<1> QED BY <1>1 DEF Requests, MadeBy, First

LEMMA CommitTyped ==
    ASSUME Typed, NEW q \in DOMAIN reqs, Commit(q)
    PROVE  Typed' /\ Grows
<1> DEFINE n == Len(log)
           e == [id |-> q.id, at |-> Place(q),
                 after |-> Apply(At(Len(log)), q.id, Place(q), Kind[q.id])]
           u == [c |-> q.c, conn |-> q.conn, from |-> First(q), v |-> Len(log)]
<1>1. /\ q.t = "op" /\ Fits(q) /\ log' = Append(log, e)
      /\ unpublished' = unpublished \cup {u}
      /\ reqs' = BagRemove(reqs, q)
      /\ UNCHANGED <<up, drops, inbox, data, version, ops, sent, tick, sub,
                     persisting, pos, outcome>>
      /\ UNCHANGED agentVars /\ UNCHANGED fetchVars /\ UNCHANGED history
  BY DEF Commit, netVars, docVars, stateVars
<1>2. /\ q \in Requests /\ q.c \in Clients /\ q.conn \in Nat /\ n \in Nat
      /\ q.id \in MadeBy(q.c) /\ q.id \in Ops /\ First(q) \in Nat /\ First(q) <= n
  BY <1>1, RequestIs DEF Fits
<1>3. Place(q) \in Nat
  BY <1>2, PlaceIs
<1>4. e \in Entries
  <2>1. n \in Versions
    BY <1>2 DEF Versions
  <2>2. At(n) \in Docs /\ Kind[q.id] \in Kinds
    BY <1>2, <2>1, LogTyped, KindAssumption
  <2>3. ~Throws(At(n), Place(q), Kind[q.id])
    BY <1>1 DEF Fits
  <2>4. Apply(At(n), q.id, Place(q), Kind[q.id]) \in Docs
    BY <1>2, <1>3, <2>2, <2>3, ApplyTyped
  <2>5. pos[q.id] # NotMade
    BY <1>2 DEF MadeBy
  <2> QED BY <1>2, <1>3, <2>4, <2>5 DEF Entries
<1>5. log \in Seq(Entries)
  BY DEF Typed, ServerOK
<1> HIDE DEF e
<1>6. /\ log' \in Seq(Entries) /\ Len(log') = n + 1 /\ log'[n + 1] = e
      /\ \A i \in 1..n : log'[i] = log[i]
  BY <1>1, <1>4, <1>5, AppendProperties
<1>7. Grows
  BY <1>1, <1>2, <1>6 DEF Grows
<1>8. log' \in Seq(Entries')
  <2>1. Entries \subseteq Entries'
    BY <1>7, SetsGrow
  <2> QED BY <1>6, <2>1, SeqMonotonic
<1>9. u \in Commits'
  <2>1. u \in [c : Clients, conn : Nat, from : Nat, v : Nat]
    BY <1>2
  <2>2. u.v + 1 \in 1..Len(log') /\ log'[u.v + 1].id = q.id
    BY <1>2, <1>6 DEF e
  <2>3. q.id \in MadeBy(q.c)'
    BY <1>1, <1>2 DEF MadeBy
  <2> QED BY <2>1, <2>2, <2>3 DEF Commits
<1>10. unpublished' \subseteq Commits'
  BY <1>1, <1>7, <1>9, StaysTyped
<1>11. RequestsFit /\ AgentsFit /\ DocsFit /\ QueuesFit /\ WaitingOK' /\ HistoryOK'
  BY <1>1, RequestRemoved, Same
<1>12. RequestsOK' /\ AgentsOK' /\ DocsOK' /\ QueuesOK'
  BY <1>7, <1>11, RequestsStay, AgentsStay, DocsStay, QueuesStay DEF QueuesFit
<1> QED BY <1>7, <1>8, <1>10, <1>11, <1>12 DEF Typed, ServerOK

LEMMA OneMessage ==
    ASSUME NEW S, NEW m \in S
    PROVE  <<m>> \in Seq(S)
OBVIOUS

LEMMA AckAgainTyped ==
    ASSUME Typed, NEW q \in DOMAIN reqs, NEW i \in 1..Len(log), AckAgain(q, i)
    PROVE  Typed' /\ Grows
<1> DEFINE m == [t |-> "ack", v |-> i - 1, id |-> q.id]
<1>1. /\ q.t = "op" /\ log[i].id = q.id /\ Send(q.c, q.conn, <<m>>)
      /\ reqs' = BagRemove(reqs, q) /\ log' = log /\ unpublished' = unpublished
      /\ UNCHANGED agentVars /\ UNCHANGED netVars /\ UNCHANGED stateVars /\ UNCHANGED history
  BY DEF AckAgain, serverVars, docVars
<1>2. q.c \in Clients /\ q.id \in MadeBy(q.c) /\ q.id \in Ops /\ Len(log) \in Nat
  BY <1>1, RequestIs
<1>3. m \in MessagesTo(q.c)
  <2>1. m \in Messages
    BY <1>2 DEF Messages
  <2>2. m.v + 1 = i
    BY <1>2
  <2> QED BY <1>1, <1>2, <2>1, <2>2 DEF MessagesTo
<1> HIDE DEF m
<1>4. <<m>> \in Seq(MessagesTo(q.c))
  BY <1>3, OneMessage
<1>5. InboxFit
  BY <1>1, <1>2, <1>4, SendTyped
<1>6. RequestsFit /\ AgentsFit
  BY <1>1, <1>5, RequestRemoved, Same
<1>9. HistoryOK'
  BY <1>1, Same
<1> QED BY <1>1, <1>6, <1>9, ServerStepTyped

LEMMA RefuseTyped ==
    ASSUME Typed, NEW q \in DOMAIN reqs, Refuse(q)
    PROVE  Typed' /\ Grows
<1> DEFINE m == [t |-> "err", v |-> NullV, id |-> q.id]
<1>1. /\ q.t = "op" /\ Send(q.c, q.conn, <<m>>)
      /\ reqs' = BagRemove(reqs, q) /\ log' = log /\ unpublished' = unpublished
      /\ UNCHANGED agentVars /\ UNCHANGED netVars /\ UNCHANGED stateVars
      /\ abandoned' \in {abandoned, abandoned \cup {q.id}} /\ late' = late /\ overlooked' = overlooked
  BY DEF Refuse, serverVars
<1>2. q.c \in Clients /\ q.id \in Ops
  BY <1>1, RequestIs
<1>3. m \in MessagesTo(q.c)
  BY <1>2 DEF MessagesTo, Messages
<1> HIDE DEF m
<1>4. <<m>> \in Seq(MessagesTo(q.c))
  BY <1>3, OneMessage
<1>5. InboxFit
  BY <1>1, <1>2, <1>4, SendTyped
<1>6. RequestsFit /\ AgentsFit
  BY <1>1, <1>5, RequestRemoved, Same
<1>7. HistoryOK'
  BY <1>1, <1>2 DEF Typed, HistoryOK
<1> QED BY <1>1, <1>6, <1>7, ServerStepTyped

LEMMA PublishTyped ==
    ASSUME Typed, NEW u \in unpublished, Publish(u)
    PROVE  Typed' /\ Grows
<1> DEFINE m == [t |-> "ack", v |-> u.v, id |-> log[u.v + 1].id]
<1>1. /\ unpublished' = unpublished \ {u}
      /\ stream' = [k \in Clients |->
                      IF k # u.c /\ open[k] # "none" THEN Append(stream[k], u.v) ELSE stream[k]]
      /\ Send(u.c, u.conn, OpMessages(u.from, u.v) \o <<m>>)
      /\ log' = log /\ reqs' = reqs /\ open' = open
      /\ UNCHANGED netVars /\ UNCHANGED stateVars /\ UNCHANGED history
  BY DEF Publish, docVars
<1>2. u \in Commits
  BY DEF Typed, ServerOK
<1>3. /\ u.c \in Clients /\ u.from \in Nat /\ u.v \in Published /\ u.v \in Versions /\ u.v \in Nat
      /\ u.v + 1 \in 1..Len(log) /\ log[u.v + 1].id \in MadeBy(u.c)
      /\ log[u.v + 1].id \in Ops
  BY <1>2, LogTyped DEF Commits, Published, Versions
<1>4. m \in MessagesTo(u.c)
  <2>1. m \in Messages
    BY <1>3 DEF Messages
  <2> QED BY <1>3, <2>1 DEF MessagesTo
<1> HIDE DEF m
<1>5. OpMessages(u.from, u.v) \o <<m>> \in Seq(MessagesTo(u.c))
  <2>1. <<m>> \in Seq(MessagesTo(u.c))
    BY <1>4, OneMessage
  <2>2. OpMessages(u.from, u.v) \in Seq(MessagesTo(u.c))
    BY <1>3, OpMessagesTyped
  <2> QED BY <2>1, <2>2, ConcatProperties
<1>6. InboxFit
  BY <1>1, <1>3, <1>5, SendTyped
<1>7. AgentsFit
  <2>1. stream \in [Clients -> Seq(Published)] /\ open' \in [Clients -> {"none", "open", "attached"}]
    BY <1>1 DEF Typed, AgentsOK
  <2>2. \A k \in Clients : Append(stream[k], u.v) \in Seq(Published)
    BY <1>3, <2>1, AppendProperties
  <2>3. stream' \in [Clients -> Seq(Published)]
    BY <1>1, <2>1, <2>2
  <2> QED BY <1>6, <2>1, <2>3 DEF AgentsFit
<1>8. RequestsFit
  BY <1>1, Same
<1>9. HistoryOK'
  BY <1>1, Same
<1> QED BY <1>1, <1>7, <1>8, <1>9, ServerStepTyped

LEMMA OpenStreamTyped ==
    ASSUME Typed, NEW q \in DOMAIN reqs, OpenStream(q)
    PROVE  Typed' /\ Grows
<1> DEFINE r == [q EXCEPT !.t = "opened"]
<1>1. /\ open' = [open EXCEPT ![q.c] = "open"]
      /\ reqs' = BagAdd(BagRemove(reqs, q), r)
      /\ log' = log /\ unpublished' = unpublished /\ inbox' = inbox /\ stream' = stream
      /\ UNCHANGED netVars /\ UNCHANGED stateVars /\ UNCHANGED history
  BY DEF OpenStream, serverVars, docVars
<1>2. q \in Requests
  BY RequestIs
<1>3. r \in Requests
  BY <1>2 DEF Requests, RequestTypes
<1> HIDE DEF r
<1>4. RequestsFit
  BY <1>1, <1>3, RequestReplaced
<1>5. AgentsFit
  BY <1>1 DEF AgentsFit, InboxFit, Typed, AgentsOK
<1>9. HistoryOK'
  BY <1>1, Same
<1> QED BY <1>1, <1>4, <1>5, <1>9, ServerStepTyped

LEMMA ReadTyped ==
    ASSUME Typed, NEW q \in DOMAIN reqs, Read(q)
    PROVE  Typed' /\ Grows
<1> DEFINE t == IF q.t = "fetch" THEN "fetched" ELSE "subscribed"
           r == [q EXCEPT !.at = Len(log), !.t = IF @ = "fetch" THEN "fetched" ELSE "subscribed"]
<1>1. /\ reqs' = BagAdd(BagRemove(reqs, q), r)
      /\ log' = log /\ unpublished' = unpublished /\ inbox' = inbox
      /\ UNCHANGED agentVars /\ UNCHANGED netVars /\ UNCHANGED stateVars /\ UNCHANGED history
  BY DEF Read, serverVars, docVars
<1>2. q \in Requests /\ Len(log) \in Nat
  BY RequestIs
<1>3. r = [q EXCEPT !.at = Len(log), !.t = t]
  BY <1>2 DEF Requests
<1>4. t \in RequestTypes /\ t # "op" /\ Len(log) \in Versions
  BY <1>2 DEF RequestTypes, Versions
<1> HIDE DEF r, t
<1>5. /\ r \in [t : RequestTypes, c : Clients, conn : Nat, v : Nat \cup {NullV},
                id : Ops \cup {Nil}, at : Nat]
      /\ r.t = t /\ r.at = Len(log) /\ r.v = q.v
  BY <1>2, <1>3, <1>4 DEF Requests
<1>6. r \in Requests
  BY <1>2, <1>4, <1>5 DEF Requests
<1>7. RequestsFit /\ AgentsFit
  BY <1>1, <1>6, RequestReplaced, Same
<1>9. HistoryOK'
  BY <1>1, Same
<1> QED BY <1>1, <1>7, <1>9, ServerStepTyped

LEMMA AnswerTyped ==
    ASSUME Typed, NEW q \in DOMAIN reqs, Answer(q)
    PROVE  Typed' /\ Grows
<1> DEFINE m == [t |-> q.t, v |-> q.at, id |-> Nil]
           k == [t |-> q.t, v |-> NullV, id |-> Nil]
           ms == IF q.v = NullV THEN <<m>> ELSE OpMessages(q.v, q.at) \o <<k>>
<1>1. /\ q.t \in {"fetched", "subscribed"} /\ Send(q.c, q.conn, ms)
      /\ open' = [open EXCEPT ![q.c] = IF q.t = "subscribed" THEN "attached" ELSE @]
      /\ reqs' = BagRemove(reqs, q)
      /\ log' = log /\ unpublished' = unpublished /\ stream' = stream
      /\ UNCHANGED netVars /\ UNCHANGED stateVars /\ UNCHANGED history
  BY DEF Answer, serverVars, docVars
<1>2. /\ q \in Requests /\ q.c \in Clients /\ q.at \in Nat /\ q.at \in Versions
      /\ Len(log) \in Nat /\ q.v \in Nat \cup {NullV}
  BY <1>1, RequestIs DEF Requests
<1>3. m \in MessagesTo(q.c) /\ k \in MessagesTo(q.c)
  BY <1>1, <1>2 DEF MessagesTo, Messages, Versions, NullV
<1> HIDE DEF m, k
<1>4. ms \in Seq(MessagesTo(q.c))
  <2>1. <<m>> \in Seq(MessagesTo(q.c)) /\ <<k>> \in Seq(MessagesTo(q.c))
    BY <1>3, OneMessage
  <2>2. CASE q.v = NullV
    BY <2>1, <2>2
  <2>3. CASE q.v # NullV
    <3>1. q.v \in Nat
      BY <1>2, <2>3
    <3>2. OpMessages(q.v, q.at) \in Seq(MessagesTo(q.c))
      BY <1>2, <3>1, OpMessagesTyped
    <3>3. OpMessages(q.v, q.at) \o <<k>> \in Seq(MessagesTo(q.c))
      BY <2>1, <3>2, ConcatProperties
    <3> QED BY <2>3, <3>3
  <2> QED BY <2>2, <2>3
<1> HIDE DEF ms
<1>5. InboxFit
  BY <1>1, <1>2, <1>4, SendTyped
<1>6. AgentsFit
  BY <1>1, <1>5 DEF AgentsFit, Typed, AgentsOK
<1>7. RequestsFit
  BY <1>1, RequestRemoved
<1>9. HistoryOK'
  BY <1>1, Same
<1> QED BY <1>1, <1>6, <1>7, <1>9, ServerStepTyped

LEMMA ForwardTyped ==
    ASSUME Typed, NEW c \in Clients, Forward(c)
    PROVE  Typed' /\ Grows
<1> DEFINE v == Head(stream[c])
<1>1. /\ stream[c] # <<>>
      /\ inbox' = [inbox EXCEPT ![c] = Append(@, OpMessage(v))]
      /\ stream' = [stream EXCEPT ![c] = Tail(@)]
      /\ log' = log /\ unpublished' = unpublished /\ reqs' = reqs /\ open' = open
      /\ UNCHANGED netVars /\ UNCHANGED stateVars /\ UNCHANGED history
  BY DEF Forward, serverVars, docVars
<1>2. /\ inbox \in [Clients -> Seq(Messages)]
      /\ \A k \in Clients : inbox[k] \in Seq(MessagesTo(k))
      /\ open \in [Clients -> {"none", "open", "attached"}]
      /\ stream \in [Clients -> Seq(Published)]
  BY DEF Typed, AgentsOK
<1>3. v \in Published /\ Tail(stream[c]) \in Seq(Published)
  BY <1>1, <1>2, ElementsOfTail
<1> HIDE DEF v
<1>4. OpMessage(v) \in MessagesTo(c) /\ OpMessage(v) \in Messages
  BY <1>3, OpMessageTyped DEF MessagesTo
<1>5. /\ Append(inbox[c], OpMessage(v)) \in Seq(MessagesTo(c))
      /\ Append(inbox[c], OpMessage(v)) \in Seq(Messages)
  BY <1>2, <1>4, AppendProperties
<1>6. InboxFit
  BY <1>1, <1>2, <1>5 DEF InboxFit
<1>7. AgentsFit /\ RequestsFit
  BY <1>1, <1>2, <1>3, <1>6, Same DEF AgentsFit
<1>9. HistoryOK'
  BY <1>1, Same
<1> QED BY <1>1, <1>7, <1>9, ServerStepTyped

LEMMA NextTyped ==
    ASSUME Typed, [Next]_vars
    PROVE  Typed' /\ Grows
<1>1. CASE UNCHANGED vars
  <2>1. log' = log /\ unpublished' = unpublished /\ UNCHANGED netVars /\ UNCHANGED stateVars
        /\ UNCHANGED history /\ UNCHANGED agentVars /\ reqs' = reqs /\ inbox' = inbox
    BY <1>1 DEF vars, netVars, stateVars, fetchVars, agentVars, history
  <2>2. RequestsFit /\ AgentsFit /\ HistoryOK'
    BY <2>1, Same
  <2> QED BY <2>1, <2>2, ServerStepTyped
<1>2. ASSUME NEW c \in Clients, NEW o \in Ops, SubmitBroken(c, o)
      PROVE  Typed' /\ Grows
  BY <1>2, SubmitBrokenTyped
<1>3. ASSUME NEW c \in Clients, NEW o \in Ops, NEW p \in 0..Cardinality(Ops), Submit(c, o, p)
      PROVE  Typed' /\ Grows
  BY <1>3, SubmitTyped
<1>4. ASSUME NEW c \in Clients, Work(c)
      PROVE  Typed' /\ Grows
  BY <1>4, FlushTickTyped, PersistedTyped, TellTyped, ReceiveTyped, ConnectTyped, ForwardTyped DEF Work
<1>5. ASSUME NEW c \in Clients, Drop(c)
      PROVE  Typed' /\ Grows
  BY <1>5, DropTyped
<1>6. ASSUME NEW q \in DOMAIN reqs, Handle(q)
      PROVE  Typed' /\ Grows
  BY <1>6, CommitTyped, AckAgainTyped, RefuseTyped, OpenStreamTyped, ReadTyped, AnswerTyped
  DEF Handle
<1>7. ASSUME NEW q \in DOMAIN reqs, Lose(q)
      PROVE  Typed' /\ Grows
  BY <1>7, LoseTyped
<1>8. ASSUME NEW u \in unpublished, Publish(u)
      PROVE  Typed' /\ Grows
  BY <1>8, PublishTyped
<1> QED BY <1>1, <1>2, <1>3, <1>4, <1>5, <1>6, <1>7, <1>8 DEF Next

-----------------------------------------------------------------------------
(* The preset ops.                                                         *)
PresetSteps(h) ==
    /\ h[0] = NoDoc
    /\ \A i \in 1..Len(Preset) :
          \/ h[i] = Apply(h[i - 1], Preset[i], 0, Kind[Preset[i]])
          \/ Throws(h[i - 1], 0, Kind[Preset[i]]) /\ h[i] = NoDoc

LEMMA PresetOps ==
    /\ Len(Preset) \in Nat
    /\ \A i \in 1..Len(Preset) : /\ Preset[i] \in Ops /\ Owner[Preset[i]] = Nil
                                 /\ Kind[Preset[i]] \in {"create", "edit", "del"}
                                 /\ Kind[Preset[i]] \in Kinds
<1>1. Len(Preset) \in Nat /\ \A i \in 1..Len(Preset) : Preset[i] \in Ops
  BY PresetAssumption, LenProperties, ElementOfSeq
<1> QED BY <1>1, PresetAssumption, KindAssumption DEF Kinds

LEMMA PresetDocs ==
    ASSUME NEW h, PresetSteps(h)
    PROVE  \A i \in 0..Len(Preset) :
              /\ h[i] \in Docs
              /\ h[i] = NoDoc <=> i = 0 \/ Kind[Preset[i]] = "del"
              /\ i > 0 => ~Throws(h[i - 1], 0, Kind[Preset[i]])
<1> DEFINE Good(i) == /\ h[i] \in Docs
                      /\ h[i] = NoDoc <=> i = 0 \/ Kind[Preset[i]] = "del"
                      /\ i > 0 => ~Throws(h[i - 1], 0, Kind[Preset[i]])
           n == Len(Preset)
           z == 0
           G == {i \in 0..n : Good(i)}
<1>1. n \in Nat
  BY PresetOps
<1>2. z \in G
  BY <1>1 DEF PresetSteps, Docs
<1>3. ASSUME NEW i \in z..(n - 1), Good(i) PROVE Good(i + 1)
  <2> DEFINE o == Preset[i + 1]
             d == h[i]
  <2>1. i \in Nat /\ i + 1 \in 1..n /\ i + 1 - 1 = i
    BY <1>1
  <2>2. o \in Ops /\ Kind[o] \in Kinds /\ Kind[o] \in {"create", "edit", "del"}
    BY <2>1, PresetOps
  <2>3. CanApply(Kind[o], i + 1 > 1 /\ Kind[Preset[i]] # "del")
    BY <2>1, PresetAssumption
  <2>4. d \in Docs /\ (d = NoDoc <=> i = 0 \/ Kind[Preset[i]] = "del")
    BY <1>3
  <2>5. h[i + 1] = Apply(d, o, 0, Kind[o]) \/ (Throws(d, 0, Kind[o]) /\ h[i + 1] = NoDoc)
    BY <2>1 DEF PresetSteps
  <2> HIDE DEF o, d
  <2>6. ~Throws(d, 0, Kind[o])
    <3> SUFFICES ASSUME Kind[o] = "edit" PROVE ~Throws(d, 0, Kind[o])
      BY DEF Throws
    <3>1. d # NoDoc
      BY <2>1, <2>3, <2>4 DEF CanApply
    <3>2. d \in Seq(Ops)
      BY <2>4, <3>1 DEF Docs
    <3>3. Len(d) \in Nat
      BY <3>2, LenProperties
    <3> QED BY <3>1, <3>3 DEF Throws
  <2>7. h[i + 1] = Apply(d, o, 0, Kind[o]) /\ h[i + 1] \in Docs
    BY <2>2, <2>4, <2>5, <2>6, ApplyTyped
  <2>8. h[i + 1] = NoDoc <=> Kind[o] = "del"
    <3>1. CASE Kind[o] = "create"
      <4>1. h[i + 1] = <<>> /\ <<>> \in Seq(Ops)
        BY <2>7, <3>1 DEF Apply
      <4> QED BY <3>1, <4>1, NoDocAssumption
    <3>2. CASE Kind[o] = "edit"
      <4>1. h[i + 1] = Insert(d, 0, o)
        BY <2>7, <3>2 DEF Apply
      <4>2. d # NoDoc /\ d \in Seq(Ops)
        BY <2>1, <2>3, <2>4, <3>2 DEF CanApply, Docs
      <4>3. 0 \in 0..Len(d)
        BY <4>2, LenProperties
      <4>4. Insert(d, 0, o) \in Seq(Ops)
        BY <2>2, <4>2, <4>3, InsertIs DEF Inserted
      <4> QED BY <3>2, <4>1, <4>4, NoDocAssumption
    <3>3. CASE Kind[o] = "del"
      BY <2>7, <3>3 DEF Apply
    <3> QED BY <2>2, <3>1, <3>2, <3>3
  <2> QED BY <2>1, <2>6, <2>7, <2>8 DEF o, d
<1>4. \A i \in z..(n - 1) : i \in G => i + 1 \in G
  <2> HIDE DEF Good
  <2>1. \A i \in z..(n - 1) : i + 1 \in 0..n
    BY <1>1
  <2> QED BY <1>3, <2>1
<1>5. \A i \in z..n : i \in G
  <2>1. z \in Int /\ n \in Int
    BY <1>1
  <2> HIDE DEF G, z, n
  <2> QED BY <1>2, <1>4, <2>1, InductFrom
<1> QED BY <1>5

LEMMA PresetLogIs ==
    /\ PresetLog \in [1..Len(Preset) -> [id : Ops, at : Nat, after : Docs]]
    /\ Len(PresetLog) = Len(Preset)
    /\ \A i \in 1..Len(Preset) :
          /\ PresetLog[i].id = Preset[i]
          /\ PresetLog[i].after = NoDoc <=> Kind[Preset[i]] = "del"
<1> DEFINE n == Len(Preset)
           z == 0
           Through(f) == f = [i \in 0..n |-> IF i = 0 THEN NoDoc
                                ELSE Apply(f[i - 1], Preset[i], 0, Kind[Preset[i]])]
           g == CHOOSE f : Through(f)
           Guarded(d, i) == IF Throws(d, 0, Kind[Preset[i]]) THEN NoDoc
                            ELSE Apply(d, Preset[i], 0, Kind[Preset[i]])
           T == [q \in Docs \X (z + 1 .. n) |-> Guarded(q[1], q[2])]
<1>1. n \in Nat /\ NoDoc \in Docs
  BY PresetOps DEF Docs
<1>2. \A d \in Docs : \A i \in 1..n : Guarded(d, i) \in Docs
  <2>1. ASSUME NEW d \in Docs, NEW i \in 1..n PROVE Guarded(d, i) \in Docs
    <3>1. Preset[i] \in Ops /\ Kind[Preset[i]] \in Kinds /\ 0 \in Nat
      BY PresetOps
    <3>2. ~Throws(d, 0, Kind[Preset[i]]) => Apply(d, Preset[i], 0, Kind[Preset[i]]) \in Docs
      BY <3>1, ApplyTyped
    <3> QED BY <1>1, <3>2
  <2> QED BY <2>1
<1>3. T \in [Docs \X (z + 1 .. n) -> Docs]
  <2> HIDE DEF Guarded
  <2>1. \A q \in Docs \X (z + 1 .. n) : q[1] \in Docs /\ q[2] \in 1..n
    OBVIOUS
  <2> QED BY <1>2, <2>1
<1>4. \A d \in Docs : \A i \in z + 1 .. n : T[<<d, i>>] = Guarded(d, i)
  <2> HIDE DEF Guarded
  <2> QED OBVIOUS
<1> HIDE DEF T
<1>5. PICK f \in [0..n -> Docs] : Steps(f, 0, n, NoDoc, T)
  <2>1. z \in Int /\ n \in Int /\ z <= n
    BY <1>1
  <2> HIDE DEF n, z
  <2>2. \E f \in [z..n -> Docs] : Steps(f, z, n, NoDoc, T)
    BY <1>1, <1>3, <2>1, StepsExist
  <2> QED BY <2>2 DEF z
<1>6. \A i \in 1..n : f[i] = Guarded(f[i - 1], i)
  <2>1. ASSUME NEW i \in 1..n PROVE f[i] = Guarded(f[i - 1], i)
    <3>1. i \in z + 1 .. n /\ i \in 0..n /\ i - 1 \in 0..n /\ i # 0
      BY <1>1
    <3>2. f[i] = T[<<f[i - 1], i>>]
      BY <1>5, <3>1 DEF Steps
    <3> HIDE DEF Guarded
    <3> QED BY <1>4, <1>5, <3>1, <3>2
  <2> QED BY <2>1
<1>7. f[0] = NoDoc
  <2>1. 0 \in 0..n
    BY <1>1
  <2> HIDE DEF n, Guarded
  <2> QED BY <1>5, <2>1, Zenon DEF Steps
<1>8. PresetSteps(f)
  BY <1>6, <1>7 DEF PresetSteps
<1>9. \A i \in 1..n : f[i] = Apply(f[i - 1], Preset[i], 0, Kind[Preset[i]])
  <2>1. \A i \in 1..n : ~Throws(f[i - 1], 0, Kind[Preset[i]])
    BY <1>1, <1>8, PresetDocs
  <2> QED BY <1>6, <2>1
<1>10. Through(f)
  BY <1>1, <1>5, <1>7, <1>9
<1>11. Through(g)
  <2> HIDE DEF Through
  <2> QED BY <1>10
<1>12. PresetLog = [i \in 1..n |-> [id |-> Preset[i], at |-> 0, after |-> g[i]]]
  BY DEF PresetLog
<1> HIDE DEF g
<1>13. PresetSteps(g)
  <2>1. g[0] = NoDoc
    BY <1>1, <1>11
  <2>2. \A i \in 1..n : g[i] = Apply(g[i - 1], Preset[i], 0, Kind[Preset[i]])
    BY <1>1, <1>11
  <2> QED BY <2>1, <2>2 DEF PresetSteps
<1>14. \A i \in 1..n : g[i] \in Docs /\ (g[i] = NoDoc <=> Kind[Preset[i]] = "del")
  BY <1>1, <1>13, PresetDocs
<1>15. \A i \in 1..n : Preset[i] \in Ops
  BY PresetOps
<1> HIDE DEF n, Through
<1>16. PresetLog \in [1..n -> [id : Ops, at : Nat, after : Docs]]
  BY <1>12, <1>14, <1>15
<1>17. Len(PresetLog) = n
  BY <1>1, <1>12
<1> QED BY <1>12, <1>14, <1>16, <1>17 DEF n

LEMMA InitTyped == Init => Typed
<1> SUFFICES ASSUME Init PROVE Typed
  OBVIOUS
<1>1. log \in Seq(Entries)
  <2>1. log = PresetLog /\ Len(Preset) \in Nat
    BY PresetOps DEF Init
  <2>2. \A i \in 1..Len(Preset) : log[i] \in Entries
    BY <2>1, PresetLogIs, PresetOps DEF Entries
  <2>3. log \in [1..Len(Preset) -> Entries]
    BY <2>1, <2>2, PresetLogIs
  <2> QED BY <2>1, <2>3
<1>2. RequestsOK
  BY DEF Init, RequestsOK, IsABag, EmptyBag, SetToBag
<1>3. AgentsOK /\ QueuesOK
  <2>1. \A S : <<>> \in Seq(S)
    BY EmptySeq
  <2> QED BY <2>1 DEF Init, AgentsOK, QueuesOK
<1>4. DocsOK
  BY DEF Init, DocsOK, Docs, Versions
<1>5. WaitingOK /\ HistoryOK
  <2>1. <<>> \in Seq(SUBSET Ops)
    BY EmptySeq
  <2> QED BY <2>1 DEF Init, WaitingOK, HistoryOK
<1> QED BY <1>1, <1>2, <1>3, <1>4, <1>5 DEF Typed, ServerOK, Init

(* The types of the state; no client's document is ahead of the log.       *)
THEOREM TypeCorrect == Spec => []TypeOK
<1>1. Init => Typed
  BY InitTyped
<1>2. Typed /\ [Next]_vars => Typed'
  BY NextTyped
<1>3. Typed => TypeOK
  BY TypedGivesTypeOK
<1> QED BY <1>1, <1>2, <1>3, PTL DEF Spec

-----------------------------------------------------------------------------
(* No op is committed twice.  A client sends an op again when the          *)
(* connection comes back, at the version that it has then; the server      *)
(* recognises the op because it looks through the log from that version.   *)
(* So the version must be one from before the op was committed, in every   *)
(* request on its way and in the client for as long as it may send again.  *)

Distinct(s) == \A i, j \in 1..Len(s) : s[i] = s[j] => i = j

Queued(c) == Elements(ops[c])

Waits(c, o) == o = Head(ops[c]) /\ (up[c] => sent[c])

(* An op whose persist callback is still to come is the first, if it is    *)
(* still unacknowledged at all.                                            *)
Persists(c) == \A o \in Elements(persisting[c]) : o \in Queued(c) => Waits(c, o)

Unseen(c) ==
    \A i \in 1..Len(log) :
        log[i].id \in Queued(c) => Waits(c, log[i].id) /\ version[c] < i

Starts(c) ==
    version[c] = NullV =>
        IF ops[c] = <<>> THEN data[c] = NoDoc ELSE Kind[Head(ops[c])] = "create"

Connected(c) == inbox[c] # <<>> \/ open[c] # "none" => up[c]

OnceClient(c) ==
    Distinct(ops[c]) /\ Persists(c) /\ Unseen(c) /\ Starts(c) /\ Connected(c)

FromBefore(q) ==
    /\ q.id \in Queued(q.c) => Waits(q.c, q.id)
    /\ q.id \notin late =>
          /\ \A i \in 1..Len(log) : log[i].id = q.id => q.v < i
          /\ q.v = NullV => Kind[q.id] = "create"

Answerable(r) == r.conn <= drops[r.c] /\ (r.conn = drops[r.c] => up[r.c])

OnceRequest(q) ==
    /\ Answerable(q)
    /\ q.t # "op" => q.conn = drops[q.c]
    /\ q.t = "op" => FromBefore(q)

NoDel == \A o \in Ops : Kind[o] # "del"

Stays == NoDel => \A i \in 1..Len(log) : log[i].after # NoDoc

(* A client's create cannot be followed by a delete and a resend of the    *)
(* create.                                                                 *)
RecreateSafe == NoDel \/ \A o \in Ops : Kind[o] = "create" => Owner[o] = Nil

OnceInv ==
    /\ Typed
    /\ \A c \in Clients : OnceClient(c)
    /\ \A q \in DOMAIN reqs : OnceRequest(q)
    /\ \A u \in unpublished : Answerable(u)
    /\ Stays
    /\ ExactlyOnce

LEMMA DistinctTail ==
    ASSUME NEW S, NEW s \in Seq(S), s # <<>>, Distinct(s)
    PROVE  Distinct(Tail(s)) /\ Head(s) \notin Elements(Tail(s))
<1>1. /\ Len(s) \in Nat \ {0} /\ Head(s) = s[1]
      /\ Len(Tail(s)) = Len(s) - 1
      /\ \A i \in 1..Len(Tail(s)) : Tail(s)[i] = s[i + 1]
  BY HeadTailProperties, EmptySeq, LenProperties
<1>2. 1 \in 1..Len(s) /\ \A i \in 1..Len(Tail(s)) : i + 1 \in 1..Len(s) /\ i + 1 # 1
  BY <1>1
<1>3. Head(s) \notin Elements(Tail(s))
  BY <1>1, <1>2 DEF Distinct, Elements
<1>4. ASSUME NEW i \in 1..Len(Tail(s)), NEW j \in 1..Len(Tail(s)), Tail(s)[i] = Tail(s)[j]
      PROVE  i = j
  <2>1. i + 1 = j + 1
    BY <1>1, <1>2, <1>4 DEF Distinct
  <2> QED BY <1>1, <2>1
<1> QED BY <1>3, <1>4 DEF Distinct

LEMMA DistinctAppend ==
    ASSUME NEW S, NEW s \in Seq(S), NEW e \in S, Distinct(s), e \notin Elements(s)
    PROVE  Distinct(Append(s, e))
<1>1. /\ Len(s) \in Nat /\ Len(Append(s, e)) = Len(s) + 1
      /\ \A i \in 1..Len(s) : Append(s, e)[i] = s[i]
      /\ Append(s, e)[Len(s) + 1] = e
  BY AppendProperties, LenProperties
<1>2. \A i \in 1..Len(Append(s, e)) : i \in 1..Len(s) \/ i = Len(s) + 1
  BY <1>1
<1>3. \A i \in 1..Len(s) : s[i] # e
  BY DEF Elements
<1> QED BY <1>1, <1>2, <1>3 DEF Distinct

LEMMA EmptyQueue ==
    ASSUME NEW S, NEW s \in Seq(S)
    PROVE  s = <<>> <=> Elements(s) = {}
<1>1. s = <<>> => Elements(s) = {}
  BY ElementsOfEmpty
<1>2. s # <<>> => Head(s) \in Elements(s)
  BY ElementsOfTail
<1> QED BY <1>1, <1>2

(* What does not change.                                                   *)
LEMMA SameClient ==
    ASSUME NEW k, OnceClient(k), log' = log,
           UNCHANGED <<ops[k], version[k], data[k], sent[k], up[k], persisting[k],
                       inbox[k], open[k]>>
    PROVE  OnceClient(k)'
BY DEF OnceClient, Persists, Unseen, Starts, Connected, Queued, Waits

LEMMA SameCommit ==
    ASSUME NEW u, Answerable(u), drops'[u.c] = drops[u.c], up[u.c] => up'[u.c]
    PROVE  Answerable(u)'
BY DEF Answerable

(* The ops that wait for an answer still do, if they are still queued.     *)
KeepsWaits(c) ==
    \A o \in MadeBy(c) :
        (o \in Queued(c) => Waits(c, o)) => (o \in Queued(c)' => Waits(c, o)')

LEMMA SameRequest ==
    ASSUME Typed, NEW q \in DOMAIN reqs, OnceRequest(q), log' = log, late \subseteq late',
           drops'[q.c] = drops[q.c], up[q.c] => up'[q.c], KeepsWaits(q.c)
    PROVE  OnceRequest(q)'
<1>1. q.t = "op" => q.id \in MadeBy(q.c)
  BY RequestIs
<1> QED BY <1>1 DEF OnceRequest, FromBefore, Answerable, KeepsWaits

LEMMA OtherClientsKeepWaits ==
    ASSUME NEW k, ops'[k] = ops[k], sent'[k] = sent[k], up'[k] = up[k]
    PROVE  KeepsWaits(k)
BY DEF KeepsWaits, Queued, Waits

(* A step of client c; a step of the server that commits nothing.          *)
LEMMA ClientStepOnce ==
    ASSUME OnceInv, Typed', NEW c \in Clients, log' = log, unpublished' = unpublished,
           late \subseteq late',
           \A k \in Clients : k # c =>
              UNCHANGED <<ops[k], version[k], data[k], sent[k], up[k], persisting[k],
                          inbox[k], open[k]>>,
           \A k \in Clients : drops'[k] = drops[k] /\ (up[k] => up'[k]),
           KeepsWaits(c), OnceClient(c)',
           \A q \in DOMAIN reqs' : q \in DOMAIN reqs \/ OnceRequest(q)'
    PROVE  OnceInv'
<1>1. \A k \in Clients : OnceClient(k)'
  BY SameClient DEF OnceInv
<1>2. \A k \in Clients : KeepsWaits(k)
  BY OtherClientsKeepWaits
<1>3. \A q \in DOMAIN reqs' : OnceRequest(q)'
  <2>1. ASSUME NEW q \in DOMAIN reqs PROVE OnceRequest(q)'
    <3>1. q.c \in Clients /\ Typed /\ OnceRequest(q)
      BY RequestIs DEF OnceInv
    <3> QED BY <1>2, <3>1, SameRequest
  <2> QED BY <2>1
<1>4. \A u \in unpublished' : Answerable(u)'
  <2>1. ASSUME NEW u \in unpublished PROVE Answerable(u)'
    <3>1. u.c \in Clients /\ Answerable(u)
      BY DEF OnceInv, Typed, ServerOK, Commits
    <3> QED BY <3>1, SameCommit
  <2> QED BY <2>1
<1>5. Stays' /\ ExactlyOnce'
  BY DEF OnceInv, Stays, ExactlyOnce
<1> QED BY <1>1, <1>3, <1>4, <1>5 DEF OnceInv

LEMMA ServerStepOnce ==
    ASSUME OnceInv, Typed', log' = log, unpublished' \subseteq unpublished,
           UNCHANGED netVars, UNCHANGED stateVars, late' = late,
           \A k \in Clients : Connected(k)',
           \A q \in DOMAIN reqs' : q \in DOMAIN reqs \/ OnceRequest(q)'
    PROVE  OnceInv'
<1>1. UNCHANGED <<up, drops, data, version, ops, sent, persisting>>
  BY DEF netVars, stateVars
<1>2. \A k \in Clients : OnceClient(k)'
  BY <1>1 DEF OnceInv, OnceClient, Persists, Unseen, Starts, Queued, Waits
<1>3. \A k : KeepsWaits(k)
  BY <1>1, OtherClientsKeepWaits
<1>4. \A q \in DOMAIN reqs' : OnceRequest(q)'
  <2>1. ASSUME NEW q \in DOMAIN reqs PROVE OnceRequest(q)'
    <3>1. Typed /\ OnceRequest(q)
      BY DEF OnceInv
    <3> QED BY <1>1, <1>3, <3>1, SameRequest
  <2> QED BY <2>1
<1>5. \A u \in unpublished' : Answerable(u)'
  BY <1>1, SameCommit DEF OnceInv
<1>6. Stays' /\ ExactlyOnce'
  BY DEF OnceInv, Stays, ExactlyOnce
<1> QED BY <1>2, <1>4, <1>5, <1>6 DEF OnceInv

LEMMA QueueIs ==
    ASSUME Typed, NEW c \in Clients
    PROVE  /\ ops[c] \in Seq(Ops) /\ persisting[c] \in Seq(Ops)
           /\ Queued(c) \subseteq MadeBy(c) /\ Elements(persisting[c]) \subseteq MadeBy(c)
           /\ ops[c] = <<>> <=> Queued(c) = {}
           /\ ops[c] # <<>> => Head(ops[c]) \in Queued(c)
           /\ sent[c] => ops[c] # <<>>
           /\ up[c] \in BOOLEAN /\ sent[c] \in BOOLEAN /\ drops[c] \in Nat
           /\ version[c] \in Versions /\ version[c] \in Int
<1>1. /\ ops[c] \in Seq(Ops) /\ persisting[c] \in Seq(Ops)
      /\ ops[c] \in Seq(MadeBy(c)) /\ persisting[c] \in Seq(MadeBy(c))
      /\ sent[c] => ops[c] # <<>>
      /\ up[c] \in BOOLEAN /\ sent[c] \in BOOLEAN /\ drops[c] \in Nat
      /\ version[c] \in Versions
  BY DEF Typed, DocsOK, QueuesOK
<1>2. \A s \in Seq(MadeBy(c)) : Elements(s) \subseteq MadeBy(c)
  <2>1. ASSUME NEW s \in Seq(MadeBy(c)), NEW i \in 1..Len(s) PROVE s[i] \in MadeBy(c)
    BY ElementOfSeq
  <2> QED BY <2>1 DEF Elements
<1>3. ops[c] = <<>> <=> Queued(c) = {}
  BY <1>1, EmptyQueue DEF Queued
<1>4. ops[c] # <<>> => Head(ops[c]) \in Queued(c)
  BY <1>1, ElementsOfTail DEF Queued
<1> QED BY <1>1, <1>2, <1>3, <1>4, LogTyped DEF Queued

LEMMA FlushOnce ==
    ASSUME Typed, NEW c \in Clients, NEW q \in Seq(Ops), NEW busy \in BOOLEAN,
           NEW canSend \in BOOLEAN, Flush(c, q, busy, canSend)
    PROVE  /\ ops'[c] = q
           /\ busy => sent'[c]
           /\ canSend /\ q # <<>> => sent'[c]
           /\ \A o \in Elements(persisting'[c]) :
                 o \in Elements(persisting[c]) \/ (sent'[c] /\ o = Head(q))
           /\ \A k \in Clients : k # c => UNCHANGED <<ops[k], sent[k], persisting[k]>>
<1> DEFINE go == canSend /\ ~busy /\ q # <<>>
<1>1. /\ ops' = [ops EXCEPT ![c] = q]
      /\ sent' = [sent EXCEPT ![c] = busy \/ go]
      /\ persisting' = [persisting EXCEPT ![c] = IF go THEN Append(@, Head(q)) ELSE @]
  BY DEF Flush
<1>2. /\ ops \in [Clients -> Seq(Ops)] /\ persisting \in [Clients -> Seq(Ops)]
      /\ sent \in [Clients -> BOOLEAN]
  BY DEF Typed, DocsOK, QueuesOK
<1>3. ops'[c] = q /\ (busy => sent'[c]) /\ (go => sent'[c])
  BY <1>1, <1>2
<1>4. \A o \in Elements(persisting'[c]) :
         o \in Elements(persisting[c]) \/ (sent'[c] /\ o = Head(q))
  <2>1. CASE go
    <3>1. persisting'[c] = Append(persisting[c], Head(q)) /\ Head(q) \in Ops
      BY <1>1, <1>2, <2>1, ElementsOfTail
    <3>2. Elements(persisting'[c]) = Elements(persisting[c]) \cup {Head(q)}
      BY <1>2, <3>1, ElementsOfAppend
    <3> QED BY <1>3, <2>1, <3>2
  <2>2. CASE ~go
    BY <1>1, <1>2, <2>2
  <2> QED BY <2>1, <2>2
<1>5. \A k \in Clients : k # c => UNCHANGED <<ops[k], sent[k], persisting[k]>>
  BY <1>1, <1>2
<1> QED BY <1>3, <1>4, <1>5

LEMMA AskedOnce ==
    ASSUME Typed, NEW c \in Clients, NEW v, NEW t \in {"fetch", "subscribe"},
           NEW r, r = Request(t, c, v), up'[c], drops'[c] = drops[c]
    PROVE  OnceRequest(r)'
<1>1. r.t = t /\ r.c = c /\ r.conn = drops[c]
  BY DEF Request
<1>2. drops[c] \in Nat
  BY QueueIs
<1> QED BY <1>1, <1>2 DEF OnceRequest, Answerable

LEMMA FetchOnce ==
    ASSUME Typed, NEW c \in Clients, NEW f, NEW p, NEW callback, NEW force, NEW v,
           Fetch(c, f, p, callback, force, v),
           up[c] => up'[c], drops'[c] = drops[c]
    PROVE  \A q \in DOMAIN reqs' : q \in DOMAIN reqs \/ OnceRequest(q)'
<1>1. reqs' = reqs \/ (up'[c] /\ reqs' = BagAdd(reqs, Request("fetch", c, v)))
  BY DEF Fetch
<1>2. DOMAIN BagAdd(reqs, Request("fetch", c, v)) = DOMAIN reqs \cup {Request("fetch", c, v)}
  BY BagAdded DEF Typed, RequestsOK
<1>3. ASSUME up'[c], NEW r, r = Request("fetch", c, v) PROVE OnceRequest(r)'
  BY <1>3, AskedOnce
<1> QED BY <1>1, <1>2, <1>3

(* An op that a client has not made is not in the log.                     *)
LEMMA UnmadeNotLogged ==
    ASSUME Typed, NEW c \in Clients, NEW o \in Ops, Owner[o] = c, pos[o] = NotMade
    PROVE  o \notin MadeBy(c) /\ \A i \in 1..Len(log) : log[i].id # o
<1>1. \A i \in 1..Len(log) : log[i] \in Entries
  BY LogTyped
<1>2. Owner[o] # Nil
  BY NilAssumption
<1> QED BY <1>1, <1>2 DEF Entries, MadeBy

LEMMA SubmitOnce ==
    ASSUME OnceInv, Typed', NEW c \in Clients, NEW o \in Ops, NEW p \in Nat,
           Submit(c, o, p)
    PROVE  OnceInv'
<1> USE DEF OnceInv
<1>1. /\ Owner[o] = c /\ pos[o] = NotMade
      /\ CanApply(Kind[o], data[c] # NoDoc) /\ (Kind[o] = "del" => data[c] # NoDoc)
      /\ data' = [data EXCEPT ![c] = Apply(@, o, p, Kind[o])]
      /\ ops' = [ops EXCEPT ![c] = Append(@, o)]
      /\ UNCHANGED <<log, unpublished, open, stream, up, drops, reqs, inbox, version, sent,
                     sub, persisting, outcome, late>>
  BY DEF Submit, serverVars, agentVars, netVars, history
<1>2. /\ ops \in [Clients -> Seq(Ops)] /\ data \in [Clients -> Docs] /\ OnceClient(c)
  BY DEF Typed, DocsOK, QueuesOK
<1>3. /\ o \notin MadeBy(c) /\ o \notin Queued(c)
      /\ \A i \in 1..Len(log) : log[i].id # o
  BY <1>1, UnmadeNotLogged, QueueIs
<1>4. /\ ops'[c] = Append(ops[c], o)
      /\ Queued(c)' = Queued(c) \cup {o}
      /\ Distinct(ops'[c])
      /\ Head(ops'[c]) = IF ops[c] = <<>> THEN o ELSE Head(ops[c])
      /\ ops'[c] # <<>>
  <2>1. ops'[c] = Append(ops[c], o) /\ ops[c] \in Seq(Ops)
    BY <1>1, <1>2
  <2>2. Elements(Append(ops[c], o)) = Elements(ops[c]) \cup {o} /\ Append(ops[c], o) # <<>>
    BY <2>1, ElementsOfAppend, AppendProperties
  <2>3. Distinct(Append(ops[c], o))
    BY <1>2, <1>3, <2>1, DistinctAppend DEF OnceClient, Queued
  <2>4. Head(Append(ops[c], o)) = IF ops[c] = <<>> THEN o ELSE Head(ops[c])
    BY <2>1, HeadTailAppend
  <2> QED BY <2>1, <2>2, <2>3, <2>4 DEF Queued
<1>5. \A x : x \in Queued(c) => (Waits(c, x) => Waits(c, x)')
  BY <1>1, <1>4, QueueIs DEF Waits
<1>6. KeepsWaits(c)
  BY <1>3, <1>4, <1>5 DEF KeepsWaits
<1>7. Unseen(c)'
  BY <1>1, <1>2, <1>3, <1>4, <1>5 DEF Unseen, OnceClient
<1>8. Starts(c)'
  <2>1. CASE ops[c] = <<>> /\ version[c] = NullV
    <3>1. data[c] = NoDoc
      BY <1>2, <2>1 DEF OnceClient, Starts
    <3>2. Kind[o] = "create"
      BY <1>1, <3>1, KindOf DEF CanApply
    <3> QED BY <1>4, <2>1, <3>2 DEF Starts
  <2>2. CASE ops[c] # <<>>
    BY <1>1, <1>2, <1>4, <2>2 DEF OnceClient, Starts
  <2>3. CASE version[c] # NullV
    BY <1>1, <2>3 DEF Starts
  <2> QED BY <2>1, <2>2, <2>3
<1>9. Persists(c)' /\ Connected(c)'
  <2>1. Persists(c)'
    BY <1>1, <1>2, <1>3, <1>4, <1>5, QueueIs DEF Persists, OnceClient
  <2>2. Connected(c)'
    BY <1>1, <1>2 DEF Connected, OnceClient
  <2> QED BY <2>1, <2>2
<1>10. OnceClient(c)'
  BY <1>4, <1>7, <1>8, <1>9 DEF OnceClient
<1>11. \A k \in Clients : k # c =>
          UNCHANGED <<ops[k], version[k], data[k], sent[k], up[k], persisting[k],
                      inbox[k], open[k]>>
  BY <1>1, <1>2
<1> HIDE DEF OnceInv
<1> QED BY <1>1, <1>6, <1>10, <1>11, ClientStepOnce

LEMMA HardRollbackOnce ==
    ASSUME OnceInv, Typed', NEW c \in Clients, NEW q,
           HardRollback(c, q), log' = log, unpublished' = unpublished, UNCHANGED netVars,
           \A k \in Clients : k # c => UNCHANGED <<inbox[k], open[k]>>,
           Connected(c)'
    PROVE  OnceInv'
<1>1. /\ data' = [data EXCEPT ![c] = NoDoc] /\ version' = [version EXCEPT ![c] = NullV]
      /\ ops' = [ops EXCEPT ![c] = <<>>] /\ sent' = [sent EXCEPT ![c] = FALSE]
      /\ Fetch(c, inflight[c], pending[c], Elements(q), TRUE, NullV)
      /\ persisting' = persisting /\ up' = up /\ drops' = drops /\ late' = late
  BY DEF HardRollback, netVars
<1>2. /\ ops \in [Clients -> Seq(Ops)] /\ data \in [Clients -> Docs]
      /\ version \in [Clients -> Versions] /\ sent \in [Clients -> BOOLEAN]
  BY DEF OnceInv, Typed, DocsOK, QueuesOK
<1>3. ops'[c] = <<>> /\ data'[c] = NoDoc /\ Queued(c)' = {}
  BY <1>1, <1>2, ElementsOfEmpty DEF Queued
<1>4. KeepsWaits(c)
  BY <1>3 DEF KeepsWaits
<1>5. OnceClient(c)'
  <2>1. Persists(c)'
    BY <1>3 DEF Persists
  <2>2. Unseen(c)' /\ Starts(c)' /\ Distinct(ops'[c])
    BY <1>3 DEF Unseen, Starts, Distinct
  <2> QED BY <2>1, <2>2 DEF OnceClient
<1>6. \A r \in DOMAIN reqs' : r \in DOMAIN reqs \/ OnceRequest(r)'
  BY <1>1, FetchOnce DEF OnceInv
<1>7. \A k \in Clients : k # c =>
         UNCHANGED <<ops[k], version[k], data[k], sent[k], up[k], persisting[k],
                     inbox[k], open[k]>>
  BY <1>1, <1>2
<1> QED BY <1>1, <1>4, <1>5, <1>6, <1>7, ClientStepOnce

LEMMA SubmitBrokenOnce ==
    ASSUME OnceInv, Typed', NEW c \in Clients, NEW o \in Ops, SubmitBroken(c, o)
    PROVE  OnceInv'
<1>1. /\ HardRollback(c, Append(ops[c], o))
      /\ log' = log /\ unpublished' = unpublished /\ inbox' = inbox /\ open' = open
      /\ UNCHANGED netVars
  BY DEF SubmitBroken, serverVars, agentVars
<1>2. Connected(c)'
  BY <1>1 DEF OnceInv, OnceClient, Connected, netVars
<1> QED BY <1>1, <1>2, HardRollbackOnce

LEMMA FlushTickOnce ==
    ASSUME OnceInv, Typed', NEW c \in Clients, FlushTick(c)
    PROVE  OnceInv'
<1>1. /\ Flush(c, ops[c], sent[c], up[c])
      /\ UNCHANGED <<log, unpublished, up, drops, reqs, inbox, data, version,
                     sub, pos, outcome, late>>
      /\ UNCHANGED agentVars
  BY DEF FlushTick, serverVars, netVars, history
<1>2. /\ ops[c] \in Seq(Ops) /\ sent[c] \in BOOLEAN /\ up[c] \in BOOLEAN /\ OnceClient(c) /\ Typed
  BY QueueIs DEF OnceInv
<1>3. /\ ops'[c] = ops[c] /\ (sent[c] => sent'[c])
      /\ \A o \in Elements(persisting'[c]) :
            o \in Elements(persisting[c]) \/ (sent'[c] /\ o = Head(ops[c]))
      /\ \A k \in Clients : k # c => UNCHANGED <<ops[k], sent[k], persisting[k]>>
  BY <1>1, <1>2, FlushOnce
<1>4. Queued(c)' = Queued(c) /\ \A o : Waits(c, o) => Waits(c, o)'
  BY <1>1, <1>3 DEF Queued, Waits
<1>5. KeepsWaits(c)
  BY <1>4 DEF KeepsWaits
<1>6. OnceClient(c)'
  <2>1. Persists(c)'
    BY <1>2, <1>3, <1>4 DEF Persists, OnceClient, Waits
  <2> QED BY <1>1, <1>2, <1>3, <1>4, <2>1 DEF OnceClient, Unseen, Starts, Connected, agentVars
<1> QED BY <1>1, <1>3, <1>5, <1>6, ClientStepOnce DEF agentVars

LEMMA PersistedOnce ==
    ASSUME OnceInv, Typed', NEW c \in Clients, Persisted(c)
    PROVE  OnceInv'
<1> PICK o : o = Head(persisting[c])
  OBVIOUS
<1> DEFINE q == [Request("op", c, version[c]) EXCEPT !.id = o, !.at = pos[o]]
<1>1. /\ persisting[c] # <<>>
      /\ persisting' = [persisting EXCEPT ![c] = Tail(@)]
      /\ reqs' = IF up[c] THEN BagAdd(reqs, q) ELSE reqs
      /\ UNCHANGED <<log, unpublished, up, drops, inbox, data, version, ops,
                     sent, tick, sub, pos, outcome>>
      /\ late' = IF ~up[c] \/ (sent[c] /\ o = Head(ops[c])) THEN late ELSE late \cup {o}
      /\ UNCHANGED agentVars
  BY DEF Persisted, serverVars, netVars
<1>2. /\ persisting \in [Clients -> Seq(Ops)] /\ OnceClient(c) /\ Typed
      /\ IsABag(reqs)
  BY DEF OnceInv, Typed, QueuesOK, RequestsOK
<1>3. /\ o \in Elements(persisting[c])
      /\ Elements(Tail(persisting[c])) \subseteq Elements(persisting[c])
  BY <1>1, <1>2, ElementsOfTail
<1>4. o \in Queued(c) => Waits(c, o)
  BY <1>2, <1>3 DEF OnceClient, Persists
<1>5. ASSUME NEW r, r = q, up[c] PROVE OnceRequest(r)'
  <2>1. /\ r.t = "op" /\ r.c = c /\ r.conn = drops[c] /\ r.v = version[c] /\ r.id = o
    BY <1>5 DEF Request
  <2>2. o \in Queued(c)' => Waits(c, o)'
    BY <1>1, <1>4 DEF Waits, Queued
  <2>7. CASE o \in late'
    <3>1. FromBefore(r)'
      BY <2>1, <2>2, <2>7 DEF FromBefore
    <3>2. Answerable(r)'
      BY <1>1, <1>2, <1>5, <2>1, QueueIs DEF Answerable
    <3> QED BY <2>1, <3>1, <3>2 DEF OnceRequest
  <2> SUFFICES ASSUME o \notin late' PROVE OnceRequest(r)'
    BY <2>7
  <2>8. o = Head(ops[c]) /\ o \in Queued(c)
    BY <1>1, <1>2, <1>5, QueueIs
  <2>3. \A i \in 1..Len(log) : log[i].id = o => version[c] < i
    BY <1>2, <2>8 DEF OnceClient, Unseen
  <2>4. version[c] = NullV => Kind[o] = "create"
    BY <1>2, <2>8, QueueIs DEF OnceClient, Starts
  <2>5. drops[c] \in Nat
    BY <1>2, QueueIs
  <2> HIDE DEF q
  <2>6. FromBefore(r)'
    BY <1>1, <2>1, <2>2, <2>3, <2>4 DEF FromBefore
  <2>9. Answerable(r)'
    BY <1>1, <1>5, <2>1, <2>5 DEF Answerable
  <2> QED BY <2>1, <2>6, <2>9 DEF OnceRequest
<1> HIDE DEF q
<1>6. \A r \in DOMAIN reqs' : r \in DOMAIN reqs \/ OnceRequest(r)'
  <2>1. DOMAIN BagAdd(reqs, q) = DOMAIN reqs \cup {q}
    BY <1>2, BagAdded
  <2> QED BY <1>1, <1>5, <2>1
<1>7. KeepsWaits(c)
  BY <1>1, OtherClientsKeepWaits
<1>8. OnceClient(c)'
  <2>1. Persists(c)'
    <3>1. persisting'[c] = Tail(persisting[c])
      BY <1>1, <1>2
    <3> QED BY <1>1, <1>2, <1>3, <3>1 DEF Persists, OnceClient, Queued, Waits
  <2> QED BY <1>1, <1>2, <2>1
      DEF OnceClient, Unseen, Starts, Connected, Queued, Waits, agentVars
<1>9. \A k \in Clients : k # c =>
         UNCHANGED <<ops[k], version[k], data[k], sent[k], up[k], persisting[k],
                     inbox[k], open[k]>>
  BY <1>1, <1>2 DEF agentVars
<1> QED BY <1>1, <1>6, <1>7, <1>8, <1>9, ClientStepOnce

LEMMA TellOnce ==
    ASSUME OnceInv, Typed', NEW c \in Clients, Tell(c)
    PROVE  OnceInv'
<1>1. /\ UNCHANGED <<log, unpublished, reqs, inbox, open, data, version, ops, sent, up, drops,
                     persisting, late>>
  BY DEF Tell, serverVars, agentVars, netVars, history
<1>2. KeepsWaits(c)
  BY <1>1, OtherClientsKeepWaits
<1>3. OnceClient(c)'
  BY <1>1, SameClient DEF OnceInv
<1> QED BY <1>1, <1>2, <1>3, ClientStepOnce

(* A message is taken: the connection is there.                            *)
LEMMA TakenOnce ==
    ASSUME OnceInv, NEW c \in Clients, Taken(c)
    PROVE  /\ up[c] /\ up' = up /\ drops' = drops
           /\ log' = log /\ unpublished' = unpublished /\ open' = open
           /\ OnceClient(c) /\ Connected(c)' /\ Typed
           /\ Head(inbox[c]) \in MessagesTo(c)
           /\ \A k \in Clients : k # c => UNCHANGED <<inbox[k], open[k]>>
<1>1. /\ inbox[c] # <<>> /\ inbox' = [inbox EXCEPT ![c] = Tail(@)]
      /\ up' = up /\ drops' = drops /\ log' = log /\ unpublished' = unpublished
      /\ open' = open
  BY DEF Taken, serverVars, netVars, agentVars
<1>2. inbox \in [Clients -> Seq(Messages)] /\ OnceClient(c) /\ Typed
  BY DEF OnceInv, Typed, AgentsOK
<1>3. up[c]
  BY <1>1, <1>2 DEF OnceClient, Connected
<1>4. Connected(c)'
  BY <1>1, <1>3 DEF Connected
<1>5. \A k \in Clients : k # c => UNCHANGED <<inbox[k], open[k]>>
  BY <1>1, <1>2
<1>6. Head(inbox[c]) \in MessagesTo(c)
  BY <1>2, TakenTyped
<1> QED BY <1>1, <1>2, <1>3, <1>4, <1>5, <1>6

LEMMA ReceiveAckOnce ==
    ASSUME OnceInv, Typed', NEW c \in Clients, Taken(c),
           ReceiveAck(c, Head(inbox[c]))
    PROVE  OnceInv'
<1> PICK m : m = Head(inbox[c])
  OBVIOUS
<1>1. /\ up[c] /\ up' = up /\ drops' = drops
      /\ log' = log /\ unpublished' = unpublished
      /\ OnceClient(c) /\ Connected(c)' /\ Typed /\ m \in MessagesTo(c)
      /\ \A k \in Clients : k # c => UNCHANGED <<inbox[k], open[k]>>
  BY TakenOnce
<1>2. /\ m.t \in {"op", "ack"} /\ sent[c]
      /\ version' = [version EXCEPT ![c] = m.v + 1]
      /\ Flush(c, Tail(ops[c]), FALSE, up[c])
      /\ UNCHANGED <<reqs, data, late>>
  BY DEF ReceiveAck, IsOwn, history
<1>3. ops[c] \in Seq(Ops) /\ ops[c] # <<>> /\ up[c] \in BOOLEAN /\ version \in [Clients -> Versions]
  BY <1>1, <1>2, QueueIs DEF Typed, DocsOK
<1>4. /\ Tail(ops[c]) \in Seq(Ops) /\ Elements(Tail(ops[c])) \subseteq Queued(c)
      /\ Distinct(Tail(ops[c])) /\ Head(ops[c]) \notin Elements(Tail(ops[c]))
  BY <1>1, <1>3, ElementsOfTail, DistinctTail DEF Queued, OnceClient
<1>5. /\ ops'[c] = Tail(ops[c])
      /\ \A o \in Elements(persisting'[c]) :
            o \in Elements(persisting[c]) \/ (sent'[c] /\ o = Head(Tail(ops[c])))
      /\ \A k \in Clients : k # c => UNCHANGED <<ops[k], sent[k], persisting[k]>>
  BY <1>1, <1>2, <1>3, <1>4, FlushOnce
<1>6. \A o : o \in Queued(c)' => o \in Queued(c) /\ ~Waits(c, o)
  BY <1>4, <1>5 DEF Queued, Waits
<1>7. KeepsWaits(c)
  BY <1>6 DEF KeepsWaits
<1>8. Unseen(c)'
  BY <1>1, <1>6 DEF Unseen, OnceClient
<1>9. Starts(c)'
  <2>1. version'[c] = m.v + 1 /\ m.v \in Nat
    BY <1>1, <1>2, <1>3, ContentTyped
  <2> QED BY <2>1 DEF Starts, NullV
<1>10. OnceClient(c)'
  <2>1. Persists(c)'
    <3>1. ASSUME NEW o \in Elements(persisting'[c]), o \in Queued(c)' PROVE Waits(c, o)'
      <4>1. o \in Queued(c) /\ ~Waits(c, o)
        BY <1>6, <3>1
      <4>2. o \notin Elements(persisting[c])
        BY <1>1, <4>1 DEF OnceClient, Persists
      <4> QED BY <1>5, <3>1, <4>2 DEF Waits
    <3> QED BY <3>1 DEF Persists
  <2> QED BY <1>1, <1>4, <1>5, <1>8, <1>9, <2>1 DEF OnceClient
<1>11. \A k \in Clients : k # c => UNCHANGED <<version[k], data[k], up[k]>>
  BY <1>1, <1>2, <1>3
<1> QED BY <1>1, <1>2, <1>5, <1>7, <1>10, <1>11, ClientStepOnce

(* The client's queue stays as it is, and its version does or goes on over *)
(* ops that are not queued.                                                *)
LEMMA QueueStaysOnce ==
    ASSUME OnceInv, Typed', NEW c \in Clients, Taken(c),
           UNCHANGED <<ops, sent, persisting, late>>,
           \A k \in Clients : k # c => UNCHANGED <<version[k], data[k]>>,
           \/ version'[c] = version[c] /\ data'[c] = data[c]
           \/ /\ version'[c] # NullV
              /\ \A i \in 1..Len(log) : log[i].id \in Queued(c) => version'[c] < i,
           \A q \in DOMAIN reqs' : q \in DOMAIN reqs \/ OnceRequest(q)'
    PROVE  OnceInv'
<1>1. /\ up[c] /\ up' = up /\ drops' = drops
      /\ log' = log /\ unpublished' = unpublished
      /\ OnceClient(c) /\ Connected(c)' /\ Typed
      /\ \A k \in Clients : k # c => UNCHANGED <<inbox[k], open[k]>>
  BY TakenOnce
<1>2. Queued(c)' = Queued(c) /\ \A o : Waits(c, o)' <=> Waits(c, o)
  BY <1>1 DEF Queued, Waits
<1>3. KeepsWaits(c)
  BY <1>2 DEF KeepsWaits
<1>4. Unseen(c)'
  BY <1>1, <1>2 DEF OnceClient, Unseen
<1>5. Starts(c)'
  BY <1>1 DEF OnceClient, Starts
<1>6. OnceClient(c)'
  BY <1>1, <1>2, <1>4, <1>5 DEF OnceClient, Persists
<1> QED BY <1>1, <1>3, <1>6, ClientStepOnce

LEMMA ReceiveGapOnce ==
    ASSUME OnceInv, Typed', NEW c \in Clients, Taken(c),
           ReceiveGap(c, Head(inbox[c]))
    PROVE  OnceInv'
<1>1. /\ Fetch(c, <<>>, pending[c], {}, FALSE, version[c]) \/ reqs' = reqs
      /\ UNCHANGED <<data, version, ops, sent, persisting, late>>
  BY DEF ReceiveGap
<1>2. up'[c] /\ drops'[c] = drops[c] /\ Typed
  BY TakenOnce
<1>3. \A q \in DOMAIN reqs' : q \in DOMAIN reqs \/ OnceRequest(q)'
  BY <1>1, <1>2, FetchOnce
<1> QED BY <1>1, <1>3, QueueStaysOnce

LEMMA ReceiveNothingOnce ==
    ASSUME OnceInv, Typed', NEW c \in Clients, Taken(c), UNCHANGED <<reqs, docVars>>
    PROVE  OnceInv'
<1>1. UNCHANGED <<reqs, data, version, ops, sent, persisting, late>>
  BY DEF docVars, stateVars, history
<1> QED BY <1>1, QueueStaysOnce

LEMMA ReceiveRemoteOnce ==
    ASSUME OnceInv, Typed', NEW c \in Clients, Taken(c),
           ReceiveRemote(c, Head(inbox[c]))
    PROVE  OnceInv'
<1> PICK m : m = Head(inbox[c])
  OBVIOUS
<1>1. OnceClient(c) /\ Typed /\ m \in MessagesTo(c) /\ up[c]
  BY TakenOnce
<1> DEFINE last == Past(c, Content(m))[Len(ops[c])]
<1>2. /\ m.t \in {"op", "ack"} /\ ~IsOwn(c, m) /\ m.v = version[c]
      /\ version' = [version EXCEPT ![c] = @ + 1]
      /\ data' = [data EXCEPT ![c] = Apply(@, m.id, last.at, last.kind)]
      /\ UNCHANGED <<reqs, ops, sent, persisting, late>>
  BY DEF ReceiveRemote, IsNext, history
<1> HIDE DEF last
<1>3. version \in [Clients -> Versions] /\ data \in [Clients -> Docs]
  BY <1>1 DEF Typed, DocsOK
<1>4. m.v \in Nat /\ log[m.v + 1].id = m.id
  BY <1>1, <1>2, ContentTyped
<1>5. version'[c] = m.v + 1 /\ version'[c] # NullV
  BY <1>2, <1>3, <1>4 DEF NullV
<1>6. m.id \notin Queued(c)
  <2>1. SUFFICES ASSUME m.id \in Queued(c) PROVE FALSE
    OBVIOUS
  <2>2. m.v + 1 \in 1..Len(log)
    BY <1>1, <1>2 DEF MessagesTo
  <2>3. Waits(c, m.id)
    BY <1>1, <1>4, <2>1, <2>2 DEF OnceClient, Unseen
  <2> QED BY <1>1, <1>2, <2>3 DEF Waits, IsOwn
<1>7. ASSUME NEW i \in 1..Len(log), log[i].id \in Queued(c) PROVE version'[c] < i
  <2>1. version[c] < i
    BY <1>1, <1>7 DEF OnceClient, Unseen
  <2>2. i # m.v + 1
    BY <1>4, <1>6, <1>7
  <2>3. i \in Int
    OBVIOUS
  <2> QED BY <1>2, <1>4, <1>5, <2>1, <2>2, <2>3
<1>8. \A k \in Clients : k # c => UNCHANGED <<version[k], data[k]>>
  BY <1>2, <1>3
<1> QED BY <1>2, <1>5, <1>7, <1>8, QueueStaysOnce

LEMMA IngestOnce ==
    ASSUME OnceInv, Typed', NEW c \in Clients, Taken(c),
           NEW v \in Versions, NEW f, NEW p, Ingest(c, v, f, p),
           UNCHANGED <<ops, sent, persisting, late>>
    PROVE  OnceInv'
<1> DEFINE busy == data[c] # NoDoc \/ ops[c] # <<>>
           take == v # NullV /\ ~busy /\ version[c] <= v
<1>1. /\ data' = [data EXCEPT ![c] = IF take THEN At(v) ELSE @]
      /\ version' = [version EXCEPT ![c] = IF take THEN v ELSE @]
      /\ \/ Fetch(c, f, <<>>, p, FALSE, version[c])
         \/ UNCHANGED reqs
  BY DEF Ingest
<1>2. version \in [Clients -> Versions] /\ data \in [Clients -> Docs]
  BY DEF OnceInv, Typed, DocsOK
<1>3. up'[c] /\ drops'[c] = drops[c] /\ Typed
  BY TakenOnce
<1>4. \A q \in DOMAIN reqs' : q \in DOMAIN reqs \/ OnceRequest(q)'
  BY <1>1, <1>3, FetchOnce
<1>5. \/ version'[c] = version[c] /\ data'[c] = data[c]
      \/ /\ version'[c] # NullV
         /\ \A i \in 1..Len(log) : log[i].id \in Queued(c) => version'[c] < i
  <2>1. CASE take
    <3>1. version'[c] = v /\ v # NullV
      BY <1>1, <1>2, <2>1
    <3>2. Queued(c) = {}
      BY <1>3, <2>1, QueueIs
    <3> QED BY <3>1, <3>2
  <2>2. CASE ~take
    BY <1>1, <1>2, <2>2
  <2> QED BY <2>1, <2>2
<1>6. \A k \in Clients : k # c => UNCHANGED <<version[k], data[k]>>
  BY <1>1, <1>2
<1> QED BY <1>4, <1>5, <1>6, QueueStaysOnce

LEMMA RollbackOnce ==
    ASSUME OnceInv, Typed', NEW c \in Clients, Taken(c), HardRollback(c, ops[c])
    PROVE  OnceInv'
<1>1. /\ UNCHANGED netVars
      /\ log' = log /\ unpublished' = unpublished /\ Connected(c)'
      /\ \A k \in Clients : k # c => UNCHANGED <<inbox[k], open[k]>>
  BY TakenOnce DEF netVars
<1> QED BY <1>1, HardRollbackOnce

LEMMA ReceiveOnce ==
    ASSUME OnceInv, Typed', NEW c \in Clients, Receive(c)
    PROVE  OnceInv'
<1> DEFINE m == Head(inbox[c])
<1>1. Taken(c) /\ Handlers(c, m)
  BY DEF Receive
<1>2. CASE ReceiveAck(c, m)
  BY <1>1, <1>2, ReceiveAckOnce
<1>3. CASE ReceiveGap(c, m)
  BY <1>1, <1>3, ReceiveGapOnce
<1>4. CASE ReceiveOld(c, m)
  BY <1>1, <1>4, ReceiveNothingOnce DEF ReceiveOld
<1>5. CASE ReceiveRemote(c, m)
  BY <1>1, <1>5, ReceiveRemoteOnce
<1>6. CASE ReceiveConflict(c, m)
  BY <1>1, <1>6, RollbackOnce DEF ReceiveConflict
<1>7. CASE ReceiveError(c, m)
  BY <1>1, <1>7, RollbackOnce, ReceiveNothingOnce DEF ReceiveError
<1>8. m.t \in {"fetched", "subscribed"} => m.v \in Versions
  <2>1. m \in MessagesTo(c) /\ Typed
    BY <1>1, TakenOnce
  <2> HIDE DEF m
  <2> QED BY <2>1, LogTyped DEF MessagesTo, Messages, Versions
<1>9. CASE ReceiveFetched(c, m)
  <2>1. m.v \in Versions /\ UNCHANGED <<ops, sent, persisting, late>>
    BY <1>8, <1>9 DEF ReceiveFetched
  <2>2. \E f, r : Ingest(c, m.v, f, r)
    BY <1>9 DEF ReceiveFetched
  <2> QED BY <1>1, <2>1, <2>2, IngestOnce
<1>10. CASE ReceiveSubscribed(c, m)
  <2>1. m.v \in Versions /\ UNCHANGED <<ops, sent, persisting, late>>
    BY <1>8, <1>10 DEF ReceiveSubscribed
  <2>2. \E f, r : Ingest(c, m.v, f, r)
    BY <1>10 DEF ReceiveSubscribed
  <2> QED BY <1>1, <2>1, <2>2, IngestOnce
<1> QED BY <1>1, <1>2, <1>3, <1>4, <1>5, <1>6, <1>7, <1>9, <1>10 DEF Handlers

LEMMA ConnectOnce ==
    ASSUME OnceInv, Typed', NEW c \in Clients, Connect(c)
    PROVE  OnceInv'
<1> PICK r : r = Request("subscribe", c, version[c])
  OBVIOUS
<1>1. /\ up' = [up EXCEPT ![c] = TRUE]
      /\ Flush(c, ops[c], sent[c], TRUE) /\ reqs' = BagAdd(reqs, r)
      /\ UNCHANGED <<log, unpublished, inbox, drops, data, version, late>>
      /\ UNCHANGED agentVars
  BY DEF Connect, serverVars
<1>2. /\ ops[c] \in Seq(Ops) /\ sent[c] \in BOOLEAN /\ OnceClient(c) /\ Typed
      /\ (ops[c] = <<>> <=> Queued(c) = {})
  BY QueueIs DEF OnceInv
<1>3. up \in [Clients -> BOOLEAN] /\ IsABag(reqs)
  BY <1>2 DEF Typed, DocsOK, RequestsOK
<1>4. /\ ops'[c] = ops[c] /\ (ops[c] # <<>> => sent'[c])
      /\ \A o \in Elements(persisting'[c]) :
            o \in Elements(persisting[c]) \/ (sent'[c] /\ o = Head(ops[c]))
      /\ \A k \in Clients : k # c => UNCHANGED <<ops[k], sent[k], persisting[k]>>
  BY <1>1, <1>2, FlushOnce
<1>5. up'[c] /\ \A k \in Clients : (up[k] => up'[k]) /\ (k # c => up'[k] = up[k])
  BY <1>1, <1>3
<1>6. Queued(c)' = Queued(c) /\ \A o : o \in Queued(c) /\ Waits(c, o) => Waits(c, o)'
  BY <1>2, <1>4 DEF Queued, Waits
<1>7. KeepsWaits(c)
  BY <1>6 DEF KeepsWaits
<1>8. OnceClient(c)'
  <2>1. Persists(c)'
    BY <1>2, <1>4, <1>6 DEF Persists, OnceClient, Waits
  <2> QED BY <1>1, <1>2, <1>4, <1>5, <1>6, <2>1 DEF OnceClient, Unseen, Starts, Connected
<1>9. \A q \in DOMAIN reqs' : q \in DOMAIN reqs \/ OnceRequest(q)'
  <2>1. DOMAIN BagAdd(reqs, r) = DOMAIN reqs \cup {r}
    BY <1>3, BagAdded
  <2>2. OnceRequest(r)'
    BY <1>1, <1>2, <1>5, AskedOnce
  <2> QED BY <1>1, <2>1, <2>2
<1> QED BY <1>1, <1>4, <1>5, <1>7, <1>8, <1>9, ClientStepOnce DEF agentVars

LEMMA DropOnce ==
    ASSUME OnceInv, Typed', NEW c \in Clients, Drop(c)
    PROVE  OnceInv'
<1> DEFINE D == {r \in DOMAIN reqs : r.c # c \/ r.t = "op"}
<1>1. /\ up' = [up EXCEPT ![c] = FALSE]
      /\ drops' = [drops EXCEPT ![c] = @ + 1]
      /\ sent' = [sent EXCEPT ![c] = FALSE]
      /\ inbox' = [inbox EXCEPT ![c] = <<>>]
      /\ open' = [open EXCEPT ![c] = "none"]
      /\ DOMAIN reqs' = D
      /\ UNCHANGED <<log, unpublished, data, version, ops, persisting, late>>
  BY DEF Drop, serverVars, history
<1>2. /\ up \in [Clients -> BOOLEAN] /\ drops \in [Clients -> Nat]
      /\ sent \in [Clients -> BOOLEAN] /\ inbox \in [Clients -> Seq(Messages)]
      /\ open \in [Clients -> {"none", "open", "attached"}]
  BY DEF OnceInv, Typed, DocsOK, AgentsOK
<1>3. /\ ~up'[c] /\ drops'[c] = drops[c] + 1 /\ inbox'[c] = <<>> /\ open'[c] = "none"
      /\ \A k \in Clients : k # c =>
           UNCHANGED <<up[k], drops[k], sent[k], inbox[k], open[k], ops[k], version[k],
                       data[k], persisting[k]>>
  BY <1>1, <1>2
<1>4. \A k \in Clients : Queued(k)' = Queued(k) /\ \A o : Waits(k, o) => Waits(k, o)'
  BY <1>1, <1>3 DEF Queued, Waits
<1>5. OnceClient(c)'
  <2>1. OnceClient(c)
    BY DEF OnceInv
  <2>2. Persists(c)'
    BY <1>1, <1>4, <2>1 DEF Persists, OnceClient
  <2>3. Unseen(c)'
    BY <1>1, <1>4, <2>1 DEF OnceClient, Unseen
  <2>4. Connected(c)'
    BY <1>3 DEF Connected
  <2> QED BY <1>1, <2>1, <2>2, <2>3, <2>4 DEF OnceClient, Starts
<1>6. \A k \in Clients : OnceClient(k)'
  BY <1>1, <1>3, <1>5, SameClient DEF OnceInv
<1>7. ASSUME NEW x, x.c \in Clients, x.conn \in Nat, Answerable(x) PROVE Answerable(x)'
  <2>1. CASE x.c = c
    BY <1>2, <1>3, <1>7, <2>1 DEF Answerable
  <2>2. CASE x.c # c
    BY <1>3, <1>7, <2>2 DEF Answerable
  <2> QED BY <2>1, <2>2
<1>8. ASSUME NEW q \in D PROVE OnceRequest(q)'
  <2>1. OnceRequest(q) /\ q.c \in Clients /\ q.conn \in Nat
    BY RequestIs DEF OnceInv
  <2>2. Answerable(q)'
    BY <1>7, <2>1 DEF OnceRequest
  <2>3. q.t = "op" => FromBefore(q)'
    BY <1>1, <1>4, <2>1 DEF OnceRequest, FromBefore
  <2>4. q.t # "op" => q.conn = drops'[q.c]
    BY <1>3, <2>1 DEF OnceRequest
  <2> QED BY <2>2, <2>3, <2>4 DEF OnceRequest
<1>9. \A u \in unpublished' : Answerable(u)'
  <2>1. \A u \in unpublished : u.c \in Clients /\ u.conn \in Nat /\ Answerable(u)
    BY DEF OnceInv, Typed, ServerOK, Commits
  <2> QED BY <1>1, <1>7, <2>1
<1>10. Stays' /\ ExactlyOnce'
  BY <1>1 DEF OnceInv, Stays, ExactlyOnce
<1> QED BY <1>1, <1>6, <1>8, <1>9, <1>10 DEF OnceInv

(* The server answers connections that are there.                          *)
LEMMA SentOnce ==
    ASSUME OnceInv, NEW x, x.c \in Clients, Answerable(x), NEW ms, Send(x.c, x.conn, ms),
           up' = up, open' = open
    PROVE  \A k \in Clients : Connected(k)'
<1>1. /\ inbox' = [inbox EXCEPT ![x.c] = IF x.conn = drops[x.c] THEN @ \o ms ELSE @]
      /\ inbox \in [Clients -> Seq(Messages)]
  BY DEF Send, OnceInv, Typed, AgentsOK
<1>2. ASSUME NEW k \in Clients PROVE Connected(k)'
  <2>1. Connected(k)
    BY DEF OnceInv, OnceClient
  <2>2. CASE k = x.c /\ x.conn = drops[x.c]
    BY <2>2 DEF Answerable, Connected
  <2>3. CASE ~(k = x.c /\ x.conn = drops[x.c])
    <3>1. inbox'[k] = inbox[k]
      BY <1>1, <2>3
    <3> QED BY <2>1, <3>1 DEF Connected
  <2> QED BY <2>2, <2>3
<1> QED BY <1>2

LEMMA RemovedOnce ==
    ASSUME OnceInv, NEW q, reqs' = BagRemove(reqs, q)
    PROVE  \A r \in DOMAIN reqs' : r \in DOMAIN reqs
<1>1. IsABag(reqs)
  BY DEF OnceInv, Typed, RequestsOK
<1> QED BY <1>1, BagRemoved

LEMMA ReplacedOnce ==
    ASSUME OnceInv, NEW q, NEW r, reqs' = BagAdd(BagRemove(reqs, q), r)
    PROVE  \A x \in DOMAIN reqs' : x \in DOMAIN reqs \/ x = r
<1>1. IsABag(reqs)
  BY DEF OnceInv, Typed, RequestsOK
<1>2. IsABag(BagRemove(reqs, q)) /\ DOMAIN BagRemove(reqs, q) \subseteq DOMAIN reqs
  BY <1>1, BagRemoved
<1> HIDE DEF BagRemove
<1>3. DOMAIN reqs' = DOMAIN BagRemove(reqs, q) \cup {r}
  BY <1>2, BagAdded
<1> QED BY <1>2, <1>3

LEMMA LoseOnce ==
    ASSUME OnceInv, Typed', NEW q \in DOMAIN reqs, Lose(q)
    PROVE  OnceInv'
<1>1. /\ reqs' = BagRemove(reqs, q) /\ log' = log /\ unpublished' = unpublished
      /\ UNCHANGED netVars /\ UNCHANGED stateVars /\ late' = late /\ UNCHANGED agentVars /\ inbox' = inbox
  BY DEF Lose, serverVars, docVars, history
<1>2. \A k \in Clients : Connected(k)'
  BY <1>1 DEF OnceInv, OnceClient, Connected, netVars, agentVars
<1> QED BY <1>1, <1>2, RemovedOnce, ServerStepOnce

LEMMA AnsweredOnce ==
    ASSUME OnceInv, Typed', NEW q \in DOMAIN reqs, NEW ms, Send(q.c, q.conn, ms),
           reqs' = BagRemove(reqs, q), UNCHANGED <<serverVars, agentVars, netVars, stateVars, late>>
    PROVE  OnceInv'
<1>1. /\ log' = log /\ unpublished' = unpublished /\ up' = up /\ open' = open
      /\ UNCHANGED netVars /\ UNCHANGED stateVars /\ late' = late
  BY DEF serverVars, netVars, agentVars
<1>2. q.c \in Clients /\ Answerable(q)
  BY RequestIs DEF OnceInv, OnceRequest
<1>3. \A k \in Clients : Connected(k)'
  BY <1>1, <1>2, SentOnce
<1> QED BY <1>1, <1>3, RemovedOnce, ServerStepOnce

LEMMA PublishOnce ==
    ASSUME OnceInv, Typed', NEW u \in unpublished, Publish(u)
    PROVE  OnceInv'
<1> DEFINE ms == OpMessages(u.from, u.v) \o <<[t |-> "ack", v |-> u.v, id |-> log[u.v + 1].id]>>
<1>1. /\ unpublished' = unpublished \ {u} /\ Send(u.c, u.conn, ms)
      /\ log' = log /\ reqs' = reqs /\ open' = open /\ up' = up
      /\ UNCHANGED netVars /\ UNCHANGED stateVars /\ late' = late
  BY DEF Publish, netVars, docVars, history
<1> HIDE DEF ms
<1>2. u.c \in Clients /\ Answerable(u)
  BY DEF OnceInv, Typed, ServerOK, Commits
<1>3. \A k \in Clients : Connected(k)'
  BY <1>1, <1>2, SentOnce
<1> QED BY <1>1, <1>3, ServerStepOnce

(* A request that is not an op stays on its connection.                    *)
LEMMA GoesOnOnce ==
    ASSUME OnceInv, NEW q \in DOMAIN reqs, q.t # "op", NEW r,
           r.c = q.c, r.conn = q.conn, r.t # "op", UNCHANGED netVars
    PROVE  OnceRequest(r)' /\ up[q.c] /\ q.c \in Clients
<1>1. OnceRequest(q) /\ q.c \in Clients
  BY RequestIs DEF OnceInv
<1> QED BY <1>1 DEF OnceRequest, Answerable, netVars

LEMMA OpenStreamOnce ==
    ASSUME OnceInv, Typed', NEW q \in DOMAIN reqs, OpenStream(q)
    PROVE  OnceInv'
<1> PICK r : r = [q EXCEPT !.t = "opened"]
  OBVIOUS
<1>1. /\ q.t = "subscribe" /\ open' = [open EXCEPT ![q.c] = "open"]
      /\ reqs' = BagAdd(BagRemove(reqs, q), r)
      /\ log' = log /\ unpublished' = unpublished /\ inbox' = inbox /\ up' = up
      /\ UNCHANGED netVars /\ UNCHANGED stateVars /\ late' = late
  BY DEF OpenStream, serverVars, netVars, docVars, history
<1>2. r.c = q.c /\ r.conn = q.conn /\ r.t = "opened"
  BY RequestIs DEF OnceInv, Requests
<1>3. OnceRequest(r)' /\ up[q.c]
  BY <1>1, <1>2, GoesOnOnce
<1>4. \A x \in DOMAIN reqs' : x \in DOMAIN reqs \/ OnceRequest(x)'
  BY <1>1, <1>3, ReplacedOnce
<1>5. ASSUME NEW k \in Clients PROVE Connected(k)'
  <2>1. Connected(k) /\ open \in [Clients -> {"none", "open", "attached"}]
    BY DEF OnceInv, OnceClient, Typed, AgentsOK
  <2> QED BY <1>1, <1>3, <2>1 DEF Connected
<1> QED BY <1>1, <1>4, <1>5, ServerStepOnce

LEMMA ReadOnce ==
    ASSUME OnceInv, Typed', NEW q \in DOMAIN reqs, Read(q)
    PROVE  OnceInv'
<1> PICK r : r = [q EXCEPT !.at = Len(log),
                           !.t = IF @ = "fetch" THEN "fetched" ELSE "subscribed"]
  OBVIOUS
<1> PICK t : t = IF q.t = "fetch" THEN "fetched" ELSE "subscribed"
  OBVIOUS
<1>1. /\ q.t \in {"fetch", "opened"}
      /\ reqs' = BagAdd(BagRemove(reqs, q), r)
      /\ log' = log /\ unpublished' = unpublished /\ inbox' = inbox
      /\ UNCHANGED agentVars /\ UNCHANGED netVars /\ UNCHANGED stateVars /\ late' = late
  BY DEF Read, serverVars, docVars, history
<1>2. q \in Requests
  BY RequestIs DEF OnceInv
<1>3. r = [q EXCEPT !.at = Len(log), !.t = t]
  BY <1>2 DEF Requests
<1>4. r.c = q.c /\ r.conn = q.conn /\ r.t = t
  BY <1>2, <1>3 DEF Requests
<1>5. OnceRequest(r)'
  BY <1>1, <1>4, GoesOnOnce
<1>6. \A x \in DOMAIN reqs' : x \in DOMAIN reqs \/ OnceRequest(x)'
  BY <1>1, <1>5, ReplacedOnce
<1>7. \A k \in Clients : Connected(k)'
  BY <1>1 DEF OnceInv, OnceClient, Connected, netVars, agentVars
<1> QED BY <1>1, <1>6, <1>7, ServerStepOnce

LEMMA AnswerOnce ==
    ASSUME OnceInv, Typed', NEW q \in DOMAIN reqs, Answer(q)
    PROVE  OnceInv'
<1> DEFINE ms == IF q.v = NullV
                 THEN <<[t |-> q.t, v |-> q.at, id |-> Nil]>>
                 ELSE OpMessages(q.v, q.at) \o <<[t |-> q.t, v |-> NullV, id |-> Nil]>>
<1>1. /\ q.t \in {"fetched", "subscribed"} /\ Send(q.c, q.conn, ms)
      /\ open' = [open EXCEPT ![q.c] = IF q.t = "subscribed" THEN "attached" ELSE @]
      /\ reqs' = BagRemove(reqs, q)
      /\ log' = log /\ unpublished' = unpublished /\ up' = up
      /\ UNCHANGED netVars /\ UNCHANGED stateVars /\ late' = late
  BY DEF Answer, serverVars, netVars, docVars, history
<1> HIDE DEF ms
<1>2. up[q.c] /\ q.c \in Clients
  BY <1>1, GoesOnOnce
<1>3. ASSUME NEW k \in Clients PROVE Connected(k)'
  <2>1. /\ Connected(k) /\ open \in [Clients -> {"none", "open", "attached"}]
        /\ inbox \in [Clients -> Seq(Messages)]
    BY DEF OnceInv, OnceClient, Typed, AgentsOK
  <2>2. CASE k = q.c
    BY <1>1, <1>2, <2>2 DEF Connected
  <2>3. CASE k # q.c
    BY <1>1, <2>1, <2>3 DEF Connected, Send
  <2> QED BY <2>2, <2>3
<1> QED BY <1>1, <1>3, RemovedOnce, ServerStepOnce

LEMMA ForwardOnce ==
    ASSUME OnceInv, Typed', NEW c \in Clients, Forward(c)
    PROVE  OnceInv'
<1> PICK m : m = OpMessage(Head(stream[c]))
  OBVIOUS
<1>1. /\ open[c] = "attached" /\ inbox' = [inbox EXCEPT ![c] = Append(@, m)]
      /\ log' = log /\ unpublished' = unpublished /\ reqs' = reqs /\ open' = open /\ up' = up
      /\ UNCHANGED netVars /\ UNCHANGED stateVars /\ late' = late
  BY DEF Forward, serverVars, netVars, docVars, history
<1>2. ASSUME NEW k \in Clients PROVE Connected(k)'
  <2>1. Connected(k) /\ inbox \in [Clients -> Seq(Messages)]
    BY DEF OnceInv, OnceClient, Typed, AgentsOK
  <2> QED BY <1>1, <2>1 DEF Connected
<1> QED BY <1>1, <1>2, ServerStepOnce

(* An op that leaves a document leaves a text.                             *)
LEMMA ApplyExists ==
    ASSUME NEW d \in Docs, NEW o \in Ops, NEW p \in Nat, NEW k \in {"create", "edit"},
           ~Throws(d, p, k)
    PROVE  Apply(d, o, p, k) \in Seq(Ops) /\ Apply(d, o, p, k) # NoDoc
<1>1. CASE k = "create"
  <2>1. Apply(d, o, p, k) = <<>>
    BY <1>1 DEF Apply
  <2> QED BY <2>1, EmptySeq, NoDocAssumption
<1>2. CASE k = "edit"
  <2>1. d # NoDoc /\ ~(p > Len(d))
    BY <1>2 DEF Throws
  <2>2. d \in Seq(Ops)
    BY <2>1 DEF Docs
  <2>3. p \in 0..Len(d)
    BY <2>1, <2>2, LenProperties
  <2>4. Insert(d, p, o) \in Seq(Ops)
    BY <2>2, <2>3, InsertIs DEF Inserted
  <2> QED BY <1>2, <2>4, NoDocAssumption DEF Apply
<1> QED BY <1>1, <1>2

(* A submission that is committed is not in the log.                       *)
LEMMA FreshOnce ==
    ASSUME RecreateSafe, OnceInv, NEW q \in DOMAIN reqs, q.t = "op", Fits(q),
           q.id \notin late
    PROVE  \A i \in 1..Len(log) : log[i].id # q.id
<1> SUFFICES ASSUME NEW i \in 1..Len(log), log[i].id = q.id PROVE FALSE
  OBVIOUS
<1>1. /\ FromBefore(q) /\ q.id \in MadeBy(q.c) /\ q.c \in Clients /\ q.id \in Ops
      /\ Len(log) \in Nat /\ q.v \in Nat \cup {NullV} /\ Stays
  BY RequestIs DEF OnceInv, OnceRequest
<1>2. CASE q.v # NullV
  <2>1. q.v < i
    BY <1>1 DEF FromBefore
  <2>2. i \in First(q) + 1 .. Len(log)
    BY <1>1, <1>2, <2>1 DEF First
  <2>3. Stops(q, i)
    BY DEF Stops
  <2> QED BY <2>2, <2>3 DEF Fits
<1>3. CASE q.v = NullV
  <2>1. Kind[q.id] = "create" /\ Owner[q.id] # Nil
    BY <1>1, <1>3, NilAssumption DEF FromBefore, MadeBy
  <2>2. NoDel
    BY <1>1, <2>1 DEF RecreateSafe
  <2>3. Len(log) \in 1..Len(log) /\ ~(Len(log) <= 0)
    BY <1>1
  <2>4. log[Len(log)].after # NoDoc
    BY <1>1, <2>2, <2>3 DEF Stays
  <2>5. Blind(q)
    BY <1>3, <2>3, <2>4 DEF Blind, Exists, At
  <2> QED BY <2>5 DEF Fits
<1> QED BY <1>2, <1>3

LEMMA CommitOnce ==
    ASSUME RecreateSafe, OnceInv, Typed', NEW q \in DOMAIN reqs, Commit(q)
    PROVE  OnceInv'
<1> PICK n : n = Len(log)
  OBVIOUS
<1> PICK d : d = Apply(At(n), q.id, Place(q), Kind[q.id])
  OBVIOUS
<1> PICK e : e = [id |-> q.id, at |-> Place(q), after |-> d]
  OBVIOUS
<1> PICK u : u = [c |-> q.c, conn |-> q.conn, from |-> First(q), v |-> n]
  OBVIOUS
<1>1. /\ q.t = "op" /\ Fits(q)
      /\ log' = Append(log, e) /\ unpublished' = unpublished \cup {u}
      /\ reqs' = BagRemove(reqs, q)
      /\ UNCHANGED <<up, drops, data, version, ops, sent, persisting, open, inbox, late>>
  BY DEF Commit, netVars, docVars, stateVars, history, agentVars
<1>2. /\ n \in Nat /\ log \in Seq(Entries) /\ q \in Requests /\ OnceRequest(q)
      /\ q.c \in Clients /\ q.id \in MadeBy(q.c) /\ q.id \in Ops
      /\ e.id = q.id /\ e.after = d /\ u.c = q.c /\ u.conn = q.conn
  BY <1>1, RequestIs DEF OnceInv, Typed, ServerOK
<1>3. /\ Len(log') = n + 1 /\ log'[n + 1] = e
      /\ \A i \in 1..n : log'[i] = log[i]
      /\ \A i \in 1..Len(log') : i \in 1..n \/ i = n + 1
  BY <1>1, <1>2
<1>4. q.id \notin late => \A i \in 1..n : log[i].id # q.id
  BY <1>1, FreshOnce
<1>5. ExactlyOnce'
  <2>1. \A i, j \in 1..n : log[i].id = log[j].id => i = j \/ log[i].id \in late
    BY DEF OnceInv, ExactlyOnce
  <2>2. \A i \in 1..n : log'[i].id = log[i].id /\ (log'[i].id # q.id \/ q.id \in late)
    BY <1>3, <1>4
  <2>3. log'[n + 1].id = q.id
    BY <1>2, <1>3
  <2>4. ASSUME NEW i \in 1..Len(log'), NEW j \in 1..Len(log'), log'[i].id = log'[j].id
        PROVE  i = j \/ log'[i].id \in late
    <3>1. CASE i \in 1..n /\ j \in 1..n
      BY <2>1, <2>2, <2>4, <3>1
    <3>2. CASE i = n + 1 /\ j = n + 1
      BY <3>2
    <3>3. CASE (i \in 1..n /\ j = n + 1) \/ (i = n + 1 /\ j \in 1..n)
      BY <2>2, <2>3, <2>4, <3>3
    <3> QED BY <1>3, <3>1, <3>2, <3>3
  <2> QED BY <1>1, <2>4 DEF ExactlyOnce
<1>6. Stays'
  <2> SUFFICES ASSUME NoDel PROVE log'[n + 1].after # NoDoc
    BY <1>3 DEF OnceInv, Stays, NoDel
  <2>1. Kind[q.id] \in {"create", "edit"}
    BY <1>2, KindOf DEF NoDel
  <2>2. /\ First(q) <= n /\ ~Throws(At(n), Place(q), Kind[q.id])
    BY <1>1 DEF Fits
  <2>3. Place(q) \in Nat /\ At(n) \in Docs
    BY <1>2, <2>2, PlaceIs, LogTyped DEF OnceInv, Versions
  <2>4. d # NoDoc
    BY <1>2, <2>1, <2>2, <2>3, ApplyExists
  <2> QED BY <1>2, <1>3, <2>4
<1>7. ASSUME NEW k \in Clients PROVE OnceClient(k)'
  <2>1. OnceClient(k) /\ version[k] \in Versions /\ Queued(k) \subseteq MadeBy(k)
    BY QueueIs DEF OnceInv
  <2>2. \A o : o \in Queued(k) /\ Waits(k, o) => o \in Queued(k)' /\ Waits(k, o)'
    BY <1>1 DEF Queued, Waits
  <2>3. q.id \in Queued(k) => Waits(k, q.id) /\ version[k] < n + 1
    <3> SUFFICES ASSUME q.id \in Queued(k) PROVE Waits(k, q.id) /\ version[k] < n + 1
      OBVIOUS
    <3>1. k = q.c
      BY <1>2, <2>1 DEF MadeBy
    <3>2. Waits(k, q.id)
      BY <1>1, <1>2, <3>1 DEF OnceRequest, FromBefore
    <3> QED BY <1>2, <2>1, <3>2 DEF Versions, NullV
  <2>4. Unseen(k)'
    <3>1. Queued(k)' = Queued(k)
      BY <1>1 DEF Queued
    <3>2. ASSUME NEW i \in 1..Len(log'), log'[i].id \in Queued(k)
          PROVE  Waits(k, log'[i].id) /\ version[k] < i
      <4>1. CASE i \in 1..n
        BY <1>3, <2>1, <3>2, <4>1 DEF OnceClient, Unseen
      <4>2. CASE i = n + 1
        BY <1>2, <1>3, <2>3, <3>2, <4>2
      <4> QED BY <1>3, <4>1, <4>2
    <3> QED BY <1>1, <2>2, <3>1, <3>2 DEF Unseen
  <2> QED BY <1>1, <2>1, <2>4 DEF OnceClient, Persists, Queued, Waits, Starts, Connected
<1>8. ASSUME NEW r \in DOMAIN reqs' PROVE OnceRequest(r)'
  <2>1. r \in DOMAIN reqs /\ OnceRequest(r)
    BY <1>1, RemovedOnce DEF OnceInv
  <2>2. r.v \in Versions
    BY <2>1, RequestIs DEF OnceInv
  <2>3. r.t = "op" => FromBefore(r)'
    <3> SUFFICES ASSUME r.t = "op" PROVE FromBefore(r)'
      OBVIOUS
    <3>1. FromBefore(r)
      BY <2>1 DEF OnceRequest
    <3>2. ASSUME NEW i \in 1..Len(log'), log'[i].id = r.id, r.id \notin late PROVE r.v < i
      <4>1. CASE i \in 1..n
        BY <1>3, <3>1, <3>2, <4>1 DEF FromBefore
      <4>2. CASE i = n + 1
        BY <1>2, <2>2, <4>2 DEF Versions, NullV
      <4> QED BY <1>3, <4>1, <4>2
    <3>3. r.id \in Queued(r.c)' => Waits(r.c, r.id)'
      BY <1>1, <3>1 DEF FromBefore, Queued, Waits
    <3> QED BY <1>1, <3>1, <3>2, <3>3 DEF FromBefore
  <2> QED BY <1>1, <2>1, <2>3 DEF OnceRequest, Answerable
<1>9. \A x \in unpublished' : Answerable(x)'
  BY <1>1, <1>2 DEF OnceInv, OnceRequest, Answerable
<1> QED BY <1>5, <1>6, <1>7, <1>8, <1>9 DEF OnceInv

LEMMA NextOnce ==
    ASSUME RecreateSafe, OnceInv, [Next]_vars
    PROVE  OnceInv'
<1>0. Typed'
  BY NextTyped DEF OnceInv
<1>1. CASE UNCHANGED vars
  <2>1. /\ log' = log /\ unpublished' = unpublished /\ UNCHANGED netVars /\ UNCHANGED stateVars
        /\ late' = late /\ reqs' = reqs /\ open' = open /\ inbox' = inbox /\ up' = up
    BY <1>1 DEF vars, netVars, stateVars, fetchVars
  <2>2. \A k \in Clients : Connected(k)'
    BY <2>1 DEF OnceInv, OnceClient, Connected
  <2> QED BY <1>0, <2>1, <2>2, ServerStepOnce
<1>2. ASSUME NEW c \in Clients, NEW o \in Ops, SubmitBroken(c, o)
      PROVE  OnceInv'
  BY <1>0, <1>2, SubmitBrokenOnce
<1>3. ASSUME NEW c \in Clients, NEW o \in Ops, NEW p \in 0..Cardinality(Ops), Submit(c, o, p)
      PROVE  OnceInv'
  BY <1>0, <1>3, SubmitOnce
<1>4. ASSUME NEW c \in Clients, Work(c)
      PROVE  OnceInv'
  BY <1>0, <1>4, FlushTickOnce, PersistedOnce, TellOnce, ReceiveOnce, ConnectOnce, ForwardOnce DEF Work
<1>5. ASSUME NEW c \in Clients, Drop(c)
      PROVE  OnceInv'
  BY <1>0, <1>5, DropOnce
<1>6. ASSUME NEW q \in DOMAIN reqs, Handle(q)
      PROVE  OnceInv'
  <2>1. ASSUME NEW i \in 1..Len(log), AckAgain(q, i) PROVE OnceInv'
    BY <1>0, <2>1, AnsweredOnce DEF AckAgain, docVars, history
  <2>2. ASSUME Refuse(q) PROVE OnceInv'
    BY <1>0, <2>2, AnsweredOnce DEF Refuse
  <2> QED BY <1>0, <1>6, <2>1, <2>2, CommitOnce, OpenStreamOnce, ReadOnce, AnswerOnce
          DEF Handle
<1>7. ASSUME NEW q \in DOMAIN reqs, Lose(q)
      PROVE  OnceInv'
  BY <1>0, <1>7, LoseOnce
<1>8. ASSUME NEW u \in unpublished, Publish(u)
      PROVE  OnceInv'
  BY <1>0, <1>8, PublishOnce
<1> QED BY <1>1, <1>2, <1>3, <1>4, <1>5, <1>6, <1>7, <1>8 DEF Next

LEMMA InitOnce == Init => OnceInv
<1> SUFFICES ASSUME Init PROVE OnceInv
  OBVIOUS
<1>1. Typed
  BY InitTyped
<1>2. /\ log = PresetLog /\ Len(log) = Len(Preset) /\ unpublished = {} /\ DOMAIN reqs = {}
      /\ Len(Preset) \in Nat
  BY PresetLogIs, PresetOps DEF Init, EmptyBag, SetToBag
<1>3. ExactlyOnce
  BY <1>2, PresetLogIs, PresetAssumption DEF ExactlyOnce
<1>4. Stays
  BY <1>2, PresetLogIs, PresetOps DEF Stays, NoDel
<1>5. ASSUME NEW c \in Clients PROVE OnceClient(c)
  <2>1. /\ ops[c] = <<>> /\ persisting[c] = <<>> /\ inbox[c] = <<>> /\ open[c] = "none"
        /\ data[c] = NoDoc
    BY DEF Init
  <2>2. Queued(c) = {} /\ Elements(persisting[c]) = {}
    BY <2>1, ElementsOfEmpty DEF Queued
  <2> QED BY <2>1, <2>2 DEF OnceClient, Distinct, Persists, Unseen, Starts, Connected
<1> QED BY <1>1, <1>2, <1>3, <1>4, <1>5 DEF OnceInv

(* No op is committed twice, although clients resend, but one that a       *)
(* persist callback sends again after its answer, when no client's create  *)
(* can be followed by a delete (doc.js: _sendOp and flush on reconnecting; *)
(* submit-request.js: the ops since the request's version are searched     *)
(* for its src and seq).                                                   *)
THEOREM OpsCommitOnce ==
    ASSUME RecreateSafe
    PROVE  Spec => []ExactlyOnce
<1>1. Init => OnceInv
  BY InitOnce
<1>2. OnceInv /\ [Next]_vars => OnceInv'
  BY NextOnce
<1>3. OnceInv => ExactlyOnce
  BY DEF OnceInv
<1> QED BY <1>1, <1>2, <1>3, PTL DEF Spec

-----------------------------------------------------------------------------
(* Clients that edit a document which the preset ops made, or did not.     *)

(* Edits never conflict, so nothing is refused and nothing is rolled back: *)
(* what remains is that clients and server place each edit alike.          *)
Plain ==
    /\ Broken = {} /\ MayReject = {}
    /\ \A o \in Ops : Owner[o] # Nil => Kind[o] = "edit"

(* e is the text d with o inserted after its first p elements.             *)
Inserts(d, p, o, e) == d \in Seq(Ops) /\ p \in 0..Len(d) /\ e = Insert(d, p, o)

(* What clients can know begins with the version that they all find.       *)
Start == Len(Preset)

Late(v) == v = NullV \/ v >= Start

(* Every op since then is an edit and lies inside of the text it was       *)
(* applied to.                                                             *)
Edited ==
    /\ Len(log) >= Start
    /\ \A i \in Start + 1 .. Len(log) :
          Kind[log[i].id] = "edit" /\ Inserts(At(i - 1), log[i].at, log[i].id, At(i))

(* The place p in version v of the document is the place r in version w.   *)
Leads(p, v, w, r) ==
    \E g \in [v..w -> Nat] :
        /\ g[v] = p /\ g[w] = r
        /\ \A i \in v + 1 .. w : g[i] = Shift(g[i - 1], log[i].at, "left")

(* The documents that lie between the client's version and its data.       *)
Drawn(c, f) ==
    /\ f[0] = At(version[c])
    /\ \A k \in 1..Len(ops[c]) : Inserts(f[k - 1], pos[ops[c][k]], ops[c][k], f[k])
    /\ data[c] = f[Len(ops[c])]

Drawing(c) == \E f \in [0..Len(ops[c]) -> Docs] : Drawn(c, f)

(* What a client made waits in its queue or is in the document it has.     *)
Held(c) ==
    \A o \in MadeBy(c) :
        o \in Queued(c) \/ \E i \in 1..Len(log) : log[i].id = o /\ i <= version[c]

(* An op that is committed while its client waits for the answer has in    *)
(* the log the place to which the ops between will move it in the client.  *)
Placed(c) ==
    \A i \in 1..Len(log) :
        log[i].id \in Queued(c) => Leads(pos[log[i].id], version[c], i - 1, log[i].at)

DocPlain(c) == Late(version[c]) /\ Drawing(c) /\ Held(c) /\ Placed(c)

ChannelPlain(c) ==
    /\ \A m \in Elements(inbox[c]) : m.t # "err" /\ Late(m.v)
    /\ \A v \in Elements(stream[c]) : v >= Start

(* A request of an op that its client still waits for was sent at a        *)
(* version of the past; the client has moved its op past the ops since.    *)
Moving(q) ==
    q.id \in Queued(q.c) =>
        q.v <= version[q.c] /\ Leads(q.at, q.v, version[q.c], pos[q.id])

(* A request has a place inside of the text that it was made on.           *)
RequestPlain(q) ==
    /\ Late(q.v)
    /\ q.t \in {"fetched", "subscribed"} => q.at >= Start
    /\ q.t = "op" => At(q.v) \in Seq(Ops) /\ q.at <= Len(At(q.v)) /\ Moving(q)

PlainInv ==
    /\ OnceInv
    /\ Edited
    /\ \A c \in Clients : DocPlain(c) /\ ChannelPlain(c)
    /\ \A q \in DOMAIN reqs : RequestPlain(q)
    /\ \A u \in unpublished : u.from >= Start /\ u.v >= Start
    /\ late = {}

(* Insertions.                                                             *)
LEMMA InsertsIs ==
    ASSUME NEW d, NEW p, NEW o \in Ops, NEW e, Inserts(d, p, o, e)
    PROVE  /\ d \in Seq(Ops) /\ d \in Docs /\ d # NoDoc /\ Len(d) \in Nat /\ p \in Nat /\ p <= Len(d)
           /\ e \in Seq(Ops) /\ e \in Docs /\ e # NoDoc /\ Len(e) = Len(d) + 1
<1>1. d \in Seq(Ops) /\ p \in 0..Len(d) /\ e = Insert(d, p, o) /\ Len(d) \in Nat
  BY LenProperties DEF Inserts
<1>2. Inserted(Ops, d, p, o, e)
  BY <1>1, InsertIs
<1>3. e \in Seq(Ops) /\ Len(e) = Len(d) + 1
  BY <1>2 DEF Inserted
<1> QED BY <1>1, <1>3, NoDocAssumption DEF Docs

LEMMA MovesPast ==
    ASSUME NEW d, NEW p, NEW q, NEW y \in Ops, NEW x \in Ops, NEW e, NEW u,
           Inserts(d, p, y, e), Inserts(d, q, x, u)
    PROVE  /\ Inserts(e, Shift(q, p, "right"), x, Insert(e, Shift(q, p, "right"), x))
           /\ Inserts(u, Shift(p, q, "left"), y, Insert(e, Shift(q, p, "right"), x))
<1>1. /\ d \in Seq(Ops) /\ p \in 0..Len(d) /\ q \in 0..Len(d) /\ Len(d) \in Nat
      /\ e = Insert(d, p, y) /\ u = Insert(d, q, x)
      /\ e \in Seq(Ops) /\ Len(e) = Len(d) + 1
      /\ u \in Seq(Ops) /\ Len(u) = Len(d) + 1
  BY InsertsIs DEF Inserts
<1>2. Shift(q, p, "right") \in 0..Len(e) /\ Shift(p, q, "left") \in 0..Len(u)
  BY <1>1 DEF Shift
<1>3. Insert(u, Shift(p, q, "left"), y) = Insert(e, Shift(q, p, "right"), x)
  BY <1>1, TransformConverges
<1> QED BY <1>1, <1>2, <1>3 DEF Inserts

(* Paths.                                                                  *)
LEMMA LeadsNowhere ==
    ASSUME NEW p \in Nat, NEW v \in Nat
    PROVE  /\ Leads(p, v, v, p)
           /\ \A r : Leads(p, v, v, r) => r = p
<1>1. Leads(p, v, v, p)
  <2> DEFINE g == [i \in v..v |-> p]
  <2>1. g \in [v..v -> Nat] /\ g[v] = p /\ v + 1 .. v = {}
    OBVIOUS
  <2> QED BY <2>1 DEF Leads
<1> QED BY <1>1 DEF Leads

LEMMA LeadsOn ==
    ASSUME NEW p, NEW r, NEW v \in Nat, NEW w \in Nat, v <= w, Leads(p, v, w, r)
    PROVE  Leads(p, v, w + 1, Shift(r, log[w + 1].at, "left"))
<1>1. PICK g \in [v..w -> Nat] :
         /\ g[v] = p /\ g[w] = r
         /\ \A i \in v + 1 .. w : g[i] = Shift(g[i - 1], log[i].at, "left")
  BY DEF Leads
<1>2. r \in Nat
  BY <1>1
<1> DEFINE s == Shift(r, log[w + 1].at, "left")
           h == [i \in v .. w + 1 |-> IF i = w + 1 THEN s ELSE g[i]]
<1>3. s \in Nat
  BY <1>2 DEF Shift
<1> HIDE DEF s
<1>4. h \in [v .. w + 1 -> Nat]
  BY <1>1, <1>3
<1>5. h[v] = p /\ h[w + 1] = s
  BY <1>1
<1>6. \A i \in v + 1 .. w + 1 : h[i] = Shift(h[i - 1], log[i].at, "left")
  <2>1. ASSUME NEW i \in v + 1 .. w PROVE h[i] = Shift(h[i - 1], log[i].at, "left")
    <3>1. i \in v .. w + 1 /\ i # w + 1 /\ i - 1 \in v .. w + 1 /\ i - 1 # w + 1
      OBVIOUS
    <3>2. h[i] = g[i] /\ h[i - 1] = g[i - 1]
      BY <3>1
    <3> QED BY <1>1, <3>2
  <2>2. h[w + 1] = Shift(h[w], log[w + 1].at, "left")
    <3>1. w \in v .. w + 1 /\ w # w + 1
      OBVIOUS
    <3>2. h[w] = r
      BY <1>1, <3>1
    <3> QED BY <1>5, <3>2 DEF s
  <2>3. \A i \in v + 1 .. w + 1 : i \in v + 1 .. w \/ (i = w + 1 /\ i - 1 = w)
    OBVIOUS
  <2> HIDE DEF h
  <2> QED BY <2>1, <2>2, <2>3
<1> HIDE DEF h
<1> QED BY <1>4, <1>5, <1>6 DEF Leads, s

(* Places in the log after a path's start are determined by it.            *)
LEMMA LeadsFurther ==
    ASSUME NEW p, NEW r, NEW t, NEW v \in Nat, NEW u \in Nat, NEW w \in Nat,
           v <= u, u <= w, Leads(p, v, u, r), Leads(p, v, w, t)
    PROVE  Leads(r, u, w, t)
<1>1. PICK g \in [v..u -> Nat] :
         /\ g[v] = p /\ g[u] = r
         /\ \A i \in v + 1 .. u : g[i] = Shift(g[i - 1], log[i].at, "left")
  BY DEF Leads
<1>2. PICK h \in [v..w -> Nat] :
         /\ h[v] = p /\ h[w] = t
         /\ \A i \in v + 1 .. w : h[i] = Shift(h[i - 1], log[i].at, "left")
  BY DEF Leads
<1>3. h[u] = r
  <2> DEFINE G == {i \in v..u : g[i] = h[i]}
  <2>1. v \in G
    BY <1>1, <1>2
  <2>2. \A i \in v..(u - 1) : i \in G => i + 1 \in G
    <3>1. ASSUME NEW i \in v..(u - 1), g[i] = h[i] PROVE g[i + 1] = h[i + 1] /\ i + 1 \in v..u
      <4>1. i + 1 \in v + 1 .. u /\ i + 1 \in v + 1 .. w /\ i + 1 - 1 = i /\ i + 1 \in v..u
        OBVIOUS
      <4>2. g[i + 1] = Shift(g[i], log[i + 1].at, "left")
        BY <1>1, <4>1
      <4>3. h[i + 1] = Shift(h[i], log[i + 1].at, "left")
        BY <1>2, <4>1
      <4> QED BY <3>1, <4>1, <4>2, <4>3
    <3> QED BY <3>1
  <2>3. \A i \in v..u : i \in G
    <3>1. v \in Int /\ u \in Int
      OBVIOUS
    <3> HIDE DEF G
    <3> QED BY <2>1, <2>2, <3>1, InductFrom
  <2>4. u \in v..u
    OBVIOUS
  <2> QED BY <1>1, <2>3, <2>4
<1> DEFINE k == [i \in u..w |-> h[i]]
<1>4. k \in [u..w -> Nat] /\ k[u] = r /\ k[w] = t
  BY <1>2, <1>3
<1>5. \A i \in u + 1 .. w : k[i] = Shift(k[i - 1], log[i].at, "left")
  BY <1>2
<1> HIDE DEF k
<1> QED BY <1>4, <1>5 DEF Leads

LEMMA LeadsTyped ==
    ASSUME NEW p, NEW r, NEW v \in Nat, NEW w \in Nat, v <= w, Leads(p, v, w, r)
    PROVE  p \in Nat /\ r \in Nat
BY DEF Leads

(* One step of a path, at its start.                                       *)
LEMMA LeadsFrom ==
    ASSUME NEW p, NEW r, NEW v \in Nat, NEW w \in Nat, v + 1 <= w, Leads(p, v, w, r)
    PROVE  Leads(Shift(p, log[v + 1].at, "left"), v + 1, w, r)
<1>1. p \in Nat /\ v + 1 \in Nat /\ v <= w /\ v <= v + 1
  BY LeadsTyped
<1>2. Leads(p, v, v, p)
  BY <1>1, LeadsNowhere
<1>3. Leads(p, v, v + 1, Shift(p, log[v + 1].at, "left"))
  BY <1>2, LeadsOn
<1> QED BY <1>1, <1>3, LeadsFurther

LEMMA LeadsSame ==
    ASSUME Len(log) \in Nat, \A i \in 1..Len(log) : log'[i] = log[i],
           NEW p, NEW r, NEW v \in Nat, NEW w \in Nat, w <= Len(log), Leads(p, v, w, r)
    PROVE  Leads(p, v, w, r)'
<1>1. \A i \in v + 1 .. w : log'[i] = log[i]
  OBVIOUS
<1> QED BY <1>1 DEF Leads

LEMMA LeadsSameLog ==
    ASSUME log' = log, NEW p, NEW r, NEW v, NEW w, Leads(p, v, w, r)
    PROVE  Leads(p, v, w, r)'
BY DEF Leads

(* The log after the preset ops.                                           *)
LEMMA EditedIs ==
    ASSUME Typed, Edited
    PROVE  /\ Start \in Nat /\ Len(log) \in Nat /\ Start <= Len(log)
           /\ \A i \in Start + 1 .. Len(log) :
                 /\ i \in 1..Len(log) /\ log[i].id \in Ops /\ Kind[log[i].id] = "edit"
                 /\ Inserts(At(i - 1), log[i].at, log[i].id, At(i))
                 /\ At(i) \in Seq(Ops) /\ Len(At(i)) = Len(At(i - 1)) + 1
<1>1. Start \in Nat /\ Len(log) \in Nat
  BY PresetOps, LogTyped DEF Start
<1>2. ASSUME NEW i \in Start + 1 .. Len(log)
      PROVE  /\ i \in 1..Len(log) /\ log[i].id \in Ops /\ Kind[log[i].id] = "edit"
             /\ Inserts(At(i - 1), log[i].at, log[i].id, At(i))
             /\ At(i) \in Seq(Ops) /\ Len(At(i)) = Len(At(i - 1)) + 1
  <2>1. i \in 1..Len(log)
    BY <1>1
  <2>2. log[i].id \in Ops
    BY <2>1, LogTyped
  <2>3. Kind[log[i].id] = "edit" /\ Inserts(At(i - 1), log[i].at, log[i].id, At(i))
    BY DEF Edited
  <2> QED BY <2>1, <2>2, <2>3, InsertsIs
<1> QED BY <1>1, <1>2 DEF Edited

LEMMA TextAt ==
    ASSUME Typed, NEW v \in Versions, At(v) \in Seq(Ops), Late(v)
    PROVE  v \in Nat /\ v >= 1 /\ v >= Start /\ v <= Len(log) /\ At(v) # NoDoc
<1>1. At(v) # NoDoc /\ v \in Int /\ Len(log) \in Nat
  BY NoDocAssumption, LogTyped
<1>2. ~(v <= 0)
  BY <1>1 DEF At
<1> QED BY <1>1, <1>2 DEF Late, NullV, Versions

LEMMA QueuePlain ==
    ASSUME Plain, PlainInv, NEW c \in Clients
    PROVE  /\ ops[c] \in Seq(Ops) /\ Len(ops[c]) \in Nat
           /\ \A k \in 1..Len(ops[c]) :
                 /\ ops[c][k] \in Ops /\ ops[c][k] \in Queued(c) /\ ops[c][k] \in MadeBy(c)
                 /\ Kind[ops[c][k]] = "edit" /\ pos[ops[c][k]] \in Nat
           /\ \A o \in MadeBy(c) : o \in Ops /\ Owner[o] = c /\ Kind[o] = "edit" /\ pos[o] \in Nat
           /\ version[c] \in Versions /\ version[c] \in Int /\ data[c] \in Docs
           /\ Typed /\ OnceClient(c) /\ DocPlain(c)
<1>1. /\ Typed /\ OnceClient(c) /\ DocPlain(c)
      /\ pos \in [Ops -> Nat \cup {NotMade}] /\ data \in [Clients -> Docs]
  BY DEF PlainInv, OnceInv, Typed, DocsOK
<1>2. /\ ops[c] \in Seq(Ops) /\ Queued(c) \subseteq MadeBy(c)
      /\ version[c] \in Versions /\ version[c] \in Int
  BY <1>1, QueueIs
<1>3. ASSUME NEW o \in MadeBy(c)
      PROVE  o \in Ops /\ Owner[o] = c /\ Kind[o] = "edit" /\ pos[o] \in Nat
  BY <1>1, NilAssumption DEF MadeBy, Plain
<1>4. Len(ops[c]) \in Nat /\ \A k \in 1..Len(ops[c]) : ops[c][k] \in Queued(c)
  BY <1>2, LenProperties DEF Queued, Elements
<1> QED BY <1>1, <1>2, <1>3, <1>4

(* The documents on the way from the version to the data are texts, if     *)
(* there are ops in between.                                               *)
LEMMA DrawnIs ==
    ASSUME Plain, PlainInv, NEW c \in Clients, NEW f, Drawn(c, f)
    PROVE  /\ \A k \in 1..Len(ops[c]) :
                 /\ f[k - 1] \in Seq(Ops) /\ f[k] \in Seq(Ops) /\ f[k] # NoDoc
                 /\ Len(f[k - 1]) \in Nat /\ Len(f[k]) = Len(f[k - 1]) + 1
                 /\ pos[ops[c][k]] <= Len(f[k - 1])
           /\ ops[c] # <<>> =>
                 /\ At(version[c]) \in Seq(Ops) /\ version[c] \in Nat /\ version[c] >= 1
                 /\ version[c] >= Start /\ version[c] <= Len(log)
                 /\ pos[Head(ops[c])] <= Len(At(version[c]))
           /\ Queued(c) # {} => ops[c] # <<>>
<1>1. /\ ops[c] \in Seq(Ops) /\ Len(ops[c]) \in Nat
      /\ \A k \in 1..Len(ops[c]) : ops[c][k] \in Ops /\ pos[ops[c][k]] \in Nat
      /\ version[c] \in Versions /\ Typed /\ DocPlain(c)
  BY QueuePlain
<1>2. ASSUME NEW k \in 1..Len(ops[c])
      PROVE  /\ f[k - 1] \in Seq(Ops) /\ f[k] \in Seq(Ops) /\ f[k] # NoDoc
             /\ Len(f[k - 1]) \in Nat /\ Len(f[k]) = Len(f[k - 1]) + 1
             /\ pos[ops[c][k]] <= Len(f[k - 1])
  <2>1. Inserts(f[k - 1], pos[ops[c][k]], ops[c][k], f[k])
    BY DEF Drawn
  <2> QED BY <1>1, <2>1, InsertsIs
<1>3. ASSUME ops[c] # <<>>
      PROVE  /\ At(version[c]) \in Seq(Ops) /\ version[c] \in Nat /\ version[c] >= 1
             /\ version[c] >= Start /\ version[c] <= Len(log)
             /\ pos[Head(ops[c])] <= Len(At(version[c]))
  <2>1. 1 \in 1..Len(ops[c]) /\ Head(ops[c]) = ops[c][1]
    BY <1>1, <1>3, EmptySeq, HeadTailProperties
  <2>2. f[0] \in Seq(Ops) /\ pos[ops[c][1]] <= Len(f[0])
    BY <1>2, <2>1
  <2>3. At(version[c]) = f[0]
    BY DEF Drawn
  <2> QED BY <1>1, <2>1, <2>2, <2>3, TextAt DEF DocPlain
<1>4. Queued(c) # {} => ops[c] # <<>>
  BY <1>1, QueueIs
<1> QED BY <1>2, <1>3, <1>4

(* What does not change.                                                   *)
LEMMA SameDoc ==
    ASSUME Plain, PlainInv, NEW k \in Clients, log' = log,
           UNCHANGED <<ops[k], version[k], data[k]>>,
           \A o \in Ops : Owner[o] = k => pos'[o] = pos[o]
    PROVE  DocPlain(k)'
<1>1. /\ \A i \in 1..Len(ops[k]) : ops[k][i] \in MadeBy(k)
      /\ \A o \in MadeBy(k) : o \in Ops /\ Owner[o] = k
      /\ DocPlain(k) /\ Typed
  BY QueuePlain
<1>2. MadeBy(k)' = MadeBy(k) /\ Queued(k)' = Queued(k)
  BY DEF MadeBy, Queued
<1>3. Late(version[k])'
  BY <1>1 DEF DocPlain, Late
<1>4. Drawing(k)'
  <2>1. PICK f \in [0..Len(ops[k]) -> Docs] : Drawn(k, f)
    BY <1>1 DEF DocPlain, Drawing
  <2>2. \A i \in 1..Len(ops[k]) : pos'[ops[k][i]] = pos[ops[k][i]]
    BY <1>1
  <2>3. At(version[k])' = At(version[k])
    BY DEF At
  <2>4. Drawn(k, f)'
    BY <2>1, <2>2, <2>3 DEF Drawn
  <2> QED BY <2>1, <2>4 DEF Drawing
<1>5. Held(k)'
  BY <1>1, <1>2 DEF DocPlain, Held
<1>6. Placed(k)'
  <2>1. ASSUME NEW i \in 1..Len(log), log[i].id \in Queued(k)
        PROVE  Leads(pos[log[i].id], version[k], i - 1, log[i].at)'
    <3>1. Leads(pos[log[i].id], version[k], i - 1, log[i].at)
      BY <1>1, <2>1 DEF DocPlain, Placed
    <3>2. pos'[log[i].id] = pos[log[i].id]
      BY <1>1, <2>1, QueueIs
    <3> QED BY <3>1, <3>2, LeadsSameLog
  <2> QED BY <1>2, <2>1 DEF Placed
<1> QED BY <1>3, <1>4, <1>5, <1>6 DEF DocPlain

LEMMA SameRequestPlain ==
    ASSUME Plain, PlainInv, NEW q \in DOMAIN reqs, log' = log,
           q.t = "op" => Moving(q)'
    PROVE  RequestPlain(q)'
<1>1. RequestPlain(q)
  BY DEF PlainInv
<1>2. At(q.v)' = At(q.v)
  BY DEF At
<1> QED BY <1>1, <1>2 DEF RequestPlain, Late

LEMMA SameMoving ==
    ASSUME Plain, PlainInv, NEW q \in DOMAIN reqs, q.t = "op", log' = log,
           UNCHANGED <<ops[q.c], version[q.c]>>,
           \A o \in Ops : Owner[o] = q.c => pos'[o] = pos[o]
    PROVE  Moving(q)'
<1>1. Moving(q) /\ q.id \in MadeBy(q.c) /\ q.id \in Ops
  BY RequestIs DEF PlainInv, OnceInv, RequestPlain
<1>2. pos'[q.id] = pos[q.id]
  BY <1>1 DEF MadeBy
<1>3. Queued(q.c)' = Queued(q.c)
  BY DEF Queued
<1> QED BY <1>1, <1>2, <1>3, LeadsSameLog DEF Moving

LEMMA SameChannel ==
    ASSUME PlainInv, NEW k \in Clients,
           Elements(inbox'[k]) \subseteq Elements(inbox[k]),
           Elements(stream'[k]) \subseteq Elements(stream[k])
    PROVE  ChannelPlain(k)'
BY DEF PlainInv, ChannelPlain, Late

(* A step of a client's document; a step that changes no document.         *)
LEMMA DocStep ==
    ASSUME Plain, PlainInv, OnceInv', late' = {}, NEW c \in Clients,
           log' = log, unpublished' = unpublished,
           \A k \in Clients : k # c => UNCHANGED <<ops[k], version[k], data[k]>>,
           \A o \in Ops : Owner[o] # c => pos'[o] = pos[o],
           DocPlain(c)', \A k \in Clients : ChannelPlain(k)',
           \A q \in DOMAIN reqs' : q \in DOMAIN reqs \/ RequestPlain(q)',
           \A q \in DOMAIN reqs : q.t = "op" /\ q.c = c => Moving(q)'
    PROVE  PlainInv'
<1>1. \A k \in Clients : DocPlain(k)'
  <2>1. ASSUME NEW k \in Clients, k # c PROVE DocPlain(k)'
    <3>1. \A o \in Ops : Owner[o] = k => pos'[o] = pos[o]
      BY <2>1
    <3> QED BY <2>1, <3>1, SameDoc
  <2> QED BY <2>1
<1>2. \A q \in DOMAIN reqs' : RequestPlain(q)'
  <2>1. ASSUME NEW q \in DOMAIN reqs PROVE RequestPlain(q)'
    <3>1. q.c \in Clients
      BY RequestIs DEF PlainInv, OnceInv
    <3>2. ASSUME q.t = "op", q.c # c PROVE Moving(q)'
      <4>1. \A o \in Ops : Owner[o] = q.c => pos'[o] = pos[o]
        BY <3>2
      <4> QED BY <3>1, <3>2, <4>1, SameMoving
    <3> QED BY <3>2, SameRequestPlain
  <2> QED BY <2>1
<1>3. Edited'
  <2>1. \A i : At(i)' = At(i)
    BY DEF At
  <2> QED BY <2>1 DEF PlainInv, Edited
<1> QED BY <1>1, <1>2, <1>3 DEF PlainInv

LEMMA QuietStep ==
    ASSUME Plain, PlainInv, OnceInv', late' = {}, log' = log, unpublished' \subseteq unpublished,
           UNCHANGED <<ops, version, data, pos>>,
           \A k \in Clients : ChannelPlain(k)',
           \A q \in DOMAIN reqs' : q \in DOMAIN reqs \/ RequestPlain(q)'
    PROVE  PlainInv'
<1>1. \A k \in Clients : DocPlain(k)'
  BY SameDoc
<1>2. \A q \in DOMAIN reqs' : RequestPlain(q)'
  <2>1. ASSUME NEW q \in DOMAIN reqs PROVE RequestPlain(q)'
    BY SameMoving, SameRequestPlain
  <2> QED BY <2>1
<1>3. Edited'
  <2>1. \A i : At(i)' = At(i)
    BY DEF At
  <2> QED BY <2>1 DEF PlainInv, Edited
<1> QED BY <1>1, <1>2, <1>3 DEF PlainInv

LEMMA SubmitPlain ==
    ASSUME Plain, PlainInv, OnceInv', late' = {}, NEW c \in Clients, NEW o \in Ops, NEW p \in Nat,
           Submit(c, o, p)
    PROVE  PlainInv'
<1> PICK n : n = Len(ops[c])
  OBVIOUS
<1> PICK e : e = Insert(data[c], p, o)
  OBVIOUS
<1>1. /\ Owner[o] = c /\ pos[o] = NotMade
      /\ CanApply(Kind[o], data[c] # NoDoc)
      /\ p \in IF Kind[o] = "edit" THEN 0..Len(data[c]) ELSE {0}
      /\ pos' = [pos EXCEPT ![o] = p]
      /\ data' = [data EXCEPT ![c] = Apply(@, o, p, Kind[o])]
      /\ ops' = [ops EXCEPT ![c] = Append(@, o)]
      /\ UNCHANGED <<log, unpublished, stream, reqs, inbox, version, outcome>>
  BY DEF Submit, serverVars, agentVars
<1>2. /\ ops[c] \in Seq(Ops) /\ n \in Nat /\ version[c] \in Versions /\ data[c] \in Docs
      /\ \A k \in 1..n : ops[c][k] \in MadeBy(c)
      /\ \A x \in MadeBy(c) : x \in Ops
      /\ Typed /\ DocPlain(c)
  BY QueuePlain
<1>3. /\ ops \in [Clients -> Seq(Ops)] /\ data \in [Clients -> Docs]
      /\ pos \in [Ops -> Nat \cup {NotMade}]
  BY <1>2 DEF Typed, DocsOK, QueuesOK
<1>4. Kind[o] = "edit" /\ data[c] # NoDoc
  BY <1>1, NilAssumption DEF Plain, CanApply
<1>5. Inserts(data[c], p, o, e)
  BY <1>1, <1>2, <1>4 DEF Inserts, Docs
<1>6. e \in Docs
  BY <1>5, InsertsIs
<1>7. data'[c] = e
  BY <1>1, <1>3, <1>4 DEF Apply
<1>8. o \notin MadeBy(c) /\ \A i \in 1..Len(log) : log[i].id # o
  BY <1>1, <1>2, UnmadeNotLogged
<1>9. /\ ops'[c] = Append(ops[c], o) /\ Len(ops'[c]) = n + 1 /\ ops'[c][n + 1] = o
      /\ \A k \in 1..n : ops'[c][k] = ops[c][k]
      /\ Queued(c)' = Queued(c) \cup {o}
  BY <1>1, <1>2, <1>3, AppendProperties, ElementsOfAppend DEF Queued
<1>10. pos'[o] = p /\ \A x \in Ops : x # o => pos'[x] = pos[x]
  BY <1>1, <1>3
<1>11. Drawing(c)'
  <2>1. PICK f \in [0..n -> Docs] : Drawn(c, f)
    BY <1>2 DEF DocPlain, Drawing
  <2> DEFINE g == [k \in 0 .. n + 1 |-> IF k = n + 1 THEN e ELSE f[k]]
  <2>2. /\ g \in [0 .. n + 1 -> Docs] /\ g[n + 1] = e
        /\ \A k \in 0..n : g[k] = f[k]
    BY <1>2, <1>6
  <2> HIDE DEF g
  <2>3. g[0] = At(version[c])'
    <3>1. f[0] = At(version[c]) /\ g[0] = f[0]
      BY <1>2, <2>1, <2>2 DEF Drawn
    <3> QED BY <1>1, <3>1 DEF At
  <2>4. ASSUME NEW k \in 1 .. n + 1
        PROVE  Inserts(g[k - 1], pos'[ops'[c][k]], ops'[c][k], g[k])
    <3>1. CASE k \in 1..n
      <4>1. Inserts(f[k - 1], pos[ops[c][k]], ops[c][k], f[k])
        BY <2>1, <3>1 DEF Drawn
      <4>2. ops'[c][k] = ops[c][k] /\ pos'[ops[c][k]] = pos[ops[c][k]]
        BY <1>2, <1>8, <1>9, <1>10, <3>1
      <4>3. g[k - 1] = f[k - 1] /\ g[k] = f[k]
        BY <1>2, <2>2, <3>1
      <4> QED BY <4>1, <4>2, <4>3
    <3>2. CASE k = n + 1
      <4>1. g[k - 1] = data[c]
        <5>1. k - 1 = n /\ n \in 0..n
          BY <1>2, <3>2
        <5> QED BY <2>1, <2>2, <5>1 DEF Drawn
      <4> QED BY <1>5, <1>9, <1>10, <2>2, <3>2, <4>1
    <3> QED BY <1>2, <3>1, <3>2
  <2>5. Drawn(c, g)'
    BY <1>7, <1>9, <2>2, <2>3, <2>4 DEF Drawn
  <2> QED BY <1>9, <2>2, <2>5 DEF Drawing
<1>12. Held(c)'
  <2>1. \A x \in MadeBy(c)' : x \in MadeBy(c) \/ x = o
    BY <1>10 DEF MadeBy
  <2> QED BY <1>1, <1>2, <1>9, <2>1 DEF DocPlain, Held
<1>13. Placed(c)'
  <2>1. ASSUME NEW i \in 1..Len(log), log[i].id \in Queued(c)'
        PROVE  Leads(pos[log[i].id], version[c], i - 1, log[i].at)'
    <3>1. log[i].id \in Queued(c)
      BY <1>8, <1>9, <2>1
    <3>2. Leads(pos[log[i].id], version[c], i - 1, log[i].at)
      BY <1>2, <3>1 DEF DocPlain, Placed
    <3>3. pos'[log[i].id] = pos[log[i].id]
      BY <1>2, <1>8, <1>10, LogTyped
    <3> QED BY <1>1, <3>2, <3>3, LeadsSameLog
  <2> QED BY <1>1, <2>1 DEF Placed
<1>14. DocPlain(c)'
  BY <1>1, <1>2, <1>11, <1>12, <1>13 DEF DocPlain, Late
<1>15. ASSUME NEW q \in DOMAIN reqs, q.t = "op", q.c = c PROVE Moving(q)'
  <2>1. Moving(q) /\ q.id \in MadeBy(c) /\ q.id \in Ops
    BY <1>2, <1>15, RequestIs DEF PlainInv, RequestPlain
  <2>2. q.id # o /\ pos'[q.id] = pos[q.id]
    BY <1>8, <1>10, <2>1
  <2> QED BY <1>1, <1>9, <1>15, <2>1, <2>2, LeadsSameLog DEF Moving
<1>16. \A k \in Clients : ChannelPlain(k)'
  BY <1>1, SameChannel
<1>18. \A x \in Ops : Owner[x] # c => pos'[x] = pos[x]
  BY <1>1, <1>10
<1>19. \A k \in Clients : k # c => UNCHANGED <<ops[k], version[k], data[k]>>
  BY <1>1, <1>3
<1> QED BY <1>1, <1>14, <1>15, <1>16, <1>18, <1>19, DocStep

LEMMA SubmitBrokenPlain ==
    ASSUME Plain, NEW c \in Clients, NEW o \in Ops
    PROVE  ~SubmitBroken(c, o)
BY DEF Plain, SubmitBroken

LEMMA FlushTickPlain ==
    ASSUME Plain, PlainInv, OnceInv', late' = {}, NEW c \in Clients, FlushTick(c)
    PROVE  PlainInv'
<1>1. /\ Flush(c, ops[c], sent[c], up[c])
      /\ UNCHANGED <<log, unpublished, stream, reqs, inbox, data, version, pos>>
  BY DEF FlushTick, serverVars, agentVars
<1>2. ops' = ops
  BY <1>1 DEF Flush, PlainInv, OnceInv, Typed, QueuesOK
<1>3. \A k \in Clients : ChannelPlain(k)'
  BY <1>1, SameChannel
<1> QED BY <1>1, <1>2, <1>3, QuietStep

LEMMA PersistedPlain ==
    ASSUME Plain, PlainInv, OnceInv', late' = {}, NEW c \in Clients, Persisted(c)
    PROVE  PlainInv'
<1> PICK o : o = Head(persisting[c])
  OBVIOUS
<1> PICK q : q = [Request("op", c, version[c]) EXCEPT !.id = o, !.at = pos[o]]
  OBVIOUS
<1>1. /\ persisting[c] # <<>>
      /\ reqs' = IF up[c] THEN BagAdd(reqs, q) ELSE reqs
      /\ UNCHANGED <<log, unpublished, stream, inbox, data, version, ops, pos>>
  BY DEF Persisted, serverVars, agentVars
<1>2. Typed /\ OnceClient(c) /\ DocPlain(c) /\ version[c] \in Versions
  BY QueuePlain
<1>3. IsABag(reqs) /\ persisting[c] \in Seq(Ops)
  BY <1>2 DEF Typed, RequestsOK, QueuesOK
<1>0. up[c] => sent[c] /\ o = Head(ops[c])
  BY DEF Persisted
<1>4. up[c] => o = Head(ops[c]) /\ ops[c] # <<>> /\ o \in Queued(c) /\ o \in MadeBy(c) /\ o \in Ops
  BY <1>0, <1>2, QueueIs DEF MadeBy, OnceClient
<1>5. /\ q.t = "op" /\ q.c = c /\ q.v = version[c] /\ q.id = o /\ q.at = pos[o]
  BY DEF Request
<1>10. CASE ~up[c]
  BY <1>1, <1>10, SameChannel, QuietStep
<1> SUFFICES ASSUME up[c] PROVE PlainInv'
  BY <1>10
<1>6. /\ At(version[c]) \in Seq(Ops) /\ version[c] \in Nat /\ version[c] >= 1
      /\ pos[o] <= Len(At(version[c])) /\ pos[o] \in Nat
  <2>1. PICK f \in [0..Len(ops[c]) -> Docs] : Drawn(c, f)
    BY <1>2 DEF DocPlain, Drawing
  <2> QED BY <1>4, <2>1, DrawnIs, QueuePlain
<1>7. RequestPlain(q)'
  <2>1. At(version[c])' = At(version[c])
    BY <1>1 DEF At
  <2>2. Leads(pos[o], version[c], version[c], pos[o])
    BY <1>6, LeadsNowhere
  <2>3. Leads(pos[o], version[c], version[c], pos[o])'
    BY <1>1, <2>2, LeadsSameLog
  <2>4. Moving(q)'
    BY <1>1, <1>5, <1>6, <2>3 DEF Moving
  <2>5. At(q.v)' = At(q.v) /\ At(q.v) = At(version[c])
    BY <1>1, <1>5 DEF At
  <2> QED BY <1>2, <1>5, <1>6, <2>4, <2>5 DEF RequestPlain, DocPlain, Late
<1>8. \A r \in DOMAIN reqs' : r \in DOMAIN reqs \/ RequestPlain(r)'
  <2>1. DOMAIN BagAdd(reqs, q) = DOMAIN reqs \cup {q}
    BY <1>3, BagAdded
  <2> QED BY <1>1, <1>7, <2>1
<1>9. \A k \in Clients : ChannelPlain(k)'
  BY <1>1, SameChannel
<1> QED BY <1>1, <1>8, <1>9, QuietStep

LEMMA TellPlain ==
    ASSUME Plain, PlainInv, OnceInv', late' = {}, NEW c \in Clients, Tell(c)
    PROVE  PlainInv'
<1>1. UNCHANGED <<log, unpublished, stream, reqs, inbox, data, version, ops, pos>>
  BY DEF Tell, serverVars, agentVars
<1>2. \A k \in Clients : ChannelPlain(k)'
  BY <1>1, SameChannel
<1> QED BY <1>1, <1>2, QuietStep

LEMMA TakenPlain ==
    ASSUME Plain, PlainInv, NEW c \in Clients, Taken(c)
    PROVE  /\ log' = log /\ unpublished' = unpublished /\ up[c]
           /\ Head(inbox[c]) \in MessagesTo(c)
           /\ Head(inbox[c]).t # "err" /\ Late(Head(inbox[c]).v)
           /\ \A k \in Clients : ChannelPlain(k)'
<1>1. /\ inbox[c] # <<>> /\ inbox' = [inbox EXCEPT ![c] = Tail(@)]
      /\ log' = log /\ unpublished' = unpublished /\ stream' = stream
  BY DEF Taken, serverVars, agentVars
<1>2. inbox \in [Clients -> Seq(Messages)] /\ ChannelPlain(c)
  BY DEF PlainInv, OnceInv, Typed, AgentsOK
<1>3. /\ Head(inbox[c]) \in Elements(inbox[c])
      /\ Elements(Tail(inbox[c])) \subseteq Elements(inbox[c])
  BY <1>1, <1>2, ElementsOfTail
<1>4. up[c] /\ Head(inbox[c]) \in MessagesTo(c)
  BY TakenOnce DEF Plain, PlainInv
<1>5. ASSUME NEW k \in Clients PROVE ChannelPlain(k)'
  <2>1. Elements(inbox'[k]) \subseteq Elements(inbox[k])
    BY <1>1, <1>2, <1>3
  <2> QED BY <1>1, <2>1, SameChannel
<1>6. Head(inbox[c]).t # "err" /\ Late(Head(inbox[c]).v)
  BY <1>2, <1>3 DEF ChannelPlain
<1> QED BY <1>1, <1>4, <1>5, <1>6

LEMMA FetchPlain ==
    ASSUME PlainInv, NEW c \in Clients, NEW i, NEW p, NEW callback, NEW force, NEW v,
           Fetch(c, i, p, callback, force, v), Late(v)
    PROVE  \A q \in DOMAIN reqs' : q \in DOMAIN reqs \/ RequestPlain(q)'
<1>1. reqs' = reqs \/ reqs' = BagAdd(reqs, Request("fetch", c, v))
  BY DEF Fetch
<1>2. DOMAIN BagAdd(reqs, Request("fetch", c, v)) = DOMAIN reqs \cup {Request("fetch", c, v)}
  BY BagAdded DEF PlainInv, OnceInv, Typed, RequestsOK
<1>3. ASSUME NEW r, r = Request("fetch", c, v) PROVE RequestPlain(r)'
  <2>1. r.t = "fetch" /\ r.v = v
    BY <1>3 DEF Request
  <2> QED BY <2>1 DEF RequestPlain, Late
<1> QED BY <1>1, <1>2, <1>3

LEMMA ReceiveAckPlain ==
    ASSUME Plain, PlainInv, OnceInv', late' = {}, NEW c \in Clients, Taken(c),
           ReceiveAck(c, Head(inbox[c]))
    PROVE  PlainInv'
<1> PICK m : m = Head(inbox[c])
  OBVIOUS
<1> PICK v : v = version[c]
  OBVIOUS
<1> PICK n : n = Len(ops[c])
  OBVIOUS
<1>1. /\ log' = log /\ unpublished' = unpublished /\ m \in MessagesTo(c)
      /\ \A k \in Clients : ChannelPlain(k)'
  BY TakenPlain
<1>2. /\ m.t \in {"op", "ack"} /\ sent[c] /\ m.id = Head(ops[c])
      /\ Kind[m.id] = "create" \/ m.v = v
      /\ version' = [version EXCEPT ![c] = m.v + 1]
      /\ Flush(c, Tail(ops[c]), FALSE, up[c])
      /\ UNCHANGED <<reqs, data, pos>>
  BY DEF ReceiveAck, IsOwn
<1>3. /\ ops[c] \in Seq(Ops) /\ n \in Nat /\ v \in Versions /\ v \in Int
      /\ \A x \in MadeBy(c) : x \in Ops /\ Kind[x] = "edit"
      /\ Typed /\ DocPlain(c) /\ OnceClient(c)
  BY QueuePlain
<1>4. /\ ops[c] # <<>> /\ m.id \in Queued(c) /\ m.id \in MadeBy(c) /\ m.id \in Ops
      /\ version \in [Clients -> Versions] /\ ops \in [Clients -> Seq(Ops)]
  <2>1. ops[c] # <<>> /\ m.id \in Queued(c) /\ m.id \in MadeBy(c)
    BY <1>2, <1>3, QueueIs
  <2> QED BY <1>3, <2>1 DEF Typed, DocsOK, QueuesOK
<1>5. m.v = v /\ v + 1 \in 1..Len(log) /\ log[v + 1].id = m.id /\ v \in Nat /\ Len(log) \in Nat
  <2>1. m.v = v
    BY <1>2, <1>3, <1>4
  <2>2. v + 1 \in 1..Len(log) /\ log[v + 1].id = m.id
    BY <1>1, <1>2, <2>1 DEF MessagesTo
  <2> QED BY <1>3, <2>1, <2>2, LogTyped
<1>6. /\ n \in Nat \ {0} /\ m.id = ops[c][1]
      /\ Tail(ops[c]) \in Seq(Ops) /\ Len(Tail(ops[c])) = n - 1
      /\ \A k \in 1..(n - 1) : Tail(ops[c])[k] = ops[c][k + 1]
      /\ Elements(Tail(ops[c])) \subseteq Queued(c) /\ m.id \notin Elements(Tail(ops[c]))
  <2>1. /\ n \in Nat \ {0} /\ m.id = ops[c][1]
        /\ Tail(ops[c]) \in Seq(Ops) /\ Len(Tail(ops[c])) = n - 1
        /\ \A k \in 1..(n - 1) : Tail(ops[c])[k] = ops[c][k + 1]
    BY <1>2, <1>3, <1>4, EmptySeq, HeadTailProperties
  <2> QED BY <1>2, <1>3, <1>4, <2>1, ElementsOfTail, DistinctTail DEF Queued, OnceClient
<1>7. /\ ops'[c] = Tail(ops[c]) /\ version'[c] = v + 1 /\ Queued(c)' = Elements(Tail(ops[c]))
      /\ \A k \in Clients : k # c => UNCHANGED <<ops[k], version[k], data[k]>>
  BY <1>2, <1>4, <1>5 DEF Flush, Queued
<1>8. PICK f \in [0..n -> Docs] : Drawn(c, f)
  BY <1>3 DEF DocPlain, Drawing
<1>9. /\ v >= Start /\ At(v) \in Seq(Ops)
      /\ Inserts(At(v), log[v + 1].at, m.id, At(v + 1)) /\ Start \in Nat
  <2>1. v >= Start /\ At(v) \in Seq(Ops) /\ Start \in Nat
    BY <1>3, <1>4, <1>8, DrawnIs, EditedIs DEF PlainInv
  <2>2. v + 1 \in Start + 1 .. Len(log) /\ v + 1 - 1 = v
    BY <1>5, <2>1
  <2> QED BY <1>3, <1>5, <2>1, <2>2, EditedIs DEF PlainInv
<1>10. log[v + 1].at = pos[m.id]
  <2>1. Leads(pos[m.id], v, v, log[v + 1].at)
    BY <1>3, <1>4, <1>5 DEF DocPlain, Placed
  <2>2. pos[m.id] \in Nat
    BY <1>4, QueuePlain
  <2> QED BY <1>5, <2>1, <2>2, LeadsNowhere
<1>11. f[1] = At(v + 1)
  <2>1. Inserts(f[1 - 1], pos[ops[c][1]], ops[c][1], f[1]) /\ f[0] = At(v)
    BY <1>6, <1>8 DEF Drawn
  <2> QED BY <1>6, <1>9, <1>10, <2>1 DEF Inserts
<1>12. Drawing(c)'
  <2> DEFINE g == [k \in 0..(n - 1) |-> f[k + 1]]
  <2>1. g \in [0..(n - 1) -> Docs] /\ \A k \in 0..(n - 1) : g[k] = f[k + 1]
    BY <1>6
  <2> HIDE DEF g
  <2>2. g[0] = At(version[c])'
    BY <1>1, <1>6, <1>7, <1>11, <2>1 DEF At
  <2>3. ASSUME NEW k \in 1..(n - 1)
        PROVE  Inserts(g[k - 1], pos'[ops'[c][k]], ops'[c][k], g[k])
    <3>1. k + 1 \in 1..n /\ k - 1 \in 0..(n - 1) /\ k \in 0..(n - 1) /\ k + 1 - 1 = k - 1 + 1
      BY <1>6
    <3>2. Inserts(f[k + 1 - 1], pos[ops[c][k + 1]], ops[c][k + 1], f[k + 1])
      BY <1>8, <3>1 DEF Drawn
    <3> QED BY <1>2, <1>6, <1>7, <2>1, <3>1, <3>2
  <2>4. data'[c] = g[n - 1]
    <3>1. n - 1 \in 0..(n - 1) /\ n - 1 + 1 = n
      BY <1>6
    <3> QED BY <1>2, <1>8, <2>1, <3>1 DEF Drawn
  <2>5. Drawn(c, g)'
    BY <1>6, <1>7, <2>2, <2>3, <2>4 DEF Drawn
  <2> QED BY <1>6, <1>7, <2>1, <2>5 DEF Drawing
<1>13. Held(c)'
  <2>1. MadeBy(c)' = MadeBy(c)
    BY <1>2 DEF MadeBy
  <2>2. \A x : x \in Queued(c) => x = m.id \/ x \in Elements(Tail(ops[c]))
    <3>1. ASSUME NEW k \in 1..n, k # 1 PROVE ops[c][k] \in Elements(Tail(ops[c]))
      <4>1. k - 1 \in 1..(n - 1) /\ k - 1 + 1 = k
        BY <1>6, <3>1
      <4> QED BY <1>6, <4>1 DEF Elements
    <3> QED BY <1>6, <3>1 DEF Queued, Elements
  <2>3. ASSUME NEW x \in MadeBy(c)
        PROVE  x \in Queued(c)' \/ \E i \in 1..Len(log) : log[i].id = x /\ i <= v + 1
    <3>1. CASE x = m.id
      BY <1>5, <3>1
    <3>2. CASE x # m.id
      <4>1. x \in Queued(c) \/ \E i \in 1..Len(log) : log[i].id = x /\ i <= v
        BY <1>3 DEF DocPlain, Held
      <4> QED BY <1>5, <1>7, <2>2, <3>2, <4>1
    <3> QED BY <3>1, <3>2
  <2> QED BY <1>1, <1>7, <2>1, <2>3 DEF Held
<1>14. Placed(c)'
  <2>1. \A i \in 1..Len(log) : log[i].id \in Queued(c) => log[i].id = m.id
    BY <1>2, <1>3 DEF OnceClient, Unseen, Waits
  <2> QED BY <1>1, <1>6, <1>7, <2>1 DEF Placed
<1>15. DocPlain(c)'
  <2>1. Late(version[c])'
    BY <1>5, <1>7, <1>9 DEF Late
  <2> QED BY <1>12, <1>13, <1>14, <2>1 DEF DocPlain
<1>16. ASSUME NEW q \in DOMAIN reqs, q.t = "op", q.c = c PROVE Moving(q)'
  <2>1. q.id \in Queued(c) => q.id = m.id
    BY <1>2, <1>16 DEF PlainInv, OnceInv, OnceRequest, FromBefore, Waits
  <2> QED BY <1>6, <1>7, <1>16, <2>1 DEF Moving
<1> QED BY <1>1, <1>2, <1>7, <1>15, <1>16, DocStep

LEMMA ReceiveGapPlain ==
    ASSUME Plain, PlainInv, OnceInv', late' = {}, NEW c \in Clients, Taken(c),
           ReceiveGap(c, Head(inbox[c]))
    PROVE  PlainInv'
<1>1. /\ Fetch(c, <<>>, pending[c], {}, FALSE, version[c]) \/ reqs' = reqs
      /\ UNCHANGED <<data, version, ops, pos>>
  BY DEF ReceiveGap
<1>2. \A q \in DOMAIN reqs' : q \in DOMAIN reqs \/ RequestPlain(q)'
  BY <1>1, FetchPlain DEF PlainInv, DocPlain
<1> QED BY <1>1, <1>2, TakenPlain, QuietStep

LEMMA ReceiveNothingPlain ==
    ASSUME Plain, PlainInv, OnceInv', late' = {}, NEW c \in Clients, Taken(c), UNCHANGED <<reqs, docVars>>
    PROVE  PlainInv'
<1>1. UNCHANGED <<reqs, data, version, ops, pos>>
  BY DEF docVars, stateVars
<1> QED BY <1>1, TakenPlain, QuietStep

LEMMA IngestPlain ==
    ASSUME Plain, PlainInv, OnceInv', late' = {}, NEW c \in Clients, Taken(c),
           NEW v \in Versions, Late(v), NEW i, NEW r, Ingest(c, v, i, r), UNCHANGED <<ops, pos>>
    PROVE  PlainInv'
<1> DEFINE busy == data[c] # NoDoc \/ ops[c] # <<>>
           take == v # NullV /\ ~busy /\ version[c] <= v
<1>1. /\ data' = [data EXCEPT ![c] = IF take THEN At(v) ELSE @]
      /\ version' = [version EXCEPT ![c] = IF take THEN v ELSE @]
      /\ \/ Fetch(c, i, <<>>, r, FALSE, version[c])
         \/ UNCHANGED reqs
  BY DEF Ingest
<1>2. /\ version \in [Clients -> Versions] /\ data \in [Clients -> Docs] /\ Typed
      /\ DocPlain(c) /\ ops[c] \in Seq(Ops) /\ version[c] \in Int
  BY QueuePlain DEF PlainInv, OnceInv, Typed, DocsOK
<1>3. \A q \in DOMAIN reqs' : q \in DOMAIN reqs \/ RequestPlain(q)'
  BY <1>1, <1>2, FetchPlain DEF DocPlain
<1>4. CASE ~take
  <2>1. data' = data /\ version' = version
    BY <1>1, <1>2, <1>4
  <2> QED BY <1>3, <2>1, TakenPlain, QuietStep
<1>5. CASE take
  <2>1. /\ log' = log /\ unpublished' = unpublished /\ \A k \in Clients : ChannelPlain(k)'
    BY TakenPlain
  <2>2. /\ data'[c] = At(v) /\ version'[c] = v /\ ops[c] = <<>> /\ Len(ops[c]) = 0
        /\ version[c] <= v /\ At(v) \in Docs /\ v \in Int
    BY <1>1, <1>2, <1>5, LogTyped
  <2>3. Queued(c) = {} /\ Queued(c)' = {}
    BY <2>2, ElementsOfEmpty DEF Queued
  <2>4. Drawing(c)'
    <3> PICK f : f = [k \in 0..0 |-> At(v)]
      OBVIOUS
    <3>1. f \in [0..0 -> Docs] /\ f[0] = At(v)
      BY <2>2
    <3>2. At(version[c])' = At(v)
      BY <2>1, <2>2 DEF At
    <3>3. Len(ops'[c]) = 0
      BY <2>2
    <3>4. Drawn(c, f)'
      BY <2>2, <3>1, <3>2, <3>3 DEF Drawn
    <3> QED BY <3>1, <3>3, <3>4 DEF Drawing
  <2>5. Held(c)'
    <3>1. MadeBy(c)' = MadeBy(c)
      BY DEF MadeBy
    <3>2. \A x \in MadeBy(c) : \E n \in 1..Len(log) : log[n].id = x /\ n <= version[c]
      BY <1>2, <2>3 DEF DocPlain, Held
    <3>3. \A n \in 1..Len(log) : n <= version[c] => n <= v
      BY <1>2, <2>2
    <3> QED BY <2>1, <2>2, <3>1, <3>2, <3>3 DEF Held
  <2>6. DocPlain(c)'
    BY <2>2, <2>3, <2>4, <2>5 DEF DocPlain, Placed, Late
  <2>7. \A q \in DOMAIN reqs : q.t = "op" /\ q.c = c => Moving(q)'
    BY <2>3 DEF Moving
  <2>9. \A k \in Clients : k # c => UNCHANGED <<ops[k], version[k], data[k]>>
    BY <1>1, <1>2
  <2> QED BY <1>3, <2>1, <2>6, <2>7, <2>9, DocStep
<1> QED BY <1>4, <1>5

(* The op m of another client that client c is to apply next: s are its    *)
(* forms on the way past the client's n ops.                               *)
NextFits(c, m, v, n, s) ==
    /\ m.id \notin Queued(c) /\ m.id \in Ops /\ m.v = v
    /\ v \in Nat /\ v >= Start /\ v + 1 \in 1..Len(log) /\ log[v + 1].id = m.id
    /\ Inserts(At(v), log[v + 1].at, m.id, At(v + 1))
    /\ s \in [0..n -> ServerOps] /\ s[0].at = log[v + 1].at
    /\ \A k \in 0..n : s[k].kind = "edit" /\ s[k].at \in Nat
    /\ \A k \in 1..n : s[k].at = Shift(s[k - 1].at, pos[ops[c][k]], "right")
    /\ \A f : Drawn(c, f) =>
          \A k \in 0..n : Inserts(f[k], s[k].at, m.id, Insert(f[k], s[k].at, m.id))

LEMMA NextIs ==
    ASSUME Plain, PlainInv, NEW c \in Clients, Taken(c),
           NEW m, m = Head(inbox[c]), IsNext(c, m),
           NEW v, v = version[c], NEW n, n = Len(ops[c]),
           NEW s, s = Past(c, Content(m))
    PROVE  NextFits(c, m, v, n, s)
<1>1. /\ m.t \in {"op", "ack"} /\ ~IsOwn(c, m) /\ m.v = v
      /\ m \in MessagesTo(c) /\ up[c] /\ Late(m.v)
  BY TakenPlain DEF IsNext
<1>2. /\ ops[c] \in Seq(Ops) /\ n \in Nat /\ v \in Versions /\ v \in Int
      /\ \A k \in 1..n : ops[c][k] \in Ops /\ Kind[ops[c][k]] = "edit" /\ pos[ops[c][k]] \in Nat
      /\ Typed /\ DocPlain(c) /\ OnceClient(c)
  BY QueuePlain
<1>3. /\ Content(m) \in ServerOps /\ m.id \in Ops /\ v \in Nat /\ v + 1 \in 1..Len(log)
      /\ log[v + 1].id = m.id /\ log[v + 1] \in Entries /\ Len(log) \in Nat
  <2>1. /\ Content(m) \in ServerOps /\ m.id \in Ops /\ m.v \in 0 .. Len(log) - 1
        /\ log[m.v + 1] \in Entries /\ log[m.v + 1].id = m.id
    BY <1>1, <1>2, ContentTyped
  <2>2. Len(log) \in Nat
    BY <1>2, LogTyped
  <2> QED BY <1>1, <2>1, <2>2
<1>4. m.id \notin Queued(c)
  <2>1. m.id \in Queued(c) => Waits(c, m.id)
    BY <1>2, <1>3 DEF OnceClient, Unseen
  <2> QED BY <1>1, <2>1 DEF Waits, IsOwn
<1>5. m.t = "op"
  <2> SUFFICES ASSUME m.t = "ack" PROVE FALSE
    BY <1>1
  <2>1. m.id \in MadeBy(c)
    BY <1>1 DEF MessagesTo
  <2>2. PICK i \in 1..Len(log) : log[i].id = m.id /\ i <= v
    BY <1>2, <1>4, <2>1 DEF DocPlain, Held
  <2>3. i = v + 1
    BY <1>3, <2>2 DEF PlainInv, OnceInv, ExactlyOnce
  <2> QED BY <1>3, <2>2, <2>3
<1>6. /\ v >= Start /\ Start \in Nat
      /\ Kind[m.id] = "edit" /\ Inserts(At(v), log[v + 1].at, m.id, At(v + 1))
  <2>1. Start \in Nat /\ v >= Start
    BY <1>1, <1>2, <1>3, EditedIs DEF Late, NullV, PlainInv
  <2>2. v + 1 \in Start + 1 .. Len(log) /\ v + 1 - 1 = v
    BY <1>3, <2>1
  <2> QED BY <1>2, <1>3, <2>1, <2>2, EditedIs DEF PlainInv
<1>7. Content(m) = [kind |-> "edit", at |-> log[v + 1].at]
  BY <1>1, <1>5, <1>6 DEF Content
<1>8. /\ s \in [0..n -> ServerOps] /\ s[0] = Content(m)
      /\ \A k \in 1..n : s[k] = NewServer(ops[c][k], s[k - 1])
  BY <1>2, <1>3, PastIs
<1>9. /\ s[0].at = log[v + 1].at /\ s[0].kind = "edit"
      /\ \A k \in 0..n : s[k] \in ServerOps
  <2>1. \A k \in 0..n : s[k] \in ServerOps
    BY <1>8
  <2>2. s[0].at = log[v + 1].at /\ s[0].kind = "edit"
    BY <1>7, <1>8
  <2> QED BY <2>1, <2>2
<1>10. ASSUME NEW k \in 1..n, s[k - 1].kind = "edit"
       PROVE  s[k].kind = "edit" /\ s[k].at = Shift(s[k - 1].at, pos[ops[c][k]], "right")
  <2> DEFINE t == s[k - 1]
             a == Shift(t.at, pos[ops[c][k]], "right")
  <2>1. t \in ServerOps
    BY <1>2, <1>9
  <2>2. Kind[ops[c][k]] = "edit"
    BY <1>2
  <2>3. s[k] = [t EXCEPT !.at = a]
    BY <1>8, <1>10, <2>2 DEF NewServer, Both
  <2> HIDE DEF t, a
  <2>4. s[k].kind = t.kind /\ s[k].at = a
    BY <2>1, <2>3 DEF ServerOps
  <2> QED BY <1>10, <2>4 DEF t, a
<1>11. \A k \in 0..n : s[k].kind = "edit"
  <2> DEFINE G == {k \in 0..n : s[k].kind = "edit"}
             z == 0
  <2>1. z \in G
    BY <1>2, <1>9
  <2>2. \A k \in z..(n - 1) : k \in G => k + 1 \in G
    <3>1. ASSUME NEW k \in 0..(n - 1), s[k].kind = "edit" PROVE s[k + 1].kind = "edit" /\ k + 1 \in 0..n
      <4>1. k + 1 \in 1..n /\ k + 1 - 1 = k /\ k + 1 \in 0..n
        BY <1>2
      <4> QED BY <1>10, <3>1, <4>1
    <3> QED BY <3>1
  <2>3. z \in Int /\ n \in Int
    BY <1>2
  <2> HIDE DEF G, z
  <2>4. \A k \in z..n : k \in G
    BY <2>1, <2>2, <2>3, InductFrom
  <2> QED BY <2>4 DEF G, z
<1>12. \A k \in 1..n : s[k].at = Shift(s[k - 1].at, pos[ops[c][k]], "right")
  <2>1. \A k \in 1..n : k - 1 \in 0..n
    BY <1>2
  <2> QED BY <1>10, <1>11, <2>1
<1>13. ASSUME NEW f, Drawn(c, f)
       PROVE  \A k \in 0..n : Inserts(f[k], s[k].at, m.id, Insert(f[k], s[k].at, m.id))
  <2> DEFINE Good(k) == Inserts(f[k], s[k].at, m.id, Insert(f[k], s[k].at, m.id))
             G == {k \in 0..n : Good(k)}
             z == 0
  <2>1. z \in G
    <3>1. f[0] = At(v)
      BY <1>13 DEF Drawn
    <3> QED BY <1>2, <1>6, <1>9, <3>1 DEF Inserts
  <2>2. \A k \in z..(n - 1) : k \in G => k + 1 \in G
    <3>1. ASSUME NEW k \in 0..(n - 1), Good(k) PROVE Good(k + 1) /\ k + 1 \in 0..n
      <4>1. k + 1 \in 1..n /\ k + 1 - 1 = k /\ k + 1 \in 0..n
        BY <1>2
      <4>2. Inserts(f[k], pos[ops[c][k + 1]], ops[c][k + 1], f[k + 1])
        BY <1>13, <4>1 DEF Drawn
      <4>3. s[k + 1].at = Shift(s[k].at, pos[ops[c][k + 1]], "right")
        BY <1>12, <4>1
      <4>4. ops[c][k + 1] \in Ops
        BY <1>2, <4>1
      <4> DEFINE r == Shift(s[k].at, pos[ops[c][k + 1]], "right")
      <4>5. Inserts(f[k + 1], r, m.id, Insert(f[k + 1], r, m.id))
        BY <1>3, <3>1, <4>2, <4>4, MovesPast
      <4> HIDE DEF r
      <4>6. s[k + 1].at = r
        BY <4>3 DEF r
      <4> QED BY <4>1, <4>5, <4>6
    <3> HIDE DEF Good
    <3> QED BY <3>1
  <2>3. z \in Int /\ n \in Int
    BY <1>2
  <2> HIDE DEF Good, G, z
  <2>4. \A k \in z..n : k \in G
    BY <2>1, <2>2, <2>3, InductFrom
  <2> QED BY <2>4 DEF G, z, Good
<1>14. \A k \in 0..n : s[k].at \in Nat
  BY <1>9 DEF ServerOps
<1> QED
  BY <1>1, <1>3, <1>4, <1>6, <1>8, <1>9, <1>11, <1>12, <1>13, <1>14 DEF NextFits

LEMMA ReceiveConflictPlain ==
    ASSUME Plain, PlainInv, NEW c \in Clients, Taken(c)
    PROVE  ~ReceiveConflict(c, Head(inbox[c]))
<1> PICK m : m = Head(inbox[c])
  OBVIOUS
<1> PICK n : n = Len(ops[c])
  OBVIOUS
<1> PICK s : s = Past(c, Content(m))
  OBVIOUS
<1> SUFFICES ASSUME IsNext(c, m), Conflicting(c, m) PROVE FALSE
  BY DEF ReceiveConflict
<1>1. PICK f \in [0..n -> Docs] : Drawn(c, f)
  BY QueuePlain DEF DocPlain, Drawing
<1>2. /\ n \in Nat /\ \A k \in 1..n : Kind[ops[c][k]] = "edit"
  BY QueuePlain
<1>3. /\ \A k \in 0..n : s[k].kind = "edit"
      /\ \A k \in 0..n : Inserts(f[k], s[k].at, m.id, Insert(f[k], s[k].at, m.id))
  <2>1. NextFits(c, m, version[c], n, s)
    BY NextIs
  <2> QED BY <1>1, <2>1 DEF NextFits
<1>4. Inserts(data[c], s[n].at, m.id, Insert(data[c], s[n].at, m.id))
  <2>1. n \in 0..n /\ data[c] = f[n]
    BY <1>1, <1>2 DEF Drawn
  <2> QED BY <1>3, <2>1
<1>5. ~Throws(data[c], s[n].at, s[n].kind)
  <2>1. data[c] \in Seq(Ops) /\ s[n].at \in 0..Len(data[c]) /\ Len(data[c]) \in Nat
    BY <1>4, LenProperties DEF Inserts
  <2>2. data[c] # NoDoc
    BY <2>1, NoDocAssumption
  <2> QED BY <2>1, <2>2 DEF Throws
<1>6. \A k \in 1..n : ~Fatal(ops[c][k], s[k - 1])
  <2>1. \A k \in 1..n : k - 1 \in 0..n
    BY <1>2
  <2> QED BY <1>2, <1>3, <2>1 DEF Fatal
<1> QED BY <1>5, <1>6 DEF Conflicting

LEMMA ReceiveRemotePlain ==
    ASSUME Plain, PlainInv, OnceInv', late' = {}, NEW c \in Clients, Taken(c),
           ReceiveRemote(c, Head(inbox[c]))
    PROVE  PlainInv'
<1> PICK m : m = Head(inbox[c])
  OBVIOUS
<1> PICK v : v = version[c]
  OBVIOUS
<1> PICK n : n = Len(ops[c])
  OBVIOUS
<1> PICK s : s = Past(c, Content(m))
  OBVIOUS
<1>1. /\ log' = log /\ unpublished' = unpublished /\ \A k \in Clients : ChannelPlain(k)'
  BY TakenPlain
<1>2. /\ IsNext(c, m)
      /\ version' = [version EXCEPT ![c] = @ + 1]
      /\ data' = [data EXCEPT ![c] = Apply(@, m.id, s[n].at, s[n].kind)]
      /\ pos' = [o \in Ops |->
                   IF \E i \in 1..n : ops[c][i] = o
                   THEN NewClient(o, s[(CHOOSE i \in 1..n : ops[c][i] = o) - 1])
                   ELSE pos[o]]
      /\ UNCHANGED <<reqs, ops>>
  BY DEF ReceiveRemote
<1>3. /\ ops[c] \in Seq(Ops) /\ n \in Nat /\ v \in Versions /\ v \in Int
      /\ \A k \in 1..n : /\ ops[c][k] \in Ops /\ Kind[ops[c][k]] = "edit"
                         /\ pos[ops[c][k]] \in Nat /\ ops[c][k] \in MadeBy(c)
      /\ \A x \in MadeBy(c) : x \in Ops /\ Owner[x] = c
      /\ Typed /\ DocPlain(c) /\ OnceClient(c) /\ ops[c] \in Seq(Ops)
  BY QueuePlain
<1>4. /\ m.id \notin Queued(c) /\ m.id \in Ops /\ m.v = v
      /\ v \in Nat /\ v >= Start /\ v + 1 \in 1..Len(log) /\ log[v + 1].id = m.id
      /\ Inserts(At(v), log[v + 1].at, m.id, At(v + 1))
      /\ s[0].at = log[v + 1].at
      /\ \A k \in 0..n : s[k].kind = "edit" /\ s[k].at \in Nat
      /\ \A k \in 1..n : s[k].at = Shift(s[k - 1].at, pos[ops[c][k]], "right")
      /\ \A f : Drawn(c, f) =>
            \A k \in 0..n : Inserts(f[k], s[k].at, m.id, Insert(f[k], s[k].at, m.id))
  <2>1. NextFits(c, m, v, n, s)
    BY <1>2, NextIs
  <2> QED BY <2>1 DEF NextFits
<1>5. /\ version \in [Clients -> Versions] /\ data \in [Clients -> Docs]
      /\ Start \in Nat /\ Len(log) \in Nat
  BY <1>3, EditedIs DEF Typed, DocsOK, PlainInv
<1>6. version'[c] = v + 1 /\ data'[c] = Insert(data[c], s[n].at, m.id)
  <2>1. s[n].kind = "edit"
    BY <1>3, <1>4
  <2> QED BY <1>2, <1>5, <2>1 DEF Apply
<1>7. ASSUME NEW k \in 1..n
      PROVE  pos'[ops[c][k]] = Shift(pos[ops[c][k]], s[k - 1].at, "left")
  <2> PICK o : o = ops[c][k]
    OBVIOUS
  <2>1. (CHOOSE i \in 1..n : ops[c][i] = o) = k
    BY <1>3 DEF OnceClient, Distinct
  <2>2. o \in Ops /\ pos'[o] = NewClient(o, s[k - 1])
    BY <1>2, <1>3, <2>1
  <2>3. Kind[o] = "edit" /\ s[k - 1].kind = "edit"
    BY <1>3, <1>4
  <2> QED BY <2>2, <2>3 DEF NewClient, Both
<1>8. /\ \A x \in Ops : Owner[x] # c => pos'[x] = pos[x]
      /\ \A x \in Ops : x \in MadeBy(c)' => x \in MadeBy(c)
  <2>1. ASSUME NEW x \in Ops, x \notin MadeBy(c) PROVE pos'[x] = pos[x]
    BY <1>2, <1>3, <2>1
  <2> QED BY <1>3, <2>1 DEF MadeBy
<1>9. Drawing(c)'
  <2>1. PICK f \in [0..n -> Docs] : Drawn(c, f)
    BY <1>3 DEF DocPlain, Drawing
  <2> PICK h : h = [k \in 0..n |-> Insert(f[k], s[k].at, m.id)]
    OBVIOUS
  <2>2. \A k \in 0..n : /\ h[k] = Insert(f[k], s[k].at, m.id)
                        /\ Inserts(f[k], s[k].at, m.id, h[k])
    BY <1>4, <2>1
  <2>3. h \in [0..n -> Docs]
    <3>1. \A k \in 0..n : h[k] \in Docs
      BY <1>4, <2>2, InsertsIs
    <3> QED BY <3>1
  <2>4. h[0] = At(version[c])'
    <3>1. h[0] = Insert(At(v), log[v + 1].at, m.id)
      BY <1>3, <1>4, <2>1, <2>2 DEF Drawn
    <3>2. h[0] = At(v + 1)
      BY <1>4, <3>1 DEF Inserts
    <3> QED BY <1>1, <1>6, <3>2 DEF At
  <2>5. ASSUME NEW k \in 1..n
        PROVE  Inserts(h[k - 1], pos'[ops[c][k]], ops[c][k], h[k])
    <3>1. k - 1 \in 0..n /\ k \in 0..n
      BY <1>3
    <3>2. /\ Inserts(f[k - 1], pos[ops[c][k]], ops[c][k], f[k])
          /\ Inserts(f[k - 1], s[k - 1].at, m.id, h[k - 1])
          /\ ops[c][k] \in Ops
      BY <1>3, <2>1, <2>2, <3>1 DEF Drawn
    <3>3. Inserts(h[k - 1], Shift(pos[ops[c][k]], s[k - 1].at, "left"), ops[c][k],
                  Insert(f[k], Shift(s[k - 1].at, pos[ops[c][k]], "right"), m.id))
      BY <1>4, <3>2, MovesPast
    <3>4. h[k] = Insert(f[k], Shift(s[k - 1].at, pos[ops[c][k]], "right"), m.id)
      BY <1>4, <2>2, <3>1
    <3> QED BY <1>7, <3>3, <3>4
  <2>6. data'[c] = h[n]
    <3>1. n \in 0..n /\ data[c] = f[n]
      BY <1>3, <2>1 DEF Drawn
    <3> QED BY <1>6, <2>2, <3>1
  <2>7. Drawn(c, h)'
    BY <1>2, <2>4, <2>5, <2>6 DEF Drawn
  <2> QED BY <1>2, <2>3, <2>7 DEF Drawing
<1>10. Queued(c)' = Queued(c)
  BY <1>2 DEF Queued
<1>11. Held(c)'
  <2>1. \A i \in 1..Len(log) : i <= v => i <= v + 1
    BY <1>3
  <2> QED BY <1>1, <1>3, <1>6, <1>8, <1>10, <2>1 DEF DocPlain, Held, MadeBy
<1>12. \A o : o \in Queued(c) /\ Waits(c, o) => pos'[o] = Shift(pos[o], log[v + 1].at, "left")
  <2>1. ASSUME NEW o, o \in Queued(c), Waits(c, o)
        PROVE  pos'[o] = Shift(pos[o], log[v + 1].at, "left")
    <3>1. ops[c] # <<>>
      BY <1>3, <2>1, QueueIs
    <3>2. 1 \in 1..n /\ o = ops[c][1] /\ 1 - 1 = 0
      BY <1>3, <2>1, <3>1, EmptySeq, HeadTailProperties DEF Waits
    <3> QED BY <1>4, <1>7, <3>2
  <2> QED BY <2>1
<1>13. Placed(c)'
  <2>1. ASSUME NEW i \in 1..Len(log), log[i].id \in Queued(c)
        PROVE  Leads(pos[log[i].id], version[c], i - 1, log[i].at)'
    <3> PICK o : o = log[i].id
      OBVIOUS
    <3>1. v < i /\ Waits(c, o)
      BY <1>3, <2>1 DEF OnceClient, Unseen
    <3>2. i # v + 1 /\ i \in Int
      BY <1>4, <2>1
    <3>3. i - 1 \in Nat /\ v + 1 <= i - 1
      BY <1>4, <3>1, <3>2
    <3>4. Leads(pos[o], v, i - 1, log[i].at)
      BY <1>3, <2>1 DEF DocPlain, Placed
    <3>5. Leads(Shift(pos[o], log[v + 1].at, "left"), v + 1, i - 1, log[i].at)
      BY <1>4, <3>3, <3>4, LeadsFrom
    <3>6. pos'[o] = Shift(pos[o], log[v + 1].at, "left")
      BY <1>12, <2>1, <3>1
    <3> QED BY <1>1, <1>6, <3>5, <3>6, LeadsSameLog
  <2> QED BY <1>1, <1>10, <2>1 DEF Placed
<1>14. DocPlain(c)'
  <2>1. Late(version[c])'
    BY <1>4, <1>5, <1>6 DEF Late
  <2> QED BY <1>9, <1>11, <1>13, <2>1 DEF DocPlain
<1>15. ASSUME NEW q \in DOMAIN reqs, q.t = "op", q.c = c PROVE Moving(q)'
  <2> SUFFICES ASSUME q.id \in Queued(c)
               PROVE  q.v <= v + 1 /\ Leads(q.at, q.v, version[c], pos[q.id])'
    BY <1>6, <1>10, <1>15 DEF Moving
  <2>1. Waits(c, q.id)
    BY <1>15 DEF PlainInv, OnceInv, OnceRequest, FromBefore
  <2>2. q.v <= v /\ Leads(q.at, q.v, v, pos[q.id])
    BY <1>15 DEF PlainInv, RequestPlain, Moving
  <2>3. q.v \in Nat
    BY <1>3, <1>15, TextAt, RequestIs DEF PlainInv, RequestPlain
  <2>4. Leads(q.at, q.v, v + 1, Shift(pos[q.id], log[v + 1].at, "left"))
    BY <1>4, <2>2, <2>3, LeadsOn
  <2>5. pos'[q.id] = Shift(pos[q.id], log[v + 1].at, "left")
    BY <1>12, <2>1
  <2> QED BY <1>1, <1>4, <1>6, <2>2, <2>3, <2>4, <2>5, LeadsSameLog
<1>17. \A k \in Clients : k # c => UNCHANGED <<ops[k], version[k], data[k]>>
  BY <1>2, <1>5
<1> QED BY <1>1, <1>2, <1>8, <1>14, <1>15, <1>17, DocStep

LEMMA ReceivePlain ==
    ASSUME Plain, PlainInv, OnceInv', late' = {}, NEW c \in Clients, Receive(c)
    PROVE  PlainInv'
<1> DEFINE m == Head(inbox[c])
<1>1. Taken(c) /\ Handlers(c, m)
  BY DEF Receive
<1>2. CASE ReceiveAck(c, m)
  BY <1>1, <1>2, ReceiveAckPlain
<1>3. CASE ReceiveGap(c, m)
  BY <1>1, <1>3, ReceiveGapPlain
<1>4. CASE ReceiveOld(c, m)
  BY <1>1, <1>4, ReceiveNothingPlain DEF ReceiveOld
<1>5. CASE ReceiveRemote(c, m)
  BY <1>1, <1>5, ReceiveRemotePlain
<1>6. CASE ReceiveConflict(c, m)
  BY <1>1, <1>6, ReceiveConflictPlain
<1>7. CASE ReceiveError(c, m)
  BY <1>1, <1>7, TakenPlain DEF ReceiveError
<1>8. /\ m.t \in {"fetched", "subscribed"} => m.v \in Versions
      /\ Late(m.v)
  <2>1. m \in MessagesTo(c) /\ Typed /\ Late(m.v)
    BY <1>1, TakenPlain DEF PlainInv, OnceInv
  <2> HIDE DEF m
  <2> QED BY <2>1, LogTyped DEF MessagesTo, Messages, Versions
<1>9. CASE ReceiveFetched(c, m)
  <2>1. m.v \in Versions /\ UNCHANGED <<ops, pos>>
    BY <1>8, <1>9 DEF ReceiveFetched
  <2>2. \E i, r : Ingest(c, m.v, i, r)
    BY <1>9 DEF ReceiveFetched
  <2> HIDE DEF m
  <2> QED BY <1>1, <1>8, <2>1, <2>2, IngestPlain
<1>10. CASE ReceiveSubscribed(c, m)
  <2>1. m.v \in Versions /\ UNCHANGED <<ops, pos>>
    BY <1>8, <1>10 DEF ReceiveSubscribed
  <2>2. \E i, r : Ingest(c, m.v, i, r)
    BY <1>10 DEF ReceiveSubscribed
  <2> HIDE DEF m
  <2> QED BY <1>1, <1>8, <2>1, <2>2, IngestPlain
<1> QED BY <1>1, <1>2, <1>3, <1>4, <1>5, <1>6, <1>7, <1>9, <1>10 DEF Handlers

LEMMA ConnectPlain ==
    ASSUME Plain, PlainInv, OnceInv', late' = {}, NEW c \in Clients, Connect(c)
    PROVE  PlainInv'
<1> PICK r : r = Request("subscribe", c, version[c])
  OBVIOUS
<1>1. /\ Flush(c, ops[c], sent[c], TRUE) /\ reqs' = BagAdd(reqs, r)
      /\ UNCHANGED <<log, unpublished, inbox, stream, data, version, pos>>
  BY DEF Connect, serverVars, agentVars
<1>2. ops' = ops
  BY <1>1 DEF Flush, PlainInv, OnceInv, Typed, QueuesOK
<1>3. \A q \in DOMAIN reqs' : q \in DOMAIN reqs \/ RequestPlain(q)'
  <2>1. DOMAIN BagAdd(reqs, r) = DOMAIN reqs \cup {r}
    BY BagAdded DEF PlainInv, OnceInv, Typed, RequestsOK
  <2>2. r.t = "subscribe" /\ r.v = version[c] /\ Late(version[c])
    BY DEF Request, PlainInv, DocPlain
  <2>3. RequestPlain(r)'
    BY <2>2 DEF RequestPlain, Late
  <2> QED BY <1>1, <2>1, <2>3
<1>4. \A k \in Clients : ChannelPlain(k)'
  BY <1>1, SameChannel
<1> QED BY <1>1, <1>2, <1>3, <1>4, QuietStep

LEMMA DropPlain ==
    ASSUME Plain, PlainInv, OnceInv', late' = {}, NEW c \in Clients, Drop(c)
    PROVE  PlainInv'
<1>1. /\ inbox' = [inbox EXCEPT ![c] = <<>>] /\ stream' = [stream EXCEPT ![c] = <<>>]
      /\ DOMAIN reqs' \subseteq DOMAIN reqs
      /\ UNCHANGED <<log, unpublished, data, version, ops, pos>>
  BY DEF Drop, serverVars
<1>2. inbox \in [Clients -> Seq(Messages)] /\ stream \in [Clients -> Seq(Published)]
  BY DEF PlainInv, OnceInv, Typed, AgentsOK
<1>3. ASSUME NEW k \in Clients PROVE ChannelPlain(k)'
  <2>1. /\ Elements(inbox'[k]) \subseteq Elements(inbox[k])
        /\ Elements(stream'[k]) \subseteq Elements(stream[k])
    BY <1>1, <1>2, ElementsOfEmpty
  <2> QED BY <2>1, SameChannel
<1> QED BY <1>1, <1>3, QuietStep

(* Messages.                                                               *)
PlainMessages == {m \in Messages : m.t # "err" /\ Late(m.v)}

LEMMA SendPlain ==
    ASSUME PlainInv, NEW c \in Clients, NEW n, NEW ms \in Seq(PlainMessages), Send(c, n, ms)
    PROVE  \A k \in Clients : \A m \in Elements(inbox'[k]) : m.t # "err" /\ Late(m.v)
<1>1. /\ inbox \in [Clients -> Seq(Messages)]
      /\ \A k \in Clients : \A m \in Elements(inbox[k]) : m.t # "err" /\ Late(m.v)
  BY DEF PlainInv, OnceInv, Typed, AgentsOK, ChannelPlain
<1>2. inbox' = [inbox EXCEPT ![c] = IF n = drops[c] THEN @ \o ms ELSE @]
  BY DEF Send
<1>3. ms \in Seq(Messages)
  <2>1. PlainMessages \subseteq Messages
    BY DEF PlainMessages
  <2> QED BY <2>1, SeqMonotonic
<1>4. \A m \in Elements(ms) : m.t # "err" /\ Late(m.v)
  <2>1. \A i \in 1..Len(ms) : ms[i] \in PlainMessages
    BY ElementOfSeq
  <2> QED BY <2>1 DEF Elements, PlainMessages
<1>5. Elements(inbox[c] \o ms) \subseteq Elements(inbox[c]) \cup Elements(ms)
  BY <1>1, <1>3, ElementsOfConcat
<1>6. \A k \in Clients :
         \/ inbox'[k] = inbox[k]
         \/ k = c /\ inbox'[k] = inbox[c] \o ms
  BY <1>1, <1>2
<1> QED BY <1>1, <1>4, <1>5, <1>6

LEMMA OpMessagesPlain ==
    ASSUME PlainInv, NEW v \in Nat, v >= Start, NEW w \in Versions
    PROVE  OpMessages(v, w) \in Seq(PlainMessages)
<1>1. w \in Int /\ w <= Len(log) /\ Len(log) \in Nat /\ Typed /\ Start \in Nat
  BY LogTyped, EditedIs DEF Versions, NullV, PlainInv, OnceInv
<1>2. ASSUME NEW i \in 1..(w - v) PROVE OpMessage(v + i - 1) \in PlainMessages
  <2> PICK x : x = v + i - 1
    OBVIOUS
  <2>1. x \in Nat /\ x >= Start /\ x + 1 \in 1..Len(log)
    BY <1>1
  <2>2. log[x + 1].id \in Ops
    BY <1>1, <2>1, LogTyped
  <2> QED BY <2>1, <2>2 DEF OpMessage, PlainMessages, Messages, Late
<1>3. OpMessages(v, w) \in [1..(w - v) -> PlainMessages]
  BY <1>2 DEF OpMessages
<1> DEFINE n == IF w >= v THEN w - v ELSE 0
<1>4. n \in Nat /\ 1..(w - v) = 1..n
  BY <1>1
<1> HIDE DEF n
<1> QED BY <1>3, <1>4, SeqDef

LEMMA LosePlain ==
    ASSUME Plain, PlainInv, OnceInv', late' = {}, NEW q \in DOMAIN reqs, Lose(q)
    PROVE  PlainInv'
<1>1. /\ reqs' = BagRemove(reqs, q)
      /\ UNCHANGED <<log, unpublished, inbox, stream, data, version, ops, pos>>
  BY DEF Lose, serverVars, agentVars, docVars, stateVars
<1>2. \A k \in Clients : ChannelPlain(k)'
  BY <1>1, SameChannel
<1> QED BY <1>1, <1>2, RemovedOnce, QuietStep DEF PlainInv

(* An op's place in the latest version, by the steps that the server takes *)
(* and that its client takes.                                              *)
PlaceFits(q) ==
    /\ First(q) = q.v /\ q.v \in Nat /\ q.v >= Start /\ q.v >= 1 /\ q.v <= Len(log)
    /\ ~Blind(q) /\ Kind[q.id] = "edit"
    /\ At(Len(log)) \in Seq(Ops) /\ At(Len(log)) # NoDoc
    /\ Place(q) \in 0..Len(At(Len(log)))
    /\ Leads(q.at, q.v, Len(log), Place(q))
    /\ CanApply(Kind[q.id], Exists) /\ ~Throws(At(Len(log)), Place(q), Kind[q.id])
    /\ \A i \in q.v + 1 .. Len(log) : Stops(q, i) <=> log[i].id = q.id

LEMMA PlaceIsPlain ==
    ASSUME Plain, PlainInv, NEW q \in DOMAIN reqs, q.t = "op"
    PROVE  PlaceFits(q)
<1> PICK n : n = Len(log)
  OBVIOUS
<1>1. /\ q \in Requests /\ q.c \in Clients /\ q.v \in Versions /\ q.at \in Nat /\ n \in Nat
      /\ q.id \in MadeBy(q.c) /\ Typed /\ RequestPlain(q)
  BY RequestIs DEF PlainInv, OnceInv
<1>2. /\ At(q.v) \in Seq(Ops) /\ q.at <= Len(At(q.v)) /\ Late(q.v)
  BY <1>1 DEF RequestPlain
<1>3. q.v \in Nat /\ q.v >= 1 /\ q.v >= Start /\ q.v <= n
  BY <1>1, <1>2, TextAt
<1>4. First(q) = q.v /\ ~Blind(q)
  BY <1>3 DEF First, Blind, NullV
<1>5. Kind[q.id] = "edit"
  BY <1>1, QueuePlain
<1>6. /\ Start \in Nat
      /\ \A i \in q.v + 1 .. n :
            /\ Kind[log[i].id] = "edit" /\ log[i].at \in Nat
            /\ At(i) \in Seq(Ops) /\ Len(At(i)) = Len(At(i - 1)) + 1
  <2>1. Start \in Nat
    BY <1>1, EditedIs DEF PlainInv
  <2>2. \A i \in q.v + 1 .. n : i \in Start + 1 .. Len(log) /\ i \in 1..Len(log)
    BY <1>1, <1>3, <2>1
  <2> QED BY <1>1, <2>1, <2>2, EditedIs, LogTyped DEF PlainInv
<1>7. PICK f \in [q.v..n -> Nat] : PlacesOf(q, f) /\ Place(q) = f[n]
  BY <1>1, <1>3, <1>4, PlaceIs
<1>8. /\ f[q.v] = q.at
      /\ \A i \in q.v + 1 .. n : f[i] = Shift(f[i - 1], log[i].at, "left")
  BY <1>4, <1>5, <1>6, <1>7 DEF PlacesOf
<1>9. Leads(q.at, q.v, n, Place(q))
  BY <1>7, <1>8 DEF Leads
<1>10. At(n) \in Seq(Ops) /\ f[n] \in 0..Len(At(n))
  <2> DEFINE a == q.v
             Good(i) == At(i) \in Seq(Ops) /\ f[i] \in 0..Len(At(i))
             G == {i \in a..n : Good(i)}
  <2>1. a \in G
    BY <1>1, <1>2, <1>3, <1>8, LenProperties
  <2>2. \A i \in a..(n - 1) : i \in G => i + 1 \in G
    <3>1. ASSUME NEW i \in a..(n - 1), Good(i) PROVE Good(i + 1) /\ i + 1 \in a..n
      <4>1. i + 1 \in q.v + 1 .. n /\ i + 1 - 1 = i /\ i + 1 \in a..n
        BY <1>1, <1>3
      <4>2. At(i + 1) \in Seq(Ops) /\ Len(At(i + 1)) = Len(At(i)) + 1 /\ Len(At(i)) \in Nat
        BY <1>6, <3>1, <4>1, LenProperties
      <4>3. f[i + 1] \in {f[i], f[i] + 1}
        BY <1>8, <4>1 DEF Shift
      <4> QED BY <3>1, <4>1, <4>2, <4>3
    <3> HIDE DEF Good
    <3> QED BY <3>1
  <2>3. a \in Int /\ n \in Int /\ n \in a..n
    BY <1>1, <1>3
  <2> HIDE DEF a, Good, G
  <2>4. \A i \in a..n : i \in G
    BY <2>1, <2>2, <2>3, InductFrom
  <2> QED BY <2>3, <2>4 DEF G, Good
<1>11. At(n) # NoDoc /\ Len(At(n)) \in Nat
  BY <1>10, NoDocAssumption, LenProperties
<1>12. CanApply(Kind[q.id], Exists) /\ ~Throws(At(n), Place(q), Kind[q.id])
  BY <1>5, <1>7, <1>10, <1>11 DEF CanApply, Exists, Throws
<1>13. \A i \in q.v + 1 .. n : Stops(q, i) <=> log[i].id = q.id
  BY <1>5, <1>6, <1>11 DEF Stops, TransformFails, Conflicts, DocWasDeleted, AlreadyCreated, Exists
<1> QED
  BY <1>3, <1>4, <1>5, <1>7, <1>9, <1>10, <1>11, <1>12, <1>13 DEF PlaceFits

(* No edit is refused: it fits, or is in the log since its version.        *)
LEMMA RefusePlain ==
    ASSUME Plain, PlainInv, NEW q \in DOMAIN reqs
    PROVE  ~Refuse(q)
<1> SUFFICES ASSUME q.t = "op", Refuse(q) PROVE FALSE
  BY DEF Refuse
<1>1. PlaceFits(q)
  BY PlaceIsPlain
<1>2. ~Fits(q) /\ ~\E i \in 1..Len(log) : FirstStop(q, i) /\ log[i].id = q.id
  BY <1>1 DEF Refuse, PlaceFits, Plain
<1>3. PICK i \in q.v + 1 .. Len(log) : log[i].id = q.id
  BY <1>1, <1>2 DEF Fits, PlaceFits
<1>4. i \in 1..Len(log) /\ \A j \in q.v + 1 .. i - 1 : j \in 1..Len(log) /\ j \in q.v + 1 .. Len(log) /\ j # i
  BY <1>1, LogTyped DEF PlaceFits, PlainInv, OnceInv
<1>5. FirstStop(q, i)
  <2>1. \A j \in q.v + 1 .. i - 1 : ~Stops(q, j)
    BY <1>1, <1>3, <1>4 DEF PlaceFits, PlainInv, OnceInv, ExactlyOnce
  <2> QED BY <1>1, <1>3, <2>1 DEF FirstStop, PlaceFits
<1> QED BY <1>2, <1>3, <1>4, <1>5

LEMMA CommitPlain ==
    ASSUME Plain, PlainInv, OnceInv', late' = {}, NEW q \in DOMAIN reqs, Commit(q)
    PROVE  PlainInv'
<1> PICK n : n = Len(log)
  OBVIOUS
<1> PICK p : p = Place(q)
  OBVIOUS
<1> PICK d : d = Insert(At(n), p, q.id)
  OBVIOUS
<1> PICK e : e = [id |-> q.id, at |-> p, after |-> d]
  OBVIOUS
<1> PICK u : u = [c |-> q.c, conn |-> q.conn, from |-> First(q), v |-> n]
  OBVIOUS
<1>1. q.t = "op"
  BY DEF Commit
<1>2. PlaceFits(q)
  BY <1>1, PlaceIsPlain
<1>3. /\ log' = Append(log, e) /\ unpublished' = unpublished \cup {u}
      /\ reqs' = BagRemove(reqs, q)
      /\ UNCHANGED <<data, version, ops, pos, inbox, stream>>
  BY <1>2 DEF Commit, docVars, stateVars, agentVars, Apply, PlaceFits
<1>4. /\ Typed /\ n \in Nat /\ log \in Seq(Entries) /\ q.c \in Clients
      /\ q.id \in MadeBy(q.c) /\ q.id \in Ops /\ e.id = q.id /\ e.at = p /\ e.after = d
      /\ u.from = q.v /\ u.v = n /\ Start \in Nat /\ Start <= n
  BY <1>1, <1>2, RequestIs, EditedIs DEF PlainInv, OnceInv, Typed, ServerOK, PlaceFits
<1>5. /\ Len(log') = n + 1 /\ log'[n + 1] = e
      /\ \A i \in 1..n : log'[i] = log[i]
      /\ \A i \in 1..Len(log') : i \in 1..n \/ i = n + 1
  BY <1>3, <1>4
<1>6. \A v \in Versions : At(v)' = At(v)
  <2>1. ASSUME NEW v \in Versions PROVE At(v)' = At(v)
    <3>1. v \in Int /\ (v <= 0 \/ v \in 1..n)
      BY <1>4 DEF Versions, NullV
    <3> QED BY <1>5, <3>1 DEF At
  <2> QED BY <2>1
<1>7. Inserts(At(n), p, q.id, d)
  BY <1>2 DEF Inserts, PlaceFits
<1>8. Edited'
  <2>1. ASSUME NEW i \in Start + 1 .. n
        PROVE  Kind[log'[i].id] = "edit" /\ Inserts(At(i - 1), log[i].at, log[i].id, At(i))'
    <3>1. /\ Kind[log[i].id] = "edit" /\ Inserts(At(i - 1), log[i].at, log[i].id, At(i))
      BY DEF PlainInv, Edited
    <3>2. log'[i] = log[i] /\ At(i)' = At(i) /\ At(i - 1)' = At(i - 1)
      <4>1. i \in 1..n /\ i \in Versions /\ i - 1 \in Versions
        BY <1>4 DEF Versions
      <4> QED BY <1>5, <1>6, <4>1
    <3> QED BY <3>1, <3>2 DEF Inserts
  <2>2. Inserts(At(n + 1 - 1), log[n + 1].at, log[n + 1].id, At(n + 1))' /\ Kind[log'[n + 1].id] = "edit"
    <3>1. At(n + 1)' = d /\ At(n)' = At(n) /\ n + 1 - 1 = n
      <4>1. n \in Versions
        BY <1>4 DEF Versions
      <4>2. At(n + 1)' = log'[n + 1].after
        BY <1>4 DEF At
      <4> QED BY <1>4, <1>5, <1>6, <4>1, <4>2
    <3> QED BY <1>2, <1>4, <1>5, <1>7, <3>1 DEF Inserts, PlaceFits
  <2>3. \A i \in Start + 1 .. Len(log') : i \in Start + 1 .. n \/ i = n + 1
    BY <1>4, <1>5
  <2>4. Len(log') >= Start
    BY <1>4, <1>5
  <2> QED BY <2>1, <2>2, <2>3, <2>4 DEF Edited
<1>9. ASSUME NEW k \in Clients PROVE DocPlain(k)'
  <2>1. DocPlain(k) /\ version[k] \in Versions /\ version[k] \in Int
    BY QueuePlain
  <2>2. PICK f \in [0..Len(ops[k]) -> Docs] : Drawn(k, f)
    BY <2>1 DEF DocPlain, Drawing
  <2>3. Drawing(k)'
    <3>1. At(version[k])' = At(version[k])
      <4>1. \A v \in Versions : v = version'[k] => At(version[k])' = At(v)
        BY <1>3, <1>6 DEF At
      <4> QED BY <1>3, <2>1, <4>1
    <3>2. Drawn(k, f)'
      BY <1>3, <2>2, <3>1 DEF Drawn
    <3> QED BY <1>3, <2>2, <3>2 DEF Drawing
  <2>4. Held(k)'
    <3>1. MadeBy(k)' = MadeBy(k) /\ Queued(k)' = Queued(k)
      BY <1>3 DEF MadeBy, Queued
    <3>2. \A i \in 1..n : i \in 1..Len(log') /\ log'[i] = log[i]
      BY <1>4, <1>5
    <3> QED BY <1>3, <2>1, <3>1, <3>2 DEF DocPlain, Held
  <2>5. Placed(k)'
    <3>1. ASSUME NEW i \in 1..Len(log'), log'[i].id \in Queued(k)
          PROVE  Leads(pos[log[i].id], version[k], i - 1, log[i].at)'
      <4>1. version[k] \in Nat /\ version[k] <= n
        BY <2>2, <3>1, DrawnIs
      <4>2. CASE i \in 1..n
        <5>1. Leads(pos[log[i].id], version[k], i - 1, log[i].at)
          BY <1>5, <2>1, <3>1, <4>2 DEF DocPlain, Placed
        <5>2. i - 1 \in Nat /\ i - 1 <= n
          BY <1>4, <4>2
        <5>3. log'[i] = log[i]
          BY <1>5, <4>2
        <5> QED BY <1>3, <1>4, <1>5, <4>1, <5>1, <5>2, <5>3, LeadsSame
      <4>3. CASE i = n + 1
        <5>1. k = q.c /\ q.id \in Queued(k)
          <6>1. q.id \in Queued(k)
            BY <1>4, <1>5, <3>1, <4>3
          <6> QED BY <1>4, <6>1, QueuePlain, QueueIs DEF MadeBy
        <5>2. q.v <= version[k] /\ Leads(q.at, q.v, version[k], pos[q.id])
          BY <1>1, <5>1 DEF PlainInv, RequestPlain, Moving
        <5>3. Leads(q.at, q.v, n, p) /\ q.v \in Nat
          BY <1>2 DEF PlaceFits
        <5>4. Leads(pos[q.id], version[k], n, p)
          BY <1>4, <4>1, <5>2, <5>3, LeadsFurther
        <5>5. log'[i].at = p /\ log'[i].id = q.id /\ i - 1 = n
          BY <1>4, <1>5, <4>3
        <5> QED BY <1>3, <1>4, <1>5, <4>1, <5>4, <5>5, LeadsSame
      <4> QED BY <1>5, <4>2, <4>3
    <3>2. Queued(k)' = Queued(k)
      BY <1>3 DEF Queued
    <3> QED BY <3>1, <3>2 DEF Placed
  <2> QED BY <1>3, <2>1, <2>3, <2>4, <2>5 DEF DocPlain, Late
<1>10. ASSUME NEW r \in DOMAIN reqs' PROVE RequestPlain(r)'
  <2>1. r \in DOMAIN reqs /\ RequestPlain(r) /\ r.v \in Versions /\ r.c \in Clients
    BY <1>3, RemovedOnce, RequestIs DEF PlainInv, OnceInv
  <2>2. At(r.v)' = At(r.v)
    BY <1>6, <2>1
  <2>3. r.t = "op" => Moving(r)'
    <3> SUFFICES ASSUME r.t = "op", r.id \in Queued(r.c)
                 PROVE  r.v <= version[r.c] /\ Leads(r.at, r.v, version[r.c], pos[r.id])'
      BY <1>3 DEF Moving, Queued
    <3>1. r.v <= version[r.c] /\ Leads(r.at, r.v, version[r.c], pos[r.id])
      BY <2>1 DEF RequestPlain, Moving
    <3>2. r.v \in Nat
      BY <1>4, <2>1, TextAt DEF RequestPlain
    <3>3. version[r.c] \in Nat /\ version[r.c] <= n
      BY <1>4, <2>1, <3>1, <3>2, QueuePlain DEF Versions, NullV
    <3> QED BY <1>3, <1>4, <1>5, <3>1, <3>2, <3>3, LeadsSame
  <2> QED BY <2>1, <2>2, <2>3 DEF RequestPlain, Late
<1>11. \A x \in unpublished' : x.from >= Start /\ x.v >= Start
  BY <1>2, <1>3, <1>4 DEF PlainInv, PlaceFits
<1>13. \A k \in Clients : ChannelPlain(k)'
  BY <1>3, SameChannel
<1> QED BY <1>8, <1>9, <1>10, <1>11, <1>13 DEF PlainInv

LEMMA AckAgainPlain ==
    ASSUME Plain, PlainInv, OnceInv', late' = {}, NEW q \in DOMAIN reqs, NEW i \in 1..Len(log),
           AckAgain(q, i)
    PROVE  PlainInv'
<1> PICK m : m = [t |-> "ack", v |-> i - 1, id |-> q.id]
  OBVIOUS
<1>1. /\ q.t = "op" /\ (IF Blind(q) THEN Made(q.id, i) ELSE FirstStop(q, i))
      /\ Send(q.c, q.conn, <<m>>) /\ reqs' = BagRemove(reqs, q)
      /\ UNCHANGED <<log, unpublished, stream, data, version, ops, pos>>
  BY DEF AckAgain, serverVars, agentVars, docVars, stateVars
<1>2. /\ PlaceFits(q) /\ q.c \in Clients /\ q.id \in Ops /\ Len(log) \in Nat /\ Start \in Nat
  BY <1>1, PlaceIsPlain, RequestIs, EditedIs DEF PlainInv, OnceInv
<1>3. i - 1 \in Nat /\ i - 1 >= Start
  BY <1>1, <1>2 DEF PlaceFits, FirstStop
<1>4. m \in PlainMessages
  BY <1>2, <1>3 DEF PlainMessages, Messages, Late
<1>5. <<m>> \in Seq(PlainMessages)
  BY <1>4, OneMessage
<1>6. \A k \in Clients : ChannelPlain(k)'
  BY <1>1, <1>2, <1>5, SendPlain DEF ChannelPlain, PlainInv, Late
<1> QED BY <1>1, <1>6, RemovedOnce, QuietStep DEF PlainInv

LEMMA PublishPlain ==
    ASSUME Plain, PlainInv, OnceInv', late' = {}, NEW u \in unpublished, Publish(u)
    PROVE  PlainInv'
<1> PICK m : m = [t |-> "ack", v |-> u.v, id |-> log[u.v + 1].id]
  OBVIOUS
<1>1. /\ unpublished' = unpublished \ {u}
      /\ stream' = [k \in Clients |->
                      IF k # u.c /\ open[k] # "none" THEN Append(stream[k], u.v) ELSE stream[k]]
      /\ Send(u.c, u.conn, OpMessages(u.from, u.v) \o <<m>>)
      /\ UNCHANGED <<log, reqs, data, version, ops, pos>>
  BY DEF Publish, docVars, stateVars
<1>2. /\ u.c \in Clients /\ u.from \in Nat /\ u.v \in Nat /\ u.v \in Versions /\ u.v \in Published
      /\ log[u.v + 1].id \in Ops /\ u.from >= Start /\ u.v >= Start
  BY LogTyped DEF PlainInv, OnceInv, Typed, ServerOK, Commits, Published, Versions
<1>3. m \in PlainMessages
  BY <1>2 DEF PlainMessages, Messages, Late
<1>4. OpMessages(u.from, u.v) \o <<m>> \in Seq(PlainMessages)
  <2>1. <<m>> \in Seq(PlainMessages)
    BY <1>3, OneMessage
  <2>2. OpMessages(u.from, u.v) \in Seq(PlainMessages)
    BY <1>2, OpMessagesPlain
  <2> QED BY <2>1, <2>2, ConcatProperties
<1>5. \A k \in Clients : \A x \in Elements(inbox'[k]) : x.t # "err" /\ Late(x.v)
  BY <1>1, <1>2, <1>4, SendPlain
<1>6. ASSUME NEW k \in Clients PROVE \A v \in Elements(stream'[k]) : v >= Start
  <2>1. /\ stream[k] \in Seq(Published) /\ \A v \in Elements(stream[k]) : v >= Start
    BY DEF PlainInv, OnceInv, Typed, AgentsOK, ChannelPlain
  <2>2. Elements(Append(stream[k], u.v)) = Elements(stream[k]) \cup {u.v}
    BY <1>2, <2>1, ElementsOfAppend
  <2> QED BY <1>1, <1>2, <2>1, <2>2
<1>7. \A k \in Clients : ChannelPlain(k)'
  BY <1>5, <1>6 DEF ChannelPlain, Late
<1> QED BY <1>1, <1>7, QuietStep

LEMMA OpenStreamPlain ==
    ASSUME Plain, PlainInv, OnceInv', late' = {}, NEW q \in DOMAIN reqs, OpenStream(q)
    PROVE  PlainInv'
<1> PICK r : r = [q EXCEPT !.t = "opened"]
  OBVIOUS
<1>1. /\ reqs' = BagAdd(BagRemove(reqs, q), r)
      /\ UNCHANGED <<log, unpublished, inbox, stream, data, version, ops, pos>>
  BY DEF OpenStream, serverVars, docVars, stateVars
<1>2. r.v = q.v /\ r.t = "opened" /\ Late(q.v)
  BY RequestIs DEF PlainInv, OnceInv, Requests, RequestPlain
<1>3. RequestPlain(r)'
  BY <1>2 DEF RequestPlain, Late
<1>4. \A x \in DOMAIN reqs' : x \in DOMAIN reqs \/ RequestPlain(x)'
  BY <1>1, <1>3, ReplacedOnce DEF PlainInv
<1>5. \A k \in Clients : ChannelPlain(k)'
  BY <1>1, SameChannel
<1> QED BY <1>1, <1>4, <1>5, QuietStep

LEMMA ReadPlain ==
    ASSUME Plain, PlainInv, OnceInv', late' = {}, NEW q \in DOMAIN reqs, Read(q)
    PROVE  PlainInv'
<1> PICK r : r = [q EXCEPT !.at = Len(log),
                           !.t = IF @ = "fetch" THEN "fetched" ELSE "subscribed"]
  OBVIOUS
<1> PICK t : t = IF q.t = "fetch" THEN "fetched" ELSE "subscribed"
  OBVIOUS
<1>1. /\ reqs' = BagAdd(BagRemove(reqs, q), r)
      /\ UNCHANGED <<log, unpublished, inbox, stream, data, version, ops, pos>>
  BY DEF Read, serverVars, agentVars, docVars, stateVars
<1>2. q \in Requests /\ Late(q.v) /\ Len(log) >= Start
  BY RequestIs DEF PlainInv, OnceInv, RequestPlain, Edited
<1>3. r = [q EXCEPT !.at = Len(log), !.t = t]
  BY <1>2 DEF Requests
<1>4. r.v = q.v /\ r.at = Len(log) /\ r.t = t
  BY <1>2, <1>3 DEF Requests
<1>5. RequestPlain(r)'
  BY <1>2, <1>4 DEF RequestPlain, Late
<1>6. \A x \in DOMAIN reqs' : x \in DOMAIN reqs \/ RequestPlain(x)'
  BY <1>1, <1>5, ReplacedOnce DEF PlainInv
<1>7. \A k \in Clients : ChannelPlain(k)'
  BY <1>1, SameChannel
<1> QED BY <1>1, <1>6, <1>7, QuietStep

LEMMA AnswerPlain ==
    ASSUME Plain, PlainInv, OnceInv', late' = {}, NEW q \in DOMAIN reqs, Answer(q)
    PROVE  PlainInv'
<1> PICK m : m = [t |-> q.t, v |-> q.at, id |-> Nil]
  OBVIOUS
<1> PICK k : k = [t |-> q.t, v |-> NullV, id |-> Nil]
  OBVIOUS
<1> PICK ms : ms = IF q.v = NullV THEN <<m>> ELSE OpMessages(q.v, q.at) \o <<k>>
  OBVIOUS
<1>1. /\ q.t \in {"fetched", "subscribed"} /\ Send(q.c, q.conn, ms)
      /\ reqs' = BagRemove(reqs, q)
      /\ UNCHANGED <<log, unpublished, stream, data, version, ops, pos>>
  BY DEF Answer, serverVars, docVars, stateVars
<1>2. /\ q.c \in Clients /\ q.at \in Nat /\ q.at \in Versions
      /\ q.v \in Nat \cup {NullV} /\ Late(q.v) /\ q.at >= Start
  BY <1>1, RequestIs DEF PlainInv, OnceInv, Requests, RequestPlain
<1>3. m \in PlainMessages /\ k \in PlainMessages
  BY <1>1, <1>2 DEF PlainMessages, Messages, Late, NullV
<1>4. ms \in Seq(PlainMessages)
  <2>1. <<m>> \in Seq(PlainMessages) /\ <<k>> \in Seq(PlainMessages)
    BY <1>3, OneMessage
  <2>2. CASE q.v = NullV
    BY <2>1, <2>2
  <2>3. CASE q.v # NullV
    <3>1. q.v \in Nat /\ q.v >= Start
      BY <1>2, <2>3 DEF Late
    <3>2. OpMessages(q.v, q.at) \in Seq(PlainMessages)
      BY <1>2, <3>1, OpMessagesPlain
    <3>3. OpMessages(q.v, q.at) \o <<k>> \in Seq(PlainMessages)
      BY <2>1, <3>2, ConcatProperties
    <3> QED BY <2>3, <3>3
  <2> QED BY <2>2, <2>3
<1>5. \A c \in Clients : ChannelPlain(c)'
  BY <1>1, <1>2, <1>4, SendPlain DEF ChannelPlain, PlainInv, Late
<1> QED BY <1>1, <1>5, RemovedOnce, QuietStep DEF PlainInv

LEMMA ForwardPlain ==
    ASSUME Plain, PlainInv, OnceInv', late' = {}, NEW c \in Clients, Forward(c)
    PROVE  PlainInv'
<1> PICK v : v = Head(stream[c])
  OBVIOUS
<1> PICK m : m = OpMessage(v)
  OBVIOUS
<1>1. /\ stream[c] # <<>>
      /\ inbox' = [inbox EXCEPT ![c] = Append(@, m)]
      /\ stream' = [stream EXCEPT ![c] = Tail(@)]
      /\ UNCHANGED <<log, unpublished, reqs, data, version, ops, pos>>
  BY DEF Forward, serverVars, docVars, stateVars
<1>2. /\ inbox \in [Clients -> Seq(Messages)] /\ stream \in [Clients -> Seq(Published)]
      /\ \A k \in Clients : ChannelPlain(k)
  BY DEF PlainInv, OnceInv, Typed, AgentsOK
<1>3. /\ v \in Published /\ v >= Start
      /\ Elements(Tail(stream[c])) \subseteq Elements(stream[c])
  BY <1>1, <1>2, ElementsOfTail DEF ChannelPlain
<1>4. m.t = "op" /\ m.v = v /\ m \in Messages
  <2>1. m \in MessagesTo(c)
    BY <1>3, OpMessageTyped DEF PlainInv, OnceInv
  <2> QED BY <2>1 DEF OpMessage, MessagesTo
<1>5. Elements(Append(inbox[c], m)) = Elements(inbox[c]) \cup {m}
  BY <1>2, <1>4, ElementsOfAppend
<1>6. ASSUME NEW k \in Clients PROVE ChannelPlain(k)'
  <2>1. CASE k = c
    <3>1. inbox'[c] = Append(inbox[c], m) /\ stream'[c] = Tail(stream[c])
      BY <1>1, <1>2
    <3> QED BY <1>2, <1>3, <1>4, <1>5, <2>1, <3>1 DEF ChannelPlain, Late
  <2>2. CASE k # c
    <3>1. inbox'[k] = inbox[k] /\ stream'[k] = stream[k]
      BY <1>1, <1>2, <2>2
    <3> QED BY <3>1, SameChannel
  <2> QED BY <2>1, <2>2
<1> QED BY <1>1, <1>6, QuietStep

LEMMA PlainIsSafe == Plain => RecreateSafe
<1> SUFFICES ASSUME Plain PROVE RecreateSafe
  BY DEF Plain
<1>1. \A o \in Ops : Kind[o] = "create" => Owner[o] = Nil
  BY DEF Plain
<1> QED BY <1>1 DEF RecreateSafe

LEMMA NextPlain ==
    ASSUME Plain, PlainInv, [Next]_vars, late' = {}
    PROVE  PlainInv'
<1>0. OnceInv'
  BY PlainIsSafe, NextOnce DEF PlainInv
<1>1. CASE UNCHANGED vars
  <2>1. UNCHANGED <<log, unpublished, reqs, inbox, stream, data, version, ops, pos>>
    BY <1>1 DEF vars
  <2>2. \A k \in Clients : ChannelPlain(k)'
    BY <2>1, SameChannel
  <2> QED BY <1>0, <2>1, <2>2, QuietStep
<1>2. ASSUME NEW c \in Clients, NEW o \in Ops, SubmitBroken(c, o)
      PROVE  PlainInv'
  BY <1>2, SubmitBrokenPlain
<1>3. ASSUME NEW c \in Clients, NEW o \in Ops, NEW p \in 0..Cardinality(Ops), Submit(c, o, p)
      PROVE  PlainInv'
  BY <1>0, <1>3, SubmitPlain
<1>4. ASSUME NEW c \in Clients, Work(c)
      PROVE  PlainInv'
  BY <1>0, <1>4, FlushTickPlain, PersistedPlain, TellPlain, ReceivePlain, ConnectPlain, ForwardPlain
  DEF Work
<1>5. ASSUME NEW c \in Clients, Drop(c)
      PROVE  PlainInv'
  BY <1>0, <1>5, DropPlain
<1>6. ASSUME NEW q \in DOMAIN reqs, Handle(q)
      PROVE  PlainInv'
  BY <1>0, <1>6, CommitPlain, AckAgainPlain, RefusePlain, OpenStreamPlain, ReadPlain,
     AnswerPlain
  DEF Handle
<1>7. ASSUME NEW q \in DOMAIN reqs, Lose(q)
      PROVE  PlainInv'
  BY <1>0, <1>7, LosePlain
<1>8. ASSUME NEW u \in unpublished, Publish(u)
      PROVE  PlainInv'
  BY <1>0, <1>8, PublishPlain
<1> QED BY <1>1, <1>2, <1>3, <1>4, <1>5, <1>6, <1>7, <1>8 DEF Next

LEMMA InitPlain == Init => PlainInv
<1> SUFFICES ASSUME Init PROVE PlainInv
  OBVIOUS
<1>1. OnceInv
  BY InitOnce
<1>2. /\ Len(log) = Start /\ Start \in Nat /\ unpublished = {} /\ DOMAIN reqs = {}
  BY PresetLogIs, PresetOps DEF Init, EmptyBag, SetToBag, Start
<1>3. Edited
  BY <1>2 DEF Edited
<1>4. late = {}
  BY DEF Init
<1>5. ASSUME NEW c \in Clients PROVE DocPlain(c) /\ ChannelPlain(c)
  <2>1. /\ ops[c] = <<>> /\ inbox[c] = <<>> /\ stream[c] = <<>>
        /\ data[c] = NoDoc /\ version[c] = NullV /\ Len(ops[c]) = 0
        /\ \A o \in Ops : pos[o] = NotMade
    BY DEF Init
  <2>2. Queued(c) = {} /\ MadeBy(c) = {}
    BY <2>1, ElementsOfEmpty DEF Queued, MadeBy
  <2>3. Drawing(c)
    <3> PICK f : f = [k \in 0..0 |-> NoDoc]
      OBVIOUS
    <3>1. f \in [0..0 -> Docs] /\ f[0] = NoDoc
      BY DEF Docs
    <3>2. Drawn(c, f)
      BY <2>1, <3>1 DEF Drawn, At, NullV
    <3> QED BY <2>1, <3>1, <3>2 DEF Drawing
  <2>4. DocPlain(c)
    BY <2>1, <2>2, <2>3 DEF DocPlain, Held, Placed, Late
  <2>5. ChannelPlain(c)
    BY <2>1, ElementsOfEmpty DEF ChannelPlain
  <2> QED BY <2>4, <2>5
<1> QED BY <1>1, <1>2, <1>3, <1>4, <1>5 DEF PlainInv

(* The documents that are drawn are those of View.                         *)
LEMMA ViewIs ==
    ASSUME Plain, PlainInv, NEW c \in Clients
    PROVE  data[c] = View(c)
<1> PICK n : n = Len(ops[c])
  OBVIOUS
<1> DEFINE Through(f) ==
              f = [i \in 0..n |->
                     IF i = 0 THEN At(version[c])
                     ELSE Apply(f[i - 1], ops[c][i], pos[ops[c][i]], Kind[ops[c][i]])]
           g == CHOOSE f : Through(f)
<1>1. n \in Nat /\ \A k \in 1..n : Kind[ops[c][k]] = "edit"
  BY QueuePlain
<1>2. PICK f \in [0..n -> Docs] : Drawn(c, f)
  BY QueuePlain DEF DocPlain, Drawing
<1>3. /\ f[0] = At(version[c]) /\ data[c] = f[n]
      /\ \A k \in 1..n : f[k] = Insert(f[k - 1], pos[ops[c][k]], ops[c][k])
  BY <1>2 DEF Drawn, Inserts
<1>4. \A k \in 1..n :
         f[k] = Apply(f[k - 1], ops[c][k], pos[ops[c][k]], Kind[ops[c][k]])
  BY <1>1, <1>3 DEF Apply
<1>5. Through(f)
  <2>1. \A k \in 0..n : k = 0 \/ k \in 1..n
    BY <1>1
  <2> QED BY <1>2, <1>3, <1>4, <2>1
<1>6. Through(g)
  <2> HIDE DEF Through
  <2> QED BY <1>5
<1>7. View(c) = g[n]
  BY DEF View
<1> HIDE DEF g
<1>8. /\ g[0] = At(version[c])
      /\ \A k \in 1..n :
            g[k] = Apply(g[k - 1], ops[c][k], pos[ops[c][k]], Kind[ops[c][k]])
  <2> DEFINE next(x, i) == Apply(x, ops[c][i], pos[ops[c][i]], Kind[ops[c][i]])
  <2>1. g = [i \in 0..n |-> IF i = 0 THEN At(version[c]) ELSE next(g[i - 1], i)]
    BY <1>6
  <2> HIDE DEF next, Through
  <2>2. \A i \in 0..n :
           g[i] = IF i = 0 THEN At(version[c]) ELSE next(g[i - 1], i)
    BY <2>1, Zenon
  <2>3. 0 \in 0..n /\ \A k \in 1..n : k \in 0..n /\ k # 0
    BY <1>1
  <2>4. g[0] = At(version[c])
    BY <2>2, <2>3
  <2>5. \A k \in 1..n : g[k] = next(g[k - 1], k)
    BY <2>2, <2>3
  <2> QED BY <2>4, <2>5 DEF next
<1> HIDE DEF Through
<1>9. g[n] = f[n]
  <2> DEFINE G == {k \in 0..n : g[k] = f[k]}
             z == 0
  <2>1. z \in G
    BY <1>1, <1>3, <1>8
  <2>2. \A k \in z..(n - 1) : k \in G => k + 1 \in G
    <3>1. ASSUME NEW k \in 0..(n - 1), g[k] = f[k] PROVE g[k + 1] = f[k + 1] /\ k + 1 \in 0..n
      <4>1. k + 1 \in 1..n /\ k + 1 - 1 = k /\ k + 1 \in 0..n
        BY <1>1
      <4> QED BY <1>4, <1>8, <3>1, <4>1
    <3> QED BY <3>1
  <2>3. z \in Int /\ n \in Int /\ n \in z..n
    BY <1>1
  <2> HIDE DEF G, z
  <2>4. \A k \in z..n : k \in G
    BY <2>1, <2>2, <2>3, InductFrom
  <2> QED BY <2>3, <2>4 DEF G
<1> QED BY <1>3, <1>7, <1>9

(* An op that was sent late stays so.                                      *)
LEMMA LateStays == [Next]_vars => late \subseteq late'
<1> SUFFICES ASSUME [Next]_vars PROVE late \subseteq late'
  OBVIOUS
<1> USE DEF docVars, stateVars, history
<1>1. CASE UNCHANGED vars
  BY <1>1 DEF vars
<1>2. ASSUME NEW c \in Clients, NEW o \in Ops, SubmitBroken(c, o)
      PROVE  late \subseteq late'
  BY <1>2 DEF SubmitBroken, HardRollback
<1>3. ASSUME NEW c \in Clients, NEW o \in Ops, NEW p \in 0..Cardinality(Ops), Submit(c, o, p)
      PROVE  late \subseteq late'
  BY <1>3 DEF Submit
<1>4. ASSUME NEW c \in Clients, Work(c)
      PROVE  late \subseteq late'
  <2>1. CASE FlushTick(c) \/ Tell(c) \/ Connect(c) \/ Forward(c)
    BY <2>1 DEF FlushTick, Tell, Connect, Forward
  <2>2. CASE Persisted(c)
    BY <2>2 DEF Persisted
  <2>3. ASSUME NEW m, Handlers(c, m)
        PROVE  late \subseteq late'
    BY <2>3 DEF Handlers, ReceiveAck, ReceiveGap, ReceiveOld, ReceiveRemote, ReceiveConflict,
       ReceiveError, ReceiveFetched, ReceiveSubscribed, HardRollback
  <2> QED BY <1>4, <2>1, <2>2, <2>3 DEF Work, Receive
<1>5. ASSUME NEW c \in Clients, Drop(c)
      PROVE  late \subseteq late'
  BY <1>5 DEF Drop
<1>6. ASSUME NEW q \in DOMAIN reqs, Handle(q) \/ Lose(q)
      PROVE  late \subseteq late'
  BY <1>6 DEF Handle, Commit, AckAgain, Refuse, OpenStream, Read, Answer, Lose
<1>7. ASSUME NEW u \in unpublished, Publish(u)
      PROVE  late \subseteq late'
  BY <1>7 DEF Publish
<1> QED BY <1>1, <1>2, <1>3, <1>4, <1>5, <1>6, <1>7 DEF Next

(* While clients only edit, no type throws and no middleware refuses,      *)
(* doc.data is at every moment the document at the client's version with   *)
(* its unacknowledged ops applied on top, until a persist callback sends   *)
(* an op again after its answer: transformX moved the client's and the     *)
(* server's ops past each other so that both sides agree, whatever is sent *)
(* again, dropped or reordered (doc.js: _handleOp, _otApply, transformX,   *)
(* _opAcknowledged, _sendOp).                                              *)
THEOREM ClientsConverge ==
    ASSUME Plain
    PROVE  Spec => [](late = {} => LocalView)
<1> DEFINE Inv == late = {} => PlainInv
<1>1. Init => Inv
  BY InitPlain
<1>2. Inv /\ [Next]_vars => Inv'
  <2> SUFFICES ASSUME Inv, [Next]_vars, late' = {} PROVE PlainInv'
    OBVIOUS
  <2>1. late = {}
    BY LateStays
  <2> QED BY <2>1, NextPlain
<1>3. Inv => (late = {} => LocalView)
  BY ViewIs DEF LocalView
<1> QED BY <1>1, <1>2, <1>3, PTL DEF Spec
=============================================================================
