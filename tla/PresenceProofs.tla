---------------------------- MODULE PresenceProofs ----------------------------
(* Proofs about Presence, for any number of ops, presences, drops and calls  *)
(* of subscribe.                                                             *)
EXTENDS Presence, SequenceTheorems, Induction

Bounds == [ops : Nat, submits : Nat, drops : Nat, calls : Nat, nulls : BOOLEAN,
           joined : BOOLEAN, docSub : BOOLEAN, inOp : BOOLEAN]

Marks == (Op \X BOOLEAN) \cup {Twice}

(* A presence value, or the null presence.                                   *)
Values == {None} \cup [n : Nat, refl : SUBSET Marks]

(* The ops up to version v.                                                  *)
OpsUpTo(v) == {log[i] : i \in 1..v}

InStepAt(p, ops) == sc.inOp \/ Reflects(p, ops)

(* A presence message: it reflects the ops up to its version.                *)
Sent == {m \in [a : {"p"}, v : 0..Len(log), pv : 0..(loc.pv - 1), p : Values] :
            InStepAt(m.p, OpsUpTo(m.v))}
Messages == Sent \cup [a : {"sub", "unsub"}, seq : Nat]
                 \cup [a : {"req"}] \cup [a : {"req"}, src : Nat]

(* There are agents enough for the drops to come.                            *)
Down(c) == IF live[c] THEN 0 ELSE 1
Wires ==
    /\ sc \in Bounds
    /\ live \in [Client -> BOOLEAN]
    /\ cur \in [Client -> 1..MaxAgents]
    /\ \A c \in Client : cur[c] + Down(A) + Down(B) + sc.drops <= MaxAgents

(* The ops are numbered as they are made, each is logged once, and the one   *)
(* in flight is not acknowledged.                                            *)
Unlogged == {d \in Client : infl[d] # None /\ infl[d] \notin Range(log)}
Made == Len(log) + Cardinality(Unlogged)
Document ==
    /\ log \in Seq(Op)
    /\ \A i, j \in 1..Len(log) : log[i] = log[j] => i = j
    /\ ver \in [Client -> 0..Len(log)]
    /\ fetch \in {None, Asked} \cup 0..Len(log)
    /\ infl \in [Client -> {None} \cup Op]
    /\ \A c \in Client : infl[c] # None =>
          /\ infl[c].c = c
          /\ infl[c].n <= Made
          /\ \A i \in 1..ver[c] : log[i] # infl[c]
    /\ \A i \in 1..Len(log) : log[i].n <= Made

LocalIs(l, ops) ==
    /\ l \in [value : Values, pv : Nat, n : Nat, queue : Seq([pv : Nat, p : Values]),
              sending : BOOLEAN]
    /\ InStepAt(l.value, ops)
    /\ \A i \in 1..Len(l.queue) : l.queue[i].pv < l.pv /\ InStepAt(l.queue[i].p, ops)
Local == LocalIs(loc, DocOps(A))

Subs ==
    /\ sub \in [Client -> [want : BOOLEAN, subd : BOOLEAN, seq : Nat,
                           cbs : SUBSET [seq : Nat, calls : SUBSET Nat]]]
    /\ \A c \in Client :
          /\ sub[c].seq # 0
          /\ \A e \in sub[c].cbs : e.seq < sub[c].seq

(* What a client has on the way to its agent it asked with numbers it has    *)
(* used.                                                                     *)
Before(q, s) == \A i \in 1..Len(q) : q[i].a \in {"sub", "unsub"} => q[i].seq < s
Traffic ==
    /\ up \in [Client -> Seq(Messages)]
    /\ down \in [Client -> Seq(Messages)]
    /\ \A c \in Client : Before(up[c], sub[c].seq)

Agent == [c : Client, open : BOOLEAN, stream : BOOLEAN, seq : Nat, opening : SUBSET Nat,
          req : {None} \cup Sent, latest : {None} \cup Nat]
Job == [k : 1..MaxAgents, m : Sent, stage : {"version", "transform", "end"}]
Agents ==
    /\ agents \in [1..MaxAgents -> Agent]
    /\ \A c \in Client : agents[cur[c]].c = c
    /\ \A k \in 1..MaxAgents :
          \A s \in {agents[k].seq} \cup agents[k].opening : s < sub[agents[k].c].seq
    /\ jobs \subseteq Job

(* The walk from version i through the cache does not arrive at the version  *)
(* of the document, or not before the op in flight is acknowledged.          *)
Blind(i) ==
    \/ infl[B] # None /\ i <= ver[B]
    \/ \E k \in i..(ver[B] - 1) : rem.cache = None \/ \A e \in rem.cache : e.v # k

Entry == [v : Int, o : Op, own : BOOLEAN]
Logged(e) == e.v \in 0..(Len(log) - 1) /\ e.o = log[e.v + 1] /\ e.own = (e.o.c = A)

Shape(pvs, vs) ==
    [on : BOOLEAN, value : Values, pv : {None} \cup pvs,
     pend : {None} \cup [pv : pvs, p : Values, v : vs],
     cache : {None} \cup SUBSET Entry, setting : BOOLEAN]

Remote ==
    /\ rem \in Shape(0..(loc.pv - 1), 0..Len(log))
    /\ ~rem.on => rem = NewRem
    /\ rem.value # None => rem.pv # None
    /\ InStepAt(rem.value, DocOps(B))
    /\ rem.pend # None /\ ~Blind(rem.pend.v) => InStepAt(rem.pend.p, OpsUpTo(rem.pend.v))
    /\ rem.cache # None =>
          /\ IsFiniteSet(rem.cache)
          /\ \A e \in rem.cache : e.v < ver[B] /\ (~Blind(e.v) => Logged(e))

PInv ==
    /\ Wires
    /\ Document
    /\ Local
    /\ Subs
    /\ Traffic
    /\ Agents
    /\ Remote
-------------------------------------------------------------------------------
(* A value transformed by an op is a value, and reflects that op too if it   *)
(* did not before.                                                           *)
LEMMA TransformKeeps ==
    ASSUME NEW p \in Values, NEW o \in Op, NEW own \in BOOLEAN
    PROVE  Transform(p, o, own) \in Values
<1>1. CASE p = None
  BY <1>1 DEF Transform
<1>2. CASE p # None
  <2>1. p \in [n : Nat, refl : SUBSET Marks]
    BY <1>2 DEF Values
  <2>2. Twice \in Marks /\ <<o, own>> \in Marks
    BY DEF Marks
  <2>3. \/ Transform(p, o, own) = [p EXCEPT !.refl = @ \cup {Twice}]
        \/ Transform(p, o, own) = [p EXCEPT !.refl = @ \cup {<<o, own>>}]
    BY <1>2 DEF Transform
  <2> QED BY <2>1, <2>2, <2>3 DEF Values
<1> QED BY <1>1, <1>2

LEMMA TransformReflects ==
    ASSUME NEW p \in Values, NEW o, NEW ops, Reflects(p, ops), o \notin ops
    PROVE  Reflects(Transform(p, o, o.c = A), ops \cup {o})
<1>1. CASE p = None
  BY <1>1 DEF Transform, Reflects
<1>2. CASE p # None
  <2>1. p \in [n : Nat, refl : SUBSET Marks]
    BY <1>2 DEF Values
  <2>2. p.refl = {<<x, x.c = A>> : x \in ops}
    BY <1>2 DEF Reflects
  <2>3. \A e \in p.refl : e[1] # o
    BY <2>2
  <2>4. Transform(p, o, o.c = A) = [p EXCEPT !.refl = @ \cup {<<o, o.c = A>>}]
    BY <1>2, <2>3 DEF Transform
  <2>5. Transform(p, o, o.c = A).refl = p.refl \cup {<<o, o.c = A>>}
    BY <2>1, <2>4
  <2>6. {<<x, x.c = A>> : x \in ops \cup {o}} = p.refl \cup {<<o, o.c = A>>}
    BY <2>2
  <2> QED BY <2>5, <2>6 DEF Reflects
<1> QED BY <1>1, <1>2

(* The same of a value that goes through ops one by one.                     *)
Walk(f, a, b, p, op, own) ==
    f = [v \in a..b |-> IF v = a THEN p ELSE Transform(f[v - 1], op[v], own[v])]
Steppable(a, b, op, own) == \A v \in a + 1 .. b : op[v] \in Op /\ own[v] \in BOOLEAN
FirstOps(op, v) == {op[i] : i \in 1..v}
Faithful(a, b, op, own) ==
    \A v \in a + 1 .. b : /\ own[v] = (op[v].c = A)
                         /\ \A i \in 1..(v - 1) : op[i] # op[v]

LEMMA WalkKeeps ==
    ASSUME NEW a \in Int, NEW b \in Int, a <= b, NEW p \in Values,
           NEW op, NEW own, Steppable(a, b, op, own),
           NEW f, Walk(f, a, b, p, op, own)
    PROVE  \A v \in a..b : f[v] \in Values
<1> DEFINE H == {v \in a..b : f[v] \in Values}
<1>1. a \in H
  BY DEF Walk
<1>2. ASSUME NEW v \in a..(b - 1), v \in H PROVE v + 1 \in H
  <2>1. v + 1 \in a + 1 .. b /\ v + 1 \in a..b /\ (v + 1) - 1 = v /\ v + 1 # a
    OBVIOUS
  <2>2. f[v + 1] = Transform(f[v], op[v + 1], own[v + 1])
    BY <2>1 DEF Walk
  <2>3. f[v] \in Values
    BY <1>2
  <2>4. f[v + 1] \in Values
    BY <2>1, <2>2, <2>3, TransformKeeps DEF Steppable
  <2> QED BY <2>1, <2>4
<1>3. \A v \in a..b : v \in H
  <2> HIDE DEF H
  <2> QED BY <1>1, <1>2, InductFrom
<1> QED BY <1>3

LEMMA WalkReflects ==
    ASSUME NEW a \in Nat, NEW b \in Nat, a <= b, NEW p \in Values,
           NEW op, NEW own, Steppable(a, b, op, own),
           NEW f, Walk(f, a, b, p, op, own),
           Faithful(a, b, op, own),
           Reflects(p, FirstOps(op, a))
    PROVE  Reflects(f[b], FirstOps(op, b))
<1> DEFINE G == {v \in a..b : Reflects(f[v], FirstOps(op, v))}
<1>1. a \in G
  BY DEF Walk
<1>2. ASSUME NEW v \in a..(b - 1), v \in G PROVE v + 1 \in G
  <2>1. v + 1 \in a + 1 .. b /\ v + 1 \in a..b /\ (v + 1) - 1 = v /\ v + 1 # a /\ v \in a..b
    OBVIOUS
  <2>2. f[v + 1] = Transform(f[v], op[v + 1], op[v + 1].c = A)
    BY <2>1 DEF Walk, Faithful
  <2>3. f[v] \in Values
    BY <2>1, WalkKeeps
  <2> DEFINE ops == FirstOps(op, v)
  <2>4. op[v + 1] \notin ops
    BY <2>1 DEF Faithful, FirstOps
  <2>5. FirstOps(op, v + 1) = ops \cup {op[v + 1]}
    <3>1. \A i : i \in 1..(v + 1) <=> i \in 1..v \/ i = v + 1
      OBVIOUS
    <3> QED BY <3>1 DEF FirstOps
  <2>6. Reflects(f[v], ops)
    BY <1>2
  <2> HIDE DEF ops
  <2>7. Reflects(f[v + 1], ops \cup {op[v + 1]})
    BY <2>2, <2>3, <2>4, <2>6, TransformReflects
  <2> QED BY <2>1, <2>5, <2>7
<1>3. \A v \in a..b : v \in G
  <2> HIDE DEF G
  <2> QED BY <1>1, <1>2, InductFrom
<1>4. b \in G
  <2> HIDE DEF G
  <2> QED BY <1>3
<1> QED BY <1>4

LEMMA WalkExists ==
    ASSUME NEW a \in Int, NEW b \in Int, a <= b, NEW p \in Values,
           NEW op, NEW own, Steppable(a, b, op, own)
    PROVE  \E f : Walk(f, a, b, p, op, own)
<1> DEFINE T == [q \in Values \X (a + 1 .. b) |-> Transform(q[1], op[q[2]], own[q[2]])]
<1>1. T \in [Values \X (a + 1 .. b) -> Values]
  <2>1. \A q \in Values \X (a + 1 .. b) : q[1] \in Values /\ q[2] \in a + 1 .. b
    OBVIOUS
  <2>2. \A q \in Values \X (a + 1 .. b) : Transform(q[1], op[q[2]], own[q[2]]) \in Values
    BY <2>1, TransformKeeps DEF Steppable
  <2> QED BY <2>2
<1>2. \A x \in Values : \A v \in a + 1 .. b : T[<<x, v>>] = Transform(x, op[v], own[v])
  OBVIOUS
<1> HIDE DEF T
<1>3. PICK f \in [a..b -> Values] : Steps(f, a, b, p, T)
  BY <1>1, StepsExist
<1>4. \A v \in a..b : v # a => v \in a + 1 .. b /\ v - 1 \in a..b
  OBVIOUS
<1>5. \A v \in a..b : v # a => T[<<f[v - 1], v>>] = Transform(f[v - 1], op[v], own[v])
  BY <1>2, <1>3, <1>4
<1> QED BY <1>3, <1>5 DEF Steps, Walk

-------------------------------------------------------------------------------
(* transformPresenceToLatestVersion makes of a message one that reflects the *)
(* whole log.                                                                *)
LEMMA ToLatestSent ==
    ASSUME Document, NEW m \in Sent
    PROVE  ToLatest(m) \in Sent /\ ToLatest(m).pv = m.pv
<1> DEFINE a == m.v
           b == Len(log)
           own == [v \in a + 1 .. b |-> log[v].c = A]
           Through(f) == f = [v \in a..b |-> IF v = a THEN m.p
                                             ELSE Transform(f[v - 1], log[v], log[v].c = A)]
           f == CHOOSE g : Through(g)
<1>1. /\ a \in Nat /\ b \in Nat /\ a <= b
      /\ m.p \in Values /\ m.pv \in 0..(loc.pv - 1) /\ m.a = "p"
      /\ m = [a |-> "p", v |-> m.v, pv |-> m.pv, p |-> m.p]
      /\ InStepAt(m.p, OpsUpTo(m.v))
  BY DEF Sent, Document
<1>2. Steppable(a, b, log, own)
  BY <1>1 DEF Document, Steppable
<1>3. \A v \in a..b : v # a => own[v] = (log[v].c = A)
  <2>1. \A v \in a..b : v # a => v \in a + 1 .. b
    BY <1>1
  <2> QED BY <2>1
<1>4. \A g : Walk(g, a, b, m.p, log, own) <=> Through(g)
  <2> HIDE DEF a, b, own
  <2> QED BY <1>3 DEF Walk
<1>5. \E g : Through(g)
  <2> HIDE DEF a, b, own, Through
  <2>1. \E g : Walk(g, a, b, m.p, log, own)
    BY <1>1, <1>2, WalkExists
  <2> QED BY <2>1, <1>4
<1>6. ToLatest(m) = [m EXCEPT !.v = b, !.p = f[b]]
  BY DEF ToLatest
<1>7. Walk(f, a, b, m.p, log, own)
  <2> HIDE DEF Through
  <2> QED BY <1>4, <1>5
<1>14. \A v \in a + 1 .. b : own[v] = (log[v].c = A)
  OBVIOUS
<1> HIDE DEF f, a, b, own, Through
<1>8. f[b] \in Values
  BY <1>1, <1>2, <1>7, WalkKeeps
<1>9. InStepAt(f[b], OpsUpTo(b))
  <2> SUFFICES ASSUME ~sc.inOp PROVE Reflects(f[b], FirstOps(log, b))
    BY DEF InStepAt, OpsUpTo, FirstOps
  <2>1. Reflects(m.p, FirstOps(log, a))
    BY <1>1 DEF InStepAt, OpsUpTo, FirstOps, a
  <2>2. Faithful(a, b, log, own)
    BY <1>1, <1>14 DEF Document, b, Faithful
  <2>3. a \in Nat /\ b \in Nat /\ a <= b /\ m.p \in Values
    BY <1>1
  <2> QED BY <1>2, <1>7, <2>1, <2>2, <2>3, WalkReflects
<1>10. ToLatest(m) = [a |-> "p", v |-> b, pv |-> m.pv, p |-> f[b]]
  BY <1>1, <1>6
<1>11. ToLatest(m) \in [a : {"p"}, v : 0..Len(log), pv : 0..(loc.pv - 1), p : Values]
  BY <1>1, <1>8, <1>10 DEF b
<1>12. ToLatest(m).p = f[b] /\ ToLatest(m).v = b /\ ToLatest(m).pv = m.pv
  BY <1>10
<1> QED BY <1>9, <1>11, <1>12 DEF Sent

-------------------------------------------------------------------------------
(* What only grows: the log, presence versions, sequence numbers.            *)
LogGrows ==
    /\ log \in Seq(Op) /\ log' \in Seq(Op)
    /\ Len(log) <= Len(log') /\ \A i \in 1..Len(log) : log'[i] = log[i]
Grows ==
    /\ sc'.inOp = sc.inOp
    /\ LogGrows
    /\ loc.pv \in Nat /\ loc'.pv \in Nat /\ loc.pv <= loc'.pv
SeqsGrow ==
    \A c \in Client : sub[c].seq \in Nat /\ sub'[c].seq \in Nat /\ sub[c].seq <= sub'[c].seq

LEMMA OpsUpToKept ==
    ASSUME LogGrows, NEW v \in 0..Len(log)
    PROVE  OpsUpTo(v)' = OpsUpTo(v)
<1>1. Len(log) \in Nat
  BY DEF LogGrows
<1>2. \A i \in 1..v : log'[i] = log[i]
  BY <1>1 DEF LogGrows
<1> QED BY <1>2 DEF OpsUpTo

LEMMA SentKept ==
    ASSUME Grows
    PROVE  Sent \subseteq Sent' /\ Messages \subseteq Messages'
<1>1. ASSUME NEW m \in Sent PROVE m \in Sent'
  <2>1. m \in [a : {"p"}, v : 0..Len(log), pv : 0..(loc.pv - 1), p : Values]
    BY DEF Sent
  <2>2. Len(log) \in Nat /\ Len(log') \in Nat
    BY DEF Grows, LogGrows
  <2>3. m \in [a : {"p"}, v : 0..Len(log'), pv : 0..(loc'.pv - 1), p : Values]
    BY <2>1, <2>2 DEF Grows, LogGrows
  <2>4. OpsUpTo(m.v)' = OpsUpTo(m.v)
    BY <2>1, OpsUpToKept DEF Grows
  <2>5. InStepAt(m.p, OpsUpTo(m.v))
    BY DEF Sent
  <2>6. InStepAt(m.p, OpsUpTo(m.v))'
    BY <2>4, <2>5 DEF InStepAt, Grows
  <2> QED BY <2>3, <2>6 DEF Sent
<1>2. Sent \subseteq Sent'
  BY <1>1
<1> QED BY <1>2 DEF Messages
LEMMA DocOpsKept ==
    ASSUME Document, LogGrows, NEW c \in Client, ver'[c] = ver[c], infl'[c] = infl[c]
    PROVE  DocOps(c)' = DocOps(c)
<1>1. ver[c] \in 0..Len(log)
  BY DEF Document
<1>2. OpsUpTo(ver[c])' = {log'[i] : i \in 1..ver[c]}
  BY DEF OpsUpTo
<1> QED BY <1>1, <1>2, OpsUpToKept DEF OpsUpTo, DocOps

LEMMA LocalKept ==
    ASSUME Document, Local, Grows, UNCHANGED loc, ver'[A] = ver[A], infl'[A] = infl[A]
    PROVE  Local'
<1>1. DocOps(A)' = DocOps(A)
  BY DocOpsKept DEF Grows, Client
<1> QED BY <1>1 DEF Local, LocalIs, InStepAt, Grows

LEMMA TrafficKept ==
    ASSUME Traffic, Grows, SeqsGrow, UNCHANGED <<up, down>>
    PROVE  Traffic'
<1>1. \A q \in Seq(Messages) : q \in Seq(Messages')
  BY SentKept, SeqMonotonic
<1>2. up' \in [Client -> Seq(Messages')] /\ down' \in [Client -> Seq(Messages')]
  BY <1>1 DEF Traffic
<1>3. ASSUME NEW c \in Client, NEW i \in 1..Len(up[c]), up[c][i].a \in {"sub", "unsub"}
      PROVE  up[c][i].seq < sub'[c].seq
  <2>1. up[c][i].seq < sub[c].seq
    BY <1>3 DEF Traffic, Before
  <2>2. up[c][i] \in Messages
    BY ElementOfSeq DEF Traffic
  <2>3. up[c][i].seq \in Nat
    BY <2>2, <1>3 DEF Messages, Sent
  <2> QED BY <2>1, <2>3 DEF SeqsGrow
<1> QED BY <1>2, <1>3 DEF Traffic, Before

LEMMA AgentsKept ==
    ASSUME Agents, Grows, SeqsGrow, UNCHANGED <<agents, cur, jobs>>
    PROVE  Agents'
<1>1. Agent \subseteq Agent' /\ Job \subseteq Job'
  BY SentKept DEF Agent, Job
<1>2. agents \in [1..MaxAgents -> Agent'] /\ jobs \subseteq Job'
  BY <1>1 DEF Agents
<1>3. ASSUME NEW k \in 1..MaxAgents, NEW s \in {agents[k].seq} \cup agents[k].opening
      PROVE  s < sub'[agents[k].c].seq
  <2>1. agents[k].c \in Client /\ s \in Nat /\ s < sub[agents[k].c].seq
    BY DEF Agents, Agent
  <2> QED BY <2>1 DEF SeqsGrow
<1> QED BY <1>2, <1>3 DEF Agents

LEMMA RemoteKept ==
    ASSUME Document, Remote, Grows, UNCHANGED rem, ver'[B] = ver[B], infl'[B] = infl[B]
    PROVE  Remote'
<1>1. DocOps(B)' = DocOps(B)
  BY DocOpsKept DEF Grows, Client
<1>2. Len(log) \in Nat /\ Len(log') \in Nat /\ Len(log) <= Len(log') /\ loc.pv <= loc'.pv
      /\ loc.pv \in Nat /\ loc'.pv \in Nat
  BY DEF Grows, LogGrows
<1>3. rem \in Shape(0..(loc'.pv - 1), 0..Len(log'))
  <2>1. 0..(loc.pv - 1) \subseteq 0..(loc'.pv - 1) /\ 0..Len(log) \subseteq 0..Len(log')
    BY <1>2
  <2>2. [pv : 0..(loc.pv - 1), p : Values, v : 0..Len(log)]
           \subseteq [pv : 0..(loc'.pv - 1), p : Values, v : 0..Len(log')]
    BY <2>1
  <2> QED BY <2>1, <2>2 DEF Remote, Shape
<1>4. \A i : Blind(i)' = Blind(i)
  BY DEF Blind
<1>5. ASSUME rem.pend # None, ~Blind(rem.pend.v)
      PROVE  InStepAt(rem.pend.p, OpsUpTo(rem.pend.v))'
  <2>1. rem.pend.v \in 0..Len(log)
    BY <1>5 DEF Remote, Shape
  <2>2. OpsUpTo(rem.pend.v)' = OpsUpTo(rem.pend.v)
    BY <2>1, OpsUpToKept DEF Grows, OpsUpTo
  <2> QED BY <1>5, <2>2 DEF Remote, InStepAt, Grows
<1>6. ASSUME NEW e \in Entry, Logged(e)
      PROVE  Logged(e)'
  <2>1. e.v \in 0..(Len(log) - 1) /\ e.o = log[e.v + 1] /\ e.own = (e.o.c = A)
    BY <1>6 DEF Logged
  <2>2. e.v + 1 \in 1..Len(log) /\ e.v \in 0..(Len(log') - 1)
    BY <2>1, <1>2
  <2>3. log'[e.v + 1] = log[e.v + 1]
    BY <2>2 DEF Grows, LogGrows
  <2> QED BY <2>1, <2>2, <2>3 DEF Logged
<1>7. ASSUME rem.cache # None, NEW e \in rem.cache, ~Blind(e.v)
      PROVE  Logged(e)'
  <2>1. rem.cache \in SUBSET Entry /\ e \in Entry
    BY <1>7 DEF Remote, Shape
  <2> QED BY <1>6, <1>7, <2>1 DEF Remote
<1>8. InStepAt(rem.value, DocOps(B))'
  BY <1>1 DEF Remote, InStepAt, Grows
<1>9. rem.pend # None /\ ~Blind(rem.pend.v)' => InStepAt(rem.pend.p, OpsUpTo(rem.pend.v))'
  BY <1>4, <1>5
<1>10. rem.cache # None =>
          /\ IsFiniteSet(rem.cache)
          /\ \A e \in rem.cache : e.v < ver'[B] /\ (~Blind(e.v)' => Logged(e)')
  BY <1>4, <1>7 DEF Remote
<1>11. (~rem.on => rem = NewRem) /\ (rem.value # None => rem.pv # None)
  BY DEF Remote
<1> QED BY <1>3, <1>8, <1>9, <1>10, <1>11 DEF Remote
LEMMA DocumentKept == ASSUME Document, UNCHANGED document PROVE Document'
  BY DEF Document, document, Made, Unlogged

LEMMA WiresKept == ASSUME Wires, UNCHANGED <<sc, live, cur>> PROVE Wires'
  BY DEF Wires, Down

LEMMA SubsKept == ASSUME Subs, UNCHANGED sub PROVE Subs' /\ SeqsGrow
  BY DEF Subs, SeqsGrow

-------------------------------------------------------------------------------
(* LocalDocPresence.                                                         *)
LEMMA LocalSendKeeps ==
    ASSUME NEW l, NEW ops, LocalIs(l, ops), NEW p \in Values, InStepAt(p, ops)
    PROVE  LocalIs(LocalSend(l, p), ops) /\ LocalSend(l, p).pv = l.pv + 1
<1> DEFINE e == [pv |-> l.pv, p |-> p]
           q == Append(l.queue, e)
           v == l.pv + 1
           m == LocalSend(l, p)
<1>1. /\ e \in [pv : Nat, p : Values] /\ l.queue \in Seq([pv : Nat, p : Values])
      /\ l.pv \in Nat /\ v \in Nat
  BY DEF LocalIs
<1>2. m = [l EXCEPT !.queue = q, !.pv = v, !.sending = TRUE]
  BY DEF LocalSend
<1>3. e.pv = l.pv /\ e.p = p
  OBVIOUS
<1> HIDE DEF e, m
<1>4. /\ q \in Seq([pv : Nat, p : Values]) /\ Len(q) = Len(l.queue) + 1
      /\ \A i \in 1..Len(l.queue) : q[i] = l.queue[i]
      /\ q[Len(l.queue) + 1] = e
  BY <1>1, AppendProperties
<1>5. Len(l.queue) \in Nat
  BY <1>1
<1> HIDE DEF q
<1>6. ASSUME NEW i \in 1..Len(q) PROVE q[i].pv < v /\ InStepAt(q[i].p, ops)
  <2>1. CASE i = Len(l.queue) + 1
    BY <2>1, <1>1, <1>3, <1>4
  <2>2. CASE i # Len(l.queue) + 1
    <3>1. i \in 1..Len(l.queue)
      BY <2>2, <1>4, <1>5
    <3>2. l.queue[i] \in [pv : Nat, p : Values]
      BY <3>1, <1>1, ElementOfSeq
    <3>3. l.queue[i].pv \in Nat /\ l.queue[i].pv < l.pv /\ InStepAt(l.queue[i].p, ops)
      BY <3>1, <3>2 DEF LocalIs
    <3>4. q[i] = l.queue[i]
      BY <3>1, <1>4
    <3> QED BY <3>3, <3>4, <1>1
  <2> QED BY <2>1, <2>2
<1> HIDE DEF v
<1>7. /\ m \in [value : Values, pv : Nat, n : Nat, queue : Seq([pv : Nat, p : Values]),
                sending : BOOLEAN]
      /\ m.value = l.value /\ m.pv = v /\ m.queue = q
  BY <1>1, <1>2, <1>4 DEF LocalIs
<1>8. LocalIs(m, ops)
  BY <1>6, <1>7 DEF LocalIs
<1> QED BY <1>7, <1>8 DEF m, v

LEMMA LocalSubmitKeeps ==
    ASSUME NEW l, NEW ops, LocalIs(l, ops), NEW p \in Values, InStepAt(p, ops)
    PROVE  LocalIs(LocalSubmit(l, p), ops) /\ LocalSubmit(l, p).pv = l.pv + 1
<1> DEFINE x == l.n + 1
           m == [l EXCEPT !.value = p, !.n = x]
<1>1. x \in Nat
  BY DEF LocalIs
<1>2. LocalSubmit(l, p) = LocalSend(m, p)
  BY DEF LocalSubmit
<1> HIDE DEF x
<1>3. /\ m \in [value : Values, pv : Nat, n : Nat, queue : Seq([pv : Nat, p : Values]),
                sending : BOOLEAN]
      /\ m.value = p /\ m.pv = l.pv /\ m.queue = l.queue
  BY <1>1 DEF LocalIs
<1> HIDE DEF m
<1>4. LocalIs(m, ops)
  BY <1>3 DEF LocalIs
<1> QED BY <1>2, <1>3, <1>4, LocalSendKeeps

(* Values in the queue that are left alone are so only where a listener of   *)
(* an op submits presence.                                                   *)
Untouched(fresh) == sc.inOp \/ fresh = {}
AfterOp(l, o, fresh) == _transformAgainstOp(l, o, o.c = A, fresh)

LEMMA TransformAgainstOpKeeps ==
    ASSUME NEW l, NEW ops, LocalIs(l, ops), NEW o \in Op, o \notin ops,
           NEW fresh, Untouched(fresh)
    PROVE  /\ LocalIs(AfterOp(l, o, fresh), ops \cup {o})
           /\ AfterOp(l, o, fresh).pv = l.pv
<1> DEFINE T(p) == Transform(p, o, o.c = A)
           q == [i \in DOMAIN l.queue |-> IF l.queue[i].pv \in fresh THEN l.queue[i]
                                          ELSE [pv |-> l.queue[i].pv, p |-> T(l.queue[i].p)]]
           m == AfterOp(l, o, fresh)
<1>1. \A p \in Values : T(p) \in Values
  <2>1. (o.c = A) \in BOOLEAN
    OBVIOUS
  <2> QED BY <2>1, TransformKeeps
<1>2. \A p \in Values : InStepAt(p, ops) => InStepAt(T(p), ops \cup {o})
  BY TransformReflects DEF InStepAt
<1>3. m = [l EXCEPT !.value = T(l.value), !.queue = q]
  BY DEF AfterOp, _transformAgainstOp
<1>4. l.queue \in Seq([pv : Nat, p : Values]) /\ l.value \in Values
      /\ Len(l.queue) \in Nat /\ DOMAIN l.queue = 1..Len(l.queue)
  BY LenProperties DEF LocalIs
<1> HIDE DEF T, m
<1>5. ASSUME NEW i \in 1..Len(l.queue)
      PROVE  /\ q[i] \in [pv : Nat, p : Values] /\ q[i].pv = l.queue[i].pv
             /\ InStepAt(q[i].p, ops \cup {o})
  <2>1. l.queue[i] \in [pv : Nat, p : Values] /\ InStepAt(l.queue[i].p, ops)
    BY <1>4, ElementOfSeq DEF LocalIs
  <2>2. CASE l.queue[i].pv \in fresh
    <3>1. q[i] = l.queue[i] /\ sc.inOp
      BY <2>2, <1>4 DEF Untouched
    <3> QED BY <2>1, <3>1 DEF InStepAt
  <2>3. CASE l.queue[i].pv \notin fresh
    <3>1. q[i] = [pv |-> l.queue[i].pv, p |-> T(l.queue[i].p)]
      BY <2>3, <1>4
    <3>2. l.queue[i].p \in Values /\ T(l.queue[i].p) \in Values /\ l.queue[i].pv \in Nat
      BY <2>1, <1>1
    <3>3. InStepAt(T(l.queue[i].p), ops \cup {o})
      BY <2>1, <3>2, <1>2
    <3> HIDE DEF q
    <3> QED BY <3>1, <3>2, <3>3
  <2> QED BY <2>2, <2>3
<1>6. DOMAIN q = 1..Len(l.queue)
  BY <1>4
<1> HIDE DEF q
<1>7. q \in Seq([pv : Nat, p : Values]) /\ Len(q) = Len(l.queue)
  <2>1. q \in [1..Len(l.queue) -> [pv : Nat, p : Values]]
    <3> DEFINE Item == [pv : Nat, p : Values]
    <3>1. q = [i \in DOMAIN q |-> q[i]]
      BY DEF q
    <3>2. \A i \in 1..Len(l.queue) : q[i] \in Item
      BY <1>5
    <3> HIDE DEF Item
    <3>3. q \in [1..Len(l.queue) -> Item]
      BY <1>6, <3>1, <3>2
    <3> QED BY <3>3 DEF Item
  <2>2. q \in Seq([pv : Nat, p : Values])
    <3> DEFINE Item == [pv : Nat, p : Values]
    <3> HIDE DEF Item
    <3>1. q \in [1..Len(l.queue) -> Item] => q \in Seq(Item)
      BY <1>4, SeqDef
    <3> QED BY <2>1, <3>1 DEF Item
  <2> QED BY <2>2, <1>4, <1>6, LenProperties
<1>8. /\ m \in [value : Values, pv : Nat, n : Nat, queue : Seq([pv : Nat, p : Values]),
                sending : BOOLEAN]
      /\ m.value = T(l.value) /\ m.pv = l.pv /\ m.queue = q
  <2>1. T(l.value) \in Values
    BY <1>1, <1>4
  <2> QED BY <2>1, <1>3, <1>7 DEF LocalIs
<1>9. \A i \in 1..Len(q) : q[i].pv < l.pv /\ InStepAt(q[i].p, ops \cup {o})
  BY <1>5, <1>7 DEF LocalIs
<1>10. InStepAt(m.value, ops \cup {o})
  BY <1>2, <1>4, <1>8 DEF LocalIs
<1>11. LocalIs(m, ops \cup {o})
  BY <1>8, <1>9, <1>10 DEF LocalIs
<1> QED BY <1>8, <1>11 DEF m
-------------------------------------------------------------------------------
(* The document.                                                             *)
LEMMA MadeIs ==
    ASSUME Document
    PROVE  /\ Made \in Nat /\ Len(log) \in Nat
           /\ IsFiniteSet(Unlogged) /\ Cardinality(Unlogged) \in Nat
           /\ Range(log) = {log[i] : i \in 1..Len(log)}
           /\ \A c \in Client : ver[c] \in Nat /\ ver[c] <= Len(log)
<1>1. IsFiniteSet(Client)
  <2>1. IsFiniteSet({A} \cup {B})
    BY FS_Singleton, FS_AddElement
  <2>2. {A} \cup {B} = Client
    BY DEF Client
  <2> QED BY <2>1, <2>2
<1>2. Unlogged \in SUBSET Client
  BY DEF Unlogged
<1>3. IsFiniteSet(Unlogged) /\ Cardinality(Unlogged) \in Nat
  BY <1>1, <1>2, FS_Subset, FS_CardinalityType
<1>4. Len(log) \in Nat /\ log \in Seq(Op)
  BY DEF Document
<1>5. Range(log) = {log[i] : i \in 1..Len(log)}
  BY <1>4, RangeEquality
<1>6. \A c \in Client : ver[c] \in Nat /\ ver[c] <= Len(log)
  BY <1>4 DEF Document
<1> QED BY <1>3, <1>4, <1>5, <1>6 DEF Made

LEMMA DocOpsAre ==
    ASSUME Document, NEW c \in Client
    PROVE  DocOps(c) \subseteq Op /\ \A o \in DocOps(c) : o.n \in Nat /\ o.n <= Made
<1>1. \A i \in 1..ver[c] : i \in 1..Len(log)
  BY MadeIs
<1>2. \A i \in 1..ver[c] : log[i] \in Op /\ log[i].n <= Made
  BY <1>1, ElementOfSeq DEF Document
<1>3. infl[c] # None => infl[c] \in Op /\ infl[c].n <= Made
  BY DEF Document
<1>4. \A o \in DocOps(c) : o \in Op /\ o.n <= Made
  BY <1>2, <1>3 DEF DocOps
<1> QED BY <1>4 DEF Op

LEMMA SubmitOpDocument ==
    ASSUME Document, NEW c \in Client, SubmitOp(c)
    PROVE  /\ Document' /\ LogGrows
           /\ infl'[c] \in Op /\ infl'[c] # None /\ infl'[c].c = c
           /\ infl'[c] \notin DocOps(c)
           /\ DocOps(c)' = DocOps(c) \cup {infl'[c]}
           /\ OpEvent(c, infl'[c], ver[c], DocOps(c) \cup {infl'[c]})
           /\ \A d \in Client : d # c => infl'[d] = infl[d]
<1> DEFINE o == [c |-> c, n |-> Made + 1]
<1>1. /\ infl[c] = None /\ infl' = [infl EXCEPT ![c] = o]
      /\ UNCHANGED <<log, ver, fetch>>
      /\ OpEvent(c, o, ver[c], DocOps(c) \cup {o})
  BY DEF SubmitOp, Made, Unlogged
<1>2. Made \in Nat /\ Len(log) \in Nat
  BY MadeIs
<1>3. o \in Op /\ o.c = c /\ o.n = Made + 1
  BY <1>2 DEF Op
<1>4. o # None
  BY <1>3, NoneAssumption
<1> HIDE DEF o
<1>5. infl'[c] = o /\ \A d \in Client : d # c => infl'[d] = infl[d]
  BY <1>1 DEF Document
<1>6. \A i \in 1..Len(log) : log[i] # o
  BY <1>2, <1>3 DEF Document
<1>7. o \notin Range(log)
  BY <1>6, MadeIs
<1>8. Unlogged' = Unlogged \cup {c} /\ c \notin Unlogged
  <2>1. c \notin Unlogged
    BY <1>1 DEF Unlogged
  <2>2. \A d \in Client : d \in Unlogged' <=> d \in Unlogged \/ d = c
    BY <1>1, <1>4, <1>5, <1>7 DEF Unlogged
  <2>3. Unlogged \subseteq Client /\ Unlogged' \subseteq Client
    BY DEF Unlogged
  <2> QED BY <2>1, <2>2, <2>3
<1>9. Made' = Made + 1
  <2>1. Cardinality(Unlogged \cup {c}) = Cardinality(Unlogged) + 1
    BY <1>8, MadeIs, FS_AddElement
  <2>2. Cardinality(Unlogged) \in Nat
    BY MadeIs
  <2> QED BY <2>1, <2>2, <1>1, <1>2, <1>8 DEF Made
<1>10. \A i \in 1..ver[c] : i \in 1..Len(log)
  BY MadeIs
<1>11. \A d \in Client : infl'[d] # None =>
          infl'[d].c = d /\ infl'[d].n <= Made' /\ \A i \in 1..ver[d] : log[i] # infl'[d]
  <2> SUFFICES ASSUME NEW d \in Client, infl'[d] # None
               PROVE  infl'[d].c = d /\ infl'[d].n <= Made' /\ \A i \in 1..ver[d] : log[i] # infl'[d]
    OBVIOUS
  <2>1. CASE d = c
    BY <2>1, <1>2, <1>3, <1>5, <1>6, <1>9, <1>10
  <2>2. CASE d # c
    <3>1. infl[d] # None /\ infl[d] \in Op /\ infl'[d] = infl[d]
      BY <2>2, <1>5 DEF Document
    <3>2. infl[d].c = d /\ infl[d].n <= Made /\ \A i \in 1..ver[d] : log[i] # infl[d]
      BY <3>1 DEF Document
    <3>3. infl[d].n \in Nat
      BY <3>1 DEF Op
    <3> QED BY <3>1, <3>2, <3>3, <1>2, <1>9
  <2> QED BY <2>1, <2>2
<1>12. \A i \in 1..Len(log) : log[i].n <= Made'
  <2> SUFFICES ASSUME NEW i \in 1..Len(log) PROVE log[i].n <= Made'
    OBVIOUS
  <2>1. log[i] \in Op /\ log[i].n <= Made
    BY ElementOfSeq DEF Document
  <2>2. log[i].n \in Nat
    BY <2>1 DEF Op
  <2> QED BY <2>1, <2>2, <1>2, <1>9
<1>13. infl' \in [Client -> {None} \cup Op]
  BY <1>1, <1>3 DEF Document
<1>14. Document'
  BY <1>1, <1>11, <1>12, <1>13 DEF Document
<1>15. o \notin DocOps(c)
  BY <1>2, <1>3, DocOpsAre
<1>16. DocOps(c)' = DocOps(c) \cup {o}
  BY <1>1, <1>4, <1>5 DEF DocOps
<1>17. LogGrows
  BY <1>1, <1>2 DEF LogGrows, Document
<1> QED BY <1>1, <1>3, <1>4, <1>5, <1>14, <1>15, <1>16, <1>17
LEMMA CommitDocument ==
    ASSUME Document, NEW c \in Client, Commit(c)
    PROVE  Document' /\ LogGrows
<1> DEFINE o == infl[c]
           n == Len(log) + 1
<1>1. /\ o # None /\ o \notin Range(log) /\ log' = Append(log, o)
      /\ UNCHANGED <<ver, infl, fetch>>
  BY DEF Commit
<1>2. o \in Op /\ o.c = c /\ o.n <= Made
  BY <1>1 DEF Document
<1>3. Made \in Nat /\ Len(log) \in Nat /\ log \in Seq(Op)
  BY MadeIs DEF Document
<1> HIDE DEF o
<1>4. /\ log' \in Seq(Op) /\ Len(log') = n
      /\ \A i \in 1..Len(log) : log'[i] = log[i]
      /\ log'[n] = o
  BY <1>1, <1>2, <1>3, AppendProperties
<1>5. \A i \in 1..n : i = n \/ i \in 1..Len(log)
  BY <1>3
<1>6. \A i \in 1..Len(log) : log[i] # o
  BY <1>1, MadeIs
<1>7. Range(log') = Range(log) \cup {o}
  <2>1. Range(log') = {log'[i] : i \in 1..n}
    BY <1>4, RangeEquality
  <2>2. Range(log) = {log[i] : i \in 1..Len(log)}
    BY MadeIs
  <2>3. n \in 1..n /\ \A i \in 1..Len(log) : i \in 1..n
    BY <1>3
  <2> HIDE DEF n
  <2> QED BY <2>1, <2>2, <2>3, <1>4, <1>5
<1>8. Unlogged' = Unlogged \ {c} /\ c \in Unlogged
  <2>1. c \in Unlogged
    BY <1>1 DEF Unlogged, o
  <2>2. \A d \in Client : d # c /\ infl[d] # None => infl[d] # o
    BY <1>2 DEF Document
  <2>3. \A d \in Client : d \in Unlogged' <=> d \in Unlogged /\ d # c
    BY <1>1, <1>7, <2>2 DEF Unlogged, o
  <2>4. Unlogged \subseteq Client /\ Unlogged' \subseteq Client
    BY DEF Unlogged
  <2> QED BY <2>1, <2>3, <2>4
<1>9. Made' = Made
  <2>1. Cardinality(Unlogged \ {c}) = Cardinality(Unlogged) - 1
    BY <1>8, MadeIs, FS_RemoveElement
  <2>2. Cardinality(Unlogged) \in Nat
    BY MadeIs
  <2> QED BY <2>1, <2>2, <1>3, <1>4, <1>8 DEF Made
<1>10. LogGrows
  BY <1>3, <1>4 DEF LogGrows
<1>11. \A i, j \in 1..n : log'[i] = log'[j] => i = j
  <2> HIDE DEF n
  <2> QED BY <1>4, <1>5, <1>6 DEF Document
<1>12. /\ ver' \in [Client -> 0..n]
       /\ fetch' \in {None, Asked} \cup 0..n
  BY <1>1, <1>3 DEF Document
<1>13. \A i \in 1..n : log'[i].n <= Made'
  <2> HIDE DEF n
  <2> QED BY <1>2, <1>4, <1>5, <1>9 DEF Document
<1>14. \A d \in Client : infl[d] # None =>
          infl[d].c = d /\ infl[d].n <= Made' /\ \A i \in 1..ver[d] : log'[i] # infl[d]
  <2> SUFFICES ASSUME NEW d \in Client, infl[d] # None
               PROVE  infl[d].c = d /\ infl[d].n <= Made' /\ \A i \in 1..ver[d] : log'[i] # infl[d]
    OBVIOUS
  <2>1. \A i \in 1..ver[d] : i \in 1..Len(log)
    BY MadeIs
  <2>2. infl[d].c = d /\ infl[d].n <= Made /\ \A i \in 1..ver[d] : log[i] # infl[d]
    BY DEF Document
  <2> QED BY <2>1, <2>2, <1>4, <1>9
<1>15. infl' \in [Client -> {None} \cup Op]
  BY <1>1 DEF Document
<1> HIDE DEF n
<1>16. Document'
  BY <1>1, <1>4, <1>11, <1>12, <1>13, <1>14, <1>15 DEF Document
<1> QED BY <1>10, <1>16

LEMMA NextOpDocument ==
    ASSUME Document, NEW c \in Client, NextOp(c)
    PROVE  /\ Document' /\ LogGrows
           /\ ver[c] < Len(log) /\ ver' = [ver EXCEPT ![c] = @ + 1]
           /\ log[ver[c] + 1] \in Op
           /\ \/ /\ log[ver[c] + 1] = infl[c] /\ infl'[c] = None
                 /\ infl[c] # None
                 /\ DocOps(c)' = DocOps(c)
                 /\ UNCHANGED <<loc, rem>>
              \/ /\ infl'[c] = infl[c]
                 /\ log[ver[c] + 1] \notin DocOps(c)
                 /\ DocOps(c)' = DocOps(c) \cup {log[ver[c] + 1]}
                 /\ OpEvent(c, log[ver[c] + 1], ver[c] + 1, DocOps(c) \cup {log[ver[c] + 1]})
           /\ \A d \in Client : d # c => infl'[d] = infl[d]
<1> DEFINE v == ver[c]
           o == log[v + 1]
<1>1. /\ v < Len(log) /\ ver' = [ver EXCEPT ![c] = v + 1]
      /\ UNCHANGED <<log, fetch>>
      /\ \/ o = infl[c] /\ infl' = [infl EXCEPT ![c] = None] /\ UNCHANGED <<loc, rem>>
         \/ o # infl[c] /\ UNCHANGED infl /\ OpEvent(c, o, v + 1, DocOps(c) \cup {o})
  BY DEF NextOp
<1>2. /\ v \in Nat /\ Len(log) \in Nat /\ log \in Seq(Op) /\ Made \in Nat
      /\ v + 1 \in 1..Len(log)
  BY <1>1, MadeIs DEF Document
<1>3. o \in Op
  BY <1>2, ElementOfSeq
<1>4. o # None
  BY <1>3, NoneAssumption
<1>5. \A i \in 1..v : i \in 1..Len(log) /\ i # v + 1
  BY <1>2
<1>6. \A i \in 1..v : log[i] # o
  BY <1>2, <1>5 DEF Document
<1>7. \A i : i \in 1..(v + 1) <=> i \in 1..v \/ i = v + 1
  BY <1>2
<1>8. ver'[c] = v + 1 /\ \A d \in Client : d # c => ver'[d] = ver[d]
  BY <1>1 DEF Document
<1>9. ver' \in [Client -> 0..Len(log)]
  BY <1>1, <1>2 DEF Document
<1>10. LogGrows
  BY <1>1, <1>2 DEF LogGrows
<1>11. o \in Range(log)
  BY <1>2, MadeIs
<1> HIDE DEF v, o
<1>12. {log[i] : i \in 1..(v + 1)} = {log[i] : i \in 1..v} \cup {o}
  BY <1>7 DEF o
<1>13. CASE o = infl[c] /\ infl' = [infl EXCEPT ![c] = None] /\ UNCHANGED <<loc, rem>>
  <2>1. infl'[c] = None /\ \A d \in Client : d # c => infl'[d] = infl[d]
    BY <1>13 DEF Document
  <2>2. Unlogged' = Unlogged
    <3>1. \A d \in Client : d \in Unlogged' <=> d \in Unlogged
      BY <1>1, <1>4, <1>11, <1>13, <2>1 DEF Unlogged
    <3> QED BY <3>1 DEF Unlogged
  <2>3. Made' = Made
    BY <2>2, <1>1 DEF Made
  <2>4. infl' \in [Client -> {None} \cup Op]
    BY <1>13 DEF Document
  <2>5. \A d \in Client : infl'[d] # None =>
          infl'[d].c = d /\ infl'[d].n <= Made' /\ \A i \in 1..ver'[d] : log[i] # infl'[d]
    BY <1>8, <2>1, <2>3 DEF Document
  <2>6. Document'
    BY <1>1, <1>9, <2>3, <2>4, <2>5 DEF Document
  <2>7. DocOps(c)' = DocOps(c)
    BY <1>1, <1>4, <1>8, <1>12, <1>13, <2>1 DEF DocOps, v
  <2> QED BY <1>1, <1>3, <1>4, <1>10, <1>13, <2>1, <2>6, <2>7 DEF v, o
<1>14. CASE o # infl[c] /\ UNCHANGED infl /\ OpEvent(c, o, v + 1, DocOps(c) \cup {o})
  <2>1. Made' = Made
    BY <1>1, <1>14 DEF Made, Unlogged
  <2>2. \A d \in Client : infl[d] # None =>
          infl[d].c = d /\ infl[d].n <= Made' /\ \A i \in 1..ver'[d] : log[i] # infl[d]
    <3> SUFFICES ASSUME NEW d \in Client, infl[d] # None
                 PROVE  infl[d].c = d /\ infl[d].n <= Made' /\ \A i \in 1..ver'[d] : log[i] # infl[d]
      OBVIOUS
    <3>1. infl[d].c = d /\ infl[d].n <= Made /\ \A i \in 1..ver[d] : log[i] # infl[d]
      BY DEF Document
    <3>2. CASE d # c
      BY <3>1, <3>2, <2>1, <1>8
    <3>3. CASE d = c
      BY <3>1, <3>3, <2>1, <1>7, <1>8, <1>14 DEF v, o
    <3> QED BY <3>2, <3>3
  <2>3. Document'
    BY <1>1, <1>9, <1>14, <2>1, <2>2 DEF Document
  <2>4. o \notin DocOps(c)
    BY <1>6, <1>14 DEF DocOps, v
  <2>5. DocOps(c)' = DocOps(c) \cup {o}
    BY <1>1, <1>8, <1>12, <1>14 DEF DocOps, v
  <2> QED BY <1>1, <1>3, <1>10, <1>14, <2>3, <2>4, <2>5 DEF v, o
<1> QED BY <1>1, <1>13, <1>14
-------------------------------------------------------------------------------
(* RemoteDocPresence.                                                        *)
LEMMA RemoteHandleOpIs ==
    ASSUME NEW pvs, NEW vs, rem \in Shape(pvs, vs), rem.on,
           NEW o \in Op, NEW version \in Int, NEW r, r = RemoteHandleOp(o, version)
    PROVE  /\ r \in Shape(pvs, vs) /\ r.on
           /\ r.value = Transform(rem.value, o, o.c = A)
           /\ r.pv = rem.pv /\ r.pend = rem.pend
           /\ rem.cache = None => r.cache = None
           /\ rem.cache # None => r.cache = {e \in rem.cache : e.v # version - 1}
                                 \cup {[v |-> version - 1, o |-> o, own |-> (o.c = A)]}
<1> DEFINE own == o.c = A
           x == Transform(rem.value, o, own)
           t == [rem EXCEPT !.value = x]
           e == [v |-> version - 1, o |-> o, own |-> own]
           y == {d \in rem.cache : d.v # version - 1} \cup {e}
           u == _cacheOp(t, o, own, version)
<1>1. own \in BOOLEAN /\ version - 1 \in Int
  OBVIOUS
<1>2. rem.value \in Values
  BY DEF Shape
<1>3. x \in Values
  BY <1>1, <1>2, TransformKeeps
<1>4. e \in Entry
  BY <1>1 DEF Entry
<1>5. r = [u EXCEPT !.setting = TRUE]
  BY DEF RemoteHandleOp
<1>6. u = IF t.cache = None THEN t ELSE [t EXCEPT !.cache = {d \in t.cache : d.v # version - 1} \cup {e}]
  BY DEF _cacheOp
<1> HIDE DEF own, e, u, x
<1>7. /\ t \in Shape(pvs, vs) /\ t.value = x /\ t.on /\ t.pv = rem.pv /\ t.pend = rem.pend
      /\ t.cache = rem.cache
  BY <1>3 DEF Shape
<1> HIDE DEF t
<1>8. CASE rem.cache = None
  <2>1. u = t
    BY <1>6, <1>7, <1>8
  <2>2. r \in Shape(pvs, vs) /\ r.on /\ r.value = x /\ r.pv = rem.pv /\ r.pend = rem.pend
        /\ r.cache = rem.cache
    BY <1>5, <1>7, <2>1 DEF Shape
  <2> QED BY <1>8, <2>2 DEF x, own
<1>9. CASE rem.cache # None
  <2>1. y \subseteq Entry
    BY <1>4, <1>9 DEF Shape
  <2>2. u = [t EXCEPT !.cache = y]
    BY <1>6, <1>7, <1>9
  <2> HIDE DEF y
  <2>3. u \in Shape(pvs, vs) /\ u.on /\ u.value = x /\ u.pv = rem.pv /\ u.pend = rem.pend
        /\ u.cache = y
    BY <1>7, <2>1, <2>2 DEF Shape
  <2>4. r \in Shape(pvs, vs) /\ r.on /\ r.value = x /\ r.pv = rem.pv /\ r.pend = rem.pend
        /\ r.cache = y
    BY <1>5, <2>3 DEF Shape
  <2> QED BY <1>9, <2>4 DEF x, y, e, own
<1> QED BY <1>8, <1>9

(* A remote presence after an op that its document has taken, if what was    *)
(* hidden from the walk stays so and the op is filed where it belongs, or    *)
(* where the walk does not see it.                                           *)
LEMMA RemoteAfterOp ==
    ASSUME Document, Remote, UNCHANGED <<log, loc, sc>>,
           NEW o \in Op, o \notin DocOps(B), DocOps(B)' = DocOps(B) \cup {o},
           NEW version \in Nat, ver'[B] = version, ver[B] \in Nat, ver[B] <= version,
           rem' = RemoteHandleOp(o, version),
           \A i \in Int : Blind(i) => Blind(i)',
           \/ Blind(version - 1)'
           \/ version - 1 \in 0..(Len(log) - 1) /\ o = log[version]
    PROVE  Remote'
<1> DEFINE pvs == 0..(loc.pv - 1)
           vs == 0..Len(log)
           f == [v |-> version - 1, o |-> o, own |-> (o.c = A)]
<1>1. rem \in Shape(pvs, vs)
  BY DEF Remote
<1>2. CASE ~rem.on
  <2>1. rem' = NewRem /\ rem = NewRem
    BY <1>2 DEF RemoteHandleOp, Remote
  <2>2. /\ NewRem.value = None /\ NewRem.pv = None /\ NewRem.pend = None
        /\ NewRem.cache = None
    BY DEF NewRem
  <2> QED BY <1>1, <2>1, <2>2 DEF Remote, InStepAt, Reflects
<1>3. CASE rem.on
  <2> HIDE DEF pvs, vs
  <2>1. /\ rem' \in Shape(pvs, vs) /\ rem'.on
        /\ rem'.value = Transform(rem.value, o, o.c = A)
        /\ rem'.pv = rem.pv /\ rem'.pend = rem.pend
        /\ rem.cache = None => rem'.cache = None
        /\ rem.cache # None => rem'.cache = {e \in rem.cache : e.v # version - 1} \cup {f}
    BY <1>1, <1>3, RemoteHandleOpIs
  <2>2. rem'.value # None => rem'.pv # None
    <3>1. rem.value = None => rem'.value = None
      BY <2>1 DEF Transform
    <3> QED BY <2>1, <3>1 DEF Remote
  <2>3. InStepAt(rem.value, DocOps(B))'
    <3>1. rem.value \in Values
      BY <1>1 DEF Shape
    <3>2. InStepAt(rem.value, DocOps(B))
      BY DEF Remote
    <3>3. sc.inOp \/ Reflects(Transform(rem.value, o, o.c = A), DocOps(B) \cup {o})
      BY <3>1, <3>2, TransformReflects DEF InStepAt
    <3> QED BY <2>1, <3>3 DEF InStepAt
  <2>4. (rem.pend # None /\ ~Blind(rem.pend.v) => InStepAt(rem.pend.p, OpsUpTo(rem.pend.v)))'
    <3> SUFFICES ASSUME rem.pend # None, (~Blind(rem.pend.v))'
                 PROVE  InStepAt(rem.pend.p, OpsUpTo(rem.pend.v))'
      BY <2>1
    <3>1. PICK w \in Int : w = rem.pend.v
      BY <1>1 DEF Shape, vs
    <3>2. Blind(w)' <=> Blind(rem.pend.v)'
      BY <2>1, <3>1
    <3>3. ~Blind(rem.pend.v)
      BY <3>1, <3>2
    <3>4. InStepAt(rem.pend.p, OpsUpTo(rem.pend.v))
      BY <3>3 DEF Remote
    <3> QED BY <2>1, <3>4 DEF InStepAt, OpsUpTo
  <2>5. ASSUME rem'.cache # None
        PROVE  IsFiniteSet(rem'.cache)
    <3>1. rem.cache # None /\ rem'.cache = {e \in rem.cache : e.v # version - 1} \cup {f}
      BY <2>1, <2>5
    <3>2. IsFiniteSet(rem.cache)
      BY <3>1 DEF Remote
    <3> DEFINE y == {e \in rem.cache : e.v # version - 1}
    <3>3. IsFiniteSet(y)
      BY <3>2, FS_Subset
    <3> HIDE DEF y, f
    <3>4. IsFiniteSet(y \cup {f})
      BY <3>3, FS_AddElement
    <3> QED BY <3>1, <3>4 DEF y
  <2>6. ASSUME rem'.cache # None, NEW e \in rem'.cache
        PROVE  e.v < version /\ (~Blind(e.v)' => Logged(e)')
    <3>1. rem.cache # None /\ (e = f \/ e \in rem.cache)
      BY <2>1, <2>6
    <3>2. CASE e = f
      <4>1. e.v = version - 1 /\ e.o = o /\ e.own = (o.c = A)
        BY <3>2
      <4>2. (version - 1) + 1 = version /\ version - 1 < version
        OBVIOUS
      <4>3. Blind(e.v)' <=> Blind(version - 1)'
        BY <4>1
      <4>4. version - 1 \in 0..(Len(log) - 1) /\ o = log[version] => Logged(e)'
        BY <4>1, <4>2 DEF Logged
      <4> QED BY <4>1, <4>2, <4>3, <4>4
    <3>3. CASE e \in rem.cache
      <4>1. e.v \in Int
        BY <1>1, <3>1, <3>3 DEF Shape, Entry
      <4>2. e.v < ver[B] /\ (~Blind(e.v) => Logged(e))
        BY <3>1, <3>3 DEF Remote
      <4>3. Logged(e) => Logged(e)'
        BY DEF Logged
      <4> QED BY <4>1, <4>2, <4>3
    <3> QED BY <3>1, <3>2, <3>3
  <2>7. rem' \in Shape(0..(loc'.pv - 1), 0..Len(log'))
    BY <2>1 DEF pvs, vs
  <2>8. (rem.cache # None => IsFiniteSet(rem.cache)
            /\ \A e \in rem.cache : e.v < ver[B] /\ (~Blind(e.v) => Logged(e)))'
    BY <2>5, <2>6
  <2>9. (~rem.on => rem = NewRem)'
    BY <2>1
  <2> QED BY <2>2, <2>3, <2>4, <2>7, <2>8, <2>9 DEF Remote
<1> QED BY <1>2, <1>3
LEMMA SubmitOpRemote ==
    ASSUME Document, Remote, SubmitOp(B)
    PROVE  Remote'
<1> DEFINE o == infl'[B]
           v == ver[B]
<1>1. /\ o \in Op /\ o # None /\ o \notin DocOps(B) /\ DocOps(B)' = DocOps(B) \cup {o}
      /\ OpEvent(B, o, v, DocOps(B) \cup {o})
  BY SubmitOpDocument DEF Client
<1>2. UNCHANGED <<log, ver, sc>> /\ infl[B] = None
  BY DEF SubmitOp
<1>3. rem' = RemoteHandleOp(o, v) /\ UNCHANGED loc
  BY <1>1 DEF OpEvent, A, B
<1>4. v \in Nat /\ ver'[B] = v
  BY <1>2, MadeIs DEF Client
<1>5. \A i \in Int : i <= v => Blind(i)'
  BY <1>1, <1>4 DEF Blind
<1>6. ASSUME NEW i \in Int, Blind(i) PROVE Blind(i)'
  <2>1. i <= v
    <3>1. PICK k \in i..(v - 1) : TRUE
      BY <1>2, <1>6 DEF Blind
    <3> QED BY <3>1, <1>4
  <2> QED BY <2>1, <1>5
<1>7. Blind(v - 1)'
  BY <1>4, <1>5
<1>8. v <= v
  BY <1>4
<1> HIDE DEF o, v
<1> QED BY <1>1, <1>2, <1>3, <1>4, <1>6, <1>7, <1>8, RemoteAfterOp DEF v

LEMMA NextOpRemote ==
    ASSUME Document, Remote, NextOp(B)
    PROVE  Remote'
<1> DEFINE v == ver[B]
           o == log[v + 1]
<1>1. /\ v \in Nat /\ v < Len(log) /\ o \in Op /\ Len(log) \in Nat
      /\ ver'[B] = v + 1 /\ UNCHANGED <<log, sc>> /\ v + 1 \in Nat
  BY NextOpDocument, MadeIs DEF Client, NextOp, Document
<1>2. CASE /\ o = infl[B] /\ infl'[B] = None /\ infl[B] # None
           /\ DocOps(B)' = DocOps(B) /\ UNCHANGED <<loc, rem>>
  <2>1. \A i \in Int : i <= v => Blind(i)'
    <3> SUFFICES ASSUME NEW i \in Int, i <= v PROVE Blind(i)'
      OBVIOUS
    <3>1. v \in i..((v + 1) - 1)
      BY <1>1
    <3>2. rem.cache = None \/ \A e \in rem.cache : e.v # v
      <4> SUFFICES ASSUME rem.cache # None, NEW e \in rem.cache PROVE e.v # v
        OBVIOUS
      <4>1. e.v < v /\ e.v \in Int
        BY DEF Remote, Shape, Entry
      <4> QED BY <4>1, <1>1
    <3> QED BY <3>1, <3>2, <1>1, <1>2 DEF Blind
  <2>2. (rem.pend # None /\ ~Blind(rem.pend.v) => InStepAt(rem.pend.p, OpsUpTo(rem.pend.v)))'
    <3> SUFFICES ASSUME rem.pend # None, (~Blind(rem.pend.v))'
                 PROVE  InStepAt(rem.pend.p, OpsUpTo(rem.pend.v))'
      BY <1>2
    <3>1. PICK w \in Nat : w = rem.pend.v
      BY DEF Remote, Shape
    <3>2. Blind(w)' <=> Blind(rem.pend.v)'
      BY <1>2, <3>1
    <3>3. w > v
      BY <2>1, <3>1, <3>2, <1>1
    <3>4. ~Blind(w)
      BY <3>1, <3>3, <1>1 DEF Blind
    <3>5. InStepAt(rem.pend.p, OpsUpTo(rem.pend.v))
      BY <3>1, <3>4 DEF Remote
    <3> QED BY <1>1, <1>2, <3>5 DEF InStepAt, OpsUpTo
  <2>3. ASSUME rem.cache # None, NEW e \in rem.cache
        PROVE  e.v < v + 1 /\ Blind(e.v)'
    <3>1. e.v < v /\ e.v \in Int
      BY <2>3 DEF Remote, Shape, Entry
    <3> QED BY <3>1, <2>1, <1>1
  <2>4. (rem.cache # None => IsFiniteSet(rem.cache)
            /\ \A e \in rem.cache : e.v < ver[B] /\ (~Blind(e.v) => Logged(e)))'
    <3>1. rem.cache # None => IsFiniteSet(rem.cache)
      BY DEF Remote
    <3> QED BY <3>1, <2>3, <1>1, <1>2
  <2>5. InStepAt(rem.value, DocOps(B))'
    BY <1>1, <1>2 DEF Remote, InStepAt
  <2>6. (~rem.on => rem = NewRem)' /\ (rem.value # None => rem.pv # None)'
    BY <1>2 DEF Remote
  <2>7. (rem \in Shape(0..(loc.pv - 1), 0..Len(log)))'
    BY <1>1, <1>2 DEF Remote
  <2> QED BY <2>2, <2>4, <2>5, <2>6, <2>7 DEF Remote
<1>3. CASE /\ infl'[B] = infl[B] /\ o \notin DocOps(B) /\ DocOps(B)' = DocOps(B) \cup {o}
           /\ OpEvent(B, o, v + 1, DocOps(B) \cup {o})
  <2>1. rem' = RemoteHandleOp(o, v + 1) /\ UNCHANGED loc
    BY <1>3 DEF OpEvent, A, B
  <2>2. ASSUME NEW i \in Int, Blind(i) PROVE Blind(i)'
    <3>1. CASE infl[B] # None /\ i <= v
      BY <3>1, <1>1, <1>3 DEF Blind
    <3>2. CASE \E k \in i..(v - 1) : rem.cache = None \/ \A e \in rem.cache : e.v # k
      <4>1. PICK k \in i..(v - 1) : rem.cache = None \/ \A e \in rem.cache : e.v # k
        BY <3>2
      <4>2. k \in i..((v + 1) - 1) /\ k # (v + 1) - 1 /\ k \in Int
        BY <1>1
      <4>3. CASE ~rem.on
        <5>1. rem' = rem
          BY <4>3, <2>1 DEF RemoteHandleOp
        <5> QED BY <4>1, <4>2, <5>1, <1>1 DEF Blind
      <4>4. CASE rem.on
        <5>1. rem \in Shape(0..(loc.pv - 1), 0..Len(log))
          BY DEF Remote
        <5>2. /\ rem.cache = None => rem'.cache = None
              /\ rem.cache # None => rem'.cache = {e \in rem.cache : e.v # (v + 1) - 1}
                                    \cup {[v |-> (v + 1) - 1, o |-> o, own |-> (o.c = A)]}
          <6> HIDE DEF v, o
          <6> QED BY <4>4, <5>1, <2>1, <1>1, RemoteHandleOpIs
        <5>3. rem'.cache = None \/ \A e \in rem'.cache : e.v # k
          <6> HIDE DEF v, o
          <6> QED BY <5>2, <4>1, <4>2
        <5> QED BY <4>2, <5>3, <1>1 DEF Blind
      <4> QED BY <4>3, <4>4
    <3> QED BY <2>2, <3>1, <3>2 DEF Blind
  <2>3. (v + 1) - 1 \in 0..(Len(log) - 1) /\ v <= v + 1
    BY <1>1
  <2> HIDE DEF v, o
  <2> QED BY <1>1, <1>3, <2>1, <2>2, <2>3, RemoteAfterOp DEF v, o
<1>4. \/ /\ o = infl[B] /\ infl'[B] = None /\ infl[B] # None
         /\ DocOps(B)' = DocOps(B) /\ UNCHANGED <<loc, rem>>
      \/ /\ infl'[B] = infl[B] /\ o \notin DocOps(B) /\ DocOps(B)' = DocOps(B) \cup {o}
         /\ OpEvent(B, o, v + 1, DocOps(B) \cup {o})
  BY NextOpDocument DEF Client
<1> QED BY <1>2, <1>3, <1>4
(* The cache cannot have an entry for each of more versions than it has      *)
(* entries.                                                                  *)
LEMMA CacheHasGap ==
    ASSUME NEW cache \in SUBSET Entry, IsFiniteSet(cache), NEW a \in Nat
    PROVE  \E v \in a..(a + Cardinality(cache)) : {e \in cache : e.v = v} = {}
<1> DEFINE n == Cardinality(cache)
           D == a..(a + n)
<1> SUFFICES ASSUME \A v \in D : {e \in cache : e.v = v} # {} PROVE FALSE
  OBVIOUS
<1>1. n \in Nat
  BY FS_CardinalityType
<1> HIDE DEF n
<1>2. IsFiniteSet(D) /\ Cardinality(D) = n + 1
  <2>1. a \in Int /\ a + n \in Int /\ ~(a > a + n) /\ (a + n) - a + 1 = n + 1
    BY <1>1
  <2> QED BY <2>1, FS_Interval
<1> DEFINE f == [v \in D |-> CHOOSE e \in cache : e.v = v]
<1>3. \A v \in D : f[v] \in cache /\ f[v].v = v
  <2> SUFFICES ASSUME NEW v \in D PROVE f[v] \in cache /\ f[v].v = v
    OBVIOUS
  <2>1. \E e \in cache : e.v = v
    OBVIOUS
  <2> QED BY <2>1
<1>4. f \in [D -> cache]
  BY <1>3
<1>5. n < n + 1
  BY <1>1
<1> HIDE DEF f, D
<1>6. \E x, y \in D : x # y /\ f[x] = f[y]
  BY <1>2, <1>4, <1>5, FS_PigeonHole DEF n
<1> QED BY <1>3, <1>6

(* The walk through the cache stops at the version of the document, with a   *)
(* value that reflects it, or at a version where it will always stop.        *)
LEMMA CaughtUpIs ==
    ASSUME Document, Remote, infl[B] = None, rem.pend # None, rem.cache # None,
           rem.pend.v < ver[B],
           NEW r, r.pend = rem.pend, r.cache = rem.cache,
           NEW caught, caught = CaughtUp(r)
    PROVE  /\ caught \in [pv : 0..(loc.pv - 1), p : Values, v : 0..Len(log)]
           /\ caught.pv = rem.pend.pv /\ caught.v <= ver[B]
           /\ caught.v < ver[B] => Blind(caught.v)
           /\ caught.v >= ver[B] => InStepAt(caught.p, OpsUpTo(ver[B]))
<1> DEFINE a == rem.pend.v
           n == Cardinality(rem.cache)
           at(v) == {e \in rem.cache : e.v = v}
           gaps == {v \in a..(a + n) : at(v) = {}}
           end == Min(gaps)
           e(v) == CHOOSE x \in at(v - 1) : TRUE
           op == [v \in a + 1 .. end |-> e(v).o]
           own == [v \in a + 1 .. end |-> e(v).own]
           Through(f) == f = [v \in a..end |-> IF v = a THEN rem.pend.p
                                               ELSE Transform(f[v - 1], e(v).o, e(v).own)]
           f == CHOOSE g : Through(g)
<1>1. /\ rem.pend \in [pv : 0..(loc.pv - 1), p : Values, v : 0..Len(log)]
      /\ rem.cache \in SUBSET Entry /\ IsFiniteSet(rem.cache)
      /\ \A x \in rem.cache : x.v < ver[B] /\ (~Blind(x.v) => Logged(x))
  BY DEF Remote, Shape
<1>2. a \in Nat /\ ver[B] \in Nat /\ Len(log) \in Nat /\ n \in Nat /\ ver[B] <= Len(log)
  BY <1>1, MadeIs, FS_CardinalityType DEF Client
<1>3. caught = [rem.pend EXCEPT !.v = end, !.p = f[end]]
  BY DEF CaughtUp
<1>4. gaps # {} /\ gaps \in SUBSET Nat
  <2>1. gaps # {}
    BY <1>1, <1>2, CacheHasGap
  <2> QED BY <2>1, <1>2
<1>5. end \in gaps /\ \A g \in gaps : end <= g
  <2> HIDE DEF gaps
  <2>1. \E m \in gaps : \A g \in gaps : m <= g
    BY <1>4, LeastNumber
  <2> QED BY <2>1 DEF Min
<1> HIDE DEF end
<1>6. end \in a..(a + n) /\ at(end) = {} /\ end \in Nat /\ a <= end
  BY <1>2, <1>5
<1>7. end <= ver[B]
  <2>1. at(ver[B]) = {}
    <3>1. \A x \in rem.cache : x.v # ver[B]
      <4> SUFFICES ASSUME NEW x \in rem.cache PROVE x.v # ver[B]
        OBVIOUS
      <4>1. x.v \in Int /\ x.v < ver[B]
        BY <1>1 DEF Entry
      <4> QED BY <4>1, <1>2
    <3> QED BY <3>1
  <2>2. CASE ver[B] <= a + n
    <3>1. ver[B] \in a..(a + n)
      BY <1>2, <2>2
    <3>2. ver[B] \in gaps
      BY <2>1, <3>1
    <3> HIDE DEF gaps
    <3> QED BY <3>2, <1>5
  <2>3. CASE ~(ver[B] <= a + n)
    BY <2>3, <1>2, <1>6
  <2> QED BY <2>2, <2>3
<1>8. \A v \in a..(end - 1) : at(v) # {}
  <2> SUFFICES ASSUME NEW v \in a..(end - 1), at(v) = {} PROVE FALSE
    OBVIOUS
  <2>1. v \in a..(a + n) /\ v < end /\ v \in Nat
    BY <1>2, <1>6
  <2>2. v \in gaps
    BY <2>1
  <2> HIDE DEF gaps
  <2>3. end <= v
    BY <2>2, <1>5
  <2> QED BY <2>1, <2>3, <1>6
<1>9. \A v \in a + 1 .. end : e(v) \in rem.cache /\ e(v).v = v - 1
  <2> SUFFICES ASSUME NEW v \in a + 1 .. end PROVE e(v) \in rem.cache /\ e(v).v = v - 1
    OBVIOUS
  <2>1. v - 1 \in a..(end - 1)
    BY <1>2, <1>6
  <2>2. at(v - 1) # {}
    BY <2>1, <1>8
  <2>3. e(v) \in at(v - 1)
    BY <2>2
  <2> QED BY <2>3
<1> HIDE DEF e
<1>10. Steppable(a, end, op, own)
  <2>1. \A v \in a + 1 .. end : e(v) \in Entry
    BY <1>1, <1>9
  <2> QED BY <2>1 DEF Steppable, Entry
<1>11. \A v \in a..end : v # a => v \in a + 1 .. end
  BY <1>2, <1>6
<1>12. \A v \in a + 1 .. end : op[v] = e(v).o /\ own[v] = e(v).own
  OBVIOUS
<1>13. \A g : Walk(g, a, end, rem.pend.p, op, own) <=> Through(g)
  <2>1. \A v \in a..end : v # a => op[v] = e(v).o /\ own[v] = e(v).own
    BY <1>11, <1>12
  <2> HIDE DEF a, op, own
  <2> QED BY <2>1 DEF Walk
<1>14. rem.pend.p \in Values
  BY <1>1
<1>15. Walk(f, a, end, rem.pend.p, op, own)
  <2> HIDE DEF a, op, own, Through
  <2>1. \E g : Walk(g, a, end, rem.pend.p, op, own)
    BY <1>2, <1>6, <1>10, <1>14, WalkExists
  <2>2. Through(f)
    BY <2>1, <1>13
  <2> QED BY <2>2, <1>13
<1> HIDE DEF f, op, own, Through
<1>16. f[end] \in Values
  <2> HIDE DEF a
  <2> QED BY <1>2, <1>6, <1>10, <1>14, <1>15, WalkKeeps
<1>17. /\ caught \in [pv : 0..(loc.pv - 1), p : Values, v : 0..Len(log)]
       /\ caught.pv = rem.pend.pv /\ caught.v = end /\ caught.p = f[end]
  <2>1. end \in 0..Len(log)
    BY <1>2, <1>6, <1>7
  <2> QED BY <2>1, <1>1, <1>3, <1>16
<1>18. ASSUME end < ver[B] PROVE Blind(end)
  <2>1. end \in end..(ver[B] - 1) /\ \A x \in rem.cache : x.v # end
    BY <1>2, <1>6, <1>18
  <2> QED BY <2>1 DEF Blind
<1>19. ASSUME end = ver[B], ~sc.inOp PROVE Reflects(f[end], FirstOps(log, end))
  <2>1. \A i \in Nat : a <= i => ~Blind(i)
    <3> SUFFICES ASSUME NEW i \in Nat, a <= i, Blind(i) PROVE FALSE
      OBVIOUS
    <3>1. PICK k \in i..(ver[B] - 1) : \A x \in rem.cache : x.v # k
      BY DEF Blind
    <3>2. k \in a..(end - 1) /\ at(k) = {}
      BY <3>1, <1>2, <1>19
    <3> QED BY <3>2, <1>8
  <2>2. ASSUME NEW v \in a + 1 .. end
        PROVE  op[v] = log[v] /\ own[v] = (log[v].c = A) /\ v \in 1..Len(log)
    <3>1. e(v) \in rem.cache /\ e(v).v = v - 1 /\ v - 1 \in Nat /\ a <= v - 1
      BY <1>2, <1>6, <1>9
    <3>2. ~Blind(e(v).v)
      BY <3>1, <2>1
    <3>3. Logged(e(v))
      BY <3>1, <3>2, <1>1
    <3>4. e(v).o = log[v] /\ e(v).own = (log[v].c = A)
      <4>1. (v - 1) + 1 = v
        BY <1>2, <1>6
      <4> QED BY <3>1, <3>3, <4>1 DEF Logged
    <3>5. v \in 1..Len(log)
      BY <1>2, <1>6, <1>7
    <3> QED BY <3>4, <3>5, <1>12
  <2>3. Reflects(rem.pend.p, FirstOps(log, a))
    <3>1. ~Blind(rem.pend.v)
      BY <2>1, <1>2
    <3> QED BY <3>1, <1>19 DEF Remote, InStepAt, OpsUpTo, FirstOps
  <2>4. Faithful(a, end, log, own)
    <3>1. \A v \in a + 1 .. end : \A i \in 1..(v - 1) : log[i] # log[v]
      <4> SUFFICES ASSUME NEW v \in a + 1 .. end, NEW i \in 1..(v - 1) PROVE log[i] # log[v]
        OBVIOUS
      <4>1. v \in 1..Len(log) /\ i \in 1..Len(log) /\ i # v
        BY <2>2, <1>2, <1>6
      <4> QED BY <4>1 DEF Document
    <3> QED BY <3>1, <2>2 DEF Faithful
  <2>5. Steppable(a, end, log, own)
    BY <1>10, <2>2 DEF Steppable
  <2>6. Walk(f, a, end, rem.pend.p, log, own)
    <3>1. \A v \in a..end : v # a => op[v] = log[v]
      BY <1>11, <2>2
    <3> HIDE DEF a
    <3> QED BY <3>1, <1>15 DEF Walk
  <2> HIDE DEF a
  <2> QED BY <1>2, <1>6, <1>14, <2>3, <2>4, <2>5, <2>6, WalkReflects
<1>20. caught.v >= ver[B] => InStepAt(caught.p, OpsUpTo(ver[B]))
  <2> SUFFICES ASSUME caught.v >= ver[B], ~sc.inOp PROVE Reflects(caught.p, OpsUpTo(ver[B]))
    BY DEF InStepAt
  <2>1. end = ver[B]
    BY <1>2, <1>6, <1>7, <1>17
  <2> QED BY <2>1, <1>17, <1>19 DEF OpsUpTo, FirstOps
<1> QED BY <1>7, <1>17, <1>18, <1>20
LEMMA RemoteRemoved ==
    ASSUME rem' = NewRem
    PROVE  Remote'
<1>1. /\ ~NewRem.on /\ NewRem.value = None /\ NewRem.pv = None /\ NewRem.pend = None
      /\ NewRem.cache = None
  BY DEF NewRem
<1>2. \A pvs, vs : NewRem \in Shape(pvs, vs)
  BY DEF NewRem, Shape, Values
<1> QED BY <1>1, <1>2 DEF Remote, InStepAt, Reflects

LEMMA RemoteChanged ==
    ASSUME Remote, UNCHANGED <<log, ver, infl, loc, sc>>,
           rem' \in Shape(0..(loc.pv - 1), 0..Len(log)), rem'.on,
           rem'.value # None => rem'.pv # None,
           InStepAt(rem'.value, DocOps(B)),
           rem'.cache \in {None, {}, rem.cache},
           \/ rem'.pend = None
           \/ Blind(rem.pend.v)'
           \/ InStepAt(rem'.pend.p, OpsUpTo(rem'.pend.v))
    PROVE  Remote'
<1>1. (rem.pend # None /\ ~Blind(rem.pend.v) => InStepAt(rem.pend.p, OpsUpTo(rem.pend.v)))'
  BY DEF InStepAt, OpsUpTo
<1>2. InStepAt(rem.value, DocOps(B))'
  BY DEF InStepAt, DocOps
<1>3. ASSUME rem'.cache # None
      PROVE  IsFiniteSet(rem'.cache)
  BY <1>3, FS_EmptySet DEF Remote
<1>4. ASSUME rem'.cache # None, NEW e \in rem'.cache
      PROVE  e.v < ver[B] /\ (~Blind(e.v)' => Logged(e)')
  <2>1. rem'.cache = rem.cache /\ rem.cache # None /\ e \in rem.cache
    BY <1>4
  <2>2. e.v < ver[B] /\ (~Blind(e.v) => Logged(e))
    BY <2>1 DEF Remote
  <2>3. Blind(e.v) => Blind(e.v)'
    BY <2>1 DEF Blind
  <2>4. Logged(e) => Logged(e)'
    BY DEF Logged
  <2> QED BY <2>2, <2>3, <2>4
<1>5. (rem.cache # None => IsFiniteSet(rem.cache)
          /\ \A e \in rem.cache : e.v < ver[B] /\ (~Blind(e.v) => Logged(e)))'
  BY <1>3, <1>4
<1>6. (rem \in Shape(0..(loc.pv - 1), 0..Len(log)))'
  OBVIOUS
<1> QED BY <1>1, <1>2, <1>5, <1>6 DEF Remote

(* What is shown is a null presence, which is removed, or one that reflects  *)
(* the document.                                                             *)
LEMMA ShownRemote ==
    ASSUME Remote, UNCHANGED <<log, ver, infl, loc, sc>>,
           NEW r \in Shape(0..(loc.pv - 1), 0..Len(log)), r.on,
           r.pend \in [pv : 0..(loc.pv - 1), p : Values, v : 0..Len(log)],
           r.cache \in {None, rem.cache},
           InStepAt(r.pend.p, DocOps(B)),
           rem' = Shown(r)
    PROVE  Remote' /\ rem'.pv \in {None, r.pend.pv}
<1>1. CASE r.pend.p = None
  <2>1. rem' = NewRem /\ NewRem.pv = None
    BY <1>1 DEF Shown, NewRem
  <2> QED BY <2>1, RemoteRemoved
<1>2. CASE r.pend.p # None
  <2>1. rem' = [r EXCEPT !.value = r.pend.p, !.pv = r.pend.pv, !.pend = None]
    BY <1>2 DEF Shown
  <2>2. r.pend.p \in Values /\ r.pend.pv \in 0..(loc.pv - 1)
    BY DEF Shape
  <2> DEFINE x == r.pend.p
             y == r.pend.pv
  <2> HIDE DEF x, y
  <2>3. /\ rem' \in Shape(0..(loc.pv - 1), 0..Len(log))
        /\ rem'.on /\ rem'.value = x /\ rem'.pv = y /\ rem'.pend = None /\ rem'.cache = r.cache
    BY <2>1, <2>2 DEF Shape, x, y
  <2>4. rem'.pv # None
    <3>1. y \in Nat
      BY <2>2 DEF y
    <3> QED BY <2>3, <3>1, NoneAssumption
  <2>5. Remote'
    BY <2>3, <2>4, RemoteChanged DEF x
  <2> QED BY <2>3, <2>5 DEF y
<1> QED BY <1>1, <1>2

LEMMA SetPendingRemote ==
    ASSUME Document, Remote, _setPendingPresence
    PROVE  /\ Remote' /\ UNCHANGED <<sc, log, ver, infl, loc>>
           /\ rem.pv # None /\ rem'.pv # None => rem'.pv >= rem.pv
<1> DEFINE S == Shape(0..(loc.pv - 1), 0..Len(log))
           r == [rem EXCEPT !.setting = FALSE]
           caught == CaughtUp(r)
<1>1. UNCHANGED <<sc, log, ver, infl, loc>> /\ infl[B] = None
  BY DEF _setPendingPresence, hasPending
<1>2. /\ rem \in S /\ (~rem.on => rem = NewRem) /\ (rem.value # None => rem.pv # None)
      /\ InStepAt(rem.value, DocOps(B))
      /\ rem.pend # None => Blind(rem.pend.v) \/ InStepAt(rem.pend.p, OpsUpTo(rem.pend.v))
  BY DEF Remote
<1>3. /\ r \in S /\ r.on = rem.on /\ r.value = rem.value /\ r.pv = rem.pv /\ r.pend = rem.pend
      /\ r.cache = rem.cache
  BY <1>2 DEF Shape
<1>4. rem.setting => rem.on
  BY <1>2 DEF NewRem
<1>5. rem.setting
  BY DEF _setPendingPresence
<1>6. /\ rem.pv # None => rem.pv \in Nat
      /\ rem.pend # None => rem.pend.pv \in Nat /\ rem.pend.v \in Nat
      /\ ver[B] \in Nat
  BY <1>2, MadeIs DEF Shape, Client
<1>7. DocOps(B) = OpsUpTo(ver[B])
  BY <1>1 DEF DocOps, OpsUpTo
<1>8. ~Blind(ver[B])
  BY <1>1, <1>6 DEF Blind
<1>9. CASE rem' = r
  <2>1. rem.pend # None /\ Blind(rem.pend.v) => Blind(rem.pend.v)'
    BY <1>1, <1>3, <1>9 DEF Blind
  <2>2. Remote'
    BY <1>1, <1>2, <1>3, <1>4, <1>5, <1>9, <2>1, RemoteChanged
  <2>3. rem.pv # None => rem.pv >= rem.pv
    BY <1>6
  <2> QED BY <1>1, <1>3, <1>9, <2>2, <2>3
<1>10. CASE rem' = [r EXCEPT !.pend = None]
  <2>1. /\ rem' \in S /\ rem'.on /\ rem'.value = rem.value /\ rem'.pv = rem.pv /\ rem'.pend = None
        /\ rem'.cache = rem.cache
    <3> HIDE DEF r
    <3> QED BY <1>3, <1>4, <1>5, <1>10 DEF Shape
  <2>2. Remote'
    BY <1>1, <1>2, <2>1, RemoteChanged
  <2>3. rem.pv # None => rem.pv >= rem.pv
    BY <1>6
  <2> QED BY <1>1, <2>1, <2>2, <2>3
<1>11. CASE r.pend # None /\ ~Outdated(r) /\ r.pend.v = ver[B] /\ rem' = Shown(r)
  <2>1. /\ InStepAt(r.pend.p, DocOps(B))
        /\ r.pend \in [pv : 0..(loc.pv - 1), p : Values, v : 0..Len(log)]
    <3>1. r.pend \in [pv : 0..(loc.pv - 1), p : Values, v : 0..Len(log)]
      BY <1>2, <1>3, <1>11 DEF Shape
    <3> HIDE DEF r
    <3> QED BY <3>1, <1>2, <1>3, <1>7, <1>8, <1>11
  <2>2. Remote' /\ rem'.pv \in {None, r.pend.pv}
    <3> HIDE DEF r
    <3> QED BY <1>1, <1>3, <1>4, <1>5, <1>11, <2>1, ShownRemote
  <2>3. rem.pv # None => r.pend.pv >= rem.pv
    BY <1>3, <1>6, <1>11 DEF Outdated
  <2> QED BY <1>1, <2>2, <2>3
<1>12. CASE /\ r.pend # None /\ r.pend.v < ver[B] /\ r.cache = None
            /\ rem' = [r EXCEPT !.cache = {}]
  <2>1. /\ rem' \in S /\ rem'.on /\ rem'.value = rem.value /\ rem'.pv = rem.pv
        /\ rem'.pend = rem.pend /\ rem'.cache = {}
    <3> HIDE DEF r
    <3> QED BY <1>3, <1>4, <1>5, <1>12 DEF Shape
  <2>2. Blind(rem.pend.v)'
    <3>1. rem.pend.v \in rem.pend.v..(ver[B] - 1)
      BY <1>3, <1>6, <1>12
    <3> QED BY <3>1, <1>1, <2>1 DEF Blind
  <2>3. Remote'
    BY <1>1, <1>2, <2>1, <2>2, RemoteChanged
  <2>4. rem.pv # None => rem.pv >= rem.pv
    BY <1>6
  <2> QED BY <1>1, <2>1, <2>3, <2>4
<1>13. CASE /\ r.pend # None /\ ~Outdated(r) /\ r.pend.v < ver[B] /\ r.cache # None
            /\ rem' = IF caught.v >= ver[B] THEN Shown([r EXCEPT !.pend = caught, !.cache = None])
                      ELSE [r EXCEPT !.pend = caught]
  <2>1. /\ caught \in [pv : 0..(loc.pv - 1), p : Values, v : 0..Len(log)]
        /\ caught.pv = rem.pend.pv /\ caught.v <= ver[B]
        /\ caught.v < ver[B] => Blind(caught.v)
        /\ caught.v >= ver[B] => InStepAt(caught.p, OpsUpTo(ver[B]))
    <3> HIDE DEF r
    <3> QED BY <1>1, <1>3, <1>13, CaughtUpIs
  <2>2. rem.pv # None => caught.pv >= rem.pv
    BY <1>3, <1>6, <1>13, <2>1 DEF Outdated
  <2>3. CASE caught.v >= ver[B]
    <3> DEFINE t == [r EXCEPT !.pend = caught, !.cache = None]
    <3>1. rem' = Shown(t)
      BY <1>13, <2>3
    <3> HIDE DEF r, caught
    <3>2. t \in S /\ t.on /\ t.pend = caught /\ t.cache = None
      BY <1>3, <1>4, <1>5, <2>1 DEF Shape
    <3> HIDE DEF t
    <3>4. Remote' /\ rem'.pv \in {None, caught.pv}
      BY <1>1, <1>7, <2>1, <2>3, <3>1, <3>2, ShownRemote
    <3> QED BY <1>1, <2>2, <3>4
  <2>4. CASE ~(caught.v >= ver[B])
    <3>1. rem' = [r EXCEPT !.pend = caught]
      BY <1>13, <2>4
    <3> HIDE DEF r, caught
    <3>2. /\ rem' \in S /\ rem'.on /\ rem'.value = rem.value /\ rem'.pv = rem.pv
          /\ rem'.pend = caught /\ rem'.cache = rem.cache
      BY <1>3, <1>4, <1>5, <2>1, <3>1 DEF Shape
    <3>3. Blind(rem.pend.v)'
      <4>1. Blind(caught.v)
        BY <1>6, <2>1, <2>4
      <4> QED BY <4>1, <1>1, <3>2 DEF Blind
    <3>4. Remote'
      BY <1>1, <1>2, <3>2, <3>3, RemoteChanged
    <3>5. rem.pv # None => rem.pv >= rem.pv
      BY <1>6
    <3> QED BY <1>1, <3>2, <3>4, <3>5
  <2> QED BY <2>3, <2>4
<1>14. \/ rem' = r
       \/ rem' = [r EXCEPT !.pend = None]
       \/ r.pend # None /\ ~Outdated(r) /\ r.pend.v = ver[B] /\ rem' = Shown(r)
       \/ /\ r.pend # None /\ r.pend.v < ver[B] /\ r.cache = None
          /\ rem' = [r EXCEPT !.cache = {}]
       \/ /\ r.pend # None /\ ~Outdated(r) /\ r.pend.v < ver[B] /\ r.cache # None
          /\ rem' = IF caught.v >= ver[B] THEN Shown([r EXCEPT !.pend = caught, !.cache = None])
                    ELSE [r EXCEPT !.pend = caught]
  <2>1. r.pend # None => r.pend.v > ver[B] \/ r.pend.v = ver[B] \/ r.pend.v < ver[B]
    BY <1>3, <1>6
  <2> QED BY <2>1 DEF _setPendingPresence
<1> QED BY <1>9, <1>10, <1>11, <1>12, <1>13, <1>14
-------------------------------------------------------------------------------
(* The steps of the application and of the document.                         *)
LEMMA LocalBecomes ==
    ASSUME sc'.inOp = sc.inOp, NEW ops, DocOps(A)' = ops,
           NEW l, loc' = l, LocalIs(l, ops)
    PROVE  Local'
BY DEF Local, LocalIs, InStepAt

LEMMA OpAtAKeeps ==
    ASSUME Document, Local, UNCHANGED sc, NEW o \in Op, o \notin DocOps(A),
           DocOps(A)' = DocOps(A) \cup {o}, OpAtA(o, DocOps(A) \cup {o})
    PROVE  Local' /\ loc.pv \in Nat /\ loc'.pv \in Nat /\ loc.pv <= loc'.pv
<1> DEFINE ops == DocOps(A)
           p == [n |-> loc.n + 1, refl |-> {<<x, x.c = A>> : x \in ops \cup {o}}]
<1>1. LocalIs(loc, ops) /\ loc.pv \in Nat /\ loc.n \in Nat
  BY DEF Local, LocalIs
<1>2. CASE loc' = _transformAgainstOp(loc, o, o.c = A, {})
  <2> DEFINE l == loc
             fresh == {}
  <2>1. LocalIs(l, ops)
    BY <1>1
  <2>2. o \notin ops /\ Untouched(fresh)
    BY DEF Untouched
  <2>3. loc' = AfterOp(l, o, fresh) /\ DocOps(A)' = ops \cup {o}
    BY <1>2 DEF AfterOp
  <2> HIDE DEF ops, p, l, fresh
  <2>4. /\ LocalIs(AfterOp(l, o, fresh), ops \cup {o})
        /\ AfterOp(l, o, fresh).pv = l.pv
    BY <2>1, <2>2, TransformAgainstOpKeeps
  <2>5. loc'.pv = loc.pv
    BY <2>3, <2>4 DEF l
  <2>6. Local'
    BY <2>3, <2>4, LocalBecomes
  <2> QED BY <1>1, <2>5, <2>6
<1>3. CASE sc.inOp /\ loc' = _transformAgainstOp(LocalSubmit(loc, p), o, o.c = A, {loc.pv})
  <2>1. p \in Values
    <3>1. \A x \in ops \cup {o} : x \in Op /\ (x.c = A) \in BOOLEAN
      BY DocOpsAre DEF Client
    <3>2. {<<x, x.c = A>> : x \in ops \cup {o}} \subseteq Marks
      <4> SUFFICES ASSUME NEW x \in ops \cup {o} PROVE <<x, x.c = A>> \in Marks
        OBVIOUS
      <4> HIDE DEF ops
      <4>1. x \in Op /\ (x.c = A) \in BOOLEAN
        BY <3>1
      <4> QED BY <4>1 DEF Marks
    <3>3. loc.n + 1 \in Nat
      BY <1>1
    <3> QED BY <3>2, <3>3 DEF Values
  <2>2. InStepAt(p, ops)
    BY <1>3 DEF InStepAt
  <2> HIDE DEF p, ops
  <2> DEFINE l == LocalSubmit(loc, p)
  <2>3. LocalIs(l, ops) /\ l.pv = loc.pv + 1
    BY <1>1, <2>1, <2>2, LocalSubmitKeeps
  <2> HIDE DEF l
  <2> DEFINE fresh == {loc.pv}
  <2> HIDE DEF fresh
  <2>4. /\ LocalIs(AfterOp(l, o, fresh), ops \cup {o})
        /\ AfterOp(l, o, fresh).pv = l.pv
    <3>1. o \notin ops /\ Untouched(fresh)
      BY <1>3 DEF ops, Untouched
    <3> QED BY <2>3, <3>1, TransformAgainstOpKeeps
  <2>5. loc' = AfterOp(l, o, fresh)
    BY <1>3 DEF l, fresh, AfterOp
  <2>6. loc'.pv = loc.pv + 1
    BY <2>3, <2>4, <2>5
  <2>7. Local'
    BY <2>4, <2>5, LocalBecomes DEF ops
  <2> QED BY <1>1, <2>6, <2>7
<1> QED BY <1>2, <1>3 DEF OpAtA

LEMMA SubmitOpKeeps ==
    ASSUME PInv, NEW c \in Client, SubmitOp(c)
    PROVE  PInv'
<1>1. /\ UNCHANGED <<sc, log, ver, fetch, sub, calls, up, down, cur, live, agents, jobs>>
  BY DEF SubmitOp, wires
<1>2. /\ Document' /\ LogGrows
      /\ infl'[c] \in Op /\ infl'[c] \notin DocOps(c)
      /\ DocOps(c)' = DocOps(c) \cup {infl'[c]}
      /\ OpEvent(c, infl'[c], ver[c], DocOps(c) \cup {infl'[c]})
      /\ \A d \in Client : d # c => infl'[d] = infl[d]
  BY SubmitOpDocument DEF PInv
<1>3. Local' /\ Grows
  <2>1. CASE c = A
    <3> DEFINE o == infl'[c]
    <3>1. OpAtA(o, DocOps(A) \cup {o})
      BY <1>2, <2>1 DEF OpEvent
    <3> HIDE DEF o
    <3>2. o \in Op /\ o \notin DocOps(A) /\ DocOps(A)' = DocOps(A) \cup {o}
      BY <1>2, <2>1 DEF o
    <3>3. Local' /\ loc.pv \in Nat /\ loc'.pv \in Nat /\ loc.pv <= loc'.pv
      BY <1>1, <3>1, <3>2, OpAtAKeeps DEF PInv
    <3> QED BY <1>1, <1>2, <3>3 DEF Grows
  <2>2. CASE c = B
    <3>1. loc' = loc /\ loc.pv \in Nat /\ loc.pv <= loc.pv
      BY <1>2, <2>2 DEF OpEvent, A, B, PInv, Local, LocalIs
    <3>2. Grows
      BY <1>1, <1>2, <3>1 DEF Grows
    <3>3. infl'[A] = infl[A] /\ ver'[A] = ver[A]
      BY <1>1, <1>2, <2>2 DEF Client, A, B
    <3> QED BY <3>1, <3>2, <3>3, LocalKept DEF PInv
  <2> QED BY <2>1, <2>2 DEF Client
<1>4. Remote'
  <2>1. CASE c = A
    <3>1. rem' = rem /\ infl'[B] = infl[B] /\ ver'[B] = ver[B]
      BY <1>1, <1>2, <2>1 DEF OpEvent, Client, A, B
    <3> QED BY <3>1, <1>3, RemoteKept DEF PInv
  <2>2. CASE c = B
    BY <2>2, SubmitOpRemote DEF PInv
  <2> QED BY <2>1, <2>2 DEF Client
<1>5. Wires' /\ Subs' /\ SeqsGrow
  BY <1>1, WiresKept, SubsKept DEF PInv
<1>6. Traffic' /\ Agents'
  BY <1>1, <1>3, <1>5, TrafficKept, AgentsKept DEF PInv
<1> QED BY <1>2, <1>3, <1>4, <1>5, <1>6 DEF PInv

LEMMA NextOpKeeps ==
    ASSUME PInv, NEW c \in Client, NextOp(c)
    PROVE  PInv'
<1> DEFINE o == log[ver[c] + 1]
<1>1. UNCHANGED <<sc, log, fetch, sub, calls, up, down, cur, live, agents, jobs>>
  BY DEF NextOp, wires
<1>2. /\ Document' /\ LogGrows /\ o \in Op
      /\ \/ DocOps(c)' = DocOps(c) /\ UNCHANGED <<loc, rem>>
         \/ /\ o \notin DocOps(c) /\ DocOps(c)' = DocOps(c) \cup {o}
            /\ OpEvent(c, o, ver[c] + 1, DocOps(c) \cup {o})
      /\ \A d \in Client : d # c => infl'[d] = infl[d] /\ ver'[d] = ver[d]
  <2>1. ver \in [Client -> 0..Len(log)]
    BY DEF PInv, Document
  <2> QED BY <2>1, NextOpDocument DEF PInv
<1> HIDE DEF o
<1>3. loc.pv \in Nat
  BY DEF PInv, Local, LocalIs
<1>4. Local' /\ Grows
  <2>1. CASE c = A
    <3>1. CASE DocOps(c)' = DocOps(c) /\ UNCHANGED <<loc, rem>>
      <4>1. Grows
        BY <1>1, <1>2, <1>3, <3>1 DEF Grows
      <4>2. Local'
        BY <1>1, <2>1, <3>1, LocalBecomes DEF PInv, Local
      <4> QED BY <4>1, <4>2
    <3>2. CASE /\ o \notin DocOps(c) /\ DocOps(c)' = DocOps(c) \cup {o}
               /\ OpEvent(c, o, ver[c] + 1, DocOps(c) \cup {o})
      <4>1. OpAtA(o, DocOps(A) \cup {o})
        BY <2>1, <3>2 DEF OpEvent
      <4>2. o \in Op /\ o \notin DocOps(A) /\ DocOps(A)' = DocOps(A) \cup {o}
        BY <1>2, <2>1, <3>2
      <4>3. Local' /\ loc.pv \in Nat /\ loc'.pv \in Nat /\ loc.pv <= loc'.pv
        BY <1>1, <4>1, <4>2, OpAtAKeeps DEF PInv
      <4> QED BY <1>1, <1>2, <4>3 DEF Grows
    <3> QED BY <1>2, <3>1, <3>2
  <2>2. CASE c = B
    <3>1. loc' = loc /\ loc.pv <= loc.pv
      BY <1>2, <1>3, <2>2 DEF OpEvent, A, B
    <3>2. Grows
      BY <1>1, <1>2, <1>3, <3>1 DEF Grows
    <3>3. infl'[A] = infl[A] /\ ver'[A] = ver[A]
      BY <1>2, <2>2 DEF Client, A, B
    <3> QED BY <3>1, <3>2, <3>3, LocalKept DEF PInv
  <2> QED BY <2>1, <2>2 DEF Client
<1>5. Remote'
  <2>1. CASE c = A
    <3>1. rem' = rem /\ infl'[B] = infl[B] /\ ver'[B] = ver[B]
      BY <1>2, <2>1 DEF OpEvent, Client, A, B
    <3> QED BY <3>1, <1>4, RemoteKept DEF PInv
  <2>2. CASE c = B
    BY <2>2, NextOpRemote DEF PInv
  <2> QED BY <2>1, <2>2 DEF Client
<1>6. Wires' /\ Subs' /\ SeqsGrow
  BY <1>1, WiresKept, SubsKept DEF PInv
<1>7. Traffic' /\ Agents'
  BY <1>1, <1>4, <1>6, TrafficKept, AgentsKept DEF PInv
<1> QED BY <1>2, <1>4, <1>5, <1>6, <1>7 DEF PInv

LEMMA CommitKeeps ==
    ASSUME PInv, NEW c \in Client, Commit(c)
    PROVE  PInv'
<1>1. /\ UNCHANGED <<sc, ver, infl, fetch, loc, rem, sub, calls, up, down, cur, live>>
      /\ UNCHANGED <<agents, jobs>>
  BY DEF Commit, wires
<1>2. Document' /\ LogGrows
  BY CommitDocument DEF PInv
<1>3. loc.pv \in Nat /\ loc.pv <= loc.pv
  BY DEF PInv, Local, LocalIs
<1>4. Grows
  BY <1>1, <1>2, <1>3 DEF Grows
<1>5. Wires' /\ Subs' /\ SeqsGrow
  BY <1>1, WiresKept, SubsKept DEF PInv
<1>6. Traffic' /\ Agents' /\ Local' /\ Remote'
  BY <1>1, <1>4, <1>5, TrafficKept, AgentsKept, LocalKept, RemoteKept DEF PInv
<1> QED BY <1>2, <1>5, <1>6 DEF PInv

LEMMA FetchKeeps ==
    ASSUME PInv, Fetch
    PROVE  PInv'
<1>1. /\ UNCHANGED <<sc, log, ver, infl, loc, rem, sub, calls, up, down, cur, live>>
      /\ UNCHANGED <<agents, jobs>>
  BY DEF Fetch, wires
<1>2. log \in Seq(Op) /\ Len(log) \in Nat
  BY DEF PInv, Document
<1>3. fetch' \in {None, Asked} \cup 0..Len(log)
  BY <1>2 DEF Fetch
<1>4. Document'
  BY <1>1, <1>3 DEF PInv, Document, Made, Unlogged
<1>5. LogGrows
  BY <1>1, <1>2 DEF LogGrows
<1>6. loc.pv \in Nat /\ loc.pv <= loc.pv
  BY DEF PInv, Local, LocalIs
<1>7. Grows
  BY <1>1, <1>5, <1>6 DEF Grows
<1>8. Wires' /\ Subs' /\ SeqsGrow
  BY <1>1, WiresKept, SubsKept DEF PInv
<1>9. Traffic' /\ Agents' /\ Local' /\ Remote'
  BY <1>1, <1>7, <1>8, TrafficKept, AgentsKept, LocalKept, RemoteKept DEF PInv
<1> QED BY <1>4, <1>8, <1>9 DEF PInv
-------------------------------------------------------------------------------
(* What is put on the wires.                                                 *)
LEMMA GrowsHere ==
    ASSUME Document, Local, sc'.inOp = sc.inOp, log' = log, loc'.pv \in {loc.pv, loc.pv + 1}
    PROVE  Grows
<1>1. log \in Seq(Op) /\ Len(log) \in Nat /\ loc.pv \in Nat
  BY DEF Document, Local, LocalIs
<1> QED BY <1>1 DEF Grows, LogGrows

LEMMA TrafficBecomes ==
    ASSUME Grows, up' \in [Client -> Seq(Messages)], down' \in [Client -> Seq(Messages)],
           \A c \in Client : Before(up'[c], sub'[c].seq)
    PROVE  Traffic'
<1>1. \A q \in Seq(Messages) : q \in Seq(Messages')
  BY SentKept, SeqMonotonic
<1>2. up' \in [Client -> Seq(Messages')] /\ down' \in [Client -> Seq(Messages')]
  BY <1>1
<1> QED BY <1>2 DEF Traffic, Before

LEMMA BeforeLater ==
    ASSUME NEW q \in Seq(Messages), NEW s \in Nat, NEW t \in Nat, s <= t, Before(q, s)
    PROVE  Before(q, t)
<1> SUFFICES ASSUME NEW i \in 1..Len(q), q[i].a \in {"sub", "unsub"} PROVE q[i].seq < t
  BY DEF Before
<1>1. q[i].seq < s
  BY DEF Before
<1>2. q[i] \in Messages
  BY ElementOfSeq
<1>3. q[i].seq \in Nat
  BY <1>2 DEF Messages, Sent
<1> QED BY <1>1, <1>3

LEMMA BeforeConcat ==
    ASSUME NEW q \in Seq(Messages), NEW r \in Seq(Messages), NEW s,
           Before(q, s), Before(r, s)
    PROVE  q \o r \in Seq(Messages) /\ Before(q \o r, s)
<1> DEFINE m == Len(q)
           n == Len(r)
           t == q \o r
<1>1. m \in Nat /\ n \in Nat
  OBVIOUS
<1>2. /\ t \in Seq(Messages) /\ Len(t) = m + n
      /\ \A i \in 1..(m + n) : t[i] = IF i <= m THEN q[i] ELSE r[i - m]
  BY ConcatProperties
<1> HIDE DEF t, m, n
<1>3. ASSUME NEW i \in 1..(m + n), t[i].a \in {"sub", "unsub"} PROVE t[i].seq < s
  <2>1. CASE i <= m
    <3>1. i \in 1..m /\ t[i] = q[i]
      BY <2>1, <1>1, <1>2
    <3> QED BY <3>1, <1>3 DEF Before, m
  <2>2. CASE ~(i <= m)
    <3>1. i - m \in 1..n /\ t[i] = r[i - m]
      BY <2>2, <1>1, <1>2
    <3> QED BY <3>1, <1>3 DEF Before, n
  <2> QED BY <2>1, <2>2
<1> QED BY <1>2, <1>3 DEF Before, t

LEMMA BeforeAppend ==
    ASSUME NEW q \in Seq(Messages), NEW m \in Messages, NEW s, Before(q, s),
           m.a \in {"sub", "unsub"} => m.seq < s
    PROVE  Append(q, m) \in Seq(Messages) /\ Before(Append(q, m), s)
<1>1. Len(q) \in Nat
  OBVIOUS
<1>2. /\ Append(q, m) \in Seq(Messages) /\ Len(Append(q, m)) = Len(q) + 1
      /\ \A i \in 1..Len(q) : Append(q, m)[i] = q[i]
      /\ Append(q, m)[Len(q) + 1] = m
  BY AppendProperties
<1>3. \A i \in 1..(Len(q) + 1) : i = Len(q) + 1 \/ i \in 1..Len(q)
  BY <1>1
<1> DEFINE t == Append(q, m)
<1> HIDE DEF t
<1>4. \A i \in 1..Len(t) : t[i].a \in {"sub", "unsub"} => t[i].seq < s
  BY <1>2, <1>3 DEF Before, t
<1> QED BY <1>2, <1>4 DEF Before, t

LEMMA SubmitPresenceKeeps ==
    ASSUME PInv, NEW p \in Values, InStepAt(p, DocOps(A)), SubmitPresence(p)
    PROVE  PInv'
<1>1. /\ UNCHANGED <<sc, log, ver, infl, fetch, rem, sub, calls, up, down, cur, live>>
      /\ UNCHANGED <<agents, jobs>>
      /\ loc' = LocalSubmit(loc, p)
  BY DEF SubmitPresence, wires, document
<1>2. Document'
  BY <1>1, DocumentKept DEF PInv, document
<1> DEFINE ops == DocOps(A)
<1>3. DocOps(A)' = ops
  BY <1>1 DEF DocOps
<1> HIDE DEF ops
<1>4. LocalIs(loc', ops) /\ loc'.pv = loc.pv + 1
  BY <1>1, LocalSubmitKeeps DEF PInv, Local, ops
<1>5. Local'
  BY <1>1, <1>3, <1>4, LocalBecomes
<1>6. Grows
  BY <1>1, <1>4, GrowsHere DEF PInv
<1>7. Wires' /\ Subs' /\ SeqsGrow
  BY <1>1, WiresKept, SubsKept DEF PInv
<1>8. Traffic' /\ Agents' /\ Remote'
  BY <1>1, <1>6, <1>7, TrafficKept, AgentsKept, RemoteKept DEF PInv
<1> QED BY <1>2, <1>5, <1>7, <1>8 DEF PInv

LEMMA SendPendingKeeps ==
    ASSUME PInv, SendPending
    PROVE  PInv'
<1> DEFINE q == loc.queue
           msgs == [i \in DOMAIN q |-> [a |-> "p", v |-> ver[A], pv |-> q[i].pv, p |-> q[i].p]]
<1>1. /\ UNCHANGED <<sc, log, ver, infl, fetch, rem, sub, calls, down, cur, live>>
      /\ UNCHANGED <<agents, jobs>>
      /\ up' = up \/ up' = [up EXCEPT ![A] = @ \o msgs]
      /\ loc' = [loc EXCEPT !.sending = FALSE, !.queue = IF live[A] THEN << >> ELSE q]
      /\ infl[A] = None
  BY DEF SendPending, document, hasPending
<1>2. Document'
  BY <1>1, DocumentKept DEF PInv, document
<1>3. /\ loc \in [value : Values, pv : Nat, n : Nat, queue : Seq([pv : Nat, p : Values]),
                  sending : BOOLEAN]
      /\ InStepAt(loc.value, DocOps(A))
      /\ \A i \in 1..Len(q) : q[i].pv < loc.pv /\ InStepAt(q[i].p, DocOps(A))
      /\ q \in Seq([pv : Nat, p : Values]) /\ loc.pv \in Nat
  BY DEF PInv, Local, LocalIs
<1>4. Local' /\ loc'.pv = loc.pv
  <2> DEFINE r == IF live[A] THEN << >> ELSE q
  <2>1. r \in Seq([pv : Nat, p : Values]) /\ \A i \in 1..Len(r) : r[i] = q[i] /\ i \in 1..Len(q)
    BY <1>3
  <2>2. loc' = [loc EXCEPT !.sending = FALSE, !.queue = r]
    BY <1>1
  <2> HIDE DEF r, q
  <2>3. /\ loc' \in [value : Values, pv : Nat, n : Nat, queue : Seq([pv : Nat, p : Values]),
                     sending : BOOLEAN]
        /\ loc'.value = loc.value /\ loc'.pv = loc.pv /\ loc'.queue = r
    BY <1>3, <2>1, <2>2
  <2>4. LocalIs(loc', DocOps(A))
    BY <1>3, <2>1, <2>3 DEF LocalIs
  <2>5. DocOps(A)' = DocOps(A)
    BY <1>1 DEF DocOps
  <2> QED BY <1>1, <2>3, <2>4, <2>5, LocalBecomes
<1>5. Grows
  BY <1>1, <1>4, GrowsHere DEF PInv
<1>6. Wires' /\ Subs' /\ SeqsGrow
  BY <1>1, WiresKept, SubsKept DEF PInv
<1>7. msgs \in Seq(Messages) /\ Before(msgs, sub[A].seq)
  <2>1. ver[A] \in 0..Len(log) /\ DocOps(A) = OpsUpTo(ver[A])
    BY <1>1 DEF PInv, Document, Client, DocOps, OpsUpTo
  <2>2. DOMAIN q = 1..Len(q) /\ Len(q) \in Nat
    BY <1>3, LenProperties
  <2>3. ASSUME NEW i \in 1..Len(q) PROVE msgs[i] \in Sent /\ msgs[i].a = "p"
    <3>1. q[i] \in [pv : Nat, p : Values] /\ q[i].pv < loc.pv /\ InStepAt(q[i].p, DocOps(A))
      BY <1>3, ElementOfSeq
    <3>2. q[i].pv \in 0..(loc.pv - 1) /\ q[i].p \in Values
      BY <1>3, <3>1
    <3>3. msgs[i] = [a |-> "p", v |-> ver[A], pv |-> q[i].pv, p |-> q[i].p]
      BY <2>2
    <3> HIDE DEF msgs, q
    <3> QED BY <2>1, <3>1, <3>2, <3>3 DEF Sent
  <2>4. DOMAIN msgs = 1..Len(q) /\ msgs = [i \in DOMAIN msgs |-> msgs[i]]
    BY <2>2
  <2> HIDE DEF msgs, q
  <2>5. msgs \in [1..Len(q) -> Sent]
    BY <2>3, <2>4
  <2>6. msgs \in [1..Len(q) -> Messages]
    BY <2>5 DEF Messages
  <2>7. msgs \in Seq(Messages) /\ Len(msgs) = Len(q)
    BY <2>2, <2>6, SeqDef, LenProperties
  <2> QED BY <2>3, <2>7 DEF Before
<1>8. Traffic'
  <2> HIDE DEF msgs
  <2>1. /\ up \in [Client -> Seq(Messages)] /\ down' \in [Client -> Seq(Messages)]
        /\ \A c \in Client : Before(up[c], sub'[c].seq)
    BY <1>1 DEF PInv, Traffic
  <2>2. CASE up' = up
    BY <2>1, <2>2, <1>5, TrafficBecomes
  <2>3. CASE up' = [up EXCEPT ![A] = @ \o msgs]
    <3>1. up[A] \o msgs \in Seq(Messages) /\ Before(up[A] \o msgs, sub'[A].seq)
      BY <2>1, <1>1, <1>7, BeforeConcat DEF Client
    <3> DEFINE t == up[A] \o msgs
    <3> HIDE DEF t
    <3>2. up' = [up EXCEPT ![A] = t]
      BY <2>3 DEF t
    <3>3. up' \in [Client -> Seq(Messages)] /\ \A c \in Client : Before(up'[c], sub'[c].seq)
      BY <2>1, <3>1, <3>2 DEF t
    <3> QED BY <2>1, <3>3, <1>5, TrafficBecomes
  <2> QED BY <2>2, <2>3, <1>1
<1>9. Agents' /\ Remote'
  BY <1>1, <1>5, <1>6, AgentsKept, RemoteKept DEF PInv
<1> QED BY <1>2, <1>4, <1>6, <1>8, <1>9 DEF PInv

LEMMA SetPendingKeeps ==
    ASSUME PInv, _setPendingPresence
    PROVE  PInv'
<1>1. /\ Remote' /\ UNCHANGED <<sc, log, ver, infl, loc>>
  BY SetPendingRemote DEF PInv
<1>2. /\ UNCHANGED <<sub, calls, down, cur, live, agents, jobs>>
      /\ fetch' \in {fetch, Asked}
      /\ up' = up \/ \E msgs \in {<< >>, <<[a |-> "req"]>>} : up' = [up EXCEPT ![B] = @ \o msgs]
  BY DEF _setPendingPresence
<1>3. Document'
  BY <1>1, <1>2 DEF PInv, Document, Made, Unlogged
<1>4. Grows
  BY <1>1, GrowsHere DEF PInv
<1>5. Wires' /\ Subs' /\ SeqsGrow
  BY <1>1, <1>2, WiresKept, SubsKept DEF PInv
<1>6. Traffic'
  <2>1. /\ up \in [Client -> Seq(Messages)] /\ down' \in [Client -> Seq(Messages)]
        /\ \A c \in Client : Before(up[c], sub'[c].seq)
    BY <1>2 DEF PInv, Traffic
  <2>2. CASE up' = up
    BY <2>1, <2>2, <1>4, TrafficBecomes
  <2>3. ASSUME NEW msgs \in {<< >>, <<[a |-> "req"]>>}, up' = [up EXCEPT ![B] = @ \o msgs]
        PROVE  Traffic'
    <3>1. [a |-> "req"] \in Messages
      BY DEF Messages
    <3>2. msgs \in Seq(Messages) /\ Before(msgs, sub'[B].seq)
      <4>1. CASE msgs = << >>
        BY <4>1 DEF Before
      <4>2. CASE msgs = <<[a |-> "req"]>>
        BY <4>2, <3>1 DEF Before
      <4> QED BY <4>1, <4>2
    <3>3. up[B] \o msgs \in Seq(Messages) /\ Before(up[B] \o msgs, sub'[B].seq)
      BY <2>1, <3>2, BeforeConcat DEF Client
    <3> DEFINE t == up[B] \o msgs
    <3> HIDE DEF t
    <3>4. up' = [up EXCEPT ![B] = t]
      BY <2>3 DEF t
    <3>5. up' \in [Client -> Seq(Messages)] /\ \A c \in Client : Before(up'[c], sub'[c].seq)
      BY <2>1, <3>3, <3>4 DEF t
    <3> QED BY <2>1, <3>5, <1>4, TrafficBecomes
  <2> QED BY <2>2, <2>3, <1>2
<1>7. Agents' /\ Local'
  BY <1>1, <1>2, <1>4, <1>5, AgentsKept, LocalKept DEF PInv
<1> QED BY <1>1, <1>3, <1>5, <1>6, <1>7 DEF PInv
-------------------------------------------------------------------------------
(* Presence.subscribe and unsubscribe, and the connections.                  *)
SubSet == [want : BOOLEAN, subd : BOOLEAN, seq : Nat,
           cbs : SUBSET [seq : Nat, calls : SUBSET Nat]]

LEMMA SubsBecome ==
    ASSUME Subs, NEW c \in Client, NEW s \in SubSet, sub' = [sub EXCEPT ![c] = s],
           sub[c].seq <= s.seq, \A e \in s.cbs : e.seq < s.seq
    PROVE  Subs' /\ SeqsGrow
<1>1. sub \in [Client -> SubSet] /\ \A d \in Client : sub[d].seq # 0
  BY DEF Subs, SubSet
<1>2. /\ sub' \in [Client -> SubSet] /\ sub'[c] = s
      /\ \A d \in Client : d # c => sub'[d] = sub[d]
  BY <1>1
<1>3. s.seq \in Nat /\ \A d \in Client : sub[d].seq \in Nat
  BY <1>1 DEF SubSet
<1>4. SeqsGrow
  BY <1>2, <1>3 DEF SeqsGrow
<1>5. s.seq # 0
  BY <1>1, <1>3
<1>6. ASSUME NEW d \in Client PROVE sub'[d].seq # 0 /\ \A e \in sub'[d].cbs : e.seq < sub'[d].seq
  <2>1. CASE d = c
    BY <2>1, <1>2, <1>5
  <2>2. CASE d # c
    BY <2>2, <1>2 DEF Subs
  <2> QED BY <2>1, <2>2
<1>7. Subs'
  BY <1>2, <1>6 DEF Subs, SubSet
<1> QED BY <1>4, <1>7

(* A queue to an agent, of which the rest goes on, or which is emptied.      *)
LEMMA DropKeeps ==
    ASSUME PInv, NEW c \in Client, Drop(c)
    PROVE  PInv'
<1> DEFINE n == sc.drops - 1
           s == [sub[c] EXCEPT !.subd = FALSE]
<1>1. /\ UNCHANGED <<log, ver, infl, fetch, loc, rem, calls, cur, agents, jobs>>
      /\ live[c] /\ sc.drops > 0 /\ sc' = [sc EXCEPT !.drops = n]
      /\ live' = [live EXCEPT ![c] = FALSE]
      /\ sub' = [sub EXCEPT ![c] = s]
      /\ up' = [up EXCEPT ![c] = << >>] /\ down' = [down EXCEPT ![c] = << >>]
  BY DEF Drop, document
<1>2. sc \in Bounds /\ n \in Nat
  <2>1. sc \in Bounds /\ sc.drops \in Nat
    BY DEF PInv, Wires, Bounds
  <2> QED BY <2>1, <1>1
<1>3. n = sc.drops - 1 /\ sc.drops \in Nat
  BY <1>2 DEF Bounds
<1> HIDE DEF n
<1>4. sc' \in Bounds /\ sc'.drops = n /\ sc'.inOp = sc.inOp
  BY <1>1, <1>2 DEF Bounds
<1>5. Wires'
  <2>1. live' \in [Client -> BOOLEAN] /\ cur' \in [Client -> 1..MaxAgents]
    BY <1>1 DEF PInv, Wires
  <2>2. Down(A)' + Down(B)' = Down(A) + Down(B) + 1
    BY <1>1 DEF Down, PInv, Wires, Client, A, B
  <2>3. Down(A) \in Int /\ Down(B) \in Int /\ Down(A)' \in Int /\ Down(B)' \in Int
    BY DEF Down
  <2>4. ASSUME NEW d \in Client
        PROVE  cur'[d] + Down(A)' + Down(B)' + sc'.drops <= MaxAgents
    <3>1. cur[d] \in Int /\ cur'[d] = cur[d]
      BY <1>1 DEF PInv, Wires
    <3>2. cur[d] + Down(A) + Down(B) + sc.drops <= MaxAgents
      BY DEF PInv, Wires
    <3>3. cur'[d] + Down(A)' + Down(B)' + sc'.drops = cur[d] + Down(A) + Down(B) + sc.drops
      BY <3>1, <2>2, <2>3, <1>3, <1>4
    <3> QED BY <3>2, <3>3
  <2> QED BY <1>4, <2>1, <2>4 DEF Wires
<1>6. Subs' /\ SeqsGrow
  <2>1. sub[c] \in SubSet /\ \A e \in sub[c].cbs : e.seq < sub[c].seq
    BY DEF PInv, Subs, SubSet
  <2>2. s \in SubSet /\ s.seq = sub[c].seq /\ s.cbs = sub[c].cbs
    BY <2>1 DEF SubSet
  <2>3. sub[c].seq <= s.seq
    BY <2>1, <2>2 DEF SubSet
  <2> HIDE DEF s
  <2> QED BY <1>1, <2>1, <2>2, <2>3, SubsBecome DEF PInv
<1>7. Document' /\ Grows
  BY <1>1, <1>4, DocumentKept, GrowsHere DEF PInv, document
<1>8. Traffic'
  <2>1. /\ up \in [Client -> Seq(Messages)] /\ down \in [Client -> Seq(Messages)]
        /\ \A d \in Client : Before(up[d], sub[d].seq)
    BY DEF PInv, Traffic
  <2>2. << >> \in Seq(Messages) /\ \A t : Before(<< >>, t)
    BY DEF Before
  <2>3. up' \in [Client -> Seq(Messages)] /\ down' \in [Client -> Seq(Messages)]
    BY <1>1, <2>1, <2>2
  <2>4. ASSUME NEW d \in Client PROVE Before(up'[d], sub'[d].seq)
    <3>1. CASE d = c
      BY <3>1, <1>1, <2>1, <2>2
    <3>2. CASE d # c
      <4>1. up'[d] = up[d] /\ sub[d].seq \in Nat /\ sub'[d].seq \in Nat
            /\ sub[d].seq <= sub'[d].seq
        BY <3>2, <1>1, <1>6 DEF SeqsGrow
      <4>2. up[d] \in Seq(Messages) /\ Before(up[d], sub[d].seq)
        BY <2>1
      <4> QED BY <4>1, <4>2, BeforeLater
    <3> QED BY <3>1, <3>2
  <2> QED BY <2>3, <2>4, <1>7, TrafficBecomes
<1>9. Agents' /\ Local' /\ Remote'
  BY <1>1, <1>6, <1>7, AgentsKept, LocalKept, RemoteKept DEF PInv
<1> QED BY <1>5, <1>6, <1>7, <1>8, <1>9 DEF PInv

LEMMA CallKeeps ==
    ASSUME PInv, NEW want \in BOOLEAN, Call(want)
    PROVE  PInv'
<1> DEFINE s == sub[B]
           k == sc.calls
           n == k - 1
           last == Max({e.seq : e \in s.cbs})
           cbs1 == {IF e.seq = last THEN [e EXCEPT !.calls = e.calls \cup {k}] ELSE e : e \in s.cbs}
           cbs2 == s.cbs \cup {[seq |-> s.seq, calls |-> {k}]}
           next == s.seq + 1
           m == [a |-> IF want THEN "sub" ELSE "unsub", seq |-> s.seq]
<1>1. /\ UNCHANGED <<log, ver, infl, fetch, loc, rem, down, cur, live, agents, jobs>>
      /\ k > 0 /\ sc' = [sc EXCEPT !.calls = n]
      /\ \/ UNCHANGED <<sub, up>>
         \/ /\ sub' = [sub EXCEPT ![B] = [s EXCEPT !.cbs = cbs1]]
            /\ UNCHANGED up
         \/ /\ sub' = [sub EXCEPT ![B] = [s EXCEPT !.want = want, !.seq = next, !.cbs = cbs2]]
            /\ up' = up \/ up' = [up EXCEPT ![B] = Append(@, m)]
  BY DEF Call, document
<1>2. sc \in Bounds /\ n \in Nat /\ k \in Nat
  <2>1. sc \in Bounds /\ k \in Nat
    BY DEF PInv, Wires, Bounds
  <2> QED BY <2>1, <1>1
<1> HIDE DEF n
<1>3. sc' \in Bounds /\ sc'.drops = sc.drops /\ sc'.inOp = sc.inOp
  BY <1>1, <1>2 DEF Bounds
<1>4. Wires'
  BY <1>1, <1>3 DEF PInv, Wires, Down
<1>5. Document' /\ Grows
  BY <1>1, <1>3, DocumentKept, GrowsHere DEF PInv, document
<1>6. s \in SubSet /\ s.seq \in Nat /\ next \in Nat /\ s.seq < next /\ s.seq <= next
      /\ \A e \in s.cbs : e \in [seq : Nat, calls : SUBSET Nat] /\ e.seq < s.seq
  <2>1. s \in SubSet /\ \A e \in s.cbs : e.seq < s.seq
    BY DEF PInv, Subs, SubSet, Client
  <2> QED BY <2>1 DEF SubSet
<1>7. /\ up \in [Client -> Seq(Messages)] /\ down' \in [Client -> Seq(Messages)]
      /\ \A c \in Client : Before(up[c], sub[c].seq)
  BY <1>1 DEF PInv, Traffic
<1>8. Subs' /\ SeqsGrow /\ Traffic'
  <2>1. CASE UNCHANGED <<sub, up>>
    <3>1. Subs' /\ SeqsGrow
      BY <2>1, SubsKept DEF PInv
    <3> QED BY <1>5, <1>7, <2>1, <3>1, TrafficBecomes
  <2>2. CASE /\ sub' = [sub EXCEPT ![B] = [s EXCEPT !.cbs = cbs1]]
             /\ UNCHANGED up
    <3>1. ASSUME NEW e \in cbs1
          PROVE  e \in [seq : Nat, calls : SUBSET Nat] /\ e.seq < s.seq
      <4> HIDE DEF last
      <4>1. PICK d \in s.cbs : e = IF d.seq = last THEN [d EXCEPT !.calls = d.calls \cup {k}] ELSE d
        OBVIOUS
      <4>2. d \in [seq : Nat, calls : SUBSET Nat] /\ d.seq < s.seq
        BY <1>6
      <4> HIDE DEF k
      <4>3. d.calls \cup {k} \in SUBSET Nat
        BY <4>2, <1>2
      <4> QED BY <4>1, <4>2, <4>3
    <3> DEFINE t == [s EXCEPT !.cbs = cbs1]
    <3> HIDE DEF s, cbs1
    <3>2. t \in SubSet /\ t.seq = s.seq /\ t.cbs = cbs1
      BY <1>6, <3>1 DEF SubSet
    <3>3. sub' = [sub EXCEPT ![B] = t] /\ sub[B] = s
      BY <2>2 DEF s
    <3> HIDE DEF t
    <3>4. sub[B].seq <= t.seq /\ \A e \in t.cbs : e.seq < t.seq
      BY <3>1, <3>2, <3>3, <1>6
    <3>5. Subs' /\ SeqsGrow
      BY <3>2, <3>3, <3>4, SubsBecome DEF PInv, Client
    <3>6. \A c \in Client : sub'[c].seq = sub[c].seq
      BY <3>2, <3>3 DEF PInv, Subs
    <3> QED BY <3>5, <3>6, <1>5, <1>7, <2>2, TrafficBecomes
  <2>3. CASE /\ sub' = [sub EXCEPT ![B] = [s EXCEPT !.want = want, !.seq = next, !.cbs = cbs2]]
             /\ up' = up \/ up' = [up EXCEPT ![B] = Append(@, m)]
    <3> DEFINE t == [s EXCEPT !.want = want, !.seq = next, !.cbs = cbs2]
    <3>1. cbs2 \subseteq [seq : Nat, calls : SUBSET Nat] /\ \A e \in cbs2 : e.seq < next
      <4>1. [seq |-> s.seq, calls |-> {k}] \in [seq : Nat, calls : SUBSET Nat]
        BY <1>2, <1>6
      <4>2. \A e \in s.cbs : e.seq \in Nat /\ e.seq < next
        BY <1>6
      <4> QED BY <1>6, <4>1, <4>2
    <3>2. sub' = [sub EXCEPT ![B] = t] /\ sub[B] = s
      BY <2>3
    <3> HIDE DEF s, cbs2, next
    <3>3. t \in SubSet /\ t.seq = next /\ t.cbs = cbs2
      BY <1>6, <3>1 DEF SubSet
    <3> HIDE DEF t
    <3>4. Subs' /\ SeqsGrow
      BY <3>1, <3>2, <3>3, <1>6, SubsBecome DEF PInv, Client
    <3>5. /\ sub'[B].seq = next
          /\ \A c \in Client : c # B => sub'[c].seq = sub[c].seq
      BY <3>2, <3>3 DEF PInv, Subs, Client
    <3>6. Before(up[B], next) /\ up[B] \in Seq(Messages)
      <4>1. Before(up[B], s.seq) /\ up[B] \in Seq(Messages)
        BY <1>7, <3>2 DEF Client
      <4> QED BY <4>1, <1>6, BeforeLater
    <3>7. CASE up' = up
      <4>1. \A c \in Client : Before(up'[c], sub'[c].seq)
        BY <3>5, <3>6, <3>7, <1>7
      <4> QED BY <3>4, <3>7, <4>1, <1>5, <1>7, TrafficBecomes
    <3>8. CASE up' = [up EXCEPT ![B] = Append(@, m)]
      <4>1. m \in Messages /\ m.seq < next
        <5>1. m \in [a : {"sub", "unsub"}, seq : Nat]
          BY <1>6
        <5> QED BY <5>1, <1>6 DEF Messages
      <4> DEFINE q == Append(up[B], m)
      <4> HIDE DEF m
      <4>2. q \in Seq(Messages) /\ Before(q, next)
        BY <4>1, <3>6, BeforeAppend
      <4>3. up' = [up EXCEPT ![B] = q]
        BY <3>8
      <4> HIDE DEF q
      <4>4. up' \in [Client -> Seq(Messages)] /\ \A c \in Client : Before(up'[c], sub'[c].seq)
        BY <1>7, <3>5, <4>2, <4>3
      <4> QED BY <3>4, <4>4, <1>5, <1>7, TrafficBecomes
    <3> QED BY <2>3, <3>7, <3>8
  <2> QED BY <1>1, <2>1, <2>2, <2>3
<1>9. Agents' /\ Local' /\ Remote'
  BY <1>1, <1>5, <1>8, AgentsKept, LocalKept, RemoteKept DEF PInv
<1> QED BY <1>4, <1>5, <1>8, <1>9 DEF PInv
-------------------------------------------------------------------------------
LEMMA MaxAgentsIs ==
    MaxAgents \in Nat /\ \A s \in Scenarios : s.drops \in Nat /\ s.drops + 2 <= MaxAgents
<1> DEFINE D == {s.drops : s \in Scenarios}
           f == [s \in Scenarios |-> s.drops]
<1>1. Scenarios \subseteq Bounds /\ Scenarios # {} /\ IsFiniteSet(Scenarios)
  BY ScenariosAssumption DEF Bounds
<1>2. D \in SUBSET Nat /\ D # {}
  BY <1>1 DEF Bounds
<1>3. IsFiniteSet(D)
  <2>1. f \in Surjection(Scenarios, D)
    BY DEF Surjection
  <2> QED BY <2>1, <1>1, FS_Surjection
<1> HIDE DEF D
<1>4. \E m \in D : \A k \in D : k <= m
  BY <1>2, <1>3, GreatestOfFinite
<1>5. Max(D) \in D /\ \A k \in D : k <= Max(D)
  <2>1. \E m \in D : \A k \in D : m >= k
    BY <1>2, <1>4
  <2>2. Max(D) \in D /\ \A k \in D : Max(D) >= k
    BY <2>1 DEF Max
  <2> QED BY <1>2, <2>2
<1>6. MaxAgents = 2 + Max(D)
  BY DEF MaxAgents, D
<1>7. \A s \in Scenarios : s.drops \in D
  BY DEF D
<1> DEFINE x == Max(D)
<1>8. x \in Nat /\ \A k \in D : k \in Nat /\ k <= x
  BY <1>2, <1>5
<1> HIDE DEF x
<1>9. 2 + x \in Nat /\ \A k \in D : k \in Nat /\ k + 2 <= 2 + x
  BY <1>8
<1> QED BY <1>6, <1>7, <1>9 DEF x
LEMMA AgentsBecome ==
    ASSUME Agents, Grows, SeqsGrow,
           NEW k \in 1..MaxAgents, NEW g \in Agent, agents' = [agents EXCEPT ![k] = g],
           \A s \in {g.seq} \cup g.opening : s < sub'[g.c].seq,
           \A c \in Client : agents'[cur'[c]].c = c,
           jobs' \subseteq Job
    PROVE  Agents'
<1>1. Agent \subseteq Agent' /\ Job \subseteq Job'
  BY SentKept DEF Agent, Job
<1>2. agents \in [1..MaxAgents -> Agent]
  BY DEF Agents
<1>3. agents' \in [1..MaxAgents -> Agent'] /\ jobs' \subseteq Job'
  BY <1>1, <1>2
<1>4. ASSUME NEW l \in 1..MaxAgents, NEW s \in {agents'[l].seq} \cup agents'[l].opening
      PROVE  s < sub'[agents'[l].c].seq
  <2>1. CASE l = k
    <3>1. agents'[l] = g
      BY <1>2, <2>1
    <3> QED BY <3>1, <1>4
  <2>2. CASE l # k
    <3>1. agents'[l] = agents[l] /\ agents[l] \in Agent
      BY <1>2, <2>2
    <3>2. agents[l].c \in Client /\ s \in Nat /\ s < sub[agents[l].c].seq
      BY <3>1, <1>4 DEF Agents, Agent
    <3> QED BY <3>1, <3>2 DEF SeqsGrow
  <2> QED BY <2>1, <2>2
<1> QED BY <1>3, <1>4 DEF Agents

LEMMA CallsAre ==
    ASSUME Subs, NEW c \in Client
    PROVE  UNION {e.calls : e \in sub[c].cbs} \in SUBSET Nat
<1>1. \A e \in sub[c].cbs : e.calls \in SUBSET Nat
  BY DEF Subs
<1> QED BY <1>1

LEMMA ReconnectKeeps ==
    ASSUME PInv, NEW c \in Client, Reconnect(c)
    PROVE  PInv'
<1> DEFINE s == sub[c]
           k == Max(Range(cur)) + 1
           cbs == UNION {e.calls : e \in s.cbs}
           next == s.seq + 1
           one == {[seq |-> s.seq, calls |-> cbs]}
           m == [a |-> "sub", seq |-> s.seq]
           g == NewAgent(c)
           sending == loc.sending \/ loc.queue # << >>
<1>1. /\ UNCHANGED <<sc, log, ver, infl, rem, down, jobs>>
      /\ ~live[c] /\ live' = [live EXCEPT ![c] = TRUE]
      /\ cur' = [cur EXCEPT ![c] = k]
      /\ agents' = [agents EXCEPT ![k] = g]
      /\ \/ /\ sub' = [sub EXCEPT ![c] = [s EXCEPT !.seq = next, !.cbs = one]]
            /\ up' = [up EXCEPT ![c] = <<m>>]
         \/ sub' = [sub EXCEPT ![c] = [s EXCEPT !.cbs = {}]] /\ UNCHANGED up
      /\ loc' = loc \/ loc' = [loc EXCEPT !.sending = sending]
      /\ fetch' \in {fetch, Asked}
  BY DEF Reconnect
<1>2. /\ \A d \in Client : cur[d] \in 1..MaxAgents /\ cur[d] < k
      /\ k \in Int /\ k - 1 \in {cur[d] : d \in Client}
  <2>1. cur \in [Client -> 1..MaxAgents]
    BY DEF PInv, Wires
  <2>2. Range(cur) = {cur[A], cur[B]} /\ cur[A] \in Int /\ cur[B] \in Int
    BY <2>1 DEF Range, Client
  <2>3. \E x \in Range(cur) : \A y \in Range(cur) : x >= y
    BY <2>2
  <2>4. Max(Range(cur)) \in Range(cur) /\ \A y \in Range(cur) : Max(Range(cur)) >= y
    BY <2>3 DEF Max
  <2> HIDE DEF k
  <2>5. k = Max(Range(cur)) + 1
    BY DEF k
  <2> DEFINE x == Max(Range(cur))
  <2> HIDE DEF x
  <2>6. x \in Int /\ x \in {cur[A], cur[B]} /\ x >= cur[A] /\ x >= cur[B] /\ k = x + 1
    BY <2>2, <2>4, <2>5 DEF x
  <2> QED BY <2>1, <2>2, <2>6 DEF Client
<1> HIDE DEF k
<1>3. Wires' /\ k \in 1..MaxAgents
  <2>1. live' \in [Client -> BOOLEAN] /\ MaxAgents \in Int /\ sc.drops \in Nat
    <3>1. MaxAgents \in Int
      BY MaxAgentsIs
    <3> QED BY <3>1, <1>1 DEF PInv, Wires, Bounds
  <2>2. Down(A)' + Down(B)' = Down(A) + Down(B) - 1
    BY <1>1 DEF Down, PInv, Wires, Client, A, B
  <2>3. /\ Down(A) \in Int /\ Down(B) \in Int /\ Down(A)' \in Nat /\ Down(B)' \in Nat
    BY DEF Down
  <2>4. \A d \in Client : cur[d] \in Int /\ cur[d] >= 1
                         /\ cur[d] + Down(A) + Down(B) + sc.drops <= MaxAgents
    <3>1. \A d \in Client : cur[d] + Down(A) + Down(B) + sc.drops <= MaxAgents
      BY DEF PInv, Wires
    <3> QED BY <3>1, <1>2, <2>1
  <2> DEFINE x == Down(A)
             y == Down(B)
             z == sc.drops
  <2>5. PICK e \in Client : k - 1 = cur[e]
    BY <1>2
  <2>6. k + (x + y - 1) + z <= MaxAgents
    <3>1. cur[e] + x + y + z <= MaxAgents /\ cur[e] \in Int /\ z \in Int /\ x \in Int /\ y \in Int
      BY <2>1, <2>3, <2>4
    <3> HIDE DEF x, y, z
    <3> QED BY <3>1, <2>1, <2>5, <1>2
  <2>7. k + Down(A)' + Down(B)' + sc.drops <= MaxAgents
    <3> DEFINE u == Down(A)'
               w == Down(B)'
    <3>1. u + w = x + y - 1 /\ u \in Int /\ w \in Int /\ x \in Int /\ y \in Int /\ z \in Int
      BY <2>1, <2>2, <2>3
    <3> HIDE DEF u, w, x, y, z
    <3>2. k + u + w + z = k + (x + y - 1) + z
      BY <3>1, <1>2
    <3>3. k + u + w + z <= MaxAgents
      BY <3>2, <2>6
    <3> QED BY <3>3 DEF u, w, z
  <2>8. k \in 1..MaxAgents
    <3>1. k >= 1
      BY <1>2, <2>4, <2>5
    <3>2. k <= MaxAgents
      BY <1>2, <2>1, <2>3, <2>7
    <3> QED BY <3>1, <3>2, <1>2, <2>1
  <2>9. cur' \in [Client -> 1..MaxAgents]
    BY <1>1, <2>8 DEF PInv, Wires
  <2>10. ASSUME NEW d \in Client
         PROVE  cur'[d] + Down(A)' + Down(B)' + sc.drops <= MaxAgents
    <3>1. CASE d = c
      <4>1. cur'[d] = k
        BY <3>1, <1>1 DEF PInv, Wires
      <4> QED BY <4>1, <2>7
    <3>2. CASE d # c
      <4>1. cur'[d] = cur[d] /\ cur[d] <= k /\ cur[d] \in Int
        BY <3>2, <1>1, <1>2, <2>4 DEF PInv, Wires
      <4> DEFINE u == Down(A)'
                 w == Down(B)'
      <4>2. u \in Int /\ w \in Int
        BY <2>3
      <4> HIDE DEF u, w, z
      <4>3. cur[d] + u + w + z <= k + u + w + z
        BY <4>1, <4>2, <1>2, <2>1 DEF z
      <4>4. k + u + w + z <= MaxAgents
        BY <2>7 DEF u, w, z
      <4>5. cur[d] + u + w + z <= MaxAgents
        BY <4>1, <4>2, <4>3, <4>4, <1>2, <2>1 DEF z
      <4> QED BY <4>1, <4>5 DEF u, w, z
    <3> QED BY <3>1, <3>2
  <2> QED BY <1>1, <2>1, <2>8, <2>9, <2>10 DEF PInv, Wires
<1>4. Document'
  BY <1>1 DEF PInv, Document, Made, Unlogged
<1>5. Local' /\ loc'.pv = loc.pv
  <2>1. LocalIs(loc, DocOps(A))
    BY DEF PInv, Local
  <2>2. sending \in BOOLEAN
    BY <2>1 DEF LocalIs
  <2> HIDE DEF sending
  <2>3. /\ loc' \in [value : Values, pv : Nat, n : Nat, queue : Seq([pv : Nat, p : Values]),
                     sending : BOOLEAN]
        /\ loc'.value = loc.value /\ loc'.pv = loc.pv /\ loc'.queue = loc.queue
    BY <1>1, <2>1, <2>2 DEF LocalIs
  <2>4. LocalIs(loc', DocOps(A))
    BY <2>1, <2>3 DEF LocalIs
  <2>5. DocOps(A)' = DocOps(A)
    BY <1>1 DEF DocOps
  <2> QED BY <1>1, <2>3, <2>4, <2>5, LocalBecomes
<1>6. Grows
  BY <1>1, <1>5, GrowsHere DEF PInv
<1>7. Remote'
  BY <1>1, <1>6, RemoteKept DEF PInv
<1>8. s \in SubSet /\ s.seq \in Nat /\ next \in Nat /\ s.seq < next /\ s.seq <= next
      /\ s.seq <= s.seq /\ cbs \in SUBSET Nat
  <2>1. s \in SubSet
    BY DEF PInv, Subs, SubSet
  <2>2. cbs \in SUBSET Nat
    BY CallsAre DEF PInv
  <2> QED BY <2>1, <2>2 DEF SubSet
<1>9. /\ up \in [Client -> Seq(Messages)] /\ down' \in [Client -> Seq(Messages)]
      /\ \A d \in Client : Before(up[d], sub[d].seq)
  BY <1>1 DEF PInv, Traffic
<1>10. Subs' /\ SeqsGrow /\ Traffic'
  <2>1. CASE /\ sub' = [sub EXCEPT ![c] = [s EXCEPT !.seq = next, !.cbs = one]]
             /\ up' = [up EXCEPT ![c] = <<m>>]
    <3> DEFINE t == [s EXCEPT !.seq = next, !.cbs = one]
    <3>1. one \subseteq [seq : Nat, calls : SUBSET Nat] /\ \A e \in one : e.seq < next
      <4> HIDE DEF cbs, s, next
      <4> QED BY <1>8
    <3>2. m \in Messages /\ m.seq = s.seq
      BY <1>8 DEF Messages
    <3>3. sub' = [sub EXCEPT ![c] = t] /\ sub[c] = s
      BY <2>1
    <3> HIDE DEF s, one, next, m
    <3>4. t \in SubSet /\ t.seq = next /\ t.cbs = one
      BY <1>8, <3>1 DEF SubSet
    <3> HIDE DEF t
    <3>5. Subs' /\ SeqsGrow
      BY <3>1, <3>3, <3>4, <1>8, SubsBecome DEF PInv
    <3>6. /\ sub'[c].seq = next
          /\ \A d \in Client : d # c => sub'[d].seq = sub[d].seq
      BY <3>3, <3>4 DEF PInv, Subs
    <3> DEFINE q == <<m>>
    <3>7. q \in Seq(Messages) /\ Before(q, next)
      BY <3>2, <1>8 DEF Before
    <3> HIDE DEF q
    <3>8. up' = [up EXCEPT ![c] = q]
      BY <2>1 DEF q
    <3>9. up' \in [Client -> Seq(Messages)] /\ \A d \in Client : Before(up'[d], sub'[d].seq)
      BY <1>9, <3>6, <3>7, <3>8
    <3> QED BY <3>5, <3>9, <1>6, <1>9, TrafficBecomes
  <2>2. CASE sub' = [sub EXCEPT ![c] = [s EXCEPT !.cbs = {}]] /\ UNCHANGED up
    <3> DEFINE t == [s EXCEPT !.cbs = {}]
    <3>1. sub' = [sub EXCEPT ![c] = t] /\ sub[c] = s
      BY <2>2
    <3> HIDE DEF s
    <3>2. t \in SubSet /\ t.seq = s.seq /\ t.cbs = {}
      BY <1>8 DEF SubSet
    <3> HIDE DEF t
    <3>3. Subs' /\ SeqsGrow
      BY <3>1, <3>2, <1>8, SubsBecome DEF PInv
    <3>4. \A d \in Client : sub'[d].seq = sub[d].seq
      BY <3>1, <3>2 DEF PInv, Subs
    <3> QED BY <3>3, <3>4, <2>2, <1>6, <1>9, TrafficBecomes
  <2> QED BY <2>1, <2>2, <1>1
<1>11. Agents'
  <2>1. /\ g \in Agent /\ g.c = c /\ g.seq = 0 /\ g.opening = {}
    BY DEF NewAgent, Agent
  <2> HIDE DEF g
  <2>2. sub'[c].seq > 0
    BY <1>10 DEF Subs
  <2>3. ASSUME NEW d \in Client PROVE agents'[cur'[d]].c = d
    <3>1. agents \in [1..MaxAgents -> Agent] /\ cur \in [Client -> 1..MaxAgents]
          /\ agents[cur[d]].c = d
      BY DEF PInv, Agents, Wires
    <3>2. CASE d = c
      BY <3>1, <3>2, <2>1, <1>1, <1>3
    <3>3. CASE d # c
      <4>1. cur'[d] = cur[d] /\ cur[d] # k
        BY <3>1, <3>3, <1>1, <1>2
      <4> QED BY <4>1, <3>1, <1>1
    <3> QED BY <3>2, <3>3
  <2>4. jobs' \subseteq Job
    BY <1>1 DEF PInv, Agents
  <2> QED BY <1>1, <1>3, <1>6, <1>10, <2>1, <2>2, <2>3, <2>4, AgentsBecome DEF PInv
<1> QED BY <1>3, <1>4, <1>5, <1>7, <1>10, <1>11 DEF PInv
LEMMA ReceiveKeeps ==
    ASSUME PInv, NEW c \in Client, Receive(c)
    PROVE  PInv'
<1> DEFINE m == Head(down[c])
           q == Tail(down[c])
           subd == IF m.a = "sub" THEN sub[c].subd \/ sub[c].want ELSE FALSE
           cbs == {e \in sub[c].cbs : e.seq # m.seq}
           t == [sub[c] EXCEPT !.subd = subd, !.cbs = cbs]
<1>1. /\ UNCHANGED <<sc, log, ver, infl, fetch, up, cur, live, agents, jobs>>
      /\ down[c] # << >> /\ down' = [down EXCEPT ![c] = q]
      /\ sub' = [sub EXCEPT ![c] = t] \/ UNCHANGED sub
      /\ rem' = rem \/ (c = B /\ m.a = "p" /\ rem' = receiveUpdate(m))
      /\ loc' = loc \/ (c = A /\ loc' = LocalSend(loc, loc.value))
  BY DEF Receive, document, Subscribed
<1>2. /\ up \in [Client -> Seq(Messages)] /\ down \in [Client -> Seq(Messages)]
      /\ \A d \in Client : Before(up[d], sub[d].seq)
  BY DEF PInv, Traffic
<1>3. m \in Messages /\ q \in Seq(Messages)
  BY <1>1, <1>2, HeadTailProperties
<1>4. Wires' /\ Document'
  BY <1>1, WiresKept, DocumentKept DEF PInv, document
<1>5. Local' /\ Grows
  <2>1. CASE loc' = loc
    <3>1. Grows
      BY <1>1, <2>1, GrowsHere DEF PInv
    <3> QED BY <1>1, <2>1, <3>1, LocalKept DEF PInv
  <2>2. CASE loc' = LocalSend(loc, loc.value)
    <3> DEFINE ops == DocOps(A)
    <3>1. DocOps(A)' = ops
      BY <1>1 DEF DocOps
    <3> HIDE DEF ops
    <3>2. LocalIs(loc, ops) /\ loc.value \in Values /\ InStepAt(loc.value, ops)
      BY DEF PInv, Local, LocalIs, ops
    <3>3. LocalIs(loc', ops) /\ loc'.pv = loc.pv + 1
      BY <2>2, <3>2, LocalSendKeeps
    <3>4. Local'
      BY <1>1, <3>1, <3>3, LocalBecomes
    <3>5. Grows
      BY <1>1, <3>3, GrowsHere DEF PInv
    <3> QED BY <3>4, <3>5
  <2> QED BY <1>1, <2>1, <2>2
<1>6. Subs' /\ SeqsGrow /\ \A d \in Client : sub'[d].seq = sub[d].seq
  <2>1. CASE UNCHANGED sub
    BY <2>1, SubsKept DEF PInv
  <2>2. CASE sub' = [sub EXCEPT ![c] = t]
    <3>1. sub[c] \in SubSet /\ (\A e \in sub[c].cbs : e.seq < sub[c].seq) /\ sub[c].seq <= sub[c].seq
      BY DEF PInv, Subs, SubSet
    <3>2. subd \in BOOLEAN /\ cbs \subseteq sub[c].cbs
      BY <3>1 DEF SubSet
    <3> HIDE DEF subd, cbs
    <3>3. t \in SubSet /\ t.seq = sub[c].seq /\ t.cbs = cbs
      BY <3>1, <3>2 DEF SubSet
    <3> HIDE DEF t
    <3>4. Subs' /\ SeqsGrow
      BY <2>2, <3>1, <3>2, <3>3, SubsBecome DEF PInv
    <3>5. \A d \in Client : sub'[d].seq = sub[d].seq
      BY <2>2, <3>3 DEF PInv, Subs
    <3> QED BY <3>4, <3>5
  <2> QED BY <1>1, <2>1, <2>2
<1>7. Traffic'
  <2>1. down' \in [Client -> Seq(Messages)]
    BY <1>1, <1>2, <1>3
  <2> QED BY <1>1, <1>2, <1>5, <1>6, <2>1, TrafficBecomes
<1>8. Agents'
  BY <1>1, <1>5, <1>6, AgentsKept DEF PInv
<1>9. Remote'
  <2>1. CASE rem' = rem
    BY <2>1, <1>1, <1>5, RemoteKept DEF PInv
  <2>2. CASE c = B /\ m.a = "p" /\ rem' = receiveUpdate(m) /\ rem' # rem
    <3> HIDE DEF m
    <3>1. m \in Sent
      BY <1>3, <2>2 DEF Messages
    <3>2. loc' = loc
      BY <1>1, <2>2 DEF A, B
    <3> DEFINE pend == [pv |-> m.pv, p |-> m.p, v |-> m.v]
    <3>3. rem' = [rem EXCEPT !.on = TRUE, !.setting = TRUE, !.pend = pend]
      BY <2>2 DEF receiveUpdate
    <3>4. /\ pend \in [pv : 0..(loc.pv - 1), p : Values, v : 0..Len(log)]
          /\ InStepAt(pend.p, OpsUpTo(pend.v))
      BY <3>1 DEF Sent
    <3> HIDE DEF pend
    <3>5. /\ rem' \in Shape(0..(loc.pv - 1), 0..Len(log)) /\ rem'.on /\ rem'.value = rem.value
          /\ rem'.pv = rem.pv /\ rem'.pend = pend /\ rem'.cache = rem.cache
      BY <3>3, <3>4 DEF PInv, Remote, Shape
    <3>6. (rem.value # None => rem.pv # None) /\ InStepAt(rem.value, DocOps(B))
      BY DEF PInv, Remote
    <3> QED BY <1>1, <3>2, <3>4, <3>5, <3>6, RemoteChanged DEF PInv
  <2> QED BY <1>1, <2>1, <2>2
<1> QED BY <1>4, <1>5, <1>6, <1>7, <1>8, <1>9 DEF PInv

-------------------------------------------------------------------------------
(* The agents.                                                               *)
LEMMA ClientsKept ==
    ASSUME PInv, UNCHANGED <<sc, document, loc, rem, sub, cur, live>>
    PROVE  /\ Wires' /\ Document' /\ Local' /\ Subs' /\ Remote' /\ Grows /\ SeqsGrow
<1>1. UNCHANGED <<log, ver, infl, fetch>>
  BY DEF document
<1>2. Wires' /\ Document' /\ Subs' /\ SeqsGrow
  BY WiresKept, DocumentKept, SubsKept DEF PInv
<1>3. Grows
  BY <1>1, GrowsHere DEF PInv
<1>4. Local' /\ Remote'
  BY <1>1, <1>3, LocalKept, RemoteKept DEF PInv
<1> QED BY <1>2, <1>3, <1>4

LEMMA PublishedKeeps ==
    ASSUME NEW to \in [Client -> Seq(Messages)], NEW m \in Messages
    PROVE  Published(m, to) \in [Client -> Seq(Messages)]
<1>1. \A c \in Client : Append(to[c], m) \in Seq(Messages)
  OBVIOUS
<1> QED BY <1>1 DEF Published

LEMMA ReplyKeeps ==
    ASSUME NEW to \in [Client -> Seq(Messages)], NEW m \in Messages, NEW k, NEW c \in Client
    PROVE  Reply(k, c, m, to) \in [Client -> Seq(Messages)]
<1>1. \A d \in Client : Append(to[d], m) \in Seq(Messages)
  OBVIOUS
<1> QED BY <1>1 DEF Reply

LEMMA SentNull ==
    ASSUME NEW m \in Sent
    PROVE  [m EXCEPT !.p = None] \in Sent
<1>1. m \in [a : {"p"}, v : 0..Len(log), pv : 0..(loc.pv - 1), p : Values]
  BY DEF Sent
<1> DEFINE n == [m EXCEPT !.p = None]
<1>2. n \in [a : {"p"}, v : 0..Len(log), pv : 0..(loc.pv - 1), p : Values] /\ n.p = None
  BY <1>1 DEF Values
<1> HIDE DEF n
<1>3. n \in Sent
  BY <1>2 DEF Sent, InStepAt, Reflects
<1> QED BY <1>3 DEF n

(* The end of a stream leaves the agent's numbers as they are.               *)
LEMMA EndStreamKeeps ==
    ASSUME Agents, NEW k \in 1..MaxAgents
    PROVE  /\ EndStream(agents, jobs, k).jobs \subseteq Job
           /\ \E g \in Agent :
                 /\ EndStream(agents, jobs, k).agents = [agents EXCEPT ![k] = g]
                 /\ g.c = agents[k].c /\ g.seq = agents[k].seq /\ g.opening = agents[k].opening
<1> DEFINE r == agents[k].req
<1>1. agents \in [1..MaxAgents -> Agent] /\ agents[k] \in Agent /\ jobs \subseteq Job
      /\ r \in {None} \cup Sent
  BY DEF Agents, Agent
<1>2. CASE ~(agents[k].stream /\ r # None)
  <2> DEFINE g == [agents[k] EXCEPT !.stream = FALSE]
  <2>1. g \in Agent /\ g.c = agents[k].c /\ g.seq = agents[k].seq /\ g.opening = agents[k].opening
    BY <1>1 DEF Agent
  <2>2. EndStream(agents, jobs, k) = [agents |-> [agents EXCEPT ![k] = g], jobs |-> jobs]
    BY <1>2 DEF EndStream
  <2>3. EndStream(agents, jobs, k).jobs = jobs
    BY <2>2
  <2>4. EndStream(agents, jobs, k).agents = [agents EXCEPT ![k] = g]
    BY <2>2
  <2> HIDE DEF g
  <2>5. \E h \in Agent :
           /\ EndStream(agents, jobs, k).agents = [agents EXCEPT ![k] = h]
           /\ h.c = agents[k].c /\ h.seq = agents[k].seq /\ h.opening = agents[k].opening
    BY <2>1, <2>4
  <2> QED BY <1>1, <2>3, <2>5
<1>3. CASE agents[k].stream /\ r # None
  <2> DEFINE g == [agents[k] EXCEPT !.stream = FALSE, !.req = None]
             js == {IF j.k = k /\ j.m.pv = agents[k].req.pv /\ j.stage = "transform"
                    THEN [j EXCEPT !.m.p = None] ELSE j : j \in jobs}
             i == [k |-> k, m |-> [agents[k].req EXCEPT !.p = None], stage |-> "end"]
  <2>1. g \in Agent /\ g.c = agents[k].c /\ g.seq = agents[k].seq /\ g.opening = agents[k].opening
    BY <1>1 DEF Agent
  <2>2. EndStream(agents, jobs, k) =
            [agents |-> [agents EXCEPT ![k].stream = FALSE, ![k].req = None], jobs |-> js \cup {i}]
    BY <1>3 DEF EndStream
  <2>3. [agents EXCEPT ![k].stream = FALSE, ![k].req = None] = [agents EXCEPT ![k] = g]
    BY <1>1
  <2>4. i \in Job
    <3>1. [r EXCEPT !.p = None] \in Sent
      BY <1>1, <1>3, SentNull
    <3> QED BY <3>1 DEF Job
  <2>5. ASSUME NEW j \in jobs PROVE [j EXCEPT !.m.p = None] \in Job
    <3>1. j \in Job /\ j.m \in Sent
      BY <1>1 DEF Job
    <3> DEFINE n == [j.m EXCEPT !.p = None]
    <3>2. n \in Sent
      BY <3>1, SentNull
    <3> HIDE DEF n
    <3>3. [j EXCEPT !.m = n] \in Job
      BY <3>1, <3>2 DEF Job
    <3> QED BY <3>3 DEF n
  <2>6. js \subseteq Job
    BY <1>1, <2>5
  <2>7. EndStream(agents, jobs, k).jobs = js \cup {i}
    BY <2>2
  <2>8. EndStream(agents, jobs, k).agents = [agents EXCEPT ![k] = g]
    BY <2>2, <2>3
  <2> HIDE DEF g, js, i
  <2>9. \E h \in Agent :
           /\ EndStream(agents, jobs, k).agents = [agents EXCEPT ![k] = h]
           /\ h.c = agents[k].c /\ h.seq = agents[k].seq /\ h.opening = agents[k].opening
    BY <2>1, <2>8
  <2>10. EndStream(agents, jobs, k).jobs \subseteq Job
    BY <2>4, <2>6, <2>7
  <2> QED BY <2>9, <2>10
<1> QED BY <1>2, <1>3
(* One agent changed, with numbers that its client has used.                 *)
LEMMA AgentKeeps ==
    ASSUME PInv, UNCHANGED <<sc, document, loc, rem, sub, cur, live>>,
           NEW k \in 1..MaxAgents, NEW g \in Agent, agents' = [agents EXCEPT ![k] = g],
           g.c = agents[k].c,
           \A s \in {g.seq} \cup g.opening : s < sub[g.c].seq,
           jobs' \subseteq Job,
           Traffic'
    PROVE  PInv'
<1>1. /\ Wires' /\ Document' /\ Local' /\ Subs' /\ Remote' /\ Grows /\ SeqsGrow
  BY ClientsKept
<1>2. ASSUME NEW d \in Client PROVE agents'[cur'[d]].c = d
  <2>1. agents \in [1..MaxAgents -> Agent] /\ agents[cur[d]].c = d
    BY DEF PInv, Agents
  <2>2. cur[d] \in 1..MaxAgents
    BY DEF PInv, Wires
  <2> QED BY <2>1, <2>2
<1>3. \A s \in {g.seq} \cup g.opening : s < sub'[g.c].seq
  OBVIOUS
<1>4. Agents'
  BY <1>1, <1>2, <1>3, AgentsBecome DEF PInv
<1> QED BY <1>1, <1>4 DEF PInv

(* The queues, of which one loses its head, if any.                          *)
LEMMA TakenTraffic ==
    ASSUME Traffic, Grows, UNCHANGED sub, down' \in [Client -> Seq(Messages)],
           NEW c \in Client, \/ up' = up
                             \/ up[c] # << >> /\ up' = [up EXCEPT ![c] = Tail(@)]
    PROVE  Traffic'
<1>1. up \in [Client -> Seq(Messages)] /\ \A d \in Client : Before(up[d], sub[d].seq)
  BY DEF Traffic
<1>2. CASE up' = up
  BY <1>1, <1>2, TrafficBecomes
<1>3. CASE up[c] # << >> /\ up' = [up EXCEPT ![c] = Tail(@)]
  <2> DEFINE q == Tail(up[c])
  <2>1. /\ q \in Seq(Messages) /\ Len(q) = Len(up[c]) - 1
        /\ \A i \in 1..Len(q) : q[i] = up[c][i + 1]
    BY <1>1, <1>3, HeadTailProperties
  <2>2. up' = [up EXCEPT ![c] = q]
    BY <1>3
  <2> HIDE DEF q
  <2>3. \A i \in 1..Len(q) : i + 1 \in 1..Len(up[c])
    <3>1. Len(up[c]) \in Nat
      BY <1>1
    <3> QED BY <2>1, <3>1
  <2>4. Before(q, sub[c].seq)
    BY <1>1, <2>1, <2>3 DEF Before
  <2>5. up' \in [Client -> Seq(Messages)] /\ \A d \in Client : Before(up'[d], sub'[d].seq)
    BY <1>1, <2>1, <2>2, <2>4
  <2> QED BY <2>5, TrafficBecomes
<1> QED BY <1>2, <1>3

LEMMA TakeKeeps ==
    ASSUME PInv, NEW c \in Client, Take(c)
    PROVE  PInv'
<1> DEFINE k == cur[c]
           m == Head(up[c])
           ended == EndStream(agents, jobs, k)
<1>1. /\ UNCHANGED <<sc, document, loc, rem, sub, cur, live>>
      /\ up[c] # << >> /\ up' = [up EXCEPT ![c] = Tail(@)]
  BY DEF Take
<1>2. /\ Wires' /\ Document' /\ Local' /\ Subs' /\ Remote' /\ Grows /\ SeqsGrow
  BY <1>1, ClientsKept
<1>3. /\ up \in [Client -> Seq(Messages)] /\ down \in [Client -> Seq(Messages)]
      /\ Before(up[c], sub[c].seq)
  BY DEF PInv, Traffic
<1>4. m \in Messages /\ (m.a \in {"sub", "unsub"} => m.seq < sub[c].seq)
  <2>1. m = up[c][1] /\ 1 \in 1..Len(up[c])
    BY <1>1, <1>3
  <2> QED BY <1>3, <2>1, ElementOfSeq DEF Before
<1>5. k \in 1..MaxAgents /\ agents[k] \in Agent /\ agents[k].c = c /\ jobs \subseteq Job
      /\ \A s \in {agents[k].seq} \cup agents[k].opening : s < sub[c].seq
  BY DEF PInv, Wires, Agents
<1> HIDE DEF m, k, ended
<1>6. \A to \in [Client -> Seq(Messages)] : Reply(k, c, m, to) \in [Client -> Seq(Messages)]
  BY <1>4, ReplyKeeps
<1>7. CASE m.a = "p" /\ jobs' = jobs \cup {[k |-> k, m |-> m, stage |-> "version"]}
           /\ UNCHANGED <<down, agents>>
  <2>1. m \in Sent
    BY <1>4, <1>7 DEF Messages
  <2>2. jobs' \subseteq Job
    BY <1>5, <1>7, <2>1 DEF Job
  <2>3. Traffic'
    BY <1>1, <1>2, <1>3, <1>7, TakenTraffic DEF PInv
  <2>4. agents' = [agents EXCEPT ![k] = agents[k]]
    BY <1>7 DEF PInv, Agents
  <2> QED BY <1>1, <1>5, <2>2, <2>3, <2>4, AgentKeeps
<1>8. CASE down' = Published([a |-> "req", src |-> k], down) /\ UNCHANGED <<agents, jobs>>
  <2> DEFINE req == [a |-> "req", src |-> k]
  <2>1. req \in Messages
    BY <1>5 DEF Messages
  <2> HIDE DEF req
  <2>2. down' \in [Client -> Seq(Messages)]
    BY <1>3, <1>8, <2>1, PublishedKeeps DEF req
  <2>3. Traffic'
    BY <1>1, <1>2, <2>2, TakenTraffic DEF PInv
  <2>4. agents' = [agents EXCEPT ![k] = agents[k]]
    BY <1>8 DEF PInv, Agents
  <2> QED BY <1>1, <1>5, <1>8, <2>3, <2>4, AgentKeeps
<1>9. m.a \in {"sub", "unsub"} => m.seq \in Nat
  BY <1>4 DEF Messages, Sent
<1>10. CASE /\ m.a = "sub" /\ agents' = [agents EXCEPT ![k].seq = m.seq]
            /\ down' = Reply(k, c, m, down) /\ UNCHANGED jobs
  <2> DEFINE s == m.seq
             g == [agents[k] EXCEPT !.seq = s]
  <2>1. s \in Nat /\ s < sub[c].seq /\ agents' = [agents EXCEPT ![k] = g]
    BY <1>4, <1>9, <1>10
  <2> HIDE DEF s
  <2>2. g \in Agent /\ g.c = c /\ g.seq = s /\ g.opening = agents[k].opening
    BY <1>5, <2>1 DEF Agent
  <2>3. Traffic'
    BY <1>1, <1>2, <1>3, <1>6, <1>10, TakenTraffic DEF PInv
  <2> HIDE DEF g
  <2>4. \A i \in {g.seq} \cup g.opening : i < sub[g.c].seq
    BY <1>5, <2>1, <2>2
  <2> QED BY <1>1, <1>5, <1>10, <2>1, <2>2, <2>3, <2>4, AgentKeeps
<1>11. CASE /\ m.a = "sub" /\ agents' = [agents EXCEPT ![k].opening = @ \cup {m.seq}]
            /\ UNCHANGED <<down, jobs>>
  <2> DEFINE s == agents[k].opening \cup {m.seq}
             g == [agents[k] EXCEPT !.opening = s]
  <2>1. s \in SUBSET Nat /\ (\A i \in s : i < sub[c].seq) /\ agents' = [agents EXCEPT ![k] = g]
    BY <1>4, <1>5, <1>9, <1>11 DEF Agent
  <2> HIDE DEF s
  <2>2. g \in Agent /\ g.c = c /\ g.seq = agents[k].seq /\ g.opening = s
    BY <1>5, <2>1 DEF Agent
  <2>3. Traffic'
    BY <1>1, <1>2, <1>3, <1>11, TakenTraffic DEF PInv
  <2> HIDE DEF g
  <2>4. \A i \in {g.seq} \cup g.opening : i < sub[g.c].seq
    BY <1>5, <2>1, <2>2
  <2> QED BY <1>1, <1>5, <1>11, <2>1, <2>2, <2>3, <2>4, AgentKeeps
<1>12. CASE /\ m.a = "unsub" /\ agents' = [ended.agents EXCEPT ![k].seq = m.seq]
            /\ jobs' = ended.jobs /\ down' = Reply(k, c, m, down)
  <2> DEFINE s == m.seq
  <2>1. s \in Nat /\ s < sub[c].seq
    BY <1>4, <1>9, <1>12
  <2>2. PICK h \in Agent : /\ ended.agents = [agents EXCEPT ![k] = h]
                           /\ h.c = agents[k].c /\ h.opening = agents[k].opening
    BY <1>5, EndStreamKeeps DEF PInv, ended
  <2>3. jobs' \subseteq Job
    BY <1>5, <1>12, EndStreamKeeps DEF PInv, ended
  <2> DEFINE g == [h EXCEPT !.seq = s]
  <2>4. agents' = [[agents EXCEPT ![k] = h] EXCEPT ![k].seq = s]
    BY <1>12, <2>2
  <2> HIDE DEF s
  <2>5. agents' = [agents EXCEPT ![k] = g]
    BY <1>5, <2>4 DEF PInv, Agents
  <2>6. g \in Agent /\ g.c = c /\ g.seq = s /\ g.opening = agents[k].opening
    BY <1>5, <2>1, <2>2 DEF Agent
  <2>7. Traffic'
    BY <1>1, <1>2, <1>3, <1>6, <1>12, TakenTraffic DEF PInv
  <2> HIDE DEF g
  <2>8. \A i \in {g.seq} \cup g.opening : i < sub[g.c].seq
    BY <1>5, <2>1, <2>6
  <2> QED BY <1>1, <1>5, <2>3, <2>5, <2>6, <2>7, <2>8, AgentKeeps
<1>13. m.a = "p" \/ m.a = "req" \/ m.a = "sub" \/ m.a = "unsub"
  BY <1>4 DEF Messages, Sent
<1>14. \/ m.a = "p" /\ jobs' = jobs \cup {[k |-> k, m |-> m, stage |-> "version"]}
           /\ UNCHANGED <<down, agents>>
       \/ down' = Published([a |-> "req", src |-> k], down) /\ UNCHANGED <<agents, jobs>>
       \/ /\ m.a = "sub" /\ agents' = [agents EXCEPT ![k].seq = m.seq]
          /\ down' = Reply(k, c, m, down) /\ UNCHANGED jobs
       \/ /\ m.a = "sub" /\ agents' = [agents EXCEPT ![k].opening = @ \cup {m.seq}]
          /\ UNCHANGED <<down, jobs>>
       \/ /\ m.a = "unsub" /\ agents' = [ended.agents EXCEPT ![k].seq = m.seq]
          /\ jobs' = ended.jobs /\ down' = Reply(k, c, m, down)
  BY <1>13 DEF Take, m, k, ended
<1> QED BY <1>7, <1>8, <1>10, <1>11, <1>12, <1>14

LEMMA CleanupKeeps ==
    ASSUME PInv, NEW k \in 1..MaxAgents, Cleanup(k)
    PROVE  PInv'
<1> DEFINE ended == EndStream(agents, jobs, k)
<1>1. /\ UNCHANGED <<sc, document, loc, rem, sub, cur, live, up, down>>
      /\ agents' = [ended.agents EXCEPT ![k].open = FALSE, ![k].latest = None]
      /\ jobs' = ended.jobs
  BY DEF Cleanup, wires
<1> HIDE DEF ended
<1>2. Traffic'
  BY <1>1, ClientsKept, TrafficKept DEF PInv
<1>3. PICK h \in Agent : /\ ended.agents = [agents EXCEPT ![k] = h]
                         /\ h.c = agents[k].c /\ h.seq = agents[k].seq
                         /\ h.opening = agents[k].opening
  BY EndStreamKeeps DEF PInv, ended
<1>4. jobs' \subseteq Job
  BY <1>1, EndStreamKeeps DEF PInv, ended
<1> DEFINE g == [h EXCEPT !.open = FALSE, !.latest = None]
<1>5. agents' = [[agents EXCEPT ![k] = h] EXCEPT ![k].open = FALSE, ![k].latest = None]
  BY <1>1, <1>3
<1>6. agents' = [agents EXCEPT ![k] = g]
  BY <1>5 DEF PInv, Agents
<1>7. g \in Agent /\ g.c = agents[k].c /\ g.seq = agents[k].seq /\ g.opening = agents[k].opening
  BY <1>3 DEF Agent
<1> HIDE DEF g
<1>8. \A i \in {g.seq} \cup g.opening : i < sub[g.c].seq
  BY <1>7 DEF PInv, Agents
<1> QED BY <1>1, <1>2, <1>4, <1>6, <1>7, <1>8, AgentKeeps

LEMMA LatestDocVersionKeeps ==
    ASSUME PInv, NEW k \in 1..MaxAgents, LatestDocVersion(k)
    PROVE  PInv'
<1> DEFINE n == agents[k].latest + 1
           g == [agents[k] EXCEPT !.latest = n]
<1>1. /\ UNCHANGED <<sc, document, loc, rem, sub, cur, live, up, down, jobs>>
      /\ agents[k].latest # None /\ agents' = [agents EXCEPT ![k] = g]
  BY DEF LatestDocVersion, wires
<1>2. agents[k] \in Agent /\ n \in Nat /\ jobs' \subseteq Job
  <2>1. agents[k] \in Agent /\ jobs \subseteq Job
    BY DEF PInv, Agents
  <2> QED BY <1>1, <2>1 DEF Agent
<1> HIDE DEF n
<1>3. g \in Agent /\ g.c = agents[k].c /\ g.seq = agents[k].seq /\ g.opening = agents[k].opening
  BY <1>2 DEF Agent
<1> HIDE DEF g
<1>4. \A i \in {g.seq} \cup g.opening : i < sub[g.c].seq
  BY <1>3 DEF PInv, Agents
<1>5. Traffic'
  BY <1>1, ClientsKept, TrafficKept DEF PInv
<1> QED BY <1>1, <1>2, <1>3, <1>4, <1>5, AgentKeeps
LEMMA StreamOpenedKeeps ==
    ASSUME PInv, NEW k \in 1..MaxAgents, NEW seq \in agents[k].opening, StreamOpened(k, seq)
    PROVE  PInv'
<1> DEFINE c == agents[k].c
           m == [a |-> "sub", seq |-> seq]
           rest == agents[k].opening \ {seq}
           req == [a |-> "req", src |-> k]
           heard(d) == \/ Hears(cur[d], d, req)
                       \/ d = c /\ live[c] /\ cur[c] = k /\ k # First[c]
           to == [d \in Client |-> IF heard(d) THEN Append(down[d], req) ELSE down[d]]
           g == [agents[k] EXCEPT !.opening = rest]
           h == [agents[k] EXCEPT !.opening = rest, !.seq = seq, !.stream = agents[k].open]
<1>1. /\ UNCHANGED <<sc, document, loc, rem, sub, cur, live, up, jobs>>
      /\ \/ agents' = [agents EXCEPT ![k].opening = rest] /\ down' = Reply(k, c, m, down)
         \/ /\ agents' = [[agents EXCEPT ![k].opening = rest]
                            EXCEPT ![k].seq = seq, ![k].stream = agents[k].open]
            /\ down' = Reply(k, c, m, to)
  BY DEF StreamOpened
<1>2. /\ agents \in [1..MaxAgents -> Agent] /\ agents[k] \in Agent /\ jobs' \subseteq Job
      /\ \A s \in {agents[k].seq} \cup agents[k].opening : s < sub[c].seq
  BY <1>1 DEF PInv, Agents
<1>3. c \in Client /\ seq \in Nat /\ rest \in SUBSET Nat /\ agents[k].open \in BOOLEAN
  BY <1>2 DEF Agent
<1>4. m \in Messages /\ req \in Messages
  BY <1>3 DEF Messages
<1>5. down \in [Client -> Seq(Messages)]
  BY DEF PInv, Traffic
<1>6. to \in [Client -> Seq(Messages)]
  <2> HIDE DEF heard, req
  <2>1. \A d \in Client : Append(down[d], req) \in Seq(Messages) /\ down[d] \in Seq(Messages)
    BY <1>4, <1>5
  <2> QED BY <2>1
<1>7. down' \in [Client -> Seq(Messages)]
  <2> HIDE DEF to, m, c, rest, g, h
  <2>1. Reply(k, c, m, down) \in [Client -> Seq(Messages)]
    BY <1>3, <1>4, <1>5, ReplyKeeps
  <2>2. Reply(k, c, m, to) \in [Client -> Seq(Messages)]
    BY <1>3, <1>4, <1>6, ReplyKeeps
  <2> QED BY <1>1, <2>1, <2>2
<1>8. Traffic'
  BY <1>1, <1>3, <1>7, ClientsKept, TakenTraffic DEF PInv
<1>9. \/ agents' = [agents EXCEPT ![k] = g]
      \/ agents' = [agents EXCEPT ![k] = h]
  <2> HIDE DEF rest
  <2>1. [[agents EXCEPT ![k].opening = rest] EXCEPT ![k].seq = seq, ![k].stream = agents[k].open]
        = [agents EXCEPT ![k] = h]
    BY <1>2
  <2> QED BY <1>1, <2>1
<1>10. g \in Agent /\ g.c = c /\ g.seq = agents[k].seq /\ g.opening = rest
  <2> HIDE DEF rest
  <2> QED BY <1>2, <1>3 DEF Agent
<1>11. h \in Agent /\ h.c = c /\ h.seq = seq /\ h.opening = rest
  <2> HIDE DEF rest
  <2> QED BY <1>2, <1>3 DEF Agent
<1> HIDE DEF g, h
<1>12. CASE agents' = [agents EXCEPT ![k] = g]
  <2>1. \A i \in {g.seq} \cup g.opening : i < sub[g.c].seq
    BY <1>2, <1>10
  <2> QED BY <1>1, <1>2, <1>8, <1>10, <1>12, <2>1, AgentKeeps
<1>13. CASE agents' = [agents EXCEPT ![k] = h]
  <2>1. \A i \in {h.seq} \cup h.opening : i < sub[h.c].seq
    BY <1>2, <1>11
  <2> QED BY <1>1, <1>2, <1>8, <1>11, <1>13, <2>1, AgentKeeps
<1> QED BY <1>9, <1>12, <1>13

LEMMA BroadcastStartKeeps ==
    ASSUME PInv, NEW j \in jobs, BroadcastStart(j)
    PROVE  PInv'
<1> DEFINE k == j.k
           latest == CASE j.m.p = None -> None
                       [] j.m.p # None /\ agents[j.k].latest = None -> Len(log)
                       [] OTHER -> agents[j.k].latest
           req == IF agents[j.k].req = None \/ agents[j.k].req.pv < j.m.pv
                  THEN j.m ELSE agents[j.k].req
           g == [agents[k] EXCEPT !.latest = latest, !.req = req]
<1>1. j \in Job /\ jobs \subseteq Job /\ agents \in [1..MaxAgents -> Agent]
      /\ \A l \in 1..MaxAgents :
            \A s \in {agents[l].seq} \cup agents[l].opening : s < sub[agents[l].c].seq
  BY DEF PInv, Agents
<1>2. k \in 1..MaxAgents /\ j.m \in Sent /\ agents[k] \in Agent
      /\ [j EXCEPT !.stage = "transform"] \in Job
  BY <1>1 DEF Job
<1>3. latest \in {None} \cup Nat /\ req \in {None} \cup Sent
  <2>1. Len(log) \in Nat
    BY MadeIs DEF PInv
  <2>2. agents[j.k].latest \in {None} \cup Nat /\ agents[j.k].req \in {None} \cup Sent
    BY <1>2 DEF Agent
  <2>3. latest \in {None, Len(log), agents[j.k].latest}
    OBVIOUS
  <2> QED BY <1>2, <2>1, <2>2, <2>3
<1>4. /\ UNCHANGED <<sc, document, loc, rem, sub, cur, live, up>>
      /\ agents' = [agents EXCEPT ![j.k].latest = latest, ![j.k].req = req]
      /\ \/ jobs' = jobs \ {j} /\ down' = Published(j.m, down)
         \/ jobs' = (jobs \ {j}) \cup {[j EXCEPT !.stage = "transform"]} /\ UNCHANGED down
  BY DEF BroadcastStart
<1> HIDE DEF latest, req
<1>5. agents' = [agents EXCEPT ![k] = g]
  BY <1>1, <1>2, <1>4
<1>6. jobs' \subseteq Job
  BY <1>1, <1>2, <1>4
<1>7. g \in Agent /\ g.c = agents[k].c /\ g.seq = agents[k].seq /\ g.opening = agents[k].opening
  BY <1>2, <1>3 DEF Agent
<1> HIDE DEF g, k
<1>8. \A i \in {g.seq} \cup g.opening : i < sub[g.c].seq
  BY <1>1, <1>2, <1>7
<1>9. Traffic'
  <2>1. down \in [Client -> Seq(Messages)] /\ j.m \in Messages
    BY <1>2 DEF PInv, Traffic, Messages
  <2>2. down' \in [Client -> Seq(Messages)]
    BY <1>4, <2>1, PublishedKeeps
  <2>3. A \in Client
    BY DEF Client
  <2> QED BY <1>4, <2>2, <2>3, ClientsKept, TakenTraffic DEF PInv
<1> QED BY <1>2, <1>4, <1>5, <1>6, <1>7, <1>8, <1>9, AgentKeeps

LEMMA BroadcastTransformedKeeps ==
    ASSUME PInv, NEW j \in jobs, BroadcastTransformed(j)
    PROVE  PInv'
<1> DEFINE k == j.k
           m == ToLatest(j.m)
           g == [agents[k] EXCEPT !.req = m]
<1>1. j \in Job /\ jobs \subseteq Job /\ agents \in [1..MaxAgents -> Agent]
      /\ \A l \in 1..MaxAgents :
            \A s \in {agents[l].seq} \cup agents[l].opening : s < sub[agents[l].c].seq
  BY DEF PInv, Agents
<1>2. k \in 1..MaxAgents /\ j.m \in Sent /\ agents[k] \in Agent
  BY <1>1 DEF Job
<1>3. m \in Sent
  BY <1>2, ToLatestSent DEF PInv
<1>4. /\ UNCHANGED <<sc, document, loc, rem, sub, cur, live, up>>
      /\ jobs' = jobs \ {j} /\ down' = Published(m, down)
      /\ agents' = [agents EXCEPT ![k] = g] \/ agents' = agents
  BY DEF BroadcastTransformed
<1> HIDE DEF m, k
<1>5. jobs' \subseteq Job
  BY <1>1, <1>4
<1>6. Traffic'
  <2>1. down \in [Client -> Seq(Messages)] /\ m \in Messages
    BY <1>3 DEF PInv, Traffic, Messages
  <2>2. down' \in [Client -> Seq(Messages)]
    BY <1>4, <2>1, PublishedKeeps
  <2>3. A \in Client
    BY DEF Client
  <2> QED BY <1>4, <2>2, <2>3, ClientsKept, TakenTraffic DEF PInv
<1>7. CASE agents' = [agents EXCEPT ![k] = g]
  <2>1. g \in Agent /\ g.c = agents[k].c /\ g.seq = agents[k].seq
        /\ g.opening = agents[k].opening
    BY <1>2, <1>3 DEF Agent
  <2> HIDE DEF g
  <2>2. \A i \in {g.seq} \cup g.opening : i < sub[g.c].seq
    BY <1>1, <1>2, <2>1
  <2> QED BY <1>2, <1>4, <1>5, <1>6, <1>7, <2>1, <2>2, AgentKeeps
<1>8. CASE agents' = agents
  <2>1. agents' = [agents EXCEPT ![k] = agents[k]]
    BY <1>1, <1>8
  <2> QED BY <1>1, <1>2, <1>4, <1>5, <1>6, <2>1, AgentKeeps
<1> QED BY <1>4, <1>7, <1>8

-------------------------------------------------------------------------------
LEMMA InitKeeps ==
    ASSUME Init
    PROVE  PInv
<1>1. sc \in Scenarios /\ sc \in Bounds /\ sc.drops \in Nat /\ sc.drops + 2 <= MaxAgents
      /\ MaxAgents \in Nat
  BY MaxAgentsIs, ScenariosAssumption DEF Init, Bounds
<1>2. cur = First /\ First[A] = 1 /\ First[B] = 2 /\ DOMAIN First = Client
  BY DEF Init, First, Client, A, B
<1>3. 1 \in 1..MaxAgents /\ 2 \in 1..MaxAgents
  BY <1>1
<1>4. Range(First) = {1, 2}
  BY <1>2 DEF Range, Client
<1>5. /\ live = [c \in Client |-> TRUE] /\ log = << >> /\ fetch = None
      /\ ver = [c \in Client |-> 0] /\ infl = [c \in Client |-> None]
      /\ loc = [value |-> None, pv |-> 0, n |-> 0, queue |-> << >>, sending |-> FALSE]
      /\ rem = NewRem /\ jobs = {}
      /\ down = [c \in Client |-> << >>]
  BY DEF Init
<1>6. Wires
  <2>1. cur \in [Client -> 1..MaxAgents]
    <3>1. First \in [Client -> 1..MaxAgents]
      BY <1>3 DEF First
    <3> QED BY <1>2, <3>1
  <2>2. Down(A) = 0 /\ Down(B) = 0
    BY <1>5 DEF Down, Client
  <2>3. \A c \in Client : cur[c] = 1 \/ cur[c] = 2
    BY <1>2 DEF Client
  <2>4. \A c \in Client : cur[c] + Down(A) + Down(B) + sc.drops <= MaxAgents
    BY <1>1, <2>2, <2>3
  <2> QED BY <1>1, <1>5, <2>1, <2>4 DEF Wires
<1>7. Document
  <2>1. log \in Seq(Op) /\ Len(log) = 0
    BY <1>5
  <2>2. ver \in [Client -> 0..Len(log)] /\ infl \in [Client -> {None} \cup Op]
        /\ \A c \in Client : infl[c] = None
    BY <1>5, <2>1
  <2> QED BY <1>5, <2>1, <2>2 DEF Document
<1>8. \A v \in Nat : v = 0 => OpsUpTo(v) = {}
  BY DEF OpsUpTo
<1>9. \A c \in Client : DocOps(c) = {}
  BY <1>5 DEF DocOps
<1>10. \A ops : InStepAt(None, ops)
  BY DEF InStepAt, Reflects
<1>11. Local
  <2>1. loc \in [value : Values, pv : Nat, n : Nat, queue : Seq([pv : Nat, p : Values]),
                 sending : BOOLEAN]
    BY <1>5 DEF Values
  <2>2. loc.value = None /\ loc.queue = << >>
    BY <1>5
  <2> QED BY <1>10, <2>1, <2>2 DEF Local, LocalIs
<1>12. Remote
  <2>1. /\ ~NewRem.on /\ NewRem.value = None /\ NewRem.pv = None /\ NewRem.pend = None
        /\ NewRem.cache = None
    BY DEF NewRem
  <2>2. \A pvs, vs : NewRem \in Shape(pvs, vs)
    BY DEF NewRem, Shape, Values
  <2> QED BY <1>5, <1>10, <2>1, <2>2 DEF Remote
<1> DEFINE new(c) == IF Joined(c) THEN [NewSub EXCEPT !.subd = TRUE, !.cbs = {}] ELSE NewSub
           asked(c) == IF Joined(c) THEN << >> ELSE <<[a |-> "sub", seq |-> 1]>>
           of(k) == IF k = 1 THEN A ELSE B
           agent(k) == IF k \in Range(First) /\ Joined(of(k))
                       THEN [NewAgent(of(k)) EXCEPT !.stream = TRUE, !.seq = 1]
                       ELSE NewAgent(of(k))
<1>13. /\ sub = [c \in Client |-> new(c)] /\ up = [c \in Client |-> asked(c)]
       /\ agents = [k \in 1..MaxAgents |-> agent(k)]
  BY DEF Init
<1>14. ASSUME NEW c \in Client
       PROVE  new(c) \in SubSet /\ new(c).seq = 2 /\ \A e \in new(c).cbs : e.seq < 2
  <2>1. NewSub \in SubSet /\ NewSub.seq = 2 /\ NewSub.cbs = {[seq |-> 1, calls |-> {}]}
    BY DEF NewSub, SubSet
  <2>2. \A e \in NewSub.cbs : e.seq < 2
    BY <2>1
  <2> DEFINE t == [NewSub EXCEPT !.subd = TRUE, !.cbs = {}]
  <2>3. t \in SubSet /\ t.seq = 2 /\ t.cbs = {}
    BY <2>1 DEF SubSet
  <2> HIDE DEF t
  <2>4. new(c) = t \/ new(c) = NewSub
    BY DEF t
  <2> QED BY <2>1, <2>2, <2>3, <2>4
<1> HIDE DEF new
<1>15. Subs
  <2>1. sub \in [Client -> SubSet] /\ \A c \in Client : sub[c] = new(c)
    BY <1>13, <1>14
  <2>2. ASSUME NEW c \in Client PROVE sub[c].seq # 0 /\ \A e \in sub[c].cbs : e.seq < sub[c].seq
    BY <2>1, <1>14
  <2> QED BY <2>1, <2>2 DEF Subs, SubSet
<1>16. Traffic
  <2>1. [a |-> "sub", seq |-> 1] \in Messages
    BY DEF Messages
  <2>2. << >> \in Seq(Messages) /\ Before(<< >>, 2)
    BY DEF Before
  <2> DEFINE q == <<[a |-> "sub", seq |-> 1]>>
  <2>3. q \in Seq(Messages) /\ Before(q, 2)
    BY <2>1 DEF Before
  <2> HIDE DEF q
  <2>4. \A c \in Client : asked(c) \in Seq(Messages) /\ Before(asked(c), 2)
    BY <2>2, <2>3 DEF q
  <2> HIDE DEF asked
  <2>5. up \in [Client -> Seq(Messages)] /\ down \in [Client -> Seq(Messages)]
    BY <1>5, <1>13, <2>2, <2>4
  <2>6. \A c \in Client : Before(up[c], sub[c].seq)
    BY <1>13, <1>14, <2>4
  <2> QED BY <2>5, <2>6 DEF Traffic
<1>17. ASSUME NEW k \in 1..MaxAgents
       PROVE  agent(k) \in Agent /\ agent(k).c = of(k) /\ agent(k).opening = {}
              /\ agent(k).seq \in {0, 1}
  <2> DEFINE c == of(k)
             g == NewAgent(c)
             h == [NewAgent(c) EXCEPT !.stream = TRUE, !.seq = 1]
  <2>1. c \in Client
    BY DEF Client
  <2> HIDE DEF c, of
  <2>2. g \in Agent /\ g.c = c /\ g.opening = {} /\ g.seq = 0
    BY <2>1 DEF NewAgent, Agent
  <2>3. h \in Agent /\ h.c = c /\ h.opening = {} /\ h.seq = 1
    BY <2>2 DEF Agent
  <2>4. agent(k) = g \/ agent(k) = h
    BY DEF c
  <2> HIDE DEF g, h, agent
  <2> QED BY <2>2, <2>3, <2>4 DEF c
<1> HIDE DEF agent
<1>18. Agents
  <2>1. agents \in [1..MaxAgents -> Agent] /\ jobs \subseteq Job
    BY <1>5, <1>13, <1>17
  <2>2. ASSUME NEW c \in Client PROVE agents[cur[c]].c = c
    <3>1. agents[1].c = of(1) /\ agents[2].c = of(2)
      BY <1>3, <1>13, <1>17
    <3> QED BY <3>1, <1>2 DEF Client
  <2>3. ASSUME NEW k \in 1..MaxAgents, NEW s \in {agents[k].seq} \cup agents[k].opening
        PROVE  s < sub[agents[k].c].seq
    <3>1. agents[k] = agent(k) /\ of(k) \in Client
      BY <1>13 DEF Client
    <3>2. s = 0 \/ s = 1
      BY <3>1, <1>17
    <3>3. sub[agents[k].c].seq = 2
      BY <3>1, <1>13, <1>14, <1>17
    <3> QED BY <3>2, <3>3
  <2> QED BY <2>1, <2>2, <2>3 DEF Agents
<1> QED BY <1>6, <1>7, <1>11, <1>12, <1>15, <1>16, <1>18 DEF PInv

LEMMA StepKeeps ==
    ASSUME PInv, [Next]_vars
    PROVE  PInv'
<1>1. CASE UNCHANGED vars
  <2>1. UNCHANGED <<sc, document, loc, rem, sub, cur, live, up, down, agents, jobs>>
    BY <1>1 DEF vars, wires
  <2>2. Wires' /\ Document' /\ Local' /\ Subs' /\ Remote' /\ Grows /\ SeqsGrow
    BY <2>1, ClientsKept
  <2> QED BY <2>1, <2>2, TrafficKept, AgentsKept DEF PInv
<1>2. ASSUME NEW c \in Client, SubmitOp(c) PROVE PInv'
  BY <1>2, SubmitOpKeeps
<1>3. CASE SubmitPresence([n |-> loc.n + 1, refl |-> {<<o, o.c = A>> : o \in DocOps(A)}])
  <2> DEFINE ops == DocOps(A)
             refl == {<<o, o.c = A>> : o \in ops}
             p == [n |-> loc.n + 1, refl |-> refl]
  <2>1. loc.n + 1 \in Nat
    BY DEF PInv, Local, LocalIs
  <2>2. refl \subseteq Marks
    <3> SUFFICES ASSUME NEW o \in ops PROVE <<o, o.c = A>> \in Marks
      OBVIOUS
    <3>1. o \in Op /\ (o.c = A) \in BOOLEAN
      BY DocOpsAre DEF PInv, Client
    <3> HIDE DEF ops
    <3> QED BY <3>1 DEF Marks
  <2>3. InStepAt(p, DocOps(A))
    BY DEF InStepAt, Reflects
  <2>4. p \in Values
    <3> HIDE DEF refl
    <3> QED BY <2>1, <2>2 DEF Values
  <2>5. SubmitPresence(p)
    BY <1>3
  <2> HIDE DEF p
  <2> QED BY <2>3, <2>4, <2>5, SubmitPresenceKeeps
<1>4. CASE SubmitPresence(None)
  <2>1. None \in Values /\ InStepAt(None, DocOps(A))
    BY DEF Values, InStepAt, Reflects
  <2> QED BY <1>4, <2>1, SubmitPresenceKeeps
<1>5. ASSUME NEW want \in BOOLEAN, Call(want) PROVE PInv'
  BY <1>5, CallKeeps
<1>6. CASE SendPending
  BY <1>6, SendPendingKeeps
<1>7. CASE _setPendingPresence
  BY <1>7, SetPendingKeeps
<1>8. CASE Fetch
  BY <1>8, FetchKeeps
<1>9. ASSUME NEW c \in Client, Commit(c) \/ NextOp(c) \/ Receive(c) \/ Take(c) \/ Reconnect(c)
      PROVE  PInv'
  BY <1>9, CommitKeeps, NextOpKeeps, ReceiveKeeps, TakeKeeps, ReconnectKeeps
<1>10. ASSUME NEW k \in 1..MaxAgents,
              Cleanup(k) \/ LatestDocVersion(k) \/ \E seq \in agents[k].opening : StreamOpened(k, seq)
       PROVE  PInv'
  BY <1>10, CleanupKeeps, LatestDocVersionKeeps, StreamOpenedKeeps
<1>11. ASSUME NEW j \in jobs, BroadcastStart(j) \/ BroadcastTransformed(j)
       PROVE  PInv'
  BY <1>11, BroadcastStartKeeps, BroadcastTransformedKeeps
<1>12. ASSUME NEW c \in Client, Drop(c) PROVE PInv'
  BY <1>12, DropKeeps
<1> QED BY <1>1, <1>2, <1>3, <1>4, <1>5, <1>6, <1>7, <1>8, <1>9, <1>10, <1>11, <1>12
        DEF Next, Application, Progress

(* PInv holds in every state, whatever ops, presences, broadcasts, drops and *)
(* calls of subscribe meet (local-doc-presence.js, remote-doc-presence.js,   *)
(* agent.js: _broadcastPresence).                                            *)
THEOREM Invariance == Spec => []PInv
<1>1. Init => PInv
  BY InitKeeps
<1>2. PInv /\ [Next]_vars => PInv'
  BY StepKeeps
<1> QED BY <1>1, <1>2, PTL DEF Spec

(* Versions, sequence numbers and presence versions stay behind what they    *)
(* count, for any number of agents, ops and presences.                       *)
THEOREM TypeCorrect == Spec => []TypeOK
<1>1. PInv => TypeOK
  <2> SUFFICES ASSUME PInv PROVE TypeOK
    OBVIOUS
  <2>1. ver \in [Client -> 0..Len(log)] /\ fetch \in {None, Asked} \cup 0..Len(log)
    BY DEF PInv, Document
  <2>2. live \in [Client -> BOOLEAN]
    BY DEF PInv, Wires
  <2>3. ASSUME NEW m \in Broadcast PROVE m.pv < loc.pv /\ m.v \in 0..Len(log)
    <3>1. jobs \subseteq Job /\ agents \in [1..MaxAgents -> Agent]
      BY DEF PInv, Agents
    <3>2. m \in Sent
      BY <3>1 DEF Broadcast, Job, Agent
    <3>3. loc.pv \in Nat
      BY DEF PInv, Local, LocalIs
    <3> QED BY <3>2, <3>3 DEF Sent
  <2>4. rem.value # None => rem.pv # None /\ rem.pv < loc.pv
    <3>1. loc.pv \in Nat
      BY DEF PInv, Local, LocalIs
    <3> QED BY <3>1 DEF PInv, Remote, Shape
  <2>5. rem.setting \/ rem.pend # None \/ rem.cache # None => rem.on
    BY DEF PInv, Remote, NewRem
  <2>6. \A c \in Client : \A e \in sub[c].cbs : e.seq < sub[c].seq
    BY DEF PInv, Subs
  <2>7. \A k \in DOMAIN agents : agents[k].seq < sub[agents[k].c].seq
    BY DEF PInv, Agents
  <2> QED BY <2>1, <2>2, <2>3, <2>4, <2>5, <2>6, <2>7 DEF TypeOK
<1> QED BY <1>1, Invariance, PTL

(* Wherever it is, a presence reflects each op of the document there exactly *)
(* once: the value A holds and those it has not sent yet, the messages on    *)
(* the wires and in the agents, and what B shows.                            *)
THEOREM InStepCorrect == Spec => []InStep
<1>1. PInv => InStep
  <2> SUFFICES ASSUME PInv, ~sc.inOp PROVE LocalInStep /\ SentInStep /\ RemoteInStep
    BY DEF InStep
  <2>1. LocalInStep
    <3>1. loc.queue \in Seq([pv : Nat, p : Values]) /\ DOMAIN loc.queue = 1..Len(loc.queue)
      BY LenProperties DEF PInv, Local, LocalIs
    <3> QED BY <3>1 DEF PInv, Local, LocalIs, LocalInStep, InStepAt
  <2>2. RemoteInStep
    BY DEF PInv, Remote, RemoteInStep, InStepAt
  <2>3. \A m \in Sent : Reflects(m.p, {log[i] : i \in 1..m.v})
    BY DEF Sent, InStepAt, OpsUpTo
  <2>4. ASSUME NEW m \in Broadcast PROVE m \in Sent
    <3>1. jobs \subseteq Job /\ agents \in [1..MaxAgents -> Agent]
      BY DEF PInv, Agents
    <3> QED BY <3>1 DEF Broadcast, Job, Agent
  <2>5. ASSUME NEW c \in Client, NEW m \in Range(up[c]) \cup Range(down[c]), m.a = "p"
        PROVE  m \in Sent
    <3>1. up[c] \in Seq(Messages) /\ down[c] \in Seq(Messages)
      BY DEF PInv, Traffic
    <3>2. \A q \in Seq(Messages) : \A x \in Range(q) : x \in Messages
      BY RangeEquality, ElementOfSeq
    <3>3. m \in Messages
      BY <3>1, <3>2
    <3> QED BY <3>3, <2>5 DEF Messages
  <2>6. SentInStep
    BY <2>3, <2>4, <2>5 DEF SentInStep
  <2> QED BY <2>1, <2>2, <2>6
<1> QED BY <1>1, Invariance, PTL

(* No step takes B back to a presence that A submitted before the one it     *)
(* shows.                                                                    *)
LEMMA StepNeverBack ==
    ASSUME PInv, [Next]_vars
    PROVE  rem.pv # None /\ rem'.pv # None => rem'.pv >= rem.pv
<1>1. rem.pv # None => rem.pv >= rem.pv
  BY DEF PInv, Remote, Shape
<1> DEFINE Same == rem'.pv = rem.pv
<1>2. ASSUME NEW o \in Op, NEW version \in Nat, rem' = RemoteHandleOp(o, version)
      PROVE  Same
  <2>1. CASE ~rem.on
    BY <1>2, <2>1 DEF RemoteHandleOp
  <2>2. CASE rem.on
    <3>1. rem \in Shape(0..(loc.pv - 1), 0..Len(log))
      BY DEF PInv, Remote
    <3> QED BY <1>2, <2>2, <3>1, RemoteHandleOpIs
  <2> QED BY <2>1, <2>2
<1>3. ASSUME NEW c \in Client, SubmitOp(c) PROVE Same
  <2>1. /\ infl'[c] \in Op /\ ver[c] \in Nat
        /\ OpEvent(c, infl'[c], ver[c], DocOps(c) \cup {infl'[c]})
    BY <1>3, SubmitOpDocument, MadeIs DEF PInv
  <2> QED BY <1>2, <2>1 DEF OpEvent
<1>4. ASSUME NEW c \in Client, NextOp(c) PROVE Same
  <2> DEFINE o == log[ver[c] + 1]
             v == ver[c] + 1
             ops == DocOps(c) \cup {o}
  <2>1. v \in Nat
    <3>1. ver[c] \in Nat
      BY MadeIs DEF PInv
    <3> QED BY <3>1
  <2>2. o \in Op /\ (UNCHANGED rem \/ OpEvent(c, o, v, ops))
    BY <1>4, NextOpDocument DEF PInv
  <2> HIDE DEF o, v, ops
  <2> QED BY <1>2, <2>1, <2>2 DEF OpEvent
<1>5. ASSUME NEW c \in Client, Receive(c) PROVE Same
  <2>1. rem' = rem \/ rem' = receiveUpdate(Head(down[c]))
    BY <1>5 DEF Receive
  <2>2. rem \in Shape(0..(loc.pv - 1), 0..Len(log))
    BY DEF PInv, Remote
  <2> QED BY <2>1, <2>2 DEF receiveUpdate, Shape
<1>6. CASE _setPendingPresence
  BY <1>6, SetPendingRemote DEF PInv
<1>7. ASSUME UNCHANGED rem PROVE Same
  BY <1>7
<1>8. ASSUME \/ \E p : SubmitPresence(p)
             \/ \E want : Call(want)
             \/ SendPending \/ Fetch
             \/ UNCHANGED vars
      PROVE  UNCHANGED rem
  BY <1>8 DEF SubmitPresence, Call, SendPending, Fetch, vars
<1>9. ASSUME NEW c, Commit(c) \/ Take(c) \/ Reconnect(c) \/ Drop(c) PROVE UNCHANGED rem
  BY <1>9 DEF Commit, Take, Reconnect, Drop
<1>10. ASSUME NEW k, Cleanup(k) \/ LatestDocVersion(k) \/ \E seq \in agents[k].opening : StreamOpened(k, seq)
       PROVE  UNCHANGED rem
  BY <1>10 DEF Cleanup, LatestDocVersion, StreamOpened
<1>11. ASSUME NEW j, BroadcastStart(j) \/ BroadcastTransformed(j) PROVE UNCHANGED rem
  BY <1>11 DEF BroadcastStart, BroadcastTransformed
<1>12. Same \/ _setPendingPresence
  BY <1>3, <1>4, <1>5, <1>7, <1>8, <1>9, <1>10, <1>11 DEF Next, Application, Progress
<1> QED BY <1>1, <1>6, <1>12

THEOREM NeverBackCorrect == Spec => NeverBack
<1>1. PInv /\ [Next]_vars => [rem.pv # None /\ rem'.pv # None => rem'.pv >= rem.pv]_rem
  BY StepNeverBack
<1> QED BY <1>1, Invariance, PTL DEF Spec, NeverBack
===============================================================================
