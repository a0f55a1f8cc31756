------------------------------ MODULE Presence ------------------------------
(* The presence of a client A in a document, as a client B sees it: the      *)
(* LocalDocPresence of A, the agents that broadcast it, pubsub, the          *)
(* RemoteDocPresence of B, and the ops of both on the document, which travel *)
(* on a way of their own.  Both subscribe to the presence channel.           *)
(*                                                                           *)
(* A presence value is [n, refl]: which submission it is, and the ops it     *)
(* reflects, each with the isOwnOp that it was transformed with.  A value    *)
(* transformed by the same op twice reflects Twice.  Sync has the details of *)
(* the document itself: here a client has one op of its own at a time, and   *)
(* gets those of the log in order.                                           *)
EXTENDS Integers, Sequences, SequencesExt, FiniteSets, FiniteSetsExt

CONSTANTS
    None, Twice, Asked,
    Scenarios     \* sets of bounds, one is chosen at Init; see `sc'

VARIABLES
    sc,        \* [ops, submits, nulls, drops, calls, joined, docSub, inOp]
    log,       \* the ops on the document, by version
    ver, infl, \* [Client -> doc.version], [Client -> doc.inflightOp]
    fetch,     \* B's fetch: None, Asked, or the version that it brings
    live,      \* [Client -> connection.canSend]
    loc,       \* A's local presence: [value, pv, n, queue, sending]
    rem,       \* B's remote presence: [on, value, pv, pend, cache, setting]
    sub,       \* [Client -> presence.subscribe, unsubscribe]: see NewSub
    calls,     \* B's calls of them whose callback has not been called
    up, down,  \* [Client -> messages to and from its agent]
    cur,       \* [Client -> its agent]
    agents,    \* [1..MaxAgents -> Agent], with the subscriptions and requests
    jobs       \* presence messages that agents are broadcasting

document == <<log, ver, infl, fetch>>
wires == <<up, down, cur, live>>
vars == <<sc, document, loc, rem, sub, calls, wires, agents, jobs>>

A == "A"
B == "B"
Client == {A, B}
Op == [c : Client, n : Nat]
MaxAgents == 2 + Max({s.drops : s \in Scenarios})
ASSUME ScenariosAssumption ==
    /\ IsFiniteSet(Scenarios) /\ Scenarios # {}
    /\ Scenarios \subseteq [ops : Nat, submits : Nat, drops : Nat, calls : Nat,
                            nulls : BOOLEAN, joined : BOOLEAN, docSub : BOOLEAN,
                            inOp : BOOLEAN]
ASSUME NoneAssumption == None \notin Nat \cup Op

First == [c \in Client |-> IF c = A THEN 1 ELSE 2]
NewAgent(c) == [c |-> c, open |-> TRUE, stream |-> FALSE, seq |-> 0,
                opening |-> {}, req |-> None, latest |-> None]
NewRem == [on |-> FALSE, value |-> None, pv |-> None, pend |-> None,
           cache |-> None, setting |-> FALSE]
------------------------------------------------------------------------------
(* type.transformPresence.  None is the null presence.                       *)
Transform(p, o, isOwnOp) ==
    CASE p = None -> None
      [] p # None /\ (\E e \in p.refl : e # Twice /\ e[1] = o) ->
            [p EXCEPT !.refl = @ \cup {Twice}]
      [] OTHER -> [p EXCEPT !.refl = @ \cup {<<o, isOwnOp>>}]

(* backend.transformPresenceToLatestVersion.                                 *)
ToLatest(m) ==
    LET through[v \in m.v..Len(log)] ==
            IF v = m.v THEN m.p
            ELSE Transform(through[v - 1], log[v], log[v].c = A)
    IN  [m EXCEPT !.v = Len(log), !.p = through[Len(log)]]

DocOps(c) == {log[i] : i \in 1..ver[c]}
             \cup IF infl[c] = None THEN {} ELSE {infl[c]}
hasPending(c) == infl[c] # None \/ (c = B /\ fetch # None)
------------------------------------------------------------------------------
(* LocalDocPresence.                                                         *)

(* send: the message waits until the doc has nothing pending.                *)
LocalSend(l, p) == [l EXCEPT !.queue = Append(@, [pv |-> l.pv, p |-> p]),
                             !.pv = @ + 1, !.sending = TRUE]
LocalSubmit(l, p) == LocalSend([l EXCEPT !.value = p, !.n = @ + 1], p)

(* Bug: the messages that wait are not transformed.                          *)
_transformValue(l, o, isOwnOp, fresh) == [l EXCEPT !.value = Transform(@, o, isOwnOp)]

(* _transformAgainstOp.  Of the messages those are left alone that were      *)
(* submitted by a listener of this very op (fresh).                          *)
_transformAgainstOp(l, o, isOwnOp, fresh) ==
    [l EXCEPT
        !.value = Transform(@, o, isOwnOp),
        !.queue = [i \in DOMAIN l.queue |->
            IF l.queue[i].pv \in fresh THEN l.queue[i]
            ELSE [pv |-> l.queue[i].pv, p |-> Transform(l.queue[i].p, o, isOwnOp)]]]

(* The op event at A.  A listener registered before the presence may submit  *)
(* a value that is up to date with the op.                                   *)
OpAtA(o, ops) ==
    \/ loc' = _transformAgainstOp(loc, o, o.c = A, {})
    \/ /\ sc.inOp /\ loc.n < sc.submits
       /\ LET p == [n |-> loc.n + 1, refl |-> {<<x, x.c = A>> : x \in ops}]
          IN  loc' = _transformAgainstOp(LocalSubmit(loc, p), o, o.c = A, {loc.pv})

SubmitPresence(p) ==
    /\ loc.n < sc.submits
    /\ loc' = LocalSubmit(loc, p)
    /\ UNCHANGED <<sc, document, rem, sub, calls, wires, agents, jobs>>

(* _sendPending, once nothing is pending.                                    *)
SendPending ==
    /\ loc.sending /\ ~hasPending(A)
    /\ loc' = [loc EXCEPT !.sending = FALSE, !.queue = IF live[A] THEN << >> ELSE @]
    /\ up' = IF ~live[A] THEN up ELSE [up EXCEPT ![A] = @ \o
                [i \in DOMAIN loc.queue |-> [a |-> "p", v |-> ver[A],
                    pv |-> loc.queue[i].pv, p |-> loc.queue[i].p]]]
    /\ UNCHANGED <<sc, document, rem, sub, calls, down, cur, live, agents, jobs>>
------------------------------------------------------------------------------
(* RemoteDocPresence.                                                        *)

(* _cacheOp: an op is filed under the version before the doc's.              *)
_cacheOp(r, o, isOwnOp, version) ==
    IF r.cache = None THEN r
    ELSE [r EXCEPT !.cache = {e \in @ : e.v # version - 1}
                             \cup {[v |-> version - 1, o |-> o, own |-> isOwnOp]}]

(* _handleOp, on the op event at B: `version' is the doc's after it.         *)
RemoteHandleOp(o, version) ==
    IF ~rem.on THEN rem
    ELSE LET own == o.c = A
             t == [rem EXCEPT !.value = Transform(@, o, own)]
         IN  [_cacheOp(t, o, own, version) EXCEPT !.setting = TRUE]

(* Bug: only a first presence is looked at.                                  *)
receiveUpdateOnce(m) ==
    IF rem.pend # None THEN rem
    ELSE [rem EXCEPT !.on = TRUE, !.setting = TRUE,
                     !.pend = [pv |-> m.pv, p |-> m.p, v |-> m.v]]

receiveUpdate(m) ==
    IF rem.pend # None /\ m.pv < rem.pend.pv THEN rem
    ELSE [rem EXCEPT !.on = TRUE, !.setting = TRUE,
                     !.pend = [pv |-> m.pv, p |-> m.p, v |-> m.v]]

(* The walk of _catchUpStalePresence through the cache, from version v on.   *)
CaughtUp(r) ==
    LET at(v) == {e \in r.cache : e.v = v}
        end == Min({v \in r.pend.v..(r.pend.v + Cardinality(r.cache)) : at(v) = {}})
        through[v \in r.pend.v..end] ==
            IF v = r.pend.v THEN r.pend.p
            ELSE LET e == CHOOSE x \in at(v - 1) : TRUE
                 IN  Transform(through[v - 1], e.o, e.own)
    IN  [r.pend EXCEPT !.v = end, !.p = through[end]]

(* Bug: the version of the presence is not noted.                            *)
ShownUnversioned(r) == IF r.pend.p = None THEN NewRem
                       ELSE [r EXCEPT !.value = r.pend.p, !.pend = None]

(* _updateRemotePresence: a null presence is removed.                        *)
Shown(r) == IF r.pend.p = None THEN NewRem
            ELSE [r EXCEPT !.value = r.pend.p, !.pv = r.pend.pv, !.pend = None]

(* Bug: a presence older than the one that is shown is taken all the same.   *)
OutdatedNever(r) == FALSE
Outdated(r) == r.pv # None /\ r.pend.pv < r.pv

(* _setPendingPresence, once B's doc has nothing pending.  It asks for a     *)
(* fetch when the presence is ahead of the doc; when it is behind it is      *)
(* caught up from the cache or, without one, A is asked to send it again.    *)
_setPendingPresence ==
    LET r == [rem EXCEPT !.setting = FALSE]
        caught == CaughtUp(r)
        ask(f, msgs) == fetch' = f /\ up' = [up EXCEPT ![B] = @ \o msgs]
        keep == UNCHANGED <<fetch, up>>
    IN  /\ rem.setting /\ ~hasPending(B)
        /\ \/ /\ r.pend = None
              /\ rem' = r /\ keep
           \/ /\ r.pend # None /\ Outdated(r)
              /\ rem' = [r EXCEPT !.pend = None] /\ keep
           \/ /\ r.pend # None /\ ~Outdated(r)
              /\ CASE r.pend.v > ver[B] -> rem' = r /\ ask(Asked, << >>)
                   [] r.pend.v = ver[B] -> rem' = Shown(r) /\ keep
                   [] r.pend.v < ver[B] /\ r.cache = None ->
                        /\ rem' = [r EXCEPT !.cache = {}]
                        /\ ask(Asked, IF live[B] THEN <<[a |-> "req"]>> ELSE << >>)
                   [] OTHER ->
                        /\ rem' = IF caught.v >= ver[B]
                                  THEN Shown([r EXCEPT !.pend = caught, !.cache = None])
                                  ELSE [r EXCEPT !.pend = caught]
                        /\ keep
        /\ UNCHANGED <<sc, log, ver, infl, loc, sub, calls, down, cur, live,
                       agents, jobs>>
------------------------------------------------------------------------------
(* The document.                                                             *)
OpEvent(c, o, version, ops) ==
    IF c = A THEN OpAtA(o, ops) /\ UNCHANGED rem
    ELSE rem' = RemoteHandleOp(o, version) /\ UNCHANGED loc

SubmitOp(c) ==
    LET made == Len(log) + Cardinality({d \in Client :
                    infl[d] # None /\ infl[d] \notin Range(log)})
        o == [c |-> c, n |-> made + 1]
    IN  /\ infl[c] = None /\ made < sc.ops
        /\ infl' = [infl EXCEPT ![c] = o]
        /\ OpEvent(c, o, ver[c], DocOps(c) \cup {o})
        /\ UNCHANGED <<sc, log, ver, fetch, sub, calls, wires, agents, jobs>>

Commit(c) ==
    /\ live[c] /\ infl[c] # None
    /\ infl[c] \notin Range(log)
    /\ log' = Append(log, infl[c])
    /\ UNCHANGED <<sc, ver, infl, fetch, loc, rem, sub, calls, wires, agents, jobs>>

(* The next op reaches c: by its subscription, by a fetch, or ahead of the   *)
(* acknowledgement of its own.  That one is no op event.                     *)
NextOp(c) ==
    LET o == log[ver[c] + 1] IN
    /\ live[c] /\ ver[c] < Len(log)
    /\ \/ c = A \/ sc.docSub \/ infl[c] \in Range(log)
       \/ fetch \notin {None, Asked} /\ ver[c] < fetch
    /\ ver' = [ver EXCEPT ![c] = @ + 1]
    /\ IF o = infl[c] THEN infl' = [infl EXCEPT ![c] = None] /\ UNCHANGED <<loc, rem>>
       ELSE UNCHANGED infl /\ OpEvent(c, o, ver[c] + 1, DocOps(c) \cup {o})
    /\ UNCHANGED <<sc, log, fetch, sub, calls, wires, agents, jobs>>

Fetch ==
    /\ live[B]
    /\ \/ fetch = Asked /\ fetch' = Len(log)
       \/ fetch \notin {None, Asked} /\ ver[B] >= fetch /\ fetch' = None
    /\ UNCHANGED <<sc, log, ver, infl, loc, rem, sub, calls, wires, agents, jobs>>
------------------------------------------------------------------------------
(* Presence.subscribe and unsubscribe.                                       *)
NewSub == [want |-> TRUE, subd |-> FALSE, seq |-> 2,
           cbs |-> {[seq |-> 1, calls |-> {}]}]

(* _sendSubscriptionAction, by B, with a callback.                           *)
Call(want) ==
    LET s == sub[B]
        k == sc.calls
        same == want = s.want
        last == Max({e.seq : e \in s.cbs})
    IN  /\ k > 0
        /\ sc' = [sc EXCEPT !.calls = k - 1]
        /\ CASE same /\ want = s.subd -> UNCHANGED <<sub, up, calls>>
             [] same /\ want # s.subd /\ s.cbs # {} ->
                  /\ sub' = [sub EXCEPT ![B].cbs = {IF e.seq = last
                        THEN [e EXCEPT !.calls = e.calls \cup {k}] ELSE e : e \in s.cbs}]
                  /\ calls' = calls \cup {k}
                  /\ UNCHANGED up
             [] OTHER ->
                  /\ sub' = [sub EXCEPT ![B] = [s EXCEPT !.want = want, !.seq = @ + 1,
                        !.cbs = @ \cup {[seq |-> s.seq, calls |-> {k}]}]]
                  /\ calls' = calls \cup {k}
                  /\ up' = IF ~live[B] THEN up ELSE [up EXCEPT ![B] = Append(@,
                        [a |-> IF want THEN "sub" ELSE "unsub", seq |-> s.seq])]
        /\ UNCHANGED <<document, loc, rem, down, cur, live, agents, jobs>>

(* _handleSubscribe and _handleUnsubscribe.                                  *)
Subscribed(s, m) ==
    [s EXCEPT !.subd = IF m.a = "sub" THEN @ \/ s.want ELSE FALSE,
              !.cbs = {e \in @ : e.seq # m.seq}]
CalledBack(s, m) ==
    UNION {e.calls : e \in {x \in s.cbs : x.seq = m.seq}}

(* _onConnectionStateChanged.                                                *)
Drop(c) ==
    /\ live[c] /\ sc.drops > 0
    /\ sc' = [sc EXCEPT !.drops = @ - 1]
    /\ live' = [live EXCEPT ![c] = FALSE]
    /\ sub' = [sub EXCEPT ![c].subd = FALSE]
    /\ up' = [up EXCEPT ![c] = << >>] /\ down' = [down EXCEPT ![c] = << >>]
    /\ UNCHANGED <<document, loc, rem, calls, cur, agents, jobs>>

(* Back with another agent: a fetch is sent again; _resubscribe asks anew    *)
(* for what is wanted, with all the callbacks, or calls them; what waits to  *)
(* be sent is sent.                                                          *)
Reconnect(c) ==
    LET s == sub[c]
        k == Max(Range(cur)) + 1
        cbs == UNION {e.calls : e \in s.cbs}
    IN  /\ ~live[c]
        /\ live' = [live EXCEPT ![c] = TRUE]
        /\ cur' = [cur EXCEPT ![c] = k]
        /\ agents' = [agents EXCEPT ![k] = NewAgent(c)]
        /\ IF s.want
           THEN /\ sub' = [sub EXCEPT ![c] = [s EXCEPT !.seq = @ + 1,
                            !.cbs = {[seq |-> s.seq, calls |-> cbs]}]]
                /\ up' = [up EXCEPT ![c] = <<[a |-> "sub", seq |-> s.seq]>>]
                /\ UNCHANGED calls
           ELSE /\ sub' = [sub EXCEPT ![c].cbs = {}]
                /\ calls' = calls \ cbs
                /\ UNCHANGED up
        /\ loc' = IF c = A THEN [loc EXCEPT !.sending = @ \/ loc.queue # << >>] ELSE loc
        /\ fetch' = IF c = B /\ fetch # None THEN Asked ELSE fetch
        /\ UNCHANGED <<sc, log, ver, infl, rem, down, jobs>>

Receive(c) ==
    LET m == Head(down[c]) IN
    /\ down[c] # << >>
    /\ down' = [down EXCEPT ![c] = Tail(@)]
    /\ IF m.a \in {"sub", "unsub"}
       THEN /\ sub' = [sub EXCEPT ![c] = Subscribed(@, m)]
            /\ calls' = calls \ CalledBack(sub[c], m)
       ELSE UNCHANGED <<sub, calls>>
    /\ rem' = IF c = B /\ m.a = "p" THEN receiveUpdate(m) ELSE rem
    \* _broadcastAllLocalPresence
    /\ loc' = IF c = A /\ m.a = "req" /\ loc.value # None
              THEN LocalSend(loc, loc.value) ELSE loc
    /\ UNCHANGED <<sc, document, up, cur, live, agents, jobs>>
------------------------------------------------------------------------------
(* The agents.                                                               *)

(* What pubsub brings to the agents that hold a stream of the channel: not   *)
(* what its own client has sent.  (A request carries the clientId of the     *)
(* agent, which after a reconnect is not the src any more.)                  *)
Hears(k, c, m) ==
    /\ live[c] /\ cur[c] = k /\ agents[k].stream
    /\ CASE m.a = "p" -> c # A [] OTHER -> m.src # First[c]
Published(m, to) ==
    [c \in Client |-> IF Hears(cur[c], c, m) THEN Append(to[c], m) ELSE to[c]]
Reply(k, c, m, to) == IF live[c] /\ cur[c] = k THEN [to EXCEPT ![c] = Append(@, m)]
                      ELSE to

(* The 'end' of a presence stream broadcasts null for the last request, an   *)
(* object that a broadcast on its way may share.                             *)
EndStream(ags, js, k) ==
    IF ags[k].stream /\ ags[k].req # None
    THEN [agents |-> [ags EXCEPT ![k].stream = FALSE, ![k].req = None],
          jobs |-> {IF j.k = k /\ j.m.pv = ags[k].req.pv /\ j.stage = "transform"
                    THEN [j EXCEPT !.m.p = None] ELSE j : j \in js}
                   \cup {[k |-> k, m |-> [ags[k].req EXCEPT !.p = None],
                          stage |-> "end"]}]
    ELSE [agents |-> [ags EXCEPT ![k].stream = FALSE], jobs |-> js]

Take(c) ==
    LET k == cur[c]
        m == Head(up[c])
        rest == [up EXCEPT ![c] = Tail(@)]
        ended == EndStream(agents, jobs, k)
    IN  /\ live[c] /\ up[c] # << >>
        /\ up' = rest
        /\ CASE m.a = "p" ->
                  /\ jobs' = jobs \cup {[k |-> k, m |-> m, stage |-> "version"]}
                  /\ UNCHANGED <<down, agents>>
             [] m.a = "req" ->
                  /\ down' = Published([a |-> "req", src |-> k], down)
                  /\ UNCHANGED <<agents, jobs>>
             [] m.a = "sub" /\ agents[k].stream ->
                  /\ agents' = [agents EXCEPT ![k].seq = m.seq]
                  /\ down' = Reply(k, c, m, down) /\ UNCHANGED jobs
             [] m.a = "sub" /\ ~agents[k].stream ->
                  /\ agents' = [agents EXCEPT ![k].opening = @ \cup {m.seq}]
                  /\ UNCHANGED <<down, jobs>>
             [] m.a = "unsub" ->
                  /\ agents' = [ended.agents EXCEPT ![k].seq = m.seq]
                  /\ jobs' = ended.jobs
                  /\ down' = Reply(k, c, m, down)
        /\ UNCHANGED <<sc, document, loc, rem, sub, calls, cur, live>>

(* pubsub has opened the stream that a subscribe asked for: it is stale when *)
(* a younger request came in between.                                        *)
StreamOpened(k, seq) ==
    LET c == agents[k].c
        m == [a |-> "sub", seq |-> seq]
        opened == [agents EXCEPT ![k].opening = @ \ {seq}]
    IN  /\ seq \in agents[k].opening
        /\ IF seq < agents[k].seq
           THEN agents' = opened /\ down' = Reply(k, c, m, down)
           ELSE /\ agents' = [opened EXCEPT ![k].seq = seq,
                                            ![k].stream = agents[k].open]
                /\ LET req == [a |-> "req", src |-> k]
                       heard(d) == \/ Hears(cur[d], d, req)
                                   \/ d = c /\ live[c] /\ cur[c] = k /\ k # First[c]
                   IN  down' = Reply(k, c, m, [d \in Client |->
                          IF heard(d) THEN Append(down[d], req) ELSE down[d]])
        /\ UNCHANGED <<sc, document, loc, rem, sub, calls, up, cur, live, jobs>>

(* _broadcastPresence, up to the decision whether it needs transforming.     *)
(* _subscribeDocVersion reads the version at its first presence, and         *)
(* _unsubscribeDocVersion forgets it at a null.                              *)
BroadcastStart(j) ==
    LET g == agents[j.k]
        latest == CASE j.m.p = None -> None
                    [] j.m.p # None /\ g.latest = None -> Len(log)
                    [] OTHER -> g.latest
        req == IF g.req = None \/ g.req.pv < j.m.pv THEN j.m ELSE g.req
    IN  /\ j.stage \in {"version", "end"}
        /\ agents' = [agents EXCEPT ![j.k].latest = latest, ![j.k].req = req]
        /\ IF j.m.v = latest
           THEN jobs' = jobs \ {j} /\ down' = Published(j.m, down)
           ELSE /\ jobs' = (jobs \ {j}) \cup {[j EXCEPT !.stage = "transform"]}
                /\ UNCHANGED down
        /\ UNCHANGED <<sc, document, loc, rem, sub, calls, up, cur, live>>

BroadcastTransformed(j) ==
    LET m == ToLatest(j.m) IN
    /\ j.stage = "transform"
    /\ jobs' = jobs \ {j}
    /\ down' = Published(m, down)
    /\ agents' = IF agents[j.k].req # None /\ agents[j.k].req.pv = m.pv
                 THEN [agents EXCEPT ![j.k].req = m] ELSE agents
    /\ UNCHANGED <<sc, document, loc, rem, sub, calls, up, cur, live>>

(* The op stream of _subscribeDocVersion.                                    *)
LatestDocVersion(k) ==
    /\ agents[k].latest # None /\ agents[k].latest < Len(log)
    /\ agents' = [agents EXCEPT ![k].latest = @ + 1]
    /\ UNCHANGED <<sc, document, loc, rem, sub, calls, wires, jobs>>

Cleanup(k) ==
    LET ended == EndStream(agents, jobs, k) IN
    /\ agents[k].open /\ (~live[agents[k].c] \/ cur[agents[k].c] # k)
    /\ agents' = [ended.agents EXCEPT ![k].open = FALSE, ![k].latest = None]
    /\ jobs' = ended.jobs
    /\ UNCHANGED <<sc, document, loc, rem, sub, calls, wires>>
------------------------------------------------------------------------------
(* A has subscribed to the channel, and B has or has just asked to.         *)
Joined(c) == c = A \/ sc.joined

Init ==
    /\ sc \in Scenarios
    /\ log = << >> /\ fetch = None
    /\ ver = [c \in Client |-> 0] /\ infl = [c \in Client |-> None]
    /\ live = [c \in Client |-> TRUE]
    /\ loc = [value |-> None, pv |-> 0, n |-> 0, queue |-> << >>, sending |-> FALSE]
    /\ rem = NewRem
    /\ calls = {}
    /\ sub = [c \in Client |-> IF Joined(c) THEN [NewSub EXCEPT !.subd = TRUE, !.cbs = {}]
                               ELSE NewSub]
    /\ up = [c \in Client |-> IF Joined(c) THEN << >> ELSE <<[a |-> "sub", seq |-> 1]>>]
    /\ down = [c \in Client |-> << >>]
    /\ cur = First
    /\ agents = [k \in 1..MaxAgents |->
          LET c == IF k = 1 THEN A ELSE B IN
          IF k \in Range(First) /\ Joined(c)
          THEN [NewAgent(c) EXCEPT !.stream = TRUE, !.seq = 1] ELSE NewAgent(c)]
    /\ jobs = {}

Application ==
    \/ \E c \in Client : SubmitOp(c)
    \/ SubmitPresence([n |-> loc.n + 1, refl |-> {<<o, o.c = A>> : o \in DocOps(A)}])
    \/ sc.nulls /\ SubmitPresence(None)
    \/ \E want \in BOOLEAN : Call(want)
Progress ==
    \/ SendPending \/ _setPendingPresence \/ Fetch
    \/ \E c \in Client : Commit(c) \/ NextOp(c) \/ Receive(c) \/ Take(c) \/ Reconnect(c)
    \/ \E k \in 1..MaxAgents : \/ Cleanup(k) \/ LatestDocVersion(k)
                               \/ \E seq \in agents[k].opening : StreamOpened(k, seq)
    \/ \E j \in jobs : BroadcastStart(j) \/ BroadcastTransformed(j)
Next == Application \/ Progress \/ \E c \in Client : Drop(c)

(* The code's own steps are not put off for ever.                            *)
Spec == Init /\ [][Next]_vars /\ WF_vars(Progress)
------------------------------------------------------------------------------
Broadcast == {j.m : j \in jobs} \cup {agents[k].req : k \in {l \in DOMAIN agents :
                                                       agents[l].req # None}}

(* Versions, sequence numbers and presence versions stay behind what they    *)
(* count, and a remote presence has no cache without a presence to catch up  *)
(* (client/presence/remote-doc-presence.js).                                 *)
TypeOK ==
    /\ ver \in [Client -> 0..Len(log)] /\ live \in [Client -> BOOLEAN]
    /\ fetch \in {None, Asked} \cup 0..Len(log)
    /\ \A m \in Broadcast : m.pv < loc.pv /\ m.v \in 0..Len(log)
    /\ rem.value # None => rem.pv # None /\ rem.pv < loc.pv
    /\ rem.setting \/ rem.pend # None \/ rem.cache # None => rem.on
    /\ \A c \in Client : \A e \in sub[c].cbs : e.seq < sub[c].seq
    /\ \A k \in DOMAIN agents : agents[k].seq < sub[agents[k].c].seq

Reflects(p, ops) == p = None \/ p.refl = {<<o, o.c = A>> : o \in ops}

LocalInStep ==
    /\ Reflects(loc.value, DocOps(A))
    /\ \A i \in DOMAIN loc.queue : Reflects(loc.queue[i].p, DocOps(A))

SentInStep ==
    \A m \in Broadcast \cup {m \in UNION {Range(up[c]) \cup Range(down[c]) : c \in Client} :
                              m.a = "p"} :
        Reflects(m.p, {log[i] : i \in 1..m.v})

RemoteInStep == Reflects(rem.value, DocOps(B))

(* Wherever it is, a presence reflects each op of the document there exactly *)
(* once, and whose it is: the value A holds and its queue those of A's       *)
(* document, what was sent those up to its version, and what B shows those   *)
(* of B's document, also when ops and presence come in any order             *)
(* (local-doc-presence.js: _transformAgainstOp; backend.js:                  *)
(* transformPresenceToLatestVersion; remote-doc-presence.js: _handleOp,      *)
(* _catchUpStalePresence).  A value that a listener of an op submits is      *)
(* transformed by that op once more, so inOp is left out.                    *)
InStep == sc.inOp \/ (LocalInStep /\ SentInStep /\ RemoteInStep)

(* B never goes back to a presence that A submitted before the one it shows, *)
(* unless the presence was removed in between, whatever broadcast overtakes  *)
(* another (remote-doc-presence.js: _setPendingPresence).                    *)
NeverBack == [][rem.pv # None /\ rem'.pv # None => rem'.pv >= rem.pv]_rem

(* For good: every callback of subscribe and unsubscribe has been called,    *)
(* and the agent has a stream exactly when the client wants one and says so  *)
(* (presence.js: _sendSubscriptionAction; agent.js: _subscribePresence).  B, *)
(* if it subscribes, shows what A has submitted last, or is left with an old *)
(* presence that its op cache cannot catch up and that nothing asks for      *)
(* again (remote-doc-presence.js: _catchUpStalePresence).                    *)
SubSettled ==
    /\ calls = {}
    /\ \A c \in Client : sub[c].subd = sub[c].want /\ agents[cur[c]].stream = sub[c].want
LeftBehind == rem.pend # None /\ rem.cache # None
Settles ==
    <>[](/\ SubSettled
         /\ sub[B].want /\ loc.value # None =>
                LeftBehind \/ (rem.value # None /\ rem.value.n = loc.value.n))

(* What docs/api/presence.md says of null: B does not show the presence of a *)
(* client that has submitted null for ever.                                  *)
Gone == <>[](loc.value = None => rem.value = None)
==============================================================================
