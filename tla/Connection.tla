----------------------------- MODULE Connection ----------------------------
(* A client Connection and the agents it meets on the server: the state      *)
(* machine of the connection, the handshake, how docs subscribe, unsubscribe *)
(* and fetch through a connection that comes and goes, alone or in bulk, the *)
(* streams the agents hold for them, snapshot requests, and                  *)
(* whenNothingPending.  What the ops do to the data is left to Sync: here a  *)
(* doc has a version only.  Every doc exists, created, from the start.       *)
EXTENDS Snapshots, Naturals, Sequences, SequencesExt, FiniteSets

CONSTANTS
    Doc,         \* the docs of one collection
    None,        \* null: no version, no request, no stream
    Scenarios    \* what a behaviour may do, chosen at Init; see `sc'

(* What a snapshot request is called back with, and the request.             *)
Answers == [error : {TRUE}]
           \cup [error : {FALSE}, snap : [v : Nat, data : Seq(Nat)]]
Requests == [d : Doc, ts : BOOLEAN, arg : Nat \cup {None}, sent : BOOLEAN,
             since : Nat, told : Answers \cup {None}]

ASSUME DocAssumption == IsFiniteSet(Doc)
ASSUME ScenariosAssumption ==
    /\ IsFiniteSet(Scenarios)
    /\ \A s \in Scenarios : s.commits \in Nat /\ s.agents \in Nat \ {0}
ASSUME NoneAssumption ==
    /\ None \notin Nat /\ None \notin Seq(Nat) /\ None \notin Requests
    /\ None \notin [want : BOOLEAN, cbs : SUBSET Nat]

VARIABLES
    sc,        \* [docs, calls, agents, commits, refuse, snaps, waits]: the
               \* docs used and the bounds of this behaviour
    state, canSend, id,   \* of the connection
    sock,      \* "opening", "open" or "closed": the socket bound to it
    cur,       \* the agent at the other end of that socket
    doc,       \* [Doc -> the client Doc]
    calls,     \* the calls made so far: [kind, d, told]
    waiter,    \* connection.whenNothingPending: [at, on]
    request,   \* the snapshot request: None or [arg, ts, sent, since, told]
    agents,    \* [1..MaxAgents -> [st, src, up, held]]
    down,      \* messages from agent `cur' on their way to the client
    jobs,      \* requests an agent is working on
    streams,   \* [Doc -> Nat]: the open streams of its channel in pubsub
    log,       \* [Doc -> the timestamps of its ops]
    saved      \* [Doc -> the versions saved as milestones]

client == <<state, canSend, id, sock, cur, doc, calls, waiter, request>>
server == <<agents, jobs, streams, log, saved>>
vars == <<sc, client, server, down>>

MaxAgents == Max({s.agents : s \in Scenarios})
Live(x) == x.st = "open"
Is(a) == sock = "open" /\ a = cur         \* what the agent sends arrives
------------------------------------------------------------------------------
(* The client Doc, as functions of the doc and of connection.canSend.  `out' *)
(* gathers what a step sends, `told' the callbacks it calls, `quiet' whether *)
(* it emits 'nothing pending'; a callback list is a set of calls, {} when    *)
(* there is no callback; `late' the callbacks that ingestSnapshot puts off   *)
(* to a setTimeout, or until the durable store has the doc.  `stray' is set  *)
(* when the request that a nextTick is for has been answered before it.      *)
NewDoc == [v |-> None, want |-> FALSE, subd |-> FALSE,
           infSub |-> None, penSub |-> << >>, infFetch |-> << >>,
           penFetch |-> << >>, ticks |-> 0, late |-> << >>, stray |-> FALSE,
           out |-> << >>, told |-> << >>, quiet |-> FALSE]

hasPending(x) == \/ x.infSub # None \/ x.penSub # << >>
                 \/ x.infFetch # << >> \/ x.penFetch # << >>

Tell(x, cbs, how) == [x EXCEPT !.told = Append(@, [cbs |-> cbs, how |-> how])]
_emitNothingPending(x) == [x EXCEPT !.quiet = @ \/ ~hasPending(x)]

(* Bug: sends a fetch for every call.                                       *)
_fetchEach(x, live, cbs) ==
    IF live THEN [x EXCEPT !.infFetch = Append(@, cbs),
                           !.out = Append(@, [a |-> "f", v |-> x.v])]
    ELSE [x EXCEPT !.penFetch = Append(@, cbs)]
_fetch(x, live, cbs) ==
    LET y == [x EXCEPT !.penFetch = Append(@, cbs)]
    IN  IF live /\ x.infFetch = << >>
        THEN [y EXCEPT !.infFetch = <<Head(y.penFetch)>>, !.penFetch = Tail(@),
                       !.out = Append(@, [a |-> "f", v |-> x.v])]
        ELSE y

(* Bug: stays subscribed until the unsubscribe is answered.                 *)
_flushSubscribeBoldly(x, live) ==
    IF x.infSub # None \/ x.penSub = << >> THEN x
    ELSE LET r == Head(x.penSub)
             taken == [x EXCEPT !.infSub = r, !.penSub = Tail(@)]
         IN  CASE live -> [taken EXCEPT
                       !.want = r.want,
                       !.out = Append(@, [a |-> IF r.want THEN "s" ELSE "u",
                                          v |-> IF r.want THEN x.v ELSE None])]
               [] ~live /\ ~r.want -> [taken EXCEPT !.ticks = @ + 1]
               [] OTHER -> x

(* One subscribe or unsubscribe at a time; offline, an unsubscribe is        *)
(* answered on the next tick.                                                *)
_flushSubscribe(x, live) ==
    IF x.infSub # None \/ x.penSub = << >> THEN x
    ELSE LET r == Head(x.penSub)
             taken == [x EXCEPT !.infSub = r, !.penSub = Tail(@)]
         IN  CASE live -> [taken EXCEPT
                       !.want = r.want, !.subd = @ /\ r.want,
                       !.out = Append(@, [a |-> IF r.want THEN "s" ELSE "u",
                                          v |-> IF r.want THEN x.v ELSE None])]
               [] ~live /\ ~r.want -> [taken EXCEPT !.ticks = @ + 1]
               [] OTHER -> x

_queueSubscribe(x, live, want, cbs) ==
    LET n == Len(x.penSub)
        sameAs(r) == r # None /\ r.want = want
    IN  CASE n > 0 /\ sameAs(x.penSub[n]) ->
                 [x EXCEPT !.penSub[n].cbs = @ \cup cbs]
          [] n = 0 /\ sameAs(x.infSub) -> [x EXCEPT !.infSub.cbs = @ \cup cbs]
          [] OTHER -> _flushSubscribe(
                 [x EXCEPT !.penSub = Append(@, [want |-> want, cbs |-> cbs])],
                 live)

(* `snap' is the version of the snapshot in the reply, None when the reply   *)
(* came with ops instead.                                                    *)
PutOff(x, cbs) == IF cbs = {} THEN x ELSE [x EXCEPT !.late = Append(@, cbs)]
ingestSnapshot(x, live, snap, cbs) ==
    CASE snap = None -> PutOff(x, cbs)
      [] snap # None /\ x.v = None -> PutOff([x EXCEPT !.v = snap], cbs)
      [] snap # None /\ x.v # None /\ snap > x.v -> _fetch(x, live, cbs)
      [] OTHER -> PutOff(x, cbs)

(* A read that was rejected silently is no error to the callback.            *)
_emitResponseError(x, cbs, how) ==
    _emitNothingPending(
        Tell([x EXCEPT !.want = @ /\ how # "silent"], cbs, how))

FetchAnswered(x) ==
    [cbs |-> UNION Range(x.infFetch) \cup UNION Range(x.penFetch),
     doc |-> [x EXCEPT !.penFetch = << >>, !.infFetch = << >>]]
(* Bug: takes an error for a reply without a snapshot.                      *)
_handleFetchGladly(x, live, r) ==
    LET f == FetchAnswered(x)
    IN  _emitNothingPending(ingestSnapshot(f.doc, live, r.v, f.cbs))
_handleFetch(x, live, r) ==
    LET first == IF x.infFetch = << >> THEN {} ELSE Head(x.infFetch)
        cbs == first \cup UNION Range(x.penFetch)
        y == [x EXCEPT !.penFetch = << >>,
                       !.infFetch = IF @ = << >> THEN @ ELSE Tail(@)]
    IN  IF r.how # "ok" THEN _emitResponseError(y, cbs, r.how)
        ELSE _emitNothingPending(ingestSnapshot(y, live, r.v, cbs))

(* The code takes the callback of a request that is not there: a TypeError,  *)
(* and the callbacks of the pending fetches are gone.                        *)
_handleSubscribe(x, live, r) ==
    LET s == x.infSub
        y == [x EXCEPT !.infSub = None, !.penFetch = << >>]
        cbs == s.cbs \cup UNION Range(x.penFetch)
        z == [y EXCEPT !.subd = s.want]
    IN  CASE s = None -> y
          [] s # None /\ r.how # "ok" -> _emitResponseError(y, cbs, r.how)
          [] OTHER ->
              LET w == IF s.want THEN ingestSnapshot(z, live, r.v, cbs)
                                 ELSE Tell(z, cbs, "ok")
              IN  _flushSubscribe(_emitNothingPending(w), live)

Plain == [how |-> "ok", v |-> None]

(* _resubscribe, when the connection has come up.                            *)
_resubscribe(x) ==
    IF x.penSub = << >> /\ x.want THEN _queueSubscribe(x, TRUE, TRUE, {})
    ELSE LET willFetch == \E i \in DOMAIN x.penSub : x.penSub[i].want
         IN  _flushSubscribe(IF ~willFetch /\ x.penFetch # << >>
                             THEN _fetch(x, TRUE, {}) ELSE x, TRUE)

(* Bug: waits for the answer to a subscribe that the drop has lost.         *)
DocStateChangedInVain(x, live) ==
    IF live THEN _resubscribe(x)
    ELSE LET y == [x EXCEPT !.subd = FALSE]
             z == IF y.infSub # None /\ ~y.infSub.want
                  THEN _handleSubscribe([y EXCEPT !.stray = @ \/ y.ticks > 0], FALSE, Plain)
                  ELSE y
         IN  [z EXCEPT !.penFetch = @ \o z.infFetch, !.infFetch = << >>]

(* An unsubscribe is answered by the drop, also one that was made offline    *)
(* and waits for its nextTick.                                               *)
DocStateChanged(x, live) ==
    IF live THEN _resubscribe(x)
    ELSE LET y == [x EXCEPT !.subd = FALSE]
             z == CASE y.infSub = None -> y
                    [] y.infSub # None /\ y.infSub.want ->
                         [y EXCEPT !.penSub = <<x.infSub>> \o @, !.infSub = None]
                    [] OTHER -> _handleSubscribe(
                         [y EXCEPT !.stray = @ \/ y.ticks > 0], FALSE, Plain)
         IN  [z EXCEPT !.penFetch = @ \o z.infFetch, !.infFetch = << >>]

(* An op of version v from a stream or from a catch-up.                      *)
_handleOp(x, live, v) ==
    CASE x.v = None \/ v > x.v -> _fetch(x, live, {})
      [] x.v # None /\ v = x.v -> [x EXCEPT !.v = @ + 1]
      [] OTHER -> x
------------------------------------------------------------------------------
(* What a step of the client's docs does to the rest of the client.          *)
Put(xs, asked) ==
    /\ doc' = [d \in Doc |-> [xs[d] EXCEPT !.out = << >>, !.told = << >>,
                                           !.quiet = FALSE]]
    /\ calls' = LET told(i) == xs[asked[i].d].told
                    hows(i) == FlattenSeq([k \in DOMAIN told(i) |->
                        IF i \in told(i)[k].cbs THEN <<told(i)[k].how>> ELSE << >>])
                IN  [i \in DOMAIN asked |->
                        [asked[i] EXCEPT !.told = @ \o hows(i)]]
    /\ waiter' = IF waiter.at = "doc" /\ xs[waiter.on].quiet
                 THEN [at |-> "retry", on |-> None] ELSE waiter

Send(msgs) == agents' = [agents EXCEPT ![cur].up = @ \o msgs]
Handshake == [a |-> "hs", id |-> id]

(* Outside of a bulk every action is a message of its own.                   *)
Messages(xs) ==
    FlattenSeq(SetToSeq({[i \in DOMAIN xs[d].out |->
        [a |-> xs[d].out[i].a, vs |-> [e \in {d} |-> xs[d].out[i].v]]] : d \in Doc}))

(* A step of some docs outside of a bulk.  (The singleton has TLC evaluate   *)
(* the docs once.)                                                           *)
DocsStep(xs) == \E ys \in {xs} : Put(ys, calls) /\ Send(Messages(ys))

(* startBulk .. endBulk: per action one message for the docs without a       *)
(* version and one for the others.                                           *)
Bulk(xs) ==
    LET asks(a, known) ==
            {d \in Doc : \E i \in DOMAIN xs[d].out :
                xs[d].out[i].a = a /\ ((xs[d].out[i].v # None) = known)}
        message(a, known) ==
            IF asks(a, known) = {} THEN << >>
            ELSE <<[a |-> a, vs |-> [d \in asks(a, known) |->
                                        IF known THEN xs[d].v ELSE None]]>>
    IN  FlattenSeq([k \in 1..3 |-> LET a == <<"f", "s", "u">>[k] IN
                        message(a, FALSE) \o message(a, TRUE)])

Unanswered == request # None /\ request.told = None
RequestMessage(r) == [a |-> IF r.ts THEN "nt" ELSE "nf", d |-> r.d, arg |-> r.arg]

(* _setState on the docs `xs': nothing at all when the state is the same or  *)
(* the transition is refused.                                                *)
Refused(from, to) ==
    \/ to = "connecting" /\ from \notin {"disconnected", "stopped", "closed"}
    \/ to = "connected" /\ from # "connecting"
_setState(from, xs, to) ==
    IF from = to \/ Refused(from, to) THEN [state |-> from, xs |-> xs]
    ELSE [state |-> to,
          xs |-> [d \in Doc |-> DocStateChanged(xs[d], to = "connected")]]

(* A step that takes the connection to the state of `s' and sends nothing.   *)
Down(s, sends) ==
    /\ state' = s.state
    /\ canSend' = sends
    /\ Put(s.xs, calls)
    /\ request' = IF request = None \/ s.state = state THEN request
                  ELSE [request EXCEPT !.sent = FALSE]

------------------------------------------------------------------------------
(* The application's calls.                                                  *)
Call(kind, d) ==
    LET c == Len(calls) + 1
        x == CASE kind = "fetch" -> _fetch(doc[d], canSend, {c})
               [] kind = "subscribe" -> _queueSubscribe(doc[d], canSend, TRUE, {c})
               [] OTHER -> _queueSubscribe(doc[d], canSend, FALSE, {c})
        xs == [doc EXCEPT ![d] = x]
    IN  /\ d \in sc.docs /\ c <= sc.calls
        /\ Put(xs, Append(calls, [kind |-> kind, d |-> d, told |-> << >>]))
        /\ Send(Messages(xs))
        /\ UNCHANGED <<sc, state, canSend, id, sock, cur, request, down, jobs,
                       streams, log, saved>>

(* fetchSnapshot (ts FALSE; arg None is the latest) and                      *)
(* fetchSnapshotByTimestamp.                                                 *)
FetchSnapshot(d, ts, arg) ==
    LET r == [d |-> d, ts |-> ts, arg |-> arg, sent |-> canSend,
              since |-> Len(log[d]), told |-> None]
    IN  /\ sc.snaps /\ d \in sc.docs /\ request = None
        /\ request' = r
        /\ Send(IF canSend THEN <<RequestMessage(r)>> ELSE << >>)
        /\ UNCHANGED <<sc, state, canSend, id, sock, cur, doc, calls, waiter,
                       down, jobs, streams, log, saved>>

(* whenNothingPending: wait for a doc that has something pending, then for a *)
(* snapshot request, else call back.                                         *)
Look ==
    /\ \/ \E d \in Doc : hasPending(doc[d]) /\ waiter' = [at |-> "doc", on |-> d]
       \/ /\ \A d \in Doc : ~hasPending(doc[d])
          /\ waiter' = [at |-> IF Unanswered THEN "snapshot" ELSE "called",
                        on |-> None]
    /\ UNCHANGED <<sc, state, canSend, id, sock, cur, doc, calls, request,
                   server, down>>
WhenNothingPending == sc.waits /\ waiter.at = "idle" /\ Look
_nothingPendingRetry == waiter.at = "retry" /\ Look

(* The nextTick of an unsubscribe made offline.  Calls, the ticks of others  *)
(* and, where nextTick is a message or a timer (a browser), anything else    *)
(* may come before it.                                                       *)
Tick(d) ==
    LET x == [doc[d] EXCEPT !.ticks = @ - 1]
        xs == [doc EXCEPT ![d] = _handleSubscribe(x, canSend, Plain)]
    IN  /\ doc[d].ticks > 0
        /\ DocsStep(xs)
        /\ UNCHANGED <<sc, state, canSend, id, sock, cur, request, down, jobs,
                       streams, log, saved>>

(* One of the callbacks that ingestSnapshot has put off.                     *)
CallBack(d) ==
    \E i \in DOMAIN doc[d].late :
        LET x == [doc[d] EXCEPT !.late = RemoveAt(@, i)]
            xs == [doc EXCEPT ![d] = Tell(x, doc[d].late[i], "ok")]
        IN  /\ DocsStep(xs)
            /\ UNCHANGED <<sc, state, canSend, id, sock, cur, request, down, jobs,
                           streams, log, saved>>
------------------------------------------------------------------------------
(* The socket.                                                               *)
NewAgent(a) ==
    [agents EXCEPT ![a] = [st |-> "open", src |-> a, up |-> << >>,
                           held |-> [d \in Doc |-> None]]]

(* onclose: the transport is lost ('disconnected'), the server has ended the *)
(* stream ('stopped'), or connection.close() was called ('closed').          *)
SocketClosed(to) ==
    /\ sock # "closed" /\ cur < sc.agents
    /\ sock' = "closed" /\ down' = << >>
    /\ LET s == _setState(state, doc, to)
       IN  Down(s, IF s.state = state THEN canSend ELSE FALSE)
    /\ UNCHANGED <<sc, id, cur, server>>

(* bindToSocket with a socket that is still opening; the old one is closed.  *)
(* A StreamSocket calls onclose within close(); a WebSocket calls it later,  *)
(* when it is bound no more: the docs do not hear that the old one is gone.  *)
BindToSocket ==
  \E atOnce \in BOOLEAN :
    LET s1 == IF sock # "closed" /\ atOnce THEN _setState(state, doc, "closed")
              ELSE [state |-> state, xs |-> doc]
        s2 == _setState(s1.state, s1.xs, "connecting")
    IN  /\ cur < sc.agents
        /\ sock' = "opening" /\ cur' = cur + 1
        /\ agents' = NewAgent(cur + 1) /\ down' = <<[a |-> "init"]>>
        /\ Down(s2, FALSE)
        /\ UNCHANGED <<sc, id, jobs, streams, log, saved>>

(* onopen: of the socket that was bound, or of one that reconnects by itself *)
(* after it was lost.                                                        *)
Open ==
    /\ sock = "opening"
    /\ sock' = "open"
    /\ LET s == _setState(state, doc, "connecting") IN Down(s, canSend)
    /\ Send(<<Handshake>>)
    /\ UNCHANGED <<sc, id, cur, down, jobs, streams, log, saved>>

Reopen ==
    /\ sock = "closed" /\ state = "disconnected" /\ cur < sc.agents
    /\ sock' = "open" /\ cur' = cur + 1 /\ down' = <<[a |-> "init"]>>
    /\ LET s == _setState(state, doc, "connecting") IN Down(s, FALSE)
    /\ agents' = [NewAgent(cur + 1) EXCEPT ![cur + 1].up = <<Handshake>>]
    /\ UNCHANGED <<sc, id, jobs, streams, log, saved>>

(* handleMessage.                                                            *)
Receiving(kinds) ==
    /\ sock = "open" /\ down # << >>
    /\ Head(down).a \in kinds
    /\ down' = Tail(down)
    /\ UNCHANGED <<sc, sock, cur, jobs, streams, log, saved>>

_handleLegacyInit ==
    /\ Receiving({"init"})
    /\ Send(<<Handshake>>)
    /\ UNCHANGED <<state, canSend, id, doc, calls, waiter, request>>

(* The second reply finds the connection connected.                          *)
_handleHandshake ==
    LET s == _setState(state, doc, "connected")
        resend == Unanswered /\ ~request.sent
    IN  /\ Receiving({"hs"})
        /\ IF state = "connecting"
           THEN /\ id' = Head(down).id
                /\ state' = "connected" /\ canSend' = TRUE
                /\ \E xs \in {s.xs} : Put(xs, calls)
                /\ request' = IF resend THEN [request EXCEPT !.sent = TRUE]
                              ELSE request
                /\ Send((IF resend THEN <<RequestMessage(request)>> ELSE << >>)
                        \o Bulk(s.xs))
           ELSE UNCHANGED <<id, state, canSend, doc, calls, waiter, request,
                            agents>>

HandleReply ==
    LET m == Head(down)
        handle(x, r) == IF m.a = "f" THEN _handleFetch(x, canSend, r)
                        ELSE _handleSubscribe(x, canSend, r)
        xs == [d \in Doc |-> IF d \in DOMAIN m.res THEN handle(doc[d], m.res[d])
                             ELSE doc[d]]
    IN  /\ Receiving({"f", "s", "u"})
        /\ DocsStep(xs)
        /\ UNCHANGED <<state, canSend, id, request>>

HandleOp ==
    LET m == Head(down)
        xs == [doc EXCEPT ![m.d] = _handleOp(@, canSend, m.v)]
    IN  /\ Receiving({"op"})
        /\ DocsStep(xs)
        /\ UNCHANGED <<state, canSend, id, request>>

(* The request leaves the registry, then emits 'ready'.                      *)
_handleSnapshotFetch ==
    /\ Receiving({"nf", "nt"})
    /\ request' = [request EXCEPT !.told = Head(down).res]
    /\ waiter' = IF waiter.at = "snapshot" THEN [at |-> "retry", on |-> None]
                 ELSE waiter
    /\ UNCHANGED <<state, canSend, id, doc, calls, agents>>
------------------------------------------------------------------------------
(* The agents.  A job is a request between its steps, with a number of its   *)
(* own: `q' holds what pubsub has put on the streams opened for it, `ops'    *)
(* and `res' what was read.                                                  *)
Arrives(a, msgs) == IF Is(a) THEN down \o msgs ELSE down
OpMessages(d, vs) == [i \in DOMAIN vs |-> [a |-> "op", d |-> d, v |-> vs[i]]]

Taking(a, kinds) ==
    /\ agents[a].st = "open" /\ agents[a].up # << >>
    /\ Head(agents[a].up).a \in kinds
    /\ UNCHANGED <<sc, client, log, saved>>

AgentHandshake(a) ==
    LET m == Head(agents[a].up)
        src == IF m.id = None THEN agents[a].src ELSE m.id
    IN  /\ Taking(a, {"hs"})
        /\ agents' = [agents EXCEPT ![a].up = Tail(@), ![a].src = src]
        /\ down' = Arrives(a, <<[a |-> "hs", id |-> src]>>)
        /\ UNCHANGED <<jobs, streams>>

(* _fetch, _subscribe, and the snapshot requests.  Backend.subscribe opens   *)
(* the streams before it reads anything.                                     *)
StartJob(a) ==
    LET m == Head(agents[a].up)
        docs == IF m.a \in {"f", "s"} THEN DOMAIN m.vs ELSE {}
        n == CHOOSE k \in 1..(Cardinality(jobs) + 1) : \A j \in jobs : j.n # k
        job == [n |-> n, a |-> a, m |-> m, stage |-> "read", from |-> NoMilestone,
                to |-> NoMilestone, ops |-> [d \in docs |-> << >>], res |-> None,
                q |-> [d \in IF m.a = "s" THEN docs ELSE {} |-> << >>]]
    IN  /\ Taking(a, {"f", "s", "nf", "nt"})
        /\ agents' = [agents EXCEPT ![a].up = Tail(@)]
        /\ jobs' = jobs \cup {job}
        /\ streams' = [d \in Doc |-> streams[d] + IF d \in DOMAIN job.q THEN 1 ELSE 0]
        /\ UNCHANGED down

(* _unsubscribe, alone or in bulk: destroy the streams; the ops they had     *)
(* handed over already (the first ns[d]) leave before the reply.             *)
Unsubscribe(a) ==
    LET m == Head(agents[a].up)
        docs == DOMAIN m.vs
        held == agents[a].held
    IN  /\ Taking(a, {"u"})
        /\ \E ns \in [docs -> 0..sc.commits] :
            /\ \A d \in docs : ns[d] <= IF held[d] = None THEN 0 ELSE Len(held[d])
            /\ down' = Arrives(a,
                 FlattenSeq(SetToSeq({OpMessages(d, IF held[d] = None THEN << >>
                                        ELSE SubSeq(held[d], 1, ns[d])) : d \in docs}))
                 \o <<[a |-> "u", res |-> [d \in docs |-> Plain]]>>)
        /\ streams' = [d \in Doc |-> IF d \in docs /\ held[d] # None
                                     THEN streams[d] - 1 ELSE streams[d]]
        /\ agents' = [agents EXCEPT ![a].up = Tail(@), ![a].held =
                         [d \in Doc |-> IF d \in docs THEN None ELSE held[d]]]
        /\ UNCHANGED jobs

(* Snapshots for a null version, ops from a known one.  The readSnapshots    *)
(* middleware may reject the read of single snapshots: their streams are     *)
(* destroyed at once.                                                        *)
ReadDocs(j) ==
    LET docs == DOMAIN j.m.vs
        known(d) == j.m.vs[d] # None
        hows == IF sc.refuse THEN {"ok", "refused", "silent"} ELSE {"ok"}
    IN  /\ j.stage = "read" /\ j.m.a \in {"f", "s"}
        /\ \E how \in [docs -> hows] :
            /\ \A d \in docs : known(d) => how[d] = "ok"
            /\ jobs' = (jobs \ {j}) \cup {[j EXCEPT
                    !.stage = "reply",
                    !.ops = [d \in docs |-> IF known(d)
                                THEN GetOps(log[d], j.m.vs[d], NoMilestone) ELSE << >>],
                    !.res = [d \in docs |-> [how |-> how[d], v |->
                                IF known(d) \/ how[d] # "ok" THEN None
                                ELSE Len(log[d])]],
                    !.q = [d \in {e \in DOMAIN j.q : how[e] = "ok"} |-> j.q[d]]]}
            /\ streams' = [d \in Doc |-> IF d \in DOMAIN j.q /\ how[d] # "ok"
                                         THEN streams[d] - 1 ELSE streams[d]]
        /\ UNCHANGED <<sc, client, agents, down, log, saved>>

(* _fetchSnapshot and _fetchSnapshotByTimestamp, one read per step.          *)
Continue(j, k) ==
    /\ jobs' = (jobs \ {j}) \cup {k}
    /\ UNCHANGED <<sc, client, agents, down, streams, log, saved>>

ReadMilestone(j) ==
    LET d == j.m.d IN
    /\ j.m.a \in {"nf", "nt"} /\ j.m.arg # None
    /\ \/ /\ j.stage = "read"
          /\ LET from == IF j.m.a = "nf" THEN MilestoneSnapshot(saved[d], j.m.arg)
                         ELSE AtOrBeforeTime(log[d], saved[d], j.m.arg)
             IN Continue(j, [j EXCEPT !.from = from, !.stage =
                                 IF j.m.a = "nf" THEN "ops" ELSE "after"])
       \/ /\ j.stage = "after"
          /\ LET to == AtOrAfterTime(log[d], saved[d], j.m.arg)
             IN Continue(j, [j EXCEPT !.to = to, !.stage = "ops"])

ReadSnapshot(j) ==
    LET d == j.m.d
        latest == [error |-> FALSE, snap |-> SnapshotAt(Len(log[d]))]
    IN  /\ j.m.a \in {"nf", "nt"}
        /\ \/ j.stage = "read" /\ j.m.arg = None
              /\ Continue(j, [j EXCEPT !.res = latest, !.stage = "reply"])
           \/ j.stage = "ops"
              /\ LET r == IF j.m.a = "nf" THEN ByVersion(log[d], j.from, j.m.arg)
                          ELSE ByTimestamp(log[d], j.from, j.to, j.m.arg)
                 IN Continue(j, [j EXCEPT !.res = r, !.stage = "reply"])

(* Bug: an agent that was closed meanwhile takes the streams all the same.  *)
FinishClosed(j) ==
    LET a == j.a
        docs == DOMAIN j.q
    IN  /\ j.stage = "reply"
        /\ jobs' = jobs \ {j}
        /\ streams' = [d \in Doc |-> IF d \in docs /\ agents[a].held[d] # None
                                      THEN streams[d] - 1 ELSE streams[d]]
        /\ agents' = [agents EXCEPT ![a].held =
                         [d \in Doc |-> IF d \in docs THEN j.q[d] ELSE @[d]]]
        /\ down' = Arrives(a,
             FlattenSeq(SetToSeq({OpMessages(d, j.ops[d]) : d \in DOMAIN j.ops}))
             \o <<[a |-> j.m.a, res |-> j.res]>>)
        /\ UNCHANGED <<sc, client, log, saved>>

(* The agent sends what was read, takes the streams, and replies.  A closed  *)
(* agent destroys the streams instead, one already subscribed the old ones.  *)
Finish(j) ==
    LET a == j.a
        docs == DOMAIN j.q
        replaced(d) == agents[a].held[d] # None
    IN  /\ j.stage = "reply"
        /\ jobs' = jobs \ {j}
        /\ IF agents[a].st = "closed"
           THEN /\ streams' = [d \in Doc |-> IF d \in docs THEN streams[d] - 1
                                             ELSE streams[d]]
                /\ UNCHANGED <<agents, down>>
           ELSE /\ streams' = [d \in Doc |-> IF d \in docs /\ replaced(d)
                                             THEN streams[d] - 1 ELSE streams[d]]
                /\ agents' = [agents EXCEPT ![a].held =
                     [d \in Doc |-> IF d \in docs THEN j.q[d] ELSE @[d]]]
                /\ down' = Arrives(a,
                     FlattenSeq(SetToSeq({OpMessages(d, j.ops[d]) : d \in DOMAIN j.ops}))
                     \o <<[a |-> j.m.a, res |-> j.res]>>)
        /\ UNCHANGED <<sc, client, log, saved>>

(* An op leaves the stream that an agent holds.                              *)
Deliver(a, d) ==
    LET q == agents[a].held[d] IN
    /\ agents[a].st = "open" /\ q # None
    /\ q # << >>
    /\ agents' = [agents EXCEPT ![a].held[d] = Tail(@)]
    /\ down' = Arrives(a, OpMessages(d, <<Head(q)>>))
    /\ UNCHANGED <<sc, client, jobs, streams, log, saved>>

(* _cleanup, on the 'end' or 'close' of the stream to a client that is gone. *)
Cleanup(a) ==
    LET held == agents[a].held IN
    /\ agents[a].st = "open" /\ (a # cur \/ sock = "closed")
    /\ agents' = [agents EXCEPT ![a].st = "closed", ![a].up = << >>,
                                ![a].held = [d \in Doc |-> None]]
    /\ streams' = [d \in Doc |-> IF held[d] = None THEN streams[d]
                                 ELSE streams[d] - 1]
    /\ UNCHANGED <<sc, client, jobs, down, log, saved>>

(* Another client's op is committed and published to every open stream.      *)
Commit(d) ==
    LET now == Last(log[d])
        v == Len(log[d])
        committed == FoldSet(LAMBDA e, n : n + Len(log[e]) - 1, 0, Doc)
    IN  /\ d \in sc.docs /\ committed < sc.commits
        /\ \E ts \in IF sc.snaps THEN {now, now + 1} ELSE {now} :
              log' = [log EXCEPT ![d] = Append(@, ts)]
        /\ agents' = [a \in DOMAIN agents |-> [agents[a] EXCEPT !.held[d] =
                         IF @ = None THEN None ELSE Append(@, v)]]
        /\ jobs' = {IF d \in DOMAIN j.q THEN [j EXCEPT !.q[d] = Append(@, v)]
                    ELSE j : j \in jobs}
        /\ UNCHANGED <<sc, client, down, streams, saved>>

(* saveMilestoneSnapshot runs beside the commits: any version there is.      *)
SaveMilestone(d, v) ==
    /\ sc.snaps /\ d \in sc.docs
    /\ v \in 1..Len(log[d]) \ saved[d]
    /\ saved' = [saved EXCEPT ![d] = @ \cup {v}]
    /\ UNCHANGED <<sc, client, agents, down, jobs, streams, log>>
------------------------------------------------------------------------------
Init ==
    /\ sc \in Scenarios
    /\ state = "connecting" /\ canSend = FALSE /\ id = None
    /\ sock = "opening" /\ cur = 1
    /\ doc = [d \in Doc |-> NewDoc]
    /\ calls = << >> /\ waiter = [at |-> "idle", on |-> None] /\ request = None
    /\ agents = [a \in 1..MaxAgents |->
                    [st |-> IF a = 1 THEN "open" ELSE "none", src |-> a,
                     up |-> << >>, held |-> [d \in Doc |-> None]]]
    /\ down = <<[a |-> "init"]>>
    /\ jobs = {} /\ streams = [d \in Doc |-> 0]
    /\ log = [d \in Doc |-> <<1>>] /\ saved = [d \in Doc |-> {}]

Application ==
    \/ \E d \in Doc, kind \in {"fetch", "subscribe", "unsubscribe"} : Call(kind, d)
    \/ \E d \in Doc :
        \/ \E v \in {None} \cup 1..(sc.commits + 2) : FetchSnapshot(d, FALSE, v)
        \/ \E ts \in {None} \cup 0..(sc.commits + 1) : FetchSnapshot(d, TRUE, ts)
    \/ WhenNothingPending
    \/ SocketClosed("closed")
    \/ BindToSocket
Fails == SocketClosed("disconnected") \/ SocketClosed("stopped")
Client ==
    \/ _nothingPendingRetry \/ Open \/ Reopen
    \/ _handleLegacyInit \/ _handleHandshake \/ HandleReply \/ HandleOp
    \/ _handleSnapshotFetch
    \/ \E d \in Doc : Tick(d) \/ CallBack(d)
Server ==
    \/ \E a \in 1..MaxAgents :
        \/ AgentHandshake(a) \/ StartJob(a) \/ Unsubscribe(a) \/ Cleanup(a)
        \/ \E d \in Doc : Deliver(a, d)
    \/ \E j \in jobs : ReadDocs(j) \/ ReadMilestone(j) \/ ReadSnapshot(j) \/ Finish(j)
Others == \E d \in Doc : Commit(d) \/ \E v \in 1..Len(log[d]) : SaveMilestone(d, v)

Next == Application \/ Fails \/ Client \/ Server \/ Others

(* The server's and the client's own steps are not put off for ever; the     *)
(* application, the failures and the other clients owe nothing.              *)
Spec == Init /\ [][Next]_vars /\ WF_vars(Client \/ Server)
------------------------------------------------------------------------------
CallId == DOMAIN calls

(* A WebSocket that was replaced while it was open leaves the connection     *)
(* 'connected' and unable to send, until the new one closes.                 *)
Stuck == state = "connected" /\ ~canSend

(* The shapes of the variables; and a connection that can send is connected, *)
(* over an open socket, with an agent at its other end that goes by its id   *)
(* (connection.js: bindToSocket, _handleHandshake).                          *)
TypeOK ==
    /\ canSend => state = "connected"
    /\ canSend => sock = "open" /\ agents[cur].src = id
    /\ state \in {"connecting", "connected", "disconnected", "stopped", "closed"}
    /\ canSend \in BOOLEAN /\ id \in {None} \cup 1..MaxAgents
    /\ sock \in {"opening", "open", "closed"} /\ cur \in 1..MaxAgents
    /\ \A d \in Doc :
        /\ doc[d].v \in {None} \cup 1..Len(log[d])
        /\ doc[d].want \in BOOLEAN /\ doc[d].subd \in BOOLEAN
        /\ doc[d].infSub \in {None} \cup [want : BOOLEAN, cbs : SUBSET CallId]
        /\ Range(doc[d].penSub) \subseteq [want : BOOLEAN, cbs : SUBSET CallId]
        /\ Range(doc[d].infFetch \o doc[d].penFetch \o doc[d].late)
              \subseteq SUBSET CallId
        /\ Len(doc[d].infFetch) <= 1
        /\ doc[d].ticks \in Nat /\ doc[d].stray \in BOOLEAN
        /\ streams[d] \in Nat /\ saved[d] \subseteq 1..Len(log[d])
    /\ waiter.at \in {"idle", "doc", "snapshot", "retry", "called"}

(* A call is in one place until its callback is called, and is called once.  *)
(* Where the nextTick of an unsubscribe made offline finds that a drop has   *)
(* answered it before, calls of that doc may be lost: the code takes the     *)
(* callback of a request that is not there (doc.js:512), or answers another. *)
(* Even then none is called twice.                                           *)
Accounted ==
    \A c \in CallId :
        LET x == doc[calls[c].d]
            inSeq(s) == Cardinality({i \in DOMAIN s : c \in s[i]})
            waits == inSeq(x.infFetch) + inSeq(x.penFetch) + inSeq(x.late)
                     + Cardinality({i \in DOMAIN x.penSub : c \in x.penSub[i].cbs})
                     + IF x.infSub # None /\ c \in x.infSub.cbs THEN 1 ELSE 0
        IN  /\ waits + Len(calls[c].told) <= 1
            /\ waits + Len(calls[c].told) = 0 => x.stray

(* A doc that believes it is subscribed has an open stream at its agent.     *)
SubscribedMeansHeld ==
    \A d \in Doc : doc[d].subd /\ ~doc[d].stray /\ ~Stuck =>
        /\ canSend /\ agents[cur].st = "open" /\ agents[cur].held[d] # None

(* When nothing is on its way a doc has a stream exactly when it is          *)
(* subscribed, wants what it has (unless a read was rejected), and has every *)
(* op: unless it was fetched as well (a fetch that is inflight stands for    *)
(* those asked for meanwhile, and may have been answered from before them).  *)
AtRest ==
    LET rest == /\ canSend /\ down = << >> /\ agents[cur].up = << >>
                /\ \A j \in jobs : j.a # cur
                /\ \A d \in Doc : doc[d].ticks = 0
                /\ \A d \in Doc : agents[cur].held[d] \in {None, << >>}
        fetched(d) == \E c \in CallId : calls[c].kind = "fetch" /\ calls[c].d = d
    IN  rest => \A d \in {e \in Doc : ~doc[e].stray} :
            /\ hasPending(doc[d]) => sc.refuse
            /\ doc[d].infSub = None /\ doc[d].infFetch = << >>
            /\ doc[d].subd <=> agents[cur].held[d] # None
            /\ ~sc.refuse => (doc[d].want <=> doc[d].subd)
            /\ doc[d].subd /\ ~fetched(d) => doc[d].v = Len(log[d])

(* Client and agent agree on what is subscribed, always and at rest, through *)
(* subscribes and unsubscribes that overtake drops, reads that are refused,  *)
(* and bulk messages; but for a stray doc, and while the connection is stuck *)
(* (doc.js: _flushSubscribe, _handleSubscribe; agent.js: _subscribe,         *)
(* _subscribeBulk, _unsubscribeBulk).                                        *)
SubscriptionsAgree == SubscribedMeansHeld /\ AtRest

(* Every stream open in pubsub belongs to an agent that is not closed or to  *)
(* a request still being worked on: none is leaked, none destroyed twice.    *)
StreamsOwned ==
    \A d \in Doc : streams[d] =
        Cardinality({a \in DOMAIN agents :
                        agents[a].st = "open" /\ agents[a].held[d] # None})
        + Cardinality({j \in jobs : d \in DOMAIN j.q})

(* No call and no stream is lost or used twice, whenever the socket closes   *)
(* (doc.js: _onConnectionStateChanged, _resubscribe; agent.js: _cleanup,     *)
(* _subscribeToStream).                                                      *)
NothingLost == Accounted /\ StreamsOwned

(* What a callback without an error means: after subscribe and fetch the doc *)
(* has been loaded, after unsubscribe it is not subscribed.  A fetch that    *)
(* the answer to an unsubscribe has called back is an exception, and so are  *)
(* stray docs (doc.js: _handleFetch, _handleSubscribe, ingestSnapshot).      *)
CallbackMeansDone ==
    [][\A c \in CallId :
        LET d == calls[c].d IN
        (/\ ~doc[d].stray
         /\ calls'[c].told # calls[c].told /\ Last(calls'[c].told) = "ok") =>
            CASE calls[c].kind = "unsubscribe" -> ~doc'[d].subd
              [] calls[c].kind = "subscribe" -> doc'[d].v # None
              [] OTHER -> \/ doc'[d].v # None
                          \/ (doc[d].infSub # None /\ ~doc[d].infSub.want)]_calls

(* A snapshot is the doc as its first v ops made it.  By version it is that  *)
(* version, and refused only for one that was not there yet; by time it has  *)
(* no op younger than the time and every older one that was there; and the   *)
(* latest is no older than the request (backend.js: _fetchSnapshot,          *)
(* _fetchSnapshotByTimestamp, with ops and milestones coming between reads). *)
SnapshotRight ==
    (request # None /\ ~Unanswered) =>
        LET r == request.told
            l == log[request.d]
            arg == request.arg
        IN  IF r.error THEN ~request.ts /\ arg > request.since
            ELSE /\ r.snap.v <= Len(l) /\ r.snap.data = Prefix(r.snap.v)
                 /\ CASE arg = None -> r.snap.v >= request.since
                      [] arg # None /\ ~request.ts -> r.snap.v = arg
                      [] OTHER ->
                          /\ \A i \in 1..r.snap.v : l[i] <= arg
                          /\ \A i \in 1..request.since : l[i] < arg => i <= r.snap.v

(* A subscribe that was refused leaves what was queued behind it unsent.     *)
LeftBehind == \E d \in Doc : /\ canSend /\ doc[d].infSub = None
                             /\ doc[d].penSub # << >>

(* Unless the connection is closed or stopped for good, or stuck, every      *)
(* call, snapshot request and whenNothingPending is called back in the end;  *)
(* what a refused subscribe leaves behind and stray docs are the exceptions  *)
(* (doc.js: _handleSubscribe; connection.js: whenNothingPending;             *)
(* snapshot-request.js).                                                     *)
AllAnswered ==
    /\ \A c \in CallId : calls[c].told # << >> \/ doc[calls[c].d].stray
    /\ ~Unanswered
    /\ waiter.at \in {"idle", "called"} \/ \E d \in Doc : doc[d].stray
Answered == <>[](AllAnswered \/ LeftBehind \/ Stuck \/ state \in {"closed", "stopped"})
=============================================================================
