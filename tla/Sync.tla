-------------------------------- MODULE Sync --------------------------------
(***************************************************************************)
(* Clients that edit one document together: the Doc of each client         *)
(* (lib/client/doc.js), the connection it sends through, its agent on the  *)
(* server (lib/agent.js), the agent's stream of published ops, and the     *)
(* submission of ops.  Submit.tla takes a submission apart; here it takes  *)
(* two steps, the commit and what follows it (publish, acknowledge),       *)
(* because that is all that clients can tell apart.                        *)
(*                                                                         *)
(* Every client subscribes once, when it starts, and stays subscribed.     *)
(* An op is a model value that stands for its (src, seq) and for the op    *)
(* object in the client, whose payload transforms change in place.         *)
(* Messages from the server arrive in order; requests to it are handled    *)
(* concurrently, so in any order.  When a connection drops, messages on    *)
(* their way to the client are lost, and ops on their way to the server    *)
(* may be lost or handled at any later time.                               *)
(*                                                                         *)
(* The callbacks of _putToDurableStore and of setTimeout come at any later *)
(* time too: Persisted and Tell.                                           *)
(***************************************************************************)
EXTENDS OT, Text, Bags, BagsExt, FiniteSets

CONSTANTS
    Clients,
    Ops,            \* operations, by (src, seq)
    Owner,          \* Owner[o]: the client that makes o, or Nil for a preset op
    Kind,           \* Kind[o]: create, edit or del
    Preset,         \* the ops in the log when the clients start, made by nobody here
    Broken,         \* edits that the type may throw on
    MayReject,      \* ops that a middleware may refuse
    MaxDrops,       \* MaxDrops[c]: how often the connection of c may drop
    NoDoc,          \* the type is null
    Nil             \* no operation, no client

ASSUME KindAssumption == Kind \in [Ops -> Kinds \ {"noop"}]

ASSUME OwnerAssumption == Owner \in [Ops -> Clients \cup {Nil}]

ASSUME DropsAssumption == MaxDrops \in [Clients -> Nat]

ASSUME NilAssumption == Nil \notin Ops /\ Nil \notin Clients

ASSUME NoDocAssumption == NoDoc \notin Seq(Ops)

(* The preset ops are a history: made once each, by no client, and each    *)
(* applies to the document that the one before it left.                    *)
ASSUME PresetAssumption ==
    /\ Preset \in Seq(Ops)
    /\ \A i \in 1..Len(Preset) :
          /\ Owner[Preset[i]] = Nil
          /\ \A j \in 1..Len(Preset) : Preset[i] = Preset[j] => i = j
          /\ CanApply(Kind[Preset[i]], i > 1 /\ Kind[Preset[i - 1]] # "del")

NullV == -1         \* doc.version == null
NotMade == -1       \* pos of an op that does not exist yet

VARIABLES
    log,            \* [id, at, after]: the ops and the document after each
    unpublished,    \* committed ops whose commit callback has not run
    reqs,           \* bag of requests sent to the server or handled by it
    inbox,          \* client -> messages on their way to it
    open,           \* client -> its stream: "none", "open" or "attached"
    stream,         \* client -> versions published to the stream, not yet sent
    data,           \* client -> doc.data, NoDoc when doc.type is null
    version,        \* client -> doc.version
    ops,            \* client -> inflightOp and pendingOps, in order
    sent,           \* client -> is Head(ops) the inflightOp?
    tick,           \* client -> has _submit left a flush to nextTick?
    sub,            \* client -> subscription: "wanted", "asked" or "on"
    inflight,       \* client -> inflightFetch, each fetch as the ops that its
                    \* callback gives up
    pending,        \* client -> pendingFetch, likewise
    owed,           \* client -> given up, told by setTimeout or after a persist
    deferred,       \* client -> given up, told at the next "no write pending"
    up,             \* client -> connection.canSend
    drops,          \* client -> how often the connection dropped
    persisting,     \* client -> ops whose _sendOp waits for _putToDurableStore
    pos,            \* op -> payload of the op object: where it inserts
    outcome,        \* op -> what its callback was told: "none", "ok", "failed"
    late,           \* history: ops sent by a persist callback when not inflight
    abandoned,      \* history: ops given up while they may still be committed
    overlooked      \* history: clients that met an op ahead and asked for none

serverVars == <<log, unpublished>>
agentVars == <<open, stream>>
fetchVars == <<inflight, pending, owed, deferred>>
history == <<late, abandoned, overlooked>>
stateVars == <<data, version, ops, sent, tick, sub, fetchVars, persisting, pos,
               outcome>>
docVars == <<stateVars, history>>
netVars == <<up, drops>>
vars == <<log, unpublished, reqs, inbox, open, stream, data, version, ops,
          sent, tick, sub, inflight, pending, owed, deferred, up, drops,
          persisting, pos, outcome, late, abandoned, overlooked>>

Elements(s) == {s[i] : i \in 1..Len(s)}

-----------------------------------------------------------------------------
(* Ops and documents.                                                      *)

(* ot.apply and Doc._otApply: the document d after op o with payload p.    *)
Apply(d, o, p, kind) ==
    CASE kind = "create" -> <<>>
      [] kind = "edit"   -> Insert(d, p, o)
      [] kind = "del"    -> NoDoc
      [] kind = "noop"   -> d

(* ot.apply and type.apply throw on an edit of a document that does not    *)
(* exist, or at a place that it does not have.                             *)
Throws(d, p, kind) == kind = "edit" /\ (d # NoDoc => p > Len(d))

(* The document at version v.                                              *)
At(v) == IF v <= 0 THEN NoDoc ELSE log[v].after

(* transformX(client, server), with its side effects: the errors, what     *)
(* becomes of the server's op, and of the place of the client's op.        *)
Fatal(c, s) ==
    /\ Kind[c] # "del"
    /\ s.kind \in {"del", "create"} \/ (s.kind = "edit" /\ Kind[c] = "create")

Both(c, s) == Kind[c] = "edit" /\ s.kind = "edit"

(* Bug: of two inserts at one place the client's comes second on both      *)
(* sides.                                                                  *)
NewServerLeft(c, s) ==
    CASE Kind[c] = "del" -> [s EXCEPT !.kind = "noop"]
      [] Both(c, s)      -> [s EXCEPT !.at = Shift(@, pos[c], "left")]
      [] OTHER           -> s

NewServer(c, s) ==
    CASE Kind[c] = "del" -> [s EXCEPT !.kind = "noop"]
      [] Both(c, s)      -> [s EXCEPT !.at = Shift(@, pos[c], "right")]
      [] OTHER           -> s

NewClient(c, s) == IF Both(c, s) THEN Shift(pos[c], s.at, "left") ELSE pos[c]

(* A server op on its way past the first i of the client's unacknowledged  *)
(* ops.                                                                    *)
Past(c, s) ==
    LET f[i \in 0..Len(ops[c])] == IF i = 0 THEN s ELSE NewServer(ops[c][i], f[i - 1])
    IN f

-----------------------------------------------------------------------------
(* What a client does in a step: sending, fetching, rolling back.          *)

Request(t, c, v) ==
    [t |-> t, c |-> c, conn |-> drops[c], v |-> v, id |-> Nil, at |-> 0]

(* flush, with the unacknowledged ops q of which the first is inflight or  *)
(* not: _sendOp makes it so and persists the document before it sends.     *)
Flush(c, q, busy, canSend) ==
    LET go == canSend /\ ~busy /\ q # <<>>
    IN /\ ops' = [ops EXCEPT ![c] = q]
       /\ sent' = [sent EXCEPT ![c] = busy \/ go]
       /\ persisting' = [persisting EXCEPT ![c] = IF go THEN Append(@, Head(q)) ELSE @]

(* _fetch, with inflightFetch f and pendingFetch p: one at a time unless   *)
(* forced, and for the callback that has waited longest.                   *)
Fetch(c, f, p, callback, force, v) ==
    LET q == Append(p, callback)
        send == up[c] /\ (force \/ f = <<>>)
    IN /\ inflight' = [inflight EXCEPT ![c] = IF send THEN Append(f, Head(q)) ELSE f]
       /\ pending' = [pending EXCEPT ![c] = IF send THEN Tail(q) ELSE q]
       /\ reqs' = IF send THEN BagAdd(reqs, Request("fetch", c, v)) ELSE reqs
       /\ overlooked' = IF send THEN overlooked \ {c} ELSE overlooked

(* The callbacks of ops that are given up.                                 *)
Fail(q) == [o \in Ops |-> IF o \in q THEN "failed" ELSE outcome[o]]

(* _emitNothingPending, with the unacknowledged ops q and what waits for   *)
(* "no write pending": r.                                                  *)
EmitNothingPending(c, q, r) ==
    /\ outcome' = IF q = <<>> THEN Fail(r) ELSE outcome
    /\ deferred' = [deferred EXCEPT ![c] = IF q = <<>> THEN {} ELSE r]

Logged(o) == \E i \in 1..Len(log) : log[i].id = o

(* A request of the bag b may still commit op o.                           *)
UnderWay(b, o) == \E q \in DOMAIN b : q.t = "op" /\ q.id = o

(* Bug: the version stays.                                                 *)
HardRollbackAtVersion(c, q) ==
    /\ data' = [data EXCEPT ![c] = NoDoc]
    /\ ops' = [ops EXCEPT ![c] = <<>>]
    /\ sent' = [sent EXCEPT ![c] = FALSE]
    /\ Fetch(c, inflight[c], pending[c], Elements(q), TRUE, NullV)
    /\ UNCHANGED <<version, tick, sub, owed, deferred, persisting, outcome, late>>

(* The callbacks of the ops q are told when the forced fetch is answered.  *)
HardRollback(c, q) ==
    /\ data' = [data EXCEPT ![c] = NoDoc]
    /\ version' = [version EXCEPT ![c] = NullV]
    /\ ops' = [ops EXCEPT ![c] = <<>>]
    /\ sent' = [sent EXCEPT ![c] = FALSE]
    /\ Fetch(c, inflight[c], pending[c], Elements(q), TRUE, NullV)
    /\ UNCHANGED <<tick, sub, owed, deferred, persisting, outcome, late>>

-----------------------------------------------------------------------------
(* The client: local operations.                                           *)

(* submitOp, create and del: the op is applied at once and queued.  The    *)
(* application disables compose (preventCompose).                          *)
Submit(c, o, p) ==
    /\ Owner[o] = c /\ pos[o] = NotMade
    /\ CanApply(Kind[o], data[c] # NoDoc)
    /\ Kind[o] = "del" => data[c] # NoDoc
    /\ p \in IF Kind[o] = "edit" THEN 0..Len(data[c]) ELSE {0}
    /\ pos' = [pos EXCEPT ![o] = p]
    /\ data' = [data EXCEPT ![c] = Apply(@, o, p, Kind[o])]
    /\ ops' = [ops EXCEPT ![c] = Append(@, o)]
    /\ tick' = [tick EXCEPT ![c] = TRUE]
    /\ UNCHANGED <<serverVars, agentVars, netVars, reqs, inbox, version, sent,
                   sub, fetchVars, persisting, outcome, history>>

(* submitOp with an op that the type throws on: the op was queued before   *)
(* it is applied, and all that is queued is rolled back, sent or not.      *)
SubmitBroken(c, o) ==
    /\ Owner[o] = c /\ pos[o] = NotMade /\ o \in Broken
    /\ data[c] # NoDoc
    /\ pos' = [pos EXCEPT ![o] = 0]
    /\ HardRollback(c, Append(ops[c], o))
    /\ abandoned' = abandoned \cup {x \in Elements(ops[c]) : UnderWay(reqs, x) \/ Logged(x)}
    /\ UNCHANGED <<serverVars, agentVars, netVars, inbox>>

(* The flush that _submit leaves to nextTick.                              *)
FlushTick(c) ==
    /\ tick[c]
    /\ tick' = [tick EXCEPT ![c] = FALSE]
    /\ Flush(c, ops[c], sent[c], up[c])
    /\ UNCHANGED <<serverVars, agentVars, netVars, reqs, inbox, data, version,
                   sub, fetchVars, pos, outcome, history>>

(* The callback of _putToDurableStore in _sendOp: connection.sendOp sends  *)
(* the op as it is now, with the version that the document has now.        *)
Persisted(c) ==
    /\ persisting[c] # <<>>
    /\ persisting' = [persisting EXCEPT ![c] = Tail(@)]
    /\ LET o == Head(persisting[c])
           q == [Request("op", c, version[c]) EXCEPT !.id = o, !.at = pos[o]]
       IN /\ reqs' = IF up[c] THEN BagAdd(reqs, q) ELSE reqs
          /\ late' = IF ~up[c] \/ (sent[c] /\ o = Head(ops[c])) THEN late ELSE late \cup {o}
    /\ UNCHANGED <<serverVars, agentVars, netVars, inbox, data, version, ops,
                   sent, tick, sub, fetchVars, pos, outcome, abandoned, overlooked>>

(* A timer, or the durable store, calls back after ingestSnapshot.         *)
Tell(c) ==
    /\ owed[c] # {}
    /\ outcome' = Fail(owed[c])
    /\ owed' = [owed EXCEPT ![c] = {}]
    /\ UNCHANGED <<serverVars, agentVars, netVars, reqs, inbox, data, version,
                   ops, sent, tick, sub, inflight, pending, deferred, persisting,
                   pos, history>>

-----------------------------------------------------------------------------
(* The client: messages from the server.                                   *)

(* The next message for client c is taken from the socket.                 *)
Taken(c) ==
    /\ inbox[c] # <<>>
    /\ inbox' = [inbox EXCEPT ![c] = Tail(@)]
    /\ UNCHANGED <<serverVars, agentVars, netVars>>

IsOwn(c, m) == sent[c] /\ m.id = Head(ops[c])

(* An acknowledgement carries no op: for a client that does not wait for   *)
(* it, it is an op that does nothing.                                      *)
Content(m) ==
    IF m.t = "op"
    THEN [kind |-> Kind[m.id], at |-> log[m.v + 1].at]
    ELSE [kind |-> "noop", at |-> 0]

(* _opAcknowledged.                                                        *)
ReceiveAck(c, m) ==
    /\ m.t \in {"op", "ack"} /\ IsOwn(c, m)
    /\ Kind[m.id] = "create" \/ m.v = version[c]
    /\ version' = [version EXCEPT ![c] = m.v + 1]
    /\ Flush(c, Tail(ops[c]), FALSE, up[c])
    /\ LET last == Tail(ops[c]) = <<>>
       IN /\ outcome' = [o \in Ops |->
                 IF o = m.id THEN "ok"
                 ELSE IF last /\ o \in deferred[c] THEN "failed" ELSE outcome[o]]
          /\ deferred' = [deferred EXCEPT ![c] = IF last THEN {} ELSE @]
    /\ UNCHANGED <<reqs, data, tick, sub, inflight, pending, owed, pos, history>>

(* An acknowledgement for another version than the client has reached, an  *)
(* op that is ahead of it, or any op when it has no version: fetch, unless *)
(* a fetch is inflight, which may have been answered from before the op.   *)
ReceiveGap(c, m) ==
    /\ m.t \in {"op", "ack"}
    /\ IF IsOwn(c, m)
       THEN Kind[m.id] # "create" /\ m.v # version[c]
       ELSE version[c] = NullV \/ m.v > version[c]
    /\ IF inflight[c] = <<>>
       THEN Fetch(c, <<>>, pending[c], {}, FALSE, version[c])
       ELSE /\ pending' = [pending EXCEPT ![c] = Append(@, {})]
            /\ overlooked' = overlooked \cup {c}
            /\ UNCHANGED <<inflight, reqs>>
    /\ UNCHANGED <<data, version, ops, sent, tick, sub, owed, deferred, persisting,
                   pos, outcome, late, abandoned>>

ReceiveOld(c, m) ==
    /\ m.t \in {"op", "ack"} /\ ~IsOwn(c, m)
    /\ m.v < version[c]
    /\ UNCHANGED <<reqs, docVars>>

(* Bug: an op that the client has already is applied again.                *)
IsNextOrOld(c, m) ==
    m.t \in {"op", "ack"} /\ ~IsOwn(c, m) /\ version[c] # NullV /\ m.v <= version[c]

IsNext(c, m) == m.t \in {"op", "ack"} /\ ~IsOwn(c, m) /\ m.v = version[c]

(* The op meets one of the client's ops that it cannot be transformed      *)
(* with, or cannot be applied here.                                        *)
Conflicting(c, m) ==
    LET s == Past(c, Content(m))
        last == s[Len(ops[c])]
    IN \/ \E i \in 1..Len(ops[c]) : Fatal(ops[c][i], s[i - 1])
       \/ Throws(data[c], last.at, last.kind)

ReceiveRemote(c, m) ==
    /\ IsNext(c, m) /\ ~Conflicting(c, m)
    /\ LET s == Past(c, Content(m))
           last == s[Len(ops[c])]
       IN /\ data' = [data EXCEPT ![c] = Apply(@, m.id, last.at, last.kind)]
          /\ pos' = [o \in Ops |->
                       IF \E i \in 1..Len(ops[c]) : ops[c][i] = o
                       THEN NewClient(o, s[(CHOOSE i \in 1..Len(ops[c]) : ops[c][i] = o) - 1])
                       ELSE pos[o]]
    /\ version' = [version EXCEPT ![c] = @ + 1]
    /\ UNCHANGED <<reqs, ops, sent, tick, sub, fetchVars, persisting, outcome,
                   history>>

ReceiveConflict(c, m) ==
    /\ IsNext(c, m) /\ Conflicting(c, m)
    /\ HardRollback(c, ops[c])
    /\ UNCHANGED <<pos, abandoned>>

(* _rollback: with no invert the only way is the hard one.  An error is    *)
(* taken for the inflight op's, whichever op it is about.                  *)
ReceiveError(c, m) ==
    /\ m.t = "err"
    /\ IF sent[c]
       THEN /\ HardRollback(c, ops[c])
            /\ abandoned' = abandoned \cup
                   {o \in Elements(ops[c]) \ {m.id} : UnderWay(reqs, o) \/ Logged(o)}
            /\ UNCHANGED pos
       ELSE UNCHANGED <<reqs, docVars>>

(* ingestSnapshot, for a snapshot of version v or (NullV) without one, for *)
(* the callback of the ops given up in r, with inflightFetch f.            *)
Ingest(c, v, f, r) ==
    LET busy == data[c] # NoDoc \/ ops[c] # <<>>
        take == v # NullV /\ ~busy /\ version[c] <= v
        behind == busy /\ version[c] # NullV /\ v > version[c]
        blind == v # NullV /\ ops[c] # <<>> /\ version[c] = NullV
    IN /\ data' = [data EXCEPT ![c] = IF take THEN At(v) ELSE @]
       /\ version' = [version EXCEPT ![c] = IF take THEN v ELSE @]
       /\ IF behind
          THEN Fetch(c, f, <<>>, r, FALSE, version[c])
          ELSE /\ inflight' = [inflight EXCEPT ![c] = f]
               /\ pending' = [pending EXCEPT ![c] = <<>>]
               /\ UNCHANGED <<reqs, overlooked>>
       /\ owed' = [owed EXCEPT ![c] = IF behind \/ blind THEN @ ELSE @ \cup r]
       /\ EmitNothingPending(c, ops[c], IF blind THEN deferred[c] \cup r ELSE deferred[c])

(* The answer calls the callback of one fetch and all that are pending.    *)
ReceiveFetched(c, m) ==
    /\ m.t = "fetched"
    /\ LET oldest == IF inflight[c] = <<>> THEN {} ELSE Head(inflight[c])
           f == IF inflight[c] = <<>> THEN <<>> ELSE Tail(inflight[c])
       IN Ingest(c, m.v, f, oldest \cup UNION Elements(pending[c]))
    /\ UNCHANGED <<ops, sent, tick, sub, persisting, pos, late, abandoned>>

ReceiveSubscribed(c, m) ==
    /\ m.t = "subscribed"
    /\ sub' = [sub EXCEPT ![c] = "on"]
    /\ Ingest(c, m.v, inflight[c], UNION Elements(pending[c]))
    /\ UNCHANGED <<ops, sent, tick, persisting, pos, late, abandoned>>

Handlers(c, m) ==
    \/ ReceiveAck(c, m)
    \/ ReceiveGap(c, m)
    \/ ReceiveOld(c, m)
    \/ ReceiveRemote(c, m)
    \/ ReceiveConflict(c, m)
    \/ ReceiveError(c, m)
    \/ ReceiveFetched(c, m)
    \/ ReceiveSubscribed(c, m)

Receive(c) == Taken(c) /\ Handlers(c, Head(inbox[c]))

-----------------------------------------------------------------------------
(* The connection.                                                         *)

(* Bug: the inflight op stays inflight.                                    *)
DropInflight(c) ==
    /\ up[c] /\ drops[c] < MaxDrops[c]
    /\ up' = [up EXCEPT ![c] = FALSE]
    /\ drops' = [drops EXCEPT ![c] = @ + 1]
    /\ sub' = [sub EXCEPT ![c] = "wanted"]
    /\ inflight' = [inflight EXCEPT ![c] = <<>>]
    /\ pending' = [pending EXCEPT ![c] = @ \o inflight[c]]
    /\ inbox' = [inbox EXCEPT ![c] = <<>>]
    /\ open' = [open EXCEPT ![c] = "none"]
    /\ stream' = [stream EXCEPT ![c] = <<>>]
    /\ reqs' = [q \in {r \in DOMAIN reqs : r.c # c \/ r.t = "op"} |-> reqs[q]]
    /\ UNCHANGED <<serverVars, data, version, ops, sent, tick, owed, deferred,
                   persisting, pos, outcome, history>>

(* _onConnectionStateChanged, disconnected: the inflight op is pending     *)
(* again, and so are the fetches.  The agent's cleanup closes its stream;  *)
(* the requests it was handling get no answer.                             *)
Drop(c) ==
    /\ up[c] /\ drops[c] < MaxDrops[c]
    /\ up' = [up EXCEPT ![c] = FALSE]
    /\ drops' = [drops EXCEPT ![c] = @ + 1]
    /\ sent' = [sent EXCEPT ![c] = FALSE]
    /\ sub' = [sub EXCEPT ![c] = "wanted"]
    /\ inflight' = [inflight EXCEPT ![c] = <<>>]
    /\ pending' = [pending EXCEPT ![c] = @ \o inflight[c]]
    /\ inbox' = [inbox EXCEPT ![c] = <<>>]
    /\ open' = [open EXCEPT ![c] = "none"]
    /\ stream' = [stream EXCEPT ![c] = <<>>]
    /\ reqs' = [q \in {r \in DOMAIN reqs : r.c # c \/ r.t = "op"} |-> reqs[q]]
    /\ UNCHANGED <<serverVars, data, version, ops, tick, owed, deferred, persisting,
                   pos, outcome, history>>

(* _onConnectionStateChanged, connected: flush, then _resubscribe.         *)
Connect(c) ==
    /\ ~up[c]
    /\ up' = [up EXCEPT ![c] = TRUE]
    /\ Flush(c, ops[c], sent[c], TRUE)
    /\ sub' = [sub EXCEPT ![c] = "asked"]
    /\ reqs' = BagAdd(reqs, Request("subscribe", c, version[c]))
    /\ overlooked' = overlooked \ {c}
    /\ UNCHANGED <<serverVars, agentVars, inbox, drops, data, version, tick,
                   fetchVars, pos, outcome, late, abandoned>>

(* An op sent over a connection that dropped never arrives.                *)
Lose(q) ==
    /\ q.t = "op" /\ q.conn # drops[q.c]
    /\ reqs' = BagRemove(reqs, q)
    /\ UNCHANGED <<serverVars, agentVars, netVars, docVars, inbox>>

-----------------------------------------------------------------------------
(* The server: submissions.                                                *)

(* Answers to a connection that is gone are dropped.                       *)
Send(c, conn, ms) ==
    inbox' = [inbox EXCEPT ![c] = IF conn = drops[c] THEN @ \o ms ELSE @]

OpMessage(v) == [t |-> "op", v |-> v, id |-> log[v + 1].id]

OpMessages(v, w) == [i \in 1..(w - v) |-> OpMessage(v + i - 1)]

Exists == At(Len(log)) # NoDoc

(* A create without a version is looked up in the metadata of the          *)
(* document that exists.                                                   *)
Blind(q) == q.v = NullV /\ Exists

Made(o, i) ==
    /\ log[i].id = o /\ Kind[o] = "create"
    /\ \A j \in i + 1 .. Len(log) : Kind[log[j].id] # "create"

First(q) == IF q.v = NullV THEN Len(log) ELSE q.v

(* Bugs: a resent op is not recognised; conflicts are not.                 *)
StopsAtConflict(q, i) == TransformFails(Kind[q.id], Kind[log[i].id], Exists)

StopsAtOwn(q, i) == log[i].id = q.id

Stops(q, i) ==
    \/ log[i].id = q.id
    \/ TransformFails(Kind[q.id], Kind[log[i].id], Exists)

FirstStop(q, i) ==
    /\ i \in First(q) + 1 .. Len(log)
    /\ Stops(q, i)
    /\ \A j \in First(q) + 1 .. i - 1 : ~Stops(q, j)

(* The op's place after the ops that its sender did not have.              *)
Place(q) ==
    LET f[i \in First(q)..Len(log)] ==
            IF i = First(q) THEN q.at
            ELSE IF Kind[q.id] = "edit" /\ Kind[log[i].id] = "edit"
                 THEN Shift(f[i - 1], log[i].at, "left")
                 ELSE f[i - 1]
    IN f[Len(log)]

Fits(q) ==
    /\ ~Blind(q)
    /\ First(q) <= Len(log)
    /\ \A i \in First(q) + 1 .. Len(log) : ~Stops(q, i)
    /\ CanApply(Kind[q.id], Exists)
    /\ ~Throws(At(Len(log)), Place(q), Kind[q.id])

Commit(q) ==
    /\ q.t = "op" /\ Fits(q)
    /\ log' = Append(log, [id |-> q.id, at |-> Place(q),
                           after |-> Apply(At(Len(log)), q.id, Place(q), Kind[q.id])])
    /\ unpublished' = unpublished \cup
           {[c |-> q.c, conn |-> q.conn, from |-> First(q), v |-> Len(log)]}
    /\ reqs' = BagRemove(reqs, q)
    /\ UNCHANGED <<agentVars, netVars, docVars, inbox>>

(* The op is in the log already: acknowledged again.                       *)
AckAgain(q, i) ==
    /\ q.t = "op"
    /\ log[i].id = q.id
    /\ IF Blind(q) THEN Made(q.id, i) ELSE FirstStop(q, i)
    /\ Send(q.c, q.conn, <<[t |-> "ack", v |-> i - 1, id |-> q.id]>>)
    /\ reqs' = BagRemove(reqs, q)
    /\ UNCHANGED <<serverVars, agentVars, netVars, docVars>>

(* A create where another made the document, an op of a newer version, a   *)
(* conflict, an op that cannot be applied, or a refusal by a middleware,   *)
(* which the op's other sendings, if any, need not meet.                   *)
Refuse(q) ==
    /\ q.t = "op"
    /\ \/ Blind(q) /\ ~\E i \in 1..Len(log) : Made(q.id, i)
       \/ ~Blind(q) /\ ~Fits(q) /\ ~\E i \in 1..Len(log) : FirstStop(q, i) /\ log[i].id = q.id
       \/ Fits(q) /\ q.id \in MayReject
    /\ Send(q.c, q.conn, <<[t |-> "err", v |-> NullV, id |-> q.id]>>)
    /\ reqs' = BagRemove(reqs, q)
    /\ abandoned' = IF Fits(q) /\ (UnderWay(reqs', q.id) \/ q.id \in Elements(persisting[q.c]))
                    THEN abandoned \cup {q.id} ELSE abandoned
    /\ UNCHANGED <<serverVars, agentVars, netVars, stateVars, late, overlooked>>

(* Bug: the op is not kept for streams that are not attached yet.          *)
PublishToAttached(u) ==
    /\ unpublished' = unpublished \ {u}
    /\ stream' = [k \in Clients |->
                    IF k # u.c /\ open[k] = "attached" THEN Append(stream[k], u.v) ELSE stream[k]]
    /\ Send(u.c, u.conn, OpMessages(u.from, u.v)
                         \o <<[t |-> "ack", v |-> u.v, id |-> log[u.v + 1].id]>>)
    /\ UNCHANGED <<log, reqs, open, netVars, docVars>>

(* The commit callback: the op goes to the other clients' streams, and the *)
(* sender gets the ops it lacked and the acknowledgement.                  *)
Publish(u) ==
    /\ unpublished' = unpublished \ {u}
    /\ stream' = [k \in Clients |->
                    IF k # u.c /\ open[k] # "none" THEN Append(stream[k], u.v) ELSE stream[k]]
    /\ Send(u.c, u.conn, OpMessages(u.from, u.v)
                         \o <<[t |-> "ack", v |-> u.v, id |-> log[u.v + 1].id]>>)
    /\ UNCHANGED <<log, reqs, open, netVars, docVars>>

-----------------------------------------------------------------------------
(* The server: fetches, subscriptions and streams.                         *)

(* Backend.subscribe opens the stream before it reads ops or a snapshot.   *)
OpenStream(q) ==
    /\ q.t = "subscribe"
    /\ open' = [open EXCEPT ![q.c] = "open"]
    /\ reqs' = BagAdd(BagRemove(reqs, q), [q EXCEPT !.t = "opened"])
    /\ UNCHANGED <<serverVars, netVars, docVars, inbox, stream>>

(* The database answers: at is the version it read up to.                  *)
Read(q) ==
    /\ q.t \in {"fetch", "opened"}
    /\ reqs' = BagAdd(BagRemove(reqs, q),
                      [q EXCEPT !.at = Len(log),
                                !.t = IF @ = "fetch" THEN "fetched" ELSE "subscribed"])
    /\ UNCHANGED <<serverVars, agentVars, netVars, docVars, inbox>>

(* Agent._fetch and _subscribe: the ops, then the reply, with a snapshot   *)
(* for a client that has no version.                                       *)
Answer(q) ==
    /\ q.t \in {"fetched", "subscribed"}
    /\ Send(q.c, q.conn,
            IF q.v = NullV
            THEN <<[t |-> q.t, v |-> q.at, id |-> Nil]>>
            ELSE OpMessages(q.v, q.at) \o <<[t |-> q.t, v |-> NullV, id |-> Nil]>>)
    /\ open' = [open EXCEPT ![q.c] = IF q.t = "subscribed" THEN "attached" ELSE @]
    /\ reqs' = BagRemove(reqs, q)
    /\ UNCHANGED <<serverVars, netVars, docVars, stream>>

(* Agent._onOp.                                                            *)
Forward(c) ==
    /\ open[c] = "attached" /\ stream[c] # <<>>
    /\ inbox' = [inbox EXCEPT ![c] = Append(@, OpMessage(Head(stream[c])))]
    /\ stream' = [stream EXCEPT ![c] = Tail(@)]
    /\ UNCHANGED <<serverVars, netVars, docVars, reqs, open>>

-----------------------------------------------------------------------------
(* The log when the clients start: the preset ops, each inserting at 0.    *)
PresetLog ==
    LET doc[i \in 0..Len(Preset)] ==
            IF i = 0 THEN NoDoc
            ELSE Apply(doc[i - 1], Preset[i], 0, Kind[Preset[i]])
    IN [i \in 1..Len(Preset) |-> [id |-> Preset[i], at |-> 0, after |-> doc[i]]]

Init ==
    /\ log = PresetLog
    /\ unpublished = {}
    /\ reqs = EmptyBag
    /\ inbox = [c \in Clients |-> <<>>]
    /\ open = [c \in Clients |-> "none"]
    /\ stream = [c \in Clients |-> <<>>]
    /\ data = [c \in Clients |-> NoDoc]
    /\ version = [c \in Clients |-> NullV]
    /\ ops = [c \in Clients |-> <<>>]
    /\ sent = [c \in Clients |-> FALSE]
    /\ tick = [c \in Clients |-> FALSE]
    /\ sub = [c \in Clients |-> "wanted"]
    /\ inflight = [c \in Clients |-> <<>>]
    /\ pending = [c \in Clients |-> <<>>]
    /\ owed = [c \in Clients |-> {}]
    /\ deferred = [c \in Clients |-> {}]
    /\ up = [c \in Clients |-> FALSE]
    /\ drops = [c \in Clients |-> 0]
    /\ persisting = [c \in Clients |-> <<>>]
    /\ pos = [o \in Ops |-> NotMade]
    /\ outcome = [o \in Ops |-> "none"]
    /\ late = {}
    /\ abandoned = {}
    /\ overlooked = {}

Work(c) ==
    \/ FlushTick(c)
    \/ Persisted(c)
    \/ Tell(c)
    \/ Receive(c)
    \/ Connect(c)
    \/ Forward(c)

Handle(q) ==
    \/ Commit(q)
    \/ \E i \in 1..Len(log) : AckAgain(q, i)
    \/ Refuse(q)
    \/ OpenStream(q)
    \/ Read(q)
    \/ Answer(q)

Next ==
    \/ \E c \in Clients :
          \/ \E o \in Ops : SubmitBroken(c, o) \/ \E p \in 0..Cardinality(Ops) : Submit(c, o, p)
          \/ Work(c)
          \/ Drop(c)
    \/ \E q \in DOMAIN reqs : Handle(q) \/ Lose(q)
    \/ \E u \in unpublished : Publish(u)

Spec == Init /\ [][Next]_vars

(* Callbacks, sockets and the server go on; applications need not submit,  *)
(* connections need not drop, and what was sent over a connection that     *)
(* dropped need not be handled.                                            *)
Fairness ==
    /\ \A c \in Clients : WF_vars(Work(c))
    /\ WF_vars(\E q \in DOMAIN reqs : q.conn = drops[q.c] /\ Handle(q))
    /\ WF_vars(\E u \in unpublished : Publish(u))

FairSpec == Spec /\ Fairness

-----------------------------------------------------------------------------
(* Properties.                                                             *)

Docs == Seq(Ops) \cup {NoDoc}

Messages ==
    [t : {"op", "ack", "err", "fetched", "subscribed"}, v : Nat \cup {NullV},
     id : Ops \cup {Nil}]

RequestTypes == {"op", "fetch", "subscribe", "opened", "fetched", "subscribed"}

(* The types of the state; no client's document is ahead of the log        *)
(* (client/doc.js: the fields of Doc; agent.js: _reply).                   *)
TypeOK ==
    /\ log \in Seq([id : Ops, at : Nat, after : Docs])
    /\ unpublished \subseteq [c : Clients, conn : Nat, from : Nat, v : Nat]
    /\ IsABag(reqs)
    /\ DOMAIN reqs \subseteq
          [t : RequestTypes, c : Clients, conn : Nat, v : Nat \cup {NullV},
           id : Ops \cup {Nil}, at : Nat]
    /\ inbox \in [Clients -> Seq(Messages)]
    /\ open \in [Clients -> {"none", "open", "attached"}]
    /\ stream \in [Clients -> Seq(Nat)]
    /\ data \in [Clients -> Docs]
    /\ version \in [Clients -> {NullV} \cup 0..Len(log)]
    /\ ops \in [Clients -> Seq(Ops)]
    /\ sent \in [Clients -> BOOLEAN]
    /\ tick \in [Clients -> BOOLEAN]
    /\ sub \in [Clients -> {"wanted", "asked", "on"}]
    /\ inflight \in [Clients -> Seq(SUBSET Ops)]
    /\ pending \in [Clients -> Seq(SUBSET Ops)]
    /\ owed \in [Clients -> SUBSET Ops]
    /\ deferred \in [Clients -> SUBSET Ops]
    /\ up \in [Clients -> BOOLEAN]
    /\ drops \in [Clients -> Nat]
    /\ persisting \in [Clients -> Seq(Ops)]
    /\ pos \in [Ops -> Nat \cup {NotMade}]
    /\ outcome \in [Ops -> {"none", "ok", "failed"}]
    /\ late \subseteq Ops
    /\ abandoned \subseteq Ops
    /\ overlooked \subseteq Clients

(* What the application of client c should see: the document at the        *)
(* client's version with its unacknowledged ops applied on top.            *)
View(c) ==
    LET f[i \in 0..Len(ops[c])] ==
            IF i = 0 THEN At(version[c])
            ELSE Apply(f[i - 1], ops[c][i], pos[ops[c][i]], Kind[ops[c][i]])
    IN f[Len(ops[c])]

(* An op of client c was sent after c had its answer, or given up before.  *)
Astray(c) == \E o \in late \cup abandoned : Owner[o] = c

(* doc.data is that view at every moment: transformX moved the client's    *)
(* ops and the server's past each other so that both sides agree, and no   *)
(* op was applied twice or left out.  Only a client with an op astray may  *)
(* meet an acknowledgement that it does not wait for, and count a version  *)
(* without the op.                                                         *)
LocalView == \A c \in Clients : data[c] = View(c) \/ Astray(c)

(* No op is committed twice, although clients resend, but one that a       *)
(* persist callback sent again after its acknowledgement.                  *)
ExactlyOnce ==
    \A i, j \in 1..Len(log) : log[i].id = log[j].id => i = j \/ log[i].id \in late

(* The same without exception, as doc.js:728 says of all ops: the tuple is *)
(* "used on the server to detect when ops have been sent multiple times".  *)
NoOpTwice == \A i, j \in 1..Len(log) : log[i].id = log[j].id => i = j

(* The document was deleted after op o was logged.                         *)
DeletedSince(o) ==
    \E i, j \in 1..Len(log) : i < j /\ log[i].id = o /\ Kind[log[j].id] = "del"

(* A callback without an error means that the op is in the log, and one    *)
(* with an error that it never will be, but for an op that was given up    *)
(* for another op's sake while it was under way, one that was sent late,   *)
(* and one sent again to a document that is deleted.                       *)
CallbacksTellTheTruth ==
    \A o \in Ops :
        /\ outcome[o] = "ok" => Logged(o)
        /\ outcome[o] = "failed" /\ o \notin late \cup abandoned
              => ~Logged(o) \/ DeletedSince(o)

(* Nothing is on its way, and every client is connected.                   *)
Quiet ==
    /\ unpublished = {} /\ reqs = EmptyBag
    /\ \A c \in Clients :
          /\ up[c] /\ inbox[c] = <<>> /\ stream[c] = <<>>
          /\ persisting[c] = <<>> /\ ops[c] = <<>>

(* Then every subscribed client has the latest version of the document,    *)
(* unless the last op it met ahead of it came while a fetch was inflight,  *)
(* or the last op is its own, which no stream brings, and is astray.       *)
CaughtUp ==
    Quiet => \A c \in Clients : version[c] = Len(log) \/ c \in overlooked \/ Astray(c)

(* Every op that is submitted is answered in the end, if connections come  *)
(* back.                                                                   *)
EveryOpEnds ==
    \A o \in Ops : pos[o] # NotMade ~> outcome[o] # "none"
=============================================================================
