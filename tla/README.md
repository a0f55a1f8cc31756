# ShareDB in TLA+

Specifications of ShareDB (`src/lib`), model-checked with TLC and, for the core,
proved with TLAPS. ShareDB keeps JSON-like documents on a server, lets many
clients edit them at once by operational transformation (OT), and streams the
committed operations to all of them. This fork adds a durable store to the
client and a proxy that lets tabs share one connection.

Contents: [the system](#the-system), [plan](#plan), [modules](#modules),
[runs](#runs), [fairness and scheduling](#fairness-and-scheduling),
[proofs](#proofs), [violations](#violations), [also seen](#also-seen),
[not modelled](#not-modelled).

## The system

| Component | State | Operations | Talks to |
|---|---|---|---|
| `SubmitRequest` (`submit-request.js`) | the op with its version, the snapshot, ops the client lacks, fixups, retries | `submit`, `apply`, `commit`, `retry`, `_transformOp`, `$fixup` | database, pubsub, Agent |
| Database (`db/index.js`, `db/memory.js`) | op log and row of every document | `commit`, `getSnapshot`, `getOps`, queries | SubmitRequest, Backend, QueryEmitter |
| `Backend` (`backend.js`) | middleware, projections | `submit`, `fetch`, `getOps`, `subscribe`, `querySubscribe` | all of the server |
| `Agent` (`agent.js`) | one per connection: streams and emitters it owns, presence requests, `latestDocVersions` | `_submit`, `_fetch`, `_subscribe`, `_unsubscribe` (and in bulk), `_querySubscribe`, `_broadcastPresence`, `_subscribePresence`, `_onOp`, `_cleanup` | Connection, Backend |
| `PubSub`, `OpStream` (`pubsub/`, `op-stream.js`) | per channel: a flag, the open streams | `subscribe`, `publish`, `_emit`, `_removeStream` | broker, Agent, QueryEmitter |
| `QueryEmitter` (`query-emitter.js`) | ids of the results, the poll under way, pending polls, timers | `_update`, `queryPoll`, `queryPollDoc`, `_flushPoll`, `destroy` | database, pubsub, Agent |
| client `Connection` (`client/connection.js`) | state, id, `canSend`, the socket, registries of docs, queries, presences, snapshot requests | `bindToSocket`, handshake, `_setState`, bulk messages, `fetchSnapshot`, `whenNothingPending` | Agent, Doc, Query, Presence |
| client `Doc` (`client/doc.js`) | data, version, inflight and pending ops, fetches, subscription | `submitOp`, `create`, `del`, `flush`, `_handleOp`, `_rollback`, `ingestSnapshot` | Connection, DurableStore |
| client `Query` (`client/query.js`) | results | `send`, `_handleDiff`, `destroy` | Connection, Doc |
| client `DurableStore` (`client/durable-store.js`) | queue, batch, inventory, flush callbacks | `putDoc`, `putDocsBulk`, `flush`, `setAutoBatchEnabled`, `initialize` | storage engine, Doc |
| Presence (`client/presence/`) | local values and what waits to be sent; remote values with a cache of ops; subscription callbacks by `seq` | `subscribe`, `unsubscribe`, `submit`, `receiveUpdate`, transform by ops | Connection, Doc, Agent |
| Milestones, snapshot requests (`milestone-db/`, `client/snapshot-request/`) | milestone snapshots; requests not answered | snapshot by version or time | Backend, database |
| Projections, read middleware (`projections.js`) | none | filter fields, refuse ops | Backend |
| SharedWorker proxy (`client/proxy/`) | tabs, the shared connection | forward calls and events | Connection, Doc |

What is hard about it:

* **Concurrency.** Requests for one document run at once, in one process or in
  several, with a database call between any two steps of each. Clients edit
  while the edits of others are on their way. Each poll of a query reads the
  database at one moment and is used at a later one.
* **Failure.** Connections drop with messages on both ways. Processes and
  applications end between two writes. Database calls, storage writes and
  middleware fail.
* **Ordering.** Ops reach a client by its stream, by the reply to its own op,
  by fetches and by the answer to its subscription. Commands to a broker
  overtake the callbacks of earlier ones.
* **Retry.** A client resends what was not acknowledged; the server repeats
  what lost a race; a query is subscribed again with the results it had; docs
  and presences subscribe again with the callbacks that were left.

What makes each component correct:

* *Submission*: an op is logged at most once, the row is what the log says, an
  acknowledgement names the op's place, a client gets exactly the ops it lacks,
  everything is answered.
* *Doc and Agent*: the document shown is always the server's at its version
  with the client's own ops on top; callbacks tell the truth; no op is applied
  twice; when all is quiet everybody has the latest version.
* *PubSub*: a stream that was handed out hears everything that is published
  since, in order and once; nothing stays subscribed for nobody.
* *DurableStore*: callbacks mean what they say, the stored inventory describes the
  stored records, the store never goes back, everything is answered.
* *Queries*: the client's results are the emitter's, and in the end the
  query's; the documents in them are kept up to date.
* *Connection*: client and agent agree on what is subscribed; no callback and no
  stream is lost or used twice over drops; every call is answered; a snapshot of
  the past is what the ops up to then made.
* *Presence*: a value reflects the ops of the document it is shown in, each
  once; it never goes back; the last one arrives.

## Plan

Modules, most important first. The first seven steps are done.

1. `OT`, `OpLog`, `Submit`, `SubmitProofs`: the submission of ops, its abstract
   log, the proofs of its invariants, and that it implements the log.
2. `Text`, `Sync`, `SyncProofs`: docs, connections, agents and the server
   composed, and the proofs.
3. `PubSub`, `PubSubProofs`: channels and streams, and the proofs.
4. `DurableStore`, `Induction`, `DurableStoreProofs`: the client's storage, and
   the proofs.
5. `Query`: one subscribed query from the database to the client.
6. `Snapshots`, `Connection`, `ConnectionProofs`, `CallsProofs`: the state
   machine of `Connection` with its handshake, subscriptions and streams, bulk
   messages, snapshot requests; and the proofs about these.
7. `Presence`, `PresenceProofs`: one local and one remote presence of a
   document, and the proofs.
8. More of the client's doc in `Sync`: fixups, ops that become empty
   (`ERR_NO_OP`), rejection, invertible rollback, compose, pause.
9. `Sync` with `DurableStore` (restore after a restart; storage errors).

Abstract specifications worth stating: `OpLog` (done; `Submit` implements it),
the same log for `Sync`, a perfect channel for `PubSub` over `MemoryPubSub`,
and a store of records for `DurableStore`.

Theorems, in order: types, `ExactlyOnce`, `AckNamesCommit`,
`SnapshotMatchesLog`, `OpsFillTheGap`, `AckCarriesFixups` of `Submit`, and the
step refinement from `Submit` to `OpLog` (done); types, `MemoryHears`, `NoLeak`,
`NoGaps` of `PubSub` (done); types, `CallbackMeansStored`,
`InventoryMatchesStore`, `WaitingFlushMeansWritten` and `StoreNeverGoesBack` of
`DurableStore` (done); types, `InStep` and `NeverBack` of `Presence` (done);
types, `ExactlyOnce` and `LocalView` of `Sync` (done);
`SnapshotRight` and `NothingLost` of `Connection` (done); `PollsFollowIds` of
`Query`; `SubscribedMeansHeld` of `Connection`; `LocalView` with creates, deletes and refusals.

Runs and bounds: one run per component that carries its safety properties with
as many interleavings as a minute or two can explore, one with fairness where
the first is too large for it, and one per disagreement between code and
documentation.

## Modules

Steps are cut where the code is: a JavaScript function runs to its end, so
an action is everything from one callback to the next asynchronous call.

### OT, Text

`OT` has the rules of `ot.js` by kind of op: which pairs of ops `transform`
refuses (`Conflicts`), that it also refuses an edit over an edit when the
snapshot it is given has no type, because the document is deleted now
(`TransformFails`), and when `apply` refuses (`CanApply`). `Text` is the OT type
used by `Sync`: one insert into a sequence, with `Shift` as its transform. The
type is a library outside of `src/`.

### OpLog

What the server promises to clients: an op is appended once and never after it
was refused, an acknowledgement names the place it has, and what is refused is not
in the log, unless the document was deleted since it was logged (`DeletedSince`): a
resent edit is then refused before its logged copy is found.

### Submit

Requests for one document against a database with the contract of
`db/memory.js`. An op is a model value that stands for its `(src, seq)`;
several requests may carry the same op, because clients resend.

| Code | Action or state |
|---|---|
| `Agent._submit`, `Backend.submit`, a client that sends or resends | `Receive` |
| `SubmitRequest.submit`: `getSnapshot` and what follows | `ReadSnapshot` (`ReadExistingForCreate` for a null version and an existing document, `ReadVersion` otherwise) |
| `getOps` and the loop of `_transformOp` | `GetOps` (`TransformThrough`, or `TransformStopped` at the op itself or at a conflict) |
| `apply` with its middleware, `$fixup` | `ApplyToSnapshot`, `Reject` |
| `commit`: the database accepts or refuses the version; `retry` | `CommitWins`, `CommitLoses` |
| the commit's callback: publish, acknowledge | `Publish` |
| a process ends: the request takes no more steps | `Lose` |
| `request.op.v`, `snapshot`, `ops`, `_fixupOps`, `retries` | `ver`, `snap`, `ops`, `fix`, `tries` |
| `snapshot._createOp` metadata (`src`, `seq`, `v`) | `row.create` |

The payload of an edit is its identity; a snapshot's data is the set of edits
since the last create. That is all that `SnapshotMatchesLog` has to tell apart.
`Cancels` names edits that become empty when transformed over another
(`ERR_NO_OP`).

### Sync

Clients (`Doc` and `Connection`), their agents and streams, and the server.
`Submit` takes a submission apart; `Sync` has it in two steps, the commit and
what follows it, since clients can tell no more.

| Code | Action |
|---|---|
| `Doc._submit`, `create`, `del` | `Submit`; with a type that throws, `SubmitBroken` |
| `flush` on nextTick, `_sendOp` | `FlushTick`, then `Persisted` when `_putToDurableStore` calls back |
| `_fetch` with `inflightFetch` and `pendingFetch` | `Fetch`, inside of the handlers |
| the callbacks of a fetch: by setTimeout, by the durable store, or at "no write pending" | `Tell`, `EmitNothingPending` |
| `Connection.handleMessage` to `_handleOp`, `_handleFetch`, `_handleSubscribe` | `Receive`, with one handler for each case: `ReceiveAck`, `ReceiveOld`, `ReceiveGap`, `ReceiveRemote`, `ReceiveConflict`, `ReceiveError`, `ReceiveFetched`, `ReceiveSubscribed` |
| `_rollback`, `_hardRollback` | inside those handlers (`HardRollback`): the callbacks of the ops wait for the answer of the forced fetch |
| `_onConnectionStateChanged` | `Drop`, `Connect` |
| `Agent._onOp`, `_isOwnOp` | `Forward` |
| submission on the server | `Commit`, `AckAgain`, `Refuse`, then `Publish` |
| `Backend.subscribe`, `fetch`, and the replies of `Agent` | `OpenStream`, `Read`, `Answer` |
| messages and requests lost with a connection | `Drop`, `Lose` |

The bag `reqs` holds requests that were sent or are being handled, which the
server may take in any order; `inbox` is a sequence, because a socket keeps
order. A fetch in `inflight` or `pending` is the set of the given-up ops that its
callback tells of the failure.

Three history variables, which no action reads, name what the code gets wrong, so
that the properties can be stated of everything else
([also seen](#also-seen)): `late` has the ops that a persist callback sent when
they were not inflight, `abandoned` those that were given up while they could still
be committed, `overlooked` the clients that met an op ahead of them and asked for
none because a fetch was inflight.

`Preset` is the history that the clients find when they start. It is one that
submissions can have made (`PresetAssumption`): each op once, none of a client's
own, each applied to a document that allows its kind. `NoDoc` is no text
(`NoDocAssumption`). The text type throws on an insert that does not fit the
text (`Throws`); that no edit meets this unless `Broken` says so is part of what
`SyncProofs` shows.

### PubSub

One channel of a server's `PubSub`. `remote` says whether a broker delivers the
messages or `MemoryPubSub` does; it is chosen at the start and both are checked
in one run. `wire` carries commands to the broker (or to nextTick), `back` its
answers and messages. `subscribe` is `Subscribe` with `Tick` (flag set) or
`Subscribed` (broker asked); `OpStream.destroy` with `_removeStream` is
`Destroy`; `_emit` with `pushData` is `Emit`. A `Tick` may come after anything: code
of the same turn or an earlier tick may have destroyed the last stream and cleared
the flag. The history variable `deaf` names the streams that were made so, and
`from` what was published when a stream was made.

### DurableStore

The queue, the batch under way, the inventory, `flush` and restart. `Put` is
`putDoc` with the batch it may start; `PutBulk` is `putDocsBulk`; `Finish` is
the callback of `writeRecords`: the callbacks of the batch, the next batch, or
the flush callbacks. `Begin` with `Wasted` is `_putNextBatchFromQueue`: batches
that would take a document back are rejected until one is good. The storage
engine writes a batch in one transaction (`Written`) or fails (`NotWritten`).
`sc` says what may happen in a behaviour: failing writes, versions that go back,
automatic batches switched, a restart. `told` tells a callback that waited for the
write (`"ok"`) from one that was called at once (`"early"`), as `putDoc` does with
automatic batches off and `putDocsBulk` always. That the docs are finitely many
(`DocsAssumption`) is what the loop of `putDocsBulk` needs to end.

### Query

One subscribed query: `QueryEmitter`, its owner in `Agent`, and the client's
`Query` with the documents in its results.

| Code | Action |
|---|---|
| `Query.send`, `Agent._querySubscribe` | `Send`, `FetchBulkOps`, `Subscribe`, `ReadQuery`, `AnswerQuery` |
| `_update` | `Update` |
| `queryPoll`: `db.queryPoll`, the diff, `getSnapshotBulk`, `_finishPoll` | `ReadPoll`, `AnswerPoll`, `ReadSnapshots`, `AnswerSnapshots`; `FailPoll`, `FailSnapshots` |
| `queryPollDoc` | `ReadPollDoc`, `AnswerPollDoc`, `ReadSnapshot`, `AnswerSnapshot`; `FailPollDoc` |
| the timers | `DebounceFires`, `DebounceFiresInPoll`, `IntervalFires` |
| `Query._handleDiff`, `Doc.ingestSnapshot`, `Doc._handleOp` | `Receive` (`Ingest`, `TakeOp`) |
| `Doc._fetch`, `Agent._fetch` for a doc in the results | `Fetch`, `ReadFetch`, `AnswerFetch` |
| `Query.destroy`, a dropped connection | `Destroy`, `Drop` |

A read of the database and the use of its answer are two actions, so that writes
(`Commit`) fall between them. `adapter` says what the database offers
(`canPollDoc`, `skipPoll`). `Troubles` and `MaxTroubles` bound failures, `MaxEvents`
the writes and failures together. As in `Sync`, `overlooked` names the documents
that met an op ahead of them while a fetch was inflight.

### Snapshots

What `MemoryMilestoneDB` answers and how `Backend` builds the snapshot of a
version or of a time, as operators. A log is the sequence of the times of its
ops, a snapshot the versions of the ops that were applied to make it: a gap or a
repetition shows. `BuildSnapshot` is `_buildSnapshotFromOps` with `ot.applyOps`.

### Connection

A client `Connection` with its docs, and the agents it meets one after another.
`Sync` has what ops do to the data and leaves the ways of a connection out;
`Connection` has these, and of a doc only its version.

| Code | Action or operator |
|---|---|
| `bindToSocket`, `socket.onopen`, `onclose` | `BindToSocket`, `Open` and `Reopen`, `SocketClosed` (lost, stopped by the server, or `close()`) |
| `_setState`, and what every doc does on it | `_setState` with `DocStateChanged` |
| `startBulk`, `endBulk`, `_sendBulk` | `Bulk` |
| `_handleLegacyInit`, `_initializeHandshake`, `_handleHandshake` | `_handleLegacyInit`, `AgentHandshake`, `_handleHandshake` |
| `doc.fetch`, `subscribe`, `unsubscribe` | `Call`, with `_fetch`, `_queueSubscribe`, `_flushSubscribe` |
| `_handleFetch`, `_handleSubscribe`, `_handleOp`, alone and from `_handleBulkMessage` | `HandleReply`, `HandleOp` |
| the nextTick of an unsubscribe made offline | `Tick` |
| the callbacks that `ingestSnapshot` leaves to setTimeout or the durable store | `CallBack` |
| `fetchSnapshot`, `fetchSnapshotByTimestamp` | `FetchSnapshot`, `ReadMilestone`, `ReadSnapshot`, `_handleSnapshotFetch` |
| `whenNothingPending`, `_nothingPendingRetry` | `WhenNothingPending`, `_nothingPendingRetry` |
| `Agent._fetch`, `_subscribe`, `_subscribeBulk` and the backend's | `StartJob`, `ReadDocs`, `Finish` |
| `Agent._unsubscribe`, `_unsubscribeBulk`, `_cleanup`, streams | `Unsubscribe`, `Cleanup`, `Deliver` |
| `inflightSubscribe`, `pendingSubscribe`, `inflightFetch`, `pendingFetch`, `wantSubscribe`, `subscribed` | `infSub`, `penSub`, `infFetch`, `penFetch`, `want`, `subd` of `doc[d]` |

The handlers of a doc are functions from the doc to the doc, because one message
or one change of state runs them for several docs; what they send and call back
is gathered in `out` and `told`. A callback list is a set of calls, and
`calls[i].told` is what call `i` was told; `late` has the lists that
`ingestSnapshot` has put off.

`BindToSocket` has both kinds of socket: a `StreamSocket` calls `onclose` within
`close()`, a `WebSocket` later, when the connection listens to it no more. A `Tick`
may come after anything, also after the drop or the reply that has answered the
request it is for; `stray` is set then, and the properties say what they except for
such a doc. `Stuck` is the connection that is connected and cannot send, until the
socket that replaced an open `WebSocket` closes.

The server sends the initialization packet of the older protocol and answers the
handshake of the newer one, and the client reacts to both, so that a connection
is initialized twice: both are in the model.

### Presence

A client A with a `LocalDocPresence`, a client B with the `RemoteDocPresence` of
it, their agents, and the ops of both on the document, which travel on another
way than presence does.

| Code | Action or operator |
|---|---|
| `LocalPresence.submit`, `send`, `_sendPending` | `SubmitPresence` (`LocalSend`), `SendPending` |
| `LocalDocPresence._transformAgainstOp` | `_transformAgainstOp`, in every op event of A |
| `RemoteDocPresence.receiveUpdate`, `_setPendingPresence`, `_catchUpStalePresence` | `receiveUpdate`, `_setPendingPresence`, `CaughtUp` |
| `RemoteDocPresence._handleOp`, `_cacheOp` | `RemoteHandleOp` |
| the ops of the doc: submitted, committed, received, fetched | `SubmitOp`, `Commit`, `NextOp`, `Fetch` |
| `Presence.subscribe`, `unsubscribe`, `_resubscribe` | `Call`, `Receive`, `Reconnect` |
| `Agent._broadcastPresence` | `BroadcastStart`, `BroadcastTransformed` |
| `Agent._subscribeDocVersion` and its stream | inside `BroadcastStart`, `LatestDocVersion` |
| `Agent._subscribePresence`, `_unsubscribePresence`, the stream's end | `Take`, `StreamOpened`, `EndStream` |
| `_cleanup`, a dropped connection | `Cleanup`, `Drop` |

A presence value is the set of the ops that it reflects, each with the `isOwnOp`
it was transformed with; transformed by one op twice, it reflects `Twice`. What
`InStep` says is then an equation between the value and the document it is in.
The callbacks of `subscribe` are a set of records with their `seq`, as the code
keeps them in an object by `seq`. There are agents enough for the drops of any
scenario (`MaxAgents`).

## Runs

| Run | Instance | Shows |
|---|---|---|
| `Submit_resend` | ops `c1 e1 e2 d1`, 5 requests, `c1 e1` resent, `e2` may become empty, unlimited retries | all safety properties of `Submit` but one, and that it implements `OpLog` |
| `Submit_live` | ops `c1 c2 e1`, 3 requests, `c1` without a version, `c1 e1` resent, `e1` amended or refused, crashes; fair | fixups are told, every request ends |
| `Sync_drops` | clients A, B insert into an existing document; A's op may be refused, A's connection drops once; fair | `LocalView`, `ExactlyOnce`, `CaughtUp`, every op ends |
| `Sync_kinds` | A edits (or its type throws), B edits, deletes and creates; both edits may be refused | rollbacks, truth of callbacks |
| `PubSub_brokers` | 3 subscribers, 2 subscriptions each, 2 messages, with and without a broker | order, no duplicates, no leak; without a broker nothing is missed |
| `DurableStore_writes` | 2 documents, 3 puts (some bulk, some without a version), batches of 2, a flush; failing writes, or regressing versions, switched batches and a restart; fair | inventory, callbacks, flush, no going back, everything answered |
| `Query_polls` | 2 documents, up to 3 writes of one and 1 of the other, three kinds of adapter, debounce, one trouble of seven kinds, 3 events in all; fair | results, documents, everything settles |
| `Connection_drops` | 9 scenarios: 3 calls on a document over one socket; over 2 sockets 2 calls with a commit, 2 calls with refused reads, 2 documents in bulk, and snapshot requests; 2 calls with 2 commits, snapshot requests with 2 commits and milestones, `whenNothingPending`; fair | nothing lost, subscriptions agree, callbacks, snapshots, answers |
| `Presence_catchup` | 9 scenarios: 2 ops and 1 presence, 1 op and 2 presences, with and without B subscribed to the document, null values, values submitted by a listener of an op, late subscription, leaving and joining, a drop; fair | presence in step with the document, never back, everything settles |
| `Submit_recreate`, `Sync_resend`, `Query_docorder` | see [violations](#violations) | each refutes one sentence of the repository |

Why the bounds are enough for what they show:

* `Submit`: a resent op needs two requests, another edit before it a third, the
  create a fourth, and a delete that comes last a fifth: so the log
  `c1 e2 e1 d1` arises, and `e1` is resent to a document that is gone. Retries are
  unlimited and end because only a commit causes one. A crash only ends a request's
  steps, as does a request that is never scheduled again in a run without fairness;
  `Submit_live` has both.
* `Sync`: two clients suffice for OT between a client and the server, whose log
  is linear; the bounds are per run, because drops and kinds of ops multiply.
* `PubSub`: one stream that closes, one that opens, and one that stays; the second
  of two messages shows a gap or an overtaking.
* `DurableStore`: a batch under way, one queued, and one that meets the same
  document again.
* `Query`: two documents make positions matter, two writes make polls overlap, and
  a third of the same document overtakes the fetch that the second one made.
  One trouble at a time; a drop needs no second one to go wrong.
* `Connection`: one call inflight, one queued, and one merged into either or
  queued behind; two sockets make one change of connection, wherever the
  calls stand. Two documents make a bulk message. A snapshot by time needs ops
  before, at and after the time, and a milestone on either side.
* `Presence`: a value that waits or is on its way, one op it has and one it
  has not; of two values one can overtake the other; three calls let an
  unsubscribe fall between two subscribes. A scenario fixes the bounds of a
  behaviour (`sc`), so that they do not multiply.

Deadlock checking is off in all runs: when all ops are made, all requests
answered and the bounds used up, the systems rightly stop.

## Fairness and scheduling

Liveness is checked under weak fairness of what goes on by itself: callbacks of
completed database calls (`Submit`), sockets, timers and callbacks of clients and
the server (`Sync`, `Query`), and answers of the storage engine (`DurableStore`).
Nothing makes an application submit, a connection drop, a write fail or a
process crash, and nothing makes the server handle what was sent over
a connection that has dropped since.

In `Connection` and `Presence` one weak fairness condition covers all steps of
the client and the server together: some step of theirs is taken as long as one
can be. That is weaker than fairness of each step and enough, since only a
bounded number of them can be taken for a bounded number of calls and failures.

`EveryRequestEnds` is checked with unlimited retries, the default of
`maxSubmitRetries`. With a limit every request ends at once by an error.

What the code leaves to nextTick, to a timer or to the durable store comes at any
later time in all modules: after code of the same turn, after messages, drops and
reconnects. For the callback of `_putToDurableStore` this is what a storage engine
may do, and without one it is a setTimeout (`client/doc.js:1223`). For nextTick
it is more than Node.js does, but code of the same turn and earlier ticks do come
between, and in a browser nextTick is a message or a timer.

## Proofs

### Submit: SubmitProofs

`SubmitProofs` proves for every set of ops, requests, kinds and limits, with
resends, refusals, fixups, empty edits and crashes:

* `TypeCorrect`: `Spec => []TypeOK`
* `ExactlyOnceCorrect`: `Spec => []ExactlyOnce`
* `AckNamesCommitCorrect`: `Spec => []AckNamesCommit`

under the assumption `SafeNulls`: no op is sent without a version, or no op
deletes. Without it `ExactlyOnce` is false: run `Submit_recreate` is the
counterexample.

`ExactlyOnce` alone is not inductive: a commit must know that the log does not
have the op yet. The inductive invariant `IInv` says what carries that knowledge
from step to step:

* `Control(r)`: what `ver` and `snap` of a request are at each point of its life;
* `NotPassed(r)`: a request that may still commit has not moved its version past
  a logged copy of its own op. `_transformOp` stops at the copy, which is why
  looking at the ops between the op's version and the snapshot is enough;
* `Fresh(r)`: a snapshot that can still be committed derives from the row as it
  is now. So a commit that wins has looked at the whole log;
* `Placed(r)`: the version of an op that was committed or found is its place;
* `RowInv`: the row has the version of the log, and its metadata names the place
  of the create, which is how a null-version create is recognised;
* `CreatedExists`: without deletes, a document that was created exists. Only the
  null-version create needs it;
* `SentInv`: only what was sent is logged.

`NextInv` shows that each action keeps `IInv`, one lemma for each action;
`LocalStep` says that a step of one request that leaves the log alone keeps the
parts about the others.

### Submit: what requests carry and leave behind

The second part of `SubmitProofs` uses `IInv` in every step and proves, under
`SafeNulls` too:

* `SnapshotMatchesLogCorrect`: `Spec => []SnapshotMatchesLog`. Relative to
  `IInv` the property is inductive: only `CommitWins` writes the row, and the
  snapshot it writes is one op applied to the row as it is now (`Fresh`).
  `CreatedAfter` and `EditsAfter` say what one more op does to what the log
  describes.
* `OpsFillTheGapCorrect`: `Spec => []OpsFillTheGap`. `GapInv` says of each
  request, at each point of its life, which places of the log its `ops` have:
  from the version the client knew (`base`) up to the version the op has now.
  A request that loses its commit goes on from there, so that the next `getOps`
  neither repeats an op nor leaves one out.
* `AckCarriesFixupsCorrect`: `Spec => []AckCarriesFixups`, under `SafeFixups`
  as well: no op that is sent without a version is amended. A create that is
  recognised by the row's metadata is acknowledged without its fixups
  (`submit-request.js:104`, see [also seen](#also-seen)), so that without the
  assumption the property is false. `FixInv` relates the fixups in the log
  (`EntryFixups`) to those a request holds (`RequestFixups`); it is about ops
  that were never retried, as the property is.

### Submit implements OpLog

The last part of `SubmitProofs` proves `Refinement`: `Spec => ImplementsOpLog`, the initial
state and every step of `Submit` mapped to `OpLog`. It assumes `SafeNulls` and
`SafeRefusals`: an op that may be resent is not refused by a middleware, does not
become empty, and no limit of retries ends its requests. Whether one of these
happens depends on the moment, so that of two requests of one op one may be
refused and the other commit ([also seen](#also-seen)). The instance of
`Submit_resend` satisfies both assumptions.

That leaves the refusals because of a conflict, or because the op does not
apply. One of them is told of an op that is in the log: an edit that is resent after
the document was deleted (`ot.js:150`), which `OpLog.Refuse` allows by
`DeletedSince`. The step shows that no other is. That they are final needs the invariant `RefInv`, besides `IInv` and
`SnapshotMatchesLog`:

* `Sendable`: an op applies at the version it was last sent with;
* `Walked(r)`: between that version and its own a request has met no conflict.
  With `Sendable` the op then applies at every version it is taken to
  (`ClearKeeps`), and `ot.apply` never refuses what the client was last told of;
* `RefusedForGood(r)`: an op that could be resent was refused because of a
  logged op that conflicts with it (`Blocked`). No request of it can be past
  that op (`Walked`), so none commits;
* `LoggedWalked`: an op that is logged behind a conflicting one was never sent
  before it, so that the op refused for a conflict is not in the log already;
* `SentOnce(r)`: an op that is not resent has one request;
* `SnapExists(r)`, `CreateNamed`: the document exists in a request's snapshot if
  it did at that version; the row's metadata names a create.

A step that leaves the log alone is brought into one form first (`Local(r)`, one
lemma for each action), from which both `RefInv'` and the step of `OpLog` follow.

### PubSub: PubSubProofs

`PubSubProofs` proves for any set of subscribers, any number of subscriptions
and messages, with a broker and without:

* `TypeCorrect`: `Spec => []TypeOK`
* `MemoryHearsCorrect`: `Spec => []MemoryHears`
* `NoLeakCorrect`: `Spec => []NoLeak`
* `NoGapsCorrect`: `Spec => []NoGaps`

with every tick as late as it may be. A stream that is made after the flag was
cleared (`pubsub/index.js:72`) is in `deaf`: `MemoryHears` says that this is the
only way in which streams are open and the flag is clear, and `NoGaps` that every
other stream has heard, or will hear, all that was published since it was made.

The inductive invariant `PInv` consists of

* `AskedOnce`: a subscriber that waits has one command or one answer on its way.
  Else a second answer would open a second stream for it;
* `FlagMeansStream`: while the flag is set a stream is open, and while it is clear
  every open stream is deaf. `MemoryHears` follows at
  once, and so does the half of `NoLeak` about the flag;
* `BrokerKnows`: if the broker will send the channel once it has handled every
  command under way, somebody is there or waits. It speaks of the last command,
  because each is undone by a later one; that is the other half of `NoLeak`;
* `InOrder`: the messages under way are in order, and later than what each open
  stream has heard;
* `Gapless`, `Complete`: without a broker what a stream has heard has no gap, and
  what it lacks of the messages since it was made is under way behind what it has
  heard. `NoGaps` needs them when the next one arrives.

`NextInv` has one lemma for each action here as well. The parts of `PInv` were
checked with TLC on the instance of `PubSub_brokers` before they were proved.

### DurableStore: DurableStoreProofs

`DurableStoreProofs` proves for any finite set of docs, any batch size, any
number of puts, flushes and restarts, with writes that fail and versions that go
back or are missing:

* `TypeCorrect`: `Spec => []TypeOK`
* `CallbacksAreTrue`: `Spec => []CallbackMeansStored`
* `InventoryIsTrue`: `Spec => []InventoryMatchesStore`
* `FlushesAreTrue`: `Spec => []WaitingFlushMeansWritten`
* `StorageRises`: `Spec => StoreNeverGoesBack`

from no assumption but those on the bounds. `CallbacksAreTrue` speaks of both kinds
of callback: one that waited for the write means stored; one that was called at once
means that the record is stored or still on its way, unless it is refused, its write
fails or the application ends. What the other properties leave out where writes fail (`sc.fails`) they leave out in the theorems too.

The inductive invariant `DInv` is stated of a queue, a batch, an inventory, a
storage and a list of answers given as parameters. One step of the code ends a
batch and begins the next, perhaps after some that are rejected, and what holds
in between holds of values that no state shows. Its parts:

* `Rising`: the numbers of the puts rise from the storage to the batch and from
  the batch through the queue. So a write cannot replace a later record;
* `Taken`: a batch has one record of a doc at most, and the inventory in memory
  already has its versions;
* `NotBehind`: neither inventory is behind the storage, also when a write failed
  after the inventory was changed. The check against a regression
  (`durable-store.js:593`) is made against the inventory, and only this makes
  it a check against the storage;
* `Accounted`: a put that is called back without an error is stored; every put
  is stored, told otherwise, in the queue or in the batch;
* `Matches`: the stored inventory agrees with the storage, and the one in memory
  differs from it by the batch only;
* `Promises`: what a flush that waited was promised has been written.

`Wasted`, the loop over rejected batches, is a recursive function on the place
in the queue. `Follows` in `Induction` is its form, `FollowsExists` says that
such a function exists, `FollowsEnds` where it ends. `DInv` was checked with TLC
on the instance of `DurableStore_writes` before it was proved.

### Presence: PresenceProofs

`PresenceProofs` proves for any finite set of scenarios, with any number of ops,
presences, null presences, drops and calls in each:

* `TypeCorrect`: `Spec => []TypeOK`
* `InStepCorrect`: `Spec => []InStep`
* `NeverBackCorrect`: `Spec => NeverBack`

from no assumption but those on the bounds and that `None` is not an op. `InStep`
leaves out values submitted by a listener of an op (`sc.inOp`), as the run does
([also seen](#also-seen)); what else the invariant says is proved for them too.

The inductive invariant `PInv` consists of

* `Document`: each op is logged once, and the document of a client has none
  twice, neither from the log nor in flight. Without it a value would reflect an
  op `Twice` and nothing about presence would be at fault;
* `Local`: what A holds and has in its queue reflects A's document, and has
  presence versions it has used;
* `Sent`, in `Traffic` and `Agents`: every message on a wire, in a broadcast or
  kept as an agent's last request reflects the log up to its version.
  `ToLatestSent` says that the walk through the log keeps it so;
* `Remote`: the value B shows reflects B's document; the one that waits reflects
  the log up to its version, and the cached ops are those of the log at their
  versions, unless the walk of `_catchUpStalePresence` is `Blind` there;
* `Wires`, `Subs`: agents and sequence numbers.

`Blind` is what makes `Remote` inductive. B files its own op under the version
before the one it will get (`_cacheOp` is called while the op is in flight, when
the doc's version has not moved), over the op that is there. That the walk never
uses the wrong entry has another reason: B catches up only when nothing is in
flight, and the acknowledgement, which is no op event, moves the version without
an entry. So there is a gap between that entry and the version of the document,
and the walk stops in it. `Blind(i)` says of a version that the walk from there
meets a gap, or that an op is in flight whose acknowledgement will leave one; a
presence that waits there is never shown (`LeftBehind`), so that what it reflects
does not matter.

The two walks, through the log and through the cache, are recursive functions on
versions. `Walk` is the form of both: `WalkExists` from `StepsExist` in
`Induction`, `WalkKeeps` and `WalkReflects` by induction on the version.
`CacheHasGap` is why the walk through the cache ends: a finite cache has not an
entry for each of more versions than it has entries. `PInv` was checked with TLC
on the instance of `Presence_catchup` before it was proved.

### Sync: SyncProofs

`SyncProofs` proves for any number of clients, ops, messages and drops:

* `TransformConverges`: of two inserts into a text either may be applied first,
  if the other is shifted past it, the client's as the left one and the server's
  as the right one
* `TypeCorrect`: `Spec => []TypeOK`
* `OpsCommitOnce`: `RecreateSafe` gives `Spec => []ExactlyOnce`
* `ClientsConverge`: `Plain` gives `Spec => [](late = {} => LocalView)`

The persist callback of an op may come at any time in all of them.

*Types.* `Typed` is stronger than `TypeOK` in that every version in a message, a
request or a stream is one of the log, and every op that is sent or queued has a
place. No doc is ahead of the log, because every version that it can be given was
taken from there.

*Exactly once.* `OpsCommitOnce` assumes that no client's create can meet a delete
(`RecreateSafe`); without it `Submit_recreate` is the counterexample. `ExactlyOnce`
excepts an op that its persist callback sent when it was not inflight (`late`); run
`Sync_resend` is the counterexample to the property without that exception
(`NoOpTwice`). Everything else may happen: drops at any moment, old requests that
the server still handles after the reconnect, ops that are refused or that their
type throws on, hard rollbacks, deletes of others. The server recognises an op
because it looks through the log from the version in the request. `OnceInv` says
that this version is from before the op was committed:

* `FromBefore(q)`: in every request on its way;
* `Unseen(c)`: in the client, for as long as it may send again. An op in a queue
  that is in the log already is the first one and has been sent, and the doc has
  not come to its place yet;
* `Persists`, `Distinct`: what waits for its persist callback is the first op of
  the queue or in the queue no more, and no op is in the queue twice. So an op is
  sent with a version past its logged copy only when it is not inflight;
* `Starts`: a doc without a version sends a create, which finds its earlier copy
  in the document (`Stays`);
* `Answerable`, `Connected`: an answer belongs to the connection that asked. An
  acknowledgement from before a drop cannot reach the client after it.

*Convergence.* `Plain` leaves the clients edits only (the document was created
before), and no type throws, no middleware refuses. The instance of `Sync_drops`
satisfies it but for the refusals of A's op. There `LocalView` says that OT works: what a doc shows
is the server's document at its version with its own ops on top, each moved by
what arrived since it was made. The theorem speaks of the time until an op is sent
late: `late` only grows (`LateStays`), so that `late = {} => PlainInv` is inductive.
`PlainInv` says that `late` is empty, and adds to `OnceInv`

* `Edited`: every logged edit has a place inside of the text it was applied to,
  and the text after it is that insert;
* `Drawing(c)`: there are documents from the version of the doc to its data, each
  made of the one before by the next op of the queue. This is `LocalView` with the
  places bounded. When a remote op comes, `MovesPast` (from `TransformConverges`)
  moves it through the queue one op at a time, and gives the documents of the new
  version;
* `Leads(p, v, w, r)`: the ops from version `v` to `w` move the place `p` to `r`.
  The client moves its op when the others arrive, the server when it commits.
  `Moving(q)` says that the client's way to its version and the request's agree,
  and `Placed(c)` that the rest of the way leads to the place in the log. So an
  acknowledgement, which has no content, may take the op as it is in the queue;
* `Held(c)`: every op that a client made is in its queue, or in the log at a
  version that the doc has. So what arrives is either the op inflight or another
  client's op;
* `Late`, `ChannelPlain`: no message has an error or a version from before the
  clients started. Edits never conflict and their places always fit
  (`PlaceFits`), so nothing is refused.

Outside of `Plain`, `LocalView` and `CallbacksTellTheTruth` except the ops that were
sent late or given up while they could still be committed: see the entries of
[also seen](#also-seen) for `client/doc.js`, lines 359, 751 and 1093. `Sync_drops`
and `Sync_kinds` check instances with refusals, rollbacks, creates and deletes.

The places of an op and the documents of `View` are recursive functions on
versions and on places in the queue. That they exist and satisfy their equations
is shown first (`PlaceIs` and `PastIs` by `StepsExist`, `ViewIs` by `Drawing`);
after that only the equations are used. `DocStep` and `QuietStep` say what a step that changes one
doc, or none, has to leave in order, so that each action needs only its own part.

### Connection: ConnectionProofs

`ConnectionProofs` proves of the snapshots of the past:

* `SnapshotOfVersion`, `SnapshotOfTime`: for any log with rising times and any
  milestones, what `_fetchSnapshot` and `_fetchSnapshotByTimestamp` answer from a
  milestone and the ops after it is the document as its ops made it up to then;
* `SnapshotsAreRight`: `Spec => []SnapshotRight`, for any set of documents, any
  scenarios, and any number of sockets, commits and milestones.

The operators are pure, but they are not called at one moment: the milestones are
read, ops are committed and other milestones saved, and then the ops are read.
`FromBefore` and `ToAfter` say what a milestone that was read stays good for: it is
on the right side of the time, and the log in front of it does not change.
`Reading` has these for a request at each stage of its work and `Right` for an
answer on its way; both stay true when the log grows (`ReadingStays`, `RightStays`).
The rest of `IInv` ties answers to the question: there is one snapshot request, and
each message, job and reply of that kind, also one of an agent whose connection is
gone, is about it (`UpOK`, `JobOK`, `DownOK`). It assumes of the constants that
`Doc` is finite, the scenarios' bounds are numbers, and `None` is none of the
things that it stands beside.

### Connection: CallsProofs

`CallsProofs` proves `NothingIsLost`: `Spec => [](NoStray => NothingLost)`, for any set
of documents, any number of calls, sockets and commits, reads that are refused,
sockets that close at once or later, and callbacks and ticks that come at any time.
`NoStray` says that no document went astray so far: that no unsubscribe made offline
was answered before its nextTick. In a document that did, calls may be lost
(`client/doc.js:512`, see [also seen](#also-seen)); `NothingLost` excepts their loss,
and that even then none is called twice is only model-checked.

`NothingLost` speaks of two things: a call waits in one queue of its document or
was called back, once (`Accounted`), and a stream of the server belongs to an agent
or a job (`StreamsOwned`). Neither is inductive. A reply that came twice, or to a
doc that waits for nothing, would shift the callbacks of the next request; whether
it can depends on what the agent at the other end was sent, and on what the
agents before it still hold. `CInv` therefore has, next to `IInv`:

* `OneUnderWay`: of a document at most one subscribe or unsubscribe and one fetch
  are under way with each agent, counted in three places (`Under`): the requests
  it has not read, the jobs it works on, the replies on their way. With the agent
  at the other end of the socket their number is that of the requests which the
  doc takes for inflight, and nothing is under way before the handshake ended.
  A step moves a request from one place to the next, and `ClientUnder` and
  `ServerUnder` are the two balances that all steps use;
* `DocsTidy`: the queue of a document alternates between subscribe and unsubscribe
  (`Alternates`), so that behind an unsubscribe that an offline document answers on
  nextTick only a subscribe can wait, and one tick is due at most; a document of a
  connection that is not up has nothing else inflight (`Resting`);
* `CallsOK`: a call waits in its document, and in no other, exactly while it was
  not called back. This is `Accounted` for each document and number instead of
  each call, so that a step of several documents can be split up;
* `Wired`, `JobsShape`, `DownShape`: when the connection can send, its socket is
  open; only an open agent holds streams; what a job or a reply of a kind holds.

What the methods of a document do to it is said once (`Handled`): the callbacks it
held are queued or called (`Gains`), and it sends as many requests as become
inflight (`Balance`). `Handled` of two methods gives that of one after the other
(`HandledThen`), as `_handleSubscribe` calls `_flushSubscribe` and `ingestSnapshot`.
`MessagesCount` and `BulkCount` carry the count to the messages, of one document
each or in bulk. A job is about a document alone (`JobsAlone`), so that a commit,
which appends to the stream of a job, does not make two jobs the same.

### Induction

The library's induction theorems take an operator as parameter, which cannot be
instantiated here. `Induction` has what the other proofs need instead, stated of
sets and functions, and proved from the well-foundedness of the strict subsets:
that a set of numbers has a least element, and a bounded or finite one a greatest
(`LeastNumber`, `GreatestNumber`, `GreatestOfFinite`), induction as a statement
about a set of numbers (`Induct`, `InductFrom`), the existence and the end of a
function that calls itself on a later place (`FollowsExists`, `FollowsEnds`), and
the existence of one that goes on from its value one place before
(`StepsExist`).

### What stays with TLC

Liveness under fairness and `ENABLED`: the prover has no rules for them. So
`EveryRequestEnds`, `EveryOpEnds`, `EveryCallAnswered`, `AllSettles`, `Answered`
and `Settles` are checked, not proved. Of the safety properties these are only model-checked:

* `CaughtUp` of `Sync`: it is true of the instance of `Sync_drops` and not of every
  instance, and so is no theorem. Three edits made at the same time, without a drop
  or a rollback, are enough to break it (`client/doc.js:384` in
  [also seen](#also-seen));
* `CallbacksTellTheTruth` of `Sync`, and `LocalView` outside of `Plain`;
* all of `Query`;
* `TypeOK`, `SubscriptionsAgree` and `CallbackMeansDone` of `Connection`, and
  `NothingLost` once a document is stray.

Of the functions that the modules define by recursion over data, only those that
a theorem names are proved to satisfy their equations.

## Violations

Each of these runs states what the repository says of itself; TLC finds a
behaviour of the code that does otherwise.

* `Submit_recreate` (`ExactlyOnce`): "It's important we don't apply the same op
  twice" (`submit-request.js:269`). A create without a version is looked for in
  the metadata of the row. Committed, its acknowledgement lost, its document
  deleted by someone else, it is resent and makes the document again.
* `Sync_resend` (`NoOpTwice`): `src` and `seq` are "used on the server to detect
  when ops have been sent multiple times" (`client/doc.js:728`). The callback of
  the durable store sends the op with the version that the document has at that
  moment. Called after a drop, a reconnect and the acknowledgement of the
  second sending, it sends the op at a version past its logged copy.
* `Query_docorder` (`OthersStay`): the one-at-a-time rule of polls "isn't
  necessary for the document polling case, since they operate on a given id and won't
  accidentally modify the wrong doc" (`query-emitter.js:176`). Two polls of `d1` are
  under way. The first changes the ids to `d1, d2` and reads `d1`'s snapshot; the
  insertion of `d2` is sent meanwhile; the second poll then sends `d1`'s removal,
  with position 1, to a client that does not have `d1` yet. It takes `d2` out, which
  still matches.

## Also seen

Found with the same modules and other constants. They are not runs of the
project; the properties of its passing runs leave these cases out, by a condition
that the property names or, in a few, by constants.

| Where | What | To see it |
|---|---|---|
| `submit-request.js:188` | a retry runs the middleware again on an op that contains its fixup already; the client is told of one of two | `AckCarriesFixups` without its condition on `tries` |
| `submit-request.js:104` | a resent null-version create is acknowledged without the fixups it was logged with | `MayFixup = NullOps = Resendable = {c1}`, `AckCarriesFixups` |
| `submit-request.js:194` | a middleware refuses an op that is resent, or its retries are used up, while its earlier request commits or has committed it: the client is told of the failure of an op that is in the log | `MayReject = Resendable = {e1}`, `ImplementsOpLog` |
| `client/doc.js:384` | an op that arrives while a fetch is inflight asks for no other fetch ("a natural debouncing", line 382); the fetch was answered from before the op, and the subscribed doc stays behind until the next one. Two ops published in the other order than they were committed make such a fetch, and so does a rollback, or a fetch and a subscribe that are called at once | `Sync_drops` with `MaxDrops <- NoDrops` and `Ops = {p0, a1, a2, b1}` or `Broken = {a1}`, `CaughtUp` without `overlooked`; `SettledDocs` of `Query` without `overlooked`; `SubscriptionsAgree` of `Connection` without its exception for fetched documents |
| `ot.js:150` | an edit over an edit is transformed by the type of the snapshot, which a deleted document has not: an edit that was logged, and is resent behind other edits after the document was deleted, is refused instead of acknowledged | `Submit_resend`, `OpLog.Refuse` without `DeletedSince` |
| `client/doc.js:751` | an op that a hard rollback cancelled is sent when its persist callback comes, and may be committed after its callback reported failure; one that was acknowledged is sent again | `Ops = {ca, cb, db}`, `Preset <- NothingYet`, `CallbacksTellTheTruth` without `late` and `abandoned` |
| `client/doc.js:359` | an error is taken for the inflight op's. Two clients create the document at once; the loser has fetched it and sent an edit when the error for its create comes: the edit's callback is told of a failure, and the edit is committed (`docs/api/doc.md:278`) | `Ops = {ca, cb, a1}`, `Preset <- NothingYet`, no drops, `CallbacksTellTheTruth` without `abandoned` |
| `client/doc.js:1093` | a hard rollback for an op that throws forgets the inflight op. The doc fetches a version from before that op's commit; the acknowledgement is then handled as a remote op without content and moves the version: the doc lacks the op for good | `Ops = {p0, a1, a2}`, `Broken = {a2}`, no drops, `LocalView` without `Astray` |
| `pubsub/index.js:72` | the flag is checked now and the stream created on nextTick; when the last other stream is destroyed in between, by code of the same turn or an earlier tick, the new one is deaf | `Modes = {FALSE}`, `MemoryHears` without `deaf` |
| `pubsub/index.js:137` | two subscribes are under way; the first is answered and its stream destroyed, so the unsubscribe it sends follows both; the second answer sets the flag of a channel that the broker no longer delivers | `Modes = {TRUE}`: a state with `Settled`, `Open \ deaf # {}` and `~on` |
| `client/durable-store.js:90` | with automatic batches off, or in bulk, a put is called back at once, before anything is written: `_sendOp` then sends the op, although "we always write operations to the durable store before sending them to the server" (`durable-store.js:13`) | a state with `told[n] = "early"` and `n` in the queue |
| `client/durable-store.js:247` | the inventory in memory is not taken back when a write fails, and the next batch stores it | `InventoryMatchesStore` without its condition on `sc.fails` |
| `client/durable-store.js:269` | a flush or a bulk put is told of the error of its last batch only; that an earlier one failed nobody hears | `WaitingFlushMeansWritten` without its condition on `sc.fails` |
| `client/durable-store.js:465` | a flush during the last write calls back at once, before that write is done | `Flush` with an empty queue and `busy` |
| `client/durable-store.js:244` | a flush whose only batch is rejected is never called back | `EveryCallAnswered` without its condition on `sc.regresses` |
| `client/durable-store.js:486` | a record of a bulk put that is rejected was answered without an error before | a scenario with `regresses`: `told` becomes `"refused"` |
| `query-emitter.js:219` | the ids are replaced before the snapshots are read; when that fails, the diff is never sent | `Troubles = {"getSnapshotBulk"}`, `ResultsFollowIds` |
| `query-emitter.js:263` | of two polls of a document, or a full one and a single one, the older answer may come last | `SettledResults` without `MayOvertake` |
| `query-emitter.js:272` | an op of a document whose insertion is being prepared is forwarded before the insertion with the older snapshot | `SettledDocs` without `MayOvertake` |
| `query-emitter.js:117` | the same for an op that `skipPoll` recognises, forwarded at once | `SettledDocs` without its condition on `skipPoll` |
| `agent.js:568` | on a resubscription the missed ops are read although the stream is not open yet; an op in between is lost | `SettledDocs` without its condition on `drop` |
| `agent.js:637` | a query destroyed before its subscription is made leaves an emitter behind | state `cl = "destroyed"`, `st = "live"` |
| `query-emitter.js:256` | a poll that ends after `destroy` sets the interval timer again | `IntervalFires` in state `dead` |
| `client/doc.js:339` | a refused subscribe returns before the queue is flushed: the callback of an unsubscribe made meanwhile is not called (`docs/api/doc.md` promises it) until another call or reconnect | `Answered` without `LeftBehind` |
| `client/connection.js:198` | with a socket whose `close` calls `onclose` later (a WebSocket), replacing an open one leaves the state `connected` with `canSend` false ("true if and only if we're connected"): the new handshake is refused and nothing is sent until the new socket closes, nor do the docs learn that what was inflight is lost | `SubscriptionsAgree` or `Answered` without `Stuck` |
| `client/doc.js:512` | an unsubscribe made offline waits for nextTick; the first change of the connection's state before it answers it, and the tick then finds no request: a TypeError, and the callbacks of waiting fetches are gone; or it finds the next one, and answers that | `Accounted` without `stray` |
| `client/doc.js:520` | an unsubscribe made offline does not clear `wantSubscribe`; with nothing queued behind it the doc subscribes again on reconnect (`_resubscribe`) | a doc whose last call was an `unsubscribe`, called back, with `subd` |
| `client/doc.js:330` | the answer to an unsubscribe calls back the fetches that wait, before they are made | `CallbackMeansDone` without its exception |
| `backend.js:944` | ops with the very time asked for belong to the snapshot or not, by where the next milestone lies (`docs/api/connection.md:180`) | `SnapshotRight` with `l[i] <= arg` in its last line |
| `agent.js:816` | the first presence waits for a subscription to the document, a null only for nextTick: submitted second, the null is published first, and B then shows the value of a client that has left, for good (`docs/api/presence.md:147`) | `Scenarios <- Null`, `Gone` |
| `client/presence/local-doc-presence.js:85` | a value submitted by a listener of an op, up to date with it, is transformed by that op once more | `InStep` without `sc.inOp` |
| `client/presence/remote-doc-presence.js:112` | an op cache left over from an earlier presence does not reach back to a later one: that one stays pending, and nothing asks for it again | `Settles` without `LeftBehind` |
| `agent.js:180` | when a presence stream ends `request.seq` is counted up, a field that presences do not have; their version, `pv`, is not | read in `EndStream` |

Read in the code, outside of the models: `presence.submit(p); doc.del()` throws a
TypeError in `_sendPending`; the callback of a presence that a drop has lost is
never called; `_handleCreateDel` and `_handleLoad` of a remote doc presence are
defined on the prototype of its superclass.

## Not modelled

* Of `Doc`: `compose`, rollback by inverting the op, fixups in the client,
  `ERR_NO_OP` and `ERR_OP_SUBMIT_REJECTED`, `pause`, `destroy`.
* Of `Agent` and `Connection`: request validation, ping, fetch queries, the
  composition of subscriptions (`Connection`) with pending ops (`Sync`).
* Of `PubSub`: prefixes, `close`, errors of the adapter.
* Of `DurableStore`: reading and restoring records, encryption, the extension
  of versions; transactions that abort without an answer.
* Of queries: fetch queries, `extra`, several channels, deleted documents,
  documents that are also subscribed.
* Of milestones: when one is saved (any committed version may be), documents
  deleted and created again in the middle of a log.
* Of presence: presence without a document, the creation and deletion of the
  document, hard rollbacks, `destroy`, acknowledgements of `submit`, middleware
  that refuses, more than one local presence.
* The SharedWorker proxy. The constructor of `SharedWorkerManager` binds handlers
  that the class does not define, as `_handleDocFetch`
  (`client/proxy/shared-worker-manager.js:118`), and throws; the tests replace the
  class by a stub. There is no behaviour of the source to be faithful to.
* Projections are pure functions of json0 data; only their refusal of an op is
  in the model. Utilities have no state.
