------------------------------- MODULE Query --------------------------------
(***************************************************************************)
(* A subscribed query: the QueryEmitter that polls the database            *)
(* (lib/query-emitter.js), the agent that owns it (_querySubscribe), and   *)
(* the client's Query with the docs in its results (lib/client/query.js).  *)
(* The database is external: a call reads it at one moment and answers at  *)
(* a later one.  Another session writes the documents.                     *)
(***************************************************************************)
EXTENDS Integers, SequencesExt, FiniteSetsExt

CONSTANTS
    Order,          \* the documents, in the order the query sorts them
    Adapters,       \* what the database adapter may offer: subsets of
                    \* {"canPollDoc", "skipPoll"}
    Debounce,       \* is pollDebounce set?
    Troubles,       \* what may happen besides: failing calls of the database,
                    \* "drop" of the connection, "destroy" of the query, and
                    \* "interval", a firing of pollInterval
    MaxTroubles,    \* how many of these happen, each once
    MaxVersion,     \* MaxVersion[d]: how often document d is written
    MaxEvents,      \* how many writes and troubles there are altogether
    Null            \* no value

ASSUME BoundsAssumption ==
    MaxVersion \in [Range(Order) -> Nat] /\ MaxEvents \in Nat /\ MaxTroubles \in Nat

ASSUME ModesAssumption ==
    /\ Adapters \subseteq SUBSET {"canPollDoc", "skipPoll"}
    /\ Debounce \in BOOLEAN
    /\ Troubles \subseteq {"queryPoll", "getSnapshotBulk", "queryPollDoc", "getSnapshot",
                           "drop", "destroy", "interval"}

ASSUME OrderAssumption == IsInjective(Order)

Docs == Range(Order)

VARIABLES
    adapter,    \* what the database offers (never changes)
    db,         \* the documents that match the query, and every version
    events,     \* ops that are committed and not yet heard by the emitter
    cl,         \* the client's query: "idle", "sent", "failed", "destroyed"
    results,    \* query.results, or Null before the first answer
    docv,       \* the version of the client's docs, -1 without a doc
    fetching,   \* docs that have a fetch in flight
    fetches,    \* these fetches, on the server: [d, from, at], at -1 until read
    overlooked, \* history: docs that met an op ahead while a fetch was in flight
    st,         \* the subscription: "none", "asked", "querying", "queried",
                \* "live" (the emitter is open) or "dead" (it is destroyed)
    req,        \* what the request says of the client's results, or Null
    wait,       \* [fetch: are the client's ops asked for, n: parts to wait for]
    ids,        \* emitter.ids
    poll,       \* the full poll that is under way
    pending,    \* _pendingPoll
    debounce,   \* is _pollDebounceId set?
    interval,   \* is the pollInterval timer set?
    docPolls,   \* the calls of queryPollDoc under way
    down,       \* messages to the client
    troubles    \* those that have happened

docFetches == <<fetching, fetches, overlooked>>
client == <<cl, results, docv, docFetches>>
polls == <<ids, poll, pending, debounce, interval>>
vars == <<adapter, db, events, client, st, req, wait, polls, docPolls, down, troubles>>

HasInterval == "interval" \in Troubles

NoPoll == [st |-> "none", cbs |-> <<>>, ids |-> <<>>, old |-> <<>>, snaps |-> <<>>]

(* The database's answers: the matching documents, and their snapshots.    *)
Matching == SelectSeq(Order, LAMBDA d : d \in db.matches)

Snapshots(ds) == [i \in DOMAIN ds |-> [d |-> ds[i], v |-> db.ver[ds[i]]]]

-----------------------------------------------------------------------------
(* arraydiff, as the emitter uses it: removals, moves and insertions that  *)
(* lead from one list of ids to another.                                   *)
Moves(from, to) ==
    FoldLeft(LAMBDA a, k :
               LET i == CHOOSE j \in DOMAIN a.s : a.s[j] = to[k]
               IN  IF i = k THEN a
                   ELSE [s |-> InsertAt(RemoveAt(a.s, i), k, to[k]),
                         steps |-> Append(a.steps, [t |-> "move", i |-> i, at |-> k])],
             [s |-> from, steps |-> <<>>], [k \in DOMAIN to |-> k]).steps

ArrayDiff(old, new) ==
    LET gone == SetToSortSeq({i \in DOMAIN old : old[i] \notin Range(new)}, >)
        added == SetToSortSeq({i \in DOMAIN new : new[i] \notin Range(old)}, <)
    IN  [k \in DOMAIN gone |-> [t |-> "remove", i |-> gone[k], at |-> 0]]
        \o Moves(SelectSeq(old, LAMBDA d : d \in Range(new)),
                 SelectSeq(new, LAMBDA d : d \in Range(old)))
        \o [k \in DOMAIN added |-> [t |-> "insert", i |-> new[added[k]], at |-> added[k]]]

Inserted(diff) ==
    LET steps == SelectSeq(diff, LAMBDA s : s.t = "insert")
    IN  [k \in DOMAIN steps |-> steps[k].i]

(* Query._handleDiff: splice the client's array, step by step.             *)
Splice(rs, step) ==
    CASE step.t = "remove" -> IF step.i \in DOMAIN rs THEN RemoveAt(rs, step.i) ELSE rs
      [] step.t = "move" ->
           IF step.i \in DOMAIN rs
           THEN InsertAt(RemoveAt(rs, step.i), Min({step.at, Len(rs)}), rs[step.i]) ELSE rs
      [] step.t = "insert" -> InsertAt(rs, Min({step.at, Len(rs) + 1}), step.i)

-----------------------------------------------------------------------------
(* Messages to the client, in order.                                       *)
OpMsg(e) == [t |-> "op", e |-> e]

OpsSince(d, v, w) ==
    [i \in 1..(w - v) |-> OpMsg([d |-> d, v |-> v + i - 1, same |-> TRUE])]

DiffMsg(steps, snaps) == [t |-> "diff", steps |-> steps, snaps |-> snaps]

Reply(snaps) == [t |-> "reply", snaps |-> snaps]

(* The callbacks of a poll: the defaultCallback, the forwarding of an op,  *)
(* or the finish of _querySubscribe.                                       *)
CallbackMsgs(cb, err) ==
    CASE cb.k = "default" -> <<>>
      [] cb.k = "op" -> <<OpMsg(cb.e)>>
      [] cb.k = "finish" -> IF err THEN <<[t |-> "error"]>>
                            ELSE IF wait.n = 1 THEN <<Reply(Null)>> ELSE <<>>

AllCallbackMsgs(cbs, err) == FlattenSeq([i \in DOMAIN cbs |-> CallbackMsgs(cbs[i], err)])

Default == [k |-> "default"]
Finish == [k |-> "finish"]

Waited(cbs, err) ==
    wait' = IF ~err /\ Finish \in Range(cbs) THEN [wait EXCEPT !.n = @ - 1] ELSE wait

(* The start of a poll in queryPoll, for a callback and the pending ones.  *)
BeginPoll(cbs) ==
    /\ poll' = [NoPoll EXCEPT !.st = "asked", !.cbs = cbs]
    /\ pending' = <<>>
    /\ debounce' = Debounce
    /\ interval' = FALSE

(* Bug: a poll that comes at a bad moment is left out.                     *)
QueryPollNow(cb) ==
    IF poll.st # "none" \/ debounce
    THEN UNCHANGED <<poll, pending, debounce, interval>>
    ELSE BeginPoll(<<cb>> \o pending)

(* queryPoll: one at a time, and not within the debounce timeout.          *)
QueryPoll(cb) ==
    IF poll.st # "none" \/ debounce
    THEN /\ pending' = Append(pending, cb)
         /\ UNCHANGED <<poll, debounce, interval>>
    ELSE BeginPoll(<<cb>> \o pending)

(* _flushPoll, when no poll is under way.                                  *)
FlushPoll(blocked) ==
    IF ~blocked /\ pending # <<>>
    THEN BeginPoll(<<Default>> \o pending)
    ELSE /\ poll' = NoPoll
         /\ interval' = (interval \/ (~blocked /\ HasInterval))
         /\ debounce' = blocked
         /\ UNCHANGED pending

(* Bug: the polls that were asked for meanwhile are forgotten.             *)
FinishPollOnly(msgs, err) ==
    /\ down' = down \o msgs \o AllCallbackMsgs(poll.cbs, err)
    /\ Waited(poll.cbs, err)
    /\ poll' = NoPoll
    /\ UNCHANGED <<pending, debounce, interval>>

(* _finishPoll, after the messages that the poll itself sends.             *)
FinishPoll(msgs, err) ==
    /\ down' = down \o msgs \o AllCallbackMsgs(poll.cbs, err)
    /\ Waited(poll.cbs, err)
    /\ FlushPoll(debounce)

DocFetch(d) == [d |-> d, from |-> docv[d], at |-> -1]

Events == MapThenSumSet(LAMBDA d : db.ver[d], Docs) + Cardinality(troubles)

Happens(trouble) ==
    /\ trouble \in Troubles \ troubles
    /\ Cardinality(troubles) < MaxTroubles /\ Events < MaxEvents
    /\ troubles' = troubles \cup {trouble}

-----------------------------------------------------------------------------
(* Another session's op is committed and published.                        *)
Commit(d, m) ==
    /\ db.ver[d] < MaxVersion[d]
    /\ Events < MaxEvents
    /\ db' = [ver |-> [db.ver EXCEPT ![d] = @ + 1],
              matches |-> IF m THEN db.matches \cup {d} ELSE db.matches \ {d}]
    /\ events' = events \cup {[d |-> d, v |-> db.ver[d], same |-> m <=> d \in db.matches]}
    /\ UNCHANGED <<adapter, client, st, req, wait, polls, docPolls, down, troubles>>

(* Query.send, and its arrival in Agent._querySubscribe: with results come *)
(* their ids and versions (getQueryOptions), and the ops since then are    *)
(* fetched for them.  Fetches of docs that a drop has cut off are sent     *)
(* again.                                                                  *)
Send ==
    /\ cl = "idle" /\ cl' = "sent"
    /\ st' = "asked"
    /\ req' = IF results = Null THEN Null
              ELSE [i \in DOMAIN results |-> [d |-> results[i], v |-> docv[results[i]]]]
    /\ LET fetch == results # Null /\ results # <<>>
       IN  wait' = [fetch |-> fetch, n |-> IF fetch THEN 2 ELSE 1]
    /\ fetches' = {DocFetch(d) : d \in fetching}
    /\ overlooked' = overlooked \ fetching
    /\ UNCHANGED <<adapter, db, events, results, docv, fetching, polls, docPolls, down,
                   troubles>>

(* _fetchBulkOps reads the ops since the client's versions and sends them. *)
FetchBulkOps ==
    /\ wait.fetch
    /\ wait' = [fetch |-> FALSE, n |-> wait.n - 1]
    /\ down' = down \o FlattenSeq([i \in DOMAIN req |->
                                    OpsSince(req[i].d, req[i].v, db.ver[req[i].d])])
                    \o (IF wait.n = 1 THEN <<Reply(Null)>> ELSE <<>>)
    /\ UNCHANGED <<adapter, db, events, client, st, req, polls, docPolls, troubles>>

(* pubsub.subscribe answers with a stream, which buffers from now on.  A   *)
(* query without results is read; one with results becomes an emitter at   *)
(* once (_open), and agent polls it.                                       *)
Subscribe ==
    /\ st = "asked"
    /\ IF req = Null
       THEN /\ st' = "querying"
            /\ UNCHANGED polls
       ELSE /\ st' = "live"
            /\ ids' = [i \in DOMAIN req |-> req[i].d]
            /\ BeginPoll(<<Finish>>)
    /\ UNCHANGED <<adapter, db, events, client, req, wait, docPolls, down, troubles>>

(* backend._query reads the database; its answer waits in req.             *)
ReadQuery ==
    /\ st = "querying" /\ st' = "queried"
    /\ req' = Snapshots(Matching)
    /\ UNCHANGED <<adapter, db, events, client, wait, polls, docPolls, down, troubles>>

(* The answer makes the emitter and is the reply.                          *)
AnswerQuery ==
    /\ st = "queried" /\ st' = "live"
    /\ req' = Null
    /\ ids' = [i \in DOMAIN req |-> req[i].d]
    /\ interval' = HasInterval
    /\ down' = Append(down, Reply(req))
    /\ wait' = [wait EXCEPT !.n = 0]
    /\ UNCHANGED <<adapter, db, events, client, poll, pending, debounce, docPolls,
                   troubles>>

(* An op that is published while nobody has subscribed.                    *)
Unheard(e) ==
    /\ st \in {"none", "asked", "dead"}
    /\ events' = events \ {e}
    /\ UNCHANGED <<adapter, db, client, st, req, wait, polls, docPolls, down, troubles>>

(* Bug: only the poll is thought to tell the client of an op.              *)
UpdateByPoll(e) ==
    /\ st = "live"
    /\ events' = events \ {e}
    /\ QueryPoll(Default)
    /\ UNCHANGED <<adapter, db, client, st, req, wait, ids, docPolls, down, troubles>>

(* _update: an op of a document in the results is forwarded when its poll  *)
(* is over.                                                                *)
Update(e) ==
    /\ st = "live"
    /\ events' = events \ {e}
    /\ LET cb == IF e.d \in Range(ids) THEN [k |-> "op", e |-> e] ELSE Default
       IN  IF "skipPoll" \in adapter /\ e.same
           THEN /\ down' = down \o CallbackMsgs(cb, FALSE)
                /\ UNCHANGED <<poll, pending, debounce, interval, docPolls>>
           ELSE /\ IF "canPollDoc" \in adapter
                   THEN /\ docPolls' = docPolls \cup
                             {[e |-> e, cb |-> cb, st |-> "asked", at |-> 0, v |-> 0]}
                        /\ UNCHANGED <<poll, pending, debounce, interval>>
                   ELSE /\ QueryPoll(cb)
                        /\ UNCHANGED docPolls
                /\ UNCHANGED down
    /\ UNCHANGED <<adapter, db, client, st, req, wait, ids, troubles>>

DebounceFires ==
    /\ st = "live"
    /\ debounce /\ poll.st = "none"
    /\ FlushPoll(FALSE)
    /\ UNCHANGED <<adapter, db, events, client, st, req, wait, ids, docPolls, down,
                   troubles>>

(* The timeout passes while the poll is still under way.                   *)
DebounceFiresInPoll ==
    /\ st = "live"
    /\ debounce /\ poll.st # "none"
    /\ debounce' = FALSE
    /\ UNCHANGED <<adapter, db, events, client, st, req, wait, ids, poll, pending,
                   interval, docPolls, down, troubles>>

IntervalFires ==
    /\ st \in {"live", "dead"} /\ interval
    /\ Happens("interval")
    /\ IF poll.st # "none" \/ debounce
       THEN /\ interval' = FALSE
            /\ pending' = Append(pending, Default)
            /\ UNCHANGED <<poll, debounce>>
       ELSE BeginPoll(<<Default>> \o pending)
    /\ UNCHANGED <<adapter, db, events, client, st, req, wait, ids, docPolls, down>>

-----------------------------------------------------------------------------
(* db.queryPoll.                                                           *)
ReadPoll ==
    /\ poll.st = "asked"
    /\ poll' = [poll EXCEPT !.st = "read", !.ids = Matching]
    /\ UNCHANGED <<adapter, db, events, client, st, req, wait, ids, pending, debounce,
                   interval, docPolls, down, troubles>>

FailPoll ==
    /\ poll.st = "asked" /\ Happens("queryPoll")
    /\ FinishPoll(<<>>, TRUE)
    /\ UNCHANGED <<adapter, db, events, client, st, req, ids, docPolls>>

(* Bug: the ids are replaced only when something is inserted.              *)
AnswerPollLazily ==
    /\ poll.st = "read"
    /\ LET diff == ArrayDiff(ids, poll.ids)
       IN  IF Inserted(diff) = <<>>
           THEN /\ FinishPoll(IF diff = <<>> THEN <<>> ELSE <<DiffMsg(diff, <<>>)>>, FALSE)
                /\ UNCHANGED ids
           ELSE /\ poll' = [poll EXCEPT !.st = "snapshots", !.old = diff]
                /\ ids' = poll.ids
                /\ UNCHANGED <<pending, debounce, interval, down, wait>>
    /\ UNCHANGED <<adapter, db, events, client, st, req, docPolls, troubles>>

(* The answer: the ids change at once, and the diff is sent at once or     *)
(* when the snapshots of the inserted documents are there.                 *)
AnswerPoll ==
    /\ poll.st = "read"
    /\ ids' = poll.ids
    /\ LET diff == ArrayDiff(ids, poll.ids)
       IN  IF Inserted(diff) = <<>>
           THEN FinishPoll(IF diff = <<>> THEN <<>> ELSE <<DiffMsg(diff, <<>>)>>, FALSE)
           ELSE /\ poll' = [poll EXCEPT !.st = "snapshots", !.old = diff]
                /\ UNCHANGED <<pending, debounce, interval, down, wait>>
    /\ UNCHANGED <<adapter, db, events, client, st, req, docPolls, troubles>>

(* db.getSnapshotBulk.                                                     *)
ReadSnapshots ==
    /\ poll.st = "snapshots"
    /\ poll' = [poll EXCEPT !.st = "fetched", !.snaps = Snapshots(Inserted(poll.old))]
    /\ UNCHANGED <<adapter, db, events, client, st, req, wait, ids, pending, debounce,
                   interval, docPolls, down, troubles>>

FailSnapshots ==
    /\ poll.st = "snapshots" /\ Happens("getSnapshotBulk")
    /\ FinishPoll(<<>>, TRUE)
    /\ UNCHANGED <<adapter, db, events, client, st, req, ids, docPolls>>

AnswerSnapshots ==
    /\ poll.st = "fetched"
    /\ FinishPoll(<<DiffMsg(poll.old, poll.snaps)>>, FALSE)
    /\ UNCHANGED <<adapter, db, events, client, st, req, ids, docPolls, troubles>>

-----------------------------------------------------------------------------
Replaced(j, k) == docPolls' = (docPolls \ {j}) \cup {k}

(* db.queryPollDoc: at is 1 when the document matches.                     *)
ReadPollDoc(j) ==
    /\ j.st = "asked"
    /\ Replaced(j, [j EXCEPT !.st = "read", !.at = IF j.e.d \in db.matches THEN 1 ELSE 0])
    /\ UNCHANGED <<adapter, db, events, client, st, req, wait, polls, down, troubles>>

(* An error ends a document's poll, before or after the ids have changed.  *)
FailPollDoc(j) ==
    /\ \/ j.st = "asked" /\ Happens("queryPollDoc")
       \/ j.st = "snapshot" /\ Happens("getSnapshot")
    /\ docPolls' = docPolls \ {j}
    /\ down' = down \o CallbackMsgs(j.cb, TRUE)
    /\ UNCHANGED <<adapter, db, events, client, st, req, wait, polls>>

(* The answer: a new match goes to the end of the ids and its snapshot is  *)
(* fetched; a document that no longer matches is removed at once.          *)
AnswerPollDoc(j) ==
    /\ j.st = "read"
    /\ IF j.at = 1 /\ j.e.d \notin Range(ids)
       THEN /\ ids' = Append(ids, j.e.d)
            /\ Replaced(j, [j EXCEPT !.st = "snapshot", !.at = Len(ids) + 1])
            /\ UNCHANGED down
       ELSE /\ docPolls' = docPolls \ {j}
            /\ IF j.at = 0 /\ j.e.d \in Range(ids)
               THEN LET i == CHOOSE k \in DOMAIN ids : ids[k] = j.e.d
                    IN  /\ ids' = RemoveAt(ids, i)
                        /\ down' = down \o <<DiffMsg(<<[t |-> "remove", i |-> i, at |-> 0]>>, <<>>)>>
                                        \o CallbackMsgs(j.cb, FALSE)
               ELSE /\ down' = down \o CallbackMsgs(j.cb, FALSE)
                    /\ UNCHANGED ids
    /\ UNCHANGED <<adapter, db, events, client, st, req, wait, poll, pending, debounce,
                   interval, troubles>>

(* db.getSnapshot.                                                         *)
ReadSnapshot(j) ==
    /\ j.st = "snapshot"
    /\ Replaced(j, [j EXCEPT !.st = "fetched", !.v = db.ver[j.e.d]])
    /\ UNCHANGED <<adapter, db, events, client, st, req, wait, polls, down, troubles>>

AnswerSnapshot(j) ==
    /\ j.st = "fetched"
    /\ docPolls' = docPolls \ {j}
    /\ down' = down \o <<DiffMsg(<<[t |-> "insert", i |-> j.e.d, at |-> j.at]>>,
                                 <<[d |-> j.e.d, v |-> j.v]>>)>>
                    \o CallbackMsgs(j.cb, FALSE)
    /\ UNCHANGED <<adapter, db, events, client, st, req, wait, polls, troubles>>

-----------------------------------------------------------------------------
(* Doc.fetch, for the documents ds: one request at a time, which may be    *)
(* answered from before the op or snapshot that it was meant for.          *)
Fetch(ds) ==
    /\ fetching' = fetching \cup ds
    /\ fetches' = fetches \cup {DocFetch(d) : d \in ds \ fetching}
    /\ overlooked' = (overlooked \ (ds \ fetching)) \cup (ds \cap fetching)

(* Bug: a document that the client does not have yet is fetched.           *)
IngestByFetch(snaps) ==
    /\ UNCHANGED docv
    /\ Fetch({s.d : s \in {r \in Range(snaps) : docv[r.d] < r.v}})

(* Doc.ingestSnapshot, for each of a list of snapshots: a new document     *)
(* takes it, an older one fetches the ops up to it.                        *)
Ingest(snaps) ==
    LET new == Range(snaps)
    IN  /\ docv' = [d \in Docs |-> IF docv[d] = -1 /\ \E s \in new : s.d = d
                                   THEN (CHOOSE s \in new : s.d = d).v ELSE docv[d]]
        /\ Fetch({s.d : s \in {r \in new : docv[r.d] \in 0..(r.v - 1)}})

(* Doc._handleOp: an existing document takes the op, leaves an old one or  *)
(* fetches what it missed.                                                 *)
TakeOp(e) ==
    /\ docv' = [docv EXCEPT ![e.d] = IF @ = e.v THEN @ + 1 ELSE @]
    /\ Fetch(IF docv[e.d] \in 0..(e.v - 1) THEN {e.d} ELSE {})

Receive ==
    /\ cl # "idle" /\ down # <<>>
    /\ down' = Tail(down)
    /\ LET m == Head(down)
       IN  CASE m.t = "op" -> TakeOp(m.e) /\ UNCHANGED <<cl, results>>
             [] m.t = "fetched" -> /\ fetching' = fetching \ {m.d}
                                   /\ UNCHANGED <<cl, results, docv, fetches, overlooked>>
             [] cl # "sent" -> UNCHANGED client
             [] m.t = "error" -> cl' = "failed" /\ UNCHANGED <<results, docv, docFetches>>
             [] m.t = "reply" /\ m.snaps = Null -> UNCHANGED client
             [] m.t = "reply" /\ m.snaps # Null ->
                  /\ results' = [i \in DOMAIN m.snaps |-> m.snaps[i].d]
                  /\ Ingest(m.snaps)
                  /\ UNCHANGED cl
             [] m.t = "diff" ->
                  /\ results' = FoldLeft(Splice, results, m.steps)
                  /\ Ingest(m.snaps)
                  /\ UNCHANGED cl
    /\ UNCHANGED <<adapter, db, events, st, req, wait, polls, docPolls, troubles>>

(* Agent._fetch: the ops of a doc are read, and sent before the reply.     *)
ReadFetch(f) ==
    /\ f.at = -1
    /\ fetches' = (fetches \ {f}) \cup {[f EXCEPT !.at = db.ver[f.d]]}
    /\ UNCHANGED <<adapter, db, events, cl, results, docv, fetching, overlooked, st, req,
                   wait, polls, docPolls, down, troubles>>

AnswerFetch(f) ==
    /\ f.at # -1
    /\ fetches' = fetches \ {f}
    /\ down' = down \o OpsSince(f.d, f.from, f.at) \o <<[t |-> "fetched", d |-> f.d]>>
    /\ UNCHANGED <<adapter, db, events, cl, results, docv, fetching, overlooked, st, req,
                   wait, polls, docPolls, troubles>>

(* Query.destroy and _queryUnsubscribe: an emitter that exists loses its   *)
(* timers and its stream; a poll that is under way goes on.                *)
Destroy ==
    /\ cl = "sent" /\ cl' = "destroyed"
    /\ Happens("destroy")
    /\ st' = IF st = "live" THEN "dead" ELSE st
    /\ interval' = (interval /\ st # "live")
    /\ UNCHANGED <<adapter, db, events, results, docv, docFetches, req, wait, ids, poll,
                   pending, debounce, docPolls, down>>

(* The connection drops; the closed agent sends nothing any more.          *)
Drop ==
    /\ cl = "sent"
    /\ Happens("drop")
    /\ cl' = "idle" /\ st' = "none" /\ req' = Null /\ ids' = <<>>
    /\ wait' = [fetch |-> FALSE, n |-> 0]
    /\ poll' = NoPoll /\ pending' = <<>> /\ debounce' = FALSE /\ interval' = FALSE
    /\ docPolls' = {} /\ down' = <<>> /\ fetches' = {}
    /\ UNCHANGED <<adapter, db, events, results, docv, fetching, overlooked>>

-----------------------------------------------------------------------------
Init ==
    /\ adapter \in Adapters
    /\ \E m \in SUBSET Docs : db = [matches |-> m, ver |-> [d \in Docs |-> 0]]
    /\ events = {}
    /\ cl = "idle" /\ results = Null
    /\ docv = [d \in Docs |-> -1] /\ fetching = {} /\ fetches = {} /\ overlooked = {}
    /\ st = "none" /\ req = Null /\ wait = [fetch |-> FALSE, n |-> 0]
    /\ ids = <<>> /\ poll = NoPoll /\ pending = <<>> /\ debounce = FALSE /\ interval = FALSE
    /\ docPolls = {} /\ down = <<>>
    /\ troubles = {}

Work ==
    \/ Send \/ FetchBulkOps \/ Subscribe \/ ReadQuery \/ AnswerQuery
    \/ \E e \in events : Unheard(e) \/ Update(e)
    \/ DebounceFires \/ DebounceFiresInPoll
    \/ ReadPoll \/ AnswerPoll \/ ReadSnapshots \/ AnswerSnapshots
    \/ \E j \in docPolls : ReadPollDoc(j) \/ AnswerPollDoc(j) \/ ReadSnapshot(j) \/ AnswerSnapshot(j)
    \/ Receive
    \/ \E f \in fetches : ReadFetch(f) \/ AnswerFetch(f)

Next ==
    \/ Work
    \/ \E d \in Docs, m \in BOOLEAN : Commit(d, m)
    \/ IntervalFires
    \/ FailPoll \/ FailSnapshots
    \/ \E j \in docPolls : FailPollDoc(j)
    \/ Destroy
    \/ Drop

Spec == Init /\ [][Next]_vars

(* Every call of the database is answered, every timer fires and every     *)
(* message arrives: what is under way gets on.                             *)
FairSpec == Spec /\ WF_vars(Work)

-----------------------------------------------------------------------------
(* The shapes of the variables (query-emitter.js: QueryEmitter;            *)
(* client/query.js: Query).                                                *)
TypeOK ==
    /\ db \in [matches : SUBSET Docs, ver : [Docs -> Nat]]
    /\ cl \in {"idle", "sent", "failed", "destroyed"}
    /\ results = Null \/ Range(results) \subseteq Docs
    /\ docv \in [Docs -> Nat \cup {-1}] /\ \A d \in Docs : docv[d] <= db.ver[d]
    /\ fetching \subseteq {d \in Docs : docv[d] # -1}
    /\ fetches \subseteq [d : fetching, from : Nat, at : Nat \cup {-1}]
    /\ overlooked \subseteq Docs
    /\ st \in {"none", "asked", "querying", "queried", "live", "dead"}
    /\ wait \in [fetch : BOOLEAN, n : 0..2]
    /\ IsInjective(ids) /\ Range(ids) \subseteq Docs
    /\ poll.st \in {"none", "asked", "read", "snapshots", "fetched"}
    /\ {debounce, interval} \subseteq BOOLEAN

(* No diff is being prepared or is on its way.                             *)
NoDiffUnderWay ==
    /\ cl = "sent" /\ st = "live" /\ down = <<>>
    /\ poll.st \notin {"snapshots", "fetched"}
    /\ \A j \in docPolls : j.st \notin {"snapshot", "fetched"}

(* The client's results are the emitter's ids, in their order, whenever no *)
(* diff is under way: the emitter computes every diff against its own ids, *)
(* and the client applies it by position (query-emitter.js: queryPoll,     *)
(* queryPollDoc; client/query.js: _handleDiff).                            *)
ResultsFollowIds == NoDiffUnderWay => results = ids

(* No document of the emitter is missing from the client's results then:   *)
(* polls of single documents need not go one at a time, because a diff of  *)
(* one takes no other out (query-emitter.js: queryPollDoc, and the comment *)
(* of queryPoll).                                                          *)
OthersStay == NoDiffUnderWay => Range(ids) \subseteq Range(results)

(* Nothing is left to do for the ops so far.                               *)
Settled ==
    /\ NoDiffUnderWay
    /\ events = {} /\ docPolls = {} /\ poll.st = "none" /\ pending = <<>>
    /\ fetching = {} /\ wait.n = 0

(* Polling the whole query keeps to that, whatever else goes on, as long   *)
(* as the snapshots of inserted documents can be read (query-emitter.js:   *)
(* queryPoll).                                                             *)
PollsFollowIds ==
    "canPollDoc" \notin adapter /\ "getSnapshotBulk" \notin troubles => ResultsFollowIds

Failures == troubles \cap {"queryPoll", "getSnapshotBulk", "queryPollDoc", "getSnapshot"}

(* The answers of two polls may overtake each other: two single polls of a *)
(* document, or a single poll and the full one of a reconnect or interval. *)
MayOvertake ==
    /\ "canPollDoc" \in adapter
    /\ (\E d \in Docs : db.ver[d] > 1) \/ troubles \cap {"drop", "interval"} # {}

(* When nothing is left to do, and no call of the database has failed, the *)
(* results are what the query would return now: no op whose match was      *)
(* missed, by a poll that read too early, by one that was merged, or while *)
(* the client was away (query-emitter.js: _update, _flushPoll; agent.js:   *)
(* _querySubscribe).                                                       *)
SettledResults ==
    Settled /\ Failures = {} /\ ~MayOvertake => Range(results) = db.matches

(* ... and, for a client that was never away, the documents in them are at *)
(* their latest version although it subscribed to none of them, unless the *)
(* last op that they met ahead came while a fetch was in flight            *)
(* (query-emitter.js: _update; client/doc.js: _handleOp, fetch).           *)
SettledDocs ==
    (/\ Settled /\ Failures = {} /\ "drop" \notin troubles
     /\ ~MayOvertake /\ "skipPoll" \notin adapter)
        => \A d \in Range(results) \ overlooked : docv[d] = db.ver[d]

(* Every op and every request is dealt with in the end: no poll stays      *)
(* pending, no callback is lost and no reply is missing, unless the client *)
(* has given the query up (query-emitter.js: _finishPoll, _flushPoll).     *)
AllSettles == <>[](Settled \/ cl \in {"failed", "destroyed"})
=============================================================================
