------------------------------- MODULE Submit -------------------------------
(***************************************************************************)
(* The submission of operations to one document (lib/submit-request.js,    *)
(* Backend.submit, Agent._submit) against a database with the contract of  *)
(* lib/db/memory.js: getSnapshot, getOps and a commit that succeeds only   *)
(* for the next version.                                                   *)
(*                                                                         *)
(* A request is one arrival of an op at a server process.  Requests run    *)
(* concurrently, in one process or in several that share the database;     *)
(* each database call is a step of its own.  An op is a model value that   *)
(* stands for its pair (src, seq); the same op may arrive several times,   *)
(* because a client resends what is not acknowledged when it reconnects.   *)
(* A request dies when its process crashes (Lose).                         *)
(***************************************************************************)
EXTENDS OT, FiniteSets

CONSTANTS
    Ops,            \* operations, by (src, seq)
    Kind,           \* Kind[o]: create, edit, del or noop
    NullOps,        \* creates sent without a version
    Resendable,     \* ops whose client may reconnect and send them again
    MayReject,      \* ops a middleware or a projection may refuse
    MayFixup,       \* ops an apply middleware may amend with $fixup
    Cancels,        \* <<o, a>>: edit o becomes empty when transformed over a
    Requests,       \* arrivals
    MaxRetries,     \* maxSubmitRetries, or Unlimited
    Unlimited,
    Crashes,        \* may server processes crash?
    Nil             \* no operation, no request

ASSUME KindAssumption == Kind \in [Ops -> Kinds]

ASSUME NullAssumption == NullOps \subseteq {o \in Ops : Kind[o] = "create"}

ASSUME NilAssumption == Nil \notin Ops /\ Nil \notin Requests

ASSUME RetriesAssumption == MaxRetries \in Nat \/ MaxRetries = Unlimited

(* An op without a version (op.v == null), and an op never sent.           *)
NullV == -1
Unsent == -2

VARIABLES
    log,            \* the op log: [id, comp, fixup]; version v is log[v + 1]
    row,            \* the document's row: [exists, v, data, create]
    origin, last,   \* op -> version the client first and last sent it with
    current,        \* op -> request that carries the client's last sending
    pc,             \* request -> where it stands
    op,             \* request -> its op
    ver,            \* request.op.v
    base,           \* the version ver had when it was first a number
    snap,           \* request.snapshot
    ops,            \* request.ops, as identities: the ops the client lacks
    tries,          \* request.retries
    comp,           \* how many fixups request.op is composed with
    fix             \* request._fixupOps.length

dbVars == <<log, row>>
clientVars == <<origin, last, current>>
reqVars == <<op, ver, base, snap, ops, tries, comp, fix>>
vars == <<log, row, origin, last, current, pc, op, ver, base, snap, ops,
          tries, comp, fix>>

Active == {"read", "getops", "apply", "commit", "publish"}
Final == {"acked", "refused", "skipped", "dropped", "lost"}

Logged(o) == \E i \in 1..Len(log) : log[i].id = o

(* Bug: the entries of the log instead of the ops in them.                 *)
IdsRaw(l, m, n) == [i \in 1..(n - m) |-> l[m + i]]

Ids(l, m, n) == [i \in 1..(n - m) |-> l[m + i].id]

-----------------------------------------------------------------------------
(* The database.                                                           *)

(* _getSnapshotSync: a missing row has the version of the log.  The create *)
(* metadata is part of the row and goes with it.                           *)
NoRow == [exists |-> FALSE, v |-> 0, data |-> {}, create |-> <<Nil, NullV>>]

GetSnapshot == IF row.exists THEN row ELSE [NoRow EXCEPT !.v = Len(log)]

(* ot.apply of op o at version v to a snapshot.  data is the set of the    *)
(* edits the document is made of.  The create metadata is recorded by      *)
(* SubmitRequest.commit.                                                   *)
ApplyOp(s, o, v) ==
    [exists |-> ExistsAfter(Kind[o], s.exists),
     v      |-> s.v + 1,
     data   |-> CASE Kind[o] = "edit" -> s.data \cup {o}
                  [] Kind[o] = "noop" -> s.data
                  [] OTHER -> {},
     create |-> IF Kind[o] = "create" THEN <<o, v>> ELSE s.create]

(* _writeSnapshotSync: a snapshot without a type deletes the row.          *)
Stored(s) == IF s.exists THEN s ELSE NoRow

-----------------------------------------------------------------------------
(* The clients: which (op, version) pairs can arrive.                      *)

(* Does the document exist in the first n ops?                             *)
ExistsAt(n) ==
    \E i \in 1..n :
        /\ Kind[log[i].id] = "create"
        /\ \A j \in i + 1 .. n : Kind[log[j].id] # "del"

(* Doc.create, del and submitOp want a document that does not, or does,    *)
(* exist in the state the client sees.                                     *)
Legal(o, v) == v = NullV \/ (Kind[o] = "create" <=> ~ExistsAt(v))

(* A client resends at the version it has reached, having transformed its  *)
(* op over what it received; it cannot have gone past its own op, which    *)
(* would have been its acknowledgement.  A delete is never refused by the  *)
(* client's transform.                                                     *)
CanResend(o, v) ==
    /\ o \in Resendable
    /\ v >= last[o]
    /\ v = NullV <=> last[o] = NullV
    /\ \A i \in 1..v : log[i].id # o
    /\ \A i \in last[o] + 1 .. v :
          v # NullV => Kind[o] = "del" \/ ~Conflicts(Kind[o], Kind[log[i].id])
    /\ current[o] \in Requests => pc[current[o]] \notin {"acked", "refused", "skipped"}

CanSend(o, v) ==
    /\ v = NullV <=> o \in NullOps
    /\ last[o] = Unsent => Legal(o, v)
    /\ last[o] # Unsent => CanResend(o, v)

(* The op arrives at the server: Agent._submit, Backend.submit and the     *)
(* constructor of SubmitRequest, up to the first getSnapshot.  Replies to  *)
(* the earlier connection's request for this op are dropped from now on.   *)
Receive(r, o, v) ==
    /\ pc[r] = "idle"
    /\ CanSend(o, v)
    /\ pc' = [pc EXCEPT ![r] = "read"]
    /\ op' = [op EXCEPT ![r] = o]
    /\ ver' = [ver EXCEPT ![r] = v]
    /\ base' = [base EXCEPT ![r] = v]
    /\ origin' = [origin EXCEPT ![o] = IF last[o] = Unsent THEN v ELSE @]
    /\ last' = [last EXCEPT ![o] = v]
    /\ current' = [current EXCEPT ![o] = r]
    /\ UNCHANGED <<log, row, snap, ops, tries, comp, fix>>

-----------------------------------------------------------------------------
(* The request.                                                            *)

(* Agent._submit answers only while its connection is open.                *)
Answer(r, how) == pc' = [pc EXCEPT ![r] = IF current[op[r]] = r THEN how ELSE "dropped"]

(* Bug: the acknowledgement of a create takes the snapshot's version.      *)
ReadExistingAtSnapshot(r) ==
    /\ ver[r] = NullV
    /\ GetSnapshot.exists
    /\ LET made == GetSnapshot.create
       IN IF made[1] = op[r]
          THEN /\ ver' = [ver EXCEPT ![r] = GetSnapshot.v]
               /\ Answer(r, "acked")
          ELSE /\ Answer(r, "refused")
               /\ UNCHANGED ver
    /\ UNCHANGED base

(* The callback of db.getSnapshot, for an op without a version and a       *)
(* document that exists: _fetchCreateOpVersion looks in the metadata for   *)
(* the create that made the document.                                      *)
ReadExistingForCreate(r) ==
    /\ ver[r] = NullV
    /\ GetSnapshot.exists
    /\ LET made == GetSnapshot.create
       IN IF made[1] = op[r]
          THEN /\ ver' = [ver EXCEPT ![r] = made[2]]
               /\ Answer(r, "acked")
          ELSE /\ Answer(r, "refused")
               /\ UNCHANGED ver
    /\ UNCHANGED base

(* Otherwise an op without a version takes the snapshot's, and the         *)
(* versions say whether the op applies now, after a transform, or never.   *)
ReadVersion(r) ==
    LET v == IF ver[r] = NullV THEN GetSnapshot.v ELSE ver[r]
    IN /\ ~(ver[r] = NullV /\ GetSnapshot.exists)
       /\ ver' = [ver EXCEPT ![r] = v]
       /\ base' = [base EXCEPT ![r] = IF @ = NullV THEN v ELSE @]
       /\ IF v > GetSnapshot.v
          THEN Answer(r, "refused")
          ELSE pc' = [pc EXCEPT ![r] = IF v = GetSnapshot.v THEN "apply" ELSE "getops"]

ReadSnapshot(r) ==
    /\ pc[r] = "read"
    /\ snap' = [snap EXCEPT ![r] = GetSnapshot]
    /\ ReadExistingForCreate(r) \/ ReadVersion(r)
    /\ UNCHANGED <<log, row, origin, last, current, op, ops, tries, comp, fix>>

(* The op fails to be transformed over entry i: this looks at the ops, and *)
(* at the type of the snapshot the request has read, not at who sent them. *)
Fails(r, i) == TransformFails(Kind[op[r]], Kind[log[i].id], snap[r].exists)

(* _transformOp walks the ops from the op's version to the snapshot's and  *)
(* stops at the first that is the op itself or that it fails to be         *)
(* transformed over.                                                       *)
Stops(r, i) == log[i].id = op[r] \/ Fails(r, i)

FirstStop(r, i) ==
    /\ i \in ver[r] + 1 .. snap[r].v
    /\ Stops(r, i)
    /\ \A j \in ver[r] + 1 .. i - 1 : ~Stops(r, j)

(* The edit has become empty on its way from the version it was made at.   *)
Emptied(o, n) ==
    \E i \in origin[o] + 1 .. n : <<o, log[i].id>> \in Cancels

(* Bugs: the acknowledgement names the next version; it is an error; it    *)
(* has no fixups; a conflict is not reported.                              *)
StopOneLate(r, i) ==
    /\ FirstStop(r, i)
    /\ ver' = [ver EXCEPT ![r] = i]
    /\ Answer(r, IF log[i].id = op[r] THEN "acked" ELSE "refused")
    /\ UNCHANGED <<ops, fix>>

StopAsError(r, i) ==
    /\ FirstStop(r, i)
    /\ ver' = [ver EXCEPT ![r] = i - 1]
    /\ Answer(r, "refused")
    /\ UNCHANGED <<ops, fix>>

StopWithoutFixups(r, i) ==
    /\ FirstStop(r, i)
    /\ ver' = [ver EXCEPT ![r] = i - 1]
    /\ Answer(r, IF log[i].id = op[r] THEN "acked" ELSE "refused")
    /\ UNCHANGED <<ops, fix>>

StopInSilence(r, i) ==
    /\ FirstStop(r, i)
    /\ ver' = [ver EXCEPT ![r] = i - 1]
    /\ IF log[i].id = op[r] THEN Answer(r, "acked") ELSE UNCHANGED pc
    /\ UNCHANGED <<ops, fix>>

TransformStopped(r, i) ==
    /\ FirstStop(r, i)
    /\ ver' = [ver EXCEPT ![r] = i - 1]
    /\ ops' = [ops EXCEPT ![r] = @ \o Ids(log, ver[r], i - 1)]
    /\ IF log[i].id = op[r]
       THEN /\ fix' = [fix EXCEPT ![r] = IF log[i].fixup > 0 THEN log[i].fixup ELSE @]
            /\ Answer(r, "acked")
       ELSE /\ Answer(r, "refused")
            /\ UNCHANGED fix

(* Bug: a retry forgets the ops of the earlier attempts.                   *)
TransformAfresh(r) ==
    /\ \A i \in ver[r] + 1 .. snap[r].v : ~Stops(r, i)
    /\ ver' = [ver EXCEPT ![r] = snap[r].v]
    /\ ops' = [ops EXCEPT ![r] = Ids(log, ver[r], snap[r].v)]
    /\ pc' = [pc EXCEPT ![r] = "apply"]
    /\ UNCHANGED fix

TransformThrough(r) ==
    /\ \A i \in ver[r] + 1 .. snap[r].v : ~Stops(r, i)
    /\ ver' = [ver EXCEPT ![r] = snap[r].v]
    /\ ops' = [ops EXCEPT ![r] = @ \o Ids(log, ver[r], snap[r].v)]
    /\ IF Emptied(op[r], snap[r].v)
       THEN Answer(r, "skipped")
       ELSE pc' = [pc EXCEPT ![r] = "apply"]
    /\ UNCHANGED fix

(* The callback of db.getOpsToSnapshot.                                    *)
GetOps(r) ==
    /\ pc[r] = "getops"
    /\ TransformThrough(r) \/ \E i \in 1..Len(log) : TransformStopped(r, i)
    /\ UNCHANGED <<log, row, origin, last, current, op, base, snap, tries, comp>>

(* SubmitRequest.apply: projection check, apply middleware (which may      *)
(* compose fixups into the op), ot.apply, commit middleware.               *)
ApplyToSnapshot(r, n) ==
    /\ pc[r] = "apply"
    /\ n \in IF op[r] \in MayFixup /\ Kind[op[r]] # "del" THEN {0, 1} ELSE {0}
    /\ fix' = [fix EXCEPT ![r] = n]
    /\ comp' = [comp EXCEPT ![r] = @ + n]
    /\ IF CanApply(Kind[op[r]], snap[r].exists)
       THEN /\ pc' = [pc EXCEPT ![r] = "commit"]
            /\ snap' = [snap EXCEPT ![r] = ApplyOp(@, op[r], ver[r])]
       ELSE /\ Answer(r, "refused")
            /\ UNCHANGED snap
    /\ UNCHANGED <<log, row, origin, last, current, op, ver, base, ops, tries>>

Reject(r) ==
    /\ pc[r] = "apply"
    /\ op[r] \in MayReject
    /\ fix' = [fix EXCEPT ![r] = 0]
    /\ Answer(r, "refused")
    /\ UNCHANGED <<log, row, origin, last, current, op, ver, base, snap, ops,
                   tries, comp>>

(* Bug: db.commit does not compare versions.                               *)
CommitAnyway(r) ==
    /\ pc[r] = "commit"
    /\ log' = Append(log, [id |-> op[r], comp |-> comp[r], fixup |-> fix[r]])
    /\ row' = Stored(snap[r])
    /\ pc' = [pc EXCEPT ![r] = "publish"]
    /\ UNCHANGED <<origin, last, current, op, ver, base, snap, ops, tries, comp, fix>>

(* db.commit writes op and snapshot together, for the next version only.   *)
CommitWins(r) ==
    /\ pc[r] = "commit"
    /\ snap[r].v = Len(log) + 1
    /\ log' = Append(log, [id |-> op[r], comp |-> comp[r], fixup |-> fix[r]])
    /\ row' = Stored(snap[r])
    /\ pc' = [pc EXCEPT ![r] = "publish"]
    /\ UNCHANGED <<origin, last, current, op, ver, base, snap, ops, tries, comp, fix>>

(* Somebody else committed in between: retry.                              *)
CommitLoses(r) ==
    /\ pc[r] = "commit"
    /\ snap[r].v # Len(log) + 1
    /\ tries' = [tries EXCEPT ![r] = @ + 1]
    /\ IF MaxRetries # Unlimited /\ tries[r] + 1 > MaxRetries
       THEN Answer(r, "refused")
       ELSE pc' = [pc EXCEPT ![r] = "read"]
    /\ UNCHANGED <<log, row, origin, last, current, op, ver, base, snap, ops, comp, fix>>

(* The rest of the commit callback: the op is handed to pubsub, and the    *)
(* missing ops and the acknowledgement to the client.                      *)
Publish(r) ==
    /\ pc[r] = "publish"
    /\ Answer(r, "acked")
    /\ UNCHANGED <<log, row, origin, last, current, op, ver, base, snap, ops,
                   tries, comp, fix>>

(* The process that runs the request crashes.                              *)
Lose(r) ==
    /\ Crashes
    /\ pc[r] \in Active
    /\ pc' = [pc EXCEPT ![r] = "lost"]
    /\ UNCHANGED <<log, row, origin, last, current, op, ver, base, snap, ops,
                   tries, comp, fix>>

-----------------------------------------------------------------------------
Init ==
    /\ log = <<>>
    /\ row = NoRow
    /\ origin = [o \in Ops |-> Unsent]
    /\ last = [o \in Ops |-> Unsent]
    /\ current = [o \in Ops |-> Nil]
    /\ pc = [r \in Requests |-> "idle"]
    /\ op = [r \in Requests |-> Nil]
    /\ ver = [r \in Requests |-> NullV]
    /\ base = [r \in Requests |-> NullV]
    /\ snap = [r \in Requests |-> NoRow]
    /\ ops = [r \in Requests |-> <<>>]
    /\ tries = [r \in Requests |-> 0]
    /\ comp = [r \in Requests |-> 0]
    /\ fix = [r \in Requests |-> 0]

Step(r) ==
    \/ ReadSnapshot(r)
    \/ GetOps(r)
    \/ \E n \in 0..1 : ApplyToSnapshot(r, n)
    \/ Reject(r)
    \/ CommitWins(r)
    \/ CommitLoses(r)
    \/ Publish(r)

Next ==
    \E r \in Requests :
        \/ \E o \in Ops : \E v \in NullV..Len(log) : Receive(r, o, v)
        \/ Step(r)
        \/ Lose(r)

(* Node runs the callbacks of completed database calls: a request that can *)
(* go on eventually does.  Nothing makes clients send or processes crash.  *)
Fairness == \A r \in Requests : WF_vars(Step(r))

Spec == Init /\ [][Next]_vars

FairSpec == Spec /\ Fairness

-----------------------------------------------------------------------------
(* Properties.                                                             *)

Snapshots ==
    [exists : BOOLEAN, v : Nat, data : SUBSET Ops,
     create : (Ops \cup {Nil}) \X (Nat \cup {NullV})]

(* The types of the state, with the entries of the log and the snapshots   *)
(* as SubmitRequest and MemoryDB hold them.                                *)
TypeOK ==
    /\ log \in Seq([id : Ops, comp : Nat, fixup : Nat])
    /\ row \in Snapshots
    /\ origin \in [Ops -> Nat \cup {NullV, Unsent}]
    /\ last \in [Ops -> Nat \cup {NullV, Unsent}]
    /\ current \in [Ops -> Requests \cup {Nil}]
    /\ pc \in [Requests -> {"idle"} \cup Active \cup Final]
    /\ op \in [Requests -> Ops \cup {Nil}]
    /\ ver \in [Requests -> Nat \cup {NullV}]
    /\ base \in [Requests -> Nat \cup {NullV}]
    /\ snap \in [Requests -> Snapshots]
    /\ ops \in [Requests -> Seq(Ops)]
    /\ tries \in [Requests -> Nat]
    /\ comp \in [Requests -> Nat]
    /\ fix \in [Requests -> Nat]

(* "It's important we don't apply the same op twice" (_transformOp): no op *)
(* is in the log twice, whatever is resent, retried or lost.               *)
ExactlyOnce ==
    \A i, j \in 1..Len(log) : log[i].id = log[j].id => i = j

(* The edits after the last create, when no delete follows it.             *)
LiveEdits ==
    {log[i].id : i \in {k \in 1..Len(log) :
        /\ Kind[log[k].id] = "edit"
        /\ \A j \in k + 1 .. Len(log) : Kind[log[j].id] \notin {"create", "del"}}}

(* The row db.commit wrote is what the log says: concurrent requests that  *)
(* each computed a snapshot of their own never leave one that misses an op *)
(* or holds one the log does not have.                                     *)
SnapshotMatchesLog ==
    /\ row.exists = ExistsAt(Len(log))
    /\ row.exists => row.v = Len(log) /\ row.data = LiveEdits

(* request.ops, which Agent._submit sends the client before the            *)
(* acknowledgement, is exactly what happened between the version the op    *)
(* was made at and the version it gets, over all the request's retries.    *)
OpsFillTheGap ==
    \A r \in Requests :
        pc[r] \in {"apply", "commit", "publish"} =>
            ops[r] = Ids(log, base[r], ver[r])

(* The version in an acknowledgement, {src, seq, v: op.v}, is the op's      *)
(* place in the log, also when the op was logged by another request.       *)
AckNamesCommit ==
    \A r \in Requests :
        pc[r] = "acked" => /\ ver[r] + 1 \in 1..Len(log)
                           /\ log[ver[r] + 1].id = op[r]

(* The acknowledgement tells the client every fixup that the logged op was *)
(* amended with, and no other, also to one that resends it: $fixup,        *)
(* _fixupOps and op.m.fixup agree, unless a retry ran the middleware that  *)
(* calls $fixup a second time.                                             *)
AckCarriesFixups ==
    \A r \in Requests :
        pc[r] = "acked" /\ (\A q \in Requests : op[q] = op[r] => tries[q] = 0)
            => log[ver[r] + 1].comp = fix[r]

(* Agent._submit answers every op it takes, unless the process crashes.    *)
EveryRequestEnds ==
    \A r \in Requests : pc[r] \in Active ~> pc[r] \in Final

(* What the clients see is the log of OpLog: each op at most once, acks    *)
(* that name its place, and refusals (and skipped no-ops) that are final,  *)
(* but for a resent edit that was logged before the document was deleted.  *)
ClientLog == INSTANCE OpLog WITH
    Deletes <- {o \in Ops : Kind[o] = "del"},
    log     <- [i \in 1..Len(log) |-> log[i].id],
    acks    <- {<<op[r], ver[r]>> : r \in {q \in Requests : pc[q] = "acked"}},
    refused <- {op[r] : r \in {q \in Requests : pc[q] \in {"refused", "skipped"}}}

ImplementsOpLog == ClientLog!LogSpec
=============================================================================
