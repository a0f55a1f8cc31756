----------------------------- MODULE Snapshots -----------------------------
(* Historic snapshots: what MemoryMilestoneDB answers and how the backend    *)
(* builds the snapshot of a version or of a time from a milestone and the    *)
(* ops after it.                                                             *)
(*                                                                           *)
(* A log is a sequence of timestamps: op number i, of version i - 1, was     *)
(* committed at log[i].  A snapshot is [v, data], data being the versions of *)
(* the ops that were applied to make it, so that a gap or a repetition       *)
(* shows.  A milestone is saved from a committed snapshot, so the set of the *)
(* versions saved says everything: its mtime is that of the op that made it. *)
EXTENDS Naturals, Sequences, FiniteSetsExt

Prefix(n) == [i \in 1..n |-> i - 1]
SnapshotAt(n) == [v |-> n, data |-> Prefix(n)]

NoMilestone == 0                       \* undefined: start from an empty doc
mtime(log, v) == log[v]

(* _findMilestoneSnapshot walks the milestones by version and keeps the last *)
(* one before its break condition holds.                                     *)
Latest(vs) == IF vs = {} THEN NoMilestone ELSE Max(vs)
Before(vs, stop) == {v \in vs : \A w \in stop : v < w}

(* versionLessThanOrEqualTo(version): break at the first milestone newer than *)
(* the version.                                                              *)
MilestoneSnapshot(vs, version) == Latest(Before(vs, {w \in vs : w > version}))

(* timestampLessThanOrEqualTo: break at the first one newer than the time.   *)
AtOrBeforeTime(log, vs, ts) ==
    Latest(Before(vs, {w \in vs : mtime(log, w) > ts}))

(* Bug: settles for the last milestone when none is late enough.             *)
AtOrAfterTimeOrLast(log, vs, ts) ==
    LET late == {w \in vs : mtime(log, w) >= ts}
    IN  IF late = {} THEN Latest(vs) ELSE Min(late)
(* timestampGreaterThanOrEqualTo: break once the kept one is late enough;    *)
(* the last of all is dropped when even that one is too old.                 *)
AtOrAfterTime(log, vs, ts) ==
    LET late == {w \in vs : mtime(log, w) >= ts}
        found == IF late = {} THEN Latest(vs) ELSE Min(late)
    IN  IF found = NoMilestone \/ mtime(log, found) < ts
        THEN NoMilestone ELSE found

(* MemoryDB.getOps(from, to): the versions from..to - 1 that there are; `to' *)
(* is null for all of them.  Fewer than were asked for is an error.          *)
MissingOps(log, to) == to > Len(log)
GetOps(log, from, to) ==
    LET end == IF to = NoMilestone \/ to > Len(log) THEN Len(log) ELSE to
    IN  IF from >= end THEN << >> ELSE [i \in 1..(end - from) |-> from + i - 1]

(* filterOpsInPlaceBeforeTimestamp: cut at the first op that is too young.   *)
BeforeTimestamp(log, ops, ts) ==
    LET young == {i \in DOMAIN ops : log[ops[i] + 1] > ts}
    IN  IF young = {} THEN ops ELSE SubSeq(ops, 1, Min(young) - 1)

(* _buildSnapshotFromOps: applyOps gives the snapshot the version of each op *)
(* before it applies it.                                                     *)
BuildSnapshot(start, ops) ==
    [v |-> IF ops = << >> THEN start ELSE ops[Len(ops)] + 1,
     data |-> Prefix(start) \o ops]

(* _fetchSnapshot, its milestone read before: the ops up to the version, or  *)
(* an error when the doc has not come that far.                              *)
ByVersion(log, milestone, version) ==
    LET s == BuildSnapshot(milestone, GetOps(log, milestone, version))
    IN  IF MissingOps(log, version) \/ version > s.v
        THEN [error |-> TRUE]
        ELSE [error |-> FALSE, snap |-> s]

(* _fetchSnapshotByTimestamp, both milestones read before.                   *)
ByTimestamp(log, from, to, ts) ==
    [error |-> FALSE,
     snap |-> BuildSnapshot(from, BeforeTimestamp(log, GetOps(log, from, to), ts))]
=============================================================================
