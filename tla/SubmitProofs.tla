---------------------------- MODULE SubmitProofs ----------------------------
(***************************************************************************)
(* Proofs about Submit, for every set of operations and requests.          *)
(*                                                                         *)
(* The inductive invariant has four parts next to the types: what holds at *)
(* each point of a request's control, that a request's version never goes  *)
(* past a logged copy of its own op, that a snapshot still at the head of  *)
(* the log is the one the database holds, and that a create in the log of  *)
(* a document nobody deletes means that the document exists.               *)
(***************************************************************************)
EXTENDS Submit, SequenceTheorems, TLAPS

(* The assumption of the theorem ExactlyOnceCorrect.  A create without a   *)
(* version is recognised by the metadata of the document it made, and a    *)
(* delete destroys these.                                                  *)
SafeNulls == NullOps = {} \/ \A o \in Ops : Kind[o] # "del"

(* Control: what the fields of a request are at each point of its life.    *)
Control(r) ==
    /\ pc[r] # "idle" => op[r] \in Ops /\ last[op[r]] # Unsent
    /\ ver[r] <= Len(log)
    /\ pc[r] = "read" /\ ver[r] = NullV => op[r] \in NullOps
    /\ pc[r] \in {"getops", "apply", "commit", "publish"} => ver[r] \in Nat
    /\ pc[r] = "getops" => ver[r] < snap[r].v /\ snap[r].v <= Len(log)
    /\ pc[r] = "apply" => snap[r].v = ver[r]
    /\ pc[r] = "commit" => snap[r].v = ver[r] + 1

(* A request that may still commit has not passed its own op in the log.   *)
NotPassed(r) ==
    pc[r] \in {"read", "getops", "apply", "commit"} =>
        \A i \in 1..ver[r] : log[i].id # op[r]

(* A snapshot that can still be committed derives from the current row.    *)
Fresh(r) ==
    /\ pc[r] \in {"getops", "apply"} /\ snap[r].v = Len(log) =>
          snap[r] = GetSnapshot
    /\ pc[r] = "commit" /\ snap[r].v = Len(log) + 1 =>
          /\ snap[r] = ApplyOp(GetSnapshot, op[r], ver[r])
          /\ CanApply(Kind[op[r]], row.exists)

(* The version of a logged op is its place.                                *)
Placed(r) ==
    pc[r] \in {"publish", "acked"} =>
        ver[r] + 1 \in 1..Len(log) /\ log[ver[r] + 1].id = op[r]

RequestInv(r) == Control(r) /\ NotPassed(r) /\ Fresh(r) /\ Placed(r)

(* Only what was sent is logged.                                           *)
SentInv == \A i \in 1..Len(log) : last[log[i].id] # Unsent

(* The row has the version of the log and names its create.                *)
RowInv ==
    row.exists =>
        /\ row.v = Len(log)
        /\ row.create[2] + 1 \in 1..Len(log)
        /\ log[row.create[2] + 1].id = row.create[1]

(* Without deletes, a document once created exists.                        *)
CreatedExists ==
    (\A o \in Ops : Kind[o] # "del") =>
        \A i \in 1..Len(log) : Kind[log[i].id] = "create" => row.exists

IInv ==
    /\ TypeOK
    /\ \A r \in Requests : RequestInv(r)
    /\ SentInv
    /\ RowInv
    /\ CreatedExists
    /\ ExactlyOnce

-----------------------------------------------------------------------------
Entries == [id : Ops, comp : Nat, fixup : Nat]

LEMMA LogType ==
    ASSUME TypeOK
    PROVE  /\ Len(log) \in Nat
           /\ \A i \in 1..Len(log) : log[i] \in Entries /\ log[i].id \in Ops
<1>1. log \in Seq(Entries)
  BY DEF TypeOK, Entries
<1>2. \A i \in 1..Len(log) : log[i] \in Entries
  BY <1>1
<1> QED BY <1>1, <1>2 DEF Entries

(* Ids is the sequence of the identities of the entries m + 1 .. n.        *)
LEMMA IdsType ==
    ASSUME TypeOK, NEW m \in Nat, NEW n \in Nat, m <= n, n <= Len(log)
    PROVE  /\ Ids(log, m, n) \in Seq(Ops)
           /\ Len(Ids(log, m, n)) = n - m
<1> DEFINE s == Ids(log, m, n)
<1>1. \A i \in 1..(n - m) : log[m + i].id \in Ops
  BY LogType
<1>2. s \in [1..(n - m) -> Ops]
  BY <1>1 DEF Ids
<1>3. n - m \in Nat
  OBVIOUS
<1> QED BY <1>2, <1>3, SeqDef, LenProperties

(* The snapshot read from the database is well typed and has the version   *)
(* of the log.                                                             *)
LEMMA GetSnapshotType ==
    ASSUME TypeOK, RowInv
    PROVE  /\ GetSnapshot \in Snapshots
           /\ GetSnapshot.v = Len(log)
           /\ GetSnapshot.exists = row.exists
<1>1. row \in Snapshots /\ Len(log) \in Nat
  BY LogType DEF TypeOK
<1>2. CASE row.exists
  BY <1>1, <1>2 DEF GetSnapshot, RowInv
<1>3. CASE ~row.exists
  <2>1. <<Nil, NullV>> \in (Ops \cup {Nil}) \X (Nat \cup {NullV})
    OBVIOUS
  <2>2. GetSnapshot = [exists |-> FALSE, v |-> Len(log), data |-> {},
                       create |-> <<Nil, NullV>>]
    BY <1>3 DEF GetSnapshot, NoRow
  <2> QED BY <1>1, <1>3, <2>1, <2>2 DEF Snapshots
<1> QED BY <1>1, <1>2, <1>3

(* Applying an op keeps a snapshot well typed and adds one to its version. *)
LEMMA ApplyOpType ==
    ASSUME NEW s \in Snapshots, NEW o \in Ops, NEW v \in Nat
    PROVE  /\ ApplyOp(s, o, v) \in Snapshots
           /\ ApplyOp(s, o, v).v = s.v + 1
           /\ ApplyOp(s, o, v).exists = ExistsAfter(Kind[o], s.exists)
<1>1. Kind[o] \in Kinds
  BY KindAssumption
<1>2. ExistsAfter(Kind[o], s.exists) \in BOOLEAN
  BY DEF ExistsAfter
<1>3. s.data \cup {o} \subseteq Ops /\ s.data \subseteq Ops /\ s.v + 1 \in Nat
  BY DEF Snapshots
<1>4. <<o, v>> \in (Ops \cup {Nil}) \X (Nat \cup {NullV})
  OBVIOUS
<1> QED BY <1>1, <1>2, <1>3, <1>4 DEF ApplyOp, Snapshots, Kinds

LEMMA StoredType ==
    ASSUME NEW s \in Snapshots
    PROVE  /\ Stored(s) \in Snapshots
           /\ Stored(s).exists => Stored(s) = s
           /\ Stored(s).exists = s.exists
<1>1. <<Nil, NullV>> \in (Ops \cup {Nil}) \X (Nat \cup {NullV})
  OBVIOUS
<1> QED BY <1>1 DEF Stored, Snapshots, NoRow

LEMMA InitInv == Init => IInv
<1> SUFFICES ASSUME Init PROVE IInv
  OBVIOUS
<1>1. NoRow \in Snapshots
  <2>1. <<Nil, NullV>> \in (Ops \cup {Nil}) \X (Nat \cup {NullV})
    OBVIOUS
  <2> QED BY <2>1 DEF NoRow, Snapshots
<1>2. TypeOK
  BY <1>1 DEF Init, TypeOK, NullV, Unsent
<1>3. \A r \in Requests : RequestInv(r)
  BY DEF Init, RequestInv, Control, NotPassed, Fresh, Placed, NullV
<1>4. SentInv /\ RowInv /\ CreatedExists /\ ExactlyOnce
  BY DEF Init, SentInv, RowInv, CreatedExists, ExactlyOnce, NoRow
<1> QED BY <1>2, <1>3, <1>4 DEF IInv

-----------------------------------------------------------------------------
(* A step of one request that leaves the database alone keeps the          *)
(* invariant if it keeps the types and that request's part of it.          *)
LEMMA LocalStep ==
    ASSUME IInv, TypeOK', NEW r \in Requests,
           UNCHANGED <<log, row>>,
           \A o \in Ops : last[o] # Unsent => last'[o] # Unsent,
           \A q \in Requests \ {r} :
               /\ pc'[q] = pc[q] /\ op'[q] = op[q]
               /\ ver'[q] = ver[q] /\ snap'[q] = snap[q],
           RequestInv(r)'
    PROVE  IInv'
<1>1. GetSnapshot' = GetSnapshot
  BY DEF GetSnapshot
<1>2. ASSUME NEW q \in Requests \ {r} PROVE RequestInv(q)'
  <2>1. RequestInv(q)
    BY DEF IInv
  <2>4. Placed(q)'
    BY <2>1 DEF RequestInv, Placed
  <2>2. NotPassed(q)'
    BY <2>1 DEF RequestInv, NotPassed
  <2>5. Control(q)'
    BY <2>1 DEF RequestInv, Control, IInv, TypeOK
  <2>3. Fresh(q)'
    BY <2>1, <1>1 DEF RequestInv, Fresh
  <2> QED BY <2>2, <2>3, <2>4, <2>5 DEF RequestInv
<1>3. \A q \in Requests : RequestInv(q)'
  BY <1>2
<1>4. SentInv' /\ RowInv' /\ CreatedExists' /\ ExactlyOnce'
  BY LogType DEF IInv, SentInv, RowInv, CreatedExists, ExactlyOnce
<1> QED BY <1>3, <1>4 DEF IInv

(* An answer ends the request.                                             *)
LEMMA AnswerEnds ==
    ASSUME TypeOK, NEW r \in Requests, NEW how \in Final, Answer(r, how)
    PROVE  /\ pc' \in [Requests -> {"idle"} \cup Active \cup Final]
           /\ pc'[r] \in Final
           /\ \A q \in Requests \ {r} : pc'[q] = pc[q]
BY DEF TypeOK, Answer, Active, Final

(* A finished request owes nothing but a version inside the log.           *)
LEMMA FinishedInv ==
    ASSUME NEW r \in Requests, pc'[r] \in Final, op'[r] \in Ops,
           last'[op'[r]] # Unsent,
           ver'[r] <= Len(log'), Placed(r)'
    PROVE  RequestInv(r)'
BY DEF RequestInv, Control, NotPassed, Fresh, Placed, Final

LEMMA ReceiveInv ==
    ASSUME IInv, NEW r \in Requests, NEW o \in Ops, NEW v \in NullV..Len(log),
           Receive(r, o, v)
    PROVE  IInv'
<1>0. Len(log) \in Nat
  BY LogType DEF IInv
<1>1. v \in Nat \cup {NullV} /\ v <= Len(log)
  BY <1>0 DEF NullV
<1>2. TypeOK'
  BY <1>1 DEF IInv, TypeOK, Receive, Active
<1>3. /\ pc'[r] = "read" /\ op'[r] = o /\ ver'[r] = v
      /\ last'[o] = v /\ v # Unsent
      /\ UNCHANGED <<log, row>>
      /\ \A x \in Ops : last[x] # Unsent => last'[x] # Unsent
      /\ \A q \in Requests \ {r} : /\ pc'[q] = pc[q] /\ op'[q] = op[q]
                                    /\ ver'[q] = ver[q] /\ snap'[q] = snap[q]
  BY <1>1 DEF IInv, TypeOK, Receive, NullV, Unsent
<1>4. Control(r)'
  BY <1>1, <1>3 DEF Receive, CanSend, Control
<1>5. NotPassed(r)'
  <2>1. CASE last[o] # Unsent
    BY <2>1, <1>3 DEF Receive, CanSend, CanResend, NotPassed
  <2>2. CASE last[o] = Unsent
    <3>1. \A i \in 1..Len(log) : log[i].id # o
      BY <2>2 DEF IInv, SentInv
    <3> QED BY <3>1, <1>1, <1>3, <1>0 DEF NotPassed
  <2> QED BY <2>1, <2>2
<1>6. Fresh(r)' /\ Placed(r)'
  BY <1>3 DEF Fresh, Placed
<1> QED BY <1>2, <1>3, <1>4, <1>5, <1>6, LocalStep DEF RequestInv

LEMMA ReadSnapshotInv ==
    ASSUME IInv, SafeNulls, NEW r \in Requests, ReadSnapshot(r)
    PROVE  IInv'
<1> USE DEF IInv
<1>1. /\ pc[r] = "read" /\ op[r] \in Ops /\ last[op[r]] # Unsent
      /\ RequestInv(r)
      /\ ver[r] \in Nat \cup {NullV} /\ ver[r] <= Len(log)
      /\ Len(log) \in Nat
  BY LogType DEF ReadSnapshot, RequestInv, Control, TypeOK
<1>2. /\ UNCHANGED <<log, row, op, last, origin, current, ops, tries, comp, fix>>
      /\ snap' = [snap EXCEPT ![r] = GetSnapshot]
  BY DEF ReadSnapshot
<1>3. /\ GetSnapshot \in Snapshots /\ GetSnapshot.v = Len(log)
      /\ GetSnapshot.exists = row.exists /\ GetSnapshot' = GetSnapshot
  BY GetSnapshotType, <1>2 DEF GetSnapshot
<1>4. CASE ReadExistingForCreate(r)
  <2> DEFINE made == GetSnapshot.create
  <2>1. /\ made[1] \in Ops \cup {Nil} /\ made[2] \in Nat \cup {NullV}
        /\ row.exists /\ made = row.create
    BY <1>3, <1>4 DEF Snapshots, ReadExistingForCreate, GetSnapshot
  <2>2. \/ Answer(r, "acked") /\ made[1] = op[r] /\ ver' = [ver EXCEPT ![r] = made[2]]
        \/ Answer(r, "refused") /\ ver' = ver
    BY <1>4 DEF ReadExistingForCreate
  <2>3. /\ pc' \in [Requests -> {"idle"} \cup Active \cup Final]
        /\ pc'[r] \in Final
        /\ \A q \in Requests \ {r} : pc'[q] = pc[q]
    BY <2>2, AnswerEnds DEF Final
  <2>4. TypeOK'
    BY <1>2, <1>3, <1>4, <2>1, <2>2, <2>3 DEF TypeOK, ReadExistingForCreate
  <2>5. ver'[r] <= Len(log') /\ Placed(r)'
    <3>1. CASE Answer(r, "acked") /\ made[1] = op[r] /\ ver' = [ver EXCEPT ![r] = made[2]]
      <4>1. /\ made[2] + 1 \in 1..Len(log) /\ log[made[2] + 1].id = op[r]
        BY <2>1, <3>1 DEF RowInv
      <4>2. ver'[r] = made[2]
        BY <3>1 DEF TypeOK
      <4> QED BY <1>1, <1>2, <2>1, <4>1, <4>2 DEF Placed, NullV
    <3>2. CASE Answer(r, "refused") /\ ver' = ver
      BY <1>1, <1>2, <3>2 DEF Answer, Placed, TypeOK
    <3> QED BY <2>2, <3>1, <3>2
  <2>6. RequestInv(r)'
    BY <1>1, <1>2, <2>3, <2>5, FinishedInv
  <2>7. \A q \in Requests \ {r} : /\ op'[q] = op[q] /\ ver'[q] = ver[q]
                                  /\ snap'[q] = snap[q]
    BY <1>2, <2>2 DEF TypeOK
  <2> QED BY <1>2, <2>3, <2>4, <2>6, <2>7, LocalStep
<1>5. CASE ReadVersion(r)
  <2> DEFINE v == IF ver[r] = NullV THEN GetSnapshot.v ELSE ver[r]
  <2>1. /\ v \in Nat /\ v <= Len(log)
        /\ ver' = [ver EXCEPT ![r] = v]
        /\ base' = [base EXCEPT ![r] = IF @ = NullV THEN v ELSE @]
        /\ pc' = [pc EXCEPT ![r] = IF v = Len(log) THEN "apply" ELSE "getops"]
    BY <1>1, <1>3, <1>5 DEF ReadVersion, NullV
  <2>2. TypeOK'
    BY <1>2, <1>3, <2>1 DEF TypeOK, Active
  <2>3. /\ ver'[r] = v /\ snap'[r] = GetSnapshot /\ op'[r] = op[r]
        /\ pc'[r] = IF v = Len(log) THEN "apply" ELSE "getops"
        /\ \A q \in Requests \ {r} : /\ pc'[q] = pc[q] /\ op'[q] = op[q]
                                      /\ ver'[q] = ver[q] /\ snap'[q] = snap[q]
    BY <1>2, <2>1 DEF TypeOK
  <2>4. Control(r)'
    BY <1>1, <1>2, <1>3, <2>1, <2>3 DEF Control
  <2>5. \A i \in 1..v : log[i].id # op[r]
    <3>1. CASE ver[r] # NullV
      BY <1>1, <3>1 DEF RequestInv, NotPassed
    <3>2. CASE ver[r] = NullV
      \* The document does not exist, so nothing created it, not even this op.
      <4>1. op[r] \in NullOps /\ ~row.exists
        BY <1>1, <1>3, <1>5, <3>2 DEF RequestInv, Control, ReadVersion
      <4>2. \A o \in Ops : Kind[o] # "del"
        BY <4>1 DEF SafeNulls
      <4>3. \A i \in 1..Len(log) : Kind[log[i].id] # "create"
        BY <4>1, <4>2 DEF CreatedExists
      <4>4. Kind[op[r]] = "create"
        BY <4>1, NullAssumption
      <4> QED BY <1>1, <2>1, <4>3, <4>4
    <3> QED BY <3>1, <3>2
  <2>6. NotPassed(r)' /\ Placed(r)'
    BY <1>2, <2>3, <2>5 DEF NotPassed, Placed
  <2>7. Fresh(r)'
    BY <1>3, <2>3 DEF Fresh
  <2> QED BY <1>2, <2>2, <2>3, <2>4, <2>6, <2>7, LocalStep DEF RequestInv
<1> QED BY <1>4, <1>5 DEF ReadSnapshot

LEMMA GetOpsInv ==
    ASSUME IInv, NEW r \in Requests, GetOps(r)
    PROVE  IInv'
<1> USE DEF IInv
<1>1. /\ pc[r] = "getops" /\ op[r] \in Ops /\ last[op[r]] # Unsent
      /\ RequestInv(r)
      /\ ver[r] \in Nat /\ snap[r].v \in Nat /\ Len(log) \in Nat
      /\ ver[r] < snap[r].v /\ snap[r].v <= Len(log)
      /\ ops[r] \in Seq(Ops)
  BY LogType DEF GetOps, RequestInv, Control, TypeOK, Snapshots
<1>2. UNCHANGED <<log, row, op, last, origin, current, base, snap, tries, comp>>
  BY DEF GetOps
<1>3. CASE TransformThrough(r)
  <2>1. \/ Answer(r, "skipped")
        \/ pc' = [pc EXCEPT ![r] = "apply"]
    BY <1>3 DEF TransformThrough
  <2>2. /\ ver' = [ver EXCEPT ![r] = snap[r].v] /\ fix' = fix
        /\ ops' = [ops EXCEPT ![r] = @ \o Ids(log, ver[r], snap[r].v)]
        /\ \A i \in ver[r] + 1 .. snap[r].v : log[i].id # op[r]
    BY <1>3 DEF TransformThrough, Stops
  <2>3. ops' \in [Requests -> Seq(Ops)]
    <3>1. Ids(log, ver[r], snap[r].v) \in Seq(Ops)
      BY <1>1, IdsType
    <3>2. ops[r] \o Ids(log, ver[r], snap[r].v) \in Seq(Ops)
      BY <1>1, <3>1, ConcatProperties
    <3> QED BY <2>2, <3>2 DEF TypeOK
  <2>4. /\ pc' \in [Requests -> {"idle"} \cup Active \cup Final]
        /\ pc'[r] \in Final \ {"acked"} \/ pc'[r] = "apply"
        /\ \A q \in Requests \ {r} : pc'[q] = pc[q]
    BY <2>1 DEF TypeOK, Answer, Active, Final
  <2>5. TypeOK'
    BY <1>1, <1>2, <2>2, <2>3, <2>4 DEF TypeOK
  <2>6. /\ ver'[r] = snap[r].v /\ snap'[r] = snap[r] /\ op'[r] = op[r]
        /\ \A q \in Requests \ {r} : /\ op'[q] = op[q] /\ ver'[q] = ver[q]
                                      /\ snap'[q] = snap[q]
    BY <1>2, <2>2 DEF TypeOK
  <2>7. Control(r)'
    BY <1>1, <1>2, <2>4, <2>6 DEF Control, Final
  <2>8. \A i \in 1..snap[r].v : log[i].id # op[r]
    <3>1. \A i \in 1..ver[r] : log[i].id # op[r]
      BY <1>1 DEF RequestInv, NotPassed
    <3> QED BY <1>1, <2>2, <3>1
  <2>9. NotPassed(r)' /\ Placed(r)'
    BY <1>2, <2>4, <2>6, <2>8 DEF NotPassed, Placed, Final
  <2>10. Fresh(r)'
    <3>1. snap[r].v = Len(log) => snap[r] = GetSnapshot
      BY <1>1 DEF RequestInv, Fresh
    <3>2. GetSnapshot' = GetSnapshot
      BY <1>2 DEF GetSnapshot
    <3> QED BY <1>2, <2>4, <2>6, <3>1, <3>2 DEF Fresh, Final
  <2> QED BY <1>2, <2>4, <2>5, <2>6, <2>7, <2>9, <2>10, LocalStep DEF RequestInv
<1>4. ASSUME NEW i \in 1..Len(log), TransformStopped(r, i)
      PROVE  IInv'
  <2>1. /\ i \in ver[r] + 1 .. snap[r].v
        /\ ver' = [ver EXCEPT ![r] = i - 1]
        /\ ops' = [ops EXCEPT ![r] = @ \o Ids(log, ver[r], i - 1)]
    BY <1>4 DEF TransformStopped, FirstStop
  <2>2. \/ Answer(r, "acked") /\ log[i].id = op[r]
        \/ Answer(r, "refused")
    BY <1>4 DEF TransformStopped
  <2>3. fix' \in [Requests -> Nat]
    <3>1. log[i].fixup \in Nat
      BY <1>4, LogType DEF Entries
    <3> QED BY <1>4, <3>1 DEF TransformStopped, TypeOK
  <2>4. ops' \in [Requests -> Seq(Ops)]
    <3>0. i - 1 \in Nat /\ ver[r] <= i - 1 /\ i - 1 <= Len(log)
      BY <1>1, <2>1
    <3>1. Ids(log, ver[r], i - 1) \in Seq(Ops)
      BY <1>1, <3>0, IdsType
    <3>2. ops[r] \o Ids(log, ver[r], i - 1) \in Seq(Ops)
      BY <1>1, <3>1, ConcatProperties
    <3> QED BY <2>1, <3>2 DEF TypeOK
  <2>5. /\ pc' \in [Requests -> {"idle"} \cup Active \cup Final]
        /\ pc'[r] \in Final
        /\ \A q \in Requests \ {r} : pc'[q] = pc[q]
    BY <2>2, AnswerEnds DEF Final
  <2>6. TypeOK'
    <3>1. i - 1 \in Nat
      BY <1>1, <2>1
    <3> QED BY <1>2, <2>1, <2>3, <2>4, <2>5, <3>1 DEF TypeOK
  <2>7. /\ ver'[r] = i - 1 /\ op'[r] = op[r]
        /\ \A q \in Requests \ {r} : /\ op'[q] = op[q] /\ ver'[q] = ver[q]
                                      /\ snap'[q] = snap[q]
    BY <1>2, <2>1 DEF TypeOK
  <2>8. Placed(r)'
    <3>1. CASE log[i].id = op[r]
      BY <1>2, <2>7, <3>1 DEF Placed
    <3>2. CASE Answer(r, "refused")
      BY <3>2 DEF Answer, Placed, TypeOK
    <3> QED BY <2>2, <3>1, <3>2
  <2>9. RequestInv(r)'
    BY <1>1, <1>2, <2>5, <2>7, <2>8, FinishedInv
  <2> QED BY <1>2, <2>5, <2>6, <2>7, <2>9, LocalStep
<1> QED BY <1>3, <1>4 DEF GetOps

LEMMA ApplyToSnapshotInv ==
    ASSUME IInv, NEW r \in Requests, NEW n \in 0..1, ApplyToSnapshot(r, n)
    PROVE  IInv'
<1> USE DEF IInv
<1>1. /\ pc[r] = "apply" /\ op[r] \in Ops /\ last[op[r]] # Unsent
      /\ RequestInv(r)
      /\ ver[r] \in Nat /\ ver[r] <= Len(log) /\ snap[r].v = ver[r]
      /\ snap[r] \in Snapshots
  BY DEF ApplyToSnapshot, RequestInv, Control, TypeOK
<1>2. /\ UNCHANGED <<log, row, op, last, origin, current, ver, base, ops, tries>>
      /\ fix' = [fix EXCEPT ![r] = n] /\ comp' = [comp EXCEPT ![r] = @ + n]
  BY DEF ApplyToSnapshot
<1>3. fix' \in [Requests -> Nat] /\ comp' \in [Requests -> Nat]
  BY <1>2 DEF TypeOK
<1>4. CASE CanApply(Kind[op[r]], snap[r].exists)
  <2> DEFINE s == ApplyOp(snap[r], op[r], ver[r])
  <2>1. /\ pc' = [pc EXCEPT ![r] = "commit"]
        /\ snap' = [snap EXCEPT ![r] = s]
    BY <1>4 DEF ApplyToSnapshot
  <2>2. s \in Snapshots /\ s.v = ver[r] + 1
    BY <1>1, ApplyOpType
  <2> HIDE DEF s
  <2>3. TypeOK'
    BY <1>2, <1>3, <2>1, <2>2 DEF TypeOK, Active
  <2>4. /\ pc'[r] = "commit" /\ snap'[r] = s
        /\ \A q \in Requests \ {r} : pc'[q] = pc[q] /\ snap'[q] = snap[q]
    BY <2>1 DEF TypeOK
  <2>5. Control(r)' /\ NotPassed(r)' /\ Placed(r)'
    BY <1>1, <1>2, <2>2, <2>4 DEF RequestInv, Control, NotPassed, Placed
  <2>6. Fresh(r)'
    <3>1. GetSnapshot' = GetSnapshot
      BY <1>2 DEF GetSnapshot
    <3>2. ASSUME s.v = Len(log) + 1
          PROVE  s = ApplyOp(GetSnapshot, op[r], ver[r]) /\ CanApply(Kind[op[r]], row.exists)
      <4>1. snap[r].v = Len(log)
        BY <1>1, <2>2, <3>2, LogType
      <4>2. snap[r] = GetSnapshot
        BY <1>1, <4>1 DEF RequestInv, Fresh
      <4> QED BY <1>4, <4>2, GetSnapshotType DEF s
    <3> QED BY <1>2, <2>4, <3>1, <3>2 DEF Fresh
  <2> QED BY <1>2, <2>3, <2>4, <2>5, <2>6, LocalStep DEF RequestInv
<1>5. CASE ~CanApply(Kind[op[r]], snap[r].exists)
  <2>1. Answer(r, "refused") /\ snap' = snap
    BY <1>5 DEF ApplyToSnapshot
  <2>2. /\ pc' \in [Requests -> {"idle"} \cup Active \cup Final]
        /\ pc'[r] \in Final
        /\ \A q \in Requests \ {r} : pc'[q] = pc[q]
    BY <2>1, AnswerEnds DEF Final
  <2>3. TypeOK'
    BY <1>2, <1>3, <2>1, <2>2 DEF TypeOK
  <2>4. Placed(r)'
    BY <2>1 DEF Answer, Placed, TypeOK
  <2>5. RequestInv(r)'
    BY <1>1, <1>2, <2>2, <2>4, FinishedInv
  <2> QED BY <1>2, <2>1, <2>2, <2>3, <2>5, LocalStep
<1> QED BY <1>4, <1>5

(* The steps after which only the request's place and counters differ.     *)
LEMMA EndingStep ==
    ASSUME IInv, NEW r \in Requests, pc[r] \in Active,
           UNCHANGED <<log, row, op, last, origin, current, ver, base, snap,
                       ops, comp>>,
           fix' \in [Requests -> Nat], tries' \in [Requests -> Nat],
           \/ \E how \in Final \ {"acked"} : Answer(r, how)
           \/ pc' = [pc EXCEPT ![r] = "lost"]
    PROVE  IInv'
<1> USE DEF IInv
<1>1. /\ op[r] \in Ops /\ last[op[r]] # Unsent /\ ver[r] <= Len(log)
  BY DEF RequestInv, Control, Active
<1>2. /\ pc' \in [Requests -> {"idle"} \cup Active \cup Final]
      /\ pc'[r] \in Final \ {"acked"}
      /\ \A q \in Requests \ {r} : pc'[q] = pc[q]
  <2>1. CASE pc' = [pc EXCEPT ![r] = "lost"]
    BY <2>1 DEF TypeOK, Final
  <2>2. ASSUME NEW how \in Final \ {"acked"}, Answer(r, how)
        PROVE  <1>2!1 /\ <1>2!2 /\ <1>2!3
    BY <2>2 DEF TypeOK, Answer, Final
  <2> QED BY <2>1, <2>2
<1>3. TypeOK'
  BY <1>2 DEF TypeOK
<1>4. Placed(r)'
  BY <1>2 DEF Placed, Final
<1>5. RequestInv(r)'
  BY <1>1, <1>2, <1>4, FinishedInv
<1> QED BY <1>2, <1>3, <1>5, LocalStep

LEMMA RejectInv ==
    ASSUME IInv, NEW r \in Requests, Reject(r)
    PROVE  IInv'
<1>1. fix' \in [Requests -> Nat] /\ tries' \in [Requests -> Nat]
  BY DEF Reject, IInv, TypeOK
<1>2. pc[r] \in Active /\ \E how \in Final \ {"acked"} : Answer(r, how)
  BY DEF Reject, Active, Final
<1> QED BY <1>1, <1>2, EndingStep DEF Reject

LEMMA LoseInv ==
    ASSUME IInv, NEW r \in Requests, Lose(r)
    PROVE  IInv'
<1>1. fix' \in [Requests -> Nat] /\ tries' \in [Requests -> Nat]
  BY DEF Lose, IInv, TypeOK
<1> QED BY <1>1, EndingStep DEF Lose

LEMMA CommitLosesInv ==
    ASSUME IInv, NEW r \in Requests, CommitLoses(r)
    PROVE  IInv'
<1> USE DEF IInv
<1>1. /\ pc[r] = "commit" /\ op[r] \in Ops /\ last[op[r]] # Unsent
      /\ RequestInv(r)
      /\ ver[r] \in Nat /\ ver[r] <= Len(log)
  BY DEF CommitLoses, RequestInv, Control
<1>2. /\ UNCHANGED <<log, row, op, last, origin, current, ver, base, snap,
                     ops, comp, fix>>
      /\ tries' \in [Requests -> Nat]
  BY DEF CommitLoses, TypeOK
<1>3. CASE Answer(r, "refused")
  <2>1. pc[r] \in Active /\ \E how \in Final \ {"acked"} : Answer(r, how)
    BY <1>1, <1>3 DEF Active, Final
  <2>2. fix' \in [Requests -> Nat]
    BY <1>2 DEF TypeOK
  <2> QED BY <1>2, <2>1, <2>2, EndingStep
<1>4. CASE pc' = [pc EXCEPT ![r] = "read"]
  <2>1. TypeOK'
    BY <1>2, <1>4 DEF TypeOK, Active
  <2>2. pc'[r] = "read" /\ \A q \in Requests \ {r} : pc'[q] = pc[q]
    BY <1>4 DEF TypeOK
  <2>3. RequestInv(r)'
    BY <1>1, <1>2, <2>2 DEF RequestInv, Control, NotPassed, Fresh, Placed, NullV
  <2> QED BY <1>2, <2>1, <2>2, <2>3, LocalStep
<1> QED BY <1>3, <1>4 DEF CommitLoses

LEMMA PublishInv ==
    ASSUME IInv, NEW r \in Requests, Publish(r)
    PROVE  IInv'
<1> USE DEF IInv
<1>1. /\ pc[r] = "publish" /\ op[r] \in Ops /\ last[op[r]] # Unsent
      /\ RequestInv(r) /\ ver[r] <= Len(log)
      /\ UNCHANGED <<log, row, op, last, origin, current, ver, base, snap, ops,
                     tries, comp, fix>>
      /\ Answer(r, "acked")
  BY DEF Publish, RequestInv, Control
<1>2. /\ pc' \in [Requests -> {"idle"} \cup Active \cup Final]
      /\ pc'[r] \in Final
      /\ \A q \in Requests \ {r} : pc'[q] = pc[q]
  BY <1>1, AnswerEnds DEF Final
<1>3. TypeOK'
  BY <1>1, <1>2 DEF TypeOK
<1>4. Placed(r)'
  BY <1>1 DEF RequestInv, Placed
<1>5. RequestInv(r)'
  BY <1>1, <1>2, <1>4, FinishedInv
<1> QED BY <1>1, <1>2, <1>3, <1>5, LocalStep

(* The one step that changes the database.                                 *)
LEMMA CommitWinsInv ==
    ASSUME IInv, NEW r \in Requests, CommitWins(r)
    PROVE  IInv'
<1> USE DEF IInv
<1> DEFINE n == Len(log)
           e == [id |-> op[r], comp |-> comp[r], fixup |-> fix[r]]
<1>1. /\ pc[r] = "commit" /\ op[r] \in Ops /\ last[op[r]] # Unsent
      /\ RequestInv(r) /\ snap[r] \in Snapshots
      /\ n \in Nat /\ snap[r].v = n + 1 /\ ver[r] = n
      /\ e \in Entries
  BY LogType DEF CommitWins, RequestInv, Control, TypeOK, Entries
<1>2. /\ UNCHANGED <<op, last, origin, current, ver, base, snap, ops, tries,
                     comp, fix>>
      /\ log' = Append(log, e) /\ row' = Stored(snap[r])
      /\ pc' = [pc EXCEPT ![r] = "publish"]
  BY DEF CommitWins
<1>3. /\ log' \in Seq(Entries) /\ Len(log') = n + 1
      /\ log'[n + 1] = e /\ e.id = op[r]
      /\ \A i \in 1..n : log'[i] = log[i]
  <2>1. log \in Seq(Entries)
    BY DEF TypeOK, Entries
  <2> QED BY <1>1, <1>2, <2>1
<1> HIDE DEF e, n
<1>4. /\ Stored(snap[r]) \in Snapshots
      /\ row'.exists => row' = snap[r]
      /\ row'.exists = snap[r].exists
  BY <1>1, <1>2, StoredType
<1>5. TypeOK'
  BY <1>2, <1>3, <1>4 DEF TypeOK, Active, Entries
<1>6. /\ pc'[r] = "publish"
      /\ \A q \in Requests \ {r} : pc'[q] = pc[q]
  BY <1>2 DEF TypeOK
<1>7. /\ snap[r] = ApplyOp(GetSnapshot, op[r], ver[r])
      /\ CanApply(Kind[op[r]], row.exists)
  BY <1>1 DEF RequestInv, Fresh, n
<1>8. /\ GetSnapshot \in Snapshots /\ GetSnapshot.v = n
      /\ GetSnapshot.exists = row.exists
      /\ row.exists => GetSnapshot = row
  BY GetSnapshotType DEF GetSnapshot, n
<1>9. \A i \in 1..n : log[i].id # op[r]
  BY <1>1 DEF RequestInv, NotPassed
<1>10. ExactlyOnce'
  BY <1>1, <1>3, <1>9 DEF ExactlyOnce, n
<1>11. SentInv'
  <2>1. \A i \in 1..n : last[log[i].id] # Unsent
    BY DEF SentInv, n
  <2> QED BY <1>1, <1>2, <1>3, <2>1 DEF SentInv
<1>12. row'.exists = ExistsAfter(Kind[op[r]], row.exists)
  BY <1>1, <1>4, <1>7, <1>8, ApplyOpType
<1>13. CreatedExists'
  <2> SUFFICES ASSUME \A o \in Ops : Kind[o] # "del",
                      NEW i \in 1..n + 1, Kind[log'[i].id] = "create"
               PROVE  row'.exists
    BY <1>3 DEF CreatedExists
  <2>1. CASE Kind[op[r]] = "create"
    BY <1>12, <2>1 DEF ExistsAfter
  <2>2. CASE Kind[op[r]] # "create"
    <3>1. i \in 1..n
      BY <1>1, <1>3, <2>2
    <3>2. row.exists
      BY <1>3, <3>1 DEF CreatedExists, n
    <3>3. Kind[op[r]] \in {"edit", "noop"}
      BY <1>1, <2>2, KindAssumption DEF Kinds
    <3> QED BY <1>12, <3>2, <3>3 DEF ExistsAfter
  <2> QED BY <2>1, <2>2
<1>14. RowInv'
  <2> SUFFICES ASSUME row'.exists
               PROVE  /\ row'.v = n + 1
                      /\ row'.create[2] + 1 \in 1..n + 1
                      /\ log'[row'.create[2] + 1].id = row'.create[1]
    BY <1>3 DEF RowInv
  <2>1. row' = snap[r]
    BY <1>4
  <2>2. CASE Kind[op[r]] = "create"
    <3>1. row'.create = <<op[r], n>>
      BY <1>1, <1>7, <2>1, <2>2 DEF ApplyOp
    <3> QED BY <1>1, <1>3, <2>1, <3>1
  <2>3. CASE Kind[op[r]] # "create"
    <3>1. row.exists
      BY <1>12, <2>3 DEF ExistsAfter
    <3>2. row'.create = row.create
      BY <1>7, <1>8, <2>1, <2>3, <3>1 DEF ApplyOp
    <3>3. /\ row.create[2] + 1 \in 1..n
          /\ log[row.create[2] + 1].id = row.create[1]
      BY <3>1 DEF RowInv, n
    <3> QED BY <1>1, <1>3, <2>1, <3>2, <3>3
  <2> QED BY <2>2, <2>3
<1>15. ASSUME NEW q \in Requests PROVE RequestInv(q)'
  <2>1. CASE q = r
    <3>1. Control(r)' /\ NotPassed(r)' /\ Fresh(r)'
      BY <1>1, <1>2, <1>3, <1>6 DEF Control, NotPassed, Fresh
    <3>2. Placed(r)'
      BY <1>1, <1>2, <1>3, <1>6 DEF Placed
    <3> QED BY <2>1, <3>1, <3>2 DEF RequestInv
  <2>2. CASE q # r
    <3>1. RequestInv(q) /\ pc'[q] = pc[q] /\ ver[q] \in Nat \cup {NullV}
          /\ snap[q] \in Snapshots
      BY <1>6, <2>2 DEF TypeOK
    <3>2. Control(q)'
      BY <1>1, <1>2, <1>3, <3>1 DEF RequestInv, Control, NullV, n, Snapshots
    <3>3. NotPassed(q)'
      <4>1. ver[q] <= n
        BY <3>1 DEF RequestInv, Control, n
      <4>2. \A i \in 1..ver[q] : i \in 1..n
        BY <1>1, <3>1, <4>1 DEF NullV
      <4> QED BY <1>2, <1>3, <3>1, <4>2 DEF RequestInv, NotPassed
    <3>4. Placed(q)'
      <4>1. pc[q] \in {"publish", "acked"} =>
               ver[q] + 1 \in 1..n /\ log[ver[q] + 1].id = op[q]
        BY <3>1 DEF RequestInv, Placed, n
      <4>2. ver[q] + 1 \in 1..n => ver[q] + 1 \in 1..n + 1
        BY <1>1
      <4> QED BY <1>2, <1>3, <3>1, <4>1, <4>2 DEF Placed
    <3>5. Fresh(q)'
      \* The log has outgrown every other snapshot.
      <4>1. /\ pc[q] \in {"getops", "apply"} => snap[q].v <= n
            /\ pc[q] = "commit" => snap[q].v <= n + 1
        BY <1>1, <3>1 DEF RequestInv, Control, n, NullV
      <4> QED BY <1>1, <1>2, <1>3, <3>1, <4>1 DEF Fresh, Snapshots
    <3> QED BY <3>2, <3>3, <3>4, <3>5 DEF RequestInv
  <2> QED BY <2>1, <2>2
<1> QED BY <1>5, <1>10, <1>11, <1>13, <1>14, <1>15

-----------------------------------------------------------------------------
(* Every step of the specification keeps the invariant.                    *)
LEMMA NextInv ==
    ASSUME IInv, SafeNulls, [Next]_vars
    PROVE  IInv'
<1>1. CASE UNCHANGED vars
  BY <1>1 DEF vars, IInv, TypeOK, RequestInv, Control, NotPassed, Fresh, Placed,
              SentInv, RowInv, CreatedExists, ExactlyOnce, GetSnapshot
<1>2. CASE Next
  <2> SUFFICES ASSUME NEW r \in Requests,
                      \/ \E o \in Ops : \E v \in NullV..Len(log) : Receive(r, o, v)
                      \/ Step(r)
                      \/ Lose(r)
               PROVE  IInv'
    BY <1>2 DEF Next
  <2> QED BY ReceiveInv, ReadSnapshotInv, GetOpsInv, ApplyToSnapshotInv, RejectInv,
             CommitWinsInv, CommitLosesInv, PublishInv, LoseInv DEF Step
<1> QED BY <1>1, <1>2

THEOREM Invariance == ASSUME SafeNulls PROVE Spec => []IInv
<1>1. IInv /\ [Next]_vars => IInv'
  BY NextInv
<1> QED BY InitInv, <1>1, PTL DEF Spec

(* The fields of the database and of every request keep the types their    *)
(* constructors give them, through every retry and crash.                  *)
THEOREM TypeCorrect == ASSUME SafeNulls PROVE Spec => []TypeOK
<1>1. IInv => TypeOK
  BY DEF IInv
<1> QED BY Invariance, <1>1, PTL

(* No op is committed twice (submit-request.js: "It's important we don't   *)
(* apply the same op twice"), for any number of concurrent requests,       *)
(* resendings, retries and crashes, as long as no document created by an   *)
(* op without a version is deleted.                                        *)
THEOREM ExactlyOnceCorrect == ASSUME SafeNulls PROVE Spec => []ExactlyOnce
<1>1. IInv => ExactlyOnce
  BY DEF IInv
<1> QED BY Invariance, <1>1, PTL

(* Every acknowledgement names the place of its op in the log, whether the *)
(* request committed it or found it committed.                             *)
THEOREM AckNamesCommitCorrect == ASSUME SafeNulls PROVE Spec => []AckNamesCommit
<1>1. IInv => AckNamesCommit
  BY DEF IInv, RequestInv, Placed, AckNamesCommit
<1> QED BY Invariance, <1>1, PTL

-----------------------------------------------------------------------------
(* What Submit's requests carry and leave behind: the row of the database, *)
(* the ops a request sends back to its client, and the fixups of its       *)
(* acknowledgement.  Each is an invariant relative to IInv.                *)

(* What the actions of one request may do to the state of the others and   *)
(* to the log: nothing, but for an entry at its end.                       *)
RequestStep(r) ==
    \/ \E o \in Ops : \E v \in NullV..Len(log) : Receive(r, o, v)
    \/ Step(r)
    \/ Lose(r)

OthersUnchanged(r) ==
    \A q \in Requests \ {r} :
        /\ pc'[q] = pc[q] /\ op'[q] = op[q] /\ ver'[q] = ver[q]
        /\ base'[q] = base[q] /\ ops'[q] = ops[q] /\ tries'[q] = tries[q]
        /\ comp'[q] = comp[q] /\ fix'[q] = fix[q]

LEMMA AnswerFrame ==
    ASSUME TypeOK, NEW r \in Requests, NEW how, Answer(r, how)
    PROVE  /\ pc'[r] \in {how, "dropped"}
           /\ \A q \in Requests \ {r} : pc'[q] = pc[q]
BY DEF TypeOK, Answer

LEMMA StepFrame ==
    ASSUME TypeOK, NEW r \in Requests, RequestStep(r)
    PROVE  OthersUnchanged(r)
<1>1. ASSUME NEW o \in Ops, NEW v \in NullV..Len(log), Receive(r, o, v)
      PROVE  OthersUnchanged(r)
  BY <1>1 DEF TypeOK, Receive, OthersUnchanged
<1>2. CASE ReadSnapshot(r)
  <2>1. \A q \in Requests \ {r} : pc'[q] = pc[q] /\ ver'[q] = ver[q]
                                   /\ base'[q] = base[q]
    <3>1. CASE ReadExistingForCreate(r)
      BY <3>1, AnswerFrame DEF ReadExistingForCreate, TypeOK
    <3>2. CASE ReadVersion(r)
      BY <3>2, AnswerFrame DEF ReadVersion, TypeOK
    <3> QED BY <1>2, <3>1, <3>2 DEF ReadSnapshot
  <2> QED BY <1>2, <2>1 DEF ReadSnapshot, OthersUnchanged
<1>3. CASE GetOps(r)
  <2>1. \A q \in Requests \ {r} : pc'[q] = pc[q] /\ ver'[q] = ver[q]
                                   /\ ops'[q] = ops[q] /\ fix'[q] = fix[q]
    <3>1. CASE TransformThrough(r)
      BY <3>1, AnswerFrame DEF TransformThrough, TypeOK
    <3>2. ASSUME NEW i \in 1..Len(log), TransformStopped(r, i)
          PROVE  <2>1
      BY <3>2, AnswerFrame DEF TransformStopped, TypeOK
    <3> QED BY <1>3, <3>1, <3>2 DEF GetOps
  <2> QED BY <1>3, <2>1 DEF GetOps, OthersUnchanged
<1>4. ASSUME NEW n \in 0..1, ApplyToSnapshot(r, n)
      PROVE  OthersUnchanged(r)
  <2>1. \A q \in Requests \ {r} : pc'[q] = pc[q]
    BY <1>4, AnswerFrame DEF ApplyToSnapshot, TypeOK
  <2> QED BY <1>4, <2>1 DEF ApplyToSnapshot, OthersUnchanged, TypeOK
<1>5. CASE Reject(r)
  <2>1. \A q \in Requests \ {r} : pc'[q] = pc[q]
    BY <1>5, AnswerFrame DEF Reject
  <2> QED BY <1>5, <2>1 DEF Reject, OthersUnchanged, TypeOK
<1>6. CASE CommitWins(r)
  BY <1>6 DEF CommitWins, OthersUnchanged, TypeOK
<1>7. CASE CommitLoses(r)
  <2>1. \A q \in Requests \ {r} : pc'[q] = pc[q]
    BY <1>7, AnswerFrame DEF CommitLoses, TypeOK
  <2> QED BY <1>7, <2>1 DEF CommitLoses, OthersUnchanged, TypeOK
<1>8. CASE Publish(r)
  <2>1. \A q \in Requests \ {r} : pc'[q] = pc[q]
    BY <1>8, AnswerFrame DEF Publish
  <2> QED BY <1>8, <2>1 DEF Publish, OthersUnchanged
<1>9. CASE Lose(r)
  BY <1>9 DEF Lose, OthersUnchanged, TypeOK
<1> QED BY <1>1, <1>2, <1>3, <1>4, <1>5, <1>6, <1>7, <1>8, <1>9
        DEF RequestStep, Step

(* Only a commit touches the database, and it adds one entry to the log.   *)
LEMMA CommitAppends ==
    ASSUME IInv, NEW r \in Requests, CommitWins(r)
    PROVE  /\ Len(log) \in Nat /\ Len(log') = Len(log) + 1
           /\ log'[Len(log) + 1].id = op[r]
           /\ log'[Len(log) + 1].comp = comp[r]
           /\ log'[Len(log) + 1].fixup = fix[r]
           /\ \A i \in 1..Len(log) : log'[i] = log[i]
           /\ ver[r] = Len(log) /\ op[r] \in Ops /\ pc[r] = "commit"
<1> DEFINE e == [id |-> op[r], comp |-> comp[r], fixup |-> fix[r]]
<1>1. /\ pc[r] = "commit" /\ op[r] \in Ops /\ snap[r].v = ver[r] + 1
      /\ ver[r] \in Nat
      /\ snap[r].v = Len(log) + 1 /\ Len(log) \in Nat
  BY LogType DEF CommitWins, IInv, RequestInv, Control
<1>2. e \in Entries /\ log \in Seq(Entries) /\ log' = Append(log, e)
  BY <1>1 DEF CommitWins, IInv, TypeOK, Entries
<1> HIDE DEF e
<1>3. Len(log') = Len(log) + 1 /\ log'[Len(log) + 1] = e
      /\ \A i \in 1..Len(log) : log'[i] = log[i]
  BY <1>1, <1>2
<1> QED BY <1>1, <1>3 DEF e

LEMMA OnlyCommitsWrite ==
    ASSUME NEW r \in Requests, RequestStep(r), ~CommitWins(r)
    PROVE  UNCHANGED <<log, row>>
BY DEF RequestStep, Step, Receive, ReadSnapshot, GetOps, ApplyToSnapshot,
       Reject, CommitLoses, Publish, Lose

LEMMA NextIsRequestStep ==
    ASSUME Next
    PROVE  \E r \in Requests : RequestStep(r)
BY DEF Next, RequestStep

-----------------------------------------------------------------------------
(* The document in the first n entries of a log: does it exist, and which  *)
(* edits is it made of?                                                    *)
Created(l, n) ==
    \E i \in 1..n :
        /\ Kind[l[i].id] = "create"
        /\ \A j \in i + 1 .. n : Kind[l[j].id] # "del"

IsLive(l, n, k) ==
    /\ Kind[l[k].id] = "edit"
    /\ \A j \in k + 1 .. n : Kind[l[j].id] \notin {"create", "del"}

Edits(l, n) == {l[i].id : i \in {k \in 1..n : IsLive(l, n, k)}}

(* One more op changes both the way ot.apply changes a snapshot.           *)
LEMMA CreatedAfter ==
    ASSUME NEW n \in Nat, NEW o \in Ops,
           log'[n + 1].id = o, \A i \in 1..n : log'[i] = log[i]
    PROVE  Created(log', n + 1) = ExistsAfter(Kind[o], Created(log, n))
<1>0. Kind[o] \in Kinds
  BY KindAssumption
<1>1. CASE Kind[o] = "create"
  <2>1. \A j \in (n + 1) + 1 .. n + 1 : FALSE
    OBVIOUS
  <2>2. Created(log', n + 1)
    BY <1>1, <2>1 DEF Created
  <2> QED BY <1>1, <2>2 DEF ExistsAfter
<1>2. CASE Kind[o] = "del"
  <2>1. \A i \in 1..n + 1 : Kind[log'[i].id] = "create" => n + 1 \in i + 1 .. n + 1
    <3> SUFFICES ASSUME NEW i \in 1..n + 1, Kind[log'[i].id] = "create"
                 PROVE  n + 1 \in i + 1 .. n + 1
      OBVIOUS
    <3>1. i # n + 1
      BY <1>2
    <3> QED BY <3>1
  <2>2. ~Created(log', n + 1)
    BY <1>2, <2>1 DEF Created
  <2>3. ~ExistsAfter(Kind[o], Created(log, n))
    BY <1>2 DEF ExistsAfter
  <2> QED BY <2>2, <2>3, Zenon DEF ExistsAfter, Created
<1>3. CASE Kind[o] \in {"edit", "noop"}
  <2>1. ASSUME Created(log, n) PROVE Created(log', n + 1)
    <3>1. PICK i \in 1..n : /\ Kind[log[i].id] = "create"
                            /\ \A j \in i + 1 .. n : Kind[log[j].id] # "del"
      BY <2>1 DEF Created
    <3>2. \A j \in i + 1 .. n + 1 : Kind[log'[j].id] # "del"
      <4> TAKE j \in i + 1 .. n + 1
      <4>1. CASE j = n + 1
        BY <1>3, <4>1
      <4>2. CASE j # n + 1
        BY <3>1, <4>2
      <4> QED BY <4>1, <4>2
    <3>3. i \in 1..n + 1 /\ Kind[log'[i].id] = "create"
      BY <3>1
    <3> QED BY <3>2, <3>3 DEF Created
  <2>2. ASSUME Created(log', n + 1) PROVE Created(log, n)
    <3>1. PICK i \in 1..n + 1 : /\ Kind[log'[i].id] = "create"
                                /\ \A j \in i + 1 .. n + 1 : Kind[log'[j].id] # "del"
      BY <2>2 DEF Created
    <3>2. i \in 1..n
      BY <1>3, <3>1
    <3>3. \A j \in i + 1 .. n : Kind[log[j].id] # "del"
      BY <3>1, <3>2
    <3> QED BY <3>1, <3>2, <3>3 DEF Created
  <2>3. ExistsAfter(Kind[o], Created(log, n)) <=> Created(log, n)
    BY <1>3 DEF ExistsAfter
  <2>4. Created(log, n) \in BOOLEAN /\ Created(log', n + 1) \in BOOLEAN
        /\ ExistsAfter(Kind[o], Created(log, n)) \in BOOLEAN
    BY DEF Created, ExistsAfter
  <2> QED BY <2>1, <2>2, <2>3, <2>4
<1> QED BY <1>0, <1>1, <1>2, <1>3 DEF Kinds

LEMMA EditsAfter ==
    ASSUME NEW n \in Nat, NEW o \in Ops,
           log'[n + 1].id = o, \A i \in 1..n : log'[i] = log[i]
    PROVE  \A x : x \in Edits(log', n + 1) <=>
                     \/ Kind[o] = "edit" /\ x = o
                     \/ Kind[o] \in {"edit", "noop"} /\ x \in Edits(log, n)
<1>0. Kind[o] \in Kinds
  BY KindAssumption
<1>1. IsLive(log', n + 1, n + 1) <=> Kind[o] = "edit"
  BY DEF IsLive
<1>2. ASSUME NEW k \in 1..n
      PROVE  IsLive(log', n + 1, k) <=> IsLive(log, n, k) /\ Kind[o] \notin {"create", "del"}
  <2>1. log'[k] = log[k] /\ \A j \in k + 1 .. n : log'[j] = log[j]
    OBVIOUS
  <2>2. n + 1 \in k + 1 .. n + 1
    OBVIOUS
  <2>3. \A j \in k + 1 .. n + 1 : j = n + 1 \/ j \in k + 1 .. n
    OBVIOUS
  <2>4. \A j \in k + 1 .. n : j \in k + 1 .. n + 1
    OBVIOUS
  <2> QED BY <2>1, <2>2, <2>3, <2>4 DEF IsLive
<1>3. \A k \in 1..n + 1 : k = n + 1 \/ k \in 1..n
  OBVIOUS
<1>4. \A k \in 1..n : k \in 1..n + 1
  OBVIOUS
<1>5. CASE Kind[o] = "edit"
  BY <1>1, <1>2, <1>3, <1>4, <1>5 DEF Edits
<1>6. CASE Kind[o] = "noop"
  BY <1>1, <1>2, <1>3, <1>4, <1>6 DEF Edits
<1>7. CASE Kind[o] \in {"create", "del"}
  BY <1>1, <1>2, <1>3, <1>7 DEF Edits
<1> QED BY <1>0, <1>5, <1>6, <1>7 DEF Kinds

(* The row and the log, in these terms.                                    *)
LEMMA SnapshotMeans ==
    SnapshotMatchesLog <=>
        /\ row.exists = Created(log, Len(log))
        /\ row.exists => row.v = Len(log) /\ row.data = Edits(log, Len(log))
BY DEF SnapshotMatchesLog, ExistsAt, LiveEdits, Created, Edits, IsLive

LEMMA CommitKeepsSnapshot ==
    ASSUME IInv, IInv', SnapshotMatchesLog, NEW r \in Requests, CommitWins(r)
    PROVE  SnapshotMatchesLog'
<1> DEFINE n == Len(log)
           o == op[r]
<1>1. /\ n \in Nat /\ Len(log') = n + 1 /\ log'[n + 1].id = o
      /\ \A i \in 1..n : log'[i] = log[i]
      /\ ver[r] = n /\ o \in Ops
  BY CommitAppends
<1>2. /\ snap[r] = ApplyOp(GetSnapshot, o, n) /\ CanApply(Kind[o], row.exists)
      /\ row' = Stored(snap[r]) /\ snap[r] \in Snapshots
  BY <1>1 DEF IInv, RequestInv, Fresh, CommitWins, TypeOK
<1>3. /\ GetSnapshot \in Snapshots /\ GetSnapshot.v = n
      /\ GetSnapshot.exists = row.exists
      /\ row.exists => GetSnapshot = row
  BY GetSnapshotType DEF IInv, GetSnapshot
<1>4. row.exists = Created(log, n) /\ (row.exists => row.data = Edits(log, n))
  BY SnapshotMeans
<1> HIDE DEF n, o
<1>5. /\ row'.exists = ExistsAfter(Kind[o], row.exists)
      /\ row'.exists => row' = snap[r] /\ snap[r].v = n + 1
  <2>1. /\ snap[r].v = n + 1
        /\ snap[r].exists = ExistsAfter(Kind[o], row.exists)
    BY <1>1, <1>2, <1>3, ApplyOpType
  <2> QED BY <1>2, <2>1, StoredType
<1>6. row'.exists = Created(log', n + 1)
  BY <1>1, <1>4, <1>5, CreatedAfter
<1>7. ASSUME row'.exists PROVE row'.data = Edits(log', n + 1)
  <2>1. \A x : x \in Edits(log', n + 1) <=>
                 \/ Kind[o] = "edit" /\ x = o
                 \/ Kind[o] \in {"edit", "noop"} /\ x \in Edits(log, n)
    BY <1>1, EditsAfter
  <2>2. /\ Kind[o] = "edit" => row'.data = GetSnapshot.data \cup {o}
        /\ Kind[o] = "noop" => row'.data = GetSnapshot.data
        /\ Kind[o] \in {"create", "del"} => row'.data = {}
    BY <1>2, <1>5, <1>7 DEF ApplyOp
  <2>3. Kind[o] \in {"edit", "noop"} => GetSnapshot.data = Edits(log, n)
    BY <1>3, <1>4, <1>5, <1>7 DEF ExistsAfter
  <2>4. Kind[o] \in {"create", "edit", "del", "noop"}
    BY <1>1, KindAssumption DEF Kinds
  <2> QED BY <2>1, <2>2, <2>3, <2>4
<1>8. ExistsAt(Len(log))' = Created(log', n + 1)
  BY <1>1 DEF ExistsAt, Created
<1>9. LiveEdits' = Edits(log', n + 1)
  BY <1>1 DEF LiveEdits, Edits, IsLive
<1> QED BY <1>1, <1>5, <1>6, <1>7, <1>8, <1>9 DEF SnapshotMatchesLog

(* The row that the concurrent commits leave is always the one the log     *)
(* describes (SubmitRequest.commit, MemoryDB.commit).                      *)
THEOREM SnapshotMatchesLogCorrect ==
    ASSUME SafeNulls PROVE Spec => []SnapshotMatchesLog
<1>1. Init => SnapshotMatchesLog
  BY DEF Init, SnapshotMatchesLog, NoRow, ExistsAt
<1>2. IInv /\ IInv' /\ SnapshotMatchesLog /\ [Next]_vars => SnapshotMatchesLog'
  <2> SUFFICES ASSUME IInv, IInv', SnapshotMatchesLog, [Next]_vars
               PROVE  SnapshotMatchesLog'
    OBVIOUS
  <2>1. CASE UNCHANGED <<log, row>>
    <3>1. ExistsAt(Len(log))' = ExistsAt(Len(log)) /\ LiveEdits' = LiveEdits
      BY <2>1, Zenon DEF ExistsAt, LiveEdits
    <3> QED BY <2>1, <3>1 DEF SnapshotMatchesLog
  <2>2. CASE Next
    <3>1. PICK r \in Requests : RequestStep(r)
      BY <2>2, NextIsRequestStep
    <3> QED BY <2>1, <3>1, CommitKeepsSnapshot, OnlyCommitsWrite
  <2> QED BY <2>1, <2>2 DEF vars
<1> QED BY Invariance, <1>1, <1>2, PTL DEF Spec

-----------------------------------------------------------------------------
(* The ops a request carries reach from the version its op was made at to  *)
(* the version it has now, at every point of its life.                     *)
Gap(r) ==
    /\ pc[r] = "idle" => ops[r] = <<>>
    /\ pc[r] = "read" /\ ver[r] = NullV => base[r] = NullV /\ ops[r] = <<>>
    /\ \/ pc[r] \in {"getops", "apply", "commit", "publish"}
       \/ pc[r] = "read" /\ ver[r] # NullV
       =>
       /\ base[r] \in Nat /\ base[r] <= ver[r]
       /\ ops[r] = Ids(log, base[r], ver[r])

LEMMA IdsNone ==
    ASSUME NEW l, NEW v \in Nat
    PROVE  Ids(l, v, v) = <<>>
<1>1. Ids(l, v, v) = [i \in {} |-> l[v + i].id]
  <2>1. 1..(v - v) = {}
    OBVIOUS
  <2> QED BY <2>1 DEF Ids
<1> QED BY <1>1

LEMMA IdsConcat ==
    ASSUME TypeOK, NEW a \in Nat, NEW b \in Nat, NEW c \in Nat,
           a <= b, b <= c, c <= Len(log)
    PROVE  Ids(log, a, b) \o Ids(log, b, c) = Ids(log, a, c)
<1> DEFINE s == Ids(log, a, b)
           t == Ids(log, b, c)
           u == Ids(log, a, c)
<1>0. Len(log) \in Nat
  BY LogType
<1>1. /\ s \in Seq(Ops) /\ Len(s) = b - a
      /\ t \in Seq(Ops) /\ Len(t) = c - b
      /\ u \in Seq(Ops) /\ Len(u) = c - a
  <2>1. a <= c /\ b <= Len(log)
    BY <1>0
  <2>2. s \in Seq(Ops) /\ Len(s) = b - a
    BY <2>1, IdsType
  <2>3. t \in Seq(Ops) /\ Len(t) = c - b
    BY IdsType
  <2>4. u \in Seq(Ops) /\ Len(u) = c - a
    BY <2>1, IdsType
  <2> QED BY <2>2, <2>3, <2>4
<1>2. /\ \A i \in 1..(b - a) : s[i] = log[a + i].id
      /\ \A i \in 1..(c - b) : t[i] = log[b + i].id
      /\ \A i \in 1..(c - a) : u[i] = log[a + i].id
  BY DEF Ids
<1> HIDE DEF s, t, u
<1>3. /\ s \o t \in Seq(Ops) /\ Len(s \o t) = c - a
      /\ \A i \in 1..(c - a) : (s \o t)[i] = IF i <= b - a THEN s[i] ELSE t[i - (b - a)]
  <2>1. Len(s) + Len(t) = c - a
    BY <1>1
  <2>2. /\ s \o t \in Seq(Ops) /\ Len(s \o t) = Len(s) + Len(t)
        /\ \A i \in 1..Len(s) + Len(t) :
              (s \o t)[i] = IF i <= Len(s) THEN s[i] ELSE t[i - Len(s)]
    BY <1>1, ConcatProperties
  <2> QED BY <1>1, <2>1, <2>2
<1>4. \A i \in 1..(c - a) : (s \o t)[i] = u[i]
  <2> TAKE i \in 1..(c - a)
  <2>1. CASE i <= b - a
    <3>1. i \in 1..(b - a)
      BY <2>1
    <3> QED BY <1>2, <1>3, <2>1, <3>1
  <2>2. CASE ~(i <= b - a)
    <3>1. i - (b - a) \in 1..(c - b) /\ b + (i - (b - a)) = a + i
      BY <2>2
    <3> QED BY <1>2, <1>3, <2>2, <3>1
  <2> QED BY <2>1, <2>2
<1>5. s \o t = u
  BY <1>1, <1>3, <1>4, SeqEqual
<1> QED BY <1>5 DEF s, t, u

LEMMA IdsStable ==
    ASSUME NEW n \in Nat, \A i \in 1..n : log'[i] = log[i],
           NEW a \in Nat, NEW b \in Nat, a <= b, b <= n
    PROVE  Ids(log', a, b) = Ids(log, a, b)
<1>1. \A i \in 1..(b - a) : a + i \in 1..n
  OBVIOUS
<1> QED BY <1>1 DEF Ids

(* A request keeps its part when the others take a step.                   *)
LEMMA GapOfOthers ==
    ASSUME IInv, NEW r \in Requests, RequestStep(r),
           NEW q \in Requests \ {r}, Gap(q)
    PROVE  Gap(q)'
<1>1. /\ pc'[q] = pc[q] /\ ver'[q] = ver[q] /\ base'[q] = base[q]
      /\ ops'[q] = ops[q]
  BY StepFrame DEF OthersUnchanged, IInv
<1>2. /\ ver[q] <= Len(log) /\ Len(log) \in Nat
      /\ ver[q] \in Nat \cup {NullV}
      /\ pc[q] \in {"getops", "apply", "commit", "publish"} => ver[q] \in Nat
  BY LogType DEF IInv, RequestInv, Control, TypeOK
<1>3. \A i \in 1..Len(log) : log'[i] = log[i]
  BY OnlyCommitsWrite, CommitAppends
<1>4. ASSUME base[q] \in Nat, ver[q] \in Nat, base[q] <= ver[q]
      PROVE  Ids(log', base[q], ver[q]) = Ids(log, base[q], ver[q])
  BY <1>2, <1>3, <1>4, IdsStable
<1> QED BY <1>1, <1>2, <1>4 DEF Gap

LEMMA GapOfReceive ==
    ASSUME IInv, NEW r \in Requests, NEW o \in Ops, NEW v \in NullV..Len(log),
           Receive(r, o, v), Gap(r)
    PROVE  Gap(r)'
<1>1. /\ pc'[r] = "read" /\ ver'[r] = v /\ base'[r] = v /\ ops'[r] = <<>>
      /\ log' = log /\ v \in Nat \cup {NullV}
  BY LogType DEF Receive, IInv, TypeOK, Gap, NullV
<1>2. v # NullV => Ids(log, v, v) = <<>>
  BY <1>1, IdsNone
<1> QED BY <1>1, <1>2 DEF Gap

LEMMA GapOfReadSnapshot ==
    ASSUME IInv, NEW r \in Requests, ReadSnapshot(r), Gap(r)
    PROVE  Gap(r)'
<1>1. /\ pc[r] = "read" /\ log' = log /\ ops' = ops
      /\ GetSnapshot.v \in Nat /\ ver[r] \in Nat \cup {NullV}
  BY GetSnapshotType DEF ReadSnapshot, IInv, TypeOK, Snapshots
<1>2. CASE ReadExistingForCreate(r)
  BY <1>2, AnswerFrame DEF ReadExistingForCreate, Gap, IInv
<1>3. CASE ReadVersion(r)
  <2> DEFINE v == IF ver[r] = NullV THEN GetSnapshot.v ELSE ver[r]
  <2>1. /\ ver'[r] = v /\ base'[r] = (IF base[r] = NullV THEN v ELSE base[r])
        /\ pc'[r] \in {"refused", "dropped", "apply", "getops"}
        /\ v \in Nat
    BY <1>1, <1>3, AnswerFrame DEF ReadVersion, IInv, TypeOK
  <2>2. CASE ver[r] = NullV
    BY <1>1, <2>1, <2>2, IdsNone DEF Gap
  <2>3. CASE ver[r] # NullV
    <3>1. base[r] # NullV
      BY <1>1, <2>3 DEF Gap, NullV
    <3> QED BY <1>1, <2>1, <2>3, <3>1 DEF Gap
  <2> QED BY <2>2, <2>3
<1> QED BY <1>2, <1>3 DEF ReadSnapshot

LEMMA GapOfGetOps ==
    ASSUME IInv, NEW r \in Requests, GetOps(r), Gap(r)
    PROVE  Gap(r)'
<1>1. /\ pc[r] = "getops" /\ log' = log /\ base' = base
      /\ base[r] \in Nat /\ ver[r] \in Nat /\ base[r] <= ver[r]
      /\ ops[r] = Ids(log, base[r], ver[r])
      /\ snap[r].v \in Nat /\ ver[r] <= snap[r].v /\ snap[r].v <= Len(log)
  BY LogType DEF GetOps, Gap, IInv, RequestInv, Control, TypeOK, Snapshots
<1>2. CASE TransformThrough(r)
  <2>1. /\ ver'[r] = snap[r].v
        /\ ops'[r] = ops[r] \o Ids(log, ver[r], snap[r].v)
        /\ pc'[r] \in {"skipped", "dropped", "apply"}
    BY <1>2, AnswerFrame DEF TransformThrough, IInv, TypeOK
  <2>2. ops'[r] = Ids(log, base[r], snap[r].v)
    <3>1. Ids(log, base[r], ver[r]) \o Ids(log, ver[r], snap[r].v) =
             Ids(log, base[r], snap[r].v)
      BY <1>1, IdsConcat DEF IInv
    <3> QED BY <1>1, <2>1, <3>1
  <2> QED BY <1>1, <2>1, <2>2 DEF Gap
<1>3. ASSUME NEW i \in 1..Len(log), TransformStopped(r, i)
      PROVE  Gap(r)'
  <2>1. pc'[r] \in {"acked", "refused", "dropped"}
    BY <1>3, AnswerFrame DEF TransformStopped, IInv
  <2> QED BY <2>1 DEF Gap
<1> QED BY <1>2, <1>3 DEF GetOps

(* The other actions keep the version and the ops, or end the request.     *)
LEMMA GapOfRest ==
    ASSUME IInv, NEW r \in Requests, Gap(r), ~CommitWins(r),
           \/ \E n \in 0..1 : ApplyToSnapshot(r, n)
           \/ Reject(r) \/ CommitLoses(r) \/ Publish(r) \/ Lose(r)
    PROVE  Gap(r)'
<1>1. /\ pc[r] \in Active
      /\ ver'[r] = ver[r] /\ base'[r] = base[r] /\ ops'[r] = ops[r] /\ log' = log
  BY DEF ApplyToSnapshot, Reject, CommitLoses, Publish, Lose, Active
<1>2. \/ pc'[r] \in Final
      \/ pc[r] = "apply" /\ pc'[r] = "commit"
      \/ pc[r] = "commit" /\ pc'[r] = "read"
  <2>1. ASSUME NEW n \in 0..1, ApplyToSnapshot(r, n) PROVE <1>2
    BY <2>1, AnswerFrame DEF ApplyToSnapshot, IInv, TypeOK, Final
  <2>2. CASE Reject(r)
    BY <2>2, AnswerFrame DEF Reject, IInv, Final
  <2>3. CASE CommitLoses(r)
    BY <2>3, AnswerFrame DEF CommitLoses, IInv, TypeOK, Final
  <2>4. CASE Publish(r)
    BY <2>4, AnswerFrame DEF Publish, IInv, Final
  <2>5. CASE Lose(r)
    BY <2>5 DEF Lose, IInv, TypeOK, Final
  <2> QED BY <2>1, <2>2, <2>3, <2>4, <2>5
<1>3. pc[r] \in {"apply", "commit"} => ver[r] \in Nat
  BY DEF IInv, RequestInv, Control
<1> QED BY <1>1, <1>2, <1>3 DEF Gap, Final, NullV

LEMMA GapOfCommit ==
    ASSUME IInv, NEW r \in Requests, CommitWins(r), Gap(r)
    PROVE  Gap(r)'
<1>1. /\ pc'[r] = "publish" /\ ver'[r] = ver[r] /\ base'[r] = base[r]
      /\ ops'[r] = ops[r]
  BY DEF CommitWins, IInv, TypeOK
<1>2. /\ Len(log) \in Nat /\ ver[r] = Len(log) /\ pc[r] = "commit"
      /\ \A i \in 1..Len(log) : log'[i] = log[i]
  BY CommitAppends
<1>3. base[r] \in Nat /\ base[r] <= ver[r] /\ ops[r] = Ids(log, base[r], ver[r])
  BY <1>2 DEF Gap
<1>4. Ids(log', base[r], ver[r]) = Ids(log, base[r], ver[r])
  <2>1. ver[r] \in Nat /\ ver[r] <= Len(log)
    BY <1>2
  <2> QED BY <1>2, <1>3, <2>1, IdsStable
<1> QED BY <1>1, <1>3, <1>4 DEF Gap

GapInv == \A r \in Requests : Gap(r)

LEMMA GapStep ==
    ASSUME IInv, GapInv, [Next]_vars
    PROVE  GapInv'
<1>1. CASE UNCHANGED vars
  BY <1>1 DEF vars, GapInv, Gap
<1>2. CASE Next
  <2>1. PICK r \in Requests : RequestStep(r)
    BY <1>2, NextIsRequestStep
  <2>2. Gap(r)
    BY DEF GapInv
  <2>3. Gap(r)'
    BY <2>1, <2>2, GapOfReceive, GapOfReadSnapshot, GapOfGetOps, GapOfRest,
       GapOfCommit DEF RequestStep, Step
  <2>4. \A q \in Requests \ {r} : Gap(q)'
    BY <2>1, GapOfOthers DEF GapInv
  <2> QED BY <2>3, <2>4 DEF GapInv
<1> QED BY <1>1, <1>2

(* The ops sent to the client before an acknowledgement are those between  *)
(* the version it knew and its op's place (SubmitRequest.ops, filled by    *)
(* every retry of _transformOp).                                           *)
THEOREM OpsFillTheGapCorrect ==
    ASSUME SafeNulls PROVE Spec => []OpsFillTheGap
<1>1. Init => GapInv
  BY DEF Init, GapInv, Gap
<1>2. IInv /\ GapInv /\ [Next]_vars => GapInv'
  BY GapStep
<1>3. GapInv => OpsFillTheGap
  BY DEF GapInv, Gap, OpsFillTheGap
<1> QED BY Invariance, <1>1, <1>2, <1>3, PTL DEF Spec

-----------------------------------------------------------------------------
(* The assumption of AckCarriesFixupsCorrect.  A create recognised by the  *)
(* document's metadata is acknowledged without the fixups it was logged    *)
(* with: the metadata does not have them.                                  *)
SafeFixups == MayFixup \cap NullOps = {}

(* Has no request of op o been retried?                                    *)
Untouched(o) == \A q \in Requests : op[q] = o => tries[q] = 0

(* A logged op that was never retried has each of its fixups once, and one *)
(* the middleware leaves alone has none.                                   *)
EntryFixups(i) ==
    /\ log[i].id \notin MayFixup => log[i].comp = 0
    /\ Untouched(log[i].id) => log[i].comp = log[i].fixup

(* The same of the op a request carries.                                   *)
RequestFixups(r) ==
    /\ pc[r] = "idle" => tries[r] = 0 /\ comp[r] = 0 /\ fix[r] = 0
    /\ pc[r] \in {"read", "getops", "apply"} /\ tries[r] = 0 =>
          comp[r] = 0 /\ fix[r] = 0
    /\ pc[r] \in {"commit", "publish"} /\ tries[r] = 0 => comp[r] = fix[r]
    /\ op[r] \notin MayFixup => comp[r] = 0
    /\ pc[r] = "publish" => log[ver[r] + 1].comp = comp[r]
    /\ pc[r] = "acked" /\ Untouched(op[r]) => log[ver[r] + 1].comp = fix[r]

FixInv ==
    /\ \A i \in 1..Len(log) : EntryFixups(i)
    /\ \A r \in Requests : RequestFixups(r)

(* A request that was retried stays one, and keeps its op.                 *)
LEMMA RetriedStays ==
    ASSUME IInv, FixInv, NEW r \in Requests, RequestStep(r)
    PROVE  \A q \in Requests : tries[q] # 0 => tries'[q] # 0 /\ op'[q] = op[q]
<1>1. \A q \in Requests \ {r} : op'[q] = op[q] /\ tries'[q] = tries[q]
  BY StepFrame DEF OthersUnchanged, IInv
<1>2. op'[r] # op[r] => tries[r] = 0
  BY DEF RequestStep, Step, Receive, ReadSnapshot, GetOps, ApplyToSnapshot,
         Reject, CommitWins, CommitLoses, Publish, Lose, FixInv, RequestFixups
<1>3. tries[r] # 0 => tries'[r] # 0
  <2>1. CASE CommitLoses(r)
    BY <2>1 DEF CommitLoses, IInv, TypeOK
  <2>2. CASE ~CommitLoses(r)
    BY <2>2 DEF RequestStep, Step, Receive, ReadSnapshot, GetOps, ApplyToSnapshot,
                Reject, CommitWins, Publish, Lose
  <2> QED BY <2>1, <2>2
<1> QED BY <1>1, <1>2, <1>3

(* The log's part, and that of the requests that do not take the step.     *)
LEMMA EntryFixupsStep ==
    ASSUME IInv, FixInv, NEW r \in Requests, RequestStep(r)
    PROVE  \A i \in 1..Len(log') : EntryFixups(i)'
<1>1. \A q \in Requests : tries[q] # 0 => tries'[q] # 0 /\ op'[q] = op[q]
  BY RetriedStays
<1>2. CASE ~CommitWins(r)
  BY <1>1, <1>2, OnlyCommitsWrite DEF FixInv, EntryFixups, Untouched
<1>3. CASE CommitWins(r)
  <2>1. /\ Len(log) \in Nat /\ Len(log') = Len(log) + 1
        /\ log'[Len(log) + 1].id = op[r]
        /\ log'[Len(log) + 1].comp = comp[r]
        /\ log'[Len(log) + 1].fixup = fix[r]
        /\ \A i \in 1..Len(log) : log'[i] = log[i]
        /\ pc[r] = "commit"
    BY <1>3, CommitAppends
  <2>2. ASSUME NEW i \in 1..Len(log) PROVE EntryFixups(i)'
    BY <1>1, <2>1 DEF FixInv, EntryFixups, Untouched
  <2>3. ASSUME NEW i, i = Len(log) + 1 PROVE EntryFixups(i)'
    <3>1. tries[r] = 0 => comp[r] = fix[r]
      BY <2>1 DEF FixInv, RequestFixups
    <3>2. op[r] \notin MayFixup => comp[r] = 0
      BY DEF FixInv, RequestFixups
    <3>3. op' = op /\ tries' = tries
      BY <1>3 DEF CommitWins
    <3> QED BY <2>1, <2>3, <3>1, <3>2, <3>3 DEF EntryFixups, Untouched
  <2>4. \A i \in 1..Len(log') : i \in 1..Len(log) \/ i = Len(log) + 1
    BY <2>1
  <2> QED BY <2>2, <2>3, <2>4
<1> QED BY <1>2, <1>3

LEMMA FixupsOfOthers ==
    ASSUME IInv, FixInv, NEW r \in Requests, RequestStep(r),
           NEW q \in Requests \ {r}
    PROVE  RequestFixups(q)'
<1>1. /\ pc'[q] = pc[q] /\ op'[q] = op[q] /\ ver'[q] = ver[q]
      /\ tries'[q] = tries[q] /\ comp'[q] = comp[q] /\ fix'[q] = fix[q]
  BY StepFrame DEF OthersUnchanged, IInv
<1>2. Untouched(op[q])' => Untouched(op[q])
  BY <1>1, RetriedStays DEF Untouched
<1>3. pc[q] \in {"publish", "acked"} => log'[ver[q] + 1] = log[ver[q] + 1]
  <2>1. \A i \in 1..Len(log) : log'[i] = log[i]
    BY OnlyCommitsWrite, CommitAppends
  <2> QED BY <2>1 DEF IInv, RequestInv, Placed
<1>4. RequestFixups(q)
  BY DEF FixInv
<1> QED BY <1>1, <1>2, <1>3, <1>4 DEF RequestFixups

(* A request that ends without an acknowledgement.                         *)
LEMMA FixupsOfEnded ==
    ASSUME NEW r \in Requests, pc'[r] \in Final \ {"acked"},
           op'[r] \notin MayFixup => comp'[r] = 0
    PROVE  RequestFixups(r)'
BY DEF RequestFixups, Final

LEMMA FixupsOfReceive ==
    ASSUME IInv, FixInv, NEW r \in Requests, NEW o \in Ops,
           NEW v \in NullV..Len(log), Receive(r, o, v)
    PROVE  RequestFixups(r)'
<1>1. /\ pc'[r] = "read" /\ tries'[r] = 0 /\ comp'[r] = 0 /\ fix'[r] = 0
  BY DEF Receive, IInv, TypeOK, FixInv, RequestFixups
<1> QED BY <1>1 DEF RequestFixups

LEMMA FixupsOfReadSnapshot ==
    ASSUME IInv, FixInv, SafeFixups, NEW r \in Requests, ReadSnapshot(r)
    PROVE  RequestFixups(r)'
<1>1. /\ pc[r] = "read" /\ tries'[r] = tries[r] /\ comp'[r] = comp[r]
      /\ fix'[r] = fix[r] /\ op'[r] = op[r] /\ log' = log
      /\ tries[r] = 0 => comp[r] = 0 /\ fix[r] = 0
      /\ op[r] \notin MayFixup => comp[r] = 0
  BY DEF ReadSnapshot, FixInv, RequestFixups
<1>2. CASE ReadExistingForCreate(r)
  <2>1. \/ pc'[r] \in Final \ {"acked"}
        \/ /\ pc'[r] = "acked" /\ ver'[r] = GetSnapshot.create[2]
           /\ GetSnapshot.create[1] = op[r]
    BY <1>2, AnswerFrame DEF ReadExistingForCreate, IInv, TypeOK, Final
  <2>2. CASE pc'[r] = "acked" /\ ver'[r] = GetSnapshot.create[2]
             /\ GetSnapshot.create[1] = op[r]
    <3>1. row.exists /\ GetSnapshot = row
      BY <1>2, GetSnapshotType DEF ReadExistingForCreate, GetSnapshot, IInv
    <3>2. /\ ver'[r] + 1 \in 1..Len(log)
          /\ log[ver'[r] + 1].id = op[r]
      BY <2>2, <3>1 DEF IInv, RowInv
    <3>3. op[r] \in NullOps
      BY <1>1, <1>2 DEF ReadExistingForCreate, IInv, RequestInv, Control
    <3>4. log[ver'[r] + 1].comp = 0
      BY <3>2, <3>3 DEF SafeFixups, FixInv, EntryFixups
    <3>5. Untouched(op[r])' => fix'[r] = 0
      BY <1>1 DEF Untouched
    <3> QED BY <1>1, <2>2, <3>4, <3>5 DEF RequestFixups
  <2> QED BY <1>1, <2>1, <2>2, FixupsOfEnded
<1>3. CASE ReadVersion(r)
  <2>1. pc'[r] \in {"refused", "dropped", "apply", "getops"}
    BY <1>3, AnswerFrame DEF ReadVersion, IInv, TypeOK
  <2> QED BY <1>1, <2>1 DEF RequestFixups
<1> QED BY <1>2, <1>3 DEF ReadSnapshot

LEMMA FixupsOfGetOps ==
    ASSUME IInv, FixInv, NEW r \in Requests, GetOps(r)
    PROVE  RequestFixups(r)'
<1>1. /\ pc[r] = "getops" /\ tries'[r] = tries[r] /\ comp'[r] = comp[r]
      /\ op'[r] = op[r] /\ log' = log
      /\ tries[r] = 0 => comp[r] = 0 /\ fix[r] = 0
      /\ op[r] \notin MayFixup => comp[r] = 0
  BY DEF GetOps, FixInv, RequestFixups
<1>2. CASE TransformThrough(r)
  <2>1. pc'[r] \in {"skipped", "dropped", "apply"} /\ fix'[r] = fix[r]
    BY <1>2, AnswerFrame DEF TransformThrough, IInv, TypeOK
  <2> QED BY <1>1, <2>1 DEF RequestFixups
<1>3. ASSUME NEW i \in 1..Len(log), TransformStopped(r, i)
      PROVE  RequestFixups(r)'
  <2> DEFINE found == IF log[i].fixup > 0 THEN log[i].fixup ELSE fix[r]
  <2>1. \/ pc'[r] \in Final \ {"acked"}
        \/ pc'[r] = "acked" /\ log[i].id = op[r] /\ fix'[r] = found
    <3>1. \/ Answer(r, "refused")
          \/ /\ Answer(r, "acked") /\ log[i].id = op[r]
             /\ fix' = [fix EXCEPT ![r] = found]
      BY <1>3 DEF TransformStopped
    <3> HIDE DEF found
    <3>2. fix' = [fix EXCEPT ![r] = found] => fix'[r] = found
      BY DEF IInv, TypeOK
    <3>3. pc'[r] \in {"acked", "dropped"} \/ pc'[r] \in {"refused", "dropped"}
      BY <3>1, AnswerFrame DEF IInv
    <3>4. Answer(r, "refused") => pc'[r] \in {"refused", "dropped"}
      BY AnswerFrame DEF IInv
    <3> QED BY <3>1, <3>2, <3>3, <3>4 DEF Final
  <2>2. ver'[r] + 1 = i
    <3>1. ver' = [ver EXCEPT ![r] = i - 1]
      BY <1>3 DEF TransformStopped
    <3> QED BY <3>1, LogType DEF IInv, TypeOK
  <2>3. CASE pc'[r] = "acked" /\ log[i].id = op[r] /\ fix'[r] = found
    <3>1. Untouched(op[r])' => Untouched(op[r]) /\ tries[r] = 0
      BY DEF GetOps, Untouched
    <3>2. log[i].fixup \in Nat
      BY LogType DEF IInv, Entries
    <3>3. Untouched(op[r])' => log[i].comp = fix'[r]
      BY <1>1, <2>3, <3>1, <3>2 DEF FixInv, EntryFixups
    <3> QED BY <1>1, <2>2, <2>3, <3>3 DEF RequestFixups
  <2> QED BY <1>1, <2>1, <2>3, FixupsOfEnded
<1> QED BY <1>2, <1>3 DEF GetOps

LEMMA FixupsOfApply ==
    ASSUME IInv, FixInv, NEW r \in Requests, NEW n \in 0..1, ApplyToSnapshot(r, n)
    PROVE  RequestFixups(r)'
<1>1. /\ pc[r] = "apply" /\ tries'[r] = tries[r] /\ op'[r] = op[r]
      /\ comp'[r] = comp[r] + n /\ fix'[r] = n
      /\ op[r] \notin MayFixup => n = 0
      /\ tries[r] = 0 => comp[r] = 0
      /\ op[r] \notin MayFixup => comp[r] = 0
      /\ pc'[r] \in {"commit", "refused", "dropped"}
  BY AnswerFrame DEF ApplyToSnapshot, IInv, TypeOK, FixInv, RequestFixups
<1> QED BY <1>1 DEF RequestFixups

LEMMA FixupsOfCommit ==
    ASSUME IInv, FixInv, NEW r \in Requests, CommitWins(r)
    PROVE  RequestFixups(r)'
<1>1. /\ ver[r] = Len(log) /\ pc[r] = "commit"
      /\ log'[Len(log) + 1].comp = comp[r]
  BY CommitAppends
<1>2. /\ pc'[r] = "publish" /\ tries'[r] = tries[r] /\ op'[r] = op[r]
      /\ comp'[r] = comp[r] /\ fix'[r] = fix[r] /\ ver'[r] = ver[r]
  BY DEF CommitWins, IInv, TypeOK
<1> QED BY <1>1, <1>2 DEF FixInv, RequestFixups

LEMMA FixupsOfRest ==
    ASSUME IInv, FixInv, NEW r \in Requests,
           Reject(r) \/ CommitLoses(r) \/ Publish(r) \/ Lose(r)
    PROVE  RequestFixups(r)'
<1>1. /\ op'[r] = op[r] /\ comp'[r] = comp[r] /\ ver'[r] = ver[r] /\ log' = log
      /\ op[r] \notin MayFixup => comp[r] = 0
  BY DEF Reject, CommitLoses, Publish, Lose, FixInv, RequestFixups
<1>2. CASE Reject(r) \/ Lose(r)
  <2>1. pc'[r] \in Final \ {"acked"}
    BY <1>2, AnswerFrame DEF Reject, Lose, IInv, TypeOK, Final
  <2> QED BY <1>1, <2>1, FixupsOfEnded
<1>3. CASE CommitLoses(r)
  <2>1. pc'[r] \in {"refused", "dropped", "read"} /\ tries'[r] # 0
    BY <1>3, AnswerFrame DEF CommitLoses, IInv, TypeOK
  <2> QED BY <1>1, <2>1 DEF RequestFixups
<1>4. CASE Publish(r)
  <2>1. /\ pc[r] = "publish" /\ pc'[r] \in {"acked", "dropped"}
        /\ tries'[r] = tries[r] /\ fix'[r] = fix[r]
    BY <1>4, AnswerFrame DEF Publish, IInv
  <2>2. log[ver[r] + 1].comp = comp[r] /\ (tries[r] = 0 => comp[r] = fix[r])
    BY <2>1 DEF FixInv, RequestFixups
  <2>3. Untouched(op[r])' => tries[r] = 0
    BY <1>1, <2>1 DEF Untouched
  <2> QED BY <1>1, <2>1, <2>2, <2>3 DEF RequestFixups
<1> QED BY <1>2, <1>3, <1>4

LEMMA FixStep ==
    ASSUME IInv, FixInv, SafeFixups, [Next]_vars
    PROVE  FixInv'
<1>1. CASE UNCHANGED vars
  BY <1>1 DEF vars, FixInv, EntryFixups, RequestFixups, Untouched
<1>2. CASE Next
  <2>1. PICK r \in Requests : RequestStep(r)
    BY <1>2, NextIsRequestStep
  <2>2. RequestFixups(r)'
    BY <2>1, FixupsOfReceive, FixupsOfReadSnapshot, FixupsOfGetOps, FixupsOfApply,
       FixupsOfCommit, FixupsOfRest DEF RequestStep, Step
  <2>3. \A q \in Requests \ {r} : RequestFixups(q)'
    BY <2>1, FixupsOfOthers
  <2>4. \A i \in 1..Len(log') : EntryFixups(i)'
    BY <2>1, EntryFixupsStep
  <2> QED BY <2>2, <2>3, <2>4 DEF FixInv
<1> QED BY <1>1, <1>2

(* An acknowledgement carries the fixups its op was logged with, whether   *)
(* the request logged it or found it logged ($fixup, _transformOp), as     *)
(* long as the middleware amends no create without a version.              *)
THEOREM AckCarriesFixupsCorrect ==
    ASSUME SafeNulls, SafeFixups PROVE Spec => []AckCarriesFixups
<1>1. Init => FixInv
  BY DEF Init, FixInv, RequestFixups
<1>2. IInv /\ FixInv /\ [Next]_vars => FixInv'
  BY FixStep
<1>3. FixInv => AckCarriesFixups
  BY DEF FixInv, RequestFixups, Untouched, AckCarriesFixups
<1> QED BY Invariance, <1>1, <1>2, <1>3, PTL DEF Spec

-----------------------------------------------------------------------------
(***************************************************************************)
(* Proof that Submit implements OpLog: what clients see of a document's    *)
(* submissions is a log that every op enters at most once, with            *)
(* acknowledgements that name places in it, and refusals that are final.   *)
(*                                                                         *)
(* What is hard is that a refusal is final.  A resent op may have two      *)
(* requests under way; when one is refused, neither the other one may have *)
(* committed the op, nor may it do so later.  The invariant says that an   *)
(* op is refused for an op in the log that conflicts with it, and that no  *)
(* request has gone past such an op.  When an edit is refused because the  *)
(* document is gone, that op is the delete, and the op may be logged       *)
(* before it.                                                              *)
(***************************************************************************)

(* The assumption of Refinement.  Whether a middleware refuses an op, an   *)
(* edit is left empty, or the retries are used up differs between two      *)
(* requests of one op: no op that is resent meets one of these.            *)
SafeRefusals ==
    /\ Resendable \cap MayReject = {}
    /\ \A c \in Cancels : c[1] \notin Resendable
    /\ Resendable = {} \/ MaxRetries = Unlimited

Early == {"read", "getops", "apply", "commit"}

(* The version an op was last sent with; without one it applies to a       *)
(* document on which nothing happened yet.                                 *)
LastV(o) == IF last[o] = NullV THEN 0 ELSE last[o]

(* No op that was logged from version m to version n conflicts with o.     *)
Clear(o, m, n) == \A i \in m + 1 .. n : ~Conflicts(Kind[o], Kind[log[i].id])

Blocked(o) == \E i \in LastV(o) + 1 .. Len(log) : Conflicts(Kind[o], Kind[log[i].id])

(* Op o can be applied to the document at version n.                       *)
Applies(o, n) ==
    /\ Kind[o] = "create" => ~Created(log, n)
    /\ Kind[o] = "edit" => Created(log, n)

(* What was sent applies at the version it was sent with.                  *)
Sendable ==
    \A o \in Ops : last[o] # Unsent =>
        /\ LastV(o) <= Len(log)
        /\ Applies(o, LastV(o))
        /\ last[o] = NullV <=> o \in NullOps

(* A request that may still commit has been through everything from the    *)
(* last sending of its op to its version, and so has every logged op.      *)
Walked(r) ==
    pc[r] \in Early /\ ver[r] # NullV =>
        /\ Clear(op[r], LastV(op[r]), ver[r])
        /\ current[op[r]] = r => LastV(op[r]) <= ver[r]

LoggedWalked == \A k \in 1..Len(log) : Clear(log[k].id, LastV(log[k].id), k - 1)

(* An edit was logged when the document existed.                           *)
LoggedApplies == \A k \in 1..Len(log) : Kind[log[k].id] = "edit" => Created(log, k - 1)

(* The snapshot a request works on is the one of its version.              *)
SnapExists(r) ==
    pc[r] \in {"getops", "apply"} => (snap[r].exists <=> Created(log, snap[r].v))

(* Only the client's last sending is refused; an op that could be sent     *)
(* again only because of a conflict, which stays.                          *)
RefusedForGood(r) ==
    pc[r] \in {"refused", "skipped"} =>
        /\ current[op[r]] = r
        /\ op[r] \in Resendable => Blocked(op[r])

(* An op that is not resent has one request, which logs it, if any does.   *)
SentOnce(r) ==
    /\ pc[r] = "idle" => op[r] = Nil
    /\ op[r] \in Ops \ Resendable =>
          /\ \A q \in Requests : op[q] = op[r] => q = r
          /\ Logged(op[r]) => pc[r] \in {"publish", "acked", "dropped", "lost"}

RequestRef(r) == Walked(r) /\ SnapExists(r) /\ RefusedForGood(r) /\ SentOnce(r)

CreateNamed == row.exists => Kind[row.create[1]] = "create"

RefInv ==
    /\ Sendable
    /\ LoggedWalked
    /\ LoggedApplies
    /\ CreateNamed
    /\ \A r \in Requests : RequestRef(r)

-----------------------------------------------------------------------------
LEMMA InitRef == Init => RefInv
<1> SUFFICES ASSUME Init PROVE RefInv
  OBVIOUS
<1>1. Len(log) = 0 /\ Nil \notin Ops
  BY NilAssumption DEF Init
<1>2. Sendable /\ LoggedWalked /\ LoggedApplies /\ CreateNamed
  BY <1>1 DEF Init, Sendable, LoggedWalked, LoggedApplies, CreateNamed, NoRow
<1>3. \A r \in Requests : RequestRef(r)
  BY <1>1 DEF Init, RequestRef, Walked, SnapExists, RefusedForGood, SentOnce, Early
<1> QED BY <1>2, <1>3 DEF RefInv

LEMMA LastVType ==
    ASSUME TypeOK, NEW o \in Ops, last[o] # Unsent
    PROVE  LastV(o) \in Nat
BY DEF TypeOK, LastV, NullV, Unsent

(* Ops that do not conflict with an op leave it applicable.                *)
LEMMA ClearKeeps ==
    ASSUME NEW o \in Ops, NEW m \in Nat, NEW n \in Nat, m <= n,
           Applies(o, m), Clear(o, m, n)
    PROVE  Applies(o, n)
<1>1. ASSUME Kind[o] = "create", Created(log, n) PROVE FALSE
  <2>1. PICK i \in 1..n : /\ Kind[log[i].id] = "create"
                          /\ \A j \in i + 1 .. n : Kind[log[j].id] # "del"
    BY <1>1 DEF Created
  <2>2. i \notin m + 1 .. n
    BY <1>1, <2>1 DEF Clear, Conflicts, AlreadyCreated
  <2>3. i \in 1..m /\ \A j \in i + 1 .. m : j \in i + 1 .. n
    BY <2>2
  <2>4. Created(log, m)
    BY <2>1, <2>3 DEF Created
  <2> QED BY <1>1, <2>4 DEF Applies
<1>2. ASSUME Kind[o] = "edit" PROVE Created(log, n)
  <2>1. PICK i \in 1..m : /\ Kind[log[i].id] = "create"
                          /\ \A j \in i + 1 .. m : Kind[log[j].id] # "del"
    BY <1>2 DEF Applies, Created
  <2>2. \A j \in i + 1 .. n : Kind[log[j].id] # "del"
    <3> TAKE j \in i + 1 .. n
    <3>1. j \in i + 1 .. m \/ j \in m + 1 .. n
      OBVIOUS
    <3> QED BY <1>2, <2>1, <3>1 DEF Clear, Conflicts, DocWasDeleted
  <2>3. i \in 1..n
    OBVIOUS
  <2> QED BY <2>1, <2>2, <2>3 DEF Created
<1> QED BY <1>1, <1>2 DEF Applies

(* What the first n ops made does not change when the log grows.           *)
LEMMA PrefixCreated ==
    ASSUME NEW n \in Nat, \A i \in 1..n : log'[i] = log[i]
    PROVE  Created(log', n) <=> Created(log, n)
BY DEF Created

(* A document that an edit was logged of and that is gone was deleted      *)
(* after the edit.                                                         *)
LEMMA GoneIsDeleted ==
    ASSUME LoggedApplies, NEW n \in Nat, n <= Len(log), Len(log) \in Nat,
           NEW k \in 1..n, Kind[log[k].id] = "edit", ~Created(log, n)
    PROVE  \E j \in k + 1 .. n : Kind[log[j].id] = "del"
<1>1. PICK i \in 1..k - 1 : /\ Kind[log[i].id] = "create"
                            /\ \A j \in i + 1 .. k - 1 : Kind[log[j].id] # "del"
  <2>1. k \in 1..Len(log)
    OBVIOUS
  <2> QED BY <2>1 DEF LoggedApplies, Created
<1>2. PICK j \in i + 1 .. n : Kind[log[j].id] = "del"
  <2>1. i \in 1..n
    OBVIOUS
  <2> QED BY <1>1, <2>1 DEF Created
<1>3. j \notin i + 1 .. k - 1 /\ j # k
  BY <1>1, <1>2
<1> QED BY <1>2, <1>3

-----------------------------------------------------------------------------
(* What holds of a step of request r that leaves the log alone.            *)
Others(r) ==
    \A q \in Requests \ {r} : pc'[q] = pc[q] /\ ver'[q] = ver[q] /\ snap'[q] = snap[q]

(* Op o was logged, and the document was deleted after it.                 *)
DeletedAfter(o) ==
    \E i, j \in 1..Len(log) : i < j /\ log[i].id = o /\ Kind[log[j].id] = "del"

Refused(r) ==
    /\ current[op[r]] = r
    /\ op[r] \in Resendable => Blocked(op[r])
    /\ Logged(op[r]) => DeletedAfter(op[r])

Local(r) ==
    /\ UNCHANGED <<log, row, last, current, op>>
    /\ Others(r)
    /\ op[r] \in Ops /\ pc[r] \in Active /\ pc'[r] \in Active \cup Final
    /\ Walked(r)' /\ SnapExists(r)'
    /\ pc'[r] \in {"refused", "skipped"} => Refused(r)
    /\ pc[r] = "publish" => pc'[r] \in {"acked", "dropped", "lost"}

LEMMA LocalRef ==
    ASSUME RefInv, NEW r \in Requests, Local(r)
    PROVE  RefInv'
<1>1. /\ UNCHANGED <<log, row, last, current, op>>
      /\ op[r] \in Ops /\ pc[r] \in Active /\ pc'[r] \in Active \cup Final
  BY DEF Local
<1>2. Sendable' /\ LoggedWalked' /\ LoggedApplies' /\ CreateNamed'
  BY <1>1 DEF RefInv, Sendable, LoggedWalked, LoggedApplies, CreateNamed, Applies, Created,
              Clear, LastV
<1>3. ASSUME NEW q \in Requests \ {r} PROVE RequestRef(q)'
  <2>1. pc'[q] = pc[q] /\ ver'[q] = ver[q] /\ snap'[q] = snap[q] /\ RequestRef(q)
    BY DEF Local, Others, RefInv
  <2>2. Walked(q)' /\ SnapExists(q)'
    BY <1>1, <2>1 DEF RequestRef, Walked, SnapExists, Clear, LastV, Created
  <2>3. RefusedForGood(q)' /\ SentOnce(q)'
    BY <1>1, <2>1 DEF RequestRef, RefusedForGood, SentOnce, Blocked, LastV, Logged
  <2> QED BY <2>2, <2>3 DEF RequestRef
<1>4. RequestRef(r)'
  <2>1. RequestRef(r)
    BY DEF RefInv
  <2>2. RefusedForGood(r)'
    BY <1>1 DEF Local, RefusedForGood, Refused, Blocked, LastV
  <2>3. SentOnce(r)'
    BY <1>1, <2>1 DEF Local, RequestRef, SentOnce, Logged, Active, Final
  <2> QED BY <2>2, <2>3 DEF Local, RequestRef
<1> QED BY <1>2, <1>3, <1>4 DEF RefInv

(* An answer ends a request; only the client's last sending hears it.      *)
LEMMA AnswerOutcome ==
    ASSUME TypeOK, NEW r \in Requests, NEW how \in Final, Answer(r, how)
    PROVE  /\ pc'[r] \in {how, "dropped"}
           /\ pc'[r] = how => how = "dropped" \/ current[op[r]] = r
           /\ \A q \in Requests \ {r} : pc'[q] = pc[q]
BY DEF TypeOK, Answer

(* A request that ends, for whatever reason but a refusal.                 *)
LEMMA EndsLocally ==
    ASSUME TypeOK, NEW r \in Requests, op[r] \in Ops, pc[r] \in Active,
           UNCHANGED <<log, row, last, current, op>>, Others(r),
           pc'[r] \in {"acked", "dropped", "lost"}
    PROVE  Local(r)
BY DEF Local, Walked, SnapExists, Early, Active, Final

(* A refusal ends the request too.                                         *)
LEMMA RefusedLocally ==
    ASSUME TypeOK, NEW r \in Requests, op[r] \in Ops, pc[r] \in Early,
           UNCHANGED <<log, row, last, current, op>>, Others(r),
           pc'[r] \in {"refused", "skipped", "dropped"},
           pc'[r] # "dropped" => Refused(r)
    PROVE  Local(r)
BY DEF Local, Walked, SnapExists, Early, Active, Final

(* An op that is not resent is not logged while its request is under way.  *)
LEMMA NotResent ==
    ASSUME RefInv, NEW r \in Requests, op[r] \in Ops \ Resendable,
           pc[r] \in Early, current[op[r]] = r
    PROVE  Refused(r)
BY DEF RefInv, RequestRef, SentOnce, Refused, Early

-----------------------------------------------------------------------------
(* A create without a version finds a document that another op created:    *)
(* without deletes there is no other create in the log.                    *)
LEMMA CreatedElsewhere ==
    ASSUME IInv, RefInv, NEW o \in NullOps, o \in Ops, last[o] # Unsent,
           \A x \in Ops : Kind[x] # "del",
           row.exists, row.create[1] # o
    PROVE  Blocked(o) /\ ~Logged(o)
<1> DEFINE j == row.create[2] + 1
           p == row.create[1]
<1>1. Len(log) \in Nat /\ \A i \in 1..Len(log) : log[i].id \in Ops
  BY LogType DEF IInv
<1>2. j \in 1..Len(log) /\ log[j].id = p /\ Kind[p] = "create"
  BY DEF IInv, RowInv, RefInv, CreateNamed
<1>3. LastV(o) = 0 /\ Kind[o] = "create"
  BY NullAssumption DEF RefInv, Sendable, LastV
<1> HIDE DEF j, p
<1>4. Blocked(o)
  BY <1>1, <1>2, <1>3 DEF Blocked, Conflicts, AlreadyCreated
<1>5. ASSUME NEW k \in 1..Len(log), log[k].id = o PROVE FALSE
  <2>1. k # j
    BY <1>2, <1>5 DEF p
  <2>2. CASE j < k
    <3>1. Clear(o, 0, k - 1) /\ j \in 1..k - 1
      BY <1>1, <1>2, <1>3, <1>5, <2>2 DEF RefInv, LoggedWalked
    <3> QED BY <1>2, <1>3, <3>1 DEF Clear, Conflicts, AlreadyCreated
  <2>3. CASE k < j
    <3>1. /\ p \in Ops /\ last[p] # Unsent
          /\ Clear(p, LastV(p), j - 1) /\ LastV(p) <= Len(log)
          /\ ~Created(log, LastV(p))
      BY <1>1, <1>2 DEF RefInv, LoggedWalked, IInv, SentInv, Sendable, Applies
    <3>2. LastV(p) \in Nat
      BY <3>1, LastVType DEF IInv
    <3>3. CASE k <= LastV(p)
      <4>1. k \in 1..LastV(p) /\ \A i \in k + 1 .. LastV(p) : log[i].id \in Ops
        BY <1>1, <3>1, <3>2, <3>3
      <4>2. Created(log, LastV(p))
        BY <1>3, <1>5, <4>1 DEF Created
      <4> QED BY <3>1, <4>2
    <3>4. CASE LastV(p) < k
      <4>1. k \in LastV(p) + 1 .. j - 1
        BY <1>1, <1>2, <2>3, <3>2, <3>4
      <4> QED BY <1>2, <1>3, <1>5, <3>1, <4>1 DEF Clear, Conflicts, AlreadyCreated
    <3> QED BY <1>1, <3>2, <3>3, <3>4
  <2> QED BY <1>1, <1>2, <2>1, <2>2, <2>3
<1> QED BY <1>4, <1>5 DEF Logged

(* Where nothing is deleted and no document exists nothing was logged that *)
(* a create conflicts with.                                                *)
LEMMA NothingCreated ==
    ASSUME IInv, RefInv, ~row.exists, \A x \in Ops : Kind[x] # "del",
           NEW o \in Ops, Kind[o] = "create"
    PROVE  Clear(o, 0, Len(log))
<1>1. Len(log) \in Nat /\ \A i \in 1..Len(log) : log[i].id \in Ops
  BY LogType DEF IInv
<1>2. \A i \in 1..Len(log) : Kind[log[i].id] # "create"
  BY DEF IInv, CreatedExists
<1>3. ASSUME NEW k \in 1..Len(log), Kind[log[k].id] = "edit" PROVE FALSE
  <2> DEFINE p == log[k].id
  <2>1. p \in Ops /\ last[p] # Unsent /\ LastV(p) <= Len(log) /\ Created(log, LastV(p))
    BY <1>1, <1>3 DEF RefInv, IInv, SentInv, Sendable, Applies
  <2>2. LastV(p) \in Nat
    BY <2>1, LastVType DEF IInv
  <2> HIDE DEF p
  <2>3. PICK i \in 1..LastV(p) : Kind[log[i].id] = "create"
    BY <2>1 DEF Created
  <2> QED BY <1>1, <1>2, <2>1, <2>2, <2>3
<1> QED BY <1>1, <1>2, <1>3 DEF Clear, Conflicts, AlreadyCreated, DocWasDeleted

LEMMA ReadSnapshotLocal ==
    ASSUME IInv, SnapshotMatchesLog, RefInv, SafeNulls,
           NEW r \in Requests, ReadSnapshot(r)
    PROVE  Local(r)
<1>1. /\ pc[r] = "read" /\ op[r] \in Ops /\ last[op[r]] # Unsent
      /\ ver[r] \in Nat \cup {NullV} /\ ver[r] <= Len(log)
      /\ ver[r] = NullV => op[r] \in NullOps
      /\ Len(log) \in Nat
      /\ UNCHANGED <<log, row, last, current, op>>
      /\ snap' = [snap EXCEPT ![r] = GetSnapshot]
      /\ TypeOK /\ RequestRef(r)
  BY LogType DEF ReadSnapshot, IInv, RequestInv, Control, TypeOK, RefInv
<1>2. GetSnapshot.v = Len(log) /\ GetSnapshot.exists = row.exists
      /\ row.exists = Created(log, Len(log)) /\ row.exists \in BOOLEAN
  BY <1>1, GetSnapshotType, SnapshotMeans DEF IInv, TypeOK, Snapshots
<1>3. \A q \in Requests \ {r} : snap'[q] = snap[q]
  BY <1>1 DEF TypeOK
<1>4. CASE ReadExistingForCreate(r)
  <2>1. /\ ver[r] = NullV /\ row.exists /\ GetSnapshot = row
        /\ \/ Answer(r, "acked") /\ row.create[1] = op[r]
              /\ ver' = [ver EXCEPT ![r] = row.create[2]]
           \/ Answer(r, "refused") /\ row.create[1] # op[r] /\ ver' = ver
    BY <1>2, <1>4 DEF ReadExistingForCreate, GetSnapshot
  <2>2. Others(r)
    <3>1. \A q \in Requests \ {r} : pc'[q] = pc[q]
      BY <1>1, <2>1, AnswerOutcome DEF Final
    <3>2. \A q \in Requests \ {r} : ver'[q] = ver[q]
      BY <1>1, <2>1 DEF TypeOK
    <3> QED BY <1>3, <3>1, <3>2 DEF Others
  <2>3. CASE Answer(r, "acked")
    <3>1. pc'[r] \in {"acked", "dropped"}
      BY <1>1, <2>3, AnswerOutcome DEF Final
    <3> QED BY <1>1, <2>2, <3>1, EndsLocally DEF Active
  <2>4. CASE Answer(r, "refused") /\ row.create[1] # op[r]
    <3>1. Blocked(op[r]) /\ ~Logged(op[r])
      BY <1>1, <2>1, <2>4, CreatedElsewhere DEF SafeNulls
    <3>2. pc'[r] \in {"refused", "dropped"} /\ (pc'[r] # "dropped" => current[op[r]] = r)
      BY <1>1, <2>4, AnswerOutcome DEF Final
    <3> QED BY <1>1, <2>2, <3>1, <3>2, RefusedLocally DEF Refused, Early
  <2> QED BY <2>1, <2>3, <2>4
<1>5. CASE ReadVersion(r)
  <2> DEFINE v == IF ver[r] = NullV THEN Len(log) ELSE ver[r]
  <2>1. /\ v \in Nat /\ v <= Len(log)
        /\ ver' = [ver EXCEPT ![r] = v]
        /\ pc' = [pc EXCEPT ![r] = IF v = Len(log) THEN "apply" ELSE "getops"]
        /\ ver[r] = NullV => ~row.exists
    BY <1>1, <1>2, <1>5 DEF ReadVersion, NullV
  <2>2. Clear(op[r], LastV(op[r]), v) /\ (current[op[r]] = r => LastV(op[r]) <= v)
    <3>1. CASE ver[r] # NullV
      BY <1>1, <3>1 DEF RequestRef, Walked, Early
    <3>2. CASE ver[r] = NullV
      <4>1. LastV(op[r]) = 0 /\ Kind[op[r]] = "create" /\ ~row.exists
        BY <1>1, <2>1, <3>2, NullAssumption DEF RefInv, Sendable, LastV
      <4> QED BY <1>1, <3>2, <4>1, NothingCreated DEF SafeNulls
    <3> QED BY <3>1, <3>2
  <2> HIDE DEF v
  <2>3. ver'[r] = v /\ pc'[r] \in {"apply", "getops"} /\ snap'[r] = GetSnapshot
        /\ Others(r)
    BY <1>1, <1>3, <2>1 DEF TypeOK, Others
  <2>4. Walked(r)'
    BY <1>1, <2>2, <2>3 DEF Walked, Clear, LastV
  <2>5. SnapExists(r)'
    <3>1. GetSnapshot.exists <=> Created(log, Len(log))
      BY <1>2
    <3>2. snap'[r].exists <=> Created(log, snap'[r].v)
      BY <1>2, <2>3, <3>1
    <3>3. Created(log, snap'[r].v) <=> Created(log', snap'[r].v)
      BY <1>1 DEF Created
    <3> QED BY <3>2, <3>3 DEF SnapExists
  <2> QED BY <1>1, <2>3, <2>4, <2>5 DEF Local, Active
<1> QED BY <1>4, <1>5 DEF ReadSnapshot

LEMMA GetOpsLocal ==
    ASSUME IInv, RefInv, SafeRefusals, NEW r \in Requests, GetOps(r)
    PROVE  Local(r)
<1>1. /\ pc[r] = "getops" /\ op[r] \in Ops /\ last[op[r]] # Unsent
      /\ ver[r] \in Nat /\ snap[r].v \in Nat
      /\ ver[r] < snap[r].v /\ snap[r].v <= Len(log) /\ Len(log) \in Nat
      /\ UNCHANGED <<log, row, last, current, op, snap>>
      /\ \A i \in 1..ver[r] : log[i].id # op[r]
      /\ Clear(op[r], LastV(op[r]), ver[r])
      /\ current[op[r]] = r => LastV(op[r]) <= ver[r]
      /\ TypeOK /\ RequestRef(r)
  <2>1. /\ pc[r] = "getops" /\ UNCHANGED <<log, row, last, current, op, snap>>
        /\ TypeOK /\ RequestInv(r) /\ RequestRef(r) /\ Len(log) \in Nat
    BY LogType DEF GetOps, IInv, RefInv
  <2>2. snap[r] \in Snapshots /\ snap[r].v \in Nat
    BY <2>1 DEF TypeOK, Snapshots
  <2>3. /\ op[r] \in Ops /\ last[op[r]] # Unsent /\ ver[r] \in Nat
        /\ ver[r] < snap[r].v /\ snap[r].v <= Len(log)
        /\ \A i \in 1..ver[r] : log[i].id # op[r]
    BY <2>1 DEF RequestInv, Control, NotPassed
  <2>4. /\ Clear(op[r], LastV(op[r]), ver[r])
        /\ current[op[r]] = r => LastV(op[r]) <= ver[r]
    BY <2>1, <2>3 DEF RequestRef, Walked, Early, NullV
  <2> QED BY <2>1, <2>2, <2>3, <2>4
<1>2. LastV(op[r]) \in Nat
  BY <1>1, LastVType
<1>3. CASE TransformThrough(r)
  <2>1. /\ \A i \in ver[r] + 1 .. snap[r].v : ~Stops(r, i)
        /\ ver' = [ver EXCEPT ![r] = snap[r].v]
        /\ IF Emptied(op[r], snap[r].v)
           THEN Answer(r, "skipped")
           ELSE pc' = [pc EXCEPT ![r] = "apply"]
    BY <1>3 DEF TransformThrough
  <2>2. Others(r) /\ ver'[r] = snap[r].v
    BY <1>1, <2>1, AnswerOutcome DEF Others, TypeOK, Final
  <2>3. CASE Emptied(op[r], snap[r].v)
    <3>1. pc'[r] \in {"skipped", "dropped"} /\ (pc'[r] # "dropped" => current[op[r]] = r)
      BY <1>1, <2>1, <2>3, AnswerOutcome DEF Final
    <3>2. PICK i \in origin[op[r]] + 1 .. snap[r].v : <<op[r], log[i].id>> \in Cancels
      BY <2>3 DEF Emptied
    <3>3. op[r] \notin Resendable
      BY <1>1, <3>2 DEF SafeRefusals
    <3> QED BY <1>1, <2>2, <3>1, <3>3, NotResent, RefusedLocally DEF Early
  <2>4. CASE ~Emptied(op[r], snap[r].v)
    <3>1. pc'[r] = "apply"
      BY <1>1, <2>1, <2>4 DEF TypeOK
    <3>2. Clear(op[r], LastV(op[r]), snap[r].v)
      <4>1. ASSUME NEW i \in LastV(op[r]) + 1 .. snap[r].v
            PROVE  ~Conflicts(Kind[op[r]], Kind[log[i].id])
        BY <1>1, <1>2, <2>1 DEF Clear, Stops, Fails, TransformFails
      <4> QED BY <4>1 DEF Clear
    <3>3. Walked(r)'
      BY <1>1, <1>2, <2>2, <3>2 DEF Walked, Clear, LastV
    <3>4. SnapExists(r)'
      BY <1>1, <3>1 DEF RequestRef, SnapExists, Created
    <3> QED BY <1>1, <2>2, <3>1, <3>3, <3>4 DEF Local, Active
  <2> QED BY <2>3, <2>4
<1>4. ASSUME NEW i \in 1..Len(log), TransformStopped(r, i)
      PROVE  Local(r)
  <2>1. /\ i \in ver[r] + 1 .. snap[r].v /\ Stops(r, i)
        /\ \A j \in ver[r] + 1 .. i - 1 : ~Stops(r, j)
        /\ ver' = [ver EXCEPT ![r] = i - 1]
        /\ IF log[i].id = op[r] THEN Answer(r, "acked") ELSE Answer(r, "refused")
    BY <1>4 DEF TransformStopped, FirstStop
  <2>2. Others(r)
    BY <1>1, <2>1, AnswerOutcome DEF Others, TypeOK, Final
  <2>3. CASE log[i].id = op[r]
    <3>1. pc'[r] \in {"acked", "dropped"}
      BY <1>1, <2>1, <2>3, AnswerOutcome DEF Final
    <3> QED BY <1>1, <2>2, <3>1, EndsLocally DEF Active
  <2>4. CASE log[i].id # op[r]
    <3>1. pc'[r] \in {"refused", "dropped"} /\ (pc'[r] # "dropped" => current[op[r]] = r)
      BY <1>1, <2>1, <2>4, AnswerOutcome DEF Final
    <3>2. \/ Conflicts(Kind[op[r]], Kind[log[i].id])
          \/ Kind[op[r]] = "edit" /\ Kind[log[i].id] = "edit" /\ ~snap[r].exists
      BY <2>1, <2>4 DEF Stops, Fails, TransformFails
    <3>3. ASSUME NEW k \in 1..Len(log), log[k].id = op[r] PROVE k > i
      <4>1. k > ver[r] /\ k # i
        BY <1>1, <2>4, <3>3
      <4>2. ~(k < i)
        BY <1>1, <2>1, <3>3, <4>1 DEF Stops
      <4> QED BY <4>1, <4>2
    <3>4. ASSUME NEW k \in 1..Len(log), log[k].id = op[r],
                 NEW j \in LastV(op[r]) + 1 .. k - 1,
                 Conflicts(Kind[op[r]], Kind[log[j].id])
          PROVE  FALSE
      \* Whoever logged the op went past the conflict.
      <4>1. Clear(op[r], LastV(op[r]), k - 1)
        BY <3>4 DEF RefInv, LoggedWalked
      <4> QED BY <3>4, <4>1 DEF Clear
    <3>5. ASSUME current[op[r]] = r, Conflicts(Kind[op[r]], Kind[log[i].id])
          PROVE  Refused(r)
      <4>1. Blocked(op[r])
        BY <1>1, <1>2, <2>1, <3>5 DEF Blocked
      <4>2. ASSUME NEW k \in 1..Len(log), log[k].id = op[r] PROVE FALSE
        <5>1. i \in LastV(op[r]) + 1 .. k - 1
          BY <1>1, <1>2, <2>1, <3>3, <3>5, <4>2
        <5> QED BY <3>4, <3>5, <4>2, <5>1
      <4> QED BY <3>5, <4>1, <4>2 DEF Refused, Logged
    <3>6. ASSUME current[op[r]] = r,
                 Kind[op[r]] = "edit", Kind[log[i].id] = "edit", ~snap[r].exists
          PROVE  Refused(r)
      <4>1. LoggedApplies /\ ~Created(log, snap[r].v) /\ i \in 1..snap[r].v
        BY <1>1, <2>1, <3>6 DEF RefInv, RequestRef, SnapExists
      <4>2. PICK j \in i + 1 .. snap[r].v : Kind[log[j].id] = "del"
        BY <1>1, <3>6, <4>1, GoneIsDeleted
      <4>3. Conflicts(Kind[op[r]], Kind[log[j].id])
        BY <3>6, <4>2 DEF Conflicts, DocWasDeleted
      <4>4. Blocked(op[r])
        BY <1>1, <1>2, <2>1, <3>6, <4>2, <4>3 DEF Blocked
      <4>5. ASSUME NEW k \in 1..Len(log), log[k].id = op[r] PROVE DeletedAfter(op[r])
        <5>1. k <= snap[r].v
          <6>1. SUFFICES ASSUME ~(k <= snap[r].v) PROVE FALSE
            OBVIOUS
          <6>2. j \in LastV(op[r]) + 1 .. k - 1
            BY <1>1, <1>2, <2>1, <3>6, <4>2, <6>1
          <6> QED BY <3>4, <4>3, <4>5, <6>2
        <5>2. PICK d \in k + 1 .. snap[r].v : Kind[log[d].id] = "del"
          <6>1. k \in 1..snap[r].v /\ Kind[log[k].id] = "edit"
            BY <1>1, <3>6, <4>5, <5>1
          <6> QED BY <1>1, <4>1, <6>1, GoneIsDeleted
        <5>3. d \in 1..Len(log) /\ k < d
          BY <1>1, <5>2
        <5> QED BY <4>5, <5>2, <5>3 DEF DeletedAfter
      <4> QED BY <3>6, <4>4, <4>5 DEF Refused, Logged
    <3>7. ASSUME current[op[r]] = r PROVE Refused(r)
      BY <3>2, <3>5, <3>6, <3>7
    <3> QED BY <1>1, <2>2, <3>1, <3>7, RefusedLocally DEF Early
  <2> QED BY <2>3, <2>4
<1> QED BY <1>3, <1>4 DEF GetOps

LEMMA ApplyLocal ==
    ASSUME IInv, RefInv, NEW r \in Requests, NEW n \in 0..1, ApplyToSnapshot(r, n)
    PROVE  Local(r)
<1>1. /\ pc[r] = "apply" /\ op[r] \in Ops /\ last[op[r]] # Unsent
      /\ ver[r] \in Nat /\ snap[r].v = ver[r]
      /\ UNCHANGED <<log, row, last, current, op, ver>>
      /\ TypeOK /\ RequestRef(r)
  BY DEF ApplyToSnapshot, IInv, RequestInv, Control, RefInv
<1>2. /\ Clear(op[r], LastV(op[r]), ver[r])
      /\ current[op[r]] = r => LastV(op[r]) <= ver[r]
  BY <1>1 DEF RequestRef, Walked, Early, NullV
<1>3. CASE CanApply(Kind[op[r]], snap[r].exists)
  <2>1. pc'[r] = "commit" /\ Others(r)
    BY <1>1, <1>3 DEF ApplyToSnapshot, Others, TypeOK
  <2>2. Walked(r)' /\ SnapExists(r)'
    BY <1>1, <1>2, <2>1 DEF Walked, SnapExists, Clear, LastV
  <2> QED BY <1>1, <2>1, <2>2 DEF Local, Active
<1>4. CASE ~CanApply(Kind[op[r]], snap[r].exists)
  <2>1. Answer(r, "refused") /\ snap' = snap
    BY <1>4 DEF ApplyToSnapshot
  <2>2. /\ pc'[r] \in {"refused", "dropped"}
        /\ pc'[r] # "dropped" => current[op[r]] = r
        /\ Others(r)
    BY <1>1, <2>1, AnswerOutcome DEF Final, Others
  <2>3. current[op[r]] # r
    \* What the client made last applies at every version it is taken to.
    <3> SUFFICES ASSUME current[op[r]] = r PROVE FALSE
      OBVIOUS
    <3>1. LastV(op[r]) \in Nat /\ Applies(op[r], LastV(op[r]))
      BY <1>1, LastVType DEF RefInv, Sendable
    <3>2. Applies(op[r], ver[r])
      BY <1>1, <1>2, <3>1, ClearKeeps
    <3>3. snap[r].exists <=> Created(log, ver[r])
      BY <1>1 DEF RequestRef, SnapExists
    <3> QED BY <1>4, <3>2, <3>3 DEF Applies, CanApply
  <2> QED BY <1>1, <2>2, <2>3, EndsLocally DEF Active
<1> QED BY <1>3, <1>4

LEMMA RejectLocal ==
    ASSUME IInv, RefInv, SafeRefusals, NEW r \in Requests, Reject(r)
    PROVE  Local(r)
<1>1. /\ pc[r] = "apply" /\ op[r] \in Ops /\ op[r] \notin Resendable
      /\ UNCHANGED <<log, row, last, current, op, ver, snap>>
      /\ TypeOK /\ Answer(r, "refused")
  BY DEF Reject, IInv, RequestInv, Control, SafeRefusals
<1>2. /\ pc'[r] \in {"refused", "dropped"}
      /\ pc'[r] # "dropped" => current[op[r]] = r
      /\ Others(r)
  BY <1>1, AnswerOutcome DEF Final, Others
<1> QED BY <1>1, <1>2, NotResent, RefusedLocally DEF Early

LEMMA CommitLosesLocal ==
    ASSUME IInv, RefInv, SafeRefusals, NEW r \in Requests, CommitLoses(r)
    PROVE  Local(r)
<1>1. /\ pc[r] = "commit" /\ op[r] \in Ops
      /\ UNCHANGED <<log, row, last, current, op, ver, snap>>
      /\ TypeOK /\ RequestRef(r)
  BY DEF CommitLoses, IInv, RequestInv, Control, RefInv
<1>2. CASE MaxRetries # Unlimited /\ tries[r] + 1 > MaxRetries
  <2>1. op[r] \notin Resendable /\ Answer(r, "refused")
    BY <1>2 DEF CommitLoses, SafeRefusals
  <2>2. /\ pc'[r] \in {"refused", "dropped"}
        /\ pc'[r] # "dropped" => current[op[r]] = r
        /\ Others(r)
    BY <1>1, <2>1, AnswerOutcome DEF Final, Others
  <2> QED BY <1>1, <2>1, <2>2, NotResent, RefusedLocally DEF Early
<1>3. CASE ~(MaxRetries # Unlimited /\ tries[r] + 1 > MaxRetries)
  <2>1. pc'[r] = "read" /\ Others(r)
    BY <1>1, <1>3 DEF CommitLoses, Others, TypeOK
  <2>2. Walked(r)' /\ SnapExists(r)'
    BY <1>1, <2>1 DEF RequestRef, Walked, SnapExists, Clear, LastV, Early
  <2> QED BY <1>1, <2>1, <2>2 DEF Local, Active
<1> QED BY <1>2, <1>3

LEMMA PublishOrLoseLocal ==
    ASSUME IInv, NEW r \in Requests, Publish(r) \/ Lose(r)
    PROVE  Local(r)
<1>1. /\ pc[r] \in Active /\ op[r] \in Ops
      /\ UNCHANGED <<log, row, last, current, op, ver, snap>> /\ TypeOK
  BY DEF Publish, Lose, IInv, RequestInv, Control, Active
<1>2. CASE Publish(r)
  <2>1. pc'[r] \in {"acked", "dropped"} /\ Others(r)
    BY <1>1, <1>2, AnswerOutcome DEF Publish, Final, Others
  <2> QED BY <1>1, <2>1, EndsLocally
<1>3. CASE Lose(r)
  <2>1. pc'[r] = "lost" /\ Others(r)
    BY <1>1, <1>3 DEF Lose, Others, TypeOK
  <2> QED BY <1>1, <2>1, EndsLocally
<1> QED BY <1>2, <1>3

-----------------------------------------------------------------------------
(* A client sends its op for the first time or again.                      *)
LEMMA ReceiveRef ==
    ASSUME IInv, RefInv, NEW r \in Requests, NEW o \in Ops, NEW v \in NullV..Len(log),
           Receive(r, o, v)
    PROVE  RefInv'
<1> DEFINE w == IF v = NullV THEN 0 ELSE v
<1>1. /\ Len(log) \in Nat /\ v \in Nat \cup {NullV} /\ v <= Len(log)
      /\ pc[r] = "idle" /\ CanSend(o, v)
      /\ UNCHANGED <<log, row, snap>> /\ TypeOK
      /\ pc'[r] = "read" /\ op'[r] = o /\ ver'[r] = v
      /\ last' = [last EXCEPT ![o] = v] /\ current' = [current EXCEPT ![o] = r]
      /\ \A q \in Requests \ {r} : pc'[q] = pc[q] /\ op'[q] = op[q] /\ ver'[q] = ver[q]
  <2>1. TypeOK /\ Len(log) \in Nat
    BY LogType DEF IInv
  <2>2. v \in Nat \cup {NullV} /\ v <= Len(log)
    BY <2>1 DEF NullV
  <2>3. /\ pc[r] = "idle" /\ CanSend(o, v) /\ UNCHANGED <<log, row, snap>>
        /\ last' = [last EXCEPT ![o] = v] /\ current' = [current EXCEPT ![o] = r]
        /\ pc' = [pc EXCEPT ![r] = "read"]
        /\ op' = [op EXCEPT ![r] = o] /\ ver' = [ver EXCEPT ![r] = v]
    BY DEF Receive
  <2>4. /\ pc'[r] = "read" /\ op'[r] = o /\ ver'[r] = v
        /\ \A q \in Requests \ {r} : pc'[q] = pc[q] /\ op'[q] = op[q] /\ ver'[q] = ver[q]
    BY <2>1, <2>3 DEF TypeOK
  <2> QED BY <2>1, <2>2, <2>3, <2>4
<1>2. /\ w \in Nat /\ w <= Len(log)
      /\ LastV(o)' = w /\ current'[o] = r /\ v # Unsent
      /\ \A x \in Ops \ {o} : LastV(x)' = LastV(x) /\ current'[x] = current[x]
      /\ \A x \in Ops \ {o} : last'[x] = last[x]
      /\ last'[o] = v
  BY <1>1 DEF TypeOK, LastV, NullV, Unsent
<1> HIDE DEF w
<1>3. ASSUME last[o] = Unsent
      PROVE  /\ \A q \in Requests : op[q] # o
             /\ \A k \in 1..Len(log) : log[k].id # o
  <2>1. \A q \in Requests : op[q] # o
    <3> TAKE q \in Requests
    <3>1. CASE pc[q] = "idle"
      BY <3>1, NilAssumption DEF RefInv, RequestRef, SentOnce
    <3>2. CASE pc[q] # "idle"
      BY <1>3, <3>2 DEF IInv, RequestInv, Control
    <3> QED BY <3>1, <3>2
  <2> QED BY <1>3, <2>1 DEF IInv, SentInv
<1>4. ASSUME last[o] # Unsent
      PROVE  /\ LastV(o) \in Nat /\ LastV(o) <= w
             /\ o \in Resendable
             /\ v = NullV <=> last[o] = NullV
             /\ Kind[o] = "del" \/ Clear(o, LastV(o), w)
             /\ current[o] \in Requests =>
                   pc[current[o]] \notin {"acked", "refused", "skipped"}
  <2>1. CanResend(o, v)
    BY <1>1, <1>4 DEF CanSend
  <2>2. LastV(o) \in Nat
    BY <1>1, <1>4, LastVType
  <2>3. LastV(o) <= w
    BY <1>1, <2>1 DEF CanResend, LastV, w
  <2>4. Kind[o] = "del" \/ Clear(o, LastV(o), w)
    <3>1. CASE v = NullV
      BY <2>1, <2>2, <3>1 DEF CanResend, LastV, Clear, w
    <3>2. CASE v # NullV
      BY <2>1, <3>2 DEF CanResend, LastV, Clear, w
    <3> QED BY <3>1, <3>2
  <2> QED BY <2>1, <2>2, <2>3, <2>4 DEF CanResend
<1>5. Applies(o, w)
  <2>1. CASE last[o] = Unsent /\ v = NullV
    <3>1. Kind[o] = "create" /\ w = 0
      BY <1>1, <2>1, NullAssumption DEF CanSend, w
    <3> QED BY <3>1 DEF Applies, Created
  <2>2. CASE last[o] = Unsent /\ v # NullV
    <3>1. Kind[o] = "create" <=> ~Created(log, w)
      BY <1>1, <2>2 DEF CanSend, Legal, ExistsAt, Created, w
    <3> QED BY <3>1 DEF Applies
  <2>3. CASE last[o] # Unsent
    BY <1>2, <1>4, <2>3, ClearKeeps DEF RefInv, Sendable, Applies
  <2> QED BY <2>1, <2>2, <2>3
<1>6. Sendable'
  <2>1. v = NullV <=> o \in NullOps
    BY <1>1 DEF CanSend
  <2>3. ASSUME NEW x \in Ops \ {o}, last'[x] # Unsent
        PROVE  /\ LastV(x)' <= Len(log)'
               /\ Applies(x, LastV(x))'
               /\ last'[x] = NullV <=> x \in NullOps
    <3>1. LastV(x) \in Nat
      BY <1>1, <1>2, <2>3, LastVType
    <3> QED BY <1>1, <1>2, <2>3, <3>1 DEF RefInv, Sendable, Applies, Created
  <2>4. Applies(o, LastV(o))'
    BY <1>1, <1>2, <1>5 DEF Applies, Created
  <2> QED BY <1>1, <1>2, <2>1, <2>3, <2>4 DEF Sendable
<1>7. ASSUME NEW x \in Ops, last[x] # Unsent, NEW n \in Nat, Clear(x, LastV(x), n)
      PROVE  Clear(x, LastV(x), n)'
  <2>1. CASE x = o
    BY <1>1, <1>2, <1>4, <1>7, <2>1 DEF Clear
  <2>2. CASE x # o
    BY <1>1, <1>2, <1>7, <2>2 DEF Clear
  <2> QED BY <2>1, <2>2
<1>8. LoggedWalked'
  <2>1. ASSUME NEW k \in 1..Len(log)
        PROVE  Clear(log[k].id, LastV(log[k].id), k - 1)'
    <3>1. log[k].id \in Ops /\ last[log[k].id] # Unsent /\ k - 1 \in Nat
      BY <1>1, LogType DEF IInv, SentInv
    <3>2. Clear(log[k].id, LastV(log[k].id), k - 1)
      BY DEF RefInv, LoggedWalked
    <3>3. \A x \in Ops : x = log[k].id => Clear(x, LastV(x), k - 1)'
      BY <1>7, <3>1, <3>2
    <3> QED BY <1>1, <3>1, <3>3 DEF Clear, LastV
  <2> QED BY <1>1, <2>1 DEF LoggedWalked
<1>9. CreateNamed' /\ LoggedApplies'
  BY <1>1 DEF RefInv, CreateNamed, LoggedApplies, Created
<1>10. ASSUME NEW q \in Requests \ {r} PROVE RequestRef(q)'
  <2>1. /\ RequestRef(q) /\ RequestInv(q)
        /\ pc'[q] = pc[q] /\ op'[q] = op[q] /\ ver'[q] = ver[q] /\ snap'[q] = snap[q]
    BY <1>1 DEF RefInv, IInv
  <2>2. Walked(q)'
    <3> SUFFICES ASSUME pc[q] \in Early, ver[q] # NullV
                 PROVE  /\ Clear(op[q], LastV(op[q]), ver[q])'
                        /\ (current[op[q]] = q => LastV(op[q]) <= ver[q])'
      BY <2>1 DEF Walked
    <3>1. op[q] \in Ops /\ last[op[q]] # Unsent /\ ver[q] \in Nat
      BY <1>1, <2>1 DEF RequestInv, Control, Early, TypeOK
    <3>2. /\ Clear(op[q], LastV(op[q]), ver[q])
          /\ current[op[q]] = q => LastV(op[q]) <= ver[q]
      BY <2>1 DEF RequestRef, Walked
    <3>3. \A x \in Ops, n \in Nat : x = op[q] /\ n = ver[q] => Clear(x, LastV(x), n)'
      BY <1>7, <3>1, <3>2
    <3>4. Clear(op[q], LastV(op[q]), ver[q])'
      BY <2>1, <3>1, <3>3 DEF Clear, LastV
    <3>5. CASE op[q] = o
      BY <1>2, <2>1, <3>4, <3>5
    <3>6. CASE op[q] # o
      BY <1>2, <2>1, <3>1, <3>2, <3>4, <3>6 DEF LastV
    <3> QED BY <3>5, <3>6
  <2>3. SnapExists(q)'
    BY <1>1, <2>1 DEF RequestRef, SnapExists, Created
  <2>4. RefusedForGood(q)'
    <3> SUFFICES ASSUME pc[q] \in {"refused", "skipped"}
                 PROVE  /\ current'[op[q]] = q
                        /\ op[q] \in Resendable => Blocked(op[q])'
      BY <2>1 DEF RefusedForGood, Blocked, LastV
    <3>1. op[q] \in Ops /\ last[op[q]] # Unsent /\ current[op[q]] = q
      BY <2>1 DEF RequestInv, Control, RequestRef, RefusedForGood
    <3>2. op[q] # o
      BY <1>4, <3>1
    <3> QED BY <1>1, <1>2, <2>1, <3>1, <3>2 DEF RequestRef, RefusedForGood, Blocked
  <2>5. SentOnce(q)'
    <3>1. CASE op[q] = o
      BY <1>3, <1>4, <2>1, <3>1 DEF RequestRef, SentOnce
    <3>2. CASE op[q] # o
      BY <1>1, <2>1, <3>2 DEF RequestRef, SentOnce, Logged
    <3> QED BY <3>1, <3>2
  <2> QED BY <2>2, <2>3, <2>4, <2>5 DEF RequestRef
<1>11. RequestRef(r)'
  <2>1. Walked(r)'
    BY <1>1, <1>2 DEF Walked, Clear, w
  <2>2. SentOnce(r)'
    <3> SUFFICES ASSUME o \notin Resendable
                 PROVE  (\A q \in Requests : op'[q] = o => q = r) /\ ~Logged(o)
      BY <1>1 DEF SentOnce, Logged
    <3>1. last[o] = Unsent
      BY <1>4
    <3> QED BY <1>1, <1>3, <3>1 DEF Logged
  <2> QED BY <1>1, <2>1, <2>2 DEF RequestRef, SnapExists, RefusedForGood
<1> QED BY <1>6, <1>8, <1>9, <1>10, <1>11 DEF RefInv

-----------------------------------------------------------------------------
(* The commit that wins logs an op that was neither logged nor refused.    *)
LEMMA CommitFinds ==
    ASSUME IInv, RefInv, NEW r \in Requests, CommitWins(r)
    PROVE  /\ Clear(op[r], LastV(op[r]), Len(log))
           /\ ~Logged(op[r])
           /\ \A q \in Requests : pc[q] \in {"refused", "skipped"} => op[q] # op[r]
<1>1. pc[r] = "commit" /\ op[r] \in Ops /\ ver[r] = Len(log) /\ Len(log) \in Nat
  BY CommitAppends
<1>2. Clear(op[r], LastV(op[r]), Len(log))
  BY <1>1 DEF RefInv, RequestRef, Walked, Early, NullV
<1>3. ~Logged(op[r])
  BY <1>1 DEF IInv, RequestInv, NotPassed, Logged
<1>4. ASSUME NEW q \in Requests, pc[q] \in {"refused", "skipped"}, op[q] = op[r]
      PROVE  FALSE
  <2>1. CASE op[r] \in Resendable
    BY <1>2, <1>4, <2>1 DEF RefInv, RequestRef, RefusedForGood, Blocked, Clear
  <2>2. CASE op[r] \notin Resendable
    <3>1. q = r
      BY <1>1, <1>4, <2>2 DEF RefInv, RequestRef, SentOnce
    <3> QED BY <1>1, <1>4, <3>1
  <2> QED BY <2>1, <2>2
<1> QED BY <1>2, <1>3, <1>4

LEMMA CommitWinsRef ==
    ASSUME IInv, SnapshotMatchesLog, RefInv, NEW r \in Requests, CommitWins(r)
    PROVE  RefInv'
<1> DEFINE n == Len(log)
<1>1. /\ n \in Nat /\ Len(log') = n + 1 /\ log'[n + 1].id = op[r]
      /\ \A i \in 1..n : log'[i] = log[i]
      /\ ver[r] = n /\ op[r] \in Ops /\ pc[r] = "commit"
      /\ \A i \in 1..n : log[i].id \in Ops
  BY CommitAppends, LogType DEF IInv
<1>2. /\ UNCHANGED <<last, current, op, ver, snap>> /\ TypeOK
      /\ pc'[r] = "publish" /\ \A q \in Requests \ {r} : pc'[q] = pc[q]
      /\ row' = Stored(snap[r]) /\ snap[r].v = n + 1
  BY DEF CommitWins, IInv, TypeOK
<1>3. \A x : LastV(x)' = LastV(x)
  BY <1>2 DEF LastV
<1> HIDE DEF n
<1>4. \A m \in 0..n : Created(log', m) <=> Created(log, m)
  <2> TAKE m \in 0..n
  <2>1. m \in Nat /\ \A i \in 1..m : log'[i] = log[i]
    BY <1>1
  <2> QED BY <2>1, PrefixCreated
<1>5. ASSUME NEW x, NEW m, NEW k \in Int, k <= n, m \in Nat
      PROVE  Clear(x, m, k)' <=> Clear(x, m, k)
  BY <1>1, <1>5 DEF Clear
<1>6. Sendable'
  <2> SUFFICES ASSUME NEW x \in Ops, last[x] # Unsent
               PROVE  /\ LastV(x) <= n + 1
                      /\ Applies(x, LastV(x))'
                      /\ last[x] = NullV <=> x \in NullOps
    BY <1>1, <1>2, <1>3 DEF Sendable
  <2>1. LastV(x) \in 0..n /\ Applies(x, LastV(x)) /\ (last[x] = NullV <=> x \in NullOps)
    BY <1>1, <1>2, LastVType DEF RefInv, Sendable, n
  <2> QED BY <1>1, <1>3, <1>4, <2>1 DEF Applies
<1>7. LoggedWalked'
  <2>1. ASSUME NEW k \in 1..n + 1
        PROVE  Clear(log'[k].id, LastV(log'[k].id), k - 1)
    <3>1. CASE k = n + 1
      BY <1>1, <3>1, CommitFinds DEF n
    <3>2. CASE k # n + 1
      <4>1. k \in 1..n
        BY <1>1, <3>2
      <4> QED BY <1>1, <4>1 DEF RefInv, LoggedWalked, n
    <3> QED BY <3>1, <3>2
  <2>2. ASSUME NEW k \in 1..n + 1
        PROVE  Clear(log[k].id, LastV(log[k].id), k - 1)'
    <3>1. log'[k].id \in Ops /\ last[log'[k].id] # Unsent /\ k - 1 \in Int /\ k - 1 <= n
      <4>1. CASE k = n + 1
        BY <1>1, <4>1 DEF IInv, RequestInv, Control
      <4>2. CASE k # n + 1
        <5>1. k \in 1..n
          BY <1>1, <4>2
        <5> QED BY <1>1, <5>1 DEF IInv, SentInv, n
      <4> QED BY <4>1, <4>2, <1>1
    <3>2. LastV(log'[k].id) \in Nat
      BY <1>2, <3>1, LastVType
    <3>3. \A i \in LastV(log'[k].id) + 1 .. k - 1 : log'[i] = log[i]
      BY <1>1, <3>1, <3>2
    <3> QED BY <1>3, <2>1, <3>3 DEF Clear
  <2> QED BY <1>1, <2>2 DEF LoggedWalked
<1>8. CreateNamed'
  <2>1. GetSnapshot \in Snapshots /\ snap[r] \in Snapshots
        /\ snap[r] = ApplyOp(GetSnapshot, op[r], ver[r])
        /\ CanApply(Kind[op[r]], row.exists)
        /\ Kind[op[r]] \in Kinds
        /\ GetSnapshot.exists = row.exists
    BY <1>1, <1>2, GetSnapshotType, KindAssumption
       DEF IInv, TypeOK, RequestInv, Fresh, n
  <2>2. row'.exists => row' = snap[r] /\ snap[r].exists
    BY <1>2, <2>1, StoredType
  <2>3. CASE Kind[op[r]] = "create"
    BY <2>1, <2>2, <2>3 DEF ApplyOp, CreateNamed
  <2>4. CASE Kind[op[r]] # "create"
    <3>1. /\ snap[r].create = GetSnapshot.create
          /\ snap[r].exists = ExistsAfter(Kind[op[r]], GetSnapshot.exists)
      BY <2>1, <2>4 DEF ApplyOp
    <3>2. row'.exists => row.exists
      BY <2>1, <2>2, <2>4, <3>1 DEF ExistsAfter
    <3>3. row.exists => GetSnapshot.create = row.create
      BY DEF GetSnapshot
    <3> QED BY <2>2, <3>1, <3>2, <3>3 DEF CreateNamed, RefInv
  <2> QED BY <2>3, <2>4
<1>9. ASSUME NEW q \in Requests PROVE RequestRef(q)'
  <2>1. RequestRef(q) /\ RequestInv(q)
    BY DEF RefInv, IInv
  <2>2. Walked(q)'
    <3> SUFFICES ASSUME pc'[q] \in Early, ver[q] # NullV
                 PROVE  /\ Clear(op[q], LastV(op[q]), ver[q])'
                        /\ current[op[q]] = q => LastV(op[q]) <= ver[q]
      BY <1>2, <1>3 DEF Walked
    <3>1. q # r /\ pc[q] \in Early
      BY <1>2 DEF Early
    <3>2. /\ op[q] \in Ops /\ last[op[q]] # Unsent /\ ver[q] \in Nat /\ ver[q] <= n
          /\ Clear(op[q], LastV(op[q]), ver[q])
          /\ current[op[q]] = q => LastV(op[q]) <= ver[q]
      BY <1>2, <2>1, <3>1 DEF RequestInv, Control, RequestRef, Walked, TypeOK, Early, n
    <3>3. LastV(op[q]) \in Nat
      BY <1>2, <3>2, LastVType
    <3>4. \A i \in LastV(op[q]) + 1 .. ver[q] : log'[i] = log[i]
      BY <1>1, <3>2, <3>3
    <3> QED BY <1>2, <1>3, <3>2, <3>4 DEF Clear
  <2>3. SnapExists(q)'
    <3> SUFFICES ASSUME pc'[q] \in {"getops", "apply"}
                 PROVE  snap[q].exists <=> Created(log', snap[q].v)
      BY <1>2 DEF SnapExists
    <3>1. q # r /\ pc[q] \in {"getops", "apply"} /\ snap[q] \in Snapshots
      BY <1>2 DEF TypeOK
    <3>2. snap[q].v \in 0..n
      BY <1>1, <2>1, <3>1 DEF RequestInv, Control, Snapshots, n
    <3> QED BY <1>4, <2>1, <3>1, <3>2 DEF RequestRef, SnapExists
  <2>4. RefusedForGood(q)'
    <3> SUFFICES ASSUME pc'[q] \in {"refused", "skipped"}
                 PROVE  /\ current[op[q]] = q
                        /\ op[q] \in Resendable => Blocked(op[q])'
      BY <1>2 DEF RefusedForGood
    <3>1. /\ q # r /\ pc[q] \in {"refused", "skipped"}
          /\ op[q] \in Ops /\ last[op[q]] # Unsent
      BY <1>2, <2>1 DEF RequestInv, Control
    <3>2. LastV(op[q]) \in Nat
      BY <1>2, <3>1, LastVType
    <3>3. ASSUME op[q] \in Resendable PROVE Blocked(op[q])'
      <4>1. PICK i \in LastV(op[q]) + 1 .. n : Conflicts(Kind[op[q]], Kind[log[i].id])
        BY <2>1, <3>1, <3>3 DEF RequestRef, RefusedForGood, Blocked, n
      <4>2. i \in LastV(op[q]) + 1 .. Len(log') /\ log'[i] = log[i]
        BY <1>1, <3>2
      <4> QED BY <1>2, <1>3, <4>1, <4>2 DEF Blocked
    <3> QED BY <2>1, <3>1, <3>3 DEF RequestRef, RefusedForGood
  <2>5. SentOnce(q)'
    <3>1. Logged(op[q])' => Logged(op[q]) \/ op[q] = op[r]
      BY <1>1, <1>2 DEF Logged, n
    <3>2. CASE q = r
      BY <1>2, <2>1, <3>2 DEF RequestRef, SentOnce
    <3>3. CASE q # r
      <4>1. op[q] \in Ops \ Resendable => op[r] # op[q]
        BY <2>1, <3>3 DEF RequestRef, SentOnce
      <4> QED BY <1>2, <2>1, <3>1, <3>3, <4>1 DEF RequestRef, SentOnce
    <3> QED BY <3>2, <3>3
  <2> QED BY <2>2, <2>3, <2>4, <2>5 DEF RequestRef
<1>10. LoggedApplies'
  <2> SUFFICES ASSUME NEW k \in 1..n + 1, Kind[log'[k].id] = "edit"
               PROVE  Created(log', k - 1)
    BY <1>1 DEF LoggedApplies
  <2>1. k - 1 \in 0..n
    BY <1>1
  <2>2. CASE k = n + 1
    <3>1. CanApply(Kind[op[r]], row.exists) /\ Kind[op[r]] = "edit"
      BY <1>1, <1>2, <2>2 DEF IInv, RequestInv, Fresh, n
    <3>2. row.exists
      BY <3>1 DEF CanApply
    <3>3. row.exists = Created(log, n)
      BY SnapshotMeans DEF n
    <3>4. k - 1 = n
      BY <1>1, <2>2
    <3>5. Created(log, k - 1)
      BY <3>2, <3>3, <3>4
    <3> QED BY <1>4, <2>1, <3>5
  <2>3. CASE k # n + 1
    <3>1. k \in 1..n
      BY <1>1, <2>3
    <3>2. Created(log, k - 1)
      BY <1>1, <3>1 DEF RefInv, LoggedApplies, n
    <3> QED BY <1>4, <2>1, <3>2
  <2> QED BY <2>2, <2>3
<1> QED BY <1>6, <1>7, <1>8, <1>9, <1>10 DEF RefInv

-----------------------------------------------------------------------------
(* Every action but a sending and a commit that wins is local.             *)
LEMMA StepIsLocal ==
    ASSUME IInv, SnapshotMatchesLog, RefInv, SafeNulls, SafeRefusals,
           NEW r \in Requests, Step(r) \/ Lose(r), ~CommitWins(r)
    PROVE  Local(r)
BY ReadSnapshotLocal, GetOpsLocal, ApplyLocal, RejectLocal, CommitLosesLocal,
   PublishOrLoseLocal DEF Step

LEMMA RefStep ==
    ASSUME IInv, SnapshotMatchesLog, RefInv, SafeNulls, SafeRefusals, [Next]_vars
    PROVE  RefInv'
<1>1. CASE UNCHANGED vars
  BY <1>1 DEF vars, RefInv, Sendable, LoggedWalked, LoggedApplies, CreateNamed, RequestRef, Walked,
              SnapExists, RefusedForGood, SentOnce, Applies, Created, Clear, LastV,
              Blocked, Logged
<1>2. CASE Next
  BY <1>2, StepIsLocal, LocalRef, ReceiveRef, CommitWinsRef DEF Next
<1> QED BY <1>1, <1>2

-----------------------------------------------------------------------------
(* The client's view of the state, as the refinement mapping has it.       *)
IdsOf(l) == [i \in 1..Len(l) |-> l[i].id]

AckPairs == {<<op[r], ver[r]>> : r \in {q \in Requests : pc[q] = "acked"}}

RefusedOps == {op[r] : r \in {q \in Requests : pc[q] \in {"refused", "skipped"}}}

LEMMA IdsOfType ==
    ASSUME NEW l \in Seq(Entries)
    PROVE  /\ IdsOf(l) \in Seq(Ops) /\ Len(IdsOf(l)) = Len(l) /\ Len(l) \in Nat
           /\ \A i \in 1..Len(l) : IdsOf(l)[i] = l[i].id
<1>1. Len(l) \in Nat /\ \A i \in 1..Len(l) : l[i].id \in Ops
  <2>1. Len(l) \in Nat /\ \A i \in 1..Len(l) : l[i] \in Entries
    OBVIOUS
  <2> QED BY <2>1 DEF Entries
<1>2. IdsOf(l) \in [1..Len(l) -> Ops]
  BY <1>1 DEF IdsOf
<1>3. IdsOf(l) \in Seq(Ops) /\ Len(IdsOf(l)) = Len(l)
  BY <1>1, <1>2, SeqDef, LenProperties
<1> QED BY <1>1, <1>3 DEF IdsOf

LEMMA IdsOfAppend ==
    ASSUME NEW l \in Seq(Entries), NEW e \in Entries
    PROVE  IdsOf(Append(l, e)) = Append(IdsOf(l), e.id)
<1> DEFINE m == Append(l, e)
           s == IdsOf(m)
           t == Append(IdsOf(l), e.id)
<1>1. /\ m \in Seq(Entries) /\ Len(m) = Len(l) + 1 /\ m[Len(l) + 1] = e
      /\ \A i \in 1..Len(l) : m[i] = l[i]
      /\ e.id \in Ops /\ Len(l) \in Nat
  BY DEF Entries
<1> HIDE DEF m
<1>2. /\ s \in Seq(Ops) /\ Len(s) = Len(l) + 1
      /\ s[Len(l) + 1] = e.id /\ \A i \in 1..Len(l) : s[i] = l[i].id
  BY <1>1, IdsOfType
<1>3. /\ t \in Seq(Ops) /\ Len(t) = Len(l) + 1
      /\ t[Len(l) + 1] = e.id /\ \A i \in 1..Len(l) : t[i] = l[i].id
  BY <1>1, IdsOfType
<1>4. \A i \in 1..Len(s) : s[i] = t[i]
  <2> TAKE i \in 1..Len(s)
  <2>1. i = Len(l) + 1 \/ i \in 1..Len(l)
    BY <1>1, <1>2
  <2> QED BY <1>2, <1>3, <2>1
<1> HIDE DEF s, t
<1>5. s = t
  BY <1>2, <1>3, <1>4, SeqEqual
<1> QED BY <1>5 DEF s, t, m

(* A step of one request adds at most one acknowledgement or refusal.      *)
LEMMA AcksAfter ==
    ASSUME NEW r \in Requests, op' = op, pc[r] \notin Final,
           \A q \in Requests \ {r} : pc'[q] = pc[q] /\ ver'[q] = ver[q]
    PROVE  AckPairs' = IF pc'[r] = "acked"
                       THEN AckPairs \cup {<<op[r], ver'[r]>>}
                       ELSE AckPairs
<1>1. ASSUME NEW x
      PROVE  x \in AckPairs' <=> x \in AckPairs \/ (pc'[r] = "acked" /\ x = <<op[r], ver'[r]>>)
  <2>1. x \in AckPairs' <=> \E q \in Requests : pc'[q] = "acked" /\ x = <<op[q], ver'[q]>>
    BY DEF AckPairs
  <2>2. x \in AckPairs <=> \E q \in Requests : pc[q] = "acked" /\ x = <<op[q], ver[q]>>
    BY DEF AckPairs
  <2>3. pc[r] # "acked"
    BY DEF Final
  <2> QED BY <2>1, <2>2, <2>3
<1> QED BY <1>1

LEMMA RefusedAfter ==
    ASSUME NEW r \in Requests, op' = op, pc[r] \notin Final,
           \A q \in Requests \ {r} : pc'[q] = pc[q]
    PROVE  RefusedOps' = IF pc'[r] \in {"refused", "skipped"}
                         THEN RefusedOps \cup {op[r]}
                         ELSE RefusedOps
<1>1. ASSUME NEW x
      PROVE  x \in RefusedOps' <=>
                x \in RefusedOps \/ (pc'[r] \in {"refused", "skipped"} /\ x = op[r])
  <2>1. x \in RefusedOps' <=>
           \E q \in Requests : pc'[q] \in {"refused", "skipped"} /\ x = op[q]
    BY DEF RefusedOps
  <2>2. x \in RefusedOps <=>
           \E q \in Requests : pc[q] \in {"refused", "skipped"} /\ x = op[q]
    BY DEF RefusedOps
  <2>3. pc[r] \notin {"refused", "skipped"}
    BY DEF Final
  <2> QED BY <2>1, <2>2, <2>3
<1> QED BY <1>1

(* What an op, an acknowledgement and a refusal are in OpLog.              *)
ClientStep ==
    \/ \E o \in Ops :
          \/ /\ ~Logged(o) /\ o \notin RefusedOps
             /\ IdsOf(log)' = Append(IdsOf(log), o)
             /\ UNCHANGED <<AckPairs, RefusedOps>>
          \/ \E v \in 0..Len(log) :
                /\ v + 1 \in 1..Len(log) /\ log[v + 1].id = o
                /\ AckPairs' = AckPairs \cup {<<o, v>>}
                /\ UNCHANGED <<IdsOf(log), RefusedOps>>
          \/ /\ Logged(o) => DeletedAfter(o)
             /\ RefusedOps' = RefusedOps \cup {o}
             /\ UNCHANGED <<IdsOf(log), AckPairs>>
    \/ UNCHANGED <<IdsOf(log), AckPairs, RefusedOps>>

LEMMA LocalStepSeen ==
    ASSUME IInv, IInv', NEW r \in Requests, Local(r)
    PROVE  ClientStep
<1>1. /\ log' = log /\ op' = op /\ op[r] \in Ops /\ pc[r] \notin Final
      /\ pc'[r] \in Active \cup Final
      /\ \A q \in Requests \ {r} : pc'[q] = pc[q] /\ ver'[q] = ver[q]
      /\ Len(log) \in Nat
  BY LogType DEF Local, Others, Active, Final, IInv
<1>2. IdsOf(log)' = IdsOf(log)
  BY <1>1 DEF IdsOf
<1>3. CASE pc'[r] = "acked"
  <2>1. ver'[r] \in Nat \cup {NullV} /\ Placed(r)'
    BY DEF IInv, TypeOK, RequestInv
  <2>2. ver'[r] + 1 \in 1..Len(log) /\ log[ver'[r] + 1].id = op[r]
    BY <1>1, <1>3, <2>1 DEF Placed
  <2>3. ver'[r] \in 0..Len(log)
    BY <1>1, <2>1, <2>2 DEF NullV
  <2>4. AckPairs' = AckPairs \cup {<<op[r], ver'[r]>>} /\ RefusedOps' = RefusedOps
    BY <1>1, <1>3, AcksAfter, RefusedAfter
  <2> QED BY <1>1, <1>2, <2>2, <2>3, <2>4 DEF ClientStep
<1>4. CASE pc'[r] \in {"refused", "skipped"}
  <2>1. Logged(op[r]) => DeletedAfter(op[r])
    BY <1>4 DEF Local, Refused
  <2>2. AckPairs' = AckPairs /\ RefusedOps' = RefusedOps \cup {op[r]}
    BY <1>1, <1>4, AcksAfter, RefusedAfter
  <2> QED BY <1>1, <1>2, <2>1, <2>2 DEF ClientStep
<1>5. CASE pc'[r] \notin {"acked", "refused", "skipped"}
  <2>1. AckPairs' = AckPairs /\ RefusedOps' = RefusedOps
    BY <1>1, <1>5, AcksAfter, RefusedAfter
  <2> QED BY <1>2, <2>1 DEF ClientStep
<1> QED BY <1>3, <1>4, <1>5

LEMMA ReceiveSeen ==
    ASSUME IInv, NEW r \in Requests, NEW o \in Ops, NEW v \in NullV..Len(log),
           Receive(r, o, v)
    PROVE  ClientStep
<1>1. /\ log' = log /\ pc[r] = "idle" /\ pc'[r] = "read" /\ TypeOK
      /\ \A q \in Requests \ {r} : pc'[q] = pc[q] /\ op'[q] = op[q] /\ ver'[q] = ver[q]
  BY DEF Receive, IInv, TypeOK
<1>2. IdsOf(log)' = IdsOf(log)
  BY <1>1 DEF IdsOf
<1>3. \A x : x \in AckPairs' <=> x \in AckPairs
  <2> TAKE x
  <2>1. x \in AckPairs' <=> \E q \in Requests : pc'[q] = "acked" /\ x = <<op'[q], ver'[q]>>
    BY DEF AckPairs
  <2>2. x \in AckPairs <=> \E q \in Requests : pc[q] = "acked" /\ x = <<op[q], ver[q]>>
    BY DEF AckPairs
  <2> QED BY <1>1, <2>1, <2>2
<1>4. \A x : x \in RefusedOps' <=> x \in RefusedOps
  <2> TAKE x
  <2>1. x \in RefusedOps' <=>
           \E q \in Requests : pc'[q] \in {"refused", "skipped"} /\ x = op'[q]
    BY DEF RefusedOps
  <2>2. x \in RefusedOps <=>
           \E q \in Requests : pc[q] \in {"refused", "skipped"} /\ x = op[q]
    BY DEF RefusedOps
  <2> QED BY <1>1, <2>1, <2>2
<1>5. AckPairs' = AckPairs /\ RefusedOps' = RefusedOps
  BY <1>3, <1>4
<1> QED BY <1>2, <1>5 DEF ClientStep

LEMMA CommitSeen ==
    ASSUME IInv, RefInv, NEW r \in Requests, CommitWins(r)
    PROVE  ClientStep
<1> DEFINE e == [id |-> op[r], comp |-> comp[r], fixup |-> fix[r]]
<1>1. /\ op[r] \in Ops /\ pc[r] = "commit" /\ ~Logged(op[r])
      /\ \A q \in Requests : pc[q] \in {"refused", "skipped"} => op[q] # op[r]
  BY CommitFinds, CommitAppends
<1>2. /\ log \in Seq(Entries) /\ e \in Entries /\ log' = Append(log, e) /\ e.id = op[r]
      /\ op' = op /\ ver' = ver /\ pc'[r] = "publish"
      /\ \A q \in Requests \ {r} : pc'[q] = pc[q]
  BY <1>1 DEF CommitWins, IInv, TypeOK, Entries
<1> HIDE DEF e
<1>3. IdsOf(log)' = Append(IdsOf(log), op[r])
  <2>1. IdsOf(Append(log, e)) = Append(IdsOf(log), op[r])
    BY <1>2, IdsOfAppend
  <2> QED BY <1>2, <2>1
<1>4. AckPairs' = AckPairs /\ RefusedOps' = RefusedOps
  <2>1. pc[r] \notin Final
    BY <1>1 DEF Final
  <2> QED BY <1>2, <2>1, AcksAfter, RefusedAfter
<1>5. op[r] \notin RefusedOps
  BY <1>1 DEF RefusedOps
<1> QED BY <1>1, <1>3, <1>4, <1>5 DEF ClientStep

LEMMA NextSeen ==
    ASSUME IInv, IInv', SnapshotMatchesLog, RefInv, SafeNulls, SafeRefusals, [Next]_vars
    PROVE  ClientStep
<1>1. CASE UNCHANGED vars
  BY <1>1 DEF vars, ClientStep, IdsOf, AckPairs, RefusedOps
<1>2. CASE Next
  BY <1>2, StepIsLocal, LocalStepSeen, ReceiveSeen, CommitSeen DEF Next
<1> QED BY <1>1, <1>2

(* A step that the clients see is one of OpLog.                            *)
LEMMA SeenIsOpLog ==
    ASSUME TypeOK, ClientStep
    PROVE  [ClientLog!LogNext]_(ClientLog!logVars)
<1>1. log \in Seq(Entries)
  BY DEF TypeOK, Entries
<1>2. /\ Len(IdsOf(log)) = Len(log) /\ Len(log) \in Nat
      /\ \A i \in 1..Len(log) : IdsOf(log)[i] = log[i].id
  BY <1>1, IdsOfType
<1>3. \A o : ClientLog!Logged(o) <=> Logged(o)
  BY <1>2 DEF ClientLog!Logged, Logged, IdsOf
<1>4. CASE UNCHANGED <<IdsOf(log), AckPairs, RefusedOps>>
  BY <1>4 DEF ClientLog!logVars, IdsOf, AckPairs, RefusedOps
<1>5. ASSUME NEW o \in Ops, ~Logged(o), o \notin RefusedOps,
             IdsOf(log)' = Append(IdsOf(log), o),
             UNCHANGED <<AckPairs, RefusedOps>>
      PROVE  ClientLog!AppendOp(o)
  BY <1>3, <1>5 DEF ClientLog!AppendOp, IdsOf, AckPairs, RefusedOps
<1>6. ASSUME NEW o \in Ops, NEW v \in 0..Len(log),
             v + 1 \in 1..Len(log), log[v + 1].id = o,
             AckPairs' = AckPairs \cup {<<o, v>>},
             UNCHANGED <<IdsOf(log), RefusedOps>>
      PROVE  ClientLog!Acknowledge(o, v)
  <2>1. v + 1 \in 1..Len(IdsOf(log)) /\ IdsOf(log)[v + 1] = o
    BY <1>2, <1>6
  <2> QED BY <1>6, <2>1 DEF ClientLog!Acknowledge, IdsOf, AckPairs, RefusedOps
<1>7. ASSUME NEW o \in Ops, Logged(o) => DeletedAfter(o),
             RefusedOps' = RefusedOps \cup {o},
             UNCHANGED <<IdsOf(log), AckPairs>>
      PROVE  ClientLog!Refuse(o)
  <2>1. DeletedAfter(o) => ClientLog!DeletedSince(o)
    <3> SUFFICES ASSUME DeletedAfter(o) PROVE ClientLog!DeletedSince(o)
      OBVIOUS
    <3>1. PICK i, j \in 1..Len(log) :
             i < j /\ log[i].id = o /\ Kind[log[j].id] = "del"
      BY DEF DeletedAfter
    <3>2. log[j].id \in Ops
      <4>1. log[j] \in Entries
        BY <1>1
      <4> QED BY <4>1 DEF Entries
    <3>3. /\ i \in 1..Len(IdsOf(log)) /\ j \in 1..Len(IdsOf(log))
          /\ IdsOf(log)[i] = o
          /\ IdsOf(log)[j] \in {x \in Ops : Kind[x] = "del"}
      BY <1>2, <3>1, <3>2
    <3> QED BY <3>1, <3>3 DEF ClientLog!DeletedSince, IdsOf
  <2> QED BY <1>3, <1>7, <2>1 DEF ClientLog!Refuse, IdsOf, AckPairs, RefusedOps
<1>8. Len([i \in 1..Len(log) |-> log[i].id]) = Len(log)
  BY <1>2 DEF IdsOf
<1> QED BY <1>4, <1>5, <1>6, <1>7, <1>8 DEF ClientStep, ClientLog!LogNext

LEMMA InitSeen == Init => ClientLog!LogInit
<1> SUFFICES ASSUME Init PROVE ClientLog!LogInit
  OBVIOUS
<1>1. Len(log) = 0 /\ \A r \in Requests : pc[r] = "idle"
  BY DEF Init
<1>2. [i \in 1..Len(log) |-> log[i].id] = <<>>
  BY <1>1
<1> QED BY <1>1, <1>2 DEF ClientLog!LogInit

(* What clients see of the concurrent, resent, retried and lost requests   *)
(* is the log of OpLog: every op at most once, acknowledgements that name  *)
(* its place, and after a refusal neither, unless the op had been logged   *)
(* and the document deleted since (SubmitRequest, Agent._submit).          *)
THEOREM Refinement ==
    ASSUME SafeNulls, SafeRefusals PROVE Spec => ImplementsOpLog
<1>1. IInv /\ SnapshotMatchesLog /\ RefInv /\ [Next]_vars => RefInv'
  BY RefStep
<1>2. IInv /\ IInv' /\ SnapshotMatchesLog /\ RefInv /\ [Next]_vars =>
         [ClientLog!LogNext]_(ClientLog!logVars)
  <2>1. IInv => TypeOK
    BY DEF IInv
  <2> QED BY <2>1, NextSeen, SeenIsOpLog
<1> QED BY Invariance, SnapshotMatchesLogCorrect, InitRef, InitSeen, <1>1, <1>2, PTL
        DEF Spec, ImplementsOpLog, ClientLog!LogSpec
=============================================================================
