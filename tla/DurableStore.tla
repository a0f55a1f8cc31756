---------------------------- MODULE DurableStore ----------------------------
(***************************************************************************)
(* The client's DurableStore (lib/client/durable-store.js): the queue of   *)
(* doc records, the batches written one at a time, the inventory, flush,   *)
(* and a restart of the application.  The storage engine writes a batch    *)
(* and the inventory in one transaction (storage/indexed-db-storage.js:    *)
(* writeRecords) or not at all.                                            *)
(* A put is known by its number, its place in puts; of a record the model  *)
(* keeps the version.  The flag "has ops to send", which the inventory     *)
(* holds beside the version, is set and read where the version is.         *)
(***************************************************************************)
EXTENDS Integers, Sequences, FiniteSets, SequencesExt

CONSTANTS
    Docs,           \* docs with a durable store
    Scenarios,      \* sets of bounds and faults, one is chosen at Init; see `sc'
    MaxPuts,        \* how many records are put
    MaxFlushes,     \* how often flush is called
    MaxBatchSize,   \* options.maxBatchSize
    Unborn          \* the version of a doc nothing is known of: null

ASSUME BatchAssumption == MaxBatchSize \in Nat \ {0}

ASSUME DocsAssumption == IsFiniteSet(Docs)

ASSUME BoundsAssumption ==
    /\ MaxPuts \in Nat /\ MaxFlushes \in Nat
    /\ \A s \in Scenarios : s.versions \in Nat /\ s.restarts \in Nat
    /\ Unborn \notin Nat

VARIABLES
    sc,         \* versions: up to which the docs go; fails: may a write fail;
                \* regresses: is a doc put without a version, after a hard
                \* rollback; toggles: is auto batching turned off; restarts:
                \* how often the application restarts
    puts,       \* what was put: doc, version
    queue,      \* docQueueItems: numbers of puts
    batch,      \* the batch being written; busy means it is not empty
    auto,       \* _autoBatchEnabled
    inventory,  \* the inventory in memory: doc -> version
    disk,       \* the storage: its inventory, and doc -> number of a put, or 0
    told,       \* put -> its callback: "no", "early", "ok" or "error",
                \* "refused" after "early", or "lost" with a restart
    waiting,    \* flushCallbacks, each with the number of puts it was called after
    flushes,    \* how often flush was called
    promised,   \* puts that a waiting flush was told are written
    known,      \* doc -> the latest version of it the application has
    restarts    \* how often it restarted

vars == <<sc, puts, queue, batch, auto, inventory, disk, told, waiting, flushes, promised,
          known, restarts>>

Versions == 0..sc.versions

busy == batch # <<>>

DocOf(n) == puts[n].d

Later(m, n) == IF m > n THEN m ELSE n

-----------------------------------------------------------------------------
(* hasMinVersion and the check of the version's type: no record may take   *)
(* the place of one with a later version.                                  *)
Regression(old, v) == old # Unborn /\ (v = Unborn \/ v < old)

(* Bug: the docs of a batch are not told apart.                            *)
BatchRepeats(q, all) == SubSeq(q, 1, IF Len(q) < MaxBatchSize THEN Len(q) ELSE MaxBatchSize)

(* The records that _putNextBatchFromQueue takes from a queue: as many as  *)
(* fit, and no two of the same doc.                                        *)
Batch(q, all) ==
    LET Distinct(k) == \A i, j \in 1..k : all[q[i]].d = all[q[j]].d => i = j
        sizes == {k \in 0..Len(q) : k <= MaxBatchSize /\ Distinct(k)}
    IN SubSeq(q, 1, CHOOSE k \in sizes : \A l \in sizes : l <= k)

(* One record that would take its doc back rejects its whole batch.        *)
Rejected(b, all) ==
    \E i \in DOMAIN b : Regression(inventory[all[b[i]].d], all[b[i]].v)

(* How much of the queue is thrown away before a batch is good.            *)
Wasted(q, all) ==
    LET from[k \in 0..Len(q)] ==
          LET b == Batch(SubSeq(q, k + 1, Len(q)), all)
          IN IF b = <<>> \/ ~Rejected(b, all) THEN k ELSE from[k + Len(b)]
    IN from[0]

(* The callbacks of records that are thrown away; a put that was answered  *)
(* before ("early") never learns of it.                                    *)
Refuse(answers, ns) ==
    [n \in DOMAIN answers |->
       IF n \notin ToSet(ns) THEN answers[n]
       ELSE IF answers[n] = "early" THEN "refused" ELSE "error"]

Tell(answers, ns, answer) ==
    [n \in DOMAIN answers |->
       IF n \in ToSet(ns) /\ answers[n] # "early" THEN answer ELSE answers[n]]

(* Bug: the versions are not checked.                                      *)
BeginUnchecked(q, answers, all) ==
    LET b == Batch(q, all)
    IN /\ queue' = SubSeq(q, Len(b) + 1, Len(q))
       /\ batch' = b
       /\ told' = answers
       /\ inventory' = [d \in Docs |->
                          IF \E i \in DOMAIN b : all[b[i]].d = d
                          THEN all[CHOOSE m \in ToSet(b) : all[m].d = d].v
                          ELSE inventory[d]]

(* Bug: the inventory takes in all of the queue.                           *)
BeginEager(q, answers, all) ==
    LET k == Wasted(q, all)
        b == Batch(SubSeq(q, k + 1, Len(q)), all)
    IN /\ queue' = SubSeq(q, k + Len(b) + 1, Len(q))
       /\ batch' = b
       /\ told' = Refuse(answers, SubSeq(q, 1, k))
       /\ inventory' = [d \in Docs |->
                          IF \E n \in ToSet(q) : all[n].d = d
                          THEN all[CHOOSE n \in ToSet(q) :
                                     all[n].d = d /\ \A m \in ToSet(q) : all[m].d = d => m <= n].v
                          ELSE inventory[d]]

(* _putNextBatchFromQueue: the inventory in memory is changed before the   *)
(* write.  If every batch is rejected the store is idle again, and the     *)
(* flush callbacks stay where they are.                                    *)
Begin(q, answers, all) ==
    \E k \in {Wasted(q, all)} :
    \E b \in {Batch(SubSeq(q, k + 1, Len(q)), all)} :
       /\ queue' = SubSeq(q, k + Len(b) + 1, Len(q))
       /\ batch' = b
       /\ told' = Refuse(answers, SubSeq(q, 1, k))
       /\ inventory' = [d \in Docs |->
                          IF \E i \in DOMAIN b : all[b[i]].d = d
                          THEN all[CHOOSE m \in ToSet(b) : all[m].d = d].v
                          ELSE inventory[d]]

-----------------------------------------------------------------------------
(* The records the application may put for a doc: it is never behind what  *)
(* the doc was at, but has no version before its first fetch or after a    *)
(* hard rollback.                                                          *)
Records(d) ==
    [d : {d},
     v : {v \in Versions : known[d] = Unborn \/ v >= known[d]}
         \cup (IF known[d] = Unborn \/ sc.regresses THEN {Unborn} ELSE {})]

Know(rs) ==
    known' = [d \in Docs |->
                IF \E i \in DOMAIN rs : rs[i].d = d /\ rs[i].v # Unborn
                THEN (CHOOSE r \in ToSet(rs) : r.d = d).v
                ELSE known[d]]

(* putDoc.                                                                 *)
Put(d) ==
    \E r \in Records(d) :
        LET n == Len(puts) + 1
            all == Append(puts, r)
            q == Append(queue, n)
            answers == Append(told, IF auto THEN "no" ELSE "early")
        IN /\ n <= MaxPuts
           /\ puts' = all
           /\ Know(<<r>>)
           /\ IF auto /\ ~busy
              THEN Begin(q, answers, all)
              ELSE /\ queue' = q
                   /\ told' = answers
                   /\ UNCHANGED <<batch, inventory>>
           /\ UNCHANGED <<sc, auto, disk, waiting, flushes, promised, restarts>>

(* putDocsBulk: every putDoc calls back at once, the last of them flushes. *)
PutBulk ==
    \E f \in UNION {[D -> UNION {Records(d) : d \in D}] : D \in (SUBSET Docs) \ {{}}} :
        LET ds == SetToSeq(DOMAIN f)
            rs == [i \in DOMAIN ds |-> f[ds[i]]]
            all == puts \o rs
            q == queue \o [i \in DOMAIN ds |-> Len(puts) + i]
            answers == told \o [i \in DOMAIN ds |-> "early"]
        IN /\ \A d \in DOMAIN f : f[d].d = d
           /\ flushes < MaxFlushes /\ Len(all) <= MaxPuts
           /\ puts' = all
           /\ Know(rs)
           /\ flushes' = flushes + 1
           /\ waiting' = Append(waiting, Len(all))
           /\ IF busy
              THEN /\ queue' = q
                   /\ told' = answers
                   /\ UNCHANGED <<batch, inventory>>
              ELSE Begin(q, answers, all)
           /\ UNCHANGED <<sc, auto, disk, promised, restarts>>

(* flush: with nothing queued it calls back at once, although a batch may  *)
(* be on its way to the storage.                                           *)
Flush ==
    /\ flushes < MaxFlushes
    /\ flushes' = flushes + 1
    /\ IF queue = <<>>
       THEN UNCHANGED <<queue, batch, inventory, told, waiting>>
       ELSE /\ waiting' = Append(waiting, Len(puts))
            /\ IF busy
               THEN UNCHANGED <<queue, batch, inventory, told>>
               ELSE Begin(queue, told, puts)
    /\ UNCHANGED <<sc, puts, auto, disk, promised, known, restarts>>

(* setAutoBatchEnabled.                                                    *)
SetAuto ==
    /\ sc.toggles
    /\ auto' = ~auto
    /\ IF ~auto /\ queue # <<>> /\ ~busy
       THEN Begin(queue, told, puts)
       ELSE UNCHANGED <<queue, batch, inventory, told>>
    /\ UNCHANGED <<sc, puts, disk, waiting, flushes, promised, known, restarts>>

-----------------------------------------------------------------------------
Store(ns) ==
    [meta |-> inventory,
     docs |-> [d \in Docs |->
                 IF \E i \in DOMAIN ns : DocOf(ns[i]) = d
                 THEN CHOOSE n \in ToSet(ns) : DocOf(n) = d
                 ELSE disk.docs[d]]]

(* The callbacks of a batch: an answer that was given early is not taken   *)
(* back when the write fails, the record is dropped without a word.        *)
After(ok) == IF ok THEN Tell(told, batch, "ok") ELSE Refuse(told, batch)

(* Bug: the next batch waits for the next put.                             *)
FinishIdle(ok) ==
    /\ busy
    /\ disk' = IF ok THEN Store(batch) ELSE disk
    /\ batch' = <<>>
    /\ told' = After(ok)
    /\ waiting' = IF queue = <<>> THEN <<>> ELSE waiting
    /\ UNCHANGED <<sc, puts, queue, inventory, auto, flushes, promised, known, restarts>>

(* Bug: the flush callbacks do not wait for the last batch.                *)
FinishHasty(ok) ==
    /\ busy
    /\ disk' = IF ok THEN Store(batch) ELSE disk
    /\ LET answers == After(ok)
       IN IF queue # <<>>
          THEN Begin(queue, answers, puts)
          ELSE /\ batch' = <<>>
               /\ told' = answers
               /\ UNCHANGED <<queue, inventory>>
    /\ waiting' = <<>>
    /\ promised' = IF ok /\ waiting # <<>>
                   THEN Later(promised, Last(waiting))
                   ELSE promised
    /\ UNCHANGED <<sc, puts, auto, flushes, known, restarts>>

(* Bug: a failed write is not reported.                                    *)
FinishGladly(ok) ==
    /\ busy
    /\ disk' = IF ok THEN Store(batch) ELSE disk
    /\ IF queue # <<>>
       THEN /\ Begin(queue, Tell(told, batch, "ok"), puts)
            /\ UNCHANGED <<waiting, promised>>
       ELSE /\ batch' = <<>>
            /\ told' = Tell(told, batch, "ok")
            /\ waiting' = <<>>
            /\ UNCHANGED <<queue, inventory, promised>>
    /\ UNCHANGED <<sc, puts, auto, flushes, known, restarts>>

(* The callback of writeRecords: the callbacks of the batch, then the next *)
(* batch; with nothing left, the flush callbacks get this write's error.   *)
Finish(ok) ==
    /\ busy
    /\ disk' = IF ok THEN Store(batch) ELSE disk
    /\ LET answers == After(ok)
       IN IF queue # <<>>
          THEN /\ Begin(queue, answers, puts)
               /\ UNCHANGED <<waiting, promised>>
          ELSE /\ batch' = <<>>
               /\ told' = answers
               /\ waiting' = <<>>
               /\ promised' = IF ok /\ waiting # <<>>
                              THEN Later(promised, Last(waiting))
                              ELSE promised
               /\ UNCHANGED <<queue, inventory>>
    /\ UNCHANGED <<sc, puts, auto, flushes, known, restarts>>

Written == Finish(TRUE)

NotWritten == sc.fails /\ Finish(FALSE)

(* The application ends, with the write it waited for done or not, and is  *)
(* started again: initialize reads the inventory, and the docs are         *)
(* restored from their records.                                            *)
Restart ==
    /\ restarts < sc.restarts
    /\ restarts' = restarts + 1
    /\ \E done \in {FALSE} \cup {busy} :
          LET stored == IF done THEN Store(batch) ELSE disk
          IN /\ disk' = stored
             /\ inventory' = stored.meta
             /\ known' = [d \in Docs |->
                            IF stored.docs[d] = 0 THEN Unborn ELSE puts[stored.docs[d]].v]
             /\ told' = [n \in DOMAIN told |->
                           IF n \in ToSet(queue) \/ (n \in ToSet(batch) /\ ~done)
                           THEN "lost" ELSE told[n]]
    /\ queue' = <<>> /\ batch' = <<>> /\ waiting' = <<>>
    /\ auto' = TRUE
    /\ UNCHANGED <<sc, puts, flushes, promised>>

-----------------------------------------------------------------------------
Init ==
    /\ sc \in Scenarios
    /\ puts = <<>> /\ queue = <<>> /\ batch = <<>>
    /\ auto = TRUE
    /\ inventory = [d \in Docs |-> Unborn]
    /\ disk = [meta |-> inventory, docs |-> [d \in Docs |-> 0]]
    /\ told = <<>>
    /\ waiting = <<>> /\ flushes = 0
    /\ promised = 0
    /\ known = [d \in Docs |-> Unborn]
    /\ restarts = 0

Next ==
    \/ \E d \in Docs : Put(d)
    \/ PutBulk
    \/ Flush
    \/ SetAuto
    \/ Written
    \/ NotWritten
    \/ Restart

Spec == Init /\ [][Next]_vars

(* The storage engine answers every write.                                 *)
FairSpec == Spec /\ WF_vars(Written)

-----------------------------------------------------------------------------
(* The shapes of the variables (durable-store.js: DurableStore).           *)
TypeOK ==
    /\ \A i \in DOMAIN puts : puts[i].d \in Docs /\ puts[i].v \in Versions \cup {Unborn}
    /\ \A n \in ToSet(queue) \cup ToSet(batch) : n \in DOMAIN puts
    /\ Len(batch) <= MaxBatchSize
    /\ \A i, j \in DOMAIN batch : DocOf(batch[i]) = DocOf(batch[j]) => i = j
    /\ auto \in BOOLEAN
    /\ DOMAIN told = DOMAIN puts
    /\ \A n \in DOMAIN told : told[n] \in {"no", "early", "ok", "error", "refused", "lost"}

(* A put whose callback waited for the write and came without an error is  *)
(* in the storage, or a later record of its doc is: Doc._sendOp sends an   *)
(* op when this callback says it is safe.  A callback that came at once,   *)
(* with automatic batches off or from putDocsBulk, means less than that:   *)
(* the record is stored, or still on its way through the queue and the     *)
(* batch, unless it is refused, its write fails or the application ends,   *)
(* and then nobody is told (durable-store.js: putDoc, putDocsBulk,         *)
(* _putNextBatchFromQueue).                                                *)
CallbackMeansStored ==
    \A n \in DOMAIN told :
        /\ told[n] = "ok" => disk.docs[DocOf(n)] >= n
        /\ told[n] \in {"no", "early"} =>
              disk.docs[DocOf(n)] >= n \/ n \in ToSet(queue) \cup ToSet(batch)

(* The inventory that is read at the next start says of each doc what its  *)
(* record says: a doc with ops to send is found, and one is not asked for  *)
(* that was never written (durable-store.js: getInventoryMeta).  A write   *)
(* that fails leaves the inventory in memory ahead, and the next batch     *)
(* stores it: behaviours with failing writes are left out.                 *)
InventoryMatchesStore ==
    sc.fails \/ \A d \in Docs :
        disk.meta[d] = IF disk.docs[d] = 0 THEN Unborn ELSE puts[disk.docs[d]].v

(* What was put up to n, and neither refused nor lost with a restart, is   *)
(* in the storage.                                                         *)
WrittenUpTo(n) ==
    \A m \in 1..n : told[m] \in {"error", "refused", "lost"} \/ disk.docs[DocOf(m)] >= m

(* The callback of a flush or putDocsBulk that found records in the queue  *)
(* comes when everything that was put before is in the storage             *)
(* (durable-store.js: _putNextBatchFromQueue, putDocsBulk).  It is told of *)
(* the error of the last batch only: where writes fail it may not be so.   *)
WaitingFlushMeansWritten == sc.fails \/ WrittenUpTo(promised)

(* The storage never takes a doc back to a record that was put before, nor *)
(* to an earlier version, whatever fails, restarts, or is put without a    *)
(* version (durable-store.js: _putNextBatchFromQueue).                     *)
StoreNeverGoesBack ==
    [][\A d \in Docs :
         /\ disk'.docs[d] >= disk.docs[d]
         /\ disk.docs[d] # 0 => ~Regression(puts[disk.docs[d]].v, puts'[disk'.docs[d]].v)]_vars

(* With automatic batches on, every put is answered, and so is every flush *)
(* that waits (durable-store.js: putDoc, flush), but for one whose only    *)
(* batch is rejected because it would take a doc back.                     *)
EveryCallAnswered ==
    /\ []<>(sc.toggles \/ \A n \in DOMAIN told : told[n] # "no")
    /\ []<>(sc.regresses \/ waiting = <<>>)
=============================================================================
