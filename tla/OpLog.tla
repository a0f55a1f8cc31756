------------------------------- MODULE OpLog --------------------------------
(***************************************************************************)
(* What ShareDB promises the clients that submit operations to a document, *)
(* with no requests, snapshots, transforms, retries or messages: a log to  *)
(* which every operation is appended at most once, acknowledgements that   *)
(* name the place an operation was given, and refusals that are final: an  *)
(* operation that is refused is not in the log and never will be, unless   *)
(* the document was deleted after it.                                      *)
(*                                                                         *)
(* Submit.tla is shown to implement this module.                           *)
(***************************************************************************)
EXTENDS Integers, Sequences

CONSTANTS
    Ops,                \* operations; each stands for one pair (src, seq)
    Deletes             \* the operations that delete the document

VARIABLES
    log,                \* the operations of the document, in order
    acks,               \* pairs <<o, v>>: o was acknowledged at version v
    refused             \* operations refused with an error

logVars == <<log, acks, refused>>

Logged(o) == \E i \in 1..Len(log) : log[i] = o

LogInit ==
    /\ log = <<>>
    /\ acks = {}
    /\ refused = {}

(* An operation enters the log once, and never after its refusal.          *)
AppendOp(o) ==
    /\ ~Logged(o)
    /\ o \notin refused
    /\ log' = Append(log, o)
    /\ UNCHANGED <<acks, refused>>

(* Versions count from 0: the op with version v is log[v + 1].             *)
Acknowledge(o, v) ==
    /\ v + 1 \in 1..Len(log)
    /\ log[v + 1] = o
    /\ acks' = acks \cup {<<o, v>>}
    /\ UNCHANGED <<log, refused>>

(* The document was deleted after the operation.                           *)
DeletedSince(o) ==
    \E i, j \in 1..Len(log) : i < j /\ log[i] = o /\ log[j] \in Deletes

(* A resent operation may be refused although it is in the log: an edit is *)
(* not transformed up to its own copy in a document that is gone.          *)
Refuse(o) ==
    /\ Logged(o) => DeletedSince(o)
    /\ refused' = refused \cup {o}
    /\ UNCHANGED <<log, acks>>

LogNext ==
    \E o \in Ops :
        \/ AppendOp(o)
        \/ \E v \in 0..Len(log) : Acknowledge(o, v)
        \/ Refuse(o)

LogSpec == LogInit /\ [][LogNext]_logVars
=============================================================================
