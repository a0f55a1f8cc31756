--------------------------------- MODULE OT ---------------------------------
(***************************************************************************)
(* The kinds of operations of ShareDB and the rules of lib/ot.js that say  *)
(* which of them can be transformed against, or applied after, which       *)
(* others.  The payload of an edit belongs to an OT type, which is a       *)
(* library outside of src/; the modules that need one say which they use.  *)
(***************************************************************************)
EXTENDS Integers, Sequences

(* An op carries one of the fields create, op ("edit" here) and del, or    *)
(* none of them ("noop").                                                  *)
Kinds == {"create", "edit", "del", "noop"}

(* transform: the fatal cases of the 16 combinations of an op of kind k    *)
(* with an op of kind a that was applied before it.                        *)
DocWasDeleted(k, a) == a = "del" /\ k \in {"create", "edit"}

AlreadyCreated(k, a) ==
    \/ a = "create" /\ k \in {"create", "edit", "del"}
    \/ a = "edit" /\ k = "create"

Conflicts(k, a) == DocWasDeleted(k, a) \/ AlreadyCreated(k, a)

(* An edit over an edit is transformed by the type of the current snapshot *)
(* (exists: it has one), whatever type the document had at the time.       *)
TransformFails(k, a, exists) ==
    \/ Conflicts(k, a)
    \/ k = "edit" /\ a = "edit" /\ ~exists

(* apply: an op of kind k applies to a snapshot of a document that exists  *)
(* or does not.  A delete and a no-op always apply.                        *)
CanApply(k, exists) ==
    /\ k = "create" => ~exists
    /\ k = "edit" => exists

(* apply: does the document exist afterwards?                              *)
ExistsAfter(k, exists) ==
    \/ k = "create"
    \/ k \in {"edit", "noop"} /\ exists
=============================================================================
