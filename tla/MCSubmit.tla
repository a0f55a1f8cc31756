------------------------------ MODULE MCSubmit ------------------------------
(***************************************************************************)
(* Instances of Submit for TLC: two creates, edits and a delete of one     *)
(* document.  Each run chooses which of them arrive.                       *)
(***************************************************************************)
EXTENDS Submit, TLC

CONSTANTS c1, c2, e1, e2, d1

KindOf(o) == CASE o \in {c1, c2} -> "create"
               [] o \in {e1, e2} -> "edit"
               [] o = d1 -> "del"

MCKind == [o \in Ops |-> KindOf(o)]

(* Edit e2 undoes e1's text: transformed over e1 nothing is left of it.    *)
MCCancels == {<<e2, e1>>}

RequestSymmetry == Permutations(Requests)
=============================================================================
