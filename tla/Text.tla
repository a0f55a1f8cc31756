-------------------------------- MODULE Text --------------------------------
(***************************************************************************)
(* An OT type, as lib/ot.js and lib/client/doc.js use one: ordered text    *)
(* into which every edit inserts one element.  OT types are libraries      *)
(* outside of src/; this is the smallest one whose transform matters,      *)
(* because two inserts at the same place are ordered by their side.  The   *)
(* type has no invert and no compose.                                      *)
(***************************************************************************)
EXTENDS Integers, Sequences

(* Insert element x after the first p elements of the text s.              *)
Insert(s, p, x) == SubSeq(s, 1, p) \o <<x>> \o SubSeq(s, p + 1, Len(s))

(* type.transform(p, q, side): the place of an insert at p after an insert *)
(* at q.  Of two inserts at one place the left one keeps it.               *)
Shift(p, q, side) ==
    IF q < p \/ (q = p /\ side = "right") THEN p + 1 ELSE p
=============================================================================
