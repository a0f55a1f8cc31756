------------------------------- MODULE MCSync -------------------------------
(***************************************************************************)
(* Instances of Sync for TLC: two clients, each with ops of its own.       *)
(***************************************************************************)
EXTENDS Sync, TLC

CONSTANTS A, B, p0, ca, cb, a1, a2, b1, b2, da, db

MCOwner == [o \in Ops |-> CASE o \in {ca, a1, a2, da} -> A
                            [] o \in {cb, b1, b2, db} -> B
                            [] OTHER -> Nil]

MCKind == [o \in Ops |-> CASE o \in {p0, ca, cb} -> "create"
                           [] o \in {a1, a2, b1, b2} -> "edit"
                           [] OTHER -> "del"]

Created == <<p0>>

NothingYet == <<>>

NoDrops == [c \in Clients |-> 0]

OneDrop == [c \in Clients |-> 1]

OnlyADrops == [c \in Clients |-> IF c = A THEN 1 ELSE 0]
=============================================================================
