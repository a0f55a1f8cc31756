------------------------------ MODULE MCPresence -----------------------------
(* Small instances of Presence: each scenario is one question, so that the   *)
(* bounds do not multiply.                                                   *)
EXTENDS Presence

S(ops, submits, drops, n) ==
    [ops |-> ops, submits |-> submits, nulls |-> FALSE, drops |-> drops,
     calls |-> n, joined |-> TRUE, docSub |-> TRUE, inOp |-> FALSE]

Several == {
    S(2, 1, 0, 0),                        \* ops against presence
    S(1, 2, 0, 0),
    [S(2, 1, 0, 0) EXCEPT !.docSub = FALSE], \* B gets ops by fetches only
    [S(1, 1, 0, 0) EXCEPT !.joined = FALSE], \* B joins late
    [S(1, 2, 0, 0) EXCEPT !.nulls = TRUE],
    [S(1, 2, 0, 0) EXCEPT !.inOp = TRUE],
    S(1, 1, 1, 0),                        \* a connection drops
    [S(0, 1, 1, 1) EXCEPT !.joined = FALSE], \* ... while B joins or leaves
    S(0, 1, 0, 3)                         \* B leaves, joins, leaves
    }

Null == {[S(0, 2, 0, 0) EXCEPT !.nulls = TRUE]}
==============================================================================
