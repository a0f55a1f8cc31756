---------------------------- MODULE MCConnection ----------------------------
(* Small instances of Connection: each scenario is one question, so that the *)
(* bounds do not multiply.                                                   *)
EXTENDS Connection

CONSTANTS d1, d2

Quiet == [docs |-> {d1}, calls |-> 0, agents |-> 1, commits |-> 0,
          refuse |-> FALSE, snaps |-> FALSE, waits |-> FALSE]
ScenariosOnce == {
    [Quiet EXCEPT !.calls = 3],
    [Quiet EXCEPT !.calls = 2, !.agents = 2, !.commits = 1],
    [Quiet EXCEPT !.calls = 2, !.commits = 2],
    [Quiet EXCEPT !.calls = 2, !.refuse = TRUE, !.agents = 2],
    [Quiet EXCEPT !.calls = 2, !.waits = TRUE],
    [Quiet EXCEPT !.docs = {d1, d2}, !.calls = 2, !.agents = 2],
    [Quiet EXCEPT !.snaps = TRUE, !.commits = 2],
    [Quiet EXCEPT !.snaps = TRUE, !.calls = 1, !.waits = TRUE],
    [Quiet EXCEPT !.snaps = TRUE, !.agents = 2]}
=============================================================================
