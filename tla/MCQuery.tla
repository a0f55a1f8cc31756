------------------------------ MODULE MCQuery -------------------------------
(* Small instances of Query: two documents.                                *)
EXTENDS Query

CONSTANTS d1, d2

TwoDocs == <<d1, d2>>

OnceOrThrice == [d \in Docs |-> IF d = d1 THEN 3 ELSE 1]

Twice == [d \in Docs |-> 2]
=============================================================================
