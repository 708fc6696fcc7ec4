-------------------------- MODULE MCOplProcedures --------------------------
(* Values of the constants of OplProcedures for TLC: file A has main and p, file B has p and q; *)
(* main and p declare x, so that an external of q may mean either.                              *)
EXTENDS OplProcedures

CONSTANTS A, B, main, p, q, x, y

MCContents == [m \in Files |-> Procs \cap IF m = A THEN {main, p} ELSE {p, q}]
MCParams   == [r \in Procs |-> IF r = p THEN 1 ELSE 0]
MCGlobals  == [r \in Procs |-> IF r = p THEN <<x, y>> ELSE IF r = main THEN <<x>> ELSE <<>>]
MCExterns  == [r \in Procs |-> IF r = q THEN {x, y} ELSE {}]
MCBucket   == [n \in {x, y} |-> 0]
=============================================================================
