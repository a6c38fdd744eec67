------------------------------ MODULE MCWebAuth -----------------------------
(* WebAuth on small instances: two computers with a dk-web each, and a     *)
(* command line on the first.                                              *)
EXTENDS WebAuth

CONSTANTS w1, w2, x1, c1, c2

HomeOf == [s \in {w1, w2, x1} |-> IF s = w2 THEN c2 ELSE c1]

Keys  == {1}
First == {0}
=============================================================================
