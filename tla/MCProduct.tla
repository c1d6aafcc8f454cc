------------------------------ MODULE MCProduct ------------------------------
(* Instances of Product: two sessions of one warrant and one of another.    *)
EXTENDS Product, TLC

CONSTANTS x1, x2, s1, s2

Sessions == {<<x1, s1>>, <<x1, s2>>, <<x2, s1>>}

Interchangeable == Permutations(Worker)
=============================================================================
