------------------------------ MODULE MCTokenPool -------------------------------
(* TokenPool for TLC: requests are interchangeable.                        *)
EXTENDS TokenPool, TLC

RequestSymmetry == Permutations(Requests)
=============================================================================
