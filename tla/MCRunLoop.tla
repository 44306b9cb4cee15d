------------------------------ MODULE MCRunLoop ------------------------------
(* RunLoop for TLC: requests are interchangeable.                           *)
EXTENDS RunLoop, TLC

RequestSymmetry == Permutations(Requests)

=============================================================================
