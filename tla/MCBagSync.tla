----------------------------- MODULE MCBagSync -----------------------------
(* BagSync on small instances. *)
EXTENDS BagSync, TLC

CONSTANTS p1, p2, j1, j2

\* One phone with one coroutine, one phone with two coroutines, or two phones with one each.
OneJob == j1 :> p1
OnePhone == [j \in {j1, j2} |-> p1]
TwoPhones == (j1 :> p1) @@ (j2 :> p2)

\* The values of a row are interchangeable.
Symmetry == Permutations(Vals)

\* So are two coroutines of one phone.
SwapJobs == (j1 :> j2) @@ (j2 :> j1)
JobSymmetry == Symmetry \cup {v @@ SwapJobs : v \in Symmetry}

=============================================================================
