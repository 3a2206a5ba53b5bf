------------------------ MODULE MC_CustomerDirectory ------------------------
(* Phone numbers and import payloads for the run of CustomerDirectory.         *)
EXTENDS CustomerDirectory, TLC

CONSTANTS p1, p2

\* Two numbers in either order, and one number twice.
ShortLists == {<<p1, p2>>, <<p2, p1>>, <<p1, p1>>}

Symmetry == Permutations(CreateReqs) \cup Permutations(UpdateReqs)
=============================================================================
