--------------------------- MODULE MCLockFreeList ---------------------------
(* Instances of LockFreeList for TLC. *)
EXTENDS LockFreeList, TLC

CONSTANTS t1, t2, n1, n2, n3

MCThread == {t1, t2}
MCNode == {n1, n2, n3}
MCTwoNodes == {n1, n2}

\* unsigned long holds a pointer, as with gcc on linux.
MCULong == [p \in Node \cup {NIL, Elsewhere} |-> p]

\* One thread works on the second key, whose predecessor comes and goes, while
\* the other changes anything.
MCCalls ==
  t1 :> {"Emplace", "Delete", "Find"} \X {2} @@
  t2 :> {"Emplace", "Delete"} \X {1, 2}

\* What the search that ends a Delete needs.
MCFewUpdates == [t \in MCThread |-> {<<"Delete", 1>>, <<"Delete", 2>>, <<"Emplace", 2>>}]

\* One thread stays in a single call while the other makes several.
MCOneTwo == t1 :> 1 @@ t2 :> 2
MCOneThree == t1 :> 1 @@ t2 :> 3

\* One call each.
MCOneOne == t1 :> 1 @@ t2 :> 1

MCSymmetry == Permutations(MCNode)
=============================================================================
