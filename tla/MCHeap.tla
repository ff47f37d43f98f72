------------------------------- MODULE MCHeap -------------------------------
(* A heap with two size classes of three blocks, two threads and memory for *)
(* one fill and a half: a class is drained, refilled by kfree and starved   *)
(* by page allocations.                                                     *)
EXTENDS Heap

\* One class can be filled, and filling the other may fail.
ASSUME SecondFillMayFail ==
  /\ Pages >= DataPages + 1
  /\ Cardinality(Classes) >= 2
=============================================================================
