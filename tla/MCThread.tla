------------------------------ MODULE MCThread ------------------------------
(***************************************************************************)
(* Three blocks for threads, so that a block is in the middle of the list, *)
(* and one creation more, so that one is used again.                       *)
(***************************************************************************)
EXTENDS Thread, TLC

CONSTANTS b1, b2, b3

ThreeBlocks == {b1, b2, b3}
=============================================================================
