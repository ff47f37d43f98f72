------------------------------ MODULE MCFat32 -------------------------------
(***************************************************************************)
(* A FAT of two sectors and ten entries, its last one past the end of the  *)
(* volume, and two files.                                                  *)
(***************************************************************************)
EXTENDS Fat32, TLC

CONSTANTS f1, f2

TwoFiles == {f1, f2}
=============================================================================
