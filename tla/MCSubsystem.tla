---------------------------- MODULE MCSubsystem -----------------------------
(***************************************************************************)
(* A table that grows once and then refuses to: small enough to fill, and  *)
(* with more committed entries than one page holds.                        *)
(***************************************************************************)
EXTENDS Subsystem

ASSUME GrowthSucceedsThenFails ==
  /\ InitCommit + GrowCommit < Reserve
  /\ InitCommit + 2*GrowCommit >= Reserve
=============================================================================
