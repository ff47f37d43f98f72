------------------------------ MODULE MCMemory ------------------------------
(***************************************************************************)
(* Few frames and little virtual space: enough for two regions, one freed  *)
(* while the other stays, or for a stack beside a region, for a second     *)
(* page table, and to run out of frames in the middle of an allocation.    *)
(* The guards cover frame 1, which is handed out last.                     *)
(***************************************************************************)
EXTENDS ThreadStack

ASSUME FramesRunOut == UsableFrames < MaxPage /\ TableSpan < MaxPage /\ Guard > 1
=============================================================================
