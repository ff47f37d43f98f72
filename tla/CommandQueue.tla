---------------------------- MODULE CommandQueue ----------------------------
(***************************************************************************)
(* What the queues of a controller promise the driver that posts to them:  *)
(* commands are executed in the order they were posted, each once, and the *)
(* driver is told a command is complete only after it was executed.        *)
(* Commands are numbered in the order they are posted.                     *)
(***************************************************************************)
EXTENDS Naturals

VARIABLES posted,    \* commands posted
          executed,  \* commands executed
          told       \* the last command the driver waited for and was told of

Init == posted = 0 /\ executed = 0 /\ told = 0

Post == posted' = posted + 1 /\ UNCHANGED <<executed, told>>

Execute ==
  /\ executed < posted
  /\ executed' = executed + 1
  /\ UNCHANGED <<posted, told>>

Tell ==
  /\ \E k \in told+1 .. executed : told' = k
  /\ UNCHANGED <<posted, executed>>

Next == Post \/ Execute \/ Tell

Spec == Init /\ [][Next]_<<posted, executed, told>>
=============================================================================
