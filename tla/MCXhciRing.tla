----------------------------- MODULE MCXhciRing -----------------------------
(* Rings of a few entries, enough posts for more than two laps, so that     *)
(* every entry is used with both cycle bits and every descriptor again.     *)
EXTENDS XhciRing

\* The command ring: xhci_init posts two commands
\* before it waits for the first, all later ones are awaited one by one.  A transfer
\* ring: the three stages of a control transfer.
CommandsAndTransfers == {[first |-> 2, batch |-> 1], [first |-> 0, batch |-> 3]}

ASSUME TwoLaps == MaxPosts > 2 * (Entries - 1)
=============================================================================
