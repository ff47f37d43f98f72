------------------------------- MODULE MCNvme -------------------------------
(* Two threads, queues of a few entries and enough commands for every entry *)
(* to be used three times, with both phases.                                *)
EXTENDS Nvme

ASSUME ThreeLaps == MaxCommands >= 3 * CqEntries
=============================================================================
