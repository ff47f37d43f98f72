------------------------------ MODULE MCMutex -------------------------------
(***************************************************************************)
(* Lock graphs of the kernel for the runs of Mutex.                        *)
(***************************************************************************)
EXTENDS Mutex, TLC

CONSTANTS t1, t2, t3

ThreeThreads == {t1, t2, t3}
ThreeRing == (t1 :> t2) @@ (t2 :> t3) @@ (t3 :> t1)
TwoThreads == {t1, t2}
TwoRing == (t1 :> t2) @@ (t2 :> t1)

(* drive_register, isr-safe, calls kmalloc and subsystem_alloc_entry, which *)
(* calls subsystem_free_entry to commit entries.  Threads that hold nothing *)
(* call all of them.                                                        *)
RegistryLocks == {"drive_register", "kmalloc", "alloc_entry", "free_entry"}
RegistryIsr == {"drive_register"}
RegistryCallees ==
  [l \in RegistryLocks |->
     CASE l = "drive_register" -> {"kmalloc", "alloc_entry", "free_entry"}
       [] l = "alloc_entry"    -> {"free_entry"}
       [] OTHER                -> {}]

(* Without kmalloc, which has the place of free_entry in this graph.        *)
TableLocks == RegistryLocks \ {"kmalloc"}
TableCallees == [l \in TableLocks |-> RegistryCallees[l] \ {"kmalloc"}]

(* fs_open and fs_read call partition_read_sectors, which calls             *)
(* drive_read_sectors; all four are isr-safe.  fs_open also calls kmalloc.  *)
FileIsr == {"fs_open", "fs_read", "partition_read", "drive_read"}
FileLocks == FileIsr \cup {"kmalloc"}
FileTop == {"fs_open", "fs_read", "kmalloc"}
FileCallees ==
  [l \in FileLocks |->
     CASE l = "fs_open"        -> {"partition_read", "drive_read", "kmalloc"}
       [] l = "fs_read"        -> {"partition_read", "drive_read"}
       [] l = "partition_read" -> {"drive_read"}
       [] OTHER                -> {}]
=============================================================================
