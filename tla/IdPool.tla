------------------------------- MODULE IdPool -------------------------------
(***************************************************************************)
(* What an identifier table of the kernel promises its users, whatever its *)
(* representation: an identifier names at most one object at a time, a     *)
(* registration takes an identifier that names nothing, and only an        *)
(* unregistration of that identifier ends the association.                 *)
(***************************************************************************)
CONSTANTS Ids,    \* the identifiers the table may hand out
          Objs,   \* the objects that are registered
          Null    \* the value of an identifier that names nothing

VARIABLE names    \* names[id]: the object that id names, or Null

TypeOK == names \in [Ids -> Objs \cup {Null}]

Init == names = [id \in Ids |-> Null]

Acquire(id, obj) ==
  /\ names[id] = Null
  /\ names' = [names EXCEPT ![id] = obj]

Release(id) ==
  /\ names[id] # Null
  /\ names' = [names EXCEPT ![id] = Null]

Next ==
  \/ \E id \in Ids, obj \in Objs : Acquire(id, obj)
  \/ \E id \in Ids : Release(id)

Spec == Init /\ [][Next]_names
=============================================================================
