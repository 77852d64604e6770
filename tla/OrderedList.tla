----------------------------- MODULE OrderedList -----------------------------
(***************************************************************************)
(* What the structure of a course promises its editors: every parent (the  *)
(* course, a chapter, a lesson) has a list of children, and a request puts *)
(* a new child at a place of one list or moves a child to another place of *)
(* its own list, in one step that leaves the other children in their order. *)
(* CourseStructure, where a list is a column of integers that is rewritten *)
(* row by row under a unique constraint, is shown to implement this module. *)
(***************************************************************************)
EXTENDS Naturals, Sequences, SequencesExt

CONSTANTS Parents, Children

VARIABLE list   \* the children of each parent, in order

Listed(i) == \E p \in Parents : i \in ToSet(list[p])

Insert(i, p, k) ==
  /\ ~Listed(i)
  /\ list' = [list EXCEPT ![p] = InsertAt(@, k, i)]

Move(i, p, k) ==
  \E old \in 1..Len(list[p]) :
    /\ list[p][old] = i
    /\ list' = [list EXCEPT ![p] = InsertAt(RemoveAt(@, old), k, i)]

Init == list = [p \in Parents |-> <<>>]

\* A request that leaves every list as it was is no step.
Next ==
  /\ list' # list
  /\ \E i \in Children, p \in Parents :
       \/ \E k \in 1..Len(list[p]) + 1 : Insert(i, p, k)
       \/ \E k \in 1..Len(list[p]) : Move(i, p, k)

Spec == Init /\ [][Next]_list
=============================================================================
