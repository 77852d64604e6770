-------------------------- MODULE MCStudentRecords --------------------------
(* Sets that instantiate StudentRecords for TLC. *)
EXTENDS StudentRecords, TLC

RosterOps == {"createStudent", "assignGroup", "removeFromGroup", "changeTraining",
              "archive", "changeGroupStatus"}

CarOps == {"createStudent", "changeTraining", "archive", "grantPractice",
           "updateStudent", "createCar", "changeCar", "changeCarStatus"}

Symmetry == Permutations(Students) \cup Permutations(Groups) \cup Permutations(Cars)
              \cup Permutations(Instructors) \cup Permutations(Kinds)
              \cup Permutations(Clients)
=============================================================================
