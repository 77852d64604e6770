-------------------------- MODULE MCCourseStructure --------------------------
(* CourseStructure for TLC. *)
EXTENDS CourseStructure, TLC

Symmetry == Permutations(Chapters) \cup Permutations(Lessons)
              \cup Permutations(Materials) \cup Permutations(Clients)
=============================================================================
