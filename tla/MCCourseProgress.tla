-------------------------- MODULE MCCourseProgress --------------------------
(* CourseProgress for TLC. *)
EXTENDS CourseProgress, TLC

Symmetry == Permutations(Lessons) \cup Permutations(Students) \cup Permutations(Requests)
=============================================================================
