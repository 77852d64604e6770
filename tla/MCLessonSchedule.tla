-------------------------- MODULE MCLessonSchedule --------------------------
(***************************************************************************)
(* Small instances of LessonSchedule for TLC.                              *)
(***************************************************************************)
EXTENDS LessonSchedule, TLC

CONSTANTS g1, g2, t1, t2, s1, s2, i1, i2, c1, c2

\* Keys are strings "kind:id": the kinds in alphabetic order, then the ids.
Kinds == <<"car", "group", "instructor", "student", "teacher">>
Ids == <<c1, c2, g1, g2, i1, i2, s1, s2, t1, t2>>

Position(seq, x) == CHOOSE n \in DOMAIN seq : seq[n] = x

MCKeyRank == [k \in Keys |-> 10 * Position(Kinds, k[1]) + Position(Ids, k[2])]

\* 64-bit hashes of distinct keys, taken to be distinct.
MCHashOf == MCKeyRank

\* With two instructors car c1 belongs to i1 and the other to i2, with one both
\* are the instructor's; every car has the category and transmission of every
\* student.
MCFit ==
  {f \in Cars \X Instructors \X Students :
     Cardinality(Instructors) > 1 => (f[1] = c1 <=> f[2] = i1)}

CarAndTeacher == {<<"car", c1>>, <<"teacher", t2>>}

AnyDay == {1 .. MaxTime}
\* A group may also run after the times of the instance.
NowOrLater == {1 .. MaxTime, {MaxTime + 1}}

\* Only keys are ordered, so clients and rows are interchangeable.
Symmetry ==
  Permutations(Clients) \cup Permutations(TheoryIds) \cup Permutations(PracticeIds)
=============================================================================
