---------------------------- MODULE ScheduleSlots ----------------------------
(***************************************************************************)
(* The interval arithmetic of schedule-conflicts.ts.  Time is counted in   *)
(* abstract units, a lesson occupies the half-open interval                *)
(* [start, start + dur), and a row of either lesson table is a record with *)
(* at least the fields start and dur.                                      *)
(***************************************************************************)
EXTENDS Integers

CONSTANT MaxDuration   \* LESSON_MAX_DURATION_MIN, in units of the model

ASSUME MaxDurationAssumption == MaxDuration \in Nat \ {0}

Durations == 1 .. MaxDuration

LessonEnd(row) == row.start + row.dur

\* Half-open intervals: a lesson that ends when another begins is no overlap.
Overlaps(slot, row) ==
  /\ row.start < LessonEnd(slot)
  /\ LessonEnd(row) > slot.start

\* Mutant of InCandidateWindow: only rows that begin within the slot are fetched.
BeginsWithinSlot(slot, row) ==
  /\ row.start >= slot.start
  /\ row.start < LessonEnd(slot)

\* What the database filters by before the exact test: the rows whose start
\* lies in the open interval (start - MaxDuration, end) of the slot.
InCandidateWindow(slot, row) ==
  /\ row.start > slot.start - MaxDuration
  /\ row.start < LessonEnd(slot)

\* The rows a conflict search reports: fetched by the window, then filtered.
Collides(slot, row) == InCandidateWindow(slot, row) /\ Overlaps(slot, row)
=============================================================================
