---------------------------- MODULE BookingLedger ----------------------------
(***************************************************************************)
(* What the lesson tables promise, with no transactions and no locks: a    *)
(* booking is made, moved or cancelled in one indivisible step, and it is  *)
(* made or moved only into a slot that is free for every resource it uses. *)
(* LessonSchedule, where the same work is spread over row locks, advisory  *)
(* locks, reads and a commit, is shown to implement this module.           *)
(* The new row of a step is lesson'[l]: the steps are written as           *)
(* constraints on it, so that TLC checks a given step without enumerating  *)
(* every row there could be.                                               *)
(***************************************************************************)
EXTENDS ScheduleSlots

CONSTANTS Lessons,     \* identifiers of lesson rows
          Resources    \* whatever a lesson occupies exclusively

VARIABLE lesson

LessonStatus == {"none", "SCHEDULED", "CANCELLED"}

Row == [status: LessonStatus, uses: SUBSET Resources, start: Nat, dur: Nat]

NoRow == [status |-> "none", uses |-> {}, start |-> 0, dur |-> 0]

Scheduled(l) == lesson[l].status = "SCHEDULED"

SharesResource(r, q) == r.uses \cap q.uses # {}

\* The slot of row r is free for lesson l: no other scheduled lesson that
\* shares a resource with r overlaps it.
SlotFree(l, r) ==
  \A m \in Lessons \ {l} :
    Scheduled(m) /\ SharesResource(r, lesson[m]) => ~Overlaps(r, lesson[m])

OnlyChanges(S) == \A m \in Lessons \ S : lesson'[m] = lesson[m]

Put(l) ==
  /\ lesson' \in [Lessons -> Row]
  /\ lesson'[l].status = "SCHEDULED"
  /\ SlotFree(l, lesson'[l])
  /\ OnlyChanges({l})

Book(l) == lesson[l].status = "none" /\ Put(l)

Move(l) == Scheduled(l) /\ Put(l)

\* One lesson is cancelled, or all the future ones of a group that closes.
Cancel(S) ==
  /\ lesson' \in [Lessons -> Row]
  /\ \A l \in S : /\ Scheduled(l)
                  /\ lesson'[l] = [lesson[l] EXCEPT !.status = "CANCELLED"]
  /\ OnlyChanges(S)

Init == lesson = [l \in Lessons |-> NoRow]

Next ==
  \/ \E l \in Lessons : Book(l) \/ Move(l)
  \/ \E S \in SUBSET Lessons : Cancel(S)

Spec == Init /\ [][Next]_lesson

-----------------------------------------------------------------------------
\* No two scheduled lessons that share a resource overlap.
NoDoubleBooking ==
  \A l \in Lessons : \A m \in Lessons \ {l} :
    Scheduled(l) /\ Scheduled(m) /\ SharesResource(lesson[l], lesson[m])
      => ~Overlaps(lesson[l], lesson[m])
=============================================================================
