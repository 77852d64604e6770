-------------------------- MODULE LessonLockProofs --------------------------
(***************************************************************************)
(* What the row locks of LessonSchedule protect, for any number of         *)
(* clients, groups and lessons: a check made under the lock of a group or  *)
(* of a lesson still holds when its request writes.  From that follow the  *)
(* properties of closing a group, of attendance and of cancelled lessons,  *)
(* that the lesson tables implement BookingLedger, and that no requests    *)
(* wait for each other in a circle.                                        *)
(***************************************************************************)
EXTENDS LessonScheduleProofs, WellFoundedInduction

-----------------------------------------------------------------------------
(* The invariant *)

\* Operations on a theory lesson that hold its group FOR SHARE, and operations
\* on a row of either lesson table.
SharingOps == {"createTheory"} \cup TheoryRowOps
RowOps == TheoryRowOps \cup PracticeRowOps

PastGroup(p) == tx[p].stage \in {"row", "check", "keys", "search", "write"}
PastRow(p) == tx[p].stage \in {"check", "keys", "search", "write"}
PastCheck(p) == tx[p].stage \in {"keys", "search", "write"}

\* No lock is held together with one it excludes.
LocksExclusive ==
  \A p \in Clients : \A q \in Clients \ {p} :
    \A a \in held[p] : held[q] \cap Excludes(a) = {}

\* A request holds the locks of the stages it has passed.
LocksHeld(p) ==
  /\ tx[p].op \in SharingOps /\ PastGroup(p) => <<"share", tx[p].group>> \in held[p]
  /\ tx[p].op = "changeStatus" /\ PastRow(p) => <<"update", tx[p].group>> \in held[p]
  /\ tx[p].op = "updateGroup" /\ PastCheck(p) => <<"update", tx[p].group>> \in held[p]
  /\ tx[p].op \in RowOps /\ PastRow(p) => <<"row", tx[p].lesson>> \in held[p]

\* The row a request works on: a theory lesson keeps the group it was made for,
\* and the identifier of a new lesson is nobody else's.
NamesRow(p) ==
  LET l == tx[p].lesson
  IN /\ tx[p].now <= clock
     /\ tx[p].op \in TheoryRowOps =>
          l \in TheoryIds /\ lesson[l].uses = {GroupKey(tx[p].group)}
     /\ tx[p].op \in RowOps => l \in Lessons /\ Exists(l)
     /\ tx[p].op \in PracticeRowOps => l \in PracticeIds
     /\ tx[p].op = "createTheory" => l \in TheoryIds
     /\ tx[p].op = "createPractice" => l \in PracticeIds
     /\ tx[p].op \in CreateOps =>
          /\ lesson[l] = NoRow
          /\ \A q \in Clients \ {p} : tx[q].lesson # l
     /\ tx[p].op \in {"createTheory", "changeTheory"} =>
          tx[p].uses = {GroupKey(tx[p].group)}

\* What a request has checked under its locks still holds.
ChecksStillHold(p) ==
  LET l == tx[p].lesson
      g == tx[p].group
  IN PastCheck(p) =>
       /\ tx[p].op \in {"createTheory", "changeTheory"} => IsOpenGroup(g)
       /\ tx[p].op \in {"changeTheory", "changePractice"} \cup CancelOps => Scheduled(l)
       /\ tx[p].op = "changeTheory" /\ attendance[l] # {} => tx[p].start = lesson[l].start
       /\ tx[p].op = "markAttendance" => lesson[l].start <= tx[p].now
       /\ tx[p].op = "changeStatus" => tx[p].arg.status \in Transitions[group[g].status]

RequestsProtected ==
  \A p \in Clients : LocksHeld(p) /\ NamesRow(p) /\ ChecksStillHold(p)

\* A theory lesson uses its group alone, and a row that is not there is empty.
RowsWellMade ==
  /\ \A l \in TheoryIds : Exists(l) => \E g \in Groups : lesson[l].uses = {GroupKey(g)}
  /\ \A l \in Lessons : ~Exists(l) => lesson[l] = NoRow

\* The inductive invariant of this module.
LockInv ==
  /\ LocksExclusive
  /\ RequestsProtected
  /\ RowsWellMade
  /\ AttendanceOnlyOfPast
  /\ ClosedGroupHasNoFutureLesson

\* The lock invariant holds of the empty schedule.
LEMMA InitLockInv == Init => LockInv
<1>. SUFFICES ASSUME Init PROVE LockInv
  OBVIOUS
<1>1. ASSUME NEW p \in Clients PROVE LocksHeld(p) /\ NamesRow(p) /\ ChecksStillHold(p)
  BY DEF Init, LocksHeld, NamesRow, ChecksStillHold, IdleTx, SharingOps, RowOps,
         TheoryRowOps, PracticeRowOps, CreateOps, PastGroup, PastRow, PastCheck
<1>2. LocksExclusive
  BY DEF Init, LocksExclusive
<1>3. RowsWellMade /\ AttendanceOnlyOfPast /\ ClosedGroupHasNoFutureLesson
  BY DEF Init, RowsWellMade, AttendanceOnlyOfPast, ClosedGroupHasNoFutureLesson,
         Exists, Scheduled, NoRow, Lessons
<1>. QED
  BY <1>1, <1>2, <1>3 DEF LockInv, RequestsProtected

-----------------------------------------------------------------------------
(* Locks *)

\* Two locks exclude each other or neither the other: FOR SHARE and FOR UPDATE of
\* one group, and everything else with itself.
LEMMA ExcludesSymmetric ==
  ASSUME NEW a \in Lock, NEW b \in Lock, b \in Excludes(a)
  PROVE  a \in Excludes(b)
<1>1. CASE a[1] = "share"
  <2>1. b = <<"update", a[2]>>
    BY <1>1 DEF Excludes
  <2>2. a = <<"share", a[2]>>
    BY <1>1 DEF Lock
  <2>. QED
    BY <2>1, <2>2 DEF Excludes
<1>2. CASE a[1] = "update"
  <2>1. a = <<"update", a[2]>>
    BY <1>2 DEF Lock
  <2>2. b = <<"share", a[2]>> \/ b = a
    BY <1>2, <2>1 DEF Excludes
  <2>. QED
    BY <2>1, <2>2 DEF Excludes
<1>3. CASE a[1] # "share" /\ a[1] # "update"
  BY <1>3 DEF Excludes
<1>. QED
  BY <1>1, <1>2, <1>3

\* A lock is granted only when no one holds one that it excludes.
LEMMA GrantKeepsExclusive ==
  ASSUME TypeOK, LocksExclusive, NEW p \in Clients, NEW a \in Lock, Grant(p, a)
  PROVE  LocksExclusive'
<1>. SUFFICES ASSUME NEW q \in Clients, NEW r \in Clients \ {q},
                     NEW b \in held'[q], NEW c \in held'[r], c \in Excludes(b)
              PROVE  FALSE
  BY DEF LocksExclusive
<1>1. /\ held' = [held EXCEPT ![p] = @ \cup {a}]
      /\ \A z \in Clients \ {p} : held[z] \cap Excludes(a) = {}
      /\ held \in [Clients -> SUBSET Lock]
  BY DEF Grant, TypeOK
<1>2. b \in Lock /\ c \in Lock /\ b \in Excludes(c)
  BY <1>1, ExcludesSymmetric
<1>3. CASE q = p /\ b = a
  BY <1>1, <1>3
<1>4. CASE r = p /\ c = a
  BY <1>1, <1>2, <1>4
<1>5. CASE ~(q = p /\ b = a) /\ ~(r = p /\ c = a)
  <2>1. b \in held[q] /\ c \in held[r]
    BY <1>1, <1>5
  <2>. QED
    BY <2>1 DEF LocksExclusive
<1>. QED
  BY <1>3, <1>4, <1>5

\* Commit and rollback give locks up.
LEMMA ReleaseKeepsExclusive ==
  ASSUME TypeOK, LocksExclusive, NEW p \in Clients, EndTx(p)
  PROVE  LocksExclusive'
BY DEF LocksExclusive, EndTx, TypeOK

\* Two clients never hold the lock of one lesson row, and none holds the lock of a
\* group in any mode while another has it FOR UPDATE.
LEMMA LockExcludes ==
  ASSUME LocksExclusive, NEW p \in Clients, NEW q \in Clients \ {p}
  PROVE  /\ \A l : ~(<<"row", l>> \in held[p] /\ <<"row", l>> \in held[q])
         /\ \A g : <<"update", g>> \in held[p] =>
              <<"share", g>> \notin held[q] /\ <<"update", g>> \notin held[q]
BY DEF LocksExclusive, Excludes

-----------------------------------------------------------------------------
(* Steps that change no row *)

\* What holds of a client in its present stage.
Protected(p) == LocksHeld(p) /\ NamesRow(p) /\ ChecksStillHold(p)

\* The properties of the rows alone.
RowsOK == RowsWellMade /\ AttendanceOnlyOfPast /\ ClosedGroupHasNoFutureLesson

\* LockInv by clients and rows.
LEMMA LockInvParts ==
  LockInv <=> LocksExclusive /\ RowsOK /\ \A p \in Clients : Protected(p)
BY DEF LockInv, RowsOK, RequestsProtected, Protected

\* A step of p that changes no row leaves the rows and the other clients alone.
LEMMA QuietStep ==
  ASSUME TypeOK, LockInv, NEW p \in Clients, NEW t,
         UNCHANGED <<clock, data>>, tx' = [tx EXCEPT ![p] = t],
         \A q \in Clients \ {p} : held'[q] = held[q],
         \A q \in Clients \ {p} : tx[q].op \in CreateOps => t.lesson # tx[q].lesson
  PROVE  RowsOK' /\ \A q \in Clients \ {p} : Protected(q)'
<1>1. /\ tx \in [Clients -> Tx]
      /\ UNCHANGED <<clock, group, enrolled, lesson, attendance>>
  BY DEF TypeOK, data
<1>2. RowsOK'
  BY <1>1 DEF LockInv, RowsOK, RowsWellMade, AttendanceOnlyOfPast,
              ClosedGroupHasNoFutureLesson, Exists, Scheduled, IsOpenGroup
<1>3. ASSUME NEW q \in Clients \ {p} PROVE Protected(q)'
  <2>1. Protected(q) /\ tx'[q] = tx[q] /\ held'[q] = held[q] /\ tx'[p] = t
    BY <1>1, LockInvParts
  <2>2. LocksHeld(q)'
    BY <2>1 DEF Protected, LocksHeld, PastGroup, PastRow, PastCheck
  <2>3. NamesRow(q)'
    BY <1>1, <2>1 DEF Protected, NamesRow, Exists
  <2>4. ChecksStillHold(q)'
    BY <1>1, <2>1 DEF Protected, ChecksStillHold, PastCheck, IsOpenGroup, Scheduled
  <2>. QED
    BY <2>2, <2>3, <2>4 DEF Protected
<1>. QED
  BY <1>2, <1>3

\* A client without a request has nothing to protect.
LEMMA IdleProtected ==
  ASSUME NEW p \in Clients, tx'[p] = IdleTx, clock' \in Nat
  PROVE  Protected(p)'
BY DEF Protected, LocksHeld, NamesRow, ChecksStillHold, IdleTx, SharingOps, RowOps,
       TheoryRowOps, PracticeRowOps, CreateOps, PastGroup, PastRow, PastCheck

\* A request that ends without a write keeps the invariant.
LEMMA QuietEnd ==
  ASSUME TypeOK, LockInv, NEW p \in Clients, EndTx(p), UNCHANGED <<clock, data>>
  PROVE  LockInv'
<1>1. tx' = [tx EXCEPT ![p] = IdleTx] /\ \A q \in Clients \ {p} : held'[q] = held[q]
  BY DEF EndTx, TypeOK
<1>2. \A q \in Clients \ {p} : tx[q].op \in CreateOps => IdleTx.lesson # tx[q].lesson
  <2>1. \A q \in Clients : tx[q].op \in CreateOps => tx[q].lesson \in Lessons
    BY LockInvParts DEF Protected, NamesRow, Lessons, CreateOps
  <2>. QED
    BY <2>1, ScheduleAssumption DEF IdleTx
<1>3. RowsOK' /\ \A q \in Clients \ {p} : Protected(q)'
  BY <1>1, <1>2, QuietStep
<1>4. Protected(p)'
  BY <1>1, IdleProtected DEF TypeOK
<1>5. LocksExclusive'
  BY ReleaseKeepsExclusive DEF LockInv
<1>. QED
  BY <1>3, <1>4, <1>5 DEF LockInv, RowsOK, RequestsProtected, Protected

\* A request names its row as NamesRow says.
LEMMA RequestNamesRow ==
  ASSUME TypeOK, NEW p \in Clients, NEW o, NEW l, NEW g, NEW u, NEW s, NEW d, NEW a,
         Request(p, o, l, g, u, s, d, a),
         o \in TheoryRowOps => l \in TheoryIds /\ lesson[l].uses = {GroupKey(g)},
         o \in RowOps => l \in Lessons /\ Exists(l),
         o \in PracticeRowOps => l \in PracticeIds,
         o = "createTheory" => l \in TheoryIds,
         o = "createPractice" => l \in PracticeIds,
         o \in CreateOps => lesson[l] = NoRow /\ \A q \in Clients : tx[q].lesson # l,
         o \in {"createTheory", "changeTheory"} => u = {GroupKey(g)}
  PROVE  /\ NamesRow(p)'
         /\ tx'[p].lesson = l /\ tx'[p].op = o /\ tx'[p].stage = FirstStage(o)
<1>1. /\ tx' = [tx EXCEPT ![p] =
                  [stage |-> FirstStage(o), op |-> o, lesson |-> l, group |-> g,
                   uses |-> u, start |-> s, dur |-> d, now |-> clock, keys |-> {},
                   arg |-> a]]
      /\ tx \in [Clients -> Tx] /\ clock \in Nat
      /\ UNCHANGED <<clock, lesson>>
  BY DEF Request, TypeOK, data
<1>2. /\ tx'[p] = [stage |-> FirstStage(o), op |-> o, lesson |-> l, group |-> g,
                   uses |-> u, start |-> s, dur |-> d, now |-> clock, keys |-> {},
                   arg |-> a]
      /\ \A q \in Clients \ {p} : tx'[q] = tx[q]
  BY <1>1
<1>. QED
  BY <1>1, <1>2 DEF NamesRow, Exists

\* The row and the request that a client begins: a request to create names a row
\* that no one else has, any other one a row that is there.
LEMMA BeginNamesRow ==
  ASSUME TypeOK, LockInv, NEW p \in Clients, Begin(p)
  PROVE  /\ NamesRow(p)'
         /\ tx'[p].op \in OpNames /\ tx'[p].stage = FirstStage(tx'[p].op)
         /\ \A q \in Clients \ {p} :
              tx[q].op \in CreateOps => tx'[p].lesson # tx[q].lesson
<1>. DEFINE Named(o, l, g, u, s, d, a) ==
              /\ Request(p, o, l, g, u, s, d, a)
              /\ o \in TheoryRowOps => l \in TheoryIds /\ lesson[l].uses = {GroupKey(g)}
              /\ o \in RowOps => l \in Lessons /\ Exists(l)
              /\ o \in PracticeRowOps => l \in PracticeIds
              /\ o = "createTheory" => l \in TheoryIds
              /\ o = "createPractice" => l \in PracticeIds
              /\ o \in CreateOps => lesson[l] = NoRow /\ \A q \in Clients : tx[q].lesson # l
              /\ o \in {"createTheory", "changeTheory"} => u = {GroupKey(g)}
              /\ o \notin LessonOps => l = None
<1>1. ASSUME NEW o \in OpNames, NEW l, NEW g, NEW u, NEW s, NEW d, NEW a,
             Named(o, l, g, u, s, d, a)
      PROVE  /\ NamesRow(p)'
             /\ tx'[p].op \in OpNames /\ tx'[p].stage = FirstStage(tx'[p].op)
             /\ \A q \in Clients \ {p} :
                  tx[q].op \in CreateOps => tx'[p].lesson # tx[q].lesson
  <2>1. NamesRow(p)' /\ tx'[p].lesson = l /\ tx'[p].op = o /\ tx'[p].stage = FirstStage(o)
    BY <1>1, RequestNamesRow
  <2>2. \A q \in Clients : tx[q].op \in CreateOps =>
          tx[q].lesson \in Lessons /\ lesson[tx[q].lesson] = NoRow
    BY LockInvParts DEF Protected, NamesRow, Lessons, CreateOps
  <2>3. l # None => o \in RowOps \cup CreateOps
    BY <1>1 DEF LessonOps, RowOps
  <2>. QED
    BY <1>1, <2>1, <2>2, <2>3, ScheduleAssumption DEF Exists, NoRow
<1>2. \A l \in Lessons : Unused(l) =>
        lesson[l] = NoRow /\ \A q \in Clients : tx[q].lesson # l
  BY LockInvParts DEF RowsOK, RowsWellMade, Unused, Exists
<1>3. \A l \in TheoryIds : Exists(l) => \A g \in GroupsOf(l) :
        g \in Groups /\ lesson[l].uses = {GroupKey(g)}
  BY LockInvParts DEF RowsOK, RowsWellMade, GroupsOf
<1>. USE DEF OpNames, Lessons, BookingOps, GroupOps, LessonOps, CreateOps, RowOps,
         TheoryRowOps, PracticeRowOps
<1>4. CASE CreateTheory(p)
  <2>1. PICK l \in TheoryIds, g \in Groups, s \in Times, d \in Durations :
          Unused(l) /\ Request(p, "createTheory", l, g, {GroupKey(g)}, s, d, NoArg)
    BY <1>4 DEF CreateTheory
  <2>2. Named("createTheory", l, g, {GroupKey(g)}, s, d, NoArg)
    BY <1>2, <2>1
  <2>. QED
    BY <1>1, <2>2
<1>5. CASE CreatePractice(p)
  <2>1. PICK l \in PracticeIds, s \in Times, d \in Durations,
             i \in Instructors, c \in Cars, stud \in Students :
          /\ Unused(l)
          /\ Request(p, "createPractice", l, None,
                     {InstructorKey(i), CarKey(c), StudentKey(stud)}, s, d, NoArg)
    BY <1>5 DEF CreatePractice
  <2>2. Named("createPractice", l, None,
              {InstructorKey(i), CarKey(c), StudentKey(stud)}, s, d, NoArg)
    BY <1>2, <2>1
  <2>. QED
    BY <1>1, <2>2
<1>6. CASE ChangeTheory(p)
  <2>1. PICK l \in TheoryIds, s \in Times, d \in Durations, g \in Groups :
          /\ Exists(l) /\ g \in GroupsOf(l)
          /\ Request(p, "changeTheory", l, g, {GroupKey(g)}, s, d, NoArg)
    BY <1>6 DEF ChangeTheory, GroupsOf
  <2>2. Named("changeTheory", l, g, {GroupKey(g)}, s, d, NoArg)
    BY <1>3, <2>1
  <2>. QED
    BY <1>1, <2>2
<1>7. CASE ChangePractice(p)
  <2>1. PICK l \in PracticeIds, s \in Times, d \in Durations,
             i \in Instructors, c \in Cars, stud \in Students :
          /\ Exists(l)
          /\ Request(p, "changePractice", l, None,
                     {InstructorKey(i), CarKey(c), StudentKey(stud)}, s, d, NoArg)
    BY <1>7 DEF ChangePractice, StudentsOf
  <2>2. Named("changePractice", l, None,
              {InstructorKey(i), CarKey(c), StudentKey(stud)}, s, d, NoArg)
    BY <2>1
  <2>. QED
    BY <1>1, <2>2
<1>8. CASE CancelTheory(p)
  <2>1. PICK l \in TheoryIds, g \in Groups :
          /\ Exists(l) /\ g \in GroupsOf(l)
          /\ Request(p, "cancelTheory", l, g, {}, 0, 0, NoArg)
    BY <1>8 DEF CancelTheory, GroupsOf
  <2>2. Named("cancelTheory", l, g, {}, 0, 0, NoArg)
    BY <1>3, <2>1
  <2>. QED
    BY <1>1, <2>2
<1>9. CASE CancelPractice(p)
  <2>1. PICK l \in PracticeIds :
          Exists(l) /\ Request(p, "cancelPractice", l, None, {}, 0, 0, NoArg)
    BY <1>9 DEF CancelPractice
  <2>2. Named("cancelPractice", l, None, {}, 0, 0, NoArg)
    BY <2>1
  <2>. QED
    BY <1>1, <2>2
<1>10. CASE MarkAttendance(p)
  <2>1. PICK l \in TheoryIds, stud \in Students, g \in Groups :
          /\ Exists(l) /\ g \in GroupsOf(l)
          /\ Request(p, "markAttendance", l, g, {}, 0, 0,
                     [NoArg EXCEPT !.student = stud])
    BY <1>10 DEF MarkAttendance, GroupsOf
  <2>2. Named("markAttendance", l, g, {}, 0, 0, [NoArg EXCEPT !.student = stud])
    BY <1>3, <2>1
  <2>. QED
    BY <1>1, <2>2
<1>11. CASE ChangeStatus(p)
  <2>1. PICK g \in Groups, next \in GroupStatus :
          Request(p, "changeStatus", None, g, {}, 0, 0, [NoArg EXCEPT !.status = next])
    BY <1>11 DEF ChangeStatus
  <2>2. Named("changeStatus", None, g, {}, 0, 0, [NoArg EXCEPT !.status = next])
    BY <2>1
  <2>. QED
    BY <1>1, <2>2
<1>12. CASE UpdateGroup(p)
  <2>1. PICK g \in Groups, t \in Teachers, days \in DateRanges :
          Request(p, "updateGroup", None, g, {}, 0, 0,
                  [NoArg EXCEPT !.teacher = t, !.days = days])
    BY <1>12 DEF UpdateGroup
  <2>2. Named("updateGroup", None, g, {}, 0, 0,
              [NoArg EXCEPT !.teacher = t, !.days = days])
    BY <2>1
  <2>. QED
    BY <1>1, <2>2
<1>. QED
  BY <1>4, <1>5, <1>6, <1>7, <1>8, <1>9, <1>10, <1>11, <1>12 DEF Begin

\* A request begins with no lock and no check behind it.
LEMMA BeginLockInv ==
  ASSUME TypeOK, LockInv, NEW p \in Clients, Begin(p)
  PROVE  LockInv'
<1>1. PICK t \in Tx : /\ tx' = [tx EXCEPT ![p] = t]
                      /\ UNCHANGED <<clock, data, suspended, held>>
  BY BeginIsRequest
<1>2. /\ NamesRow(p)' /\ tx'[p] = t /\ t.op \in OpNames /\ t.stage = FirstStage(t.op)
      /\ \A q \in Clients \ {p} : tx[q].op \in CreateOps => t.lesson # tx[q].lesson
  BY <1>1, BeginNamesRow DEF TypeOK
<1>3. RowsOK' /\ \A q \in Clients \ {p} : Protected(q)'
  BY <1>1, <1>2, QuietStep
<1>4. LocksHeld(p)' /\ ChecksStillHold(p)'
  <2>1. t.stage \in {"group", "row", "check"}
    BY <1>2, StageOfOp
  <2>2. /\ t.op \in SharingOps => t.stage = "group"
        /\ t.op = "changeStatus" => t.stage = "group"
        /\ t.op \in RowOps => t.stage \in {"group", "row"}
    BY <1>2 DEF FirstStage, SharingOps, RowOps, TheoryRowOps, PracticeRowOps
  <2>. QED
    BY <1>2, <2>1, <2>2 DEF LocksHeld, ChecksStillHold, PastGroup, PastRow, PastCheck
<1>5. LocksExclusive'
  BY <1>1 DEF LockInv, LocksExclusive
<1>. QED
  BY <1>2, <1>3, <1>4, <1>5 DEF LockInv, RowsOK, RequestsProtected, Protected

\* A request that goes on still names the same row.
LEMMA StillNamesRow ==
  ASSUME TypeOK, LockInv, NEW p \in Clients, NEW t,
         UNCHANGED <<clock, data>>, tx' = [tx EXCEPT ![p] = t],
         t.op = tx[p].op, t.lesson = tx[p].lesson, t.group = tx[p].group,
         t.now = tx[p].now, t.uses = tx[p].uses,
         \A q \in Clients \ {p} : held'[q] = held[q]
  PROVE  NamesRow(p)' /\ RowsOK' /\ \A q \in Clients \ {p} : Protected(q)'
<1>1. NamesRow(p)
  BY LockInvParts DEF Protected
<1>2. /\ tx'[p] = t /\ \A q \in Clients \ {p} : tx'[q] = tx[q]
      /\ UNCHANGED <<clock, lesson>>
  BY DEF TypeOK, data
<1>3. NamesRow(p)'
  BY <1>1, <1>2 DEF NamesRow, Exists
<1>4. \A q \in Clients \ {p} : tx[q].op \in CreateOps => t.lesson # tx[q].lesson
  BY LockInvParts DEF Protected, NamesRow
<1>5. RowsOK' /\ \A q \in Clients \ {p} : Protected(q)'
  BY <1>4, QuietStep
<1>. QED
  BY <1>3, <1>5

\* A client holds the lock it has been granted, and those it held before.
LEMMA GrantHolds ==
  ASSUME TypeOK, NEW p \in Clients, NEW a, Grant(p, a)
  PROVE  held'[p] = held[p] \cup {a} /\ \A q \in Clients \ {p} : held'[q] = held[q]
BY DEF Grant, TypeOK

\* lockGroup, lockTheoryLesson, lockPracticeLesson and lockScheduleResources.
LEMMA AcquireLockInv ==
  ASSUME TypeOK, LockInv, NEW p \in Clients, Acquire(p)
  PROVE  LockInv'
<1>1. /\ tx[p] \in Tx /\ WellFormed(tx[p]) /\ tx \in [Clients -> Tx]
      /\ Protected(p) /\ LocksExclusive
  BY LockInvParts DEF TypeOK
<1>2. UNCHANGED <<clock, data>>
  BY DEF Acquire, LockGroup, LockLesson, LockKey
<1>3. CASE LockGroup(p)
  <2>. DEFINE t == [tx[p] EXCEPT !.stage = AfterGroup(tx[p].op)]
  <2>1. tx[p].op \in OpNames /\ tx[p].group \in Groups
    BY <1>1, <1>3 DEF LockGroup, WellFormed, Tx, GroupOps, OpNames, TheoryRowOps
  <2>2. GroupLock(p) \in Lock /\ Grant(p, GroupLock(p))
    BY <1>3, <2>1 DEF GroupLock, Lock, LockGroup
  <2>3. /\ tx' = [tx EXCEPT ![p] = t] /\ tx'[p] = t
        /\ t.op = tx[p].op /\ t.lesson = tx[p].lesson /\ t.group = tx[p].group
        /\ t.now = tx[p].now /\ t.uses = tx[p].uses /\ t.stage = AfterGroup(tx[p].op)
    BY <1>1, <1>3 DEF LockGroup, Goto, Tx
  <2>. HIDE DEF t
  <2>4. /\ held'[p] = held[p] \cup {GroupLock(p)}
        /\ \A q \in Clients \ {p} : held'[q] = held[q]
    BY <2>2, GrantHolds
  <2>5. NamesRow(p)' /\ RowsOK' /\ \A q \in Clients \ {p} : Protected(q)'
    BY <1>2, <2>3, <2>4, StillNamesRow
  <2>6. LocksHeld(p)' /\ ChecksStillHold(p)'
    <3>1. /\ t.op \in RowOps => t.stage \notin {"check", "keys", "search", "write"}
          /\ t.stage = "write" => t.op = "updateGroup"
          /\ t.stage \in {"row", "check", "write"}
      BY <1>1, <1>3, <2>1, <2>3
         DEF LockGroup, WellFormed, AfterGroup, RowOps, GroupOps, TheoryRowOps,
             PracticeRowOps
    <3>2. LocksHeld(p)'
      BY <2>3, <2>4, <3>1
         DEF LocksHeld, GroupLock, SharingOps, TheoryRowOps, PastRow, PastCheck
    <3>3. ChecksStillHold(p)'
      BY <2>3, <3>1 DEF ChecksStillHold, PastCheck, CancelOps
    <3>. QED
      BY <3>2, <3>3
  <2>7. LocksExclusive'
    BY <1>1, <2>2, GrantKeepsExclusive
  <2>. QED
    BY <2>5, <2>6, <2>7 DEF LockInv, RowsOK, RequestsProtected, Protected
<1>4. CASE LockLesson(p)
  <2>. DEFINE t == [tx[p] EXCEPT !.stage = "check"]
              a == <<"row", tx[p].lesson>>
  <2>1. a \in Lock /\ Grant(p, a)
    BY <1>1, <1>4 DEF LockLesson, WellFormed, Lock
  <2>2. /\ tx' = [tx EXCEPT ![p] = t] /\ tx'[p] = t
        /\ t.op = tx[p].op /\ t.lesson = tx[p].lesson /\ t.group = tx[p].group
        /\ t.now = tx[p].now /\ t.uses = tx[p].uses /\ t.stage = "check"
    BY <1>1, <1>4 DEF LockLesson, Goto, Tx
  <2>. HIDE DEF t
  <2>3. held'[p] = held[p] \cup {a} /\ \A q \in Clients \ {p} : held'[q] = held[q]
    BY <2>1, GrantHolds
  <2>4. NamesRow(p)' /\ RowsOK' /\ \A q \in Clients \ {p} : Protected(q)'
    BY <1>2, <2>2, <2>3, StillNamesRow
  <2>5. LocksHeld(p)'
    BY <1>1, <1>4, <2>2, <2>3
       DEF LockLesson, Protected, LocksHeld, WellFormed, LessonOps, CreateOps,
           TheoryRowOps, PracticeRowOps, RowOps, SharingOps, PastGroup, PastRow,
           PastCheck
  <2>6. ChecksStillHold(p)'
    BY <2>2 DEF ChecksStillHold, PastCheck
  <2>7. LocksExclusive'
    BY <1>1, <2>1, GrantKeepsExclusive
  <2>. QED
    BY <2>4, <2>5, <2>6, <2>7 DEF LockInv, RowsOK, RequestsProtected, Protected
<1>5. CASE LockKey(p)
  <2>1. PICK k \in NextKeys(p) :
          /\ Grant(p, <<"key", HashOf[k]>>)
          /\ tx' = [tx EXCEPT ![p].keys = @ \ {k},
                              ![p].stage = IF tx[p].keys = {k} THEN "search" ELSE "keys"]
    BY <1>5 DEF LockKey
  <2>. DEFINE t == [tx[p] EXCEPT !.keys = @ \ {k},
                                 !.stage = IF tx[p].keys = {k} THEN "search" ELSE "keys"]
              a == <<"key", HashOf[k]>>
  <2>2. a \in Lock /\ Grant(p, a)
    BY <1>1, <2>1 DEF NextKeys, Tx, Lock
  <2>3. /\ tx' = [tx EXCEPT ![p] = t] /\ tx'[p] = t
        /\ t.op = tx[p].op /\ t.lesson = tx[p].lesson /\ t.group = tx[p].group
        /\ t.now = tx[p].now /\ t.uses = tx[p].uses /\ t.start = tx[p].start
        /\ t.arg = tx[p].arg
        /\ t.stage \in {"keys", "search"} /\ tx[p].stage = "keys"
    BY <1>1, <1>5, <2>1 DEF LockKey, Tx
  <2>. HIDE DEF t, a
  <2>4. held'[p] = held[p] \cup {a} /\ \A q \in Clients \ {p} : held'[q] = held[q]
    BY <2>2, GrantHolds
  <2>5. NamesRow(p)' /\ RowsOK' /\ \A q \in Clients \ {p} : Protected(q)'
    BY <1>2, <2>3, <2>4, StillNamesRow
  <2>6. LocksHeld(p)'
    BY <1>1, <2>3, <2>4 DEF Protected, LocksHeld, PastGroup, PastRow, PastCheck
  <2>7. ChecksStillHold(p)'
    BY <1>1, <1>2, <2>3 DEF Protected, ChecksStillHold, PastCheck, data, Scheduled, IsOpenGroup
  <2>8. LocksExclusive'
    BY <1>1, <2>2, GrantKeepsExclusive
  <2>. QED
    BY <2>5, <2>6, <2>7, <2>8 DEF LockInv, RowsOK, RequestsProtected, Protected
<1>. QED
  BY <1>3, <1>4, <1>5 DEF Acquire

\* The checks: what has just been read under the locks holds.
LEMMA CheckLockInv ==
  ASSUME TypeOK, LockInv, NEW p \in Clients, Check(p)
  PROVE  LockInv'
<1>1. /\ tx[p] \in Tx /\ WellFormed(tx[p]) /\ tx \in [Clients -> Tx]
      /\ Protected(p) /\ LocksExclusive /\ UNCHANGED <<clock, data>>
  BY LockInvParts DEF TypeOK, Check
<1>2. CASE EndTx(p)
  BY <1>1, <1>2, QuietEnd
<1>3. CASE ~EndTx(p)
  <2>. DEFINE t == [tx[p] EXCEPT !.stage = AfterCheck(tx[p].op),
                                 !.keys = IF tx[p].op \in BookingOps
                                          THEN KeysToLock(p) ELSE {},
                                 !.arg = IF tx[p].op = "updateGroup"
                                         THEN ChangedFields(p) ELSE @]
  <2>1. /\ tx' = [tx EXCEPT ![p] = t] /\ tx'[p] = t /\ held' = held
        /\ tx[p].stage = "check" /\ Passes(p)
        /\ t.op = tx[p].op /\ t.lesson = tx[p].lesson /\ t.group = tx[p].group
        /\ t.now = tx[p].now /\ t.uses = tx[p].uses /\ t.start = tx[p].start
        /\ t.op # "updateGroup" => t.arg = tx[p].arg
        /\ t.stage = AfterCheck(tx[p].op)
    BY <1>1, <1>3 DEF Check, Tx
  <2>. HIDE DEF t
  <2>2. tx[p].op \in OpNames
    BY <1>1, <2>1 DEF WellFormed
  <2>3. NamesRow(p)' /\ RowsOK' /\ \A q \in Clients \ {p} : Protected(q)'
    BY <1>1, <2>1, StillNamesRow
  <2>4. LocksHeld(p)'
    <3>1. t.stage = "group" <=> t.op = "updateGroup"
      BY <2>1, <2>2 DEF AfterCheck, BookingOps
    <3>. QED
      BY <1>1, <2>1, <3>1
         DEF Protected, LocksHeld, PastGroup, PastRow, PastCheck, SharingOps, RowOps,
             TheoryRowOps, PracticeRowOps
  <2>5. ChecksStillHold(p)'
    <3>. USE DEF Passes, PastCheck, CancelOps
    <3>1. UNCHANGED <<group, lesson, attendance>>
      BY <1>1 DEF data
    <3>2. /\ tx[p].op \in {"createTheory", "changeTheory"} => IsOpenGroup(tx[p].group)
          /\ tx[p].op \in {"changeTheory", "changePractice"} \cup CancelOps
               => Scheduled(tx[p].lesson)
          /\ tx[p].op = "changeTheory" /\ attendance[tx[p].lesson] # {}
               => tx[p].start = lesson[tx[p].lesson].start
          /\ tx[p].op = "markAttendance" => lesson[tx[p].lesson].start <= tx[p].now
          /\ tx[p].op = "changeStatus"
               => tx[p].arg.status \in Transitions[group[tx[p].group].status]
      <4>1. CASE tx[p].op \in {"createTheory", "changeTheory"}
        BY <2>1, <4>1 DEF MayCreateTheory, MayChangeTheory, Scheduled
      <4>2. CASE tx[p].op \in {"cancelTheory", "changePractice", "cancelPractice"}
        BY <2>1, <4>2 DEF MayCancelTheory, MayChangePractice, MayCancelPractice
      <4>3. CASE tx[p].op \in {"markAttendance", "changeStatus"}
        BY <2>1, <4>3 DEF MayMarkAttendance, MayChangeStatus
      <4>. QED
        BY <4>1, <4>2, <4>3
    <3>. QED
      BY <2>1, <3>1, <3>2 DEF ChecksStillHold, Scheduled, IsOpenGroup
  <2>6. LocksExclusive'
    BY <1>1, <2>1 DEF LocksExclusive
  <2>. QED
    BY <2>3, <2>4, <2>5, <2>6 DEF LockInv, RowsOK, RequestsProtected, Protected
<1>. QED
  BY <1>2, <1>3

\* The conflict search changes nothing that a lock protects.
LEMMA SearchLockInv ==
  ASSUME TypeOK, LockInv, NEW p \in Clients, Search(p)
  PROVE  LockInv'
<1>1. /\ tx[p] \in Tx /\ tx \in [Clients -> Tx]
      /\ Protected(p) /\ LocksExclusive /\ UNCHANGED <<clock, data>>
      /\ tx[p].stage = "search"
  BY LockInvParts DEF TypeOK, Search
<1>2. CASE EndTx(p)
  BY <1>1, <1>2, QuietEnd
<1>3. CASE Goto(p, "write") /\ UNCHANGED held
  <2>. DEFINE t == [tx[p] EXCEPT !.stage = "write"]
  <2>1. /\ tx' = [tx EXCEPT ![p] = t] /\ tx'[p] = t /\ held' = held
        /\ t.op = tx[p].op /\ t.lesson = tx[p].lesson /\ t.group = tx[p].group
        /\ t.now = tx[p].now /\ t.uses = tx[p].uses /\ t.start = tx[p].start
        /\ t.arg = tx[p].arg /\ t.stage = "write"
    BY <1>1, <1>3 DEF Goto, Tx
  <2>. HIDE DEF t
  <2>2. NamesRow(p)' /\ RowsOK' /\ \A q \in Clients \ {p} : Protected(q)'
    BY <1>1, <2>1, StillNamesRow
  <2>3. LocksHeld(p)' /\ ChecksStillHold(p)'
    BY <1>1, <2>1 DEF Protected, LocksHeld, ChecksStillHold, PastGroup, PastRow,
                      PastCheck, data, Scheduled, IsOpenGroup
  <2>4. LocksExclusive'
    BY <1>1, <2>1 DEF LocksExclusive
  <2>. QED
    BY <2>2, <2>3, <2>4 DEF LockInv, RowsOK, RequestsProtected, Protected
<1>. QED
  BY <1>2, <1>3 DEF Search

-----------------------------------------------------------------------------
(* Writes *)

\* While a client works on a lesson under its locks, no other one has the same
\* new row, and no other one is past its checks of the same old row.
LEMMA RowsApart ==
  ASSUME LockInv, NEW p \in Clients, NEW q \in Clients \ {p}, PastCheck(p)
  PROVE  /\ tx[p].op \in CreateOps => tx[q].lesson # tx[p].lesson
         /\ tx[q].op \in CreateOps => tx[q].lesson # tx[p].lesson
         /\ tx[p].op \in RowOps /\ tx[q].op \in RowOps /\ PastCheck(q)
              => tx[q].lesson # tx[p].lesson
<1>1. Protected(p) /\ Protected(q) /\ LocksExclusive
  BY LockInvParts
<1>2. CASE tx[p].op \in RowOps /\ tx[q].op \in RowOps /\ PastCheck(q)
  <2>1. <<"row", tx[p].lesson>> \in held[p] /\ <<"row", tx[q].lesson>> \in held[q]
    BY <1>1, <1>2 DEF Protected, LocksHeld, PastRow, PastCheck
  <2>. QED
    BY <1>1, <2>1, LockExcludes DEF Protected, NamesRow
<1>. QED
  BY <1>1, <1>2 DEF Protected, NamesRow

\* The write of p ends its transaction; if the rows and the other clients are as
\* they should be, so is everything.
LEMMA WriteEnds ==
  ASSUME TypeOK, LockInv, NEW p \in Clients, EndTx(p), UNCHANGED clock, RowsOK',
         \A q \in Clients \ {p} : NamesRow(q)' /\ ChecksStillHold(q)'
  PROVE  LockInv'
<1>1. /\ tx'[p] = IdleTx
      /\ \A q \in Clients \ {p} : tx'[q] = tx[q] /\ held'[q] = held[q]
  BY DEF EndTx, TypeOK
<1>2. Protected(p)'
  BY <1>1, IdleProtected DEF TypeOK
<1>3. \A q \in Clients \ {p} : LocksHeld(q)'
  BY <1>1, LockInvParts DEF Protected, LocksHeld, PastGroup, PastRow, PastCheck
<1>4. LocksExclusive'
  BY ReleaseKeepsExclusive DEF LockInv
<1>. QED
  BY <1>2, <1>3, <1>4 DEF LockInv, RowsOK, RequestsProtected, Protected

\* The insert or update of a lesson.
LEMMA WriteBookingLockInv ==
  ASSUME TypeOK, LockInv, NEW p \in Clients, WriteBooking(p)
  PROVE  LockInv'
<1>. DEFINE t == tx[p]
            l == tx[p].lesson
            row == [status |-> IF t.op \in CreateOps THEN "SCHEDULED"
                               ELSE lesson[l].status,
                    uses |-> t.uses, start |-> t.start, dur |-> t.dur]
<1>1. /\ t \in Tx /\ WellFormed(t) /\ tx \in [Clients -> Tx] /\ PastCheck(p)
      /\ t.op \in BookingOps /\ EndTx(p)
      /\ lesson \in [Lessons -> LessonRow]
      /\ UNCHANGED <<clock, group, attendance>>
  BY DEF TypeOK, WriteBooking, Writing, PastCheck
<1>2. NamesRow(p) /\ ChecksStillHold(p) /\ RowsOK
  BY LockInvParts DEF Protected
<1>3. /\ l \in Lessons
      /\ lesson' = [lesson EXCEPT ![l] = row]
      /\ t.op \in CreateOps \/ t.op \in RowOps
  BY <1>1 DEF WriteBooking, WellFormed, BookingOps, LessonOps, CreateOps, RowOps,
              TheoryRowOps, PracticeRowOps
<1>4. row.uses = t.uses /\ row.start = t.start /\ row.status # "none"
  BY <1>1, <1>2, <1>3 DEF NamesRow, Exists
<1>. HIDE DEF row
<1>5. lesson'[l] = row /\ \A m \in Lessons \ {l} : lesson'[m] = lesson[m]
  BY <1>1, <1>3
<1>6. l \in TheoryIds =>
        /\ t.op \in {"createTheory", "changeTheory"} /\ t.group \in Groups
        /\ t.uses = {GroupKey(t.group)} /\ IsOpenGroup(t.group)
  BY <1>1, <1>2, <1>3, ScheduleAssumption
     DEF NamesRow, ChecksStillHold, WellFormed, GroupOps, BookingOps, CreateOps,
         RowOps, TheoryRowOps, PracticeRowOps
<1>7. RowsOK'
  <2>1. RowsWellMade'
    BY <1>2, <1>4, <1>5, <1>6 DEF RowsOK, RowsWellMade, Exists, Lessons
  <2>2. AttendanceOnlyOfPast'
    <3>. SUFFICES ASSUME NEW m \in TheoryIds, attendance[m] # {}
                  PROVE  Exists(m)' /\ lesson'[m].start <= clock
      BY <1>1 DEF AttendanceOnlyOfPast
    <3>1. Exists(m) /\ lesson[m].start <= clock
      BY <1>2 DEF RowsOK, AttendanceOnlyOfPast
    <3>2. CASE m # l
      BY <1>5, <3>1, <3>2 DEF Exists, Lessons
    <3>3. CASE m = l
      <4>1. t.op = "changeTheory"
        BY <1>2, <1>6, <3>1, <3>3 DEF NamesRow, CreateOps, Exists, NoRow
      <4>2. t.start = lesson[l].start
        BY <1>1, <1>2, <3>3, <4>1 DEF ChecksStillHold
      <4>. QED
        BY <1>4, <1>5, <3>1, <3>3, <4>2 DEF Exists
    <3>. QED
      BY <3>2, <3>3
  <2>3. ClosedGroupHasNoFutureLesson'
    <3>. SUFFICES ASSUME NEW g \in Groups, NEW m \in TheoryIds,
                         ~IsOpenGroup(g), Scheduled(m)', GroupKey(g) \in lesson'[m].uses
                  PROVE  lesson'[m].start < clock
      BY <1>1 DEF ClosedGroupHasNoFutureLesson, IsOpenGroup
    <3>1. CASE m = l
      BY <1>4, <1>5, <1>6, <3>1 DEF GroupKey
    <3>2. CASE m # l
      BY <1>2, <1>5, <3>2 DEF RowsOK, ClosedGroupHasNoFutureLesson, Scheduled, Lessons
    <3>. QED
      BY <3>1, <3>2
  <2>. QED
    BY <2>1, <2>2, <2>3 DEF RowsOK
<1>8. ASSUME NEW q \in Clients \ {p} PROVE NamesRow(q)' /\ ChecksStillHold(q)'
  <2>1. /\ NamesRow(q) /\ ChecksStillHold(q) /\ tx'[q] = tx[q]
        /\ \A r \in Clients : tx'[r].lesson = tx[r].lesson \/ tx'[r].lesson = None
    BY <1>1, LockInvParts DEF Protected, EndTx, IdleTx
  <2>2. tx[q].op \in CreateOps => tx[q].lesson \in Lessons
    BY <2>1 DEF NamesRow, CreateOps, Lessons
  <2>3. CASE tx[q].lesson # l
    BY <1>1, <1>5, <2>1, <2>2, <2>3, ScheduleAssumption
       DEF NamesRow, ChecksStillHold, PastCheck, Exists, Scheduled, IsOpenGroup,
           Lessons, RowOps, CancelOps, TheoryRowOps, PracticeRowOps
  <2>4. CASE tx[q].lesson = l
    <3>1. t.op \in RowOps /\ tx[q].op \notin CreateOps
      BY <1>1, <1>3, <2>4, RowsApart
    <3>2. tx[q].op \in RowOps => ~PastCheck(q)
      BY <1>1, <2>4, <3>1, RowsApart
    <3>3. NamesRow(q)'
      <4>1. l \in TheoryIds => row.uses = lesson[l].uses
        <5>1. l \in TheoryIds => t.op = "changeTheory"
          BY <1>6, <3>1 DEF RowOps, TheoryRowOps, PracticeRowOps
        <5>2. t.op = "changeTheory" => lesson[l].uses = {GroupKey(t.group)}
          BY <1>2 DEF NamesRow, TheoryRowOps
        <5>. QED
          BY <1>4, <1>6, <5>1, <5>2
      <4>2. lesson'[l].status # "none"
        BY <1>4, <1>5
      <4>3. tx[q].op \in TheoryRowOps =>
              l \in TheoryIds /\ lesson'[l].uses = {GroupKey(tx[q].group)}
        BY <1>5, <2>1, <2>4, <4>1 DEF NamesRow
      <4>. QED
        BY <1>1, <1>3, <2>1, <2>4, <3>1, <4>2, <4>3
           DEF NamesRow, RowOps, CreateOps, Exists
    <3>4. ChecksStillHold(q)'
      BY <1>1, <2>1, <3>1, <3>2
         DEF ChecksStillHold, PastCheck, IsOpenGroup, RowOps, CreateOps, CancelOps,
             TheoryRowOps, PracticeRowOps
    <3>. QED
      BY <3>3, <3>4
  <2>. QED
    BY <2>3, <2>4
<1>. QED
  BY <1>1, <1>7, <1>8, WriteEnds

\* A cancellation.
LEMMA WriteCancelLockInv ==
  ASSUME TypeOK, LockInv, NEW p \in Clients, WriteCancel(p)
  PROVE  LockInv'
<1>. DEFINE l == tx[p].lesson
            row == [lesson[l] EXCEPT !.status = "CANCELLED"]
<1>1. /\ tx \in [Clients -> Tx] /\ PastCheck(p) /\ tx[p].op \in RowOps /\ EndTx(p)
      /\ lesson \in [Lessons -> LessonRow]
      /\ UNCHANGED <<clock, group, attendance>>
  BY DEF TypeOK, WriteCancel, Writing, PastCheck, CancelOps, RowOps, TheoryRowOps,
         PracticeRowOps
<1>2. NamesRow(p) /\ RowsOK
  BY LockInvParts DEF Protected
<1>3. l \in Lessons /\ Exists(l)
  BY <1>1, <1>2 DEF NamesRow
<1>4. lesson' = [lesson EXCEPT ![l] = row]
  BY <1>1, <1>3 DEF WriteCancel
<1>5. row.uses = lesson[l].uses /\ row.start = lesson[l].start /\ row.status = "CANCELLED"
  BY <1>1, <1>3 DEF LessonRow
<1>. HIDE DEF row
<1>6. lesson'[l] = row /\ \A m \in Lessons \ {l} : lesson'[m] = lesson[m]
  BY <1>1, <1>3, <1>4
<1>7. \A m \in Lessons : /\ lesson'[m].uses = lesson[m].uses
                         /\ lesson'[m].start = lesson[m].start
                         /\ Exists(m) <=> Exists(m)'
                         /\ Scheduled(m)' => Scheduled(m)
                         /\ ~Exists(m) => lesson'[m] = lesson[m]
  BY <1>3, <1>5, <1>6 DEF Exists, Scheduled
<1>8. RowsOK'
  BY <1>1, <1>2, <1>7
     DEF RowsOK, RowsWellMade, AttendanceOnlyOfPast, ClosedGroupHasNoFutureLesson,
         IsOpenGroup, Lessons
<1>9. ASSUME NEW q \in Clients \ {p} PROVE NamesRow(q)' /\ ChecksStillHold(q)'
  <2>1. /\ NamesRow(q) /\ ChecksStillHold(q) /\ tx'[q] = tx[q]
        /\ \A r \in Clients : tx'[r].lesson = tx[r].lesson \/ tx'[r].lesson = None
    BY <1>1, LockInvParts DEF Protected, EndTx, IdleTx
  <2>2. tx[q].op \in CreateOps \cup RowOps => tx[q].lesson \in Lessons
    BY <2>1 DEF NamesRow, CreateOps, Lessons
  <2>3. NamesRow(q)'
    BY <1>1, <1>7, <2>1, <2>2, ScheduleAssumption
       DEF NamesRow, Exists, NoRow, RowOps
  <2>4. PastCheck(q) /\ tx[q].op \in RowOps => tx[q].lesson # l
    BY <1>1, RowsApart
  <2>5. ChecksStillHold(q)'
    BY <1>1, <1>6, <1>7, <2>1, <2>2, <2>4
       DEF ChecksStillHold, PastCheck, IsOpenGroup, Scheduled, RowOps, CancelOps,
           TheoryRowOps, PracticeRowOps
  <2>. QED
    BY <2>3, <2>5
<1>. QED
  BY <1>1, <1>8, <1>9, WriteEnds

\* A mark of attendance.
LEMMA WriteAttendanceLockInv ==
  ASSUME TypeOK, LockInv, NEW p \in Clients, WriteAttendance(p)
  PROVE  LockInv'
<1>. DEFINE l == tx[p].lesson
<1>1. /\ tx \in [Clients -> Tx] /\ PastCheck(p) /\ tx[p].op = "markAttendance" /\ EndTx(p)
      /\ tx[p].now \in Nat /\ clock \in Nat
      /\ attendance \in [TheoryIds -> SUBSET Students]
      /\ attendance' = [attendance EXCEPT ![l] = @ \cup {tx[p].arg.student}]
      /\ UNCHANGED <<clock, group, lesson>>
  BY DEF TypeOK, Tx, WriteAttendance, Writing, PastCheck
<1>2. NamesRow(p) /\ ChecksStillHold(p) /\ RowsOK
  BY LockInvParts DEF Protected
<1>3. /\ tx[p].op \in TheoryRowOps /\ tx[p].op \in RowOps
      /\ l \in TheoryIds /\ Exists(l) /\ lesson[l].start <= tx[p].now
      /\ lesson[l].start \in Nat
  BY <1>1, <1>2 DEF NamesRow, ChecksStillHold, TheoryRowOps, RowOps, TypeOK, LessonRow
<1>4. \A m \in TheoryIds \ {l} : attendance'[m] = attendance[m]
  BY <1>1
<1>5. RowsOK'
  <2>1. AttendanceOnlyOfPast'
    <3>1. lesson[l].start <= clock
      BY <1>1, <1>2, <1>3 DEF NamesRow
    <3>. QED
      BY <1>1, <1>2, <1>3, <1>4, <3>1 DEF RowsOK, AttendanceOnlyOfPast, Exists
  <2>. QED
    BY <1>1, <1>2, <2>1
       DEF RowsOK, RowsWellMade, ClosedGroupHasNoFutureLesson, Exists, Scheduled,
           IsOpenGroup
<1>6. ASSUME NEW q \in Clients \ {p} PROVE NamesRow(q)' /\ ChecksStillHold(q)'
  <2>1. /\ NamesRow(q) /\ ChecksStillHold(q) /\ tx'[q] = tx[q]
        /\ \A r \in Clients : tx'[r].lesson = tx[r].lesson \/ tx'[r].lesson = None
    BY <1>1, LockInvParts DEF Protected, EndTx, IdleTx
  <2>2. tx[q].op \in CreateOps => tx[q].lesson \in Lessons
    BY <2>1 DEF NamesRow, CreateOps, Lessons
  <2>3. NamesRow(q)'
    BY <1>1, <2>1, <2>2, ScheduleAssumption DEF NamesRow, Exists
  <2>4. tx[q].op = "changeTheory" /\ PastCheck(q) =>
          tx[q].lesson \in TheoryIds /\ tx[q].lesson # l
    BY <1>1, <1>3, <2>1, RowsApart DEF NamesRow, RowOps, TheoryRowOps
  <2>5. ChecksStillHold(q)'
    BY <1>1, <1>4, <2>1, <2>4 DEF ChecksStillHold, PastCheck, IsOpenGroup, Scheduled
  <2>. QED
    BY <2>3, <2>5
<1>. QED
  BY <1>1, <1>5, <1>6, WriteEnds

\* A change of the status of a group, with what closing it cancels.
LEMMA WriteStatusLockInv ==
  ASSUME TypeOK, LockInv, NEW p \in Clients, WriteStatus(p)
  PROVE  LockInv'
<1>. DEFINE g == tx[p].group
            next == tx[p].arg.status
<1>1. /\ tx \in [Clients -> Tx] /\ PastCheck(p) /\ tx[p].op = "changeStatus" /\ EndTx(p)
      /\ clock \in Nat /\ g \in Groups
      /\ group \in [Groups -> [status: GroupStatus, teacher: Teachers, days: DateRanges]]
      /\ group' = [group EXCEPT ![g].status = next]
      /\ UNCHANGED <<clock, attendance>>
  BY DEF TypeOK, Tx, WriteStatus, Writing, PastCheck, WellFormed, GroupOps
<1>2. RowsOK /\ <<"update", g>> \in held[p] /\ LocksExclusive
  BY <1>1, LockInvParts DEF Protected, LocksHeld, PastRow, PastCheck
<1>3. /\ \A h \in Groups \ {g} : group'[h] = group[h]
      /\ group'[g].status = next
  BY <1>1
<1>4. \A m \in Lessons : /\ lesson'[m].uses = lesson[m].uses
                         /\ lesson'[m].start = lesson[m].start
                         /\ Exists(m) <=> Exists(m)'
                         /\ Scheduled(m)' => Scheduled(m)
                         /\ ~Exists(m) => lesson'[m] = lesson[m]
                         /\ lesson'[m] = lesson[m]
                              \/ (m \in TheoryIds /\ GroupKey(g) \in lesson[m].uses)
                         /\ ~IsOpenStatus(next) /\ m \in CancelledByClosing(g)
                              => ~Scheduled(m)'
  <2>1. \/ lesson' = lesson /\ IsOpenStatus(next)
        \/ lesson' = [m \in Lessons |->
                         IF m \in CancelledByClosing(g)
                         THEN [lesson[m] EXCEPT !.status = "CANCELLED"]
                         ELSE lesson[m]]
    BY SMTT(30) DEF WriteStatus
  <2>. SUFFICES ASSUME NEW m \in Lessons
                PROVE  /\ lesson'[m].uses = lesson[m].uses
                       /\ lesson'[m].start = lesson[m].start
                       /\ Exists(m) <=> Exists(m)'
                       /\ Scheduled(m)' => Scheduled(m)
                       /\ ~Exists(m) => lesson'[m] = lesson[m]
                       /\ lesson'[m] = lesson[m]
                            \/ (m \in TheoryIds /\ GroupKey(g) \in lesson[m].uses)
                       /\ ~IsOpenStatus(next) /\ m \in CancelledByClosing(g)
                            => ~Scheduled(m)'
    OBVIOUS
  <2>2. CASE lesson'[m] = lesson[m] /\ (m \in CancelledByClosing(g) => IsOpenStatus(next))
    BY <2>2 DEF Exists, Scheduled
  <2>3. CASE m \in CancelledByClosing(g) /\ lesson'[m] = [lesson[m] EXCEPT !.status = "CANCELLED"]
    <3>1. lesson[m] \in LessonRow
      BY DEF TypeOK
    <3>2. Scheduled(m) /\ m \in TheoryIds /\ GroupKey(g) \in lesson[m].uses
      BY <2>3 DEF CancelledByClosing
    <3>3. /\ lesson'[m].uses = lesson[m].uses /\ lesson'[m].start = lesson[m].start
          /\ lesson'[m].status = "CANCELLED"
      BY <2>3, <3>1 DEF LessonRow
    <3>. QED
      BY <3>2, <3>3 DEF Exists, Scheduled
  <2>4. CASE lesson' = lesson /\ IsOpenStatus(next)
    BY <2>2, <2>4
  <2>5. CASE lesson' = [k \in Lessons |->
                         IF k \in CancelledByClosing(g)
                         THEN [lesson[k] EXCEPT !.status = "CANCELLED"]
                         ELSE lesson[k]]
    <3>1. m \in CancelledByClosing(g) => lesson'[m] = [lesson[m] EXCEPT !.status = "CANCELLED"]
      BY <2>5
    <3>2. m \notin CancelledByClosing(g) => lesson'[m] = lesson[m]
      BY <2>5
    <3>. QED
      BY <2>2, <2>3, <3>1, <3>2
  <2>. QED
    BY <2>1, <2>4, <2>5
<1>5. RowsOK'
  <2>1. RowsWellMade' /\ AttendanceOnlyOfPast'
    BY <1>1, <1>2, <1>4 DEF RowsOK, RowsWellMade, AttendanceOnlyOfPast, Lessons
  <2>2. ClosedGroupHasNoFutureLesson'
    <3>. SUFFICES ASSUME NEW h \in Groups, NEW m \in TheoryIds, ~IsOpenGroup(h)',
                         Scheduled(m)', GroupKey(h) \in lesson'[m].uses
                  PROVE  lesson'[m].start < clock
      BY <1>1 DEF ClosedGroupHasNoFutureLesson
    <3>1. m \in Lessons /\ Scheduled(m) /\ GroupKey(h) \in lesson[m].uses
      BY <1>4 DEF Lessons
    <3>2. CASE h # g
      BY <1>2, <1>3, <1>4, <3>1, <3>2
         DEF RowsOK, ClosedGroupHasNoFutureLesson, IsOpenGroup
    <3>3. CASE h = g
      <4>1. m \notin CancelledByClosing(g)
        BY <1>3, <1>4, <3>1, <3>3 DEF IsOpenGroup
      <4>2. lesson[m].start \in Nat
        BY <3>1 DEF TypeOK, LessonRow
      <4>. QED
        BY <1>1, <1>4, <3>1, <3>3, <4>1, <4>2 DEF CancelledByClosing
    <3>. QED
      BY <3>2, <3>3
  <2>. QED
    BY <2>1, <2>2 DEF RowsOK
<1>6. ASSUME NEW q \in Clients \ {p} PROVE NamesRow(q)' /\ ChecksStillHold(q)'
  <2>1. /\ NamesRow(q) /\ ChecksStillHold(q) /\ LocksHeld(q) /\ tx'[q] = tx[q]
        /\ WellFormed(tx[q]) /\ tx[q] \in Tx
        /\ \A r \in Clients : tx'[r].lesson = tx[r].lesson \/ tx'[r].lesson = None
    BY <1>1, LockInvParts DEF Protected, EndTx, IdleTx, TypeOK
  <2>2. tx[q].op \in CreateOps \cup RowOps => tx[q].lesson \in Lessons
    BY <2>1 DEF NamesRow, CreateOps, Lessons
  <2>3. NamesRow(q)'
    BY <1>1, <1>4, <2>1, <2>2, ScheduleAssumption
       DEF NamesRow, Exists, NoRow, RowOps
  <2>4. PastCheck(q) /\ tx[q].op \in SharingOps \cup {"changeStatus"} =>
          tx[q].group \in Groups \ {g}
    <3>1. PastCheck(q) /\ tx[q].op \in SharingOps \cup {"changeStatus"} =>
            <<"share", tx[q].group>> \in held[q] \/ <<"update", tx[q].group>> \in held[q]
      BY <2>1 DEF LocksHeld, PastCheck, PastGroup, PastRow
    <3>2. tx[q].op \in SharingOps \cup {"changeStatus"} => tx[q].group \in Groups
      BY <2>1 DEF WellFormed, SharingOps, GroupOps
    <3>. QED
      BY <1>2, <3>1, <3>2, LockExcludes
  <2>5. PastCheck(q) /\ tx[q].op \in RowOps =>
          lesson'[tx[q].lesson] = lesson[tx[q].lesson]
    <3>1. CASE tx[q].op \in TheoryRowOps
      BY <1>4, <2>1, <2>2, <2>4, <3>1
         DEF NamesRow, SharingOps, RowOps, GroupKey
    <3>2. CASE tx[q].op \in PracticeRowOps
      BY <1>4, <2>1, <2>2, <3>2, ScheduleAssumption DEF NamesRow, RowOps
    <3>. QED
      BY <3>1, <3>2 DEF RowOps
  <2>6. ChecksStillHold(q)'
    BY <1>1, <1>3, <2>1, <2>4, <2>5
       DEF ChecksStillHold, PastCheck, IsOpenGroup, Scheduled, RowOps, CancelOps,
           TheoryRowOps, PracticeRowOps, SharingOps
  <2>. QED
    BY <2>3, <2>6
<1>. QED
  BY <1>1, <1>5, <1>6, WriteEnds

\* A change of the teacher or the days of a group leaves its status alone.
LEMMA WriteGroupLockInv ==
  ASSUME TypeOK, LockInv, NEW p \in Clients, WriteGroup(p)
  PROVE  LockInv'
<1>1. /\ EndTx(p) /\ tx \in [Clients -> Tx] /\ clock \in Nat
      /\ \A h \in Groups : group'[h].status = group[h].status
      /\ UNCHANGED <<clock, lesson, attendance>>
  BY DEF WriteGroup, TypeOK
<1>2. RowsOK'
  BY <1>1, LockInvParts
     DEF RowsOK, RowsWellMade, AttendanceOnlyOfPast, ClosedGroupHasNoFutureLesson,
         Exists, Scheduled, IsOpenGroup
<1>3. ASSUME NEW q \in Clients \ {p} PROVE NamesRow(q)' /\ ChecksStillHold(q)'
  <2>1. /\ NamesRow(q) /\ ChecksStillHold(q) /\ tx'[q] = tx[q] /\ WellFormed(tx[q])
        /\ \A r \in Clients : tx'[r].lesson = tx[r].lesson \/ tx'[r].lesson = None
    BY <1>1, LockInvParts DEF Protected, EndTx, IdleTx, TypeOK
  <2>2. tx[q].op \in CreateOps => tx[q].lesson \in Lessons
    BY <2>1 DEF NamesRow, CreateOps, Lessons
  <2>3. NamesRow(q)'
    BY <1>1, <2>1, <2>2, ScheduleAssumption DEF NamesRow, Exists
  <2>4. tx[q].op \in {"createTheory", "changeTheory", "changeStatus"} =>
          tx[q].group \in Groups
    BY <2>1 DEF WellFormed, GroupOps, TheoryRowOps
  <2>5. ChecksStillHold(q)'
    BY <1>1, <2>1, <2>4 DEF ChecksStillHold, PastCheck, IsOpenGroup, Scheduled
  <2>. QED
    BY <2>3, <2>5
<1>. QED
  BY <1>1, <1>2, <1>3, WriteEnds

\* The lock invariant is inductive, given the types.
LEMMA NextLockInv == TypeOK /\ LockInv /\ [Next]_vars => LockInv'
<1>. SUFFICES ASSUME TypeOK, LockInv, [Next]_vars PROVE LockInv'
  OBVIOUS
<1>1. ASSUME NEW p \in Clients, Write(p) PROVE LockInv'
  BY <1>1, WriteBookingLockInv, WriteCancelLockInv, WriteAttendanceLockInv,
     WriteStatusLockInv, WriteGroupLockInv DEF Write
<1>2. ASSUME NEW p \in Clients, Abort(p) PROVE LockInv'
  BY <1>2, QuietEnd DEF Abort
<1>3. CASE Tick
  <2>1. clock \in Nat /\ clock' = clock + 1
    BY <1>3 DEF Tick, TypeOK
  <2>2. UNCHANGED <<group, lesson, attendance, tx, held>>
    BY <1>3 DEF Tick
  <2>3. LocksExclusive' /\ RowsWellMade'
    BY <2>2 DEF LockInv, LocksExclusive, RowsWellMade, Exists
  <2>4. AttendanceOnlyOfPast' /\ ClosedGroupHasNoFutureLesson'
    <3>1. \A l \in TheoryIds : lesson[l].start \in Nat
      BY DEF TypeOK, LessonRow, Lessons
    <3>. QED
      BY <2>1, <2>2, <3>1
         DEF LockInv, AttendanceOnlyOfPast, ClosedGroupHasNoFutureLesson, Exists,
             Scheduled, IsOpenGroup
  <2>5. ASSUME NEW q \in Clients PROVE LocksHeld(q)' /\ NamesRow(q)' /\ ChecksStillHold(q)'
    <3>1. tx[q].now \in Nat /\ LocksHeld(q) /\ NamesRow(q) /\ ChecksStillHold(q)
      BY DEF TypeOK, Tx, LockInv, RequestsProtected
    <3>. QED
      BY <2>1, <2>2, <3>1
         DEF LocksHeld, NamesRow, ChecksStillHold, PastGroup, PastRow, PastCheck,
             Exists, Scheduled, IsOpenGroup
  <2>. QED
    BY <2>3, <2>4, <2>5 DEF LockInv, RequestsProtected
<1>4. CASE UNCHANGED <<clock, group, lesson, attendance, tx, held>>
  <2>1. LocksExclusive' /\ RowsWellMade'
    BY <1>4 DEF LockInv, LocksExclusive, RowsWellMade, Exists
  <2>2. AttendanceOnlyOfPast' /\ ClosedGroupHasNoFutureLesson'
    BY <1>4 DEF LockInv, AttendanceOnlyOfPast, ClosedGroupHasNoFutureLesson, Exists,
                Scheduled, IsOpenGroup
  <2>3. RequestsProtected'
    BY <1>4 DEF LockInv, RequestsProtected, LocksHeld, NamesRow, ChecksStillHold,
                PastGroup, PastRow, PastCheck, Exists, Scheduled, IsOpenGroup
  <2>. QED
    BY <2>1, <2>2, <2>3 DEF LockInv
<1>. QED
  BY <1>1, <1>2, <1>3, <1>4, BeginLockInv, AcquireLockInv, CheckLockInv, SearchLockInv
     DEF Next, Proceed, Environment, Enrol, Withdraw, Suspend, vars

-----------------------------------------------------------------------------
(* What follows *)

\* The invariants of both modules hold together.
LEMMA Invariants == Spec => [](IInv /\ LockInv)
<1>1. Init => IInv /\ LockInv
  BY InitIInv, InitLockInv
<1>2. IInv /\ LockInv /\ [Next]_vars => IInv' /\ LockInv'
  BY NextIInv, NextLockInv DEF IInv
<1>. QED
  BY <1>1, <1>2, PTL DEF Spec

\* Attendance is recorded only of lessons that have begun, and none of them is
\* moved into the future afterwards (AttendanceOnlyOfPast of LessonSchedule).
THEOREM AttendanceIsOfThePast == Spec => []AttendanceOnlyOfPast
<1>1. LockInv => AttendanceOnlyOfPast
  BY DEF LockInv
<1>. QED
  BY <1>1, Invariants, PTL

\* No lesson of a closed group is left in the future, and none is booked after
\* the closing (ClosedGroupHasNoFutureLesson of LessonSchedule).
THEOREM ClosingEmptiesTheFuture == Spec => []ClosedGroupHasNoFutureLesson
<1>1. LockInv => ClosedGroupHasNoFutureLesson
  BY DEF LockInv
<1>. QED
  BY <1>1, Invariants, PTL

\* What a write does to the rows: a booking finds its lesson new or scheduled, a
\* cancellation finds it scheduled, a closing cancels scheduled lessons.
LEMMA WritesToRows ==
  ASSUME IInv, LockInv, Next
  PROVE  \/ UNCHANGED lesson
         \/ \E p \in Clients :
              /\ WriteBooking(p) /\ tx[p].lesson \in Lessons
              /\ Scheduled(tx[p].lesson)
                   \/ (tx[p].op \in CreateOps /\ lesson[tx[p].lesson] = NoRow)
         \/ \E p \in Clients :
              /\ WriteCancel(p) /\ tx[p].lesson \in Lessons /\ Scheduled(tx[p].lesson)
         \/ \E p \in Clients : WriteStatus(p)
<1>1. ASSUME NEW p \in Clients, WriteBooking(p) \/ WriteCancel(p)
      PROVE  /\ tx[p].lesson \in Lessons
             /\ Scheduled(tx[p].lesson)
                  \/ (tx[p].op \in CreateOps /\ lesson[tx[p].lesson] = NoRow)
             /\ WriteCancel(p) => Scheduled(tx[p].lesson)
  <2>1. NamesRow(p) /\ ChecksStillHold(p)
    BY LockInvParts DEF Protected
  <2>2. PastCheck(p) /\ tx[p].op \in BookingOps \cup CancelOps
    BY <1>1 DEF WriteBooking, WriteCancel, Writing, PastCheck
  <2>3. WriteCancel(p) => tx[p].op \in CancelOps
    BY DEF WriteCancel, Writing
  <2>. QED
    BY <2>1, <2>2, <2>3
       DEF NamesRow, ChecksStillHold, BookingOps, CancelOps, CreateOps, RowOps,
           TheoryRowOps, PracticeRowOps, Lessons
<1>2. ASSUME NEW p \in Clients, Begin(p) \/ Acquire(p) \/ Check(p) \/ Search(p) \/ Abort(p)
      PROVE  UNCHANGED lesson
  <2>1. Begin(p) => UNCHANGED lesson
    BY BeginIsRequest DEF IInv, data
  <2>. QED
    BY <1>2, <2>1 DEF Acquire, LockGroup, LockLesson, LockKey, Check, Search, Abort, data
<1>3. ASSUME NEW p \in Clients, WriteAttendance(p) \/ WriteGroup(p)
      PROVE  UNCHANGED lesson
  BY <1>3 DEF WriteAttendance, WriteGroup
<1>4. CASE Environment
  BY <1>4 DEF Environment, Tick, Enrol, Withdraw, Suspend
<1>. QED
  BY <1>1, <1>2, <1>3, <1>4 DEF Next, Proceed, Write

\* A closing changes nothing but the status of scheduled lessons.
LEMMA ClosingCancels ==
  ASSUME IInv, NEW p \in Clients, WriteStatus(p)
  PROVE  \E S \in SUBSET Lessons :
           /\ \A l \in S : /\ Scheduled(l)
                           /\ lesson'[l] = [lesson[l] EXCEPT !.status = "CANCELLED"]
           /\ \A l \in Lessons \ S : lesson'[l] = lesson[l]
           /\ lesson' \in [Lessons -> LessonRow]
<1>1. lesson \in [Lessons -> LessonRow]
  BY DEF IInv, TypeOK
<1>2. CASE lesson' = lesson
  <2>. WITNESS {} \in SUBSET Lessons
  <2>. QED
    BY <1>1, <1>2
<1>3. CASE lesson' = [l \in Lessons |->
                        IF l \in CancelledByClosing(tx[p].group)
                        THEN [lesson[l] EXCEPT !.status = "CANCELLED"]
                        ELSE lesson[l]]
  <2>. DEFINE S == CancelledByClosing(tx[p].group)
  <2>1. S \in SUBSET Lessons /\ \A l \in S : Scheduled(l)
    BY DEF CancelledByClosing, Lessons
  <2>. HIDE DEF S
  <2>2. \A l \in S : lesson'[l] = [lesson[l] EXCEPT !.status = "CANCELLED"]
    BY <1>3, <2>1 DEF S
  <2>3. \A l \in Lessons \ S : lesson'[l] = lesson[l]
    BY <1>3, <2>1 DEF S
  <2>4. lesson' \in [Lessons -> LessonRow]
    BY <1>1, <1>3 DEF LessonRow, LessonStatus
  <2>. QED
    BY <2>1, <2>2, <2>3, <2>4
<1>. QED
  BY <1>2, <1>3 DEF WriteStatus

\* A cancelled lesson is never written again (CancelledStaysCancelled of
\* LessonSchedule): every write of a row finds it new or scheduled.
THEOREM CancelledIsFinal == Spec => CancelledStaysCancelled
<1>. DEFINE Stays == \A l \in Lessons :
                       lesson[l].status = "CANCELLED" => lesson'[l] = lesson[l]
<1>1. IInv /\ LockInv /\ [Next]_vars => [Stays]_lesson
  <2>. SUFFICES ASSUME IInv, LockInv, Next, NEW l \in Lessons,
                       lesson[l].status = "CANCELLED"
                PROVE  lesson'[l] = lesson[l]
    BY DEF vars
  <2>1. lesson \in [Lessons -> LessonRow]
    BY DEF IInv, TypeOK
  <2>2. ASSUME NEW p \in Clients, WriteBooking(p) \/ WriteCancel(p),
               Scheduled(tx[p].lesson) \/ lesson[tx[p].lesson] = NoRow
        PROVE  lesson'[l] = lesson[l]
    <3>1. l # tx[p].lesson
      BY <2>2 DEF Scheduled, NoRow
    <3>. QED
      BY <2>1, <2>2, <3>1 DEF WriteBooking, WriteCancel
  <2>3. ASSUME NEW p \in Clients, WriteStatus(p)
        PROVE  lesson'[l] = lesson[l]
    BY <2>3, ClosingCancels DEF Scheduled
  <2>. QED
    BY <2>2, <2>3, WritesToRows
<1>2. Spec => [][Stays]_lesson
  BY <1>1, Invariants, PTL DEF Spec
<1>. QED
  BY <1>2 DEF CancelledStaysCancelled

\* The status of a group moves along GROUP_STATUS_TRANSITIONS, whichever requests
\* to change it race (StatusMovesForward of LessonSchedule).
THEOREM StatusFollowsTransitions == Spec => StatusMovesForward
<1>. DEFINE Forward == \A g \in Groups : LET old == group[g].status
                                             new == group'[g].status
                                         IN new = old \/ new \in Transitions[old]
<1>1. IInv /\ LockInv /\ [Next]_vars => [Forward]_group
  <2>. SUFFICES ASSUME IInv, LockInv, Next, NEW g \in Groups
                PROVE  \/ group'[g].status = group[g].status
                       \/ group'[g].status \in Transitions[group[g].status]
                       \/ group' = group
    BY DEF vars
  <2>1. /\ group \in [Groups -> [status: GroupStatus, teacher: Teachers, days: DateRanges]]
        /\ \A p \in Clients : ChecksStillHold(p)
    BY LockInvParts DEF IInv, TypeOK, Protected
  <2>2. ASSUME NEW p \in Clients, WriteStatus(p)
        PROVE  \/ group'[g].status = group[g].status
               \/ group'[g].status \in Transitions[group[g].status]
    <3>1. /\ tx[p].arg.status \in Transitions[group[tx[p].group].status]
          /\ group' = [group EXCEPT ![tx[p].group].status = tx[p].arg.status]
      BY <2>1, <2>2 DEF WriteStatus, Writing, ChecksStillHold, PastCheck
    <3>. QED
      BY <2>1, <3>1
  <2>3. ASSUME NEW p \in Clients, WriteGroup(p)
        PROVE  group'[g].status = group[g].status
    BY <2>1, <2>3 DEF WriteGroup
  <2>4. ASSUME NEW p \in Clients, Begin(p) PROVE group' = group
    BY <2>4, BeginIsRequest DEF IInv, data
  <2>. QED
    BY <2>2, <2>3, <2>4
       DEF Next, Proceed, Write, Acquire, LockGroup, LockLesson, LockKey, Check, Search,
           Abort, WriteBooking, WriteCancel, WriteAttendance, Environment, Tick, Enrol,
           Withdraw, Suspend, data
<1>2. Spec => [][Forward]_group
  BY <1>1, Invariants, PTL DEF Spec
<1>. QED
  BY <1>2 DEF StatusMovesForward

-----------------------------------------------------------------------------
(* Refinement: the lesson tables implement BookingLedger *)

\* A booking that commits is a step Book or Move of the ledger: its slot is free
\* at the moment of the write, not only when the search looked at it.
LEMMA WriteBookingIsPut ==
  ASSUME IInv, LockInv, NEW p \in Clients, WriteBooking(p), tx[p].lesson \in Lessons,
         Scheduled(tx[p].lesson)
           \/ (tx[p].op \in CreateOps /\ lesson[tx[p].lesson] = NoRow)
  PROVE  Ledger!Next
<1>. DEFINE t == tx[p]
            l == tx[p].lesson
            row == [status |-> IF t.op \in CreateOps THEN "SCHEDULED"
                               ELSE lesson[l].status,
                    uses |-> t.uses, start |-> t.start, dur |-> t.dur]
<1>1. /\ t \in Tx /\ lesson \in [Lessons -> LessonRow] /\ t.op \in BookingOps
      /\ lesson' = [lesson EXCEPT ![l] = row] /\ Writing(p, BookingOps)
  BY DEF IInv, TypeOK, WriteBooking, Writing
<1>2. row.status = "SCHEDULED" /\ row \in LessonRow
  BY <1>1 DEF Tx, LessonRow, LessonStatus, Scheduled
<1>3. row.uses = t.uses /\ row.start = t.start /\ row.dur = t.dur
  OBVIOUS
<1>. HIDE DEF row
<1>4. /\ lesson' \in [Lessons -> LessonRow] /\ lesson'[l] = row
      /\ \A m \in Lessons \ {l} : lesson'[m] = lesson[m]
  BY <1>1, <1>2
<1>5. \A m \in Lessons \ {l} :
        Scheduled(m) /\ row.uses \cap lesson[m].uses # {} => ~Overlaps(row, lesson[m])
  <2>1. \A m \in Lessons \ {l} :
          Scheduled(m) /\ lesson[m].uses \cap t.uses # {} => ~Overlaps(t, lesson[m])
    BY <1>1 DEF IInv, SearchStaysValid
  <2>. QED
    BY <1>3, <2>1 DEF Overlaps, LessonEnd
<1>6. Ledger!Put(l)
  BY <1>2, <1>4, <1>5
     DEF Ledger!Put, Ledger!Row, Ledger!LessonStatus, Ledger!SlotFree, Ledger!Scheduled,
         Ledger!SharesResource, Ledger!OnlyChanges, Ledger!Overlaps, Ledger!LessonEnd,
         Overlaps, LessonEnd, LessonRow, LessonStatus, Scheduled
<1>7. Scheduled(l) \/ lesson[l].status = "none"
  BY DEF NoRow
<1>. QED
  BY <1>6, <1>7 DEF Ledger!Next, Ledger!Book, Ledger!Move, Ledger!Scheduled, Scheduled

\* Every commit is one step of the ledger, and every other step leaves it alone.
LEMMA StepImplementsLedger ==
  ASSUME IInv, LockInv, [Next]_vars
  PROVE  [Ledger!Next]_lesson
<1>1. CASE UNCHANGED vars
  BY <1>1 DEF vars
<1>2. ASSUME NEW p \in Clients, WriteCancel(p), tx[p].lesson \in Lessons,
             Scheduled(tx[p].lesson)
      PROVE  Ledger!Next
  <2>1. lesson \in [Lessons -> LessonRow]
    BY DEF IInv, TypeOK
  <2>2. lesson' = [lesson EXCEPT ![tx[p].lesson] =
                     [lesson[tx[p].lesson] EXCEPT !.status = "CANCELLED"]]
    BY <1>2, <2>1 DEF WriteCancel
  <2>3. lesson' \in [Lessons -> LessonRow]
    BY <1>2, <2>1, <2>2 DEF LessonRow, LessonStatus
  <2>4. Ledger!Cancel({tx[p].lesson})
    BY <1>2, <2>1, <2>2, <2>3
       DEF Ledger!Cancel, Ledger!Row, Ledger!LessonStatus, Ledger!Scheduled,
           Ledger!OnlyChanges, LessonRow, LessonStatus, Scheduled
  <2>. QED
    BY <1>2, <2>4 DEF Ledger!Next
<1>3. ASSUME NEW p \in Clients, WriteStatus(p)
      PROVE  Ledger!Next
  <2>1. PICK S \in SUBSET Lessons :
           /\ \A l \in S : /\ Scheduled(l)
                           /\ lesson'[l] = [lesson[l] EXCEPT !.status = "CANCELLED"]
           /\ \A l \in Lessons \ S : lesson'[l] = lesson[l]
           /\ lesson' \in [Lessons -> LessonRow]
    BY <1>3, ClosingCancels
  <2>2. Ledger!Cancel(S)
    BY <2>1 DEF Ledger!Cancel, Ledger!Row, Ledger!LessonStatus, Ledger!Scheduled,
                Ledger!OnlyChanges, LessonRow, LessonStatus, Scheduled
  <2>. QED
    BY <2>2 DEF Ledger!Next
<1>. QED
  BY <1>1, <1>2, <1>3, WritesToRows, WriteBookingIsPut

\* Concurrent requests on the lesson tables behave as if each one took effect in
\* a single step into a slot that is free (ImplementsLedger of LessonSchedule).
THEOREM LedgerImplemented == Spec => ImplementsLedger
<1>1. Init => Ledger!Init
  BY DEF Init, Ledger!Init, NoRow, Ledger!NoRow
<1>2. IInv /\ LockInv /\ [Next]_vars => [Ledger!Next]_lesson
  BY StepImplementsLedger
<1>3. Spec => Ledger!Spec
  BY <1>1, <1>2, Invariants, PTL DEF Spec, Ledger!Spec
<1>. QED
  BY <1>3 DEF ImplementsLedger

-----------------------------------------------------------------------------
(* Lock order *)

\* A client waits only for locks that come after those it holds: the row of a
\* group, then the row of a lesson, then the advisory keys in sort order.
InOrder(p) ==
  /\ tx[p].stage \in {"idle", "group"} => held[p] = {}
  /\ tx[p].stage = "check" /\ tx[p].op = "updateGroup" => held[p] = {}
  /\ tx[p].stage = "row" => \A a \in held[p] : a[1] \in {"share", "update"}
  /\ tx[p].stage = "check" => \A a \in held[p] : a[1] # "key"
  /\ tx[p].stage = "keys" => \A a \in held[p] : a[1] = "key" =>
       \E j \in Keys : /\ a = <<"key", HashOf[j]>>
                       /\ \A k \in tx[p].keys : KeyRank[j] < KeyRank[k]

LocksInOrder == \A p \in Clients : InOrder(p)

\* A client that begins holds nothing, and asks for the row of a group or of a
\* lesson before anything else.
LEMMA BeginInOrder ==
  ASSUME TypeOK, LocksInOrder, NEW p \in Clients, Begin(p)
  PROVE  InOrder(p)' /\ \A q \in Clients \ {p} : UNCHANGED <<tx[q], held[q]>>
<1>1. PICK t \in Tx : /\ t.stage \in {"group", "row", "check"}
                      /\ tx' = [tx EXCEPT ![p] = t]
                      /\ UNCHANGED <<clock, data, suspended, held>>
  BY BeginIsRequest
<1>2. tx[p].stage = "idle"
  BY DEF Begin, CreateTheory, CreatePractice, ChangeTheory, ChangePractice,
         CancelTheory, CancelPractice, MarkAttendance, ChangeStatus, UpdateGroup,
         Request
<1>3. held[p] = {} /\ tx \in [Clients -> Tx]
  BY <1>2 DEF LocksInOrder, InOrder, TypeOK
<1>. QED
  BY <1>1, <1>3 DEF InOrder

\* Every lock that is taken keeps the order.
LEMMA AcquireInOrder ==
  ASSUME TypeOK, LocksInOrder, NEW p \in Clients, Acquire(p)
  PROVE  InOrder(p)' /\ \A q \in Clients \ {p} : UNCHANGED <<tx[q], held[q]>>
<1>1. /\ tx[p] \in Tx /\ WellFormed(tx[p]) /\ tx \in [Clients -> Tx] /\ InOrder(p)
  BY DEF TypeOK, LocksInOrder
<1>2. CASE LockGroup(p)
  <2>1. /\ tx' = [tx EXCEPT ![p].stage = AfterGroup(tx[p].op)]
        /\ Grant(p, GroupLock(p)) /\ held[p] = {} /\ tx[p].stage = "group"
    BY <1>1, <1>2 DEF LockGroup, Goto, InOrder
  <2>2. /\ tx'[p].stage = AfterGroup(tx[p].op) /\ tx'[p].op = tx[p].op
        /\ \A q \in Clients \ {p} : tx'[q] = tx[q]
    BY <1>1, <2>1
  <2>3. held'[p] = {GroupLock(p)} /\ \A q \in Clients \ {p} : held'[q] = held[q]
    BY <2>1, GrantHolds
  <2>4. /\ AfterGroup(tx[p].op) \in {"row", "check", "write"}
        /\ tx[p].op = "updateGroup" => AfterGroup(tx[p].op) = "write"
    BY DEF AfterGroup, TheoryRowOps
  <2>5. GroupLock(p)[1] \in {"share", "update"}
    BY DEF GroupLock
  <2>. QED
    BY <2>2, <2>3, <2>4, <2>5 DEF InOrder
<1>3. CASE LockLesson(p)
  <2>1. /\ tx' = [tx EXCEPT ![p].stage = "check"]
        /\ Grant(p, <<"row", tx[p].lesson>>) /\ tx[p].stage = "row"
    BY <1>3 DEF LockLesson, Goto
  <2>2. /\ tx'[p].stage = "check" /\ tx'[p].op = tx[p].op
        /\ \A q \in Clients \ {p} : tx'[q] = tx[q]
    BY <1>1, <2>1
  <2>3. /\ held'[p] = held[p] \cup {<<"row", tx[p].lesson>>}
        /\ \A q \in Clients \ {p} : held'[q] = held[q]
    BY <2>1, GrantHolds
  <2>4. tx[p].op # "updateGroup"
    BY <1>1, <2>1 DEF WellFormed, LessonOps, CreateOps, TheoryRowOps, PracticeRowOps
  <2>5. \A a \in held'[p] : a[1] # "key"
    BY <1>1, <2>1, <2>3 DEF InOrder
  <2>. QED
    BY <2>2, <2>3, <2>4, <2>5 DEF InOrder
<1>4. CASE LockKey(p)
  <2>1. PICK k \in NextKeys(p) :
          /\ Grant(p, <<"key", HashOf[k]>>)
          /\ tx' = [tx EXCEPT ![p].keys = @ \ {k},
                              ![p].stage = IF tx[p].keys = {k} THEN "search" ELSE "keys"]
    BY <1>4 DEF LockKey
  <2>2. /\ tx'[p].stage \in {"keys", "search"} /\ tx'[p].keys = tx[p].keys \ {k}
        /\ \A q \in Clients \ {p} : tx'[q] = tx[q]
    BY <1>1, <2>1 DEF Tx
  <2>3. /\ held'[p] = held[p] \cup {<<"key", HashOf[k]>>}
        /\ \A q \in Clients \ {p} : held'[q] = held[q]
    BY <2>1, GrantHolds
  <2>4. k \in Keys /\ \A j \in tx[p].keys \ {k} : KeyRank[k] < KeyRank[j]
    BY <1>1, ScheduleAssumption DEF NextKeys, Tx
  <2>5. tx[p].stage = "keys"
    BY <1>4 DEF LockKey
  <2>6. \A a \in held'[p] : a[1] = "key" =>
          \E j \in Keys : /\ a = <<"key", HashOf[j]>>
                          /\ \A i \in tx[p].keys \ {k} : KeyRank[j] < KeyRank[i]
    BY <1>1, <2>3, <2>4, <2>5 DEF InOrder
  <2>. QED
    BY <2>2, <2>3, <2>6 DEF InOrder
<1>. QED
  BY <1>2, <1>3, <1>4 DEF Acquire

\* A transaction that ends holds nothing.
LEMMA EndInOrder ==
  ASSUME TypeOK, NEW p \in Clients, EndTx(p)
  PROVE  InOrder(p)' /\ \A q \in Clients \ {p} : UNCHANGED <<tx[q], held[q]>>
BY DEF TypeOK, EndTx, InOrder, IdleTx

\* The checks take no lock; those of an update of a group hold none.
LEMMA CheckInOrder ==
  ASSUME TypeOK, LocksInOrder, NEW p \in Clients, Check(p)
  PROVE  InOrder(p)' /\ \A q \in Clients \ {p} : UNCHANGED <<tx[q], held[q]>>
<1>1. CASE EndTx(p)
  BY <1>1, EndInOrder
<1>2. CASE ~EndTx(p)
  <2>1. tx[p] \in Tx /\ tx \in [Clients -> Tx] /\ WellFormed(tx[p]) /\ InOrder(p)
    BY DEF TypeOK, LocksInOrder
  <2>2. /\ tx'[p].stage = AfterCheck(tx[p].op) /\ held' = held /\ tx[p].stage = "check"
        /\ \A q \in Clients \ {p} : tx'[q] = tx[q]
    BY <1>2, <2>1 DEF Check, Tx
  <2>3. tx[p].op \in OpNames
    BY <2>1, <2>2 DEF WellFormed
  <2>4. /\ AfterCheck(tx[p].op) \in {"keys", "group", "write"}
        /\ AfterCheck(tx[p].op) = "group" => tx[p].op = "updateGroup"
    BY <2>3 DEF AfterCheck
  <2>. QED
    BY <2>1, <2>2, <2>4 DEF InOrder
<1>. QED
  BY <1>1, <1>2

\* The order of the locks is inductive, given the types.
LEMMA NextInOrder == TypeOK /\ LocksInOrder /\ [Next]_vars => LocksInOrder'
<1>. SUFFICES ASSUME TypeOK, LocksInOrder, [Next]_vars PROVE LocksInOrder'
  OBVIOUS
<1>1. ASSUME NEW p \in Clients,
             InOrder(p)' /\ \A q \in Clients \ {p} : UNCHANGED <<tx[q], held[q]>>
      PROVE  LocksInOrder'
  BY <1>1 DEF LocksInOrder, InOrder
<1>2. ASSUME NEW p \in Clients, Search(p) PROVE LocksInOrder'
  <2>1. CASE EndTx(p)
    BY <1>1, <2>1, EndInOrder
  <2>2. CASE Goto(p, "write") /\ UNCHANGED held
    <3>1. /\ tx'[p].stage = "write" /\ held' = held
          /\ \A q \in Clients \ {p} : tx'[q] = tx[q]
      BY <2>2 DEF Goto, TypeOK, Tx
    <3>. QED
      BY <1>1, <3>1 DEF InOrder
  <2>. QED
    BY <1>2, <2>1, <2>2 DEF Search
<1>3. ASSUME NEW p \in Clients, Write(p) \/ Abort(p) PROVE LocksInOrder'
  <2>1. EndTx(p)
    BY <1>3 DEF Write, WriteBooking, WriteCancel, WriteAttendance, WriteStatus,
                WriteGroup, Abort
  <2>. QED
    BY <1>1, <2>1, EndInOrder
<1>4. CASE UNCHANGED <<tx, held>>
  BY <1>4 DEF LocksInOrder, InOrder
<1>. QED
  BY <1>1, <1>2, <1>3, <1>4, BeginInOrder, AcquireInOrder, CheckInOrder
     DEF Next, Proceed, Environment, Tick, Enrol, Withdraw, Suspend, vars

\* How far in the lock order the lock is that a client asks for.
WantedLevel(p) ==
  CASE tx[p].stage = "group" -> 0
    [] tx[p].stage = "row"   -> 1
    [] OTHER                 -> 2 + KeyRank[CHOOSE k \in NextKeys(p) : TRUE]

\* Whoever is waited for, and waits, waits further up in the order.
LEMMA WaitsUpwards ==
  ASSUME TypeOK, LocksInOrder,
         \A j, k \in Keys : HashOf[j] = HashOf[k] => j = k,
         NEW p \in Clients, NEW q \in Clients, WaitsFor(p, q), Wants(q) # {}
  PROVE  /\ WantedLevel(p) \in Nat /\ WantedLevel(q) \in Nat
         /\ WantedLevel(p) < WantedLevel(q)
<1>1. PICK a \in Wants(p), b \in held[q] : b \in Excludes(a)
  BY DEF WaitsFor
<1>2. InOrder(q) /\ tx[p] \in Tx /\ tx[q] \in Tx
  BY DEF LocksInOrder, TypeOK
<1>3. ASSUME NEW r \in {p, q}, Wants(r) # {}
      PROVE  /\ tx[r].stage \in {"group", "row", "keys"}
             /\ tx[r].stage = "keys" => \E k \in tx[r].keys :
                  /\ k \in Keys /\ KeyRank[k] \in Nat
                  /\ WantedLevel(r) = 2 + KeyRank[k]
                  /\ Wants(r) = {<<"key", HashOf[k]>>}
  <2>1. tx[r].stage \in {"group", "row", "keys"}
    BY <1>3 DEF Wants
  <2>2. CASE tx[r].stage = "keys"
    <3>1. NextKeys(r) # {}
      BY <1>3, <2>2 DEF Wants
    <3>2. PICK k : k = CHOOSE j \in NextKeys(r) : TRUE
      OBVIOUS
    <3>3. k \in NextKeys(r)
      BY <3>1, <3>2
    <3>4. k \in tx[r].keys /\ k \in Keys /\ KeyRank[k] \in Nat
      BY <1>2, <3>3, ScheduleAssumption DEF NextKeys, Tx
    <3>5. NextKeys(r) = {k}
      <4>. SUFFICES ASSUME NEW j \in NextKeys(r) PROVE j = k
        BY <3>3
      <4>1. j \in Keys /\ KeyRank[j] \in Nat /\ KeyRank[j] = KeyRank[k]
        BY <1>2, <3>3, <3>4, ScheduleAssumption DEF NextKeys, Tx
      <4>. QED
        BY <3>4, <4>1, ScheduleAssumption
    <3>6. WantedLevel(r) = 2 + KeyRank[k]
      BY <2>2, <3>2 DEF WantedLevel
    <3>7. Wants(r) = {<<"key", HashOf[k]>>}
      <4>1. Wants(r) = {<<"key", HashOf[j]>> : j \in NextKeys(r)}
        BY <2>2 DEF Wants
      <4>. QED
        BY <3>5, <4>1
    <3>. QED
      BY <2>2, <3>4, <3>6, <3>7
  <2>. QED
    BY <2>1, <2>2
<1>4. tx[q].stage \in {"row", "keys"} /\ b \in held[q]
  BY <1>1, <1>2, <1>3 DEF InOrder
<1>5. CASE tx[p].stage = "group"
  BY <1>3, <1>4, <1>5 DEF WantedLevel
<1>6. CASE tx[p].stage = "row"
  <2>1. b = <<"row", tx[p].lesson>>
    BY <1>1, <1>6 DEF Wants, Excludes
  <2>2. tx[q].stage = "keys"
    BY <1>2, <1>4, <2>1 DEF InOrder
  <2>. QED
    BY <1>3, <1>6, <2>2 DEF WantedLevel
<1>7. CASE tx[p].stage = "keys"
  <2>1. PICK k \in tx[p].keys : /\ k \in Keys /\ KeyRank[k] \in Nat
                                /\ WantedLevel(p) = 2 + KeyRank[k]
                                /\ Wants(p) = {<<"key", HashOf[k]>>}
    BY <1>1, <1>3, <1>7
  <2>2. b = <<"key", HashOf[k]>>
    BY <1>1, <2>1, KeyExcludesItself
  <2>3. tx[q].stage = "keys"
    BY <1>2, <1>4, <2>2 DEF InOrder
  <2>4. PICK i \in tx[q].keys : /\ i \in Keys /\ KeyRank[i] \in Nat
                                /\ WantedLevel(q) = 2 + KeyRank[i]
    BY <1>3, <2>3
  <2>5. PICK j \in Keys : b = <<"key", HashOf[j]>> /\ KeyRank[j] < KeyRank[i]
    BY <1>2, <1>4, <2>2, <2>3, <2>4 DEF InOrder
  <2>6. j = k
    BY <2>1, <2>2, <2>5
  <2>. QED
    BY <2>1, <2>4, <2>5, <2>6
<1>. QED
  BY <1>1, <1>3, <1>5, <1>6, <1>7

\* No requests ever wait in a circle for each other's locks (NoWaitCycle of
\* LessonSchedule), provided no two keys hash to one lock and the sort order of
\* the keys is bounded, as that of any finite number of keys is.
THEOREM NoDeadlock ==
  ASSUME \A j, k \in Keys : HashOf[j] = HashOf[k] => j = k,
         \E bound \in Nat : \A k \in Keys : KeyRank[k] <= bound
  PROVE  Spec => []NoWaitCycle
<1>1. Init => TypeOK /\ LocksInOrder
  BY InitTyped DEF Init, LocksInOrder, InOrder, IdleTx
<1>2. TypeOK /\ LocksInOrder /\ [Next]_vars => TypeOK' /\ LocksInOrder'
  BY NextTyped, NextInOrder
<1>3. TypeOK /\ LocksInOrder => NoWaitCycle
  <2>. SUFFICES ASSUME TypeOK, LocksInOrder, NEW S \in SUBSET Clients, S # {},
                       \A p \in S : \E q \in S \ {p} : WaitsFor(p, q)
                PROVE  FALSE
    BY DEF NoWaitCycle
  <2>1. PICK bound \in Nat : \A k \in Keys : KeyRank[k] <= bound
    OBVIOUS
  <2>2. \A p \in S : \E q \in S : /\ WantedLevel(p) \in Nat /\ WantedLevel(q) \in Nat
                                  /\ WantedLevel(p) < WantedLevel(q)
    <3>. SUFFICES ASSUME NEW p \in S
                  PROVE  \E q \in S : /\ WantedLevel(p) \in Nat /\ WantedLevel(q) \in Nat
                                      /\ WantedLevel(p) < WantedLevel(q)
      OBVIOUS
    <3>1. PICK q \in S : WaitsFor(p, q)
      OBVIOUS
    <3>2. Wants(q) # {}
      BY DEF WaitsFor
    <3>. QED
      BY <3>1, <3>2, WaitsUpwards
  <2>3. \A p \in S : WantedLevel(p) <= 2 + bound
    <3>. SUFFICES ASSUME NEW p \in S PROVE WantedLevel(p) <= 2 + bound
      OBVIOUS
    <3>1. CASE tx[p].stage \in {"group", "row"}
      BY <3>1 DEF WantedLevel
    <3>2. CASE tx[p].stage \notin {"group", "row"}
      <4>1. NextKeys(p) # {}
        BY <3>2 DEF WaitsFor, Wants
      <4>2. PICK k : k = CHOOSE j \in NextKeys(p) : TRUE
        OBVIOUS
      <4>3. k \in Keys /\ KeyRank[k] \in Nat
        <5>1. k \in NextKeys(p)
          BY <4>1, <4>2
        <5>. QED
          BY <5>1, ScheduleAssumption DEF NextKeys, TypeOK, Tx
      <4>. QED
        BY <2>1, <3>2, <4>2, <4>3 DEF WantedLevel
    <3>. QED
      BY <3>1, <3>2
  <2>. DEFINE Slack == {2 + bound - WantedLevel(p) : p \in S}
  <2>4. Slack \in SUBSET Nat /\ Slack # {}
    BY <2>1, <2>2, <2>3
  <2>. HIDE DEF Slack
  <2>5. PICK least \in Slack : \A m \in Slack : least <= m
    <3>1. PICK least \in Slack : \A m \in Slack : <<m, least>> \notin OpToRel(<, Nat)
      BY <2>4, NatLessThanWellFounded, WFMin
    <3>2. \A m \in Slack : ~(m < least)
      BY <2>4, <3>1 DEF OpToRel
    <3>. QED
      BY <2>4, <3>2
  <2>6. PICK p \in S : least = 2 + bound - WantedLevel(p)
    BY <2>5 DEF Slack
  <2>7. PICK q \in S : /\ WantedLevel(p) \in Nat /\ WantedLevel(q) \in Nat
                       /\ WantedLevel(p) < WantedLevel(q)
    BY <2>2
  <2>8. least <= 2 + bound - WantedLevel(q)
    BY <2>5 DEF Slack
  <2>. QED
    BY <2>1, <2>6, <2>7, <2>8
<1>. QED
  BY <1>1, <1>2, <1>3, PTL DEF Spec
=============================================================================
