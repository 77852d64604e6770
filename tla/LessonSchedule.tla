--------------------------- MODULE LessonSchedule ---------------------------
(***************************************************************************)
(* The lesson schedule of a driving school under concurrent requests:      *)
(* lessons.service.ts, schedule-conflicts.ts, the marking of attendance in *)
(* lesson-attendance.service.ts, the two operations of groups.service.ts   *)
(* that touch a group with lessons, and the row and advisory locks of      *)
(* common/prisma they coordinate by.                                       *)
(*                                                                         *)
(* A client is one HTTP request at a time.  A request is read `now`, then  *)
(* one READ COMMITTED transaction that goes through stages; between two    *)
(* stages any other client may run.  Locks are held until the transaction  *)
(* commits or rolls back.  Theory and practice lessons are one table here: *)
(* a row says which keys (group; or instructor, car and student) it uses.  *)
(* The actor is an ADMIN: the checks for other roles only refuse more.     *)
(***************************************************************************)
EXTENDS ScheduleSlots, FiniteSets

CONSTANTS
  Groups, Teachers, Students, Instructors, Cars,
  TheoryIds, PracticeIds,  \* identifiers of rows of lessons and driving_lessons
  Clients,                 \* requests that may be in progress together
  Ops,                     \* the operations clients may request in this model
  MaxTime,                 \* bound on the clock and on the start of a lesson
  DateRanges,              \* the ranges of days a group can be given
  Fit,                     \* <<c, i, s>>: car c belongs to instructor i and has
                           \* the category and transmission of student s
  Movable,                 \* students whose enrolment may change
  Fickle,                  \* people and cars that may be suspended
  KeyRank, HashOf,         \* sort order of lock keys; the hash that is locked
  None

Lessons == TheoryIds \cup PracticeIds
Times == 1 .. MaxTime

OpNames == {"createTheory", "changeTheory", "cancelTheory", "markAttendance",
            "createPractice", "changePractice", "cancelPractice",
            "changeStatus", "updateGroup"}

\* scheduleLockKey: a resource kind and an id.
GroupKey(g) == <<"group", g>>
TeacherKey(t) == <<"teacher", t>>
StudentKey(s) == <<"student", s>>
InstructorKey(i) == <<"instructor", i>>
CarKey(c) == <<"car", c>>

Keys == ({"group"} \X Groups) \cup ({"teacher"} \X Teachers)
          \cup ({"student"} \X Students) \cup ({"instructor"} \X Instructors)
          \cup ({"car"} \X Cars)

ASSUME ScheduleAssumption ==
  /\ MaxTime \in Nat
  /\ Ops \subseteq OpNames
  /\ DateRanges \subseteq SUBSET Nat
  /\ Fit \subseteq Cars \X Instructors \X Students
  /\ KeyRank \in [Keys -> Nat]
  /\ \A j, k \in Keys : KeyRank[j] = KeyRank[k] => j = k
  /\ DOMAIN HashOf = Keys
  /\ None \notin Lessons \cup Groups \cup Teachers \cup Students
  /\ TheoryIds \cap PracticeIds = {}

VARIABLES
  clock,       \* wall clock
  group,       \* rows of groups: status, teacher and days
  enrolled,    \* <<s, g>>: student s has an ACTIVE enrolment in group g
  suspended,   \* people and cars that are not ACTIVE / AVAILABLE
  lesson,      \* rows of both lesson tables
  attendance,  \* the students marked for each theory lesson
  tx,          \* the request each client is working on
  held         \* the locks of each client's transaction

data == <<group, enrolled, lesson, attendance>>
vars == <<clock, group, enrolled, suspended, lesson, attendance, tx, held>>

-----------------------------------------------------------------------------
(* Rows, locks and requests *)

GroupStatus == {"PLANNED", "ACTIVE", "COMPLETED", "ARCHIVED"}
LessonStatus == {"none", "SCHEDULED", "CANCELLED"}

LessonRow == [status: LessonStatus, uses: SUBSET Keys, start: Nat, dur: Nat]

NoRow == [status |-> "none", uses |-> {}, start |-> 0, dur |-> 0]

\* GROUP_STATUS_TRANSITIONS: forward only.
Transitions == [PLANNED   |-> {"ACTIVE", "ARCHIVED"},
                ACTIVE    |-> {"COMPLETED", "ARCHIVED"},
                COMPLETED |-> {"ARCHIVED"},
                ARCHIVED  |-> {}]

IsOpenStatus(status) == status \in {"PLANNED", "ACTIVE"}
IsOpenGroup(g) == IsOpenStatus(group[g].status)

Scheduled(l) == lesson[l].status = "SCHEDULED"

Lock == ({"share", "update"} \X Groups) \cup ({"row"} \X Lessons)
          \cup ({"key"} \X {HashOf[k] : k \in Keys})

\* FOR SHARE admits FOR SHARE; every other lock excludes all others.
Excludes(a) ==
  CASE a[1] = "share"  -> {<<"update", a[2]>>}
    [] a[1] = "update" -> {<<"share", a[2]>>, <<"update", a[2]>>}
    [] OTHER           -> {a}

BookingOps == {"createTheory", "changeTheory", "createPractice", "changePractice"}
CreateOps == {"createTheory", "createPractice"}
TheoryRowOps == {"changeTheory", "cancelTheory", "markAttendance"}
PracticeRowOps == {"changePractice", "cancelPractice"}
CancelOps == {"cancelTheory", "cancelPractice"}
GroupOps == {"createTheory", "changeStatus", "updateGroup"} \cup TheoryRowOps
LessonOps == CreateOps \cup TheoryRowOps \cup PracticeRowOps

Stages == {"idle", "group", "row", "check", "keys", "search", "write"}

\* What else a request says: the student to mark, the next status of a group,
\* the new teacher and days of a group.
NoArg == [student |-> None, status |-> None, teacher |-> None, days |-> None]

IdleTx == [stage |-> "idle", op |-> "none", lesson |-> None, group |-> None,
           uses |-> {}, start |-> 0, dur |-> 0, now |-> 0, keys |-> {},
           arg |-> NoArg]

\* Mutant of FirstStage: the status of a group is changed without its lock.
FirstStageUnlockedStatus(o) ==
  CASE o \in {"createTheory"} \cup TheoryRowOps -> "group"
    [] o \in PracticeRowOps -> "row"
    [] OTHER -> "check"

\* What a request of operation o does first, and what follows the group lock
\* and the checks.  Lock order: group row, lesson row, advisory keys.
FirstStage(o) ==
  CASE o \in {"createTheory", "changeStatus"} \cup TheoryRowOps -> "group"
    [] o \in PracticeRowOps -> "row"
    [] OTHER -> "check"

AfterGroup(o) ==
  CASE o \in TheoryRowOps -> "row"
    [] o = "updateGroup" -> "write"
    [] OTHER -> "check"

AfterCheck(o) ==
  CASE o \in BookingOps -> "keys"
    [] o = "updateGroup" -> "group"
    [] OTHER -> "write"

\* Mutant of GroupLock: changing the status takes FOR SHARE like the rest.
GroupLockAlwaysShared(p) == <<"share", tx[p].group>>

\* The lock mode a request needs on its group row.  An UPDATE statement takes
\* FOR NO KEY UPDATE, which excludes FOR SHARE and itself like FOR UPDATE.
GroupLock(p) ==
  <<IF tx[p].op \in {"changeStatus", "updateGroup"} THEN "update" ELSE "share",
    tx[p].group>>

\* Mutant of NextKeys: the keys are not sorted.
NextKeysUnsorted(p) == tx[p].keys

\* pg_advisory_xact_lock is asked for the keys one at a time, in sort order.
NextKeys(p) ==
  {k \in tx[p].keys : \A j \in tx[p].keys : KeyRank[k] <= KeyRank[j]}

\* The locks the client is asking for in its present stage.
Wants(p) ==
  CASE tx[p].stage = "group" -> {GroupLock(p)}
    [] tx[p].stage = "row"   -> {<<"row", tx[p].lesson>>}
    [] tx[p].stage = "keys"  -> {<<"key", HashOf[k]>> : k \in NextKeys(p)}
    [] OTHER                 -> {}

WaitsFor(p, q) == \E a \in Wants(p) : held[q] \cap Excludes(a) # {}

Grant(p, a) ==
  /\ \A q \in Clients \ {p} : held[q] \cap Excludes(a) = {}
  /\ held' = [held EXCEPT ![p] = @ \cup {a}]

Goto(p, stage) == tx' = [tx EXCEPT ![p].stage = stage]

\* Mutant of EndTx: session-level advisory locks, which outlive the transaction.
EndTxKeepsKeys(p) ==
  /\ tx' = [tx EXCEPT ![p] = IdleTx]
  /\ held' = [held EXCEPT ![p] = {a \in @ : a[1] = "key"}]

\* COMMIT or ROLLBACK: the locks go, the client can take another request.
EndTx(p) ==
  /\ tx' = [tx EXCEPT ![p] = IdleTx]
  /\ held' = [held EXCEPT ![p] = {}]

-----------------------------------------------------------------------------
(* Requests.  `now` is read before the transaction begins. *)

Request(p, o, l, g, u, s, d, a) ==
  /\ o \in Ops
  /\ tx[p].stage = "idle"
  /\ tx' = [tx EXCEPT ![p] =
             [stage |-> FirstStage(o), op |-> o, lesson |-> l, group |-> g,
              uses |-> u, start |-> s, dur |-> d, now |-> clock, keys |-> {},
              arg |-> a]]
  /\ UNCHANGED <<clock, data, suspended, held>>

\* The id of a row is chosen with the request: no row and no request has it.
Unused(l) == lesson[l].status = "none" /\ \A q \in Clients : tx[q].lesson # l

Exists(l) == lesson[l].status # "none"

GroupsOf(l) == {g \in Groups : GroupKey(g) \in lesson[l].uses}
StudentsOf(u) == {s \in Students : StudentKey(s) \in u}

\* A new lesson must begin in the future; that check needs no transaction.
CreateTheory(p) ==
  \E l \in TheoryIds, g \in Groups, s \in Times, d \in Durations :
    /\ Unused(l)
    /\ s > clock
    /\ Request(p, "createTheory", l, g, {GroupKey(g)}, s, d, NoArg)

CreatePractice(p) ==
  \E l \in PracticeIds, s \in Times, d \in Durations :
    \E i \in Instructors, c \in Cars, stud \in Students :
      /\ Unused(l)
      /\ s > clock
      /\ Request(p, "createPractice", l, None,
                 {InstructorKey(i), CarKey(c), StudentKey(stud)}, s, d, NoArg)

ChangeTheory(p) ==
  \E l \in TheoryIds, s \in Times, d \in Durations :
    /\ Exists(l)
    /\ \E g \in GroupsOf(l) :
         Request(p, "changeTheory", l, g, {GroupKey(g)}, s, d, NoArg)

ChangePractice(p) ==
  \E l \in PracticeIds, s \in Times, d \in Durations :
    /\ Exists(l)
    /\ \E i \in Instructors, c \in Cars, stud \in StudentsOf(lesson[l].uses) :
         Request(p, "changePractice", l, None,
                 {InstructorKey(i), CarKey(c), StudentKey(stud)}, s, d, NoArg)

CancelTheory(p) ==
  \E l \in TheoryIds :
    /\ Exists(l)
    /\ \E g \in GroupsOf(l) : Request(p, "cancelTheory", l, g, {}, 0, 0, NoArg)

CancelPractice(p) ==
  \E l \in PracticeIds :
    Exists(l) /\ Request(p, "cancelPractice", l, None, {}, 0, 0, NoArg)

MarkAttendance(p) ==
  \E l \in TheoryIds, stud \in Students :
    /\ Exists(l)
    /\ \E g \in GroupsOf(l) :
         Request(p, "markAttendance", l, g, {}, 0, 0,
                 [NoArg EXCEPT !.student = stud])

ChangeStatus(p) ==
  \E g \in Groups, next \in GroupStatus :
    Request(p, "changeStatus", None, g, {}, 0, 0, [NoArg EXCEPT !.status = next])

UpdateGroup(p) ==
  \E g \in Groups, t \in Teachers, days \in DateRanges :
    Request(p, "updateGroup", None, g, {}, 0, 0,
            [NoArg EXCEPT !.teacher = t, !.days = days])

Begin(p) ==
  \/ CreateTheory(p)   \/ ChangeTheory(p)   \/ CancelTheory(p)
  \/ CreatePractice(p) \/ ChangePractice(p) \/ CancelPractice(p)
  \/ MarkAttendance(p) \/ ChangeStatus(p)   \/ UpdateGroup(p)

-----------------------------------------------------------------------------
(* Locks *)

\* lockGroup; for updateGroup the row lock its UPDATE waits for.
LockGroup(p) ==
  /\ tx[p].stage = "group"
  /\ Grant(p, GroupLock(p))
  /\ Goto(p, AfterGroup(tx[p].op))
  /\ UNCHANGED <<clock, data, suspended>>

\* Mutant of LockLesson: the row is read without FOR UPDATE.
LockLessonOnlyReads(p) ==
  /\ tx[p].stage = "row"
  /\ Goto(p, "check")
  /\ UNCHANGED <<clock, data, suspended, held>>

\* lockTheoryLesson and lockPracticeLesson.
LockLesson(p) ==
  /\ tx[p].stage = "row"
  /\ Grant(p, <<"row", tx[p].lesson>>)
  /\ Goto(p, "check")
  /\ UNCHANGED <<clock, data, suspended>>

\* One round of the loop of lockScheduleResources.
LockKey(p) ==
  /\ tx[p].stage = "keys"
  /\ \E k \in NextKeys(p) :
       /\ Grant(p, <<"key", HashOf[k]>>)
       /\ tx' = [tx EXCEPT ![p].keys = @ \ {k},
                           ![p].stage = IF tx[p].keys = {k} THEN "search" ELSE "keys"]
  /\ UNCHANGED <<clock, data, suspended>>

-----------------------------------------------------------------------------
(* Checks *)

\* assertInstructorActive and requirePracticeProfile: the student still practises.
NoneSuspended(u) == u \cap suspended = {}

\* requireInstructor and requirePracticeCar: the car is available, the
\* instructor's own and of the right kind.
PracticeAllowed(u) ==
  /\ NoneSuspended(u)
  /\ \E f \in Fit : u = {CarKey(f[1]), InstructorKey(f[2]), StudentKey(f[3])}

TheoryAllowed(g, s) ==
  /\ s \in group[g].days
  /\ TeacherKey(group[g].teacher) \notin suspended

\* updateGroup writes the fields that differ from the row it has read.
ChangedFields(p) ==
  LET row == group[tx[p].group]
      Differing(new, old) == IF new = old THEN None ELSE new
  IN [NoArg EXCEPT !.teacher = Differing(tx[p].arg.teacher, row.teacher),
                   !.days    = Differing(tx[p].arg.days, row.days)]

MayCreateTheory(t) == IsOpenGroup(t.group) /\ TheoryAllowed(t.group, t.start)

\* Mutant of MayChangeTheory: the marks of the lesson are not counted.
MayChangeTheoryWithMarks(t) ==
  /\ Scheduled(t.lesson)
  /\ IsOpenGroup(t.group)
  /\ t.start > t.now
  /\ TheoryAllowed(t.group, t.start)

\* Attendance describes a lesson that took place: it is not moved any more.
MayChangeTheory(t) ==
  LET row == lesson[t.lesson]
  IN /\ row.status = "SCHEDULED"
     /\ IsOpenGroup(t.group)
     /\ t.start > t.now
     /\ t.start # row.start => attendance[t.lesson] = {}
     /\ TheoryAllowed(t.group, t.start)

MayCancelTheory(t) ==
  /\ Scheduled(t.lesson)
  /\ IsOpenGroup(t.group)
  /\ lesson[t.lesson].start > t.now

\* assertActiveMembers.
IsMember(s, g) == <<s, g>> \in enrolled

\* attendanceBlocker and assertActiveMembers.
MayMarkAttendance(t) ==
  /\ lesson[t.lesson].status # "CANCELLED"
  /\ IsOpenGroup(t.group)
  /\ lesson[t.lesson].start <= t.now
  /\ IsMember(t.arg.student, t.group)

\* Mutant of MayChangePractice: the status of the locked row is not looked at.
MayChangePracticeAnyStatus(t) == t.start > t.now /\ PracticeAllowed(t.uses)

MayChangePractice(t) ==
  /\ Scheduled(t.lesson)
  /\ t.start > t.now
  /\ PracticeAllowed(t.uses)

MayCancelPractice(t) == Scheduled(t.lesson) /\ lesson[t.lesson].start > t.now

MayChangeStatus(t) == t.arg.status \in Transitions[group[t.group].status]

\* requireTeacher: the role and the status.
RequireTeacher(t) == TeacherKey(t) \notin suspended

MayUpdateGroup(p) ==
  /\ IsOpenGroup(tx[p].group)
  /\ ChangedFields(p).teacher # None => RequireTeacher(tx[p].arg.teacher)

\* Whether the request passes its checks in the present state.
Passes(p) ==
  LET t == tx[p]
  IN CASE t.op = "createTheory"   -> MayCreateTheory(t)
       [] t.op = "changeTheory"   -> MayChangeTheory(t)
       [] t.op = "cancelTheory"   -> MayCancelTheory(t)
       [] t.op = "markAttendance" -> MayMarkAttendance(t)
       [] t.op = "createPractice" -> PracticeAllowed(t.uses)
       [] t.op = "changePractice" -> MayChangePractice(t)
       [] t.op = "cancelPractice" -> MayCancelPractice(t)
       [] t.op = "changeStatus"   -> MayChangeStatus(t)
       [] t.op = "updateGroup"    -> MayUpdateGroup(p)

\* A change that changes nothing is answered without any further check.
NoChange(p) ==
  LET row == lesson[tx[p].lesson]
  IN CASE tx[p].op \in {"changeTheory", "changePractice"} ->
            /\ row.uses = tx[p].uses
            /\ row.start = tx[p].start
            /\ row.dur = tx[p].dur
       [] tx[p].op = "updateGroup" ->
            ChangedFields(p) = NoArg
       [] OTHER -> FALSE

\* Mutants of KeysToLock: the teacher, the student's groups or the resources of
\* the lesson itself are forgotten.
KeysWithoutTeacher(p) ==
  LET u == tx[p].uses
  IN u \cup {GroupKey(g) : g \in {h \in Groups :
                                  \E s \in StudentsOf(u) : <<s, h>> \in enrolled}}

KeysWithoutClasses(p) ==
  LET u == tx[p].uses
  IN u \cup {TeacherKey(group[g].teacher) : g \in {h \in Groups : GroupKey(h) \in u}}

KeysOfStudentOnly(p) == {StudentKey(s) : s \in StudentsOf(tx[p].uses)}

\* The keys of the new slot: those the lesson uses, the teacher of a theory
\* lesson, and for practice every group the student is enrolled in by now.
KeysToLock(p) ==
  LET u == tx[p].uses
  IN u \cup {TeacherKey(group[g].teacher) : g \in {h \in Groups : GroupKey(h) \in u}}
       \cup {GroupKey(g) : g \in {h \in Groups :
                                   \E s \in StudentsOf(u) : <<s, h>> \in enrolled}}

Check(p) ==
  /\ tx[p].stage = "check"
  /\ \/ /\ NoChange(p) \/ ~Passes(p)
        /\ EndTx(p)
     \/ /\ ~NoChange(p)
        /\ Passes(p)
        /\ tx' = [tx EXCEPT ![p].stage = AfterCheck(tx[p].op),
                            ![p].keys = IF tx[p].op \in BookingOps
                                        THEN KeysToLock(p) ELSE {},
                            ![p].arg = IF tx[p].op = "updateGroup"
                                       THEN ChangedFields(p) ELSE @]
        /\ UNCHANGED held
  /\ UNCHANGED <<clock, data, suspended>>

-----------------------------------------------------------------------------
(* Conflict search: findTheoryConflicts and findPracticeConflicts *)

\* A lesson of use u and one of use v need the same teacher.
SameTeacher(u, v) ==
  \E g, h \in Groups : /\ GroupKey(g) \in u
                       /\ GroupKey(h) \in v
                       /\ group[g].teacher = group[h].teacher

\* Practice of a student (use u) and theory of one of the student's groups (v).
StudentInClass(u, v) ==
  \E e \in enrolled : StudentKey(e[1]) \in u /\ GroupKey(e[2]) \in v

Related(u, v) ==
  \/ u \cap v # {}
  \/ SameTeacher(u, v)
  \/ StudentInClass(u, v)
  \/ StudentInClass(v, u)

\* The row of lesson l excludes the slot the client asks for.
Conflicts(p, l) ==
  /\ l # tx[p].lesson
  /\ Scheduled(l)
  /\ Related(tx[p].uses, lesson[l].uses)
  /\ Collides(tx[p], lesson[l])

\* The two SELECTs of a search are one step: under the advisory keys nothing
\* one of them reports can be added, only cancelled, between them.
Search(p) ==
  /\ tx[p].stage = "search"
  /\ IF \E l \in Lessons : Conflicts(p, l)
     THEN EndTx(p)
     ELSE Goto(p, "write") /\ UNCHANGED held
  /\ UNCHANGED <<clock, data, suspended>>

-----------------------------------------------------------------------------
(* Writes: the statement that changes the data, and the commit *)

Writing(p, ops) == tx[p].stage = "write" /\ tx[p].op \in ops

\* INSERT of a new row, or UPDATE of the columns of an old one.
WriteBooking(p) ==
  LET t == tx[p]
  IN /\ Writing(p, BookingOps)
     /\ lesson' = [lesson EXCEPT ![t.lesson] =
                     [status |-> IF t.op \in CreateOps THEN "SCHEDULED" ELSE @.status,
                      uses |-> t.uses, start |-> t.start, dur |-> t.dur]]
     /\ EndTx(p)
     /\ UNCHANGED <<clock, group, enrolled, suspended, attendance>>

WriteCancel(p) ==
  /\ Writing(p, CancelOps)
  /\ lesson' = [lesson EXCEPT ![tx[p].lesson].status = "CANCELLED"]
  /\ EndTx(p)
  /\ UNCHANGED <<clock, group, enrolled, suspended, attendance>>

WriteAttendance(p) ==
  /\ Writing(p, {"markAttendance"})
  /\ attendance' = [attendance EXCEPT ![tx[p].lesson] = @ \cup {tx[p].arg.student}]
  /\ EndTx(p)
  /\ UNCHANGED <<clock, group, enrolled, suspended, lesson>>

\* What closing group g cancels: its lessons from now on; past ones stay.
CancelledByClosing(g) ==
  {l \in TheoryIds : /\ Scheduled(l)
                     /\ GroupKey(g) \in lesson[l].uses
                     /\ lesson[l].start >= clock}

WriteStatus(p) ==
  LET g == tx[p].group
      next == tx[p].arg.status
  IN /\ Writing(p, {"changeStatus"})
     /\ group' = [group EXCEPT ![g].status = next]
     /\ \/ /\ IsOpenStatus(next)
           /\ UNCHANGED <<enrolled, lesson>>
        \/ /\ ~IsOpenStatus(next)
           /\ enrolled' = {e \in enrolled : e[2] # g}
           /\ lesson' = [l \in Lessons |->
                           IF l \in CancelledByClosing(g)
                           THEN [lesson[l] EXCEPT !.status = "CANCELLED"]
                           ELSE lesson[l]]
     /\ EndTx(p)
     /\ UNCHANGED <<clock, suspended, attendance>>

WriteGroup(p) ==
  LET g == tx[p].group
      new == tx[p].arg
  IN /\ Writing(p, {"updateGroup"})
     /\ group' = [group EXCEPT
                    ![g].teacher = IF new.teacher = None THEN @ ELSE new.teacher,
                    ![g].days    = IF new.days = None THEN @ ELSE new.days]
     /\ EndTx(p)
     /\ UNCHANGED <<clock, enrolled, suspended, lesson, attendance>>

\* A transaction ends without effect at any time: its time-out, a lost
\* connection, a restart of the process.
Abort(p) ==
  /\ tx[p].stage # "idle"
  /\ EndTx(p)
  /\ UNCHANGED <<clock, data, suspended>>

-----------------------------------------------------------------------------
(* Surroundings: the clock, enrolment and the state of people and cars *)

Tick == clock < MaxTime /\ clock' = clock + 1
        /\ UNCHANGED <<group, enrolled, suspended, lesson, attendance, tx, held>>

\* StudentsService.assignGroup, in one step: it holds the group FOR SHARE.
Enrol(s, g) ==
  /\ s \in Movable
  /\ IsOpenGroup(g)
  /\ \A q \in Clients : <<"update", g>> \notin held[q]
  /\ enrolled' = enrolled \cup {<<s, g>>}
  /\ UNCHANGED <<clock, group, suspended, lesson, attendance, tx, held>>

\* removeFromGroup, archive and changeTrainingStatus take no group lock.
Withdraw(s, g) ==
  /\ s \in Movable
  /\ enrolled' = enrolled \ {<<s, g>>}
  /\ UNCHANGED <<clock, group, suspended, lesson, attendance, tx, held>>

\* A person or a car becomes unavailable or available, in one step and without a
\* lock: CarsService.changeStatus refuses it for cars of students in practice
\* only, UsersService.changeMemberStatus asks nothing of the schedule.
Suspend(r) ==
  /\ r \in Fickle
  /\ suspended' = IF r \in suspended THEN suspended \ {r} ELSE suspended \cup {r}
  /\ UNCHANGED <<clock, group, enrolled, lesson, attendance, tx, held>>

Environment ==
  \/ Tick
  \/ \E s \in Students, g \in Groups : Enrol(s, g) \/ Withdraw(s, g)
  \/ \E r \in Fickle : Suspend(r)

-----------------------------------------------------------------------------
Init ==
  /\ clock = 0
  /\ group \in [Groups -> [status: {"PLANNED"}, teacher: Teachers, days: DateRanges]]
  /\ enrolled \in SUBSET (Students \X Groups)
  /\ \A d, e \in enrolled : d[1] = e[1] => d = e
  /\ suspended = {}
  /\ lesson = [l \in Lessons |-> NoRow]
  /\ attendance = [l \in TheoryIds |-> {}]
  /\ tx = [p \in Clients |-> IdleTx]
  /\ held = [p \in Clients |-> {}]

Acquire(p) == LockGroup(p) \/ LockLesson(p) \/ LockKey(p)

Write(p) ==
  \/ WriteBooking(p) \/ WriteCancel(p) \/ WriteAttendance(p)
  \/ WriteStatus(p)  \/ WriteGroup(p)

Proceed(p) == Check(p) \/ Search(p) \/ Write(p)

Next ==
  \/ \E p \in Clients : Begin(p) \/ Acquire(p) \/ Proceed(p) \/ Abort(p)
  \/ Environment

Spec == Init /\ [][Next]_vars

\* The server keeps working on a request it has begun (a transaction left alone
\* advances), and PostgreSQL grants a contended lock to every waiter in turn.
\* Clients need not send requests, and the surroundings need not move.
FairSpec ==
  /\ Spec
  /\ \A p \in Clients : WF_vars(Proceed(p)) /\ SF_vars(Acquire(p))

-----------------------------------------------------------------------------
(* Types *)

Arg == [student: Students \cup {None}, status: GroupStatus \cup {None},
        teacher: Teachers \cup {None}, days: DateRanges \cup {None}]

Tx == [stage: Stages, op: OpNames \cup {"none"}, lesson: Lessons \cup {None},
       group: Groups \cup {None}, uses: SUBSET Keys, start: Nat, dur: Nat,
       now: Nat, keys: SUBSET Keys, arg: Arg]

\* A request names what its operation works on.
WellFormed(t) ==
  /\ t.op \in GroupOps => t.group \in Groups
  /\ t.op \in LessonOps => t.lesson \in Lessons
  /\ t.op \in BookingOps => t.dur \in Durations
  /\ t.op = "markAttendance" => t.arg.student \in Students
  /\ t.op = "changeStatus" => t.arg.status \in GroupStatus
  /\ t.stage # "idle" => t.op \in OpNames
  /\ t.stage = "group" => t.op \in GroupOps
  /\ t.stage = "row" => t.op \in LessonOps

\* Every variable holds a value of the kind its table or transaction can hold.
TypeOK ==
  /\ clock \in Nat
  /\ group \in [Groups -> [status: GroupStatus, teacher: Teachers, days: DateRanges]]
  /\ enrolled \subseteq Students \X Groups
  /\ suspended \subseteq Fickle
  /\ lesson \in [Lessons -> LessonRow]
  /\ attendance \in [TheoryIds -> SUBSET Students]
  /\ tx \in [Clients -> Tx]
  /\ \A p \in Clients : WellFormed(tx[p])
  /\ \A l \in Lessons : Scheduled(l) => lesson[l].dur \in Durations
  /\ held \in [Clients -> SUBSET Lock]

-----------------------------------------------------------------------------
(* Safety *)

Clash(l, m) ==
  /\ l # m
  /\ Scheduled(l)
  /\ Scheduled(m)
  /\ Overlaps(lesson[l], lesson[m])

\* A group, an instructor, a car and a student in the car are each booked for
\* one lesson at a time, however creates, changes, cancellations and aborted
\* transactions interleave (schedule-conflicts.ts under schedule-lock.ts).
NoDoubleBooking ==
  \A l, m \in Lessons : Clash(l, m) => lesson[l].uses \cap lesson[m].uses = {}

\* What a conflict search has found free stays free until the commit: the keys
\* it was made under keep every other booking of the same resources out.
SearchStaysValid ==
  \A p \in Clients : Writing(p, BookingOps) =>
    \A l \in Lessons \ {tx[p].lesson} :
      Scheduled(l) /\ lesson[l].uses \cap tx[p].uses # {}
        => ~Overlaps(tx[p], lesson[l])

\* Where no group changes its teacher, no teacher has two lessons at once: the
\* teacher key serialises the groups that share a teacher.
TeacherNotDoubleBooked ==
  "updateGroup" \notin Ops =>
    \A l, m \in Lessons : Clash(l, m) => ~SameTeacher(lesson[l].uses, lesson[m].uses)

\* A student whose enrolments do not change is never in the car and in class at
\* once: practice locks the keys of the student's groups (lessons.service.ts).
StudentNotInTwoPlaces ==
  \A l, m \in Lessons : Clash(l, m) =>
    \A e \in enrolled :
      ~(/\ e[1] \notin Movable
        /\ StudentKey(e[1]) \in lesson[l].uses
        /\ GroupKey(e[2]) \in lesson[m].uses)

\* Attendance is only ever recorded for a lesson that has begun, and a lesson
\* with attendance is not moved back into the future: the count of marks in
\* changeTheory and the marking take the same row lock.
AttendanceOnlyOfPast ==
  \A l \in TheoryIds : attendance[l] # {} => Exists(l) /\ lesson[l].start <= clock

\* A closed group keeps no lesson in the future: closing cancels them, and no
\* create or change that began before the closing commits after it.
ClosedGroupHasNoFutureLesson ==
  \A g \in Groups, l \in TheoryIds :
    ~IsOpenGroup(g) /\ Scheduled(l) /\ GroupKey(g) \in lesson[l].uses
      => lesson[l].start < clock

\* No set of clients waits in a circle for each other's locks, so no request
\* is killed by PostgreSQL as the victim of a deadlock.
NoWaitCycle ==
  \A S \in SUBSET Clients :
    S # {} => \E p \in S : \A q \in S \ {p} : ~WaitsFor(p, q)

\* A cancelled lesson is history: a change or a cancellation that waited for its
\* row while it was being cancelled leaves it alone.
CancelledStaysCancelled ==
  [][\A l \in Lessons : lesson[l].status = "CANCELLED" => lesson'[l] = lesson[l]]_lesson

\* The status of a group moves only along GROUP_STATUS_TRANSITIONS, also when
\* two requests to change it race.
StatusMovesForward ==
  [][\A g \in Groups : LET old == group[g].status
                           new == group'[g].status
                       IN new = old \/ new \in Transitions[old]]_group

\* The lesson tables behave as if every request took effect in one step.
Ledger == INSTANCE BookingLedger WITH Resources <- Keys
ImplementsLedger == Ledger!Spec

\* Every request is answered.
EveryRequestAnswered ==
  \A p \in Clients : tx[p].stage # "idle" ~> tx[p].stage = "idle"
=============================================================================
