--------------------------- MODULE StudentRecords ---------------------------
(***************************************************************************)
(* The records of students, their places in groups and the cars they drive *)
(* in practice: students.service.ts, cars.service.ts and the changes of    *)
(* status of groups.service.ts, under concurrent requests.                 *)
(*                                                                         *)
(* A request reads rows without locking them, decides, and writes.  Only   *)
(* joining and closing a group lock anything: the row of the group.  Every *)
(* write of a request is one step with its commit, because each request    *)
(* that writes several rows of a student writes the row in students first, *)
(* or loses it to a deadlock (Abort).  The reads that open a request are   *)
(* one step where what is read later could only refuse more.               *)
(*                                                                         *)
(* So requests overtake each other: one decides on a row, another commits a *)
(* new one, and the first writes all the same.  The history variable       *)
(* overtaken remembers to whom that has happened; no action depends on it.  *)
(***************************************************************************)
EXTENDS FiniteSets, Naturals

CONSTANTS
  Students, Groups, Instructors, Cars,
  Kinds,       \* pairs of licence category and transmission
  Clients,     \* requests that may be in progress together
  Ops,         \* the operations clients may request in this model
  Fickle,      \* students and instructors whose active account may change
  None

OpNames == {"createStudent", "assignGroup", "removeFromGroup", "changeTraining",
            "grantPractice", "archive", "updateStudent", "createCar",
            "changeCar", "changeCarStatus", "changeGroupStatus"}

ASSUME RecordsAssumption ==
  /\ Ops \subseteq OpNames
  /\ Fickle \subseteq Students \cup Instructors
  /\ None \notin Students \cup Groups \cup Instructors \cup Cars \cup Kinds

VARIABLES
  student,    \* rows of users and students, one record per student
  enrolment,  \* rows of enrollments, by student and group
  group,      \* the status of each group
  car,        \* rows of cars
  suspended,  \* instructors that are not ACTIVE
  tx,         \* the request each client is working on
  overtaken   \* clients whose request has read a row that another one then wrote

data == <<student, enrolment, group, car>>
vars == <<student, enrolment, group, car, suspended, tx, overtaken>>

-----------------------------------------------------------------------------
(* Rows *)

AccountStatus == {"INVITED", "ACTIVE", "BLOCKED", "ARCHIVED"}
TrainingStatus == {"INVITED", "ACTIVE", "PRACTICE", "GRADUATED", "DROPPED", "ARCHIVED"}
EnrolmentStatus == {"ACTIVE", "COMPLETED", "DROPPED"}
GroupStatus == {"PLANNED", "ACTIVE", "COMPLETED", "ARCHIVED"}
CarStatus == {"AVAILABLE", "MAINTENANCE", "INACTIVE"}

StudentRow == [account: AccountStatus, training: TrainingStatus,
               group: Groups \cup {None}, instructor: Instructors \cup {None},
               car: Cars \cup {None}, kind: Kinds \cup {None}]

CarRow == [status: CarStatus, instructor: Instructors \cup {None}, kind: Kinds]

ASSUME NoRowAssumption == None \notin StudentRow \cup CarRow

\* MEMBER_STATUS_TRANSITIONS, and the activation of an invited account.
AccountMoves == [INVITED  |-> {"ACTIVE"},
                 ACTIVE   |-> {"BLOCKED", "ARCHIVED"},
                 BLOCKED  |-> {"ACTIVE", "ARCHIVED"},
                 ARCHIVED |-> {"ACTIVE"}]

TrainingTransitions ==
  [INVITED   |-> {"ACTIVE", "DROPPED", "ARCHIVED"},
   ACTIVE    |-> {"GRADUATED", "DROPPED", "ARCHIVED"},
   PRACTICE  |-> {"GRADUATED", "DROPPED", "ARCHIVED"},
   GRADUATED |-> {"ARCHIVED"},
   DROPPED   |-> {"ARCHIVED"},
   ARCHIVED  |-> {}]

CarTransitions == [AVAILABLE   |-> {"MAINTENANCE", "INACTIVE"},
                   MAINTENANCE |-> {"AVAILABLE", "INACTIVE"},
                   INACTIVE    |-> {"AVAILABLE"}]

GroupTransitions == [PLANNED   |-> {"ACTIVE", "ARCHIVED"},
                     ACTIVE    |-> {"COMPLETED", "ARCHIVED"},
                     COMPLETED |-> {"ARCHIVED"},
                     ARCHIVED  |-> {}]

Terminal == {"GRADUATED", "DROPPED", "ARCHIVED"}

IsOpenStatus(status) == status \in {"PLANNED", "ACTIVE"}
IsOpenGroup(g) == IsOpenStatus(group[g])

Exists(s) == student[s] # None
ExistsCar(c) == car[c] # None

\* Mutant of EnrolmentStatusFor: archiving leaves the student in the group.
EnrolmentStatusUnlessArchived(training) ==
  CASE training = "GRADUATED" -> "COMPLETED"
    [] training = "DROPPED" -> "DROPPED"
    [] OTHER -> "ACTIVE"

\* Mutant of EnrolmentStatusFor: the status of the training is written.
EnrolmentStatusSame(training) == IF training \in Terminal THEN training ELSE "ACTIVE"

\* What becomes of an ACTIVE enrolment when the student's training changes.
EnrolmentStatusFor(training) ==
  CASE training = "GRADUATED" -> "COMPLETED"
    [] training \in {"DROPPED", "ARCHIVED"} -> "DROPPED"
    [] OTHER -> "ACTIVE"

\* enrollment.updateMany of the ACTIVE rows of student s.
Close(s, status) ==
  [enrolment EXCEPT ![s] =
     [g \in Groups |-> IF @[g] = "ACTIVE" THEN status ELSE @[g]]]

\* The students a car is assigned to.
Drivers(c) == {s \in Students : Exists(s) /\ student[s].car = c}

\* isEligibleForPractice, for a student who is not archived.
Eligible(s) ==
  /\ student[s].account = "ACTIVE"
  /\ student[s].training \in {"ACTIVE", "PRACTICE"}
  /\ student[s].kind # None

-----------------------------------------------------------------------------
(* Requests *)

Stages == {"idle", "enrolments", "lock", "check", "write"}

\* What a request carries from its input and from what it has read: next is a
\* status, was the student's group, changes the columns of the car that differ.
IdleTx == [stage |-> "idle", op |-> "none", lock |-> "none", student |-> None,
           group |-> None, car |-> None, next |-> "none", was |-> None,
           instructor |-> None, kind |-> None, changes |-> {}]

Request(p, t) ==
  /\ t.op \in Ops
  /\ tx[p].stage = "idle"
  /\ tx' = [tx EXCEPT ![p] = t]
  /\ UNCHANGED <<data, suspended, overtaken>>

CreateStudent(p) ==
  \E s \in Students, g \in Groups \cup {None}, k \in Kinds \cup {None} :
    /\ ~Exists(s)
    /\ Request(p, [IdleTx EXCEPT !.op = "createStudent", !.student = s, !.group = g,
                                 !.kind = k,
                                 !.stage = IF g = None THEN "write" ELSE "lock"])

\* Mutant of AssignGroup: nothing is looked at between the row and the write.
AssignGroupUnchecked(p) ==
  \E s \in Students, g \in Groups :
    /\ Exists(s)
    /\ Request(p, [IdleTx EXCEPT !.op = "assignGroup", !.student = s, !.group = g,
                                 !.stage = "write"])

AssignGroup(p) ==
  \E s \in Students, g \in Groups :
    /\ Exists(s)
    /\ student[s].account # "ARCHIVED"
    /\ student[s].training \notin Terminal
    /\ Request(p, [IdleTx EXCEPT !.op = "assignGroup", !.student = s, !.group = g,
                                 !.was = student[s].group, !.stage = "enrolments"])

RemoveFromGroup(p) ==
  \E s \in Students, g \in Groups :
    /\ Exists(s)
    /\ IsOpenGroup(g)
    /\ Request(p, [IdleTx EXCEPT !.op = "removeFromGroup", !.student = s, !.group = g,
                                 !.was = student[s].group, !.stage = "check"])

\* addStudent and removeStudent of groups.service.ts leave all of it to these two.
ChangeRoster(p) == AssignGroup(p) \/ RemoveFromGroup(p)

ChangeTraining(p) ==
  \E s \in Students : \E next \in TrainingStatus :
    /\ Exists(s)
    /\ next \in TrainingTransitions[student[s].training]
    /\ Request(p, [IdleTx EXCEPT !.op = "changeTraining", !.student = s,
                                 !.next = next, !.stage = "write"])

GrantPractice(p) ==
  \E s \in Students, i \in Instructors, c \in Cars :
    /\ Exists(s)
    /\ ExistsCar(c)
    /\ Eligible(s)
    /\ Request(p, [IdleTx EXCEPT !.op = "grantPractice", !.student = s, !.car = c,
                                 !.instructor = i, !.kind = student[s].kind,
                                 !.stage = "check"])

Archive(p) ==
  \E s \in Students :
    /\ Exists(s)
    /\ Request(p, [IdleTx EXCEPT !.op = "archive", !.student = s,
                                 !.next = "ARCHIVED", !.stage = "write"])

UpdateStudent(p) ==
  \E s \in Students, k \in Kinds \cup {None} :
    /\ Exists(s)
    /\ Request(p, [IdleTx EXCEPT
                     !.op = "updateStudent", !.student = s, !.kind = k,
                     !.car = student[s].car,
                     !.stage = IF student[s].car = None THEN "write" ELSE "check"])

\* requireInstructor.
ActiveInstructors == Instructors \ suspended

CreateCar(p) ==
  \E c \in Cars, i \in ActiveInstructors, k \in Kinds :
    /\ ~ExistsCar(c)
    /\ Request(p, [IdleTx EXCEPT !.op = "createCar", !.car = c, !.instructor = i,
                                 !.kind = k, !.stage = "write"])

\* The columns that are to differ from the row that was read.
ChangeColumns(p, c, i, k) ==
  LET changes == (IF i # car[c].instructor THEN {"instructor"} ELSE {})
                   \cup (IF k # car[c].kind THEN {"kind"} ELSE {})
  IN /\ changes # {}
     /\ "instructor" \in changes => car[c].status = "AVAILABLE"
     /\ Request(p, [IdleTx EXCEPT !.op = "changeCar", !.car = c,
                                  !.instructor = i, !.kind = k,
                                  !.changes = changes, !.stage = "check"])

\* update: the instructor stays or is another one.
ChangeCar(p) ==
  \E c \in Cars, k \in Kinds :
    /\ ExistsCar(c)
    /\ \E i \in {car[c].instructor} \cup ActiveInstructors : ChangeColumns(p, c, i, k)

\* assignInstructor: None takes the car from its instructor.
AssignInstructor(p) ==
  \E c \in Cars, i \in ActiveInstructors \cup {None} :
    /\ ExistsCar(c)
    /\ ChangeColumns(p, c, i, car[c].kind)

ChangeCarStatus(p) ==
  \E c \in Cars : \E next \in CarStatus :
    /\ ExistsCar(c)
    /\ next \in CarTransitions[car[c].status]
    /\ Request(p, [IdleTx EXCEPT !.op = "changeCarStatus", !.car = c,
                                 !.next = next, !.stage = "check"])

ChangeGroupStatus(p) ==
  \E g \in Groups, next \in GroupStatus :
    Request(p, [IdleTx EXCEPT !.op = "changeGroupStatus", !.group = g,
                              !.next = next, !.stage = "lock"])

Begin(p) ==
  \/ CreateStudent(p) \/ ChangeRoster(p)
  \/ ChangeTraining(p) \/ GrantPractice(p) \/ Archive(p) \/ UpdateStudent(p)
  \/ CreateCar(p)     \/ ChangeCar(p)     \/ AssignInstructor(p)
  \/ ChangeCarStatus(p)
  \/ ChangeGroupStatus(p)

-----------------------------------------------------------------------------
(* Later reads, the lock of a group, and the checks *)

Finish(p) == tx' = [tx EXCEPT ![p] = IdleTx]

Goto(p, stage) == tx' = [tx EXCEPT ![p].stage = stage] /\ UNCHANGED overtaken
EndTx(p) == Finish(p) /\ overtaken' = overtaken \ {p}

\* Whether the request t reads the row of student s: it works on s, or on the car.
Reads(t, s) ==
  \/ s = t.student
  \/ t.op \in {"changeCar", "changeCarStatus"} /\ Exists(s) /\ student[s].car = t.car

\* Whether this step writes a row that the request of q has read, or would now read.
Rewritten(q) ==
  \/ \E s \in Students : /\ Reads(tx[q], s) \/ Reads(tx[q], s)'
                         /\ <<student[s], enrolment[s]>>' # <<student[s], enrolment[s]>>
  \/ tx[q].car # None /\ car'[tx[q].car] # car[tx[q].car]

Commit(p) ==
  /\ Finish(p)
  /\ overtaken' = {q \in Clients \ {p} : q \in overtaken \/ Rewritten(q)}

\* Whether an enrolment bars the student from joining any group.
Barred(s) ==
  \E g \in Groups : \/ enrolment[s][g] = "DROPPED"
                    \/ enrolment[s][g] = "COMPLETED" /\ IsOpenGroup(g)

CheckEnrolments(p) ==
  /\ tx[p].stage = "enrolments"
  /\ IF Barred(tx[p].student) THEN EndTx(p) ELSE Goto(p, "lock")
  /\ UNCHANGED <<data, suspended>>

\* Mutant of LockMode: closing a group does not keep joiners out.
LockModeShared(o) == "share"

\* lockGroup: joining takes the row FOR SHARE, changing its status FOR UPDATE.
LockMode(o) == IF o = "changeGroupStatus" THEN "update" ELSE "share"

LockGroup(p) ==
  LET mode == LockMode(tx[p].op)
  IN /\ tx[p].stage = "lock"
     /\ \A q \in Clients \ {p} :
          tx[q].group = tx[p].group /\ tx[q].lock # "none"
            => mode = "share" /\ tx[q].lock = "share"
     /\ tx' = [tx EXCEPT ![p].lock = mode, ![p].stage = "check"]
     /\ UNCHANGED <<data, suspended, overtaken>>

\* The student has no other open group, by the row and by the enrolments.
MayJoin(t) ==
  /\ IsOpenGroup(t.group)
  /\ t.was \notin {None, t.group} => ~IsOpenGroup(t.was)
  /\ \A g \in Groups \ {t.group} :
       enrolment[t.student][g] = "ACTIVE" => ~IsOpenGroup(g)

CarFree(t) ==
  /\ t.instructor \notin suspended
  /\ car[t.car] = [status |-> "AVAILABLE", instructor |-> t.instructor, kind |-> t.kind]

\* Mutant of StillMatches: the new kind of the car is not compared.
StillMatchesInstructor(t) ==
  \A s \in Drivers(t.car) :
    t.instructor # None /\ student[s].instructor = t.instructor

\* assertStudentsStillMatch; a car without an instructor can have no student.
StillMatches(t) ==
  \A s \in Drivers(t.car) : /\ t.instructor # None
                            /\ student[s].instructor = t.instructor
                            /\ student[s].kind = t.kind

MayChangeCarStatus(t) ==
  t.next # "AVAILABLE" => \A s \in Drivers(t.car) : student[s].training # "PRACTICE"

\* Whether the request passes its checks in the present state.
Passes(t) ==
  CASE t.op = "createStudent"     -> IsOpenGroup(t.group)
    [] t.op = "assignGroup"       -> MayJoin(t)
    [] t.op = "removeFromGroup"   -> enrolment[t.student][t.group] = "ACTIVE"
    [] t.op = "grantPractice"     -> CarFree(t)
    [] t.op = "updateStudent"     -> car[t.car].kind = t.kind
    [] t.op = "changeCar"         -> StillMatches(t)
    [] t.op = "changeCarStatus"   -> MayChangeCarStatus(t)
    [] t.op = "changeGroupStatus" -> t.next \in GroupTransitions[group[t.group]]

Check(p) ==
  /\ tx[p].stage = "check"
  /\ IF Passes(tx[p]) THEN Goto(p, "write") ELSE EndTx(p)
  /\ UNCHANGED <<data, suspended>>

-----------------------------------------------------------------------------
(* Writes, each with its commit *)

Writing(p, op) == tx[p].stage = "write" /\ tx[p].op = op

\* The unique e-mail turns the second of two creations away.
WriteCreateStudent(p) ==
  LET t == tx[p]
  IN /\ Writing(p, "createStudent")
     /\ \/ /\ Exists(t.student)
           /\ UNCHANGED data
        \/ /\ ~Exists(t.student)
           /\ student' = [student EXCEPT ![t.student] =
                            [account |-> "INVITED", training |-> "INVITED",
                             group |-> t.group, instructor |-> None, car |-> None,
                             kind |-> t.kind]]
           /\ enrolment' = [enrolment EXCEPT ![t.student] =
                              [g \in Groups |-> IF g = t.group THEN "ACTIVE" ELSE "none"]]
           /\ UNCHANGED <<group, car>>
     /\ UNCHANGED suspended
     /\ Commit(p)

\* A former group is closed by now: an enrolment it still has there is finished.
WriteAssignGroup(p) ==
  LET s == tx[p].student
      g == tx[p].group
      left == tx[p].was
  IN /\ Writing(p, "assignGroup")
     /\ student' = [student EXCEPT ![s].group = g]
     /\ enrolment' = [enrolment EXCEPT ![s] =
                        [h \in Groups |->
                           IF h = g THEN "ACTIVE"
                           ELSE IF h = left /\ @[h] = "ACTIVE" THEN "COMPLETED"
                           ELSE @[h]]]
     /\ UNCHANGED <<group, car, suspended>>
     /\ Commit(p)

\* Mutant of WriteRemove: the enrolment is finished instead of deleted.
WriteRemoveFinished(p) ==
  LET s == tx[p].student
  IN /\ Writing(p, "removeFromGroup")
     /\ enrolment' = [enrolment EXCEPT ![s][tx[p].group] = "COMPLETED"]
     /\ student' = [student EXCEPT ![s].group = None]
     /\ UNCHANGED <<group, car, suspended>>
     /\ Commit(p)

\* Mutant of WriteRemove: the student's row keeps the group.
WriteRemoveEnrolment(p) ==
  /\ Writing(p, "removeFromGroup")
  /\ enrolment' = [enrolment EXCEPT ![tx[p].student][tx[p].group] = "none"]
  /\ UNCHANGED <<student, group, car, suspended>>
  /\ Commit(p)

\* The row is deleted by its id, whatever its status is by now; when it has gone
\* already the query fails and the transaction rolls back (a row made anew in the
\* meantime is taken for the one that was read, or Abort rolls back for it too).
WriteRemove(p) ==
  LET s == tx[p].student
      g == tx[p].group
  IN /\ Writing(p, "removeFromGroup")
     /\ \/ /\ enrolment[s][g] = "none"
           /\ UNCHANGED <<student, enrolment>>
        \/ /\ enrolment[s][g] # "none"
           /\ enrolment' = [enrolment EXCEPT ![s][g] = "none"]
           /\ student' = [student EXCEPT ![s].group = IF tx[p].was = g THEN None ELSE @]
     /\ UNCHANGED <<group, car, suspended>>
     /\ Commit(p)

WriteTraining(p) ==
  LET s == tx[p].student
      next == tx[p].next
  IN /\ Writing(p, "changeTraining")
     /\ student' = [student EXCEPT ![s].training = next]
     /\ enrolment' = Close(s, EnrolmentStatusFor(next))
     /\ UNCHANGED <<group, car, suspended>>
     /\ Commit(p)

WriteGrant(p) ==
  LET t == tx[p]
  IN /\ Writing(p, "grantPractice")
     /\ student' = [student EXCEPT ![t.student].instructor = t.instructor,
                                   ![t.student].car = t.car,
                                   ![t.student].training = "PRACTICE"]
     /\ UNCHANGED <<enrolment, group, car, suspended>>
     /\ Commit(p)

WriteArchive(p) ==
  LET s == tx[p].student
  IN /\ Writing(p, "archive")
     /\ student' = [student EXCEPT ![s].account = "ARCHIVED",
                                   ![s].training = "ARCHIVED"]
     /\ enrolment' = Close(s, EnrolmentStatusFor("ARCHIVED"))
     /\ UNCHANGED <<group, car, suspended>>
     /\ Commit(p)

WriteStudent(p) ==
  /\ Writing(p, "updateStudent")
  /\ student' = [student EXCEPT ![tx[p].student].kind = tx[p].kind]
  /\ UNCHANGED <<enrolment, group, car, suspended>>
  /\ Commit(p)

\* The unique plate turns the second of two creations away.
WriteCreateCar(p) ==
  LET t == tx[p]
  IN /\ Writing(p, "createCar")
     /\ car' = IF ExistsCar(t.car) THEN car
               ELSE [car EXCEPT ![t.car] = [status |-> "AVAILABLE",
                                            instructor |-> t.instructor,
                                            kind |-> t.kind]]
     /\ UNCHANGED <<student, enrolment, group, suspended>>
     /\ Commit(p)

WriteCar(p) ==
  LET t == tx[p]
  IN /\ Writing(p, "changeCar")
     /\ car' = [car EXCEPT
                  ![t.car].instructor = IF "instructor" \in t.changes THEN t.instructor ELSE @,
                  ![t.car].kind       = IF "kind" \in t.changes THEN t.kind ELSE @]
     /\ UNCHANGED <<student, enrolment, group, suspended>>
     /\ Commit(p)

WriteCarStatus(p) ==
  /\ Writing(p, "changeCarStatus")
  /\ car' = [car EXCEPT ![tx[p].car].status = tx[p].next]
  /\ UNCHANGED <<student, enrolment, group, suspended>>
  /\ Commit(p)

WriteGroupStatus(p) ==
  LET g == tx[p].group
      next == tx[p].next
  IN /\ Writing(p, "changeGroupStatus")
     /\ group' = [group EXCEPT ![g] = next]
     /\ enrolment' = IF IsOpenStatus(next) THEN enrolment
                     ELSE [s \in Students |->
                             [enrolment[s] EXCEPT ![g] = IF @ = "ACTIVE" THEN "COMPLETED" ELSE @]]
     /\ EndTx(p)
     /\ UNCHANGED <<student, car, suspended>>

Write(p) ==
  \/ WriteCreateStudent(p) \/ WriteAssignGroup(p) \/ WriteRemove(p)
  \/ WriteTraining(p) \/ WriteGrant(p) \/ WriteArchive(p) \/ WriteStudent(p)
  \/ WriteCreateCar(p) \/ WriteCar(p) \/ WriteCarStatus(p) \/ WriteGroupStatus(p)

\* A transaction is rolled back at any time: its time-out, a deadlock, a crash.
Abort(p) ==
  /\ tx[p].stage # "idle"
  /\ EndTx(p)
  /\ UNCHANGED <<data, suspended>>

-----------------------------------------------------------------------------
(* Accounts change in one step, by changeMemberStatus or activation: a change that *)
(* was checked against an older status leads where two changes would.              *)

ChangeAccount(s) ==
  /\ Exists(s)
  /\ s \in Fickle \/ student[s].account = "INVITED"
  /\ \E next \in AccountMoves[student[s].account] :
       student' = [student EXCEPT ![s].account = next]
  /\ UNCHANGED <<enrolment, group, car, suspended, tx, overtaken>>

ChangeInstructor(i) ==
  /\ i \in Fickle
  /\ suspended' = IF i \in suspended THEN suspended \ {i} ELSE suspended \cup {i}
  /\ UNCHANGED <<data, tx, overtaken>>

-----------------------------------------------------------------------------
Init ==
  /\ student = [s \in Students |-> None]
  /\ enrolment = [s \in Students |-> [g \in Groups |-> "none"]]
  /\ group = [g \in Groups |-> "PLANNED"]
  /\ car = [c \in Cars |-> None]
  /\ suspended = {}
  /\ tx = [p \in Clients |-> IdleTx]
  /\ overtaken = {}

Next ==
  \/ \E p \in Clients : \/ Begin(p) \/ CheckEnrolments(p) \/ LockGroup(p)
                        \/ Check(p) \/ Write(p) \/ Abort(p)
  \/ \E s \in Students : ChangeAccount(s)
  \/ \E i \in Instructors : ChangeInstructor(i)

Spec == Init /\ [][Next]_vars

-----------------------------------------------------------------------------
(* Types *)

Tx == [stage: Stages, op: OpNames \cup {"none"}, lock: {"none", "share", "update"},
       student: Students \cup {None}, group: Groups \cup {None}, car: Cars \cup {None},
       next: TrainingStatus \cup CarStatus \cup GroupStatus \cup {"none"},
       was: Groups \cup {None}, instructor: Instructors \cup {None},
       kind: Kinds \cup {None}, changes: SUBSET {"instructor", "kind"}]

StudentOps == {"createStudent", "assignGroup", "removeFromGroup", "changeTraining",
               "grantPractice", "archive", "updateStudent"}

\* What a request works on is named in it, and its row, once read, remains.
WellFormed(t) ==
  /\ t.stage # "idle" => t.op \in OpNames
  /\ t.op \in StudentOps => t.student \in Students
  /\ t.op \in StudentOps \ {"createStudent"} => Exists(t.student)
  /\ t.op \in {"assignGroup", "removeFromGroup", "changeGroupStatus"} => t.group \in Groups
  /\ t.op \in {"grantPractice", "createCar", "changeCar", "changeCarStatus"} => t.car \in Cars
  /\ t.op \in {"changeCar", "changeCarStatus"} => ExistsCar(t.car)
  /\ t.op \in {"createCar", "changeCar"} => t.kind \in Kinds
  /\ t.op = "changeTraining" => t.next \in TrainingStatus
  /\ t.op = "changeCarStatus" => t.next \in CarStatus
  /\ t.op = "changeGroupStatus" => t.next \in GroupStatus

RequestsOK == \A p \in Clients : WellFormed(tx[p])

\* Every table holds rows of its kind, and every request what it needs.
TypeOK ==
  /\ student \in [Students -> StudentRow \cup {None}]
  /\ enrolment \in [Students -> [Groups -> EnrolmentStatus \cup {"none"}]]
  /\ group \in [Groups -> GroupStatus]
  /\ car \in [Cars -> CarRow \cup {None}]
  /\ suspended \subseteq Instructors
  /\ tx \in [Clients -> Tx]
  /\ overtaken \subseteq Clients
  /\ RequestsOK

-----------------------------------------------------------------------------
(* Safety *)

\* A closed group has no member: closing finishes the enrolments it finds, and no
\* assignment or creation that saw the group open commits after it.
NoMemberOfClosedGroup ==
  \A s \in Students, g \in Groups : enrolment[s][g] = "ACTIVE" => IsOpenGroup(g)

\* A student is in one open group at most (students.service.ts,
\* STUDENT_ACTIVE_GROUP_MESSAGE): overlapping requests can break it.
InOneOpenGroup(s) ==
  \A g, h \in Groups :
    enrolment[s][g] = "ACTIVE" /\ enrolment[s][h] = "ACTIVE" /\ g # h
      => ~(IsOpenGroup(g) /\ IsOpenGroup(h))

OneOpenGroup == \A s \in Students : InOneOpenGroup(s)

\* The step is the commit of a request of one of these operations, for the student
\* or on the student's car, that another request has overtaken.
ByOvertaken(s, ops) ==
  \E p \in overtaken : /\ tx[p].stage = "write" /\ tx[p].op \in ops
                       /\ tx[p].student = s \/ Reads(tx[p], s)
                       /\ Finish(p)

\* Whichever requests race, a student gets into a second open group only by an
\* assignment between whose reads and whose write another request for the student
\* was committed; closing groups meanwhile does no harm.
SecondGroupByRace ==
  [][\A s \in Students :
       InOneOpenGroup(s) =>
         \/ InOneOpenGroup(s)'
         \/ ByOvertaken(s, {"assignGroup"})]_vars

\* Who has graduated, dropped out or been archived is in no group's roster.
HasLeftIfFinished(s) ==
  Exists(s) /\ student[s].training \in Terminal =>
    \A g \in Groups : enrolment[s][g] # "ACTIVE"

\* Who has finished is on a roster only by an assignment that was decided before.
FinishedEnrolledByRace ==
  [][\A s \in Students :
       HasLeftIfFinished(s) =>
         \/ HasLeftIfFinished(s)'
         \/ ByOvertaken(s, {"assignGroup"})]_vars

\* While training goes on, the student's row names an open group exactly when the
\* student is enrolled in it: assignGroup consults both.
RowNamesGroup(s) ==
  Exists(s) /\ student[s].training \notin Terminal =>
    \A g \in Groups : IsOpenGroup(g) =>
      (enrolment[s][g] = "ACTIVE" <=> student[s].group = g)

\* Joining, leaving, closing and finishing keep Student.groupId and Enrollment in
\* step, except when a request is overtaken by another one for the student.
RowLosesGroupByRace ==
  [][\A s \in Students :
       RowNamesGroup(s) =>
         \/ RowNamesGroup(s)'
         \/ ByOvertaken(s, {"assignGroup", "removeFromGroup", "changeTraining",
                            "grantPractice"})]_vars

\* Nobody in training is barred from every group by an old enrolment.
NotBarred(s) == Exists(s) /\ student[s].training \notin Terminal => ~Barred(s)

\* Neither leaving a group nor its closing leaves an enrolment behind that
\* assignGroup refuses: only a training that is resumed by a request decided before
\* the training was ended is barred.
BarredByRace ==
  [][\A s \in Students :
       NotBarred(s) =>
         \/ NotBarred(s)'
         \/ ByOvertaken(s, {"changeTraining", "grantPractice"})]_vars

\* A student in practice has an available car that belongs to the student's
\* instructor and is of the student's kind.
CarFits(s) ==
  Exists(s) /\ student[s].training = "PRACTICE" =>
    /\ student[s].car # None /\ ExistsCar(student[s].car)
    /\ car[student[s].car] = [status |-> "AVAILABLE",
                              instructor |-> student[s].instructor,
                              kind |-> student[s].kind]

\* The car of a student in practice goes on to fit, whatever is done to the student,
\* the car and the instructor, until one of the four requests that have to check
\* the one against the other is overtaken between its check and its write.
CarMisfitsByRace ==
  [][\A s \in Students :
       CarFits(s) =>
         \/ CarFits(s)'
         \/ ByOvertaken(s, {"grantPractice", "updateStudent", "changeCar",
                            "changeCarStatus"})]_vars

=============================================================================
