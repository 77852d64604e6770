------------------------ MODULE StudentRecordsProofs ------------------------
(***************************************************************************)
(* Proofs about StudentRecords, for any number of clients, students,       *)
(* groups, cars and kinds: the types are kept, no closed group ever has a  *)
(* member, and what else the service promises of a student's places and    *)
(* car is broken by nothing but the commit of a request that another one   *)
(* has overtaken between its reads and its write.  That such requests do   *)
(* break it is what the run v_two_groups shows.                            *)
(***************************************************************************)
EXTENDS StudentRecords, TLAPS

-----------------------------------------------------------------------------
(* What any step may change *)

\* Whether a request joins a group, and so has to lock it.
Joins(t) == \/ t.op = "assignGroup"
            \/ t.op = "createStudent" /\ t.group # None

\* A request that is about to be worked on: it has no lock yet, and one that
\* joins a group or changes its status has yet to ask for it.
Fresh(t) == /\ t.lock = "none"
            /\ t.op \in OpNames
            /\ t.stage \in Stages \ {"idle"}
            /\ Joins(t) \/ t.op = "changeGroupStatus" => t.stage \in {"enrolments", "lock"}
            /\ t.stage \in {"enrolments", "lock"} => t.group \in Groups

LEMMA IdleIsTyped == IdleTx \in Tx /\ WellFormed(IdleTx)
BY DEF IdleTx, Tx, Stages, OpNames, WellFormed, StudentOps

\* What a client can begin is a well-formed request without a lock.
LEMMA BeginIsRequest ==
  ASSUME TypeOK, NEW p \in Clients, Begin(p)
  PROVE  \E t \in Tx : /\ WellFormed(t)
                       /\ Fresh(t)
                       /\ tx[p].stage = "idle"
                       /\ tx' = [tx EXCEPT ![p] = t]
                       /\ UNCHANGED <<data, suspended, overtaken>>
<1>. USE DEF IdleTx, Tx, Stages, OpNames, WellFormed, StudentOps, Fresh, Joins, StudentRow,
           CarRow, TrainingStatus, CarStatus, GroupStatus
<1>1. \A s \in Students : Exists(s) => student[s] \in StudentRow
  BY DEF TypeOK, Exists
<1>2. \A c \in Cars : ExistsCar(c) => car[c] \in CarRow
  BY DEF TypeOK, ExistsCar
<1>3. CASE CreateStudent(p)
  <2>1. PICK s \in Students, g \in Groups \cup {None}, k \in Kinds \cup {None} :
          Request(p,
            [IdleTx EXCEPT !.op = "createStudent", !.student = s,
                           !.group = g, !.kind = k,
                           !.stage = IF g = None THEN "write" ELSE "lock"])
    BY <1>3 DEF CreateStudent
  <2>. DEFINE stage == IF g = None THEN "write" ELSE "lock"
  <2>4. /\ stage \in {"write", "lock"}
        /\ stage = "lock" <=> g # None
    OBVIOUS
  <2>. DEFINE t == [IdleTx EXCEPT !.op = "createStudent", !.student = s,
                                  !.group = g, !.kind = k,
                                  !.stage = stage]
  <2>5. Request(p, t)
    BY <2>1
  <2>. HIDE DEF stage
  <2>2. t \in Tx
    BY <2>4
  <2>3. WellFormed(t) /\ Fresh(t)
    BY <2>4
  <2>. HIDE DEF t
  <2>. QED
    BY <2>5, <2>2, <2>3 DEF Request
<1>4. CASE AssignGroup(p)
  <2>1. PICK s \in Students, g \in Groups :
          Exists(s) /\ Request(p,
            [IdleTx EXCEPT !.op = "assignGroup", !.student = s,
                           !.group = g, !.was = student[s].group,
                           !.stage = "enrolments"])
    BY <1>4 DEF AssignGroup
  <2>. DEFINE t == [IdleTx EXCEPT !.op = "assignGroup", !.student = s,
                                  !.group = g, !.was = student[s].group,
                                  !.stage = "enrolments"]
  <2>2. t \in Tx
    BY <2>1, <1>1
  <2>3. WellFormed(t) /\ Fresh(t)
    BY <2>1, <1>1
  <2>. QED
    BY <2>1, <2>2, <2>3 DEF Request
<1>5. CASE RemoveFromGroup(p)
  <2>1. PICK s \in Students, g \in Groups :
          Exists(s) /\ Request(p,
            [IdleTx EXCEPT !.op = "removeFromGroup", !.student = s,
                           !.group = g, !.was = student[s].group,
                           !.stage = "check"])
    BY <1>5 DEF RemoveFromGroup
  <2>. DEFINE t == [IdleTx EXCEPT !.op = "removeFromGroup", !.student = s,
                                  !.group = g, !.was = student[s].group,
                                  !.stage = "check"]
  <2>2. t \in Tx
    BY <2>1, <1>1
  <2>3. WellFormed(t) /\ Fresh(t)
    BY <2>1, <1>1
  <2>. QED
    BY <2>1, <2>2, <2>3 DEF Request
<1>6. CASE ChangeTraining(p)
  <2>1. PICK s \in Students, next \in TrainingStatus :
          Exists(s) /\ Request(p,
            [IdleTx EXCEPT !.op = "changeTraining", !.student = s,
                           !.next = next, !.stage = "write"])
    BY <1>6 DEF ChangeTraining
  <2>. DEFINE t == [IdleTx EXCEPT !.op = "changeTraining", !.student = s,
                                  !.next = next, !.stage = "write"]
  <2>2. t \in Tx
    BY <2>1, <1>1
  <2>3. WellFormed(t) /\ Fresh(t)
    BY <2>1, <1>1
  <2>. QED
    BY <2>1, <2>2, <2>3 DEF Request
<1>7. CASE GrantPractice(p)
  <2>1. PICK s \in Students, i \in Instructors, c \in Cars :
          Exists(s) /\ Request(p,
            [IdleTx EXCEPT !.op = "grantPractice", !.student = s,
                           !.car = c, !.instructor = i,
                           !.kind = student[s].kind, !.stage = "check"])
    BY <1>7 DEF GrantPractice
  <2>. DEFINE t == [IdleTx EXCEPT !.op = "grantPractice", !.student = s,
                                  !.car = c, !.instructor = i,
                                  !.kind = student[s].kind, !.stage = "check"]
  <2>2. t \in Tx
    BY <2>1, <1>1
  <2>3. WellFormed(t) /\ Fresh(t)
    BY <2>1, <1>1
  <2>. QED
    BY <2>1, <2>2, <2>3 DEF Request
<1>8. CASE Archive(p)
  <2>1. PICK s \in Students :
          Exists(s) /\ Request(p,
            [IdleTx EXCEPT !.op = "archive", !.student = s,
                           !.next = "ARCHIVED", !.stage = "write"])
    BY <1>8 DEF Archive
  <2>. DEFINE t == [IdleTx EXCEPT !.op = "archive", !.student = s,
                                  !.next = "ARCHIVED", !.stage = "write"]
  <2>2. t \in Tx
    BY <2>1, <1>1
  <2>3. WellFormed(t) /\ Fresh(t)
    BY <2>1, <1>1
  <2>. QED
    BY <2>1, <2>2, <2>3 DEF Request
<1>9. CASE UpdateStudent(p)
  <2>1. PICK s \in Students, k \in Kinds \cup {None} :
          Exists(s) /\ Request(p,
            [IdleTx EXCEPT !.op = "updateStudent", !.student = s,
                           !.kind = k, !.car = student[s].car,
                           !.stage = IF student[s].car = None THEN "write" ELSE "check"])
    BY <1>9 DEF UpdateStudent
  <2>. DEFINE stage == IF student[s].car = None THEN "write" ELSE "check"
  <2>4. stage \in {"write", "check"}
    OBVIOUS
  <2>. DEFINE t == [IdleTx EXCEPT !.op = "updateStudent", !.student = s,
                                  !.kind = k, !.car = student[s].car,
                                  !.stage = stage]
  <2>5. Request(p, t)
    BY <2>1
  <2>6. Exists(s)
    BY <2>1
  <2>. HIDE DEF stage
  <2>2. t \in Tx
    BY <2>4, <2>6, <1>1
  <2>3. WellFormed(t) /\ Fresh(t)
    BY <2>4, <2>6, <1>1
  <2>. HIDE DEF t
  <2>. QED
    BY <2>5, <2>2, <2>3 DEF Request
<1>10. CASE CreateCar(p)
  <2>1. PICK c \in Cars, i \in Instructors, k \in Kinds :
          Request(p,
            [IdleTx EXCEPT !.op = "createCar", !.car = c, !.instructor = i,
                           !.kind = k, !.stage = "write"])
    BY <1>10 DEF CreateCar, ActiveInstructors
  <2>. DEFINE t == [IdleTx EXCEPT !.op = "createCar", !.car = c, !.instructor = i,
                                  !.kind = k, !.stage = "write"]
  <2>2. t \in Tx
    BY <2>1
  <2>3. WellFormed(t) /\ Fresh(t)
    BY <2>1
  <2>. QED
    BY <2>1, <2>2, <2>3 DEF Request
<1>11. CASE ChangeCar(p) \/ AssignInstructor(p)
  <2>1. PICK c \in Cars, i \in Instructors \cup {None}, k \in Kinds :
          ExistsCar(c) /\ Request(p,
            [IdleTx EXCEPT !.op = "changeCar", !.car = c, !.instructor = i,
                           !.kind = k,
                           !.changes = (IF i # car[c].instructor THEN {"instructor"} ELSE {})
                             \cup (IF k # car[c].kind THEN {"kind"} ELSE {}),
                           !.stage = "check"])
    <3>1. PICK c \in Cars, i \in Instructors \cup {None}, k \in Kinds :
            ExistsCar(c) /\ ChangeColumns(p, c, i, k)
      BY <1>2, <1>11 DEF ChangeCar, AssignInstructor, ActiveInstructors
    <3>. QED
      BY <3>1 DEF ChangeColumns
  <2>. DEFINE changes == (IF i # car[c].instructor THEN {"instructor"} ELSE {})
                             \cup (IF k # car[c].kind THEN {"kind"} ELSE {})
  <2>4. changes \in SUBSET {"instructor", "kind"}
    OBVIOUS
  <2>. DEFINE t == [IdleTx EXCEPT !.op = "changeCar", !.car = c, !.instructor = i,
                                  !.kind = k, !.changes = changes, !.stage = "check"]
  <2>5. Request(p, t)
    BY <2>1
  <2>6. ExistsCar(c)
    BY <2>1
  <2>. HIDE DEF changes
  <2>2. t \in Tx
    BY <2>4, <2>6, <1>2
  <2>3. WellFormed(t) /\ Fresh(t)
    BY <2>4, <2>6, <1>2
  <2>. HIDE DEF t
  <2>. QED
    BY <2>5, <2>2, <2>3 DEF Request
<1>12. CASE ChangeCarStatus(p)
  <2>1. PICK c \in Cars, next \in CarStatus :
          ExistsCar(c) /\ Request(p,
            [IdleTx EXCEPT !.op = "changeCarStatus", !.car = c,
                           !.next = next, !.stage = "check"])
    BY <1>12 DEF ChangeCarStatus
  <2>. DEFINE t == [IdleTx EXCEPT !.op = "changeCarStatus", !.car = c,
                                  !.next = next, !.stage = "check"]
  <2>2. t \in Tx
    BY <2>1, <1>2
  <2>3. WellFormed(t) /\ Fresh(t)
    BY <2>1, <1>2
  <2>. QED
    BY <2>1, <2>2, <2>3 DEF Request
<1>13. CASE ChangeGroupStatus(p)
  <2>1. PICK g \in Groups, next \in GroupStatus :
          Request(p,
            [IdleTx EXCEPT !.op = "changeGroupStatus", !.group = g,
                           !.next = next, !.stage = "lock"])
    BY <1>13 DEF ChangeGroupStatus
  <2>. DEFINE t == [IdleTx EXCEPT !.op = "changeGroupStatus", !.group = g,
                                  !.next = next, !.stage = "lock"]
  <2>2. t \in Tx
    BY <2>1
  <2>3. WellFormed(t) /\ Fresh(t)
    BY <2>1
  <2>. QED
    BY <2>1, <2>2, <2>3 DEF Request
<1>. QED
  BY <1>3, <1>4, <1>5, <1>6, <1>7, <1>8, <1>9, <1>10, <1>11, <1>12, <1>13 DEF Begin, ChangeRoster

\* The rows of students and cars are never deleted; what is written is typed.
LEMMA WriteKeepsRows ==
  ASSUME TypeOK, NEW p \in Clients, Write(p)
  PROVE  /\ student' \in [Students -> StudentRow \cup {None}]
         /\ enrolment' \in [Students -> [Groups -> EnrolmentStatus \cup {"none"}]]
         /\ group' \in [Groups -> GroupStatus]
         /\ car' \in [Cars -> CarRow \cup {None}]
         /\ suspended' = suspended
         /\ \A s \in Students : Exists(s) => Exists(s)'
         /\ \A c \in Cars : ExistsCar(c) => ExistsCar(c)'
         /\ tx' = [tx EXCEPT ![p] = IdleTx]
         /\ overtaken' \subseteq Clients
<1>0. tx' = [tx EXCEPT ![p] = IdleTx] /\ overtaken' \subseteq Clients
  BY DEF Write, WriteCreateStudent, WriteAssignGroup, WriteRemove, WriteTraining, WriteGrant,
         WriteArchive, WriteStudent, WriteCreateCar, WriteCar, WriteCarStatus,
         WriteGroupStatus, Commit, EndTx, Finish, TypeOK
<1>. USE <1>0
<1>. DEFINE t == tx[p]
            Places == [Groups -> EnrolmentStatus \cup {"none"}]
<1>1. t \in Tx /\ WellFormed(t)
  BY DEF TypeOK, RequestsOK
<1>2. None \notin StudentRow /\ None \notin CarRow
  BY NoRowAssumption
<1>3. \A s \in Students : \A row \in StudentRow :
        LET new == [student EXCEPT ![s] = row]
        IN /\ new \in [Students -> StudentRow \cup {None}]
           /\ \A x \in Students : Exists(x) => new[x] # None
  BY <1>2 DEF TypeOK, Exists
<1>4. \A c \in Cars : \A row \in CarRow :
        LET new == [car EXCEPT ![c] = row]
        IN /\ new \in [Cars -> CarRow \cup {None}]
           /\ \A x \in Cars : ExistsCar(x) => new[x] # None
  BY <1>2 DEF TypeOK, ExistsCar
<1>5. \A s \in Students : \A places \in Places :
        [enrolment EXCEPT ![s] = places] \in [Students -> Places]
  BY DEF TypeOK
<1>6. \A s \in Students : enrolment[s] \in Places
  BY DEF TypeOK
<1>7. \A s \in Students : Exists(s) => student[s] \in StudentRow
  BY DEF TypeOK, Exists
<1>8. \A c \in Cars : ExistsCar(c) => car[c] \in CarRow
  BY DEF TypeOK, ExistsCar
<1>9. ASSUME NEW s \in Students, NEW status \in EnrolmentStatus
      PROVE  Close(s, status) \in [Students -> Places]
  <2>1. [g \in Groups |-> IF enrolment[s][g] = "ACTIVE" THEN status ELSE enrolment[s][g]] \in Places
    BY <1>6
  <2>. QED
    BY <2>1, <1>5 DEF Close
<1>10. \A training : EnrolmentStatusFor(training) \in EnrolmentStatus
  BY DEF EnrolmentStatusFor, EnrolmentStatus
<1>11. CASE WriteCreateStudent(p)
  <2>1. t.student \in Students /\ t.group \in Groups \cup {None} /\ t.kind \in Kinds \cup {None}
    BY <1>1, <1>11 DEF WriteCreateStudent, Writing, Tx, WellFormed, StudentOps
  <2>. DEFINE row == [account |-> "INVITED", training |-> "INVITED", group |-> t.group,
                      instructor |-> None, car |-> None, kind |-> t.kind]
              places == [g \in Groups |-> IF g = t.group THEN "ACTIVE" ELSE "none"]
  <2>2. row \in StudentRow
    BY <2>1 DEF StudentRow, AccountStatus, TrainingStatus
  <2>3. places \in Places
    BY DEF EnrolmentStatus
  <2>4. CASE UNCHANGED data
    BY <1>11, <2>4 DEF WriteCreateStudent, data, TypeOK, Exists, ExistsCar
  <2>5. CASE /\ student' = [student EXCEPT ![t.student] = row]
             /\ enrolment' = [enrolment EXCEPT ![t.student] = places]
             /\ UNCHANGED <<group, car>>
    <3>. HIDE DEF row, places, Places
    <3>. QED
      BY <1>11, <2>5, <2>1, <2>2, <2>3, <1>3, <1>5
      DEF TypeOK, WriteCreateStudent, Exists, ExistsCar, Places
  <2>. QED
    BY <1>11, <2>4, <2>5 DEF WriteCreateStudent
<1>12. CASE WriteAssignGroup(p)
  <2>. DEFINE s == t.student
              row == [student[s] EXCEPT !.group = t.group]
              places == [h \in Groups |->
                           IF h = t.group THEN "ACTIVE"
                           ELSE IF h = t.was /\ enrolment[s][h] = "ACTIVE" THEN "COMPLETED"
                           ELSE enrolment[s][h]]
  <2>1. s \in Students /\ Exists(s) /\ t.group \in Groups
    BY <1>1, <1>12 DEF WriteAssignGroup, Writing, WellFormed, StudentOps
  <2>2. row \in StudentRow
    BY <2>1, <1>7 DEF StudentRow
  <2>3. places \in Places
    BY <2>1, <1>6 DEF EnrolmentStatus
  <2>4. /\ student' = [student EXCEPT ![s] = row]
        /\ enrolment' = [enrolment EXCEPT ![s] = places]
    BY <1>12 DEF WriteAssignGroup
  <2>5. UNCHANGED <<group, car, suspended>>
    BY <1>12 DEF WriteAssignGroup
  <2>. HIDE DEF s, row, places
  <2>6. /\ student' \in [Students -> StudentRow \cup {None}]
        /\ \A x \in Students : Exists(x) => Exists(x)'
    BY <2>1, <2>2, <2>4, <1>3 DEF Exists
  <2>. QED
    BY <2>1, <2>3, <2>4, <1>5, <2>5, <2>6 DEF TypeOK, Exists, ExistsCar
<1>13. CASE WriteRemove(p)
  <2>. DEFINE s == t.student
              row == [student[s] EXCEPT !.group = IF t.was = t.group THEN None ELSE @]
              places == [enrolment[s] EXCEPT ![t.group] = "none"]
  <2>1. s \in Students /\ Exists(s) /\ t.group \in Groups
    BY <1>1, <1>13 DEF WriteRemove, Writing, WellFormed, StudentOps
  <2>2. row \in StudentRow
    BY <2>1, <1>7 DEF StudentRow
  <2>3. places \in Places
    BY <2>1, <1>6
  <2>4. CASE UNCHANGED <<student, enrolment>>
    BY <1>13, <2>4 DEF TypeOK, WriteRemove, Exists, ExistsCar
  <2>5. CASE /\ student' = [student EXCEPT ![s] = row]
             /\ enrolment' = [enrolment EXCEPT ![s] = places]
    <3>. HIDE DEF s, row, places
    <3>. QED
      BY <1>13, <2>5, <2>1, <2>2, <2>3, <1>3, <1>5 DEF TypeOK, WriteRemove, Exists, ExistsCar
  <2>. QED
    BY <1>13, <2>4, <2>5 DEF WriteRemove
<1>14. CASE WriteTraining(p)
  <2>. DEFINE s == t.student
              row == [student[s] EXCEPT !.training = t.next]
  <2>1. s \in Students /\ Exists(s) /\ t.next \in TrainingStatus
    BY <1>1, <1>14 DEF WriteTraining, Writing, WellFormed, StudentOps
  <2>2. row \in StudentRow
    BY <2>1, <1>7 DEF StudentRow
  <2>3. student' = [student EXCEPT ![s] = row]
    BY <1>14 DEF WriteTraining
  <2>4. enrolment' \in [Students -> Places]
    BY <1>14, <2>1, <1>9, <1>10 DEF WriteTraining
  <2>5. UNCHANGED <<group, car, suspended>>
    BY <1>14 DEF WriteTraining
  <2>. HIDE DEF s, row
  <2>6. /\ student' \in [Students -> StudentRow \cup {None}]
        /\ \A x \in Students : Exists(x) => Exists(x)'
    BY <2>1, <2>2, <2>3, <1>3 DEF Exists
  <2>. QED
    BY <2>4, <2>5, <2>6 DEF TypeOK, Exists, ExistsCar
<1>15. CASE WriteGrant(p)
  <2>. DEFINE s == t.student
              row == [student[s] EXCEPT !.instructor = t.instructor, !.car = t.car,
                                        !.training = "PRACTICE"]
  <2>1. /\ s \in Students /\ Exists(s)
        /\ t.instructor \in Instructors \cup {None} /\ t.car \in Cars \cup {None}
    BY <1>1, <1>15 DEF WriteGrant, Writing, WellFormed, StudentOps, Tx
  <2>2. row \in StudentRow
    <3>1. [student[s] EXCEPT !.instructor = t.instructor, !.car = t.car] \in StudentRow
      BY <2>1, <1>7 DEF StudentRow
    <3>2. \A r \in StudentRow : [r EXCEPT !.training = "PRACTICE"] \in StudentRow
      BY DEF StudentRow, TrainingStatus
    <3>. QED
      BY <3>1, <3>2
  <2>3. student' = [student EXCEPT ![s] = row]
    BY <1>15 DEF WriteGrant
  <2>5. UNCHANGED <<enrolment, group, car, suspended>>
    BY <1>15 DEF WriteGrant
  <2>. HIDE DEF s, row
  <2>6. /\ student' \in [Students -> StudentRow \cup {None}]
        /\ \A x \in Students : Exists(x) => Exists(x)'
    BY <2>1, <2>2, <2>3, <1>3 DEF Exists
  <2>. QED
    BY <2>5, <2>6 DEF TypeOK, Exists, ExistsCar
<1>16. CASE WriteArchive(p)
  <2>. DEFINE s == t.student
              row == [student[s] EXCEPT !.account = "ARCHIVED", !.training = "ARCHIVED"]
  <2>1. s \in Students /\ Exists(s)
    BY <1>1, <1>16 DEF WriteArchive, Writing, WellFormed, StudentOps
  <2>2. row \in StudentRow
    BY <2>1, <1>7 DEF StudentRow, TrainingStatus, AccountStatus
  <2>3. student' = [student EXCEPT ![s] = row]
    BY <1>16 DEF WriteArchive
  <2>4. enrolment' \in [Students -> Places]
    BY <1>16, <2>1, <1>9, <1>10 DEF WriteArchive
  <2>5. UNCHANGED <<group, car, suspended>>
    BY <1>16 DEF WriteArchive
  <2>. HIDE DEF s, row
  <2>6. /\ student' \in [Students -> StudentRow \cup {None}]
        /\ \A x \in Students : Exists(x) => Exists(x)'
    BY <2>1, <2>2, <2>3, <1>3 DEF Exists
  <2>. QED
    BY <2>4, <2>5, <2>6 DEF TypeOK, Exists, ExistsCar
<1>17. CASE WriteStudent(p)
  <2>. DEFINE s == t.student
              row == [student[s] EXCEPT !.kind = t.kind]
  <2>1. s \in Students /\ Exists(s) /\ t.kind \in Kinds \cup {None}
    BY <1>1, <1>17 DEF WriteStudent, Writing, WellFormed, StudentOps, Tx
  <2>2. row \in StudentRow
    BY <2>1, <1>7 DEF StudentRow
  <2>3. student' = [student EXCEPT ![s] = row]
    BY <1>17 DEF WriteStudent
  <2>5. UNCHANGED <<enrolment, group, car, suspended>>
    BY <1>17 DEF WriteStudent
  <2>. HIDE DEF s, row
  <2>6. /\ student' \in [Students -> StudentRow \cup {None}]
        /\ \A x \in Students : Exists(x) => Exists(x)'
    BY <2>1, <2>2, <2>3, <1>3 DEF Exists
  <2>. QED
    BY <2>5, <2>6 DEF TypeOK, Exists, ExistsCar
<1>18. CASE WriteCreateCar(p)
  <2>. DEFINE row == [status |-> "AVAILABLE", instructor |-> t.instructor, kind |-> t.kind]
  <2>1. t.car \in Cars /\ row \in CarRow
    BY <1>1, <1>18 DEF WriteCreateCar, Writing, WellFormed, Tx, CarRow, CarStatus
  <2>2. car' = car \/ car' = [car EXCEPT ![t.car] = row]
    BY <1>18 DEF WriteCreateCar
  <2>. HIDE DEF row
  <2>. QED
    BY <1>18, <2>1, <2>2, <1>4 DEF TypeOK, WriteCreateCar, Exists, ExistsCar
<1>19. CASE WriteCar(p)
  <2>. DEFINE c == t.car
              row == [car[c] EXCEPT
                        !.instructor = IF "instructor" \in t.changes THEN t.instructor ELSE @,
                        !.kind       = IF "kind" \in t.changes THEN t.kind ELSE @]
  <2>1. c \in Cars /\ ExistsCar(c) /\ t.kind \in Kinds /\ t.instructor \in Instructors \cup {None}
    BY <1>1, <1>19 DEF WriteCar, Writing, WellFormed, Tx
  <2>2. row \in CarRow
    BY <2>1, <1>8 DEF CarRow
  <2>3. car' = [car EXCEPT ![c] = row]
    BY <1>19 DEF WriteCar
  <2>5. UNCHANGED <<student, enrolment, group, suspended>>
    BY <1>19 DEF WriteCar
  <2>. HIDE DEF c, row
  <2>6. /\ car' \in [Cars -> CarRow \cup {None}]
        /\ \A x \in Cars : ExistsCar(x) => ExistsCar(x)'
    BY <2>1, <2>2, <2>3, <1>4 DEF ExistsCar
  <2>. QED
    BY <2>5, <2>6 DEF TypeOK, Exists, ExistsCar
<1>20. CASE WriteCarStatus(p)
  <2>. DEFINE c == t.car
              row == [car[c] EXCEPT !.status = t.next]
  <2>1. c \in Cars /\ ExistsCar(c) /\ t.next \in CarStatus
    BY <1>1, <1>20 DEF WriteCarStatus, Writing, WellFormed
  <2>2. row \in CarRow
    BY <2>1, <1>8 DEF CarRow
  <2>3. car' = [car EXCEPT ![c] = row]
    BY <1>20 DEF WriteCarStatus
  <2>5. UNCHANGED <<student, enrolment, group, suspended>>
    BY <1>20 DEF WriteCarStatus
  <2>. HIDE DEF c, row
  <2>6. /\ car' \in [Cars -> CarRow \cup {None}]
        /\ \A x \in Cars : ExistsCar(x) => ExistsCar(x)'
    BY <2>1, <2>2, <2>3, <1>4 DEF ExistsCar
  <2>. QED
    BY <2>5, <2>6 DEF TypeOK, Exists, ExistsCar
<1>21. CASE WriteGroupStatus(p)
  <2>1. t.group \in Groups /\ t.next \in GroupStatus
    BY <1>1, <1>21 DEF WriteGroupStatus, Writing, WellFormed
  <2>2. group' \in [Groups -> GroupStatus]
    BY <1>21, <2>1 DEF TypeOK, WriteGroupStatus
  <2>3. enrolment' \in [Students -> Places]
    <3>. DEFINE left(x) == [enrolment[x] EXCEPT
                              ![t.group] = IF @ = "ACTIVE" THEN "COMPLETED" ELSE @]
    <3>1. \A x \in Students : left(x) \in Places
      BY <1>6, <2>1 DEF EnrolmentStatus
    <3>2. [x \in Students |-> left(x)] \in [Students -> Places]
      BY <3>1
    <3>3. enrolment' = enrolment \/ enrolment' = [x \in Students |-> left(x)]
      BY <1>21 DEF WriteGroupStatus
    <3>. HIDE DEF left
    <3>. QED
      BY <3>2, <3>3 DEF TypeOK
  <2>. QED
    BY <1>21, <2>2, <2>3 DEF TypeOK, WriteGroupStatus, Exists, ExistsCar
<1>. QED
  BY <1>11, <1>12, <1>13, <1>14, <1>15, <1>16, <1>17, <1>18, <1>19, <1>20, <1>21 DEF Write

\* A request that moves on without writing stays well formed.
LEMMA MoveIsRequest ==
  ASSUME TypeOK, NEW p \in Clients,
         CheckEnrolments(p) \/ LockGroup(p) \/ Check(p) \/ Abort(p)
  PROVE  \E t \in Tx : /\ WellFormed(t)
                       /\ tx' = [tx EXCEPT ![p] = t]
                       /\ UNCHANGED <<data, suspended>>
                       /\ overtaken' \subseteq overtaken
<1>. DEFINE t == tx[p]
<1>1. t \in Tx /\ WellFormed(t)
  BY DEF TypeOK, RequestsOK
<1>2. ASSUME NEW stage \in Stages \ {"idle"}, t.stage # "idle"
      PROVE  [t EXCEPT !.stage = stage] \in Tx /\ WellFormed([t EXCEPT !.stage = stage])
  BY <1>1, <1>2 DEF Tx, WellFormed
<1>7. ASSUME NEW u \in Tx, WellFormed(u), NEW lock \in {"share", "update"}
      PROVE  [u EXCEPT !.lock = lock] \in Tx /\ WellFormed([u EXCEPT !.lock = lock])
  BY <1>7 DEF Tx, WellFormed
<1>3. CASE tx' = [tx EXCEPT ![p] = IdleTx] /\ UNCHANGED <<data, suspended>>
            /\ overtaken' \subseteq overtaken
  BY <1>3, IdleIsTyped
<1>4. CASE CheckEnrolments(p) /\ Goto(p, "lock")
  <2>1. tx' = [tx EXCEPT ![p] = [t EXCEPT !.stage = "lock"]]
    BY <1>4 DEF Goto
  <2>2. t.stage # "idle" /\ "lock" \in Stages \ {"idle"} /\ UNCHANGED <<data, suspended, overtaken>>
    BY <1>4 DEF CheckEnrolments, Goto, Stages
  <2>. QED
    BY <2>1, <2>2, <1>2
<1>5. CASE LockGroup(p)
  <2>1. tx' = [tx EXCEPT ![p] = [[t EXCEPT !.stage = "check"] EXCEPT !.lock = LockMode(t.op)]]
    BY <1>5 DEF LockGroup, TypeOK, Tx
  <2>2. t.stage # "idle" /\ "check" \in Stages \ {"idle"} /\ UNCHANGED <<data, suspended, overtaken>>
    BY <1>5 DEF LockGroup, Stages
  <2>3. LockMode(t.op) \in {"share", "update"}
    BY DEF LockMode
  <2>. QED
    BY <2>1, <2>2, <2>3, <1>2, <1>7
<1>6. CASE Check(p) /\ Goto(p, "write")
  <2>1. tx' = [tx EXCEPT ![p] = [t EXCEPT !.stage = "write"]]
    BY <1>6 DEF Goto
  <2>2. t.stage # "idle" /\ "write" \in Stages \ {"idle"} /\ UNCHANGED <<data, suspended, overtaken>>
    BY <1>6 DEF Check, Goto, Stages
  <2>. QED
    BY <2>1, <2>2, <1>2
<1>. QED
  BY <1>3, <1>4, <1>5, <1>6 DEF CheckEnrolments, Check, Abort, EndTx, Finish

\* A request stays well formed while no row of a student or a car goes.
LEMMA WellFormedIsStable ==
  ASSUME NEW t, WellFormed(t),
         \A s \in Students : Exists(s) => Exists(s)',
         \A c \in Cars : ExistsCar(c) => ExistsCar(c)'
  PROVE  WellFormed(t)'
BY DEF WellFormed, StudentOps

\* One request is replaced by another one, of the rows as they are after the step.
LEMMA RequestsStayTyped ==
  ASSUME TypeOK, NEW p \in Clients, NEW t \in Tx, WellFormed(t),
         tx' = [tx EXCEPT ![p] = t],
         \A s \in Students : Exists(s) => Exists(s)',
         \A c \in Cars : ExistsCar(c) => ExistsCar(c)'
  PROVE  /\ tx' \in [Clients -> Tx]
         /\ RequestsOK'
<1>1. tx' \in [Clients -> Tx]
  BY DEF TypeOK
<1>2. ASSUME NEW q \in Clients
      PROVE  WellFormed(tx[q])'
  <2>1. tx'[q] = t \/ tx'[q] = tx[q]
    BY DEF TypeOK
  <2>2. WellFormed(t)'
    BY WellFormedIsStable
  <2>3. CASE tx'[q] = t
    BY <2>2, <2>3 DEF WellFormed
  <2>4. CASE tx'[q] = tx[q]
    <3>1. WellFormed(tx[q])
      BY DEF TypeOK, RequestsOK
    <3>. QED
      BY <3>1, <2>4 DEF WellFormed, StudentOps
  <2>. QED
    BY <2>1, <2>3, <2>4
<1>. QED
  BY <1>1, <1>2 DEF RequestsOK

\* Types hold at first and after every step.
LEMMA TypesHold == (Init => TypeOK) /\ (TypeOK /\ [Next]_vars => TypeOK')
<1>1. Init => TypeOK
  <2>. SUFFICES ASSUME Init PROVE TypeOK
    OBVIOUS
  <2>1. /\ student \in [Students -> StudentRow \cup {None}]
        /\ enrolment \in [Students -> [Groups -> EnrolmentStatus \cup {"none"}]]
        /\ group \in [Groups -> GroupStatus]
        /\ car \in [Cars -> CarRow \cup {None}]
        /\ suspended \subseteq Instructors
        /\ overtaken \subseteq Clients
    BY DEF Init, GroupStatus
  <2>2. tx \in [Clients -> Tx] /\ RequestsOK
    BY IdleIsTyped DEF Init, RequestsOK
  <2>. QED
    BY <2>1, <2>2 DEF TypeOK
<1>2. ASSUME TypeOK, [Next]_vars
      PROVE  TypeOK'
  <2>1. CASE UNCHANGED vars
    BY <1>2, <2>1 DEF vars, data, TypeOK, RequestsOK, WellFormed, Exists, ExistsCar
  <2>2. ASSUME NEW p \in Clients, NEW t \in Tx, WellFormed(t),
               tx' = [tx EXCEPT ![p] = t], UNCHANGED <<data, suspended>>,
               overtaken' \subseteq Clients
        PROVE  TypeOK'
    <3>1. /\ \A s \in Students : Exists(s) => Exists(s)'
          /\ \A c \in Cars : ExistsCar(c) => ExistsCar(c)'
      BY <2>2 DEF data, Exists, ExistsCar
    <3>2. /\ tx' \in [Clients -> Tx]
          /\ RequestsOK'
      BY <1>2, <2>2, <3>1, RequestsStayTyped
    <3>. QED
      BY <1>2, <2>2, <3>2 DEF TypeOK, data
  <2>3. ASSUME NEW p \in Clients, Begin(p)
        PROVE  TypeOK'
    BY <1>2, <2>2, <2>3, BeginIsRequest DEF TypeOK
  <2>4. ASSUME NEW p \in Clients,
               CheckEnrolments(p) \/ LockGroup(p) \/ Check(p) \/ Abort(p)
        PROVE  TypeOK'
    BY <1>2, <2>2, <2>4, MoveIsRequest DEF TypeOK
  <2>5. ASSUME NEW p \in Clients, Write(p)
        PROVE  TypeOK'
    <3>1. /\ student' \in [Students -> StudentRow \cup {None}]
          /\ enrolment' \in [Students -> [Groups -> EnrolmentStatus \cup {"none"}]]
          /\ group' \in [Groups -> GroupStatus]
          /\ car' \in [Cars -> CarRow \cup {None}]
          /\ suspended' = suspended
          /\ \A s \in Students : Exists(s) => Exists(s)'
          /\ \A c \in Cars : ExistsCar(c) => ExistsCar(c)'
          /\ tx' = [tx EXCEPT ![p] = IdleTx]
          /\ overtaken' \subseteq Clients
      BY <1>2, <2>5, WriteKeepsRows
    <3>2. /\ tx' \in [Clients -> Tx]
          /\ RequestsOK'
      BY <1>2, <3>1, IdleIsTyped, RequestsStayTyped
    <3>. QED
      BY <1>2, <3>1, <3>2 DEF TypeOK
  <2>6. ASSUME NEW s \in Students, ChangeAccount(s)
        PROVE  TypeOK'
    <3>1. PICK next \in AccountMoves[student[s].account] :
            student' = [student EXCEPT ![s] = [student[s] EXCEPT !.account = next]]
      BY <2>6 DEF ChangeAccount
    <3>2. student[s] \in StudentRow
      BY <1>2, <2>6 DEF TypeOK, ChangeAccount, Exists
    <3>3. next \in AccountStatus
      BY <3>1, <3>2 DEF StudentRow, AccountStatus, AccountMoves
    <3>4. [student[s] EXCEPT !.account = next] \in StudentRow
      BY <3>2, <3>3 DEF StudentRow
    <3>5. /\ student' \in [Students -> StudentRow \cup {None}]
          /\ \A x \in Students : Exists(x) => Exists(x)'
      BY <1>2, <3>1, <3>4, NoRowAssumption DEF TypeOK, Exists
    <3>6. UNCHANGED <<enrolment, group, car, suspended, tx, overtaken>>
      BY <2>6 DEF ChangeAccount
    <3>7. RequestsOK'
      BY <1>2, <3>5, <3>6 DEF TypeOK, RequestsOK, WellFormed, StudentOps, ExistsCar
    <3>. QED
      BY <1>2, <3>5, <3>6, <3>7 DEF TypeOK
  <2>7. ASSUME NEW i \in Instructors, ChangeInstructor(i)
        PROVE  TypeOK'
    BY <1>2, <2>7 DEF ChangeInstructor, TypeOK, data, RequestsOK, WellFormed, Exists, ExistsCar
  <2>. QED
    BY <1>2, <2>1, <2>3, <2>4, <2>5, <2>6, <2>7 DEF Next
<1>. QED
  BY <1>1, <1>2

\* Every table holds rows of its kind and every request what it needs, whatever
\* the clients do: no request works on a row that is not there.
THEOREM TypesKept == Spec => []TypeOK
BY TypesHold, PTL DEF Spec

-----------------------------------------------------------------------------
(* The lock of a group *)

\* What lock a request holds at each stage: one that joins a group has locked it
\* when it makes its checks, one that changes its status for update.
Locked(t) ==
  /\ t.stage \in {"enrolments", "lock"} => t.lock = "none" /\ t.group \in Groups
  /\ Joins(t) /\ t.stage \in {"check", "write"} => t.lock \in {"share", "update"}
  /\ t.op = "changeGroupStatus" /\ t.stage \in {"check", "write"} => t.lock = "update"

LockInv == \A p \in Clients : Locked(tx[p])

\* A lock for update keeps every other lock on the group out.
ExclusiveInv ==
  \A p, q \in Clients :
    p # q /\ tx[p].lock = "update" /\ tx[q].group = tx[p].group => tx[q].lock = "none"

\* The group is open when a request that joins it is about to write.
OpenInv ==
  \A p \in Clients :
    Joins(tx[p]) /\ tx[p].stage = "write" => IsOpenGroup(tx[p].group)

\* The inductive invariant of ClosedGroupsStayEmpty.
IInv == TypeOK /\ LockInv /\ ExclusiveInv /\ OpenInv /\ NoMemberOfClosedGroup

\* What a write does to the groups and their members: nobody's membership appears
\* but in a group the request joins, and only changeGroupStatus closes a group.
LEMMA WriteOnMembers ==
  ASSUME TypeOK, NEW p \in Clients, Write(p), NEW s \in Students, NEW g \in Groups
  PROVE  /\ enrolment'[s][g] = "ACTIVE" =>
              enrolment[s][g] = "ACTIVE" \/ (Joins(tx[p]) /\ tx[p].group = g)
         /\ group'[g] # group[g] =>
              /\ Writing(p, "changeGroupStatus")
              /\ tx[p].group = g
              /\ IsOpenStatus(group'[g]) \/ enrolment'[s][g] # "ACTIVE"
<1>. DEFINE t == tx[p]
<1>1. WellFormed(t)
  BY DEF TypeOK, RequestsOK
<1>2. \A training : Close(t.student, EnrolmentStatusFor(training))[s][g] = "ACTIVE"
                      => enrolment[s][g] = "ACTIVE"
  BY DEF Close, TypeOK
<1>3. CASE WriteCreateStudent(p)
  <2>1. t.student \in Students /\ g # None
    BY <1>3, <1>1, RecordsAssumption DEF WriteCreateStudent, Writing, WellFormed, StudentOps
  <2>2. CASE UNCHANGED data
    BY <2>2 DEF data
  <2>3. CASE /\ enrolment' = [enrolment EXCEPT ![t.student] =
                                [h \in Groups |-> IF h = t.group THEN "ACTIVE" ELSE "none"]]
             /\ UNCHANGED group
    BY <1>3, <2>1, <2>3 DEF WriteCreateStudent, Writing, Joins, TypeOK
  <2>. QED
    BY <1>3, <2>2, <2>3 DEF WriteCreateStudent
<1>4. CASE WriteAssignGroup(p)
  BY <1>4 DEF WriteAssignGroup, Writing, Joins, TypeOK
<1>5. CASE WriteRemove(p)
  BY <1>5 DEF WriteRemove, TypeOK
<1>6. CASE WriteTraining(p)
  BY <1>6, <1>2 DEF WriteTraining
<1>7. CASE WriteGrant(p)
  BY <1>7 DEF WriteGrant
<1>8. CASE WriteArchive(p)
  BY <1>8, <1>2 DEF WriteArchive
<1>9. CASE WriteStudent(p)
  BY <1>9 DEF WriteStudent
<1>10. CASE WriteCreateCar(p)
  BY <1>10 DEF WriteCreateCar
<1>11. CASE WriteCar(p)
  BY <1>11 DEF WriteCar
<1>12. CASE WriteCarStatus(p)
  BY <1>12 DEF WriteCarStatus
<1>13. CASE WriteGroupStatus(p)
  <2>1. group' = [group EXCEPT ![t.group] = t.next] /\ Writing(p, "changeGroupStatus")
    BY <1>13 DEF WriteGroupStatus
  <2>2. group'[g] # group[g] => t.group = g /\ group'[g] = t.next
    BY <2>1 DEF TypeOK
  <2>3. enrolment'[s][g] = "ACTIVE" => enrolment[s][g] = "ACTIVE"
    BY <1>13 DEF WriteGroupStatus, TypeOK
  <2>4. t.group = g => IsOpenStatus(t.next) \/ enrolment'[s][g] # "ACTIVE"
    BY <1>13 DEF WriteGroupStatus, TypeOK
  <2>. QED
    BY <2>1, <2>2, <2>3, <2>4
<1>. QED
  BY <1>3, <1>4, <1>5, <1>6, <1>7, <1>8, <1>9, <1>10, <1>11, <1>12, <1>13 DEF Write

\* Only changeGroupStatus writes the status of a group, of its own.
LEMMA WriteCloses ==
  ASSUME TypeOK, NEW p \in Clients, Write(p), NEW g \in Groups, group'[g] # group[g]
  PROVE  Writing(p, "changeGroupStatus") /\ tx[p].group = g
BY DEF Write, WriteCreateStudent, WriteAssignGroup, WriteRemove, WriteTraining, WriteGrant,
       WriteArchive, WriteStudent, WriteCreateCar, WriteCar, WriteCarStatus,
       WriteGroupStatus, TypeOK, data

\* A write ends its request.
LEMMA WriteEnds ==
  ASSUME NEW p \in Clients, Write(p)
  PROVE  tx[p].stage = "write" /\ Finish(p)
BY DEF Write, WriteCreateStudent, WriteAssignGroup, WriteRemove, WriteTraining, WriteGrant,
       WriteArchive, WriteStudent, WriteCreateCar, WriteCar, WriteCarStatus,
       WriteGroupStatus, Writing, Commit, EndTx

\* Whoever joins a group names one.
LEMMA JoinsGroup ==
  ASSUME TypeOK, NEW p \in Clients, Joins(tx[p])
  PROVE  tx[p].group \in Groups
BY DEF TypeOK, RequestsOK, Tx, WellFormed, Joins

\* A request that goes on to another stage is the same but for it.
LEMMA StageMoves ==
  ASSUME NEW t \in Tx, NEW stage \in Stages
  PROVE  LET u == [t EXCEPT !.stage = stage]
         IN  /\ u \in Tx
             /\ u.stage = stage
             /\ u.op = t.op /\ u.lock = t.lock /\ u.group = t.group
             /\ u.student = t.student
<1>. DEFINE u == [t EXCEPT !.stage = stage]
<1>1. u \in Tx
  BY DEF Tx
<1>2. u.stage = stage
  BY DEF Tx
<1>3. u.op = t.op /\ u.lock = t.lock /\ u.group = t.group /\ u.student = t.student
  BY DEF Tx
<1>. QED
  BY <1>1, <1>2, <1>3

\* Locks are taken and kept as the stages of a request have it.
LEMMA LocksKept ==
  ASSUME TypeOK, LockInv, ExclusiveInv, [Next]_vars
  PROVE  LockInv' /\ ExclusiveInv'
<1>1. ASSUME NEW p \in Clients, NEW t \in Tx, tx' = [tx EXCEPT ![p] = t], Locked(t),
             t.lock = "none" \/ (t.lock = tx[p].lock /\ t.group = tx[p].group)
      PROVE  LockInv' /\ ExclusiveInv'
  <2>1. LockInv'
    BY <1>1 DEF LockInv, TypeOK
  <2>2. ExclusiveInv'
    BY <1>1 DEF ExclusiveInv, TypeOK
  <2>. QED
    BY <2>1, <2>2
<1>2. ASSUME NEW p \in Clients, Finish(p)
      PROVE  LockInv' /\ ExclusiveInv'
  <2>1. IdleTx \in Tx /\ Locked(IdleTx) /\ IdleTx.lock = "none"
    BY IdleIsTyped DEF Locked, Joins, IdleTx
  <2>. QED
    BY <1>1, <1>2, <2>1 DEF Finish
<1>3. ASSUME NEW p \in Clients, Begin(p)
      PROVE  LockInv' /\ ExclusiveInv'
  <2>1. PICK t \in Tx : Fresh(t) /\ tx' = [tx EXCEPT ![p] = t]
    BY <1>3, BeginIsRequest
  <2>2. Locked(t) /\ t.lock = "none"
    BY <2>1 DEF Fresh, Locked
  <2>. QED
    BY <1>1, <2>1, <2>2
<1>4. ASSUME NEW p \in Clients, NEW stage \in {"lock", "write"}, Goto(p, stage),
             tx[p].stage \in {"enrolments", "check"},
             stage = "lock" <=> tx[p].stage = "enrolments"
      PROVE  LockInv' /\ ExclusiveInv'
  <2>. DEFINE t == [tx[p] EXCEPT !.stage = stage]
  <2>1. t \in Tx /\ Locked(t)
    <3>1. tx[p] \in Tx /\ Locked(tx[p]) /\ stage \in Stages
      BY <1>4 DEF TypeOK, LockInv, Stages
    <3>0. /\ t \in Tx /\ t.stage = stage
          /\ t.op = tx[p].op /\ t.lock = tx[p].lock /\ t.group = tx[p].group
      BY <3>1, StageMoves
    <3>. HIDE DEF t
    <3>2. CASE stage = "lock" /\ tx[p].stage = "enrolments"
      BY <3>0, <3>1, <3>2 DEF Locked
    <3>3. CASE stage = "write" /\ tx[p].stage = "check"
      BY <3>0, <3>1, <3>3 DEF Locked, Joins
    <3>. QED
      BY <1>4, <3>0, <3>2, <3>3
  <2>2. tx' = [tx EXCEPT ![p] = t] /\ t.lock = tx[p].lock /\ t.group = tx[p].group
    <3>1. tx[p] \in Tx /\ stage \in Stages
      BY <1>4 DEF TypeOK, Stages
    <3>. QED
      BY <1>4, <3>1, StageMoves DEF Goto
  <2>. HIDE DEF t
  <2>. QED
    BY <1>1, <2>1, <2>2
<1>5. ASSUME NEW p \in Clients, LockGroup(p)
      PROVE  LockInv' /\ ExclusiveInv'
  <2>. DEFINE mode == LockMode(tx[p].op)
              t == [tx[p] EXCEPT !.lock = mode, !.stage = "check"]
  <2>1. /\ tx' = [tx EXCEPT ![p] = t]
        /\ \A q \in Clients \ {p} :
             tx[q].group = tx[p].group /\ tx[q].lock # "none"
               => mode = "share" /\ tx[q].lock = "share"
    BY <1>5 DEF LockGroup
  <2>2. /\ mode \in {"share", "update"}
        /\ tx[p].op = "changeGroupStatus" => mode = "update"
    BY DEF LockMode
  <2>3. t.group = tx[p].group /\ t.lock = mode /\ Locked(t)
    <3>1. tx[p] \in Tx
      BY DEF TypeOK
    <3>2. t.group = tx[p].group /\ t.lock = mode /\ t.stage = "check" /\ t.op = tx[p].op
      BY <3>1 DEF Tx
    <3>. HIDE DEF t
    <3>. QED
      BY <2>2, <3>2 DEF Locked, Joins
  <2>. HIDE DEF mode, t
  <2>4. LockInv'
    BY <2>1, <2>3 DEF LockInv, TypeOK
  <2>5. ExclusiveInv'
    BY <2>1, <2>2, <2>3 DEF ExclusiveInv, TypeOK
  <2>. QED
    BY <2>4, <2>5
<1>6. ASSUME NEW p \in Clients, CheckEnrolments(p)
      PROVE  LockInv' /\ ExclusiveInv'
  BY <1>2, <1>4, <1>6 DEF CheckEnrolments, EndTx
<1>7. ASSUME NEW p \in Clients, Check(p)
      PROVE  LockInv' /\ ExclusiveInv'
  BY <1>2, <1>4, <1>7 DEF Check, EndTx
<1>8. CASE UNCHANGED tx
  BY <1>8 DEF LockInv, ExclusiveInv
<1>. QED
  BY <1>2, <1>3, <1>5, <1>6, <1>7, <1>8, WriteEnds
  DEF Next, vars, Abort, EndTx, ChangeAccount, ChangeInstructor

\* The group stays open under a request that joins it, from its checks on.
LEMMA OpenKept ==
  ASSUME TypeOK, LockInv, ExclusiveInv, OpenInv, [Next]_vars
  PROVE  OpenInv'
<1>1. ASSUME NEW p \in Clients, NEW t \in Tx, tx' = [tx EXCEPT ![p] = t], UNCHANGED group,
             Joins(t) /\ t.stage = "write" => IsOpenGroup(t.group)
      PROVE  OpenInv'
  BY <1>1 DEF OpenInv, TypeOK, IsOpenGroup
<1>2. \A p \in Clients : Finish(p) /\ UNCHANGED group => OpenInv'
  BY <1>1, IdleIsTyped DEF Finish, IdleTx, Joins
<1>3. ASSUME NEW p \in Clients, Begin(p)
      PROVE  OpenInv'
  <2>1. PICK t \in Tx : Fresh(t) /\ tx' = [tx EXCEPT ![p] = t] /\ UNCHANGED data
    BY <1>3, BeginIsRequest DEF data
  <2>. QED
    BY <1>1, <2>1 DEF Fresh, data
<1>4. ASSUME NEW p \in Clients, CheckEnrolments(p)
      PROVE  OpenInv'
  <2>1. CASE Finish(p)
    BY <1>2, <1>4, <2>1 DEF CheckEnrolments, data
  <2>2. CASE Goto(p, "lock")
    <3>. DEFINE t == [tx[p] EXCEPT !.stage = "lock"]
    <3>1. tx[p] \in Tx /\ "lock" \in Stages
      BY DEF TypeOK, Stages
    <3>2. t \in Tx /\ t.stage = "lock"
      BY <3>1, StageMoves
    <3>3. tx' = [tx EXCEPT ![p] = t] /\ UNCHANGED group
      BY <1>4, <2>2 DEF CheckEnrolments, Goto, data
    <3>. HIDE DEF t
    <3>. QED
      BY <1>1, <3>2, <3>3
  <2>. QED
    BY <1>4, <2>1, <2>2 DEF CheckEnrolments, EndTx
<1>5. ASSUME NEW p \in Clients, LockGroup(p)
      PROVE  OpenInv'
  <2>. DEFINE t == [tx[p] EXCEPT !.lock = LockMode(tx[p].op), !.stage = "check"]
  <2>1. t \in Tx /\ t.stage = "check"
    <3>1. LockMode(tx[p].op) \in {"share", "update"}
      BY DEF LockMode
    <3>2. \A u \in Tx : \A lock \in {"share", "update"} : [u EXCEPT !.lock = lock] \in Tx
      BY DEF Tx
    <3>3. \A u \in Tx : [u EXCEPT !.stage = "check"] \in Tx
      BY DEF Tx, Stages
    <3>4. t \in Tx
      BY <3>1, <3>2, <3>3 DEF TypeOK
    <3>5. t.stage = "check"
      BY DEF TypeOK, Tx
    <3>. QED
      BY <3>4, <3>5
  <2>2. tx' = [tx EXCEPT ![p] = t] /\ UNCHANGED group
    BY <1>5 DEF LockGroup, data
  <2>. HIDE DEF t
  <2>. QED
    BY <1>1, <2>1, <2>2
<1>6. ASSUME NEW p \in Clients, Check(p)
      PROVE  OpenInv'
  <2>1. CASE Finish(p)
    BY <1>2, <1>6, <2>1 DEF Check, data
  <2>2. CASE Passes(tx[p]) /\ Goto(p, "write")
    <3>. DEFINE t == [tx[p] EXCEPT !.stage = "write"]
    <3>0. tx[p] \in Tx /\ "write" \in Stages
      BY DEF TypeOK, Stages
    <3>1. t \in Tx /\ t.op = tx[p].op /\ t.group = tx[p].group
      BY <3>0, StageMoves
    <3>2. Joins(t) => IsOpenGroup(t.group)
      BY <2>2, <3>1 DEF Joins, Passes, MayJoin
    <3>3. tx' = [tx EXCEPT ![p] = t] /\ UNCHANGED group
      BY <1>6, <2>2 DEF Check, Goto, data
    <3>. HIDE DEF t
    <3>. QED
      BY <1>1, <3>1, <3>2, <3>3
  <2>. QED
    BY <1>6, <2>1, <2>2 DEF Check, EndTx
<1>7. ASSUME NEW p \in Clients, Write(p)
      PROVE  OpenInv'
  <2>1. Finish(p) /\ tx[p].stage = "write"
    BY <1>7, WriteEnds
  <2>2. ASSUME NEW q \in Clients, Joins(tx'[q]), tx'[q].stage = "write"
        PROVE  IsOpenStatus(group'[tx'[q].group])
    <3>1. q # p /\ tx'[q] = tx[q]
      BY <2>1, <2>2 DEF Finish, TypeOK, IdleTx
    <3>2. tx[q].group \in Groups
      BY <2>2, <3>1, JoinsGroup
    <3>3. group[tx[q].group] = group'[tx[q].group]
      <4>. SUFFICES ASSUME group[tx[q].group] # group'[tx[q].group]
                    PROVE  FALSE
        OBVIOUS
      <4>1. Writing(p, "changeGroupStatus") /\ tx[p].group = tx[q].group
        BY <1>7, <3>2, WriteCloses
      <4>2. tx[p].lock = "update" /\ tx[q].lock \in {"share", "update"}
        BY <2>2, <3>1, <4>1 DEF LockInv, Locked, Writing
      <4>. QED
        BY <3>1, <4>1, <4>2 DEF ExclusiveInv
    <3>. QED
      BY <2>2, <3>1, <3>3 DEF OpenInv, IsOpenGroup
  <2>. QED
    BY <2>2 DEF OpenInv, IsOpenGroup
<1>8. CASE UNCHANGED <<tx, group>>
  BY <1>8 DEF OpenInv, IsOpenGroup
<1>. QED
  BY <1>2, <1>3, <1>4, <1>5, <1>6, <1>7, <1>8
  DEF Next, vars, data, Abort, EndTx, ChangeAccount, ChangeInstructor

\* Together these are inductive.
LEMMA InvariantHolds == (Init => IInv) /\ (IInv /\ [Next]_vars => IInv')
<1>1. Init => IInv
  <2>. SUFFICES ASSUME Init PROVE LockInv /\ ExclusiveInv /\ OpenInv /\ NoMemberOfClosedGroup
    BY TypesHold DEF IInv
  <2>. QED
    BY DEF Init, LockInv, Locked, ExclusiveInv, OpenInv, Joins, IdleTx, NoMemberOfClosedGroup
<1>2. IInv /\ [Next]_vars => IInv'
  <2>. SUFFICES ASSUME IInv, [Next]_vars PROVE IInv'
    OBVIOUS
  <2>1. TypeOK' /\ LockInv' /\ ExclusiveInv' /\ OpenInv'
    BY TypesHold, LocksKept, OpenKept DEF IInv
  <2>2. NoMemberOfClosedGroup'
    <3>. SUFFICES ASSUME NEW s \in Students, NEW g \in Groups, enrolment'[s][g] = "ACTIVE"
                  PROVE  IsOpenStatus(group'[g])
      BY DEF NoMemberOfClosedGroup, IsOpenGroup
    <3>1. CASE UNCHANGED <<enrolment, group>>
      BY <3>1 DEF IInv, NoMemberOfClosedGroup, IsOpenGroup
    <3>2. ASSUME NEW p \in Clients, Write(p)
          PROVE  IsOpenStatus(group'[g])
      <4>1. enrolment[s][g] = "ACTIVE" \/ (Joins(tx[p]) /\ tx[p].group = g)
        BY <3>2, WriteOnMembers DEF IInv
      <4>2. IsOpenStatus(group[g])
        BY <3>2, <4>1, WriteEnds DEF IInv, NoMemberOfClosedGroup, OpenInv, IsOpenGroup
      <4>. QED
        BY <3>2, <4>2, WriteOnMembers DEF IInv
    <3>3. ASSUME NEW p \in Clients,
                 Begin(p) \/ CheckEnrolments(p) \/ LockGroup(p) \/ Check(p) \/ Abort(p)
          PROVE  UNCHANGED <<enrolment, group>>
      BY <3>3, BeginIsRequest, MoveIsRequest DEF IInv, data
    <3>. QED
      BY <3>1, <3>2, <3>3 DEF Next, vars, data, ChangeAccount, ChangeInstructor
  <2>. QED
    BY <2>1, <2>2 DEF IInv
<1>. QED
  BY <1>1, <1>2

\* Closing a group finishes the enrolments of its members, and none is made in it
\* afterwards: the FOR SHARE lock of assignGroup and of create (students.service.ts)
\* against the FOR UPDATE lock of changeStatus (groups.service.ts) is enough.
THEOREM ClosedGroupsStayEmpty == Spec => []NoMemberOfClosedGroup
<1>1. IInv => NoMemberOfClosedGroup
  BY DEF IInv
<1>. QED
  BY InvariantHolds, <1>1, PTL DEF Spec

-----------------------------------------------------------------------------
(* What a request that was not overtaken still knows *)

\* A change of the status of a group is still allowed when it is written.
TransitionInv ==
  \A p \in Clients :
    Writing(p, "changeGroupStatus") => tx[p].next \in GroupTransitions[group[tx[p].group]]

\* What nobody can take from the request t: the group that it takes its student out
\* of has been closed, and it is no change of training that starts the practice.
Decided(t, status) ==
  /\ t.op = "assignGroup" /\ t.stage = "write" /\ t.was \notin {None, t.group} =>
       ~IsOpenStatus(status[t.was])
  /\ t.op = "changeTraining" => t.next # "PRACTICE"

DecidedInv == \A p \in Clients : Decided(tx[p], group)

\* What is still true of the row of its student, the student's places and the groups
\* that the request t has read.
StillRead(t, row, places, status) ==
  /\ t.op = "assignGroup" => row.training \notin Terminal /\ t.was = row.group
  /\ t.op = "assignGroup" /\ t.stage = "write" =>
       \A g \in Groups \ {t.group} : places[g] = "ACTIVE" => ~IsOpenStatus(status[g])
  /\ t.op = "removeFromGroup" => t.was = row.group
  /\ t.op = "changeTraining" => t.next \in TrainingTransitions[row.training]
  /\ t.op = "grantPractice" => row.training \in {"ACTIVE", "PRACTICE"} /\ t.kind = row.kind
  /\ t.op = "updateStudent" => t.car = row.car

\* What is still true of the cars and their drivers when t writes.
StillFits(t, cars, rows) ==
  /\ t.op = "changeCar" =>
       /\ "instructor" \notin t.changes => t.instructor = cars[t.car].instructor
       /\ "kind" \notin t.changes => t.kind = cars[t.car].kind
  /\ t.op = "grantPractice" => cars[t.car] # None
  /\ t.op = "grantPractice" /\ t.stage = "write" =>
       cars[t.car] = [status |-> "AVAILABLE", instructor |-> t.instructor, kind |-> t.kind]
  /\ t.op = "updateStudent" /\ t.stage = "write" /\ t.car # None =>
       cars[t.car].kind = t.kind
  /\ t.op = "changeCar" /\ t.stage = "write" =>
       \A s \in Students : rows[s] # None /\ rows[s].car = t.car =>
         rows[s].instructor = t.instructor /\ rows[s].kind = t.kind
  /\ t.op = "changeCarStatus" /\ t.stage = "write" /\ t.next # "AVAILABLE" =>
       \A s \in Students : rows[s] # None /\ rows[s].car = t.car =>
         rows[s].training # "PRACTICE"

ReadInv ==
  \A p \in Clients \ overtaken :
    /\ StillRead(tx[p], student[tx[p].student], enrolment[tx[p].student], group)
    /\ StillFits(tx[p], car, student)

\* The inductive invariant of the requests that race.
RaceInv == IInv /\ TransitionInv /\ DecidedInv /\ ReadInv

\* What is true of the request t when it begins.
Opened(t) ==
  /\ t.stage # "idle"
  /\ t.stage = "write" =>
       t.op \in {"createStudent", "changeTraining", "archive", "updateStudent", "createCar"}
  /\ Decided(t, group)
  /\ StillRead(t, student[t.student], enrolment[t.student], group)
  /\ StillFits(t, car, student)

\* What a request reads when it begins.
LEMMA BeginReads ==
  ASSUME TypeOK, NEW p \in Clients, Begin(p)
  PROVE  \E t : Request(p, t) /\ Opened(t)
<1>. USE DEF Opened, StillRead, StillFits, Decided
<1>1. CASE CreateStudent(p)
  <2>1. PICK s \in Students, g \in Groups \cup {None}, k \in Kinds \cup {None} :
          Request(p, [IdleTx EXCEPT !.op = "createStudent", !.student = s, !.group = g,
                                    !.kind = k, !.stage = IF g = None THEN "write" ELSE "lock"])
    BY <1>1 DEF CreateStudent
  <2>. DEFINE t == [IdleTx EXCEPT !.op = "createStudent", !.student = s, !.group = g,
                                  !.kind = k, !.stage = IF g = None THEN "write" ELSE "lock"]
  <2>2. Request(p, t)
    BY <2>1
  <2>3. t.op = "createStudent" /\ t.stage \in {"write", "lock"}
    BY DEF IdleTx
  <2>. HIDE DEF t
  <2>. QED  BY <2>1, <2>2, <2>3
<1>2. CASE AssignGroup(p)
  <2>1. PICK s \in Students, g \in Groups :
          /\ student[s].training \notin Terminal
          /\ Request(p, [IdleTx EXCEPT !.op = "assignGroup", !.student = s, !.group = g,
                                       !.was = student[s].group, !.stage = "enrolments"])
    BY <1>2 DEF AssignGroup
  <2>. DEFINE t == [IdleTx EXCEPT !.op = "assignGroup", !.student = s, !.group = g,
                                  !.was = student[s].group, !.stage = "enrolments"]
  <2>2. Request(p, t)
    BY <2>1
  <2>3. /\ t.op = "assignGroup" /\ t.stage = "enrolments" /\ t.student = s
        /\ t.was = student[s].group
    BY DEF IdleTx
  <2>. HIDE DEF t
  <2>. QED  BY <2>1, <2>2, <2>3
<1>3. CASE RemoveFromGroup(p)
  <2>1. PICK s \in Students, g \in Groups :
          Request(p, [IdleTx EXCEPT !.op = "removeFromGroup", !.student = s, !.group = g,
                                    !.was = student[s].group, !.stage = "check"])
    BY <1>3 DEF RemoveFromGroup
  <2>. DEFINE t == [IdleTx EXCEPT !.op = "removeFromGroup", !.student = s, !.group = g,
                                  !.was = student[s].group, !.stage = "check"]
  <2>2. Request(p, t)
    BY <2>1
  <2>3. /\ t.op = "removeFromGroup" /\ t.stage = "check" /\ t.student = s
        /\ t.was = student[s].group
    BY DEF IdleTx
  <2>. HIDE DEF t
  <2>. QED  BY <2>1, <2>2, <2>3
<1>4. CASE ChangeTraining(p)
  <2>1. PICK s \in Students, next \in TrainingStatus :
          /\ Exists(s) /\ next \in TrainingTransitions[student[s].training]
          /\ Request(p, [IdleTx EXCEPT !.op = "changeTraining", !.student = s,
                                       !.next = next, !.stage = "write"])
    BY <1>4 DEF ChangeTraining
  <2>. DEFINE t == [IdleTx EXCEPT !.op = "changeTraining", !.student = s,
                                  !.next = next, !.stage = "write"]
  <2>2. Request(p, t)
    BY <2>1
  <2>3. t.op = "changeTraining" /\ t.stage = "write" /\ t.student = s /\ t.next = next
    BY DEF IdleTx
  <2>4. next # "PRACTICE"
    <3>1. student[s].training \in TrainingStatus
      BY <2>1 DEF TypeOK, Exists, StudentRow
    <3>. QED  BY <2>1, <3>1 DEF TrainingTransitions, TrainingStatus
  <2>. HIDE DEF t
  <2>. QED  BY <2>1, <2>2, <2>3, <2>4
<1>5. CASE GrantPractice(p)
  <2>1. PICK s \in Students, i \in Instructors, c \in Cars :
          /\ student[s].training \in {"ACTIVE", "PRACTICE"} /\ car[c] # None
          /\ Request(p, [IdleTx EXCEPT !.op = "grantPractice", !.student = s, !.car = c,
                                       !.instructor = i, !.kind = student[s].kind, !.stage = "check"])
    BY <1>5 DEF GrantPractice, Eligible, ExistsCar
  <2>. DEFINE t == [IdleTx EXCEPT !.op = "grantPractice", !.student = s, !.car = c,
                                  !.instructor = i, !.kind = student[s].kind, !.stage = "check"]
  <2>2. Request(p, t)
    BY <2>1
  <2>3. /\ t.op = "grantPractice" /\ t.stage = "check" /\ t.student = s
        /\ t.kind = student[s].kind /\ t.car = c
    BY DEF IdleTx
  <2>. HIDE DEF t
  <2>. QED  BY <2>1, <2>2, <2>3
<1>6. CASE Archive(p)
  <2>1. PICK s \in Students :
          Request(p, [IdleTx EXCEPT !.op = "archive", !.student = s,
                                    !.next = "ARCHIVED", !.stage = "write"])
    BY <1>6 DEF Archive
  <2>. DEFINE t == [IdleTx EXCEPT !.op = "archive", !.student = s,
                                  !.next = "ARCHIVED", !.stage = "write"]
  <2>2. Request(p, t)
    BY <2>1
  <2>3. t.op = "archive" /\ t.stage = "write"
    BY DEF IdleTx
  <2>. HIDE DEF t
  <2>. QED  BY <2>1, <2>2, <2>3
<1>7. CASE UpdateStudent(p)
  <2>1. PICK s \in Students, k \in Kinds \cup {None} :
          Request(p, [IdleTx EXCEPT !.op = "updateStudent", !.student = s, !.kind = k,
                                    !.car = student[s].car,
                                    !.stage = IF student[s].car = None THEN "write" ELSE "check"])
    BY <1>7 DEF UpdateStudent
  <2>. DEFINE t == [IdleTx EXCEPT !.op = "updateStudent", !.student = s, !.kind = k,
                                  !.car = student[s].car,
                                  !.stage = IF student[s].car = None THEN "write" ELSE "check"]
  <2>2. Request(p, t)
    BY <2>1
  <2>3. /\ t.op = "updateStudent" /\ t.student = s /\ t.car = student[s].car
        /\ t.stage = IF student[s].car = None THEN "write" ELSE "check"
    BY DEF IdleTx
  <2>. HIDE DEF t
  <2>. QED  BY <2>1, <2>2, <2>3
<1>8. CASE CreateCar(p)
  <2>1. PICK c \in Cars, i \in ActiveInstructors, k \in Kinds :
          Request(p, [IdleTx EXCEPT !.op = "createCar", !.car = c, !.instructor = i,
                                    !.kind = k, !.stage = "write"])
    BY <1>8 DEF CreateCar
  <2>. DEFINE t == [IdleTx EXCEPT !.op = "createCar", !.car = c, !.instructor = i,
                                  !.kind = k, !.stage = "write"]
  <2>2. Request(p, t)
    BY <2>1
  <2>3. t.op = "createCar" /\ t.stage = "write"
    BY DEF IdleTx
  <2>. HIDE DEF t
  <2>. QED  BY <2>1, <2>2, <2>3
<1>9. CASE ChangeCar(p) \/ AssignInstructor(p)
  <2>1. PICK c \in Cars, i \in Instructors \cup {None} \cup {car[d].instructor : d \in Cars},
             k \in Kinds \cup {car[d].kind : d \in Cars} :
          ChangeColumns(p, c, i, k)
    BY <1>9 DEF ChangeCar, AssignInstructor, ActiveInstructors
  <2>. DEFINE changes == (IF i # car[c].instructor THEN {"instructor"} ELSE {})
                             \cup (IF k # car[c].kind THEN {"kind"} ELSE {})
              t == [IdleTx EXCEPT !.op = "changeCar", !.car = c, !.instructor = i,
                                  !.kind = k, !.changes = changes, !.stage = "check"]
  <2>2. Request(p, t)
    BY <2>1 DEF ChangeColumns
  <2>3. /\ "instructor" \notin changes => i = car[c].instructor
        /\ "kind" \notin changes => k = car[c].kind
    OBVIOUS
  <2>. HIDE DEF changes
  <2>4. /\ t.op = "changeCar" /\ t.stage = "check" /\ t.car = c
        /\ t.instructor = i /\ t.kind = k /\ t.changes = changes
    BY DEF IdleTx
  <2>. HIDE DEF t
  <2>. QED  BY <2>2, <2>3, <2>4
<1>10. CASE ChangeCarStatus(p)
  <2>1. PICK c \in Cars, next \in CarStatus :
          Request(p, [IdleTx EXCEPT !.op = "changeCarStatus", !.car = c,
                                    !.next = next, !.stage = "check"])
    BY <1>10 DEF ChangeCarStatus
  <2>. DEFINE t == [IdleTx EXCEPT !.op = "changeCarStatus", !.car = c,
                                  !.next = next, !.stage = "check"]
  <2>2. Request(p, t)
    BY <2>1
  <2>3. t.op = "changeCarStatus" /\ t.stage = "check"
    BY DEF IdleTx
  <2>. HIDE DEF t
  <2>. QED  BY <2>1, <2>2, <2>3
<1>11. CASE ChangeGroupStatus(p)
  <2>1. PICK g \in Groups, next \in GroupStatus :
          Request(p, [IdleTx EXCEPT !.op = "changeGroupStatus", !.group = g,
                                    !.next = next, !.stage = "lock"])
    BY <1>11 DEF ChangeGroupStatus
  <2>. DEFINE t == [IdleTx EXCEPT !.op = "changeGroupStatus", !.group = g,
                                  !.next = next, !.stage = "lock"]
  <2>2. Request(p, t)
    BY <2>1
  <2>3. t.op = "changeGroupStatus" /\ t.stage = "lock"
    BY DEF IdleTx
  <2>. HIDE DEF t
  <2>. QED  BY <2>1, <2>2, <2>3
<1>. QED
  BY <1>1, <1>2, <1>3, <1>4, <1>5, <1>6, <1>7, <1>8, <1>9,
     <1>10, <1>11 DEF Begin, ChangeRoster

\* The request u is t at another stage, with its checks passed before it writes.
Advanced(t, u) ==
  /\ u.op = t.op /\ u.student = t.student /\ u.group = t.group /\ u.car = t.car
  /\ u.next = t.next /\ u.was = t.was /\ u.instructor = t.instructor
  /\ u.kind = t.kind /\ u.changes = t.changes
  /\ u.stage # "idle"
  /\ u.stage = "write" => Passes(t)

\* What the steps of a client do that write nothing.
LEMMA ClientMoves ==
  ASSUME TypeOK, NEW p \in Clients,
         Begin(p) \/ CheckEnrolments(p) \/ LockGroup(p) \/ Check(p) \/ Abort(p)
  PROVE  \E u \in Tx : /\ tx' = [tx EXCEPT ![p] = u]
                       /\ UNCHANGED data
                       /\ \/ u = IdleTx /\ overtaken' = overtaken \ {p}
                          \/ Opened(u) /\ UNCHANGED overtaken
                          \/ Advanced(tx[p], u) /\ UNCHANGED overtaken
<1>. DEFINE t == tx[p]
<1>1. t \in Tx
  BY DEF TypeOK
<1>2. ASSUME NEW stage \in Stages \ {"idle"}, NEW lock \in {"none", "share", "update"},
             stage = "write" => Passes(t)
      PROVE  LET u == [t EXCEPT !.lock = lock, !.stage = stage] IN u \in Tx /\ Advanced(t, u)
  <2>. DEFINE u == [t EXCEPT !.lock = lock, !.stage = stage]
  <2>1. u \in Tx
    BY <1>1 DEF Tx
  <2>2. /\ u.op = t.op /\ u.student = t.student /\ u.group = t.group /\ u.car = t.car
        /\ u.next = t.next /\ u.was = t.was /\ u.instructor = t.instructor
        /\ u.kind = t.kind /\ u.changes = t.changes /\ u.stage = stage
    BY <1>1 DEF Tx
  <2>. HIDE DEF u, t
  <2>3. Advanced(t, u)
    BY <1>2, <2>2 DEF Advanced
  <2>. QED  BY <2>1, <2>3 DEF u
<1>3. ASSUME NEW stage \in Stages \ {"idle"}, stage = "write" => Passes(t), Goto(p, stage)
      PROVE  /\ UNCHANGED overtaken
             /\ \E u \in Tx : tx' = [tx EXCEPT ![p] = u] /\ Advanced(t, u)
  <2>. DEFINE u == [t EXCEPT !.lock = t.lock, !.stage = stage]
  <2>1. u = [t EXCEPT !.stage = stage] /\ t.lock \in {"none", "share", "update"}
    BY <1>1 DEF Tx
  <2>2. tx' = [tx EXCEPT ![p] = u] /\ UNCHANGED overtaken
    BY <1>3, <2>1 DEF Goto
  <2>3. u \in Tx /\ Advanced(t, u)
    BY <1>2, <1>3, <2>1
  <2>. QED  BY <2>2, <2>3
<1>4. CASE EndTx(p) /\ UNCHANGED data
  BY <1>4, IdleIsTyped DEF EndTx, Finish
<1>5. CASE Begin(p)
  <2>1. PICK u \in Tx : tx' = [tx EXCEPT ![p] = u] /\ UNCHANGED <<data, overtaken>>
    BY <1>5, BeginIsRequest DEF data
  <2>2. PICK v : Request(p, v) /\ Opened(v)
    BY <1>5, BeginReads
  <2>3. u = v
    <3>1. tx' = [tx EXCEPT ![p] = v]
      BY <2>2 DEF Request
    <3>2. tx'[p] = v /\ tx'[p] = u
      BY <2>1, <3>1 DEF TypeOK
    <3>. QED  BY <3>2
  <2>. QED  BY <2>1, <2>2, <2>3
<1>6. CASE CheckEnrolments(p) /\ Goto(p, "lock")
  BY <1>3, <1>6 DEF CheckEnrolments, Stages
<1>7. CASE LockGroup(p)
  <2>. DEFINE u == [t EXCEPT !.lock = LockMode(t.op), !.stage = "check"]
  <2>1. tx' = [tx EXCEPT ![p] = u] /\ UNCHANGED data /\ UNCHANGED overtaken
    BY <1>7 DEF LockGroup
  <2>2. LockMode(t.op) \in {"none", "share", "update"} /\ "check" \in Stages \ {"idle"}
    BY DEF LockMode, Stages
  <2>3. u \in Tx /\ Advanced(t, u)
    BY <1>2, <2>2
  <2>. QED  BY <2>1, <2>3
<1>8. CASE Check(p) /\ Passes(t) /\ Goto(p, "write")
  BY <1>3, <1>8 DEF Check, Stages
<1>. QED
  BY <1>4, <1>5, <1>6, <1>7, <1>8 DEF CheckEnrolments, Check, Abort

\* A step that writes nothing leaves everybody what they have read.
LEMMA MovesKeepReads ==
  ASSUME RaceInv, IInv', NEW p \in Clients,
         Begin(p) \/ CheckEnrolments(p) \/ LockGroup(p) \/ Check(p) \/ Abort(p)
  PROVE  RaceInv'
<1>1. TypeOK /\ tx[p] \in Tx
  BY DEF RaceInv, IInv, TypeOK
<1>2. PICK u \in Tx : /\ tx' = [tx EXCEPT ![p] = u]
                      /\ UNCHANGED data
                      /\ \/ u = IdleTx /\ overtaken' = overtaken \ {p}
                         \/ Opened(u) /\ UNCHANGED overtaken
                         \/ Advanced(tx[p], u) /\ UNCHANGED overtaken
  BY <1>1, ClientMoves
<1>3. \A q \in Clients : tx'[q] = IF q = p THEN u ELSE tx[q]
  BY <1>1, <1>2 DEF TypeOK
<1>4. /\ Decided(u, group)
      /\ u.stage = "write" /\ u.op = "changeGroupStatus" =>
           u.next \in GroupTransitions[group[u.group]]
  <2>1. CASE u = IdleTx
    BY <2>1 DEF IdleTx, Decided
  <2>2. CASE Opened(u)
    BY <2>2 DEF Opened
  <2>3. CASE Advanced(tx[p], u)
    <3>1. Decided(tx[p], group)
      BY DEF RaceInv, DecidedInv
    <3>2. u.op = "assignGroup" /\ u.stage = "write" => MayJoin(tx[p])
      BY <2>3 DEF Advanced, Passes
    <3>3. u.op = "changeGroupStatus" /\ u.stage = "write" =>
            tx[p].next \in GroupTransitions[group[tx[p].group]]
      BY <2>3 DEF Advanced, Passes
    <3>. QED  BY <2>3, <3>1, <3>2, <3>3 DEF Advanced, Decided, MayJoin, IsOpenGroup
  <2>. QED  BY <1>2, <2>1, <2>2, <2>3
<1>5. ASSUME p \notin overtaken'
      PROVE  /\ StillRead(u, student[u.student], enrolment[u.student], group)
             /\ StillFits(u, car, student)
  <2>1. CASE u = IdleTx
    BY <2>1 DEF IdleTx, StillRead, StillFits
  <2>2. CASE Opened(u)
    BY <2>2 DEF Opened
  <2>3. CASE Advanced(tx[p], u) /\ UNCHANGED overtaken
    <3>. DEFINE t == tx[p]
    <3>1. /\ StillRead(t, student[t.student], enrolment[t.student], group)
          /\ StillFits(t, car, student)
      BY <1>5, <2>3 DEF RaceInv, ReadInv
    <3>2. u.stage = "write" => Passes(t)
      BY <2>3 DEF Advanced
    <3>3. u.op = "assignGroup" /\ u.stage = "write" => MayJoin(t)
      BY <2>3, <3>2 DEF Advanced, Passes
    <3>4. StillRead(u, student[u.student], enrolment[u.student], group)
      BY <2>3, <3>1, <3>3 DEF Advanced, StillRead, MayJoin, IsOpenGroup
    <3>5. /\ u.op = "grantPractice" /\ u.stage = "write" => CarFree(t)
          /\ u.op = "updateStudent" /\ u.stage = "write" => car[t.car].kind = t.kind
          /\ u.op = "changeCar" /\ u.stage = "write" => StillMatches(t)
          /\ u.op = "changeCarStatus" /\ u.stage = "write" => MayChangeCarStatus(t)
      BY <2>3, <3>2 DEF Advanced, Passes
    <3>6. StillFits(u, car, student)
      BY <2>3, <3>1, <3>5
      DEF Advanced, StillFits, CarFree, StillMatches, MayChangeCarStatus, Drivers, Exists
    <3>. QED  BY <3>4, <3>6
  <2>. QED  BY <1>2, <2>1, <2>2, <2>3
<1>6. TransitionInv'
  BY <1>2, <1>3, <1>4 DEF RaceInv, TransitionInv, Writing, data
<1>7. DecidedInv'
  BY <1>2, <1>3, <1>4 DEF RaceInv, DecidedInv, data
<1>8. \A q \in Clients \ {p} : q \in overtaken' <=> q \in overtaken
  BY <1>2
<1>9. ReadInv'
  BY <1>2, <1>3, <1>5, <1>8 DEF RaceInv, ReadInv, data
<1>. QED
  BY <1>6, <1>7, <1>9 DEF RaceInv

\* The requests that write rows of one student, and those that write none.
LEMMA WritesOfStudents ==
  ASSUME TypeOK, NEW p \in Clients, Write(p), NEW s \in Students
  PROVE  \/ UNCHANGED <<student, enrolment, group>>
         \/ WriteGroupStatus(p)
         \/ /\ tx[p].op \in StudentOps /\ tx[p].student \in Students
            /\ UNCHANGED <<group, car>>
            /\ s # tx[p].student => student'[s] = student[s] /\ enrolment'[s] = enrolment[s]
<1>. DEFINE t == tx[p]
<1>1. WellFormed(t)
  BY DEF TypeOK, RequestsOK
<1>2. ASSUME NEW op \in StudentOps, Writing(p, op) PROVE t.op \in StudentOps /\ t.student \in Students
  BY <1>1, <1>2 DEF Writing, WellFormed
<1>3. StudentOps = {"createStudent", "assignGroup", "removeFromGroup", "changeTraining",
                    "grantPractice", "archive", "updateStudent"}
  BY DEF StudentOps
<1>4. CASE WriteCreateStudent(p)
  BY <1>2, <1>3, <1>4 DEF WriteCreateStudent, data, TypeOK
<1>5. CASE WriteAssignGroup(p)
  BY <1>2, <1>3, <1>5 DEF WriteAssignGroup, TypeOK
<1>6. CASE WriteRemove(p)
  BY <1>2, <1>3, <1>6 DEF WriteRemove, TypeOK
<1>7. CASE WriteTraining(p)
  BY <1>2, <1>3, <1>7 DEF WriteTraining, Close, TypeOK
<1>8. CASE WriteGrant(p)
  BY <1>2, <1>3, <1>8 DEF WriteGrant, TypeOK
<1>9. CASE WriteArchive(p)
  BY <1>2, <1>3, <1>9 DEF WriteArchive, Close, TypeOK
<1>10. CASE WriteStudent(p)
  BY <1>2, <1>3, <1>10 DEF WriteStudent, TypeOK
<1>11. CASE WriteCreateCar(p) \/ WriteCar(p) \/ WriteCarStatus(p)
  BY <1>11 DEF WriteCreateCar, WriteCar, WriteCarStatus
<1>. QED
  BY <1>4, <1>5, <1>6, <1>7, <1>8, <1>9, <1>10, <1>11 DEF Write

\* No write opens a closed group.
LEMMA ClosedStays ==
  ASSUME RaceInv, NEW p \in Clients, Write(p), NEW g \in Groups, IsOpenStatus(group'[g])
  PROVE  IsOpenStatus(group[g])
<1>1. TypeOK
  BY DEF RaceInv, IInv
<1>2. CASE group'[g] = group[g]
  BY <1>2
<1>3. CASE group'[g] # group[g]
  <2>1. Writing(p, "changeGroupStatus") /\ tx[p].group = g
    BY <1>1, <1>3, WriteCloses
  <2>2. WriteGroupStatus(p)
    BY <2>1 DEF Write, Writing, WriteCreateStudent, WriteAssignGroup, WriteRemove, WriteTraining,
                WriteGrant, WriteArchive, WriteStudent, WriteCreateCar, WriteCar, WriteCarStatus
  <2>3. group'[g] = tx[p].next
    BY <1>1, <2>1, <2>2 DEF WriteGroupStatus, TypeOK
  <2>4. tx[p].next \in GroupTransitions[group[g]] /\ group[g] \in GroupStatus
    BY <1>1, <2>1 DEF RaceInv, TransitionInv, TypeOK
  <2>. QED
    BY <2>3, <2>4 DEF GroupTransitions, GroupStatus, IsOpenStatus
<1>. QED  BY <1>2, <1>3

\* A write that closes or opens a group leaves students and cars alone, and whoever
\* commits anything else marks the requests that read what is written.
LEMMA WhoOvertakes ==
  ASSUME NEW p \in Clients, Write(p)
  PROVE  \/ WriteGroupStatus(p) /\ UNCHANGED <<student, car>> /\ overtaken' = overtaken \ {p}
         \/ UNCHANGED group /\ Commit(p)
BY DEF Write, WriteCreateStudent, WriteAssignGroup, WriteRemove, WriteTraining, WriteGrant,
       WriteArchive, WriteStudent, WriteCreateCar, WriteCar, WriteCarStatus,
       WriteGroupStatus, EndTx, data

\* What the request of q has read is the same after the commit of another request
\* that does not overtake it.
LEMMA NotRewritten ==
  ASSUME TypeOK, NEW q \in Clients, tx'[q] = tx[q], ~Rewritten(q)
  PROVE  /\ tx[q].op \in StudentOps =>
              student'[tx[q].student] = student[tx[q].student]
              /\ enrolment'[tx[q].student] = enrolment[tx[q].student]
         /\ tx[q].car # None => car'[tx[q].car] = car[tx[q].car]
         /\ tx[q].op \in {"changeCar", "changeCarStatus"} =>
              \A s \in Students : student'[s] # None /\ student'[s].car = tx[q].car =>
                student'[s] = student[s]
<1>1. WellFormed(tx[q])
  BY DEF TypeOK, RequestsOK
<1>2. tx[q].op \in StudentOps => tx[q].student \in Students
  BY <1>1 DEF WellFormed
<1>3. \A s \in Students : s = tx[q].student => Reads(tx[q], s)
  BY DEF Reads
<1>4. \A s \in Students :
        tx[q].op \in {"changeCar", "changeCarStatus"} /\ student'[s] # None
          /\ student'[s].car = tx[q].car => Reads(tx[q], s)'
  BY DEF Reads, Exists
<1>. QED
  BY <1>2, <1>3, <1>4 DEF Rewritten

\* A write leaves every other request what it has decided, and what it has read,
\* unless it overtakes it.
LEMMA OthersKnow ==
  ASSUME RaceInv, NEW p \in Clients, Write(p), NEW q \in Clients, q # p
  PROVE  /\ tx'[q] = tx[q]
         /\ Decided(tx[q], group')
         /\ Writing(q, "changeGroupStatus") =>
              tx[q].next \in GroupTransitions[group'[tx[q].group]]
         /\ q \notin overtaken' =>
              /\ StillRead(tx[q], student'[tx[q].student], enrolment'[tx[q].student], group')
              /\ StillFits(tx[q], car', student')
<1>. DEFINE t == tx[q]
            s == t.student
<1>1. /\ TypeOK /\ t \in Tx /\ WellFormed(t) /\ Decided(t, group)
  BY DEF RaceInv, DecidedInv, IInv, TypeOK, RequestsOK
<1>2. tx'[q] = t
  BY <1>1, WriteEnds DEF Finish, TypeOK
<1>3. \A g \in Groups : IsOpenStatus(group'[g]) => IsOpenStatus(group[g])
  BY ClosedStays
<1>4. t.was \notin {None, t.group} => t.was \in Groups
  BY <1>1 DEF Tx
<1>5. Decided(t, group')
  BY <1>1, <1>3, <1>4 DEF Decided
<1>6. ASSUME Writing(q, "changeGroupStatus")
      PROVE  t.next \in GroupTransitions[group'[t.group]]
  <2>1. t.group \in Groups /\ t.lock = "update"
    BY <1>1, <1>6 DEF WellFormed, Writing, RaceInv, IInv, LockInv, Locked
  <2>2. group'[t.group] = group[t.group]
    <3>1. SUFFICES ASSUME group'[t.group] # group[t.group] PROVE FALSE
      OBVIOUS
    <3>2. Writing(p, "changeGroupStatus") /\ tx[p].group = t.group
      BY <1>1, <2>1, <3>1, WriteCloses
    <3>3. tx[p].lock = "update"
      BY <3>2 DEF RaceInv, IInv, LockInv, Locked, Writing
    <3>. QED
      BY <2>1, <3>2, <3>3 DEF RaceInv, IInv, ExclusiveInv
  <2>. QED
    BY <1>6, <2>2 DEF RaceInv, TransitionInv
<1>7. ASSUME q \notin overtaken'
      PROVE  /\ StillRead(t, student'[s], enrolment'[s], group')
             /\ StillFits(t, car', student')
  <2>1. q \notin overtaken
    BY <1>7, WhoOvertakes DEF Commit
  <2>2. StillRead(t, student[s], enrolment[s], group) /\ StillFits(t, car, student)
    BY <2>1 DEF RaceInv, ReadInv
  <2>3. CASE UNCHANGED group /\ Commit(p)
    <3>1. ~Rewritten(q)
      BY <1>7, <2>3 DEF Commit
    <3>2. /\ t.op \in StudentOps => student'[s] = student[s] /\ enrolment'[s] = enrolment[s]
          /\ t.car # None => car'[t.car] = car[t.car]
          /\ t.op \in {"changeCar", "changeCarStatus"} =>
               \A x \in Students : student'[x] # None /\ student'[x].car = t.car =>
                 student'[x] = student[x]
      BY <1>1, <1>2, <3>1, NotRewritten
    <3>3. {"assignGroup", "removeFromGroup", "changeTraining", "grantPractice", "updateStudent"}
            \subseteq StudentOps
      BY DEF StudentOps
    <3>4. t.op \in {"grantPractice", "changeCar", "changeCarStatus"} => t.car # None
      BY <1>1, RecordsAssumption DEF WellFormed
    <3>. HIDE DEF t, s
    <3>5. StillRead(t, student'[s], enrolment'[s], group')
      BY <2>2, <2>3, <3>2, <3>3 DEF StillRead
    <3>6. StillFits(t, car', student')
      BY <2>2, <3>2, <3>4 DEF StillFits
    <3>. QED  BY <3>5, <3>6
  <2>4. CASE WriteGroupStatus(p) /\ UNCHANGED <<student, car>>
    <3>1. \A g \in Groups : enrolment'[s][g] = "ACTIVE" /\ s \in Students => enrolment[s][g] = "ACTIVE"
      BY <1>1, <2>4 DEF WriteGroupStatus, TypeOK
    <3>2. t.op = "assignGroup" => s \in Students
      BY <1>1 DEF WellFormed, StudentOps
    <3>. HIDE DEF t, s
    <3>3. StillRead(t, student'[s], enrolment'[s], group')
      BY <1>3, <2>2, <2>4, <3>1, <3>2 DEF StillRead
    <3>. QED  BY <2>2, <2>4, <3>3
  <2>. QED
    BY <2>3, <2>4, WhoOvertakes
<1>. QED
  BY <1>2, <1>5, <1>6, <1>7

\* Nobody who is idle has anything to know.
LEMMA IdleKnowsAll ==
  \A row, places, status, cars, rows :
    Decided(IdleTx, status) /\ StillRead(IdleTx, row, places, status) /\ StillFits(IdleTx, cars, rows)
BY DEF IdleTx, Decided, StillRead, StillFits

LEMMA WritesKeepReads ==
  ASSUME RaceInv, IInv', NEW p \in Clients, Write(p)
  PROVE  RaceInv'
<1>1. tx'[p] = IdleTx
  BY WriteEnds DEF Finish, RaceInv, IInv, TypeOK
<1>2. TransitionInv'
  <2>. SUFFICES ASSUME NEW q \in Clients, Writing(q, "changeGroupStatus")'
                PROVE  tx'[q].next \in GroupTransitions[group'[tx'[q].group]]
    BY DEF TransitionInv
  <2>1. q # p
    BY <1>1 DEF Writing, IdleTx
  <2>. QED
    BY <2>1, OthersKnow DEF Writing
<1>3. DecidedInv'
  BY <1>1, OthersKnow, IdleKnowsAll DEF DecidedInv
<1>4. ReadInv'
  <2>. SUFFICES ASSUME NEW q \in Clients, q \notin overtaken'
                PROVE  /\ StillRead(tx'[q], student'[tx'[q].student], enrolment'[tx'[q].student], group')
                       /\ StillFits(tx'[q], car', student')
    BY DEF ReadInv
  <2>1. CASE q = p
    BY <1>1, <2>1, IdleKnowsAll
  <2>2. CASE q # p
    BY <2>2, OthersKnow
  <2>. QED  BY <2>1, <2>2
<1>. QED
  BY <1>2, <1>3, <1>4 DEF RaceInv

\* The columns that requests decide by, the status of the account left out.
SameRow(row, new) ==
  /\ row = None <=> new = None
  /\ row # None => /\ new.training = row.training /\ new.group = row.group
                   /\ new.car = row.car /\ new.instructor = row.instructor
                   /\ new.kind = row.kind

\* A change of an account changes none of them.
LEMMA AccountsChange ==
  ASSUME TypeOK, NEW s \in Students, ChangeAccount(s), NEW x \in Students
  PROVE  SameRow(student[x], student'[x])
<1>1. PICK next \in AccountMoves[student[s].account] :
        student' = [student EXCEPT ![s] = [student[s] EXCEPT !.account = next]]
  BY DEF ChangeAccount
<1>2. student[s] \in StudentRow
  BY DEF TypeOK, ChangeAccount, Exists
<1>. DEFINE new == [student[s] EXCEPT !.account = next]
<1>3. next \in AccountStatus
  BY <1>1, <1>2 DEF StudentRow, AccountStatus, AccountMoves
<1>4. new \in StudentRow
  BY <1>2, <1>3 DEF StudentRow
<1>5. /\ new.training = student[s].training /\ new.group = student[s].group
      /\ new.car = student[s].car /\ new.instructor = student[s].instructor
      /\ new.kind = student[s].kind
  BY <1>2 DEF StudentRow
<1>6. student'[x] = IF x = s THEN new ELSE student[x]
  BY <1>1 DEF TypeOK
<1>. HIDE DEF new
<1>. QED
  BY <1>2, <1>4, <1>5, <1>6, NoRowAssumption DEF SameRow

LEMMA AccountsKeepReads ==
  ASSUME RaceInv, IInv', NEW s \in Students, ChangeAccount(s)
  PROVE  RaceInv'
<1>1. TypeOK /\ UNCHANGED <<enrolment, group, car, tx, overtaken>>
  BY DEF RaceInv, IInv, ChangeAccount
<1>2. \A x \in Students : SameRow(student[x], student'[x])
  BY <1>1, AccountsChange
<1>3. ASSUME NEW q \in Clients \ overtaken
      PROVE  /\ StillRead(tx[q], student'[tx[q].student], enrolment[tx[q].student], group)
             /\ StillFits(tx[q], car, student')
  <2>. DEFINE t == tx[q]
  <2>1. /\ StillRead(t, student[t.student], enrolment[t.student], group)
        /\ StillFits(t, car, student) /\ WellFormed(t)
    BY <1>1 DEF RaceInv, ReadInv, TypeOK, RequestsOK
  <2>2. t.op \in {"assignGroup", "removeFromGroup", "changeTraining", "grantPractice",
                  "updateStudent"} =>
          t.student \in Students /\ student[t.student] # None
    BY <2>1 DEF WellFormed, StudentOps, Exists
  <2>. HIDE DEF t
  <2>3. StillRead(t, student'[t.student], enrolment[t.student], group)
    BY <1>2, <2>1, <2>2 DEF StillRead, SameRow
  <2>4. StillFits(t, car, student')
    BY <1>2, <2>1 DEF StillFits, SameRow
  <2>. QED  BY <2>3, <2>4 DEF t
<1>4. ReadInv'
  BY <1>1, <1>3 DEF ReadInv
<1>5. TransitionInv' /\ DecidedInv'
  BY <1>1 DEF RaceInv, TransitionInv, DecidedInv, Writing
<1>. QED
  BY <1>4, <1>5 DEF RaceInv

\* The invariant holds at first and after every step.
LEMMA RaceInvHolds == (Init => RaceInv) /\ (RaceInv /\ [Next]_vars => RaceInv')
<1>1. ASSUME Init PROVE RaceInv
  <2>1. \A q \in Clients : tx[q] = IdleTx
    BY <1>1 DEF Init
  <2>2. TransitionInv
    BY <2>1 DEF TransitionInv, Writing, IdleTx
  <2>3. DecidedInv /\ ReadInv
    BY <2>1, IdleKnowsAll DEF DecidedInv, ReadInv
  <2>. QED
    BY <1>1, <2>2, <2>3, InvariantHolds DEF RaceInv
<1>2. ASSUME RaceInv, [Next]_vars PROVE RaceInv'
  <2>1. IInv'
    BY <1>2, InvariantHolds DEF RaceInv
  <2>2. CASE UNCHANGED <<data, tx, overtaken>>
    BY <1>2, <2>1, <2>2
    DEF RaceInv, TransitionInv, DecidedInv, ReadInv, Writing, data
  <2>3. ASSUME NEW p \in Clients, Write(p) PROVE RaceInv'
    BY <1>2, <2>1, <2>3, WritesKeepReads
  <2>4. ASSUME NEW p \in Clients,
               Begin(p) \/ CheckEnrolments(p) \/ LockGroup(p) \/ Check(p) \/ Abort(p)
        PROVE  RaceInv'
    BY <1>2, <2>1, <2>4, MovesKeepReads
  <2>5. ASSUME NEW s \in Students, ChangeAccount(s) PROVE RaceInv'
    BY <1>2, <2>1, <2>5, AccountsKeepReads
  <2>. QED
    BY <1>2, <2>2, <2>3, <2>4, <2>5 DEF Next, vars, data, ChangeInstructor
<1>. QED
  BY <1>1, <1>2

-----------------------------------------------------------------------------
(* What a step may do to a student *)

\* What the write of t makes of the row and the places of its own student.
OwnWrite(t, row, places, new, plc) ==
  \/ new = row /\ plc = places
  \/ /\ t.op = "createStudent"
     /\ new # None /\ new.training = "INVITED" /\ new.group = t.group
     /\ \A g \in Groups : plc[g] = IF g = t.group THEN "ACTIVE" ELSE "none"
  \/ /\ t.op = "assignGroup"
     /\ row # None /\ new # None
     /\ new.training = row.training /\ new.group = t.group
     /\ new.car = row.car /\ new.instructor = row.instructor /\ new.kind = row.kind
     /\ \A g \in Groups : plc[g] = IF g = t.group THEN "ACTIVE"
                                   ELSE IF g = t.was /\ places[g] = "ACTIVE" THEN "COMPLETED"
                                   ELSE places[g]
  \/ /\ t.op = "removeFromGroup"
     /\ row # None /\ new # None
     /\ new.training = row.training
     /\ new.group = IF t.was = t.group THEN None ELSE row.group
     /\ new.car = row.car /\ new.instructor = row.instructor /\ new.kind = row.kind
     /\ \A g \in Groups : plc[g] = IF g = t.group THEN "none" ELSE places[g]
  \/ /\ \/ t.op = "changeTraining" /\ new.training = t.next
        \/ t.op = "archive" /\ new.training = "ARCHIVED"
     /\ row # None /\ new # None
     /\ new.training \in TrainingStatus /\ new.group = row.group
     /\ \A g \in Groups : plc[g] = IF places[g] = "ACTIVE"
                                   THEN EnrolmentStatusFor(new.training) ELSE places[g]
  \/ /\ t.op = "grantPractice"
     /\ row # None /\ new # None
     /\ new.training = "PRACTICE" /\ new.group = row.group /\ plc = places
     /\ new.car = t.car /\ new.instructor = t.instructor /\ new.kind = row.kind
  \/ /\ t.op = "updateStudent"
     /\ row # None /\ new # None
     /\ new.training = row.training /\ new.group = row.group /\ plc = places
     /\ new.car = row.car /\ new.instructor = row.instructor /\ new.kind = t.kind

LEMMA OwnRows ==
  ASSUME TypeOK, NEW p \in Clients, Write(p), NEW s \in Students,
         tx[p].op \in StudentOps, s = tx[p].student
  PROVE  /\ OwnWrite(tx[p], student[s], enrolment[s], student'[s], enrolment'[s])
         /\ UNCHANGED <<group, car>>
<1>. DEFINE t == tx[p]
            row == student[s]
            places == enrolment[s]
<1>1. /\ t \in Tx /\ WellFormed(t) /\ t.stage = "write" /\ None \notin Groups
  BY WriteEnds, RecordsAssumption DEF TypeOK, RequestsOK
<1>2. row # None => row \in StudentRow
  BY DEF TypeOK
<1>3. t.op # "createStudent" => row # None
  BY <1>1 DEF WellFormed, Exists
<1>12. row # None => student'[s] # None
  BY WriteKeepsRows DEF Exists
<1>4. CASE WriteCreateStudent(p)
  <2>1. CASE UNCHANGED data
    BY <2>1 DEF data, OwnWrite
  <2>2. CASE ~UNCHANGED data
    <3>. DEFINE new == [account |-> "INVITED", training |-> "INVITED", group |-> t.group,
                        instructor |-> None, car |-> None, kind |-> t.kind]
                plc == [g \in Groups |-> IF g = t.group THEN "ACTIVE" ELSE "none"]
    <3>1. student'[s] = new /\ enrolment'[s] = plc /\ UNCHANGED <<group, car>>
          /\ t.op = "createStudent"
      BY <1>4, <2>2 DEF WriteCreateStudent, TypeOK, Writing
    <3>2. new \in StudentRow /\ new.training = "INVITED" /\ new.group = t.group
      BY <1>1 DEF StudentRow, AccountStatus, TrainingStatus, Tx
    <3>3. \A g \in Groups : plc[g] = IF g = t.group THEN "ACTIVE" ELSE "none"
      OBVIOUS
    <3>. HIDE DEF new, plc, t, row, places
    <3>4. OwnWrite(t, row, places, new, plc)
      BY <3>1, <3>2, <3>3, NoRowAssumption DEF OwnWrite
    <3>. QED
      BY <3>1, <3>4 DEF t, row, places
  <2>. QED  BY <2>1, <2>2
<1>5. CASE WriteAssignGroup(p)
  <2>. DEFINE new == [row EXCEPT !.group = t.group]
              plc == [h \in Groups |->
                        IF h = t.group THEN "ACTIVE"
                        ELSE IF h = t.was /\ places[h] = "ACTIVE" THEN "COMPLETED"
                        ELSE places[h]]
  <2>1. student'[s] = new /\ enrolment'[s] = plc /\ t.op = "assignGroup" /\ UNCHANGED <<group, car>>
    BY <1>1, <1>5 DEF WriteAssignGroup, TypeOK, Writing
  <2>2. row # None /\ row \in StudentRow /\ new # None
    BY <1>2, <1>3, <1>12, <2>1
  <2>3. /\ new.training = row.training /\ new.group = t.group
        /\ new.car = row.car /\ new.instructor = row.instructor /\ new.kind = row.kind
    BY <2>2 DEF StudentRow
  <2>4. \A h \in Groups : plc[h] = IF h = t.group THEN "ACTIVE"
                                   ELSE IF h = t.was /\ places[h] = "ACTIVE" THEN "COMPLETED"
                                   ELSE places[h]
    OBVIOUS
  <2>. HIDE DEF new, plc, t, row, places
  <2>5. OwnWrite(t, row, places, new, plc)
    BY <2>1, <2>2, <2>3, <2>4 DEF OwnWrite
  <2>. QED  BY <2>1, <2>5 DEF t, row, places
<1>6. CASE WriteRemove(p)
  <2>1. CASE UNCHANGED <<student, enrolment>>
    BY <1>6, <2>1 DEF OwnWrite, WriteRemove
  <2>2. CASE ~UNCHANGED <<student, enrolment>>
    <3>. DEFINE new == [row EXCEPT !.group = IF t.was = t.group THEN None ELSE @]
                plc == [places EXCEPT ![t.group] = "none"]
    <3>1. /\ student'[s] = new /\ enrolment'[s] = plc /\ t.op = "removeFromGroup"
          /\ t.group \in Groups /\ UNCHANGED <<group, car>>
      BY <1>1, <1>6, <2>2 DEF WriteRemove, TypeOK, Writing, WellFormed
    <3>2. row # None /\ row \in StudentRow /\ new # None
      BY <1>2, <1>3, <1>12, <3>1
    <3>3. /\ new.training = row.training
          /\ new.group = IF t.was = t.group THEN None ELSE row.group
          /\ new.car = row.car /\ new.instructor = row.instructor /\ new.kind = row.kind
      BY <3>2 DEF StudentRow
    <3>4. \A h \in Groups : plc[h] = IF h = t.group THEN "none" ELSE places[h]
      BY <3>1 DEF TypeOK
    <3>. HIDE DEF new, plc, t, row, places
    <3>5. OwnWrite(t, row, places, new, plc)
      BY <3>1, <3>2, <3>3, <3>4 DEF OwnWrite
    <3>. QED  BY <3>1, <3>5 DEF t, row, places
  <2>. QED  BY <2>1, <2>2
<1>7. CASE WriteTraining(p) \/ WriteArchive(p)
  <2>. DEFINE next == IF t.op = "archive" THEN "ARCHIVED" ELSE t.next
  <2>1. t.op \in {"changeTraining", "archive"} /\ next \in TrainingStatus
    BY <1>1, <1>7 DEF WriteTraining, WriteArchive, Writing, WellFormed, TrainingStatus
  <2>2. PICK account : student' = [student EXCEPT ![s] =
                          [row EXCEPT !.account = account, !.training = next]]
    <3>1. CASE WriteTraining(p)
      <4>1. row \in StudentRow /\ t.op = "changeTraining"
        BY <1>2, <1>3, <3>1 DEF WriteTraining, Writing
      <4>2. [row EXCEPT !.account = row.account, !.training = next] = [row EXCEPT !.training = next]
        BY <4>1 DEF StudentRow
      <4>. QED  BY <3>1, <4>1, <4>2 DEF WriteTraining
    <3>2. CASE WriteArchive(p)
      <4>1. student' = [student EXCEPT ![s] =
                          [row EXCEPT !.account = "ARCHIVED", !.training = next]]
        BY <3>2 DEF WriteArchive, Writing
      <4>. QED  BY <4>1
    <3>. QED  BY <1>7, <3>1, <3>2
  <2>3. enrolment' = Close(s, EnrolmentStatusFor(next)) /\ UNCHANGED <<group, car>>
    BY <1>7 DEF WriteTraining, WriteArchive, Writing
  <2>. DEFINE new == [row EXCEPT !.account = account, !.training = next]
              plc == [g \in Groups |-> IF places[g] = "ACTIVE" THEN EnrolmentStatusFor(next)
                                       ELSE places[g]]
  <2>4. student'[s] = new /\ enrolment'[s] = plc
    BY <2>2, <2>3 DEF TypeOK, Close
  <2>5. row # None /\ row \in StudentRow /\ new # None
    BY <1>2, <1>3, <1>12, <2>1, <2>4
  <2>6. new.training = next /\ new.group = row.group
    BY <2>5 DEF StudentRow
  <2>7. \A g \in Groups : plc[g] = IF places[g] = "ACTIVE" THEN EnrolmentStatusFor(next)
                                   ELSE places[g]
    OBVIOUS
  <2>8. t.op = "archive" => next = "ARCHIVED"
    OBVIOUS
  <2>9. t.op = "changeTraining" => next = t.next
    OBVIOUS
  <2>. HIDE DEF new, plc, t, row, places, next
  <2>10. OwnWrite(t, row, places, new, plc)
    BY <2>1, <2>5, <2>6, <2>7, <2>8, <2>9 DEF OwnWrite
  <2>. QED  BY <2>3, <2>4, <2>10 DEF t, row, places
<1>8. CASE WriteGrant(p)
  <2>. DEFINE new == [row EXCEPT !.instructor = t.instructor, !.car = t.car,
                                 !.training = "PRACTICE"]
  <2>1. /\ student'[s] = new /\ enrolment'[s] = places /\ t.op = "grantPractice"
        /\ UNCHANGED <<group, car>>
    BY <1>8 DEF WriteGrant, TypeOK, Writing
  <2>2. row # None /\ row \in StudentRow /\ new # None
    BY <1>2, <1>3, <1>12, <2>1
  <2>3. /\ new.training = "PRACTICE" /\ new.group = row.group
        /\ new.car = t.car /\ new.instructor = t.instructor /\ new.kind = row.kind
    BY <2>2 DEF StudentRow
  <2>. HIDE DEF new, t, row, places
  <2>4. OwnWrite(t, row, places, new, places)
    BY <2>1, <2>2, <2>3 DEF OwnWrite
  <2>. QED  BY <2>1, <2>4 DEF t, row, places
<1>9. CASE WriteStudent(p)
  <2>. DEFINE new == [row EXCEPT !.kind = t.kind]
  <2>1. /\ student'[s] = new /\ enrolment'[s] = places /\ t.op = "updateStudent"
        /\ UNCHANGED <<group, car>>
    BY <1>9 DEF WriteStudent, TypeOK, Writing
  <2>2. row # None /\ row \in StudentRow /\ new # None
    BY <1>2, <1>3, <1>12, <2>1
  <2>3. /\ new.training = row.training /\ new.group = row.group
        /\ new.car = row.car /\ new.instructor = row.instructor /\ new.kind = t.kind
    BY <2>2 DEF StudentRow
  <2>. HIDE DEF new, t, row, places
  <2>4. OwnWrite(t, row, places, new, places)
    BY <2>1, <2>2, <2>3 DEF OwnWrite
  <2>. QED  BY <2>1, <2>4 DEF t, row, places
<1>. QED
  BY <1>4, <1>5, <1>6, <1>7, <1>8, <1>9
     DEF Write, WriteCreateCar, WriteCar, WriteCarStatus, WriteGroupStatus, Writing, StudentOps

\* Closing a group finishes a place in it, and no group is opened.
Closes(places, status, plc, new) ==
  \A g \in Groups :
    /\ IsOpenStatus(new[g]) => IsOpenStatus(status[g])
    /\ \/ plc[g] = places[g]
       \/ ~IsOpenStatus(new[g]) /\ plc[g] = "COMPLETED"

\* What a step can be to a student: it concerns another one, or the account, or a
\* car; it changes the status of a group; or it commits a request for the student.
LEMMA StepsOfStudent ==
  ASSUME RaceInv, [Next]_vars, NEW s \in Students
  PROVE  \/ /\ SameRow(student[s], student'[s])
            /\ UNCHANGED group /\ enrolment'[s] = enrolment[s]
         \/ student'[s] = student[s] /\ Closes(enrolment[s], group, enrolment'[s], group')
         \/ \E p \in Clients :
              /\ tx[p].op \in StudentOps /\ tx[p].student = s
              /\ tx[p].stage = "write" /\ Finish(p)
              /\ OwnWrite(tx[p], student[s], enrolment[s], student'[s], enrolment'[s])
              /\ UNCHANGED <<group, car>>
<1>1. TypeOK
  BY DEF RaceInv, IInv
<1>2. CASE UNCHANGED data
  BY <1>2 DEF SameRow, data
<1>3. ASSUME NEW p \in Clients,
             Begin(p) \/ CheckEnrolments(p) \/ LockGroup(p) \/ Check(p) \/ Abort(p)
      PROVE  UNCHANGED data
  BY <1>1, <1>3, ClientMoves
<1>4. ASSUME NEW x \in Students, ChangeAccount(x)
      PROVE  SameRow(student[s], student'[s]) /\ UNCHANGED <<group, enrolment>>
  BY <1>1, <1>4, AccountsChange DEF ChangeAccount
<1>5. ASSUME NEW p \in Clients, Write(p), tx[p].op \in StudentOps, tx[p].student = s
      PROVE  /\ tx[p].stage = "write" /\ Finish(p)
             /\ OwnWrite(tx[p], student[s], enrolment[s], student'[s], enrolment'[s])
             /\ UNCHANGED <<group, car>>
  BY <1>1, <1>5, OwnRows, WriteEnds
<1>6. ASSUME NEW p \in Clients, Write(p), ~(tx[p].op \in StudentOps /\ tx[p].student = s)
      PROVE  \/ SameRow(student[s], student'[s]) /\ UNCHANGED group
                /\ enrolment'[s] = enrolment[s]
             \/ student'[s] = student[s] /\ Closes(enrolment[s], group, enrolment'[s], group')
  <2>1. CASE WriteGroupStatus(p)
    <3>1. \A g \in Groups : IsOpenStatus(group'[g]) => IsOpenStatus(group[g])
      BY <1>6, ClosedStays
    <3>2. student' = student
      BY <2>1 DEF WriteGroupStatus
    <3>3. \A g \in Groups : \/ enrolment'[s][g] = enrolment[s][g]
                            \/ ~IsOpenStatus(group'[g]) /\ enrolment'[s][g] = "COMPLETED"
      BY <1>1, <2>1 DEF WriteGroupStatus, TypeOK
    <3>. QED  BY <3>1, <3>2, <3>3 DEF Closes
  <2>2. CASE ~WriteGroupStatus(p)
    BY <1>1, <1>6, <2>2, WritesOfStudents DEF SameRow
  <2>. QED  BY <2>1, <2>2
<1>. QED
  BY <1>2, <1>3, <1>4, <1>5, <1>6 DEF Next, vars, data, ChangeInstructor

-----------------------------------------------------------------------------
(* The rosters *)

\* The predicates of StudentRecords as they depend on the rows.
OneOpen(places, status) ==
  \A g, h \in Groups :
    places[g] = "ACTIVE" /\ places[h] = "ACTIVE" /\ g # h
      => ~(IsOpenStatus(status[g]) /\ IsOpenStatus(status[h]))

HasLeft(row, places) ==
  row # None /\ row.training \in Terminal => \A g \in Groups : places[g] # "ACTIVE"

Names(row, places, status) ==
  row # None /\ row.training \notin Terminal =>
    \A g \in Groups : IsOpenStatus(status[g]) => (places[g] = "ACTIVE" <=> row.group = g)

Free(row, places, status) ==
  row # None /\ row.training \notin Terminal =>
    \A g \in Groups : /\ places[g] # "DROPPED"
                      /\ IsOpenStatus(status[g]) => places[g] # "COMPLETED"

LEMMA RosterPredicates ==
  ASSUME NEW s \in Students
  PROVE  /\ InOneOpenGroup(s) <=> OneOpen(enrolment[s], group)
         /\ HasLeftIfFinished(s) <=> HasLeft(student[s], enrolment[s])
         /\ RowNamesGroup(s) <=> Names(student[s], enrolment[s], group)
         /\ NotBarred(s) <=> Free(student[s], enrolment[s], group)
BY DEF InOneOpenGroup, OneOpen, HasLeftIfFinished, HasLeft, RowNamesGroup, Names,
       NotBarred, Free, Barred, Exists, IsOpenGroup

LEMMA RosterPredicatesNext ==
  ASSUME NEW s \in Students
  PROVE  /\ InOneOpenGroup(s)' <=> OneOpen(enrolment'[s], group')
         /\ HasLeftIfFinished(s)' <=> HasLeft(student'[s], enrolment'[s])
         /\ RowNamesGroup(s)' <=> Names(student'[s], enrolment'[s], group')
         /\ NotBarred(s)' <=> Free(student'[s], enrolment'[s], group')
BY DEF InOneOpenGroup, OneOpen, HasLeftIfFinished, HasLeft, RowNamesGroup, Names,
       NotBarred, Free, Barred, Exists, IsOpenGroup

\* A step that concerns others, an account or a group keeps all four.
LEMMA OthersKeepRosters ==
  ASSUME NEW row, NEW new, NEW places, NEW plc, NEW status, NEW then,
         \/ SameRow(row, new) /\ plc = places /\ then = status
         \/ new = row /\ Closes(places, status, plc, then)
  PROVE  /\ OneOpen(places, status) => OneOpen(plc, then)
         /\ HasLeft(row, places) => HasLeft(new, plc)
         /\ Names(row, places, status) => Names(new, plc, then)
         /\ Free(row, places, status) => Free(new, plc, then)
<1>1. CASE SameRow(row, new) /\ plc = places /\ then = status
  BY <1>1 DEF SameRow, OneOpen, HasLeft, Names, Free
<1>2. CASE new = row /\ Closes(places, status, plc, then)
  BY <1>2 DEF Closes, OneOpen, HasLeft, Names, Free
<1>. QED  BY <1>1, <1>2

\* What happens to an ACTIVE place when the training changes.
LEMMA PlacesFollowTraining ==
  ASSUME NEW training \in TrainingStatus
  PROVE  /\ training \in Terminal => EnrolmentStatusFor(training) # "ACTIVE"
         /\ training \notin Terminal => EnrolmentStatusFor(training) = "ACTIVE"
BY DEF EnrolmentStatusFor, Terminal, TrainingStatus

\* The commit of a request for the student keeps each of them, whatever it has read,
\* but for the operations named, which keep it if what they have read still holds.
LEMMA OwnKeepsOneOpen ==
  ASSUME NEW t, NEW row, NEW places, NEW new, NEW plc, NEW status,
         OwnWrite(t, row, places, new, plc), OneOpen(places, status),
         t.op = "assignGroup" =>
           \A g \in Groups \ {t.group} : places[g] = "ACTIVE" => ~IsOpenStatus(status[g])
  PROVE  OneOpen(plc, status)
<1>1. CASE t.op = "assignGroup"
  BY <1>1 DEF OwnWrite, OneOpen
<1>2. CASE t.op = "createStudent"
  BY <1>2 DEF OwnWrite, OneOpen
<1>3. CASE t.op \notin {"assignGroup", "createStudent"}
  <2>1. \A g \in Groups : plc[g] = "ACTIVE" => places[g] = "ACTIVE"
    BY <1>3 DEF OwnWrite
  <2>. QED  BY <2>1 DEF OneOpen
<1>. QED  BY <1>1, <1>2, <1>3

LEMMA OwnKeepsHasLeft ==
  ASSUME NEW t, NEW row, NEW places, NEW new, NEW plc,
         OwnWrite(t, row, places, new, plc), HasLeft(row, places),
         t.op = "assignGroup" => row.training \notin Terminal
  PROVE  HasLeft(new, plc)
<1>1. CASE new.training \in TrainingStatus /\ new.training \in Terminal
           /\ t.op \in {"changeTraining", "archive"}
  BY <1>1, PlacesFollowTraining DEF OwnWrite, HasLeft
<1>2. CASE new.training \notin Terminal
  BY <1>2 DEF HasLeft
<1>3. CASE t.op \notin {"changeTraining", "archive"}
  BY <1>3 DEF OwnWrite, HasLeft, Terminal
<1>4. CASE new = row /\ plc = places
  BY <1>4
<1>5. t.op \in {"changeTraining", "archive"} /\ ~(new = row /\ plc = places) =>
        new.training \in TrainingStatus
  BY DEF OwnWrite
<1>. QED  BY <1>1, <1>2, <1>3, <1>4, <1>5

LEMMA OwnKeepsNames ==
  ASSUME NEW t, NEW row, NEW places, NEW new, NEW plc, NEW status,
         None \notin Groups,
         OwnWrite(t, row, places, new, plc), Names(row, places, status),
         t.op \in {"assignGroup", "removeFromGroup"} => t.was = row.group,
         t.op = "assignGroup" => row.training \notin Terminal,
         t.op = "assignGroup" =>
           \A g \in Groups \ {t.group} : places[g] = "ACTIVE" => ~IsOpenStatus(status[g]),
         t.op = "changeTraining" => t.next \in Terminal \/ row.training \notin Terminal,
         t.op = "grantPractice" => row.training \notin Terminal
  PROVE  Names(new, plc, status)
<1>1. CASE t.op = "assignGroup"
  BY <1>1 DEF OwnWrite, Names
<1>2. CASE t.op = "createStudent"
  BY <1>2 DEF OwnWrite, Names
<1>3. CASE t.op = "removeFromGroup"
  BY <1>3 DEF OwnWrite, Names
<1>4. CASE t.op \in {"changeTraining", "archive"}
  <2>1. CASE new = row /\ plc = places
    BY <2>1
  <2>2. CASE new.training \in Terminal
    BY <2>2 DEF Names
  <2>3. CASE ~(new = row /\ plc = places) /\ new.training \notin Terminal
    <3>1. new.training \in TrainingStatus /\ new.group = row.group /\ row # None
          /\ \A g \in Groups : plc[g] = IF places[g] = "ACTIVE"
                                        THEN EnrolmentStatusFor(new.training) ELSE places[g]
      BY <1>4, <2>3 DEF OwnWrite
    <3>2. EnrolmentStatusFor(new.training) = "ACTIVE"
      BY <2>3, <3>1, PlacesFollowTraining
    <3>3. row.training \notin Terminal
      BY <1>4, <2>3 DEF OwnWrite, Terminal
    <3>. QED  BY <3>1, <3>2, <3>3 DEF Names
  <2>. QED  BY <2>1, <2>2, <2>3
<1>5. CASE t.op \in {"grantPractice", "updateStudent"}
  BY <1>5 DEF OwnWrite, Names
<1>. QED
  BY <1>1, <1>2, <1>3, <1>4, <1>5 DEF OwnWrite

LEMMA OwnKeepsFree ==
  ASSUME NEW t, NEW row, NEW places, NEW new, NEW plc, NEW status,
         OwnWrite(t, row, places, new, plc), Free(row, places, status),
         t.op = "assignGroup" /\ t.was \in Groups /\ t.was # t.group => ~IsOpenStatus(status[t.was]),
         t.op = "changeTraining" => t.next \in Terminal \/ row.training \notin Terminal,
         t.op = "grantPractice" => row.training \notin Terminal
  PROVE  Free(new, plc, status)
<1>1. CASE t.op = "assignGroup"
  BY <1>1 DEF OwnWrite, Free
<1>2. CASE t.op = "createStudent"
  BY <1>2 DEF OwnWrite, Free
<1>3. CASE t.op = "removeFromGroup"
  BY <1>3 DEF OwnWrite, Free
<1>4. CASE t.op \in {"changeTraining", "archive"}
  <2>1. CASE new = row /\ plc = places
    BY <2>1
  <2>2. CASE new.training \in Terminal
    BY <2>2 DEF Free
  <2>3. CASE ~(new = row /\ plc = places) /\ new.training \notin Terminal
    <3>1. new.training \in TrainingStatus /\ row # None
          /\ \A g \in Groups : plc[g] = IF places[g] = "ACTIVE"
                                        THEN EnrolmentStatusFor(new.training) ELSE places[g]
      BY <1>4, <2>3 DEF OwnWrite
    <3>2. EnrolmentStatusFor(new.training) = "ACTIVE"
      BY <2>3, <3>1, PlacesFollowTraining
    <3>3. row.training \notin Terminal
      BY <1>4, <2>3 DEF OwnWrite, Terminal
    <3>. QED  BY <3>1, <3>2, <3>3 DEF Free
  <2>. QED  BY <2>1, <2>2, <2>3
<1>5. CASE t.op \in {"grantPractice", "updateStudent"}
  BY <1>5 DEF OwnWrite, Free
<1>. QED
  BY <1>1, <1>2, <1>3, <1>4, <1>5 DEF OwnWrite

-----------------------------------------------------------------------------
(* What a step keeps, unless it is the commit of an overtaken request *)

\* Whichever requests race, a student gets into a second open group only by an
\* assignment that another request for the student has overtaken (assignGroup,
\* students.service.ts): its checks are enough against whatever it locks out.
THEOREM SecondGroupOnlyByRace == Spec => SecondGroupByRace
<1>1. ASSUME RaceInv, [Next]_vars, NEW s \in Students, InOneOpenGroup(s)
      PROVE  InOneOpenGroup(s)' \/ ByOvertaken(s, {"assignGroup"})
  <2>1. CASE \/ /\ SameRow(student[s], student'[s])
                /\ UNCHANGED group /\ enrolment'[s] = enrolment[s]
             \/ student'[s] = student[s] /\ Closes(enrolment[s], group, enrolment'[s], group')
    BY <1>1, <2>1, OthersKeepRosters, RosterPredicates, RosterPredicatesNext
  <2>2. ASSUME NEW p \in Clients, tx[p].op \in StudentOps, tx[p].student = s,
               tx[p].stage = "write", Finish(p), UNCHANGED group,
               OwnWrite(tx[p], student[s], enrolment[s], student'[s], enrolment'[s])
        PROVE  InOneOpenGroup(s)' \/ ByOvertaken(s, {"assignGroup"})
    <3>1. CASE p \in overtaken /\ tx[p].op \in {"assignGroup"}
      BY <2>2, <3>1 DEF ByOvertaken
    <3>2. CASE p \notin overtaken \/ tx[p].op \notin {"assignGroup"}
      <4>. DEFINE t == tx[p]
                  row == student[s]
                  places == enrolment[s]
      <4>1. p \notin overtaken => StillRead(t, row, places, group)
        BY <1>1, <2>2 DEF RaceInv, ReadInv
      <4>2. t.op = "assignGroup" =>
              \A g \in Groups \ {t.group} : places[g] = "ACTIVE" => ~IsOpenStatus(group[g])
        BY <2>2, <3>2, <4>1 DEF StillRead
      <4>3. OneOpen(places, group)
        BY <1>1, RosterPredicates
      <4>4. OneOpen(enrolment'[s], group')
        BY <2>2, <4>2, <4>3, OwnKeepsOneOpen
      <4>. QED  BY <4>4, RosterPredicatesNext
    <3>. QED  BY <3>1, <3>2
  <2>. QED  BY <1>1, <2>1, <2>2, StepsOfStudent
<1>2. RaceInv /\ [Next]_vars =>
        [\A s \in Students :
           InOneOpenGroup(s) =>
             \/ InOneOpenGroup(s)'
             \/ ByOvertaken(s, {"assignGroup"})]_vars
  BY <1>1
<1>. QED
  BY RaceInvHolds, <1>2, PTL DEF Spec, SecondGroupByRace

\* Who has graduated, dropped out or been archived comes onto a roster only by an
\* assignment that was decided before: finishing and archiving empty the rosters.
THEOREM FinishedEnrolledOnlyByRace == Spec => FinishedEnrolledByRace
<1>1. ASSUME RaceInv, [Next]_vars, NEW s \in Students, HasLeftIfFinished(s)
      PROVE  HasLeftIfFinished(s)' \/ ByOvertaken(s, {"assignGroup"})
  <2>1. CASE \/ /\ SameRow(student[s], student'[s])
                /\ UNCHANGED group /\ enrolment'[s] = enrolment[s]
             \/ student'[s] = student[s] /\ Closes(enrolment[s], group, enrolment'[s], group')
    BY <1>1, <2>1, OthersKeepRosters, RosterPredicates, RosterPredicatesNext
  <2>2. ASSUME NEW p \in Clients, tx[p].op \in StudentOps, tx[p].student = s,
               tx[p].stage = "write", Finish(p), UNCHANGED group,
               OwnWrite(tx[p], student[s], enrolment[s], student'[s], enrolment'[s])
        PROVE  HasLeftIfFinished(s)' \/ ByOvertaken(s, {"assignGroup"})
    <3>1. CASE p \in overtaken /\ tx[p].op \in {"assignGroup"}
      BY <2>2, <3>1 DEF ByOvertaken
    <3>2. CASE p \notin overtaken \/ tx[p].op \notin {"assignGroup"}
      <4>. DEFINE t == tx[p]
                  row == student[s]
                  places == enrolment[s]
      <4>1. p \notin overtaken => StillRead(t, row, places, group)
        BY <1>1, <2>2 DEF RaceInv, ReadInv
      <4>2. t.op = "assignGroup" => row.training \notin Terminal
        BY <2>2, <3>2, <4>1 DEF StillRead
      <4>3. HasLeft(row, places)
        BY <1>1, RosterPredicates
      <4>4. HasLeft(student'[s], enrolment'[s])
        BY <2>2, <4>2, <4>3, OwnKeepsHasLeft
      <4>. QED  BY <4>4, RosterPredicatesNext
    <3>. QED  BY <3>1, <3>2
  <2>. QED  BY <1>1, <2>1, <2>2, StepsOfStudent
<1>2. RaceInv /\ [Next]_vars =>
        [\A s \in Students :
           HasLeftIfFinished(s) =>
             \/ HasLeftIfFinished(s)'
             \/ ByOvertaken(s, {"assignGroup"})]_vars
  BY <1>1
<1>. QED
  BY RaceInvHolds, <1>2, PTL DEF Spec, FinishedEnrolledByRace

\* Student.groupId and the enrolments say the same of who trains, until a request
\* that another one for the student has overtaken writes one of them.
THEOREM RowLosesGroupOnlyByRace == Spec => RowLosesGroupByRace
<1>. DEFINE ops == {"assignGroup", "removeFromGroup", "changeTraining", "grantPractice"}
<1>1. ASSUME RaceInv, [Next]_vars, NEW s \in Students, RowNamesGroup(s)
      PROVE  RowNamesGroup(s)' \/ ByOvertaken(s, ops)
  <2>1. CASE \/ /\ SameRow(student[s], student'[s])
                /\ UNCHANGED group /\ enrolment'[s] = enrolment[s]
             \/ student'[s] = student[s] /\ Closes(enrolment[s], group, enrolment'[s], group')
    BY <1>1, <2>1, OthersKeepRosters, RosterPredicates, RosterPredicatesNext
  <2>2. ASSUME NEW p \in Clients, tx[p].op \in StudentOps, tx[p].student = s,
               tx[p].stage = "write", Finish(p), UNCHANGED group,
               OwnWrite(tx[p], student[s], enrolment[s], student'[s], enrolment'[s])
        PROVE  RowNamesGroup(s)' \/ ByOvertaken(s, ops)
    <3>1. CASE p \in overtaken /\ tx[p].op \in ops
      BY <2>2, <3>1 DEF ByOvertaken
    <3>2. CASE p \notin overtaken \/ tx[p].op \notin ops
      <4>. DEFINE t == tx[p]
                  row == student[s]
                  places == enrolment[s]
      <4>1. p \notin overtaken => StillRead(t, row, places, group)
        BY <1>1, <2>2 DEF RaceInv, ReadInv
      <4>7. row # None => row \in StudentRow
        BY <1>1 DEF RaceInv, IInv, TypeOK
      <4>8. t.op \in {"changeTraining", "grantPractice"} => row # None
        BY <1>1, <2>2 DEF RaceInv, IInv, TypeOK, RequestsOK, WellFormed, StudentOps, Exists
      <4>9. /\ p \notin overtaken /\ t.op = "changeTraining" =>
                 t.next \in Terminal \/ row.training \notin Terminal
            /\ p \notin overtaken /\ t.op = "grantPractice" => row.training \notin Terminal
        <5>1. row # None => row.training \in TrainingStatus
          BY <4>7 DEF StudentRow
        <5>2. \A training \in TrainingStatus : \A next \in TrainingTransitions[training] :
                next \in Terminal \/ training \notin Terminal
          BY DEF TrainingStatus, TrainingTransitions, Terminal
        <5>. QED  BY <4>1, <4>8, <5>1, <5>2 DEF StillRead, Terminal
      <4>2. /\ t.op \in {"assignGroup", "removeFromGroup"} => t.was = row.group
            /\ t.op = "assignGroup" => row.training \notin Terminal
            /\ t.op = "assignGroup" =>
                 \A g \in Groups \ {t.group} : places[g] = "ACTIVE" => ~IsOpenStatus(group[g])
            /\ t.op = "changeTraining" => t.next \in Terminal \/ row.training \notin Terminal
            /\ t.op = "grantPractice" => row.training \notin Terminal
        BY <2>2, <3>2, <4>1, <4>9 DEF StillRead
      <4>3. Names(row, places, group)
        BY <1>1, RosterPredicates
      <4>4. Names(student'[s], enrolment'[s], group')
        BY <2>2, <4>2, <4>3, RecordsAssumption, OwnKeepsNames
      <4>. QED  BY <4>4, RosterPredicatesNext
    <3>. QED  BY <3>1, <3>2
  <2>. QED  BY <1>1, <2>1, <2>2, StepsOfStudent
<1>2. RaceInv /\ [Next]_vars =>
        [\A s \in Students :
           RowNamesGroup(s) =>
             \/ RowNamesGroup(s)'
             \/ ByOvertaken(s, {"assignGroup", "removeFromGroup", "changeTraining",
                                "grantPractice"})]_vars
  BY <1>1
<1>. QED
  BY RaceInvHolds, <1>2, PTL DEF Spec, RowLosesGroupByRace

\* Neither joining, leaving nor closing a group bars a student in training from all
\* groups; only a training resumed by a request that the end of it has overtaken does.
THEOREM BarredOnlyByRace == Spec => BarredByRace
<1>1. ASSUME RaceInv, [Next]_vars, NEW s \in Students, NotBarred(s)
      PROVE  NotBarred(s)' \/ ByOvertaken(s, {"changeTraining", "grantPractice"})
  <2>1. CASE \/ /\ SameRow(student[s], student'[s])
                /\ UNCHANGED group /\ enrolment'[s] = enrolment[s]
             \/ student'[s] = student[s] /\ Closes(enrolment[s], group, enrolment'[s], group')
    BY <1>1, <2>1, OthersKeepRosters, RosterPredicates, RosterPredicatesNext
  <2>2. ASSUME NEW p \in Clients, tx[p].op \in StudentOps, tx[p].student = s,
               tx[p].stage = "write", Finish(p), UNCHANGED group,
               OwnWrite(tx[p], student[s], enrolment[s], student'[s], enrolment'[s])
        PROVE  NotBarred(s)' \/ ByOvertaken(s, {"changeTraining", "grantPractice"})
    <3>1. CASE p \in overtaken /\ tx[p].op \in {"changeTraining", "grantPractice"}
      BY <2>2, <3>1 DEF ByOvertaken
    <3>2. CASE p \notin overtaken \/ tx[p].op \notin {"changeTraining", "grantPractice"}
      <4>. DEFINE t == tx[p]
                  row == student[s]
                  places == enrolment[s]
      <4>1. p \notin overtaken => StillRead(t, row, places, group)
        BY <1>1, <2>2 DEF RaceInv, ReadInv
      <4>7. row # None => row \in StudentRow
        BY <1>1 DEF RaceInv, IInv, TypeOK
      <4>8. t.op \in {"changeTraining", "grantPractice"} => row # None
        BY <1>1, <2>2 DEF RaceInv, IInv, TypeOK, RequestsOK, WellFormed, StudentOps, Exists
      <4>9. /\ p \notin overtaken /\ t.op = "changeTraining" =>
                 t.next \in Terminal \/ row.training \notin Terminal
            /\ p \notin overtaken /\ t.op = "grantPractice" => row.training \notin Terminal
        <5>1. row # None => row.training \in TrainingStatus
          BY <4>7 DEF StudentRow
        <5>2. \A training \in TrainingStatus : \A next \in TrainingTransitions[training] :
                next \in Terminal \/ training \notin Terminal
          BY DEF TrainingStatus, TrainingTransitions, Terminal
        <5>. QED  BY <4>1, <4>8, <5>1, <5>2 DEF StillRead, Terminal
      <4>2. /\ t.op = "assignGroup" /\ t.was \in Groups /\ t.was # t.group =>
                 ~IsOpenStatus(group[t.was])
            /\ t.op = "changeTraining" => t.next \in Terminal \/ row.training \notin Terminal
            /\ t.op = "grantPractice" => row.training \notin Terminal
        BY <1>1, <2>2, <3>2, <4>9, RecordsAssumption DEF RaceInv, DecidedInv, Decided
      <4>3. Free(row, places, group)
        BY <1>1, RosterPredicates
      <4>4. Free(student'[s], enrolment'[s], group')
        BY <2>2, <4>2, <4>3, OwnKeepsFree
      <4>. QED  BY <4>4, RosterPredicatesNext
    <3>. QED  BY <3>1, <3>2
  <2>. QED  BY <1>1, <2>1, <2>2, StepsOfStudent
<1>2. RaceInv /\ [Next]_vars =>
        [\A s \in Students :
           NotBarred(s) =>
             \/ NotBarred(s)'
             \/ ByOvertaken(s, {"changeTraining", "grantPractice"})]_vars
  BY <1>1
<1>. QED
  BY RaceInvHolds, <1>2, PTL DEF Spec, BarredByRace

-----------------------------------------------------------------------------
(* The cars *)

\* What a step can be to the rows of students and cars.
LEMMA StepsOfCars ==
  ASSUME RaceInv, [Next]_vars, NEW s \in Students
  PROVE  \/ SameRow(student[s], student'[s]) /\ UNCHANGED car
         \/ \E p \in Clients :
              /\ tx[p].op \in StudentOps /\ tx[p].student = s
              /\ tx[p].stage = "write" /\ Finish(p)
              /\ OwnWrite(tx[p], student[s], enrolment[s], student'[s], enrolment'[s])
              /\ UNCHANGED <<group, car>>
         \/ \E p \in Clients : /\ WriteCreateCar(p) \/ WriteCar(p) \/ WriteCarStatus(p)
                               /\ UNCHANGED student /\ Finish(p)
<1>1. TypeOK
  BY DEF RaceInv, IInv
<1>2. CASE UNCHANGED data
  BY <1>2 DEF SameRow, data
<1>3. ASSUME NEW p \in Clients,
             Begin(p) \/ CheckEnrolments(p) \/ LockGroup(p) \/ Check(p) \/ Abort(p)
      PROVE  UNCHANGED data
  BY <1>1, <1>3, ClientMoves
<1>4. ASSUME NEW x \in Students, ChangeAccount(x)
      PROVE  SameRow(student[s], student'[s]) /\ UNCHANGED car
  BY <1>1, <1>4, AccountsChange DEF ChangeAccount
<1>5. ASSUME NEW p \in Clients, Write(p), tx[p].op \in StudentOps, tx[p].student = s
      PROVE  /\ tx[p].stage = "write" /\ Finish(p)
             /\ OwnWrite(tx[p], student[s], enrolment[s], student'[s], enrolment'[s])
             /\ UNCHANGED <<group, car>>
  BY <1>1, <1>5, OwnRows, WriteEnds
<1>6. ASSUME NEW p \in Clients, Write(p), ~(tx[p].op \in StudentOps /\ tx[p].student = s),
             ~(WriteCreateCar(p) \/ WriteCar(p) \/ WriteCarStatus(p))
      PROVE  student'[s] = student[s] /\ UNCHANGED car
  <2>1. CASE WriteGroupStatus(p)
    BY <2>1 DEF WriteGroupStatus
  <2>2. CASE ~WriteGroupStatus(p)
    <3>1. tx[p].op \in StudentOps
      BY <1>6, <2>2 DEF Write, WriteCreateStudent, WriteAssignGroup, WriteRemove, WriteTraining,
                        WriteGrant, WriteArchive, WriteStudent, Writing, StudentOps
    <3>2. UNCHANGED car
      BY <1>6, <2>2 DEF Write, WriteCreateStudent, WriteAssignGroup, WriteRemove, WriteTraining,
                        WriteGrant, WriteArchive, WriteStudent, data
    <3>. QED  BY <1>1, <1>6, <2>2, <3>1, <3>2, WritesOfStudents
  <2>. QED  BY <2>1, <2>2
<1>7. ASSUME NEW p \in Clients, WriteCreateCar(p) \/ WriteCar(p) \/ WriteCarStatus(p)
      PROVE  UNCHANGED student /\ Finish(p)
  BY <1>7 DEF WriteCreateCar, WriteCar, WriteCarStatus, Commit
<1>8. ASSUME NEW p \in Clients, Write(p),
             ~(tx[p].op \in StudentOps /\ tx[p].student = s),
             ~(WriteCreateCar(p) \/ WriteCar(p) \/ WriteCarStatus(p))
      PROVE  SameRow(student[s], student'[s]) /\ UNCHANGED car
  BY <1>6, <1>8 DEF SameRow
<1>9. \/ UNCHANGED data
      \/ \E x \in Students : ChangeAccount(x)
      \/ \E p \in Clients : Write(p)
  BY <1>3 DEF Next, vars, data, ChangeInstructor
<1>. QED
  BY <1>2, <1>4, <1>5, <1>7, <1>8, <1>9

\* The car of a student in practice is there and fits.
Fits(row, cars) ==
  row # None /\ row.training = "PRACTICE" =>
    /\ row.car # None /\ cars[row.car] # None
    /\ cars[row.car] = [status |-> "AVAILABLE", instructor |-> row.instructor,
                        kind |-> row.kind]

LEMMA CarPredicate ==
  ASSUME NEW s \in Students
  PROVE  CarFits(s) <=> Fits(student[s], car)
BY DEF CarFits, Fits, Exists, ExistsCar

LEMMA CarPredicateNext ==
  ASSUME NEW s \in Students
  PROVE  CarFits(s)' <=> Fits(student'[s], car')
BY DEF CarFits, Fits, Exists, ExistsCar

\* The commit of a request for a student keeps the student's car fitting.
LEMMA OwnKeepsFits ==
  ASSUME NEW t, NEW row, NEW places, NEW new, NEW plc, NEW cars,
         OwnWrite(t, row, places, new, plc), Fits(row, cars),
         t.op = "changeTraining" => t.next # "PRACTICE",
         t.op = "grantPractice" =>
           /\ t.car # None /\ cars[t.car] # None /\ t.kind = row.kind
           /\ cars[t.car] = [status |-> "AVAILABLE", instructor |-> t.instructor, kind |-> t.kind],
         t.op = "updateStudent" =>
           t.car = row.car /\ (t.car # None => cars[t.car].kind = t.kind)
  PROVE  Fits(new, cars)
<1>1. CASE t.op \in {"createStudent", "changeTraining", "archive"}
  BY <1>1 DEF OwnWrite, Fits
<1>2. CASE t.op \in {"assignGroup", "removeFromGroup"}
  BY <1>2 DEF OwnWrite, Fits
<1>3. CASE t.op = "grantPractice"
  BY <1>3 DEF OwnWrite, Fits
<1>4. CASE t.op = "updateStudent"
  <2>1. CASE new.training = "PRACTICE" /\ ~(new = row /\ plc = places)
    <3>1. /\ row # None /\ row.training = "PRACTICE"
          /\ new.car = row.car /\ new.instructor = row.instructor /\ new.kind = t.kind
      BY <1>4, <2>1 DEF OwnWrite
    <3>2. /\ row.car # None /\ cars[row.car] # None
          /\ cars[row.car] = [status |-> "AVAILABLE", instructor |-> row.instructor,
                              kind |-> row.kind]
      BY <3>1 DEF Fits
    <3>3. row.kind = t.kind
      BY <1>4, <3>2
    <3>. QED  BY <3>1, <3>2, <3>3 DEF Fits
  <2>2. CASE new.training # "PRACTICE"
    BY <2>2 DEF Fits
  <2>3. CASE new = row /\ plc = places
    BY <2>3
  <2>. QED  BY <2>1, <2>2, <2>3
<1>. QED
  BY <1>1, <1>2, <1>3, <1>4 DEF OwnWrite

\* The commit of a request for a car keeps the cars of its drivers fitting.
LEMMA CarWritesKeepFits ==
  ASSUME RaceInv, NEW p \in Clients, WriteCreateCar(p) \/ WriteCar(p) \/ WriteCarStatus(p),
         NEW s \in Students, Fits(student[s], car),
         p \notin overtaken \/ WriteCreateCar(p) \/ student[s].car # tx[p].car
  PROVE  Fits(student[s], car')
<1>. DEFINE t == tx[p]
            row == student[s]
<1>1. /\ TypeOK /\ WellFormed(t) /\ t.car \in Cars
  BY DEF RaceInv, IInv, TypeOK, RequestsOK, WellFormed, WriteCreateCar, WriteCar, WriteCarStatus,
         Writing
<1>2. CASE ~(row # None /\ row.training = "PRACTICE")
  BY <1>2 DEF Fits
<1>3. CASE row # None /\ row.training = "PRACTICE" /\ row.car # t.car
  <2>1. row.car \in Cars
    BY <1>1, <1>3 DEF TypeOK, StudentRow, Fits
  <2>2. car'[row.car] = car[row.car]
    BY <1>1, <1>3, <2>1 DEF WriteCreateCar, WriteCar, WriteCarStatus, TypeOK
  <2>. QED  BY <2>2 DEF Fits
<1>4. CASE row # None /\ row.training = "PRACTICE" /\ row.car = t.car
  <2>0. /\ car[t.car] # None
        /\ car[t.car] = [status |-> "AVAILABLE", instructor |-> row.instructor, kind |-> row.kind]
    BY <1>4 DEF Fits
  <2>1. CASE WriteCreateCar(p)
    BY <1>4, <2>0, <2>1 DEF WriteCreateCar, ExistsCar, Fits
  <2>2. CASE WriteCar(p)
    <3>1. p \notin overtaken /\ t.op = "changeCar" /\ t.stage = "write"
      BY <1>4, <2>2 DEF WriteCar, Writing, WriteCreateCar
    <3>2. /\ "instructor" \notin t.changes => t.instructor = car[t.car].instructor
          /\ "kind" \notin t.changes => t.kind = car[t.car].kind
          /\ row.instructor = t.instructor /\ row.kind = t.kind
      BY <1>4, <3>1 DEF RaceInv, ReadInv, StillFits
    <3>3. car'[t.car] = [[car[t.car] EXCEPT
                            !.instructor = IF "instructor" \in t.changes THEN t.instructor ELSE @]
                            EXCEPT !.kind = IF "kind" \in t.changes THEN t.kind ELSE @]
      BY <1>1, <2>2 DEF WriteCar, TypeOK
    <3>4. car'[t.car] = car[t.car]
      <4>. DEFINE old == car[t.car]
                  i == IF "instructor" \in t.changes THEN t.instructor ELSE old.instructor
                  k == IF "kind" \in t.changes THEN t.kind ELSE old.kind
      <4>1. old \in CarRow
        BY <1>1, <2>0 DEF TypeOK
      <4>2. old.instructor = row.instructor /\ old.kind = row.kind
        BY <2>0
      <4>3. i = old.instructor /\ k = old.kind
        BY <3>2, <4>2
      <4>4. car'[t.car] = [[old EXCEPT !.instructor = i] EXCEPT !.kind = k]
        BY <3>3
      <4>. HIDE DEF i, k, old
      <4>5. car'[t.car] = old
        BY <4>1, <4>3, <4>4 DEF CarRow
      <4>. QED  BY <4>5 DEF old
    <3>. QED  BY <1>4, <3>4 DEF Fits
  <2>3. CASE WriteCarStatus(p)
    <3>1. p \notin overtaken /\ t.op = "changeCarStatus" /\ t.stage = "write"
      BY <1>4, <2>3 DEF WriteCarStatus, Writing, WriteCreateCar
    <3>2. t.next = "AVAILABLE"
      BY <1>4, <3>1 DEF RaceInv, ReadInv, StillFits
    <3>3. car'[t.car] = [car[t.car] EXCEPT !.status = "AVAILABLE"]
      BY <1>1, <2>3, <3>2 DEF WriteCarStatus, TypeOK
    <3>4. car'[t.car] = car[t.car]
      BY <2>0, <3>3
    <3>. QED  BY <1>4, <3>4 DEF Fits
  <2>. QED  BY <2>1, <2>2, <2>3
<1>. QED  BY <1>2, <1>3, <1>4

\* Whatever is done to students, cars and instructors at the same time, the car of a
\* student in practice stops fitting only when a request that has to check the one
\* against the other (students.service.ts, cars.service.ts) has been overtaken.
THEOREM CarMisfitsOnlyByRace == Spec => CarMisfitsByRace
<1>. DEFINE ops == {"grantPractice", "updateStudent", "changeCar", "changeCarStatus"}
<1>1. ASSUME RaceInv, [Next]_vars, NEW s \in Students, CarFits(s)
      PROVE  CarFits(s)' \/ ByOvertaken(s, ops)
  <2>0. Fits(student[s], car)
    BY <1>1, CarPredicate
  <2>1. CASE SameRow(student[s], student'[s]) /\ UNCHANGED car
    <3>1. Fits(student'[s], car')
      BY <2>0, <2>1 DEF SameRow, Fits
    <3>. QED  BY <3>1, CarPredicateNext
  <2>2. ASSUME NEW p \in Clients, tx[p].op \in StudentOps, tx[p].student = s,
               tx[p].stage = "write", Finish(p), UNCHANGED car,
               OwnWrite(tx[p], student[s], enrolment[s], student'[s], enrolment'[s])
        PROVE  CarFits(s)' \/ ByOvertaken(s, ops)
    <3>1. CASE p \in overtaken /\ tx[p].op \in ops
      BY <2>2, <3>1 DEF ByOvertaken
    <3>2. CASE p \notin overtaken \/ tx[p].op \notin ops
      <4>. DEFINE t == tx[p]
                  row == student[s]
                  places == enrolment[s]
      <4>1. p \notin overtaken => StillRead(t, row, places, group) /\ StillFits(t, car, student)
        BY <1>1, <2>2 DEF RaceInv, ReadInv
      <4>2. t.op = "changeTraining" => t.next # "PRACTICE"
        BY <1>1 DEF RaceInv, DecidedInv, Decided
      <4>3. t.op = "grantPractice" => t.car # None
        BY <1>1, RecordsAssumption DEF RaceInv, IInv, TypeOK, RequestsOK, WellFormed
      <4>4. /\ t.op = "grantPractice" =>
                 /\ t.car # None /\ car[t.car] # None /\ t.kind = row.kind
                 /\ car[t.car] = [status |-> "AVAILABLE", instructor |-> t.instructor,
                                  kind |-> t.kind]
            /\ t.op = "updateStudent" =>
                 t.car = row.car /\ (t.car # None => car[t.car].kind = t.kind)
        BY <2>2, <3>2, <4>1, <4>3 DEF StillRead, StillFits
      <4>5. Fits(student'[s], car)
        BY <2>0, <2>2, <4>2, <4>4, OwnKeepsFits
      <4>. QED  BY <2>2, <4>5, CarPredicateNext
    <3>. QED  BY <3>1, <3>2
  <2>3. ASSUME NEW p \in Clients, WriteCreateCar(p) \/ WriteCar(p) \/ WriteCarStatus(p),
               UNCHANGED student, Finish(p)
        PROVE  CarFits(s)' \/ ByOvertaken(s, ops)
    <3>1. CASE p \in overtaken /\ ~WriteCreateCar(p) /\ student[s] # None /\ student[s].car = tx[p].car
      <4>1. tx[p].stage = "write" /\ tx[p].op \in {"changeCar", "changeCarStatus"}
        BY <2>3, <3>1 DEF WriteCar, WriteCarStatus, Writing
      <4>2. Reads(tx[p], s)
        BY <3>1, <4>1 DEF Reads, Exists
      <4>. QED  BY <2>3, <3>1, <4>1, <4>2 DEF ByOvertaken
    <3>2. CASE student[s] = None
      BY <2>3, <3>2, CarPredicateNext DEF Fits
    <3>3. CASE p \notin overtaken \/ WriteCreateCar(p) \/ student[s].car # tx[p].car
      BY <1>1, <2>0, <2>3, <3>3, CarWritesKeepFits, CarPredicateNext
    <3>. QED  BY <3>1, <3>2, <3>3
  <2>. QED  BY <1>1, <2>1, <2>2, <2>3, StepsOfCars
<1>2. RaceInv /\ [Next]_vars =>
        [\A s \in Students :
           CarFits(s) =>
             \/ CarFits(s)'
             \/ ByOvertaken(s, {"grantPractice", "updateStudent", "changeCar",
                                "changeCarStatus"})]_vars
  BY <1>1
<1>. QED
  BY RaceInvHolds, <1>2, PTL DEF Spec, CarMisfitsByRace

=============================================================================
