------------------------ MODULE LessonScheduleProofs ------------------------
(***************************************************************************)
(* Proofs about LessonSchedule, for any number of clients, lessons and     *)
(* resources: the window of a conflict search misses no overlap, the types *)
(* are kept, and no resource is ever booked twice.                         *)
(***************************************************************************)
EXTENDS LessonSchedule, TLAPS

-----------------------------------------------------------------------------
(* The arithmetic of slots *)

\* A row that overlaps a slot is among the rows the search fetches, whatever
\* its duration: candidateWindow of schedule-conflicts.ts reaches far enough back.
LEMMA WindowIsComplete ==
  ASSUME NEW slot, NEW row, slot.start \in Nat, row.start \in Nat,
         slot.dur \in Nat, row.dur \in Durations, Overlaps(slot, row)
  PROVE  InCandidateWindow(slot, row)
BY MaxDurationAssumption DEF Durations, Overlaps, InCandidateWindow, LessonEnd

\* So the search reports exactly the rows that overlap.
LEMMA CollidesIsOverlaps ==
  ASSUME NEW slot, NEW row, slot.start \in Nat, row.start \in Nat,
         slot.dur \in Nat, row.dur \in Durations
  PROVE  Collides(slot, row) <=> Overlaps(slot, row)
BY WindowIsComplete DEF Collides

\* Overlapping is symmetric.
LEMMA OverlapsSymmetric ==
  ASSUME NEW slot, NEW row, slot.start \in Nat, row.start \in Nat,
         slot.dur \in Nat, row.dur \in Nat
  PROVE  Overlaps(slot, row) <=> Overlaps(row, slot)
BY DEF Overlaps, LessonEnd

-----------------------------------------------------------------------------
(* Helpers of the model *)

\* The keys a request may name are keys.
LEMMA KeysAreKeys ==
  /\ \A g \in Groups : GroupKey(g) \in Keys
  /\ \A t \in Teachers : TeacherKey(t) \in Keys
  /\ \A s \in Students : StudentKey(s) \in Keys
  /\ \A i \in Instructors : InstructorKey(i) \in Keys
  /\ \A c \in Cars : CarKey(c) \in Keys
BY DEF Keys, GroupKey, TeacherKey, StudentKey, InstructorKey, CarKey

\* The stages an operation goes through are stages it is well formed in.
LEMMA StageOfOp ==
  ASSUME NEW o \in OpNames
  PROVE  /\ FirstStage(o) \in {"group", "row", "check"}
         /\ FirstStage(o) = "group" => o \in GroupOps
         /\ FirstStage(o) = "row" => o \in LessonOps
         /\ AfterGroup(o) \in {"row", "check", "write"}
         /\ AfterGroup(o) = "row" => o \in LessonOps
         /\ AfterGroup(o) = "write" => o \notin BookingOps
         /\ AfterCheck(o) \in {"keys", "group", "write"}
         /\ AfterCheck(o) = "group" => o \in GroupOps
         /\ AfterCheck(o) = "keys" <=> o \in BookingOps
BY DEF OpNames, FirstStage, AfterGroup, AfterCheck, GroupOps, LessonOps,
       TheoryRowOps, PracticeRowOps, BookingOps, CreateOps

\* An advisory lock excludes itself and nothing else.
LEMMA KeyExcludesItself ==
  ASSUME NEW h
  PROVE  Excludes(<<"key", h>>) = {<<"key", h>>}
BY DEF Excludes

\* The keys a booking locks include the resources it uses.
LEMMA KeysToLockTyped ==
  ASSUME TypeOK, NEW p \in Clients
  PROVE  KeysToLock(p) \subseteq Keys /\ tx[p].uses \subseteq KeysToLock(p)
<1>1. tx[p].uses \subseteq Keys
  BY DEF TypeOK, Tx
<1>2. \A g \in Groups : group[g].teacher \in Teachers
  BY DEF TypeOK
<1>. QED
  BY <1>1, <1>2, KeysAreKeys DEF KeysToLock

\* A request that names what its operation works on is a well-formed transaction
\* that has no lock yet.
LEMMA RequestIsWellFormed ==
  ASSUME TypeOK, NEW p \in Clients, NEW o \in OpNames,
         NEW l \in Lessons \cup {None}, NEW g \in Groups \cup {None},
         NEW u \in SUBSET Keys, NEW s \in Nat, NEW d \in Nat, NEW a \in Arg,
         Request(p, o, l, g, u, s, d, a),
         o \in GroupOps => g \in Groups,
         o \in LessonOps => l \in Lessons,
         o \in BookingOps => d \in Durations,
         o = "markAttendance" => a.student \in Students,
         o = "changeStatus" => a.status \in GroupStatus
  PROVE  \E t \in Tx : /\ WellFormed(t)
                       /\ t.stage \in {"group", "row", "check"}
                       /\ tx' = [tx EXCEPT ![p] = t]
                       /\ UNCHANGED <<clock, data, suspended, held>>
<1>. DEFINE t == [stage |-> FirstStage(o), op |-> o, lesson |-> l, group |-> g,
                  uses |-> u, start |-> s, dur |-> d, now |-> clock, keys |-> {},
                  arg |-> a]
<1>1. t \in Tx
  BY StageOfOp DEF Tx, TypeOK, Stages
<1>2. WellFormed(t)
  BY StageOfOp DEF WellFormed
<1>3. t.stage \in {"group", "row", "check"}
  BY StageOfOp
<1>. QED
  BY <1>1, <1>2, <1>3 DEF Request

\* What a client can begin is well formed.
LEMMA BeginIsRequest ==
  ASSUME TypeOK, NEW p \in Clients, Begin(p)
  PROVE  \E t \in Tx : /\ WellFormed(t)
                       /\ t.stage \in {"group", "row", "check"}
                       /\ tx' = [tx EXCEPT ![p] = t]
                       /\ UNCHANGED <<clock, data, suspended, held>>
<1>. DEFINE Begun(o, l, g, u, s, d, a) ==
              /\ Request(p, o, l, g, u, s, d, a)
              /\ l \in Lessons \cup {None} /\ g \in Groups \cup {None}
              /\ u \in SUBSET Keys /\ s \in Nat /\ d \in Nat /\ a \in Arg
              /\ o \in GroupOps => g \in Groups
              /\ o \in LessonOps => l \in Lessons
              /\ o \in BookingOps => d \in Durations
              /\ o = "markAttendance" => a.student \in Students
              /\ o = "changeStatus" => a.status \in GroupStatus
<1>. USE KeysAreKeys
<1>1. Times \subseteq Nat /\ Durations \subseteq Nat /\ NoArg \in Arg
  BY ScheduleAssumption, MaxDurationAssumption DEF Times, Durations, NoArg, Arg
<1>2. ASSUME NEW o \in OpNames, NEW l, NEW g, NEW u, NEW s, NEW d, NEW a,
             Begun(o, l, g, u, s, d, a)
      PROVE  \E t \in Tx : /\ WellFormed(t)
                           /\ t.stage \in {"group", "row", "check"}
                           /\ tx' = [tx EXCEPT ![p] = t]
                           /\ UNCHANGED <<clock, data, suspended, held>>
  BY <1>2, RequestIsWellFormed
<1>. USE <1>1 DEF OpNames, Lessons, BookingOps, GroupOps, LessonOps, CreateOps,
         TheoryRowOps, PracticeRowOps
<1>3. CASE CreateTheory(p)
  <2>1. PICK l \in TheoryIds, g \in Groups, s \in Times, d \in Durations :
          Request(p, "createTheory", l, g, {GroupKey(g)}, s, d, NoArg)
    BY <1>3 DEF CreateTheory
  <2>2. Begun("createTheory", l, g, {GroupKey(g)}, s, d, NoArg)
    BY <2>1
  <2>. QED
    BY <1>2, <2>2
<1>4. CASE CreatePractice(p)
  <2>1. PICK l \in PracticeIds, s \in Times, d \in Durations,
             i \in Instructors, c \in Cars, stud \in Students :
          Request(p, "createPractice", l, None,
                  {InstructorKey(i), CarKey(c), StudentKey(stud)}, s, d, NoArg)
    BY <1>4 DEF CreatePractice
  <2>2. Begun("createPractice", l, None,
              {InstructorKey(i), CarKey(c), StudentKey(stud)}, s, d, NoArg)
    BY <2>1
  <2>. QED
    BY <1>2, <2>2
<1>5. CASE ChangeTheory(p)
  <2>1. PICK l \in TheoryIds, g \in Groups, s \in Times, d \in Durations :
          Request(p, "changeTheory", l, g, {GroupKey(g)}, s, d, NoArg)
    BY <1>5 DEF ChangeTheory, GroupsOf
  <2>2. Begun("changeTheory", l, g, {GroupKey(g)}, s, d, NoArg)
    BY <2>1
  <2>. QED
    BY <1>2, <2>2
<1>6. CASE ChangePractice(p)
  <2>1. PICK l \in PracticeIds, s \in Times, d \in Durations,
             i \in Instructors, c \in Cars, stud \in Students :
          Request(p, "changePractice", l, None,
                  {InstructorKey(i), CarKey(c), StudentKey(stud)}, s, d, NoArg)
    BY <1>6 DEF ChangePractice, StudentsOf
  <2>2. Begun("changePractice", l, None,
              {InstructorKey(i), CarKey(c), StudentKey(stud)}, s, d, NoArg)
    BY <2>1
  <2>. QED
    BY <1>2, <2>2
<1>7. CASE CancelTheory(p)
  <2>1. PICK l \in TheoryIds, g \in Groups :
          Request(p, "cancelTheory", l, g, {}, 0, 0, NoArg)
    BY <1>7 DEF CancelTheory, GroupsOf
  <2>2. Begun("cancelTheory", l, g, {}, 0, 0, NoArg)
    BY <2>1
  <2>. QED
    BY <1>2, <2>2
<1>8. CASE CancelPractice(p)
  <2>1. PICK l \in PracticeIds : Request(p, "cancelPractice", l, None, {}, 0, 0, NoArg)
    BY <1>8 DEF CancelPractice
  <2>2. Begun("cancelPractice", l, None, {}, 0, 0, NoArg)
    BY <2>1
  <2>. QED
    BY <1>2, <2>2
<1>9. CASE MarkAttendance(p)
  <2>1. PICK l \in TheoryIds, g \in Groups, stud \in Students :
          Request(p, "markAttendance", l, g, {}, 0, 0, [NoArg EXCEPT !.student = stud])
    BY <1>9 DEF MarkAttendance, GroupsOf
  <2>2. Begun("markAttendance", l, g, {}, 0, 0, [NoArg EXCEPT !.student = stud])
    BY <2>1 DEF NoArg, Arg
  <2>. QED
    BY <1>2, <2>2
<1>10. CASE ChangeStatus(p)
  <2>1. PICK g \in Groups, next \in GroupStatus :
          Request(p, "changeStatus", None, g, {}, 0, 0, [NoArg EXCEPT !.status = next])
    BY <1>10 DEF ChangeStatus
  <2>2. Begun("changeStatus", None, g, {}, 0, 0, [NoArg EXCEPT !.status = next])
    BY <2>1 DEF NoArg, Arg
  <2>. QED
    BY <1>2, <2>2
<1>11. CASE UpdateGroup(p)
  <2>1. PICK g \in Groups, t \in Teachers, days \in DateRanges :
          Request(p, "updateGroup", None, g, {}, 0, 0,
                  [NoArg EXCEPT !.teacher = t, !.days = days])
    BY <1>11 DEF UpdateGroup
  <2>2. Begun("updateGroup", None, g, {}, 0, 0,
              [NoArg EXCEPT !.teacher = t, !.days = days])
    BY <2>1 DEF NoArg, Arg
  <2>. QED
    BY <1>2, <2>2
<1>. QED
  BY <1>2, <1>3, <1>4, <1>5, <1>6, <1>7, <1>8, <1>9, <1>10, <1>11 DEF Begin
-----------------------------------------------------------------------------
(* Types *)

\* The transactions and the locks keep their types.
TxOK ==
  /\ tx \in [Clients -> Tx]
  /\ \A p \in Clients : WellFormed(tx[p])
  /\ held \in [Clients -> SUBSET Lock]

\* The rows keep their types.
DataOK ==
  /\ group \in [Groups -> [status: GroupStatus, teacher: Teachers, days: DateRanges]]
  /\ enrolled \subseteq Students \X Groups
  /\ lesson \in [Lessons -> LessonRow]
  /\ attendance \in [TheoryIds -> SUBSET Students]
  /\ \A l \in Lessons : Scheduled(l) => lesson[l].dur \in Durations

\* TypeOK split into the clock, the tables and the transactions.
LEMMA TypeOKParts ==
  TypeOK <=> clock \in Nat /\ suspended \subseteq Fickle /\ DataOK /\ TxOK
BY DEF TypeOK, DataOK, TxOK

\* A client without a request is well formed.
LEMMA IdleIsWellFormed == IdleTx \in Tx /\ WellFormed(IdleTx)
BY DEF IdleTx, NoArg, Tx, Arg, WellFormed, Stages, BookingOps, GroupOps, LessonOps,
       CreateOps, TheoryRowOps, PracticeRowOps

\* Commit and rollback leave well-formed transactions.
LEMMA EndTxTyped ==
  ASSUME TxOK, NEW p \in Clients, EndTx(p)
  PROVE  TxOK'
BY IdleIsWellFormed DEF TxOK, EndTx

\* Replacing one transaction by a well-formed one keeps the others.
LEMMA ReplaceTyped ==
  ASSUME TxOK, NEW p \in Clients, NEW t \in Tx, WellFormed(t),
         tx' = [tx EXCEPT ![p] = t], held' \in [Clients -> SUBSET Lock]
  PROVE  TxOK'
BY DEF TxOK

\* A granted lock is a lock.
LEMMA GrantTyped ==
  ASSUME TxOK, NEW p \in Clients, NEW a \in Lock, Grant(p, a)
  PROVE  held' \in [Clients -> SUBSET Lock]
BY DEF TxOK, Grant

\* The empty schedule is well typed.
LEMMA InitTyped == Init => TypeOK
<1>. SUFFICES ASSUME Init PROVE TypeOK
  OBVIOUS
<1>1. TxOK
  BY IdleIsWellFormed DEF Init, TxOK
<1>2. DataOK
  BY DEF Init, DataOK, GroupStatus, LessonRow, NoRow, LessonStatus, Scheduled
<1>. QED
  BY <1>1, <1>2, TypeOKParts DEF Init

\* Taking a lock (lockGroup, lockTheoryLesson, lockPracticeLesson,
\* lockScheduleResources) keeps the transactions well formed.
LEMMA AcquireTyped ==
  ASSUME TypeOK, NEW p \in Clients, Acquire(p)
  PROVE  TxOK'
<1>1. tx[p] \in Tx /\ WellFormed(tx[p])
  BY DEF TypeOK
<1>2. TxOK
  BY TypeOKParts
<1>4. CASE LockGroup(p)
  <2>1. tx[p].op \in OpNames /\ tx[p].group \in Groups
    BY <1>1, <1>4 DEF LockGroup, WellFormed, Tx, GroupOps, OpNames, TheoryRowOps
  <2>2. GroupLock(p) \in Lock
    BY <2>1 DEF GroupLock, Lock
  <2>. DEFINE t == [tx[p] EXCEPT !.stage = AfterGroup(tx[p].op)]
  <2>3. t \in Tx /\ WellFormed(t)
    BY <1>1, <2>1, StageOfOp DEF Tx, WellFormed, Stages
  <2>4. tx' = [tx EXCEPT ![p] = t] /\ held' \in [Clients -> SUBSET Lock]
    BY <1>2, <1>4, <2>2, GrantTyped DEF LockGroup, Goto
  <2>. QED
    BY <1>2, <2>3, <2>4, ReplaceTyped
<1>5. CASE LockLesson(p)
  <2>1. <<"row", tx[p].lesson>> \in Lock
    BY <1>1, <1>5 DEF LockLesson, WellFormed, Lock
  <2>. DEFINE t == [tx[p] EXCEPT !.stage = "check"]
  <2>2. t \in Tx /\ WellFormed(t)
    BY <1>1, <1>5 DEF LockLesson, Tx, WellFormed, Stages
  <2>3. tx' = [tx EXCEPT ![p] = t] /\ held' \in [Clients -> SUBSET Lock]
    BY <1>2, <1>5, <2>1, GrantTyped DEF LockLesson, Goto
  <2>. QED
    BY <1>2, <2>2, <2>3, ReplaceTyped
<1>6. CASE LockKey(p)
  <2>1. PICK k \in NextKeys(p) :
          /\ Grant(p, <<"key", HashOf[k]>>)
          /\ tx' = [tx EXCEPT ![p].keys = @ \ {k},
                              ![p].stage = IF tx[p].keys = {k} THEN "search" ELSE "keys"]
    BY <1>6 DEF LockKey
  <2>2. <<"key", HashOf[k]>> \in Lock
    BY <1>1 DEF NextKeys, Tx, Lock
  <2>. DEFINE t == [tx[p] EXCEPT !.keys = @ \ {k},
                                 !.stage = IF tx[p].keys = {k} THEN "search" ELSE "keys"]
  <2>3. t \in Tx /\ WellFormed(t)
    BY <1>1, <1>6 DEF LockKey, Tx, WellFormed, Stages
  <2>4. tx' = [tx EXCEPT ![p] = t]
    BY <2>1 DEF TypeOK
  <2>5. held' \in [Clients -> SUBSET Lock]
    BY <1>2, <2>1, <2>2, GrantTyped
  <2>. QED
    BY <1>2, <2>3, <2>4, <2>5, ReplaceTyped
<1>. QED
  BY <1>4, <1>5, <1>6 DEF Acquire

\* The fields that an update of a group changes are an argument again.
LEMMA ChangedFieldsTyped ==
  ASSUME NEW p, tx[p].arg \in Arg
  PROVE  ChangedFields(p) \in Arg
BY DEF ChangedFields, NoArg, Arg

\* The checks of a request keep the transactions well formed.
LEMMA CheckTyped ==
  ASSUME TypeOK, NEW p \in Clients, Check(p)
  PROVE  TxOK'
<1>1. tx[p] \in Tx /\ WellFormed(tx[p]) /\ TxOK
  BY DEF TypeOK, TxOK
<1>2. CASE EndTx(p)
  BY <1>1, <1>2, EndTxTyped
<1>3. CASE ~EndTx(p)
  <2>. DEFINE t == [tx[p] EXCEPT !.stage = AfterCheck(tx[p].op),
                                 !.keys = IF tx[p].op \in BookingOps
                                          THEN KeysToLock(p) ELSE {},
                                 !.arg = IF tx[p].op = "updateGroup"
                                         THEN ChangedFields(p) ELSE @]
  <2>1. tx' = [tx EXCEPT ![p] = t] /\ held' = held /\ tx[p].stage = "check"
    BY <1>3 DEF Check, TypeOK
  <2>2. tx[p].op \in OpNames
    BY <1>1, <2>1 DEF WellFormed
  <2>3. t \in Tx /\ WellFormed(t)
    BY <1>1, <2>2, StageOfOp, KeysToLockTyped, ChangedFieldsTyped
       DEF Tx, WellFormed, Stages
  <2>. QED
    BY <1>1, <2>1, <2>3, ReplaceTyped DEF TxOK
<1>. QED
  BY <1>2, <1>3

\* A step that ends the transaction and keeps the types of the rows.
LEMMA WriteTyped ==
  ASSUME TypeOK, NEW p \in Clients, Write(p)
  PROVE  DataOK' /\ TxOK'
<1>1. tx[p] \in Tx /\ WellFormed(tx[p]) /\ TxOK /\ DataOK
  BY DEF TypeOK, TxOK, DataOK
<1>2. EndTx(p)
  BY DEF Write, WriteBooking, WriteCancel, WriteAttendance, WriteStatus, WriteGroup
<1>3. TxOK'
  BY <1>1, <1>2, EndTxTyped
<1>4. CASE WriteBooking(p)
  <2>. DEFINE t == tx[p]
              row == [status |-> IF t.op \in CreateOps THEN "SCHEDULED"
                                 ELSE lesson[t.lesson].status,
                      uses |-> t.uses, start |-> t.start, dur |-> t.dur]
  <2>1. t.lesson \in Lessons /\ t.dur \in Durations
    BY <1>1, <1>4 DEF WriteBooking, Writing, WellFormed, BookingOps, LessonOps,
                      CreateOps, TheoryRowOps, PracticeRowOps
  <2>2. row \in LessonRow
    BY <1>1, <2>1 DEF DataOK, LessonRow, LessonStatus, Tx
  <2>3. lesson' = [lesson EXCEPT ![t.lesson] = row]
    BY <1>4, <2>1 DEF WriteBooking
  <2>4. UNCHANGED <<group, enrolled, attendance>>
    BY <1>4 DEF WriteBooking
  <2>. HIDE DEF row
  <2>5. lesson' \in [Lessons -> LessonRow]
    BY <1>1, <2>2, <2>3 DEF DataOK
  <2>6. \A l \in Lessons : Scheduled(l)' => lesson'[l].dur \in Durations
    BY <1>1, <2>1, <2>3 DEF DataOK, Scheduled, row
  <2>. QED
    BY <1>1, <1>3, <2>4, <2>5, <2>6 DEF DataOK
<1>5. CASE WriteCancel(p)
  BY <1>1, <1>3, <1>5 DEF WriteCancel, DataOK, LessonRow, LessonStatus, Scheduled
<1>6. CASE WriteAttendance(p)
  <2>1. tx[p].arg.student \in Students
    BY <1>1, <1>6 DEF WriteAttendance, Writing, WellFormed
  <2>. QED
    BY <1>1, <1>3, <1>6, <2>1 DEF WriteAttendance, DataOK, Scheduled
<1>7. CASE WriteStatus(p)
  <2>1. tx[p].arg.status \in GroupStatus
    BY <1>1, <1>7 DEF WriteStatus, Writing, WellFormed
  <2>2. group' \in [Groups -> [status: GroupStatus, teacher: Teachers, days: DateRanges]]
    BY <1>1, <1>7, <2>1 DEF WriteStatus, DataOK
  <2>3. enrolled' \subseteq Students \X Groups /\ attendance' = attendance
    BY <1>1, <1>7 DEF WriteStatus, DataOK
  <2>4. /\ lesson' \in [Lessons -> LessonRow]
        /\ \A l \in Lessons : Scheduled(l)' => lesson'[l].dur \in Durations
    BY <1>1, <1>7 DEF WriteStatus, DataOK, LessonRow, LessonStatus, Scheduled
  <2>. QED
    BY <1>1, <1>3, <2>2, <2>3, <2>4 DEF DataOK
<1>8. CASE WriteGroup(p)
  <2>. DEFINE new == tx[p].arg
              row == [group[tx[p].group] EXCEPT
                        !.teacher = IF new.teacher = None THEN @ ELSE new.teacher,
                        !.days    = IF new.days = None THEN @ ELSE new.days]
  <2>1. new.teacher \in Teachers \cup {None} /\ new.days \in DateRanges \cup {None}
    BY <1>1 DEF Tx, Arg
  <2>2. tx[p].group \in Groups
    BY <1>1, <1>8 DEF WriteGroup, Writing, WellFormed, GroupOps
  <2>3. group[tx[p].group] \in
          [status: GroupStatus, teacher: Teachers, days: DateRanges]
    BY <1>1, <2>2 DEF DataOK
  <2>. HIDE DEF new
  <2>4. row \in [status: GroupStatus, teacher: Teachers, days: DateRanges]
    BY <2>1, <2>3
  <2>5. group' = [group EXCEPT ![tx[p].group] = row]
    BY <1>1, <1>8, <2>2 DEF WriteGroup, new, DataOK
  <2>. HIDE DEF row
  <2>6. group' \in [Groups -> [status: GroupStatus, teacher: Teachers, days: DateRanges]]
    BY <1>1, <2>4, <2>5 DEF DataOK
  <2>. QED
    BY <1>1, <1>3, <1>8, <2>6 DEF WriteGroup, DataOK, Scheduled
<1>. QED
  BY <1>4, <1>5, <1>6, <1>7, <1>8 DEF Write

\* The clock, enrolment and suspension keep the types.
LEMMA EnvironmentTyped ==
  ASSUME TypeOK, Environment
  PROVE  TypeOK'
<1>1. CASE Tick
  BY <1>1 DEF Tick, TypeOK, Scheduled
<1>2. ASSUME NEW s \in Students, NEW g \in Groups, Enrol(s, g) \/ Withdraw(s, g)
      PROVE  TypeOK'
  <2>1. enrolled' \subseteq Students \X Groups
    BY <1>2 DEF Enrol, Withdraw, TypeOK
  <2>. QED
    BY <1>2, <2>1 DEF Enrol, Withdraw, TypeOK, Scheduled
<1>3. ASSUME NEW r \in Fickle, Suspend(r) PROVE TypeOK'
  BY <1>3 DEF Suspend, TypeOK, Scheduled
<1>. QED
  BY <1>1, <1>2, <1>3 DEF Environment

\* TypeOK is inductive.
LEMMA NextTyped == TypeOK /\ [Next]_vars => TypeOK'
<1>. SUFFICES ASSUME TypeOK, [Next]_vars PROVE TypeOK'
  OBVIOUS
<1>1. TxOK /\ DataOK
  BY TypeOKParts
<1>2. ASSUME NEW p \in Clients, Begin(p) PROVE TypeOK'
  <2>1. PICK t \in Tx : /\ WellFormed(t)
                        /\ tx' = [tx EXCEPT ![p] = t]
                        /\ UNCHANGED <<clock, data, suspended, held>>
    BY <1>2, BeginIsRequest
  <2>2. TxOK'
    BY <1>1, <2>1, ReplaceTyped DEF TxOK
  <2>. QED
    BY <2>1, <2>2 DEF TypeOK, TxOK, data, Scheduled
<1>3. ASSUME NEW p \in Clients, Acquire(p) PROVE TypeOK'
  <2>1. UNCHANGED <<clock, data, suspended>>
    BY <1>3 DEF Acquire, LockGroup, LockLesson, LockKey
  <2>. QED
    BY <1>3, <2>1, AcquireTyped DEF TypeOK, TxOK, data, Scheduled
<1>4. ASSUME NEW p \in Clients, Check(p) PROVE TypeOK'
  <2>1. UNCHANGED <<clock, data, suspended>>
    BY <1>4 DEF Check
  <2>. QED
    BY <1>4, <2>1, CheckTyped DEF TypeOK, TxOK, data, Scheduled
<1>5. ASSUME NEW p \in Clients, Search(p) PROVE TypeOK'
  <2>1. UNCHANGED <<clock, data, suspended>>
    BY <1>5 DEF Search
  <2>2. CASE EndTx(p)
    BY <1>1, <2>1, <2>2, EndTxTyped DEF TypeOK, TxOK, data, Scheduled
  <2>3. CASE Goto(p, "write") /\ UNCHANGED held
    <3>. DEFINE t == [tx[p] EXCEPT !.stage = "write"]
    <3>1. t \in Tx /\ WellFormed(t)
      BY <1>1, <1>5 DEF Search, TxOK, Tx, WellFormed, Stages
    <3>2. tx' = [tx EXCEPT ![p] = t]
      BY <2>3 DEF Goto
    <3>3. TxOK'
      BY <1>1, <2>3, <3>1, <3>2, ReplaceTyped DEF TxOK
    <3>. QED
      BY <2>1, <3>3 DEF TypeOK, TxOK, data, Scheduled
  <2>. QED
    BY <1>5, <2>2, <2>3 DEF Search
<1>6. ASSUME NEW p \in Clients, Write(p) PROVE TypeOK'
  <2>1. UNCHANGED <<clock, suspended>>
    BY <1>6 DEF Write, WriteBooking, WriteCancel, WriteAttendance, WriteStatus, WriteGroup
  <2>. QED
    BY <1>6, <2>1, WriteTyped DEF TypeOK, DataOK, TxOK
<1>7. ASSUME NEW p \in Clients, Abort(p) PROVE TypeOK'
  BY <1>1, <1>7, EndTxTyped DEF Abort, TypeOK, TxOK, data, Scheduled
<1>8. CASE UNCHANGED vars
  BY <1>8 DEF vars, TypeOK, Scheduled
<1>. QED
  BY <1>2, <1>3, <1>4, <1>5, <1>6, <1>7, <1>8, EnvironmentTyped DEF Next, Proceed

\* Every reachable state is well typed: TypeOK of LessonSchedule.
THEOREM TypesKept == Spec => []TypeOK
BY InitTyped, NextTyped, PTL DEF Spec

-----------------------------------------------------------------------------
(* No double booking *)

\* No advisory lock has two holders.
KeyLocksExclusive ==
  \A p \in Clients : \A q \in Clients \ {p} : \A k \in Keys :
    <<"key", HashOf[k]>> \in held[p] => <<"key", HashOf[k]>> \notin held[q]

\* A booking holds the lock of every resource it uses and has asked for, and
\* it searches and writes only when it has asked for all.
KeysHeld ==
  \A p \in Clients :
    tx[p].op \in BookingOps /\ tx[p].stage \in {"keys", "search", "write"} =>
      /\ \A k \in tx[p].uses \ tx[p].keys : <<"key", HashOf[k]>> \in held[p]
      /\ tx[p].stage # "keys" => tx[p].keys = {}

\* The inductive invariant.  NoDoubleBooking alone is not inductive: that a
\* booking may be written follows from what its search has found and from the
\* keys that have kept every other booking of the same resources out since then.
IInv ==
  /\ TypeOK
  /\ KeyLocksExclusive
  /\ KeysHeld
  /\ SearchStaysValid
  /\ NoDoubleBooking

\* The invariant holds of the empty schedule.
LEMMA InitIInv == Init => IInv
<1>. SUFFICES ASSUME Init PROVE IInv
  OBVIOUS
<1>1. KeyLocksExclusive /\ KeysHeld /\ SearchStaysValid /\ NoDoubleBooking
  BY DEF Init, KeyLocksExclusive, KeysHeld, SearchStaysValid, NoDoubleBooking,
         Writing, Clash, Scheduled, IdleTx, NoRow
<1>. QED
  BY <1>1, InitTyped DEF IInv

\* What every step but the write of a booking does to the scheduled lessons: it
\* leaves them as they are, or cancels some.
RowsKept ==
  \A l \in Lessons : Scheduled(l)' => Scheduled(l) /\ lesson'[l] = lesson[l]

\* A step that adds and moves no scheduled lesson books nothing twice.
LEMMA NoDoubleBookingKept ==
  ASSUME NoDoubleBooking, RowsKept
  PROVE  NoDoubleBooking'
BY DEF NoDoubleBooking, RowsKept, Clash, Scheduled

\* A step that adds and moves no lesson and begins no write leaves every
\* search result valid.
LEMMA SearchKept ==
  ASSUME SearchStaysValid, RowsKept,
         \A q \in Clients : Writing(q, BookingOps)' => tx'[q] = tx[q]
  PROVE  SearchStaysValid'
BY DEF SearchStaysValid, RowsKept, Writing, Scheduled, Overlaps, LessonEnd

\* A step that gives up the locks and the transaction of p.
LEMMA EndTxLocks ==
  ASSUME IInv, NEW p \in Clients, EndTx(p)
  PROVE  /\ KeyLocksExclusive'
         /\ KeysHeld'
         /\ \A q \in Clients : Writing(q, BookingOps)' => q # p /\ tx'[q] = tx[q]
<1>1. /\ tx' = [tx EXCEPT ![p] = IdleTx] /\ tx \in [Clients -> Tx]
      /\ held' = [held EXCEPT ![p] = {}] /\ held \in [Clients -> SUBSET Lock]
  BY DEF EndTx, IInv, TypeOK
<1>2. KeyLocksExclusive'
  BY <1>1 DEF IInv, KeyLocksExclusive
<1>3. IdleTx.op \notin BookingOps /\ IdleTx.stage = "idle"
  BY DEF IdleTx, BookingOps
<1>4. KeysHeld'
  BY <1>1, <1>3 DEF IInv, KeysHeld
<1>. QED
  BY <1>1, <1>2, <1>3, <1>4 DEF Writing

\* Granting an advisory lock leaves it with one holder.
LEMMA GrantExclusive ==
  ASSUME IInv, NEW p \in Clients, NEW a \in Lock, Grant(p, a),
         \A h : a = <<"key", h>> => Excludes(a) = {a}
  PROVE  KeyLocksExclusive'
BY DEF IInv, TypeOK, KeyLocksExclusive, Grant

\* A request begins with no key.
LEMMA BeginIInv ==
  ASSUME IInv, NEW p \in Clients, Begin(p)
  PROVE  KeyLocksExclusive' /\ KeysHeld' /\ SearchStaysValid' /\ NoDoubleBooking'
<1>1. PICK t \in Tx : /\ t.stage \in {"group", "row", "check"}
                      /\ tx' = [tx EXCEPT ![p] = t]
                      /\ UNCHANGED <<clock, data, suspended, held>>
  BY BeginIsRequest DEF IInv
<1>2. KeyLocksExclusive' /\ KeysHeld'
  BY <1>1 DEF IInv, TypeOK, KeyLocksExclusive, KeysHeld
<1>3. RowsKept /\ \A q \in Clients : Writing(q, BookingOps)' => tx'[q] = tx[q]
  BY <1>1 DEF IInv, TypeOK, RowsKept, Writing, data, Scheduled
<1>. QED
  BY <1>2, <1>3, NoDoubleBookingKept, SearchKept DEF IInv

\* Taking a lock keeps the invariant.
LEMMA AcquireIInv ==
  ASSUME IInv, NEW p \in Clients, Acquire(p)
  PROVE  KeyLocksExclusive' /\ KeysHeld' /\ SearchStaysValid' /\ NoDoubleBooking'
<1>1. /\ tx[p] \in Tx /\ WellFormed(tx[p]) /\ tx \in [Clients -> Tx]
      /\ held \in [Clients -> SUBSET Lock]
      /\ UNCHANGED lesson
  BY DEF IInv, TypeOK, Acquire, LockGroup, LockLesson, LockKey, data
<1>2. RowsKept
  BY <1>1 DEF RowsKept, Scheduled
<1>3. CASE LockGroup(p)
  <2>1. tx[p].op \in OpNames /\ tx[p].group \in Groups /\ tx[p].stage = "group"
    BY <1>1, <1>3 DEF LockGroup, WellFormed, GroupOps, OpNames, TheoryRowOps
  <2>2. GroupLock(p) \in Lock /\ \A h : GroupLock(p) # <<"key", h>>
    BY <2>1 DEF GroupLock, Lock
  <2>3. KeyLocksExclusive'
    BY <1>3, <2>2, GrantExclusive DEF LockGroup
  <2>4. /\ tx' = [tx EXCEPT ![p].stage = AfterGroup(tx[p].op)]
        /\ AfterGroup(tx[p].op) \in {"row", "check", "write"}
        /\ AfterGroup(tx[p].op) = "write" => tx[p].op \notin BookingOps
    BY <1>3, <2>1, StageOfOp DEF LockGroup, Goto
  <2>5. KeysHeld'
    BY <1>1, <1>3, <2>4 DEF IInv, KeysHeld, LockGroup, Grant
  <2>6. \A q \in Clients : Writing(q, BookingOps)' => tx'[q] = tx[q]
    BY <1>1, <2>4 DEF Writing
  <2>. QED
    BY <1>2, <2>3, <2>5, <2>6, NoDoubleBookingKept, SearchKept DEF IInv
<1>4. CASE LockLesson(p)
  <2>. DEFINE a == <<"row", tx[p].lesson>>
  <2>1. a \in Lock /\ \A h : a # <<"key", h>>
    BY <1>1, <1>4 DEF LockLesson, WellFormed, Lock
  <2>2. KeyLocksExclusive'
    BY <1>4, <2>1, GrantExclusive DEF LockLesson
  <2>3. tx' = [tx EXCEPT ![p].stage = "check"]
    BY <1>4 DEF LockLesson, Goto
  <2>4. KeysHeld'
    BY <1>1, <1>4, <2>3 DEF IInv, KeysHeld, LockLesson, Grant
  <2>5. \A q \in Clients : Writing(q, BookingOps)' => tx'[q] = tx[q]
    BY <1>1, <2>3 DEF Writing
  <2>. QED
    BY <1>2, <2>2, <2>4, <2>5, NoDoubleBookingKept, SearchKept DEF IInv
<1>5. CASE LockKey(p)
  <2>1. PICK k \in NextKeys(p) :
          /\ Grant(p, <<"key", HashOf[k]>>)
          /\ tx' = [tx EXCEPT ![p].keys = @ \ {k},
                              ![p].stage = IF tx[p].keys = {k} THEN "search" ELSE "keys"]
    BY <1>5 DEF LockKey
  <2>. DEFINE a == <<"key", HashOf[k]>>
              t == [tx[p] EXCEPT !.keys = @ \ {k},
                                 !.stage = IF tx[p].keys = {k} THEN "search" ELSE "keys"]
  <2>2. k \in Keys /\ k \in tx[p].keys /\ a \in Lock
    BY <1>1 DEF NextKeys, Tx, Lock
  <2>3. KeyLocksExclusive'
    BY <2>1, <2>2, KeyExcludesItself, GrantExclusive
  <2>4. /\ tx' = [tx EXCEPT ![p] = t]
        /\ held' = [held EXCEPT ![p] = @ \cup {a}]
        /\ tx[p].stage = "keys"
    BY <1>1, <1>5, <2>1 DEF LockKey, Grant
  <2>5. /\ t.op = tx[p].op /\ t.uses = tx[p].uses /\ t.keys = tx[p].keys \ {k}
        /\ t.stage \in {"keys", "search"}
        /\ t.stage # "keys" => t.keys = {}
    BY <1>1, <2>2 DEF Tx
  <2>. HIDE DEF t, a
  <2>6. KeysHeld'
    <3>. SUFFICES ASSUME NEW q \in Clients, tx'[q].op \in BookingOps,
                         tx'[q].stage \in {"keys", "search", "write"}
                  PROVE  /\ \A j \in tx'[q].uses \ tx'[q].keys :
                              <<"key", HashOf[j]>> \in held'[q]
                         /\ tx'[q].stage # "keys" => tx'[q].keys = {}
      BY DEF KeysHeld
    <3>1. CASE q # p
      BY <1>1, <2>4, <3>1 DEF IInv, KeysHeld
    <3>2. CASE q = p
      <4>1. tx'[p] = t /\ held'[p] = held[p] \cup {a}
        BY <1>1, <2>4
      <4>2. \A j \in tx[p].uses \ tx[p].keys : <<"key", HashOf[j]>> \in held[p]
        BY <2>4, <2>5, <3>2, <4>1 DEF IInv, KeysHeld
      <4>. QED
        BY <2>5, <3>2, <4>1, <4>2 DEF a
    <3>. QED
      BY <3>1, <3>2
  <2>7. \A q \in Clients : Writing(q, BookingOps)' => tx'[q] = tx[q]
    BY <1>1, <2>4, <2>5 DEF Writing
  <2>. QED
    BY <1>2, <2>3, <2>6, <2>7, NoDoubleBookingKept, SearchKept DEF IInv
<1>. QED
  BY <1>3, <1>4, <1>5 DEF Acquire

\* The checks of a request keep the invariant: a booking that passes them
\* begins with no key.
LEMMA CheckIInv ==
  ASSUME IInv, NEW p \in Clients, Check(p)
  PROVE  KeyLocksExclusive' /\ KeysHeld' /\ SearchStaysValid' /\ NoDoubleBooking'
<1>1. /\ tx[p] \in Tx /\ WellFormed(tx[p]) /\ tx \in [Clients -> Tx]
      /\ UNCHANGED lesson
  BY DEF IInv, TypeOK, Check, data
<1>2. RowsKept
  BY <1>1 DEF RowsKept, Scheduled
<1>3. CASE EndTx(p)
  BY <1>2, <1>3, EndTxLocks, NoDoubleBookingKept, SearchKept DEF IInv
<1>4. CASE ~EndTx(p)
  <2>. DEFINE t == [tx[p] EXCEPT !.stage = AfterCheck(tx[p].op),
                                 !.keys = IF tx[p].op \in BookingOps
                                          THEN KeysToLock(p) ELSE {},
                                 !.arg = IF tx[p].op = "updateGroup"
                                         THEN ChangedFields(p) ELSE @]
  <2>1. tx' = [tx EXCEPT ![p] = t] /\ held' = held /\ tx[p].stage = "check"
    BY <1>1, <1>4 DEF Check
  <2>2. tx[p].op \in OpNames
    BY <1>1, <2>1 DEF WellFormed
  <2>3. /\ t.op = tx[p].op /\ t.uses = tx[p].uses
        /\ t.op \in BookingOps => t.stage = "keys" /\ t.uses \subseteq t.keys
    BY <1>1, <2>2, StageOfOp, KeysToLockTyped DEF Tx, IInv
  <2>. HIDE DEF t
  <2>4. KeyLocksExclusive'
    BY <2>1 DEF IInv, KeyLocksExclusive
  <2>5. KeysHeld'
    BY <1>1, <2>1, <2>3 DEF IInv, KeysHeld
  <2>6. \A q \in Clients : Writing(q, BookingOps)' => tx'[q] = tx[q]
    BY <1>1, <2>1, <2>3 DEF Writing
  <2>. QED
    BY <1>2, <2>4, <2>5, <2>6, NoDoubleBookingKept, SearchKept DEF IInv
<1>. QED
  BY <1>3, <1>4

\* A search that reports nothing has found the slot free.
LEMMA SearchFindsFree ==
  ASSUME IInv, NEW p \in Clients, tx[p].op \in BookingOps,
         ~ \E l \in Lessons : Conflicts(p, l)
  PROVE  \A l \in Lessons \ {tx[p].lesson} :
           Scheduled(l) /\ lesson[l].uses \cap tx[p].uses # {}
             => ~Overlaps(tx[p], lesson[l])
<1>. SUFFICES ASSUME NEW l \in Lessons \ {tx[p].lesson}, Scheduled(l),
                     lesson[l].uses \cap tx[p].uses # {},
                     Overlaps(tx[p], lesson[l])
              PROVE  FALSE
  OBVIOUS
<1>1. /\ tx[p].start \in Nat /\ tx[p].dur \in Nat
      /\ lesson[l].start \in Nat /\ lesson[l].dur \in Durations
  BY DEF IInv, TypeOK, Tx, LessonRow
<1>2. Collides(tx[p], lesson[l])
  BY <1>1, CollidesIsOverlaps
<1>3. Related(tx[p].uses, lesson[l].uses)
  BY DEF Related
<1>. QED
  BY <1>2, <1>3 DEF Conflicts

\* A search that finds nothing makes its result valid.
LEMMA SearchIInv ==
  ASSUME IInv, NEW p \in Clients, Search(p)
  PROVE  KeyLocksExclusive' /\ KeysHeld' /\ SearchStaysValid' /\ NoDoubleBooking'
<1>1. tx \in [Clients -> Tx] /\ tx[p].stage = "search" /\ UNCHANGED lesson
  BY DEF IInv, TypeOK, Search, data
<1>2. RowsKept
  BY <1>1 DEF RowsKept, Scheduled
<1>3. CASE \E l \in Lessons : Conflicts(p, l)
  BY <1>2, <1>3, EndTxLocks, NoDoubleBookingKept, SearchKept DEF IInv, Search
<1>4. CASE ~ \E l \in Lessons : Conflicts(p, l)
  <2>1. tx' = [tx EXCEPT ![p].stage = "write"] /\ held' = held
    BY <1>4 DEF Search, Goto
  <2>2. KeyLocksExclusive' /\ KeysHeld'
    BY <1>1, <2>1 DEF IInv, KeyLocksExclusive, KeysHeld
  <2>3. SearchStaysValid'
    <3>. SUFFICES ASSUME NEW q \in Clients, Writing(q, BookingOps)'
                  PROVE  \A l \in Lessons \ {tx'[q].lesson} :
                           Scheduled(l)' /\ lesson'[l].uses \cap tx'[q].uses # {}
                             => ~Overlaps(tx'[q], lesson'[l])
      BY DEF SearchStaysValid
    <3>1. CASE q # p
      BY <1>1, <2>1, <3>1 DEF IInv, SearchStaysValid, Writing, Scheduled
    <3>2. CASE q = p
      <4>1. /\ tx'[p].lesson = tx[p].lesson /\ tx'[p].uses = tx[p].uses
            /\ tx'[p].start = tx[p].start /\ tx'[p].dur = tx[p].dur
            /\ tx'[p].op = tx[p].op
        BY <1>1, <2>1
      <4>2. tx[p].op \in BookingOps
        BY <3>2, <4>1 DEF Writing
      <4>. QED
        BY <1>1, <1>4, <3>2, <4>1, <4>2, SearchFindsFree
           DEF Scheduled, Overlaps, LessonEnd
    <3>. QED
      BY <3>1, <3>2
  <2>. QED
    BY <1>2, <2>2, <2>3, NoDoubleBookingKept DEF IInv
<1>. QED
  BY <1>3, <1>4

\* Two bookings that are both past their search use no resource in common.
LEMMA WritersDisjoint ==
  ASSUME IInv, NEW p \in Clients, NEW q \in Clients \ {p},
         Writing(p, BookingOps), Writing(q, BookingOps)
  PROVE  tx[p].uses \cap tx[q].uses = {}
<1>. SUFFICES ASSUME NEW k \in tx[p].uses \cap tx[q].uses PROVE FALSE
  OBVIOUS
<1>1. k \in Keys
  BY DEF IInv, TypeOK, Tx
<1>2. <<"key", HashOf[k]>> \in held[p] /\ <<"key", HashOf[k]>> \in held[q]
  BY DEF IInv, KeysHeld, Writing
<1>. QED
  BY <1>1, <1>2 DEF IInv, KeyLocksExclusive

\* A booking is written into a slot that is still free, and outside the slots
\* that other searches have found free.
LEMMA WriteBookingIInv ==
  ASSUME IInv, NEW p \in Clients, WriteBooking(p)
  PROVE  SearchStaysValid' /\ NoDoubleBooking'
<1>. DEFINE t == tx[p]
            row == [status |-> IF t.op \in CreateOps THEN "SCHEDULED"
                               ELSE lesson[t.lesson].status,
                    uses |-> t.uses, start |-> t.start, dur |-> t.dur]
<1>1. t \in Tx /\ WellFormed(t) /\ lesson \in [Lessons -> LessonRow]
  BY DEF IInv, TypeOK
<1>2. t.lesson \in Lessons /\ Writing(p, BookingOps)
  BY <1>1 DEF WriteBooking, Writing, WellFormed, BookingOps, LessonOps,
              CreateOps, TheoryRowOps, PracticeRowOps
<1>3. lesson' = [lesson EXCEPT ![t.lesson] = row] /\ EndTx(p)
  BY <1>2 DEF WriteBooking
<1>4. row.uses = t.uses /\ row.start = t.start /\ row.dur = t.dur
  OBVIOUS
<1>. HIDE DEF row
<1>5. /\ lesson'[t.lesson] = row
      /\ \A l \in Lessons \ {t.lesson} : lesson'[l] = lesson[l]
  BY <1>1, <1>2, <1>3
<1>6. /\ t.start \in Nat /\ t.dur \in Nat
      /\ \A l \in Lessons : lesson[l].start \in Nat /\ lesson[l].dur \in Nat
  BY <1>1 DEF Tx, LessonRow
<1>7. \A l \in Lessons \ {t.lesson} :
        Scheduled(l) /\ lesson[l].uses \cap t.uses # {} => ~Overlaps(t, lesson[l])
  BY <1>2 DEF IInv, SearchStaysValid
<1>8. NoDoubleBooking'
  <2>. SUFFICES ASSUME NEW l \in Lessons, NEW m \in Lessons, Clash(l, m)'
                PROVE  lesson'[l].uses \cap lesson'[m].uses = {}
    BY DEF NoDoubleBooking
  <2>1. CASE l # t.lesson /\ m # t.lesson
    BY <1>5, <2>1 DEF IInv, NoDoubleBooking, Clash, Scheduled
  <2>2. CASE l = t.lesson /\ m # t.lesson
    <3>1. Scheduled(m) /\ Overlaps(t, lesson[m])
      BY <1>4, <1>5, <2>2 DEF Clash, Scheduled, Overlaps, LessonEnd
    <3>. QED
      BY <1>4, <1>5, <1>7, <2>2, <3>1
  <2>3. CASE l # t.lesson /\ m = t.lesson
    <3>1. Scheduled(l) /\ Overlaps(lesson[l], t)
      BY <1>4, <1>5, <2>3 DEF Clash, Scheduled, Overlaps, LessonEnd
    <3>2. Overlaps(t, lesson[l])
      BY <1>6, <3>1, OverlapsSymmetric
    <3>. QED
      BY <1>4, <1>5, <1>7, <2>3, <3>1, <3>2
  <2>. QED
    BY <2>1, <2>2, <2>3 DEF Clash
<1>9. SearchStaysValid'
  <2>. SUFFICES ASSUME NEW q \in Clients, Writing(q, BookingOps)',
                       NEW l \in Lessons \ {tx'[q].lesson}, Scheduled(l)',
                       lesson'[l].uses \cap tx'[q].uses # {}
                PROVE  ~Overlaps(tx'[q], lesson'[l])
    BY DEF SearchStaysValid
  <2>1. q # p /\ tx'[q] = tx[q] /\ Writing(q, BookingOps)
    BY <1>3, EndTxLocks DEF Writing
  <2>2. CASE l = t.lesson
    BY <1>2, <1>4, <1>5, <2>1, <2>2, WritersDisjoint
  <2>3. CASE l # t.lesson
    BY <1>5, <2>1, <2>3 DEF IInv, SearchStaysValid, Scheduled
  <2>. QED
    BY <2>2, <2>3
<1>. QED
  BY <1>8, <1>9

\* The writes keep the invariant.
LEMMA WriteIInv ==
  ASSUME IInv, NEW p \in Clients, Write(p)
  PROVE  KeyLocksExclusive' /\ KeysHeld' /\ SearchStaysValid' /\ NoDoubleBooking'
<1>1. EndTx(p)
  BY DEF Write, WriteBooking, WriteCancel, WriteAttendance, WriteStatus, WriteGroup
<1>2. CASE WriteBooking(p)
  BY <1>1, <1>2, EndTxLocks, WriteBookingIInv
<1>3. CASE ~WriteBooking(p)
  <2>1. RowsKept
    <3>1. CASE WriteCancel(p)
      BY <3>1 DEF WriteCancel, RowsKept, Scheduled, IInv, TypeOK, LessonRow
    <3>2. CASE WriteAttendance(p) \/ WriteGroup(p)
      BY <3>2 DEF WriteAttendance, WriteGroup, RowsKept, Scheduled
    <3>3. CASE WriteStatus(p)
      BY <3>3 DEF WriteStatus, RowsKept, Scheduled, IInv, TypeOK, LessonRow
    <3>. QED
      BY <1>3, <3>1, <3>2, <3>3 DEF Write
  <2>. QED
    BY <1>1, <2>1, EndTxLocks, NoDoubleBookingKept, SearchKept DEF IInv
<1>. QED
  BY <1>2, <1>3

\* IInv is inductive.
LEMMA NextIInv == IInv /\ [Next]_vars => IInv'
<1>. SUFFICES ASSUME IInv, [Next]_vars
              PROVE  KeyLocksExclusive' /\ KeysHeld' /\ SearchStaysValid'
                       /\ NoDoubleBooking'
  BY NextTyped DEF IInv
<1>1. ASSUME NEW p \in Clients, Abort(p)
      PROVE  KeyLocksExclusive' /\ KeysHeld' /\ SearchStaysValid' /\ NoDoubleBooking'
  <2>1. RowsKept /\ EndTx(p)
    BY <1>1 DEF Abort, data, RowsKept, Scheduled
  <2>. QED
    BY <2>1, EndTxLocks, NoDoubleBookingKept, SearchKept DEF IInv
<1>2. CASE Environment \/ UNCHANGED vars
  <2>1. UNCHANGED <<lesson, tx, held>>
    BY <1>2 DEF Environment, Tick, Enrol, Withdraw, Suspend, vars
  <2>. QED
    BY <2>1 DEF IInv, KeyLocksExclusive, KeysHeld, SearchStaysValid, NoDoubleBooking,
                Writing, Clash, Scheduled
<1>. QED
  BY <1>1, <1>2, BeginIInv, AcquireIInv, CheckIInv, SearchIInv, WriteIInv
     DEF Next, Proceed

\* However requests, aborts and changes around them interleave, and for any
\* number of them: two scheduled lessons that overlap share no group, instructor,
\* car or student (NoDoubleBooking of LessonSchedule).
THEOREM NeverDoubleBooked == Spec => []NoDoubleBooking
<1>1. IInv => NoDoubleBooking
  BY DEF IInv
<1>. QED
  BY <1>1, InitIInv, NextIInv, PTL DEF Spec

\* The verdict of a conflict search holds until the booking commits.
THEOREM SearchNeverStale == Spec => []SearchStaysValid
<1>1. IInv => SearchStaysValid
  BY DEF IInv
<1>. QED
  BY <1>1, InitIInv, NextIInv, PTL DEF Spec
=============================================================================
