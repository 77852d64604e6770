------------------------ MODULE LessonResourceProofs ------------------------
(***************************************************************************)
(* Lessons need more than the keys they use: theory needs the teacher of   *)
(* the group, and a student in the car must not be in class.  The proofs   *)
(* of this module extend the argument of LessonScheduleProofs to these     *)
(* indirect resources, for as long as what makes them needed stays: where  *)
(* no group changes its teacher, and for students whose enrolment is not   *)
(* changed by others.                                                      *)
(***************************************************************************)
EXTENDS LessonScheduleProofs

-----------------------------------------------------------------------------
(* The invariant *)

FixedTeachers == "updateGroup" \notin Ops

\* A student who does not move uses u while a group of the student's uses v.
FixedClass(u, v) ==
  \E e \in enrolled : /\ e[1] \notin Movable
                      /\ StudentKey(e[1]) \in u
                      /\ GroupKey(e[2]) \in v

\* Two lessons that may not overlap.
Joined(u, v) ==
  \/ u \cap v # {}
  \/ FixedTeachers /\ SameTeacher(u, v)
  \/ FixedClass(u, v)
  \/ FixedClass(v, u)

\* A booking of u has to lock key k.
NeedsKey(u, k) ==
  \/ k \in u
  \/ FixedTeachers /\ \E g \in Groups :
       GroupKey(g) \in u /\ k = TeacherKey(group[g].teacher)
  \/ \E e \in enrolled : /\ e[1] \notin Movable
                         /\ StudentKey(e[1]) \in u
                         /\ k = GroupKey(e[2])

\* Clients request only the operations of the instance.
OpsOnly == \A p \in Clients : tx[p].op \in Ops \cup {"none"}

\* A booking holds, or is still to ask for, every key it has to lock.
NeedsHeld ==
  \A p \in Clients :
    tx[p].op \in BookingOps /\ tx[p].stage \in {"keys", "search", "write"} =>
      \A k \in Keys : NeedsKey(tx[p].uses, k) =>
        k \in tx[p].keys \/ <<"key", HashOf[k]>> \in held[p]

\* What a search has found free stays free of every lesson that may not overlap.
SearchCovers ==
  \A p \in Clients : Writing(p, BookingOps) =>
    \A l \in Lessons \ {tx[p].lesson} :
      Scheduled(l) /\ Joined(tx[p].uses, lesson[l].uses)
        => ~Overlaps(tx[p], lesson[l])

\* No lessons that may not overlap do.
NoJoinedClash ==
  \A l, m \in Lessons : Clash(l, m) => ~Joined(lesson[l].uses, lesson[m].uses)

\* The inductive invariant of this module, next to IInv.
ResourceInv ==
  /\ OpsOnly
  /\ NeedsHeld
  /\ SearchCovers
  /\ NoJoinedClash

\* The invariant holds of the empty schedule.
LEMMA InitResourceInv == Init => ResourceInv
BY DEF Init, ResourceInv, OpsOnly, NeedsHeld, SearchCovers, NoJoinedClash, Writing,
       Clash, Scheduled, IdleTx, NoRow, BookingOps

-----------------------------------------------------------------------------
(* What lessons need of each other *)

\* Lessons that may not overlap have to lock a key in common.
LEMMA JoinedShareKey ==
  ASSUME TypeOK, NEW u \in SUBSET Keys, NEW v \in SUBSET Keys, Joined(u, v)
  PROVE  \E k \in Keys : NeedsKey(u, k) /\ NeedsKey(v, k)
<1>1. CASE u \cap v # {}
  BY <1>1 DEF NeedsKey
<1>2. CASE FixedTeachers /\ SameTeacher(u, v)
  <2>1. PICK g \in Groups, h \in Groups : /\ GroupKey(g) \in u /\ GroupKey(h) \in v
                                          /\ group[g].teacher = group[h].teacher
    BY <1>2 DEF SameTeacher
  <2>2. TeacherKey(group[g].teacher) \in Keys
    BY KeysAreKeys DEF TypeOK
  <2>. QED
    BY <1>2, <2>1, <2>2 DEF NeedsKey
<1>3. ASSUME NEW w \in SUBSET Keys, NEW z \in SUBSET Keys, FixedClass(w, z)
      PROVE  \E k \in Keys : NeedsKey(w, k) /\ NeedsKey(z, k)
  <2>1. PICK e \in enrolled : /\ e[1] \notin Movable
                              /\ StudentKey(e[1]) \in w /\ GroupKey(e[2]) \in z
    BY <1>3 DEF FixedClass
  <2>. QED
    BY <1>3, <2>1 DEF NeedsKey
<1>. QED
  BY <1>1, <1>2, <1>3 DEF Joined

\* Being joined is symmetric.
LEMMA JoinedSymmetric ==
  ASSUME NEW u, NEW v, Joined(u, v)
  PROVE  Joined(v, u)
BY DEF Joined, SameTeacher, FixedClass

\* The search looks for every lesson that may not overlap.
LEMMA JoinedIsRelated ==
  ASSUME NEW u, NEW v, Joined(u, v)
  PROVE  Related(u, v)
BY DEF Joined, Related, FixedClass, StudentInClass

\* A booking asks for every key it has to lock.
LEMMA NeedsAreLocked ==
  ASSUME TypeOK, NEW p \in Clients, NEW k \in Keys, NeedsKey(tx[p].uses, k)
  PROVE  k \in KeysToLock(p)
<1>1. enrolled \subseteq Students \X Groups
  BY DEF TypeOK
<1>2. CASE \E e \in enrolled : /\ e[1] \notin Movable
                               /\ StudentKey(e[1]) \in tx[p].uses
                               /\ k = GroupKey(e[2])
  <2>1. PICK e \in enrolled : StudentKey(e[1]) \in tx[p].uses /\ k = GroupKey(e[2])
    BY <1>2
  <2>2. e = <<e[1], e[2]>> /\ e[1] \in Students /\ e[2] \in Groups
    BY <1>1
  <2>. QED
    BY <2>1, <2>2 DEF KeysToLock, StudentsOf
<1>3. CASE k \in tx[p].uses \/ \E g \in Groups :
             GroupKey(g) \in tx[p].uses /\ k = TeacherKey(group[g].teacher)
  BY <1>3 DEF KeysToLock
<1>. QED
  BY <1>2, <1>3 DEF NeedsKey

\* No step makes lessons need each other that did not before: a teacher is given
\* to a group only by updateGroup, and only students who may move are enrolled.
TiesKept ==
  /\ FixedTeachers => \A g \in Groups : group'[g].teacher = group[g].teacher
  /\ \A e \in enrolled' : e \in enrolled \/ e[1] \in Movable

\* Every step keeps the ties.
LEMMA NextTies ==
  ASSUME TypeOK, OpsOnly, [Next]_vars
  PROVE  TiesKept
<1>1. group \in [Groups -> [status: GroupStatus, teacher: Teachers, days: DateRanges]]
  BY DEF TypeOK
<1>2. CASE UNCHANGED <<group, enrolled>>
  BY <1>2 DEF TiesKept
<1>3. ASSUME NEW p \in Clients, WriteStatus(p) PROVE TiesKept
  BY <1>1, <1>3 DEF WriteStatus, TiesKept
<1>4. ASSUME NEW p \in Clients, WriteGroup(p) PROVE TiesKept
  BY <1>4 DEF WriteGroup, Writing, TiesKept, FixedTeachers, OpsOnly
<1>5. ASSUME NEW s \in Students, NEW g \in Groups, Enrol(s, g) \/ Withdraw(s, g)
      PROVE  TiesKept
  BY <1>5 DEF Enrol, Withdraw, TiesKept
<1>6. ASSUME NEW p \in Clients, Begin(p) PROVE UNCHANGED <<group, enrolled>>
  BY <1>6, BeginIsRequest DEF data
<1>. QED
  BY <1>2, <1>3, <1>4, <1>5, <1>6
     DEF Next, Proceed, Write, Acquire, LockGroup, LockLesson, LockKey, Check, Search,
         Abort, WriteBooking, WriteCancel, WriteAttendance, Environment, Tick, Suspend,
         data, vars

\* So what needs a key, or may not overlap, did so before.
LEMMA TiesShrink ==
  ASSUME TiesKept, NEW u, NEW v
  PROVE  /\ Joined(u, v)' => Joined(u, v)
         /\ \A k : NeedsKey(u, k)' => NeedsKey(u, k)
<1>1. FixedClass(u, v)' => FixedClass(u, v)
  BY DEF FixedClass, TiesKept
<1>2. FixedClass(v, u)' => FixedClass(v, u)
  BY DEF FixedClass, TiesKept
<1>3. FixedTeachers /\ SameTeacher(u, v)' => SameTeacher(u, v)
  BY DEF SameTeacher, TiesKept
<1>4. \A k : NeedsKey(u, k)' => NeedsKey(u, k)
  BY DEF NeedsKey, TiesKept
<1>. QED
  BY <1>1, <1>2, <1>3, <1>4 DEF Joined, FixedTeachers

-----------------------------------------------------------------------------
(* Steps that book nothing *)

\* The part of NeedsHeld about one client.
HoldsNeeds(p) ==
  tx[p].op \in BookingOps /\ tx[p].stage \in {"keys", "search", "write"} =>
    \A k \in Keys : NeedsKey(tx[p].uses, k) =>
      k \in tx[p].keys \/ <<"key", HashOf[k]>> \in held[p]

\* A client that a step leaves alone still holds what it needs.
LEMMA HoldsNeedsKept ==
  ASSUME NeedsHeld, TiesKept, NEW q \in Clients, tx'[q] = tx[q], held'[q] = held[q]
  PROVE  HoldsNeeds(q)'
<1>1. \A k : NeedsKey(tx[q].uses, k)' => NeedsKey(tx[q].uses, k)
  BY DEF NeedsKey, TiesKept
<1>. QED
  BY <1>1 DEF NeedsHeld, HoldsNeeds

\* A step that adds and moves no scheduled lesson, and begins no write.
LEMMA QuietResources ==
  ASSUME ResourceInv, TiesKept, RowsKept,
         \A q \in Clients : Writing(q, BookingOps)' => tx'[q] = tx[q]
  PROVE  SearchCovers' /\ NoJoinedClash'
<1>1. NoJoinedClash'
  <2>. SUFFICES ASSUME NEW l \in Lessons, NEW m \in Lessons, Clash(l, m)',
                       Joined(lesson[l].uses, lesson[m].uses)'
                PROVE  FALSE
    BY DEF NoJoinedClash
  <2>1. lesson'[l] = lesson[l] /\ lesson'[m] = lesson[m] /\ Clash(l, m)
    BY DEF Clash, RowsKept, Scheduled
  <2>2. PICK u, v : u = lesson[l].uses /\ v = lesson[m].uses
    OBVIOUS
  <2>3. Joined(u, v)'
    BY <2>1, <2>2 DEF Joined, SameTeacher, FixedClass
  <2>4. Joined(u, v)
    BY <2>3, TiesShrink
  <2>. QED
    BY <2>1, <2>2, <2>4 DEF ResourceInv, NoJoinedClash
<1>2. SearchCovers'
  <2>. SUFFICES ASSUME NEW q \in Clients, Writing(q, BookingOps)',
                       NEW l \in Lessons \ {tx'[q].lesson}, Scheduled(l)',
                       Joined(tx[q].uses, lesson[l].uses)'
                PROVE  ~Overlaps(tx'[q], lesson'[l])
    BY DEF SearchCovers
  <2>1. /\ tx'[q] = tx[q] /\ Writing(q, BookingOps)
        /\ Scheduled(l) /\ lesson'[l] = lesson[l]
    BY DEF Writing, RowsKept
  <2>2. PICK u, v : u = tx[q].uses /\ v = lesson[l].uses
    OBVIOUS
  <2>3. Joined(u, v)'
    BY <2>1, <2>2 DEF Joined, SameTeacher, FixedClass
  <2>4. Joined(u, v)
    BY <2>3, TiesShrink
  <2>. QED
    BY <2>1, <2>2, <2>4 DEF ResourceInv, SearchCovers
<1>. QED
  BY <1>1, <1>2

\* A transaction that ends needs nothing any more.
LEMMA EndResources ==
  ASSUME IInv, ResourceInv, TiesKept, NEW p \in Clients, EndTx(p)
  PROVE  OpsOnly' /\ NeedsHeld'
<1>1. /\ tx'[p] = IdleTx
      /\ \A q \in Clients \ {p} : tx'[q] = tx[q] /\ held'[q] = held[q]
  BY DEF EndTx, IInv, TypeOK
<1>2. OpsOnly'
  BY <1>1 DEF ResourceInv, OpsOnly, IdleTx
<1>3. \A q \in Clients \ {p} : HoldsNeeds(q)'
  BY <1>1, HoldsNeedsKept DEF ResourceInv
<1>4. HoldsNeeds(p)'
  BY <1>1 DEF HoldsNeeds, IdleTx
<1>. QED
  BY <1>2, <1>3, <1>4 DEF NeedsHeld, HoldsNeeds

\* A transaction that goes on.
LEMMA AdvanceResources ==
  ASSUME IInv, ResourceInv, TiesKept, NEW p \in Clients, NEW t,
         tx' = [tx EXCEPT ![p] = t], t.op \in Ops,
         \A q \in Clients \ {p} : held'[q] = held[q], HoldsNeeds(p)'
  PROVE  OpsOnly' /\ NeedsHeld'
<1>1. tx'[p] = t /\ \A q \in Clients \ {p} : tx'[q] = tx[q]
  BY DEF IInv, TypeOK
<1>2. OpsOnly'
  BY <1>1 DEF ResourceInv, OpsOnly
<1>3. \A q \in Clients \ {p} : HoldsNeeds(q)'
  BY <1>1, HoldsNeedsKept DEF ResourceInv
<1>. QED
  BY <1>2, <1>3 DEF NeedsHeld, HoldsNeeds

\* A request asks for an operation of the instance.
LEMMA BeginResources ==
  ASSUME IInv, ResourceInv, TiesKept, NEW p \in Clients, Begin(p)
  PROVE  ResourceInv'
<1>1. PICK t \in Tx : /\ t.stage \in {"group", "row", "check"}
                      /\ tx' = [tx EXCEPT ![p] = t]
                      /\ UNCHANGED <<clock, data, suspended, held>>
  BY BeginIsRequest DEF IInv
<1>2. tx \in [Clients -> Tx]
  BY DEF IInv, TypeOK
<1>3. tx'[p] = t /\ t.op \in Ops
  <2>1. \A o, l, g, u, s, d, a :
          Request(p, o, l, g, u, s, d, a) => tx'[p].op \in Ops
    BY <1>2 DEF Request
  <2>2. tx'[p].op \in Ops
    <3>1. CASE CreateTheory(p)
      BY <2>1, <3>1 DEF CreateTheory
    <3>2. CASE CreatePractice(p)
      BY <2>1, <3>2 DEF CreatePractice
    <3>3. CASE ChangeTheory(p)
      BY <2>1, <3>3 DEF ChangeTheory
    <3>4. CASE ChangePractice(p)
      BY <2>1, <3>4 DEF ChangePractice
    <3>5. CASE CancelTheory(p)
      BY <2>1, <3>5 DEF CancelTheory
    <3>6. CASE CancelPractice(p)
      BY <2>1, <3>6 DEF CancelPractice
    <3>7. CASE MarkAttendance(p)
      BY <2>1, <3>7 DEF MarkAttendance
    <3>8. CASE ChangeStatus(p)
      BY <2>1, <3>8 DEF ChangeStatus
    <3>9. CASE UpdateGroup(p)
      BY <2>1, <3>9 DEF UpdateGroup
    <3>. QED
      BY <3>1, <3>2, <3>3, <3>4, <3>5, <3>6, <3>7, <3>8, <3>9 DEF Begin
  <2>. QED
    BY <1>1, <1>2, <2>2
<1>4. HoldsNeeds(p)'
  BY <1>1, <1>3 DEF HoldsNeeds
<1>5. OpsOnly' /\ NeedsHeld'
  BY <1>1, <1>3, <1>4, AdvanceResources
<1>6. RowsKept /\ \A q \in Clients : Writing(q, BookingOps)' => tx'[q] = tx[q]
  BY <1>1, <1>2 DEF RowsKept, Writing, data, Scheduled
<1>. QED
  BY <1>5, <1>6, QuietResources DEF ResourceInv

\* An advisory lock is held as soon as it is no longer asked for.
LEMMA AcquireResources ==
  ASSUME IInv, ResourceInv, TiesKept, NEW p \in Clients, Acquire(p)
  PROVE  ResourceInv'
<1>1. /\ tx[p] \in Tx /\ WellFormed(tx[p]) /\ tx \in [Clients -> Tx]
      /\ held \in [Clients -> SUBSET Lock]
      /\ UNCHANGED <<group, enrolled, lesson>>
  BY DEF IInv, TypeOK, Acquire, LockGroup, LockLesson, LockKey, data
<1>2. tx[p].op \in Ops
  <2>1. tx[p].op \in OpNames /\ "none" \notin OpNames
    BY <1>1 DEF Acquire, LockGroup, LockLesson, LockKey, WellFormed, OpNames
  <2>. QED
    BY <2>1 DEF ResourceInv, OpsOnly
<1>3. RowsKept
  BY <1>1 DEF RowsKept, Scheduled
<1>4. CASE LockGroup(p) \/ LockLesson(p)
  <2>1. PICK stage \in {"row", "check", "write"} :
          /\ tx' = [tx EXCEPT ![p].stage = stage]
          /\ stage = "write" => tx[p].op \notin BookingOps
    <3>1. CASE LockLesson(p)
      BY <3>1 DEF LockLesson, Goto
    <3>2. CASE LockGroup(p)
      BY <1>1, <3>2, StageOfOp DEF LockGroup, Goto, WellFormed
    <3>. QED
      BY <1>4, <3>1, <3>2
  <2>. DEFINE t == [tx[p] EXCEPT !.stage = stage]
  <2>2. /\ tx' = [tx EXCEPT ![p] = t] /\ tx'[p] = t
        /\ t.op = tx[p].op /\ t.stage = stage
    BY <1>1, <2>1 DEF Tx
  <2>3. \A q \in Clients \ {p} : held'[q] = held[q]
    BY <1>1, <1>4 DEF LockGroup, LockLesson, Grant
  <2>. HIDE DEF t
  <2>4. HoldsNeeds(p)'
    BY <2>1, <2>2 DEF HoldsNeeds
  <2>5. OpsOnly' /\ NeedsHeld'
    BY <1>2, <2>2, <2>3, <2>4, AdvanceResources
  <2>6. \A q \in Clients : Writing(q, BookingOps)' => tx'[q] = tx[q]
    BY <1>1, <2>1, <2>2 DEF Writing
  <2>. QED
    BY <1>3, <2>5, <2>6, QuietResources DEF ResourceInv
<1>5. CASE LockKey(p)
  <2>1. PICK k \in NextKeys(p) :
          /\ Grant(p, <<"key", HashOf[k]>>)
          /\ tx' = [tx EXCEPT ![p].keys = @ \ {k},
                              ![p].stage = IF tx[p].keys = {k} THEN "search" ELSE "keys"]
    BY <1>5 DEF LockKey
  <2>. DEFINE t == [tx[p] EXCEPT !.keys = @ \ {k},
                                 !.stage = IF tx[p].keys = {k} THEN "search" ELSE "keys"]
  <2>2. /\ tx' = [tx EXCEPT ![p] = t] /\ tx'[p] = t
        /\ t.op = tx[p].op /\ t.uses = tx[p].uses /\ t.keys = tx[p].keys \ {k}
        /\ t.stage \in {"keys", "search"} /\ tx[p].stage = "keys"
    BY <1>1, <1>5, <2>1 DEF LockKey, Tx
  <2>3. /\ held'[p] = held[p] \cup {<<"key", HashOf[k]>>}
        /\ \A q \in Clients \ {p} : held'[q] = held[q]
    BY <1>1, <2>1 DEF Grant
  <2>. HIDE DEF t
  <2>4. HoldsNeeds(p)'
    <3>. SUFFICES ASSUME tx[p].op \in BookingOps, NEW j \in Keys,
                         NeedsKey(tx[p].uses, j)'
                  PROVE  j \in t.keys \/ <<"key", HashOf[j]>> \in held'[p]
      BY <2>2 DEF HoldsNeeds
    <3>1. NeedsKey(tx[p].uses, j)
      BY <2>2 DEF NeedsKey, TiesKept
    <3>2. j \in tx[p].keys \/ <<"key", HashOf[j]>> \in held[p]
      BY <2>2, <3>1 DEF ResourceInv, NeedsHeld
    <3>. QED
      BY <2>2, <2>3, <3>2
  <2>5. OpsOnly' /\ NeedsHeld'
    BY <1>2, <2>2, <2>3, <2>4, AdvanceResources
  <2>6. \A q \in Clients : Writing(q, BookingOps)' => tx'[q] = tx[q]
    BY <1>1, <2>2 DEF Writing
  <2>. QED
    BY <1>3, <2>5, <2>6, QuietResources DEF ResourceInv
<1>. QED
  BY <1>4, <1>5 DEF Acquire

\* A booking that passes its checks asks for every key it needs.
LEMMA CheckResources ==
  ASSUME IInv, ResourceInv, TiesKept, NEW p \in Clients, Check(p)
  PROVE  ResourceInv'
<1>1. /\ tx[p] \in Tx /\ WellFormed(tx[p]) /\ tx \in [Clients -> Tx]
      /\ UNCHANGED <<group, enrolled, lesson>>
  BY DEF IInv, TypeOK, Check, data
<1>2. RowsKept
  BY <1>1 DEF RowsKept, Scheduled
<1>3. CASE EndTx(p)
  BY <1>2, <1>3, EndResources, EndTxLocks, QuietResources DEF ResourceInv
<1>4. CASE ~EndTx(p)
  <2>. DEFINE t == [tx[p] EXCEPT !.stage = AfterCheck(tx[p].op),
                                 !.keys = IF tx[p].op \in BookingOps
                                          THEN KeysToLock(p) ELSE {},
                                 !.arg = IF tx[p].op = "updateGroup"
                                         THEN ChangedFields(p) ELSE @]
  <2>1. /\ tx' = [tx EXCEPT ![p] = t] /\ tx'[p] = t /\ held' = held
        /\ tx[p].stage = "check" /\ t.op = tx[p].op /\ t.uses = tx[p].uses
        /\ t.op \in BookingOps => t.keys = KeysToLock(p)
        /\ t.stage = AfterCheck(tx[p].op)
    BY <1>1, <1>4 DEF Check, Tx
  <2>. HIDE DEF t
  <2>2. tx[p].op \in OpNames /\ tx[p].op \in Ops
    <3>1. tx[p].op \in OpNames /\ "none" \notin OpNames
      BY <1>1, <2>1 DEF WellFormed, OpNames
    <3>. QED
      BY <3>1 DEF ResourceInv, OpsOnly
  <2>3. HoldsNeeds(p)'
    <3>. SUFFICES ASSUME tx[p].op \in BookingOps, NEW k \in Keys,
                         NeedsKey(tx[p].uses, k)'
                  PROVE  k \in KeysToLock(p)
      BY <2>1 DEF HoldsNeeds
    <3>1. NeedsKey(tx[p].uses, k)
      BY <2>1 DEF NeedsKey, TiesKept
    <3>. QED
      BY <3>1, NeedsAreLocked DEF IInv
  <2>4. OpsOnly' /\ NeedsHeld'
    BY <2>1, <2>2, <2>3, AdvanceResources
  <2>5. \A q \in Clients : Writing(q, BookingOps)' => tx'[q] = tx[q]
    BY <1>1, <2>1, <2>2, StageOfOp DEF Writing
  <2>. QED
    BY <1>2, <2>4, <2>5, QuietResources DEF ResourceInv
<1>. QED
  BY <1>3, <1>4

-----------------------------------------------------------------------------
(* Searching and booking *)

\* A search that finds nothing has looked at every lesson that may not overlap.
LEMMA SearchResources ==
  ASSUME IInv, ResourceInv, TiesKept, NEW p \in Clients, Search(p)
  PROVE  ResourceInv'
<1>1. /\ tx[p] \in Tx /\ WellFormed(tx[p]) /\ tx \in [Clients -> Tx]
      /\ tx[p].stage = "search" /\ UNCHANGED <<group, enrolled, lesson>>
  BY DEF IInv, TypeOK, Search, data
<1>2. RowsKept
  BY <1>1 DEF RowsKept, Scheduled
<1>3. CASE EndTx(p)
  BY <1>2, <1>3, EndResources, EndTxLocks, QuietResources DEF ResourceInv
<1>4. CASE ~EndTx(p)
  <2>1. /\ tx' = [tx EXCEPT ![p].stage = "write"] /\ held' = held
        /\ ~ \E l \in Lessons : Conflicts(p, l)
    BY <1>4 DEF Search, Goto
  <2>. DEFINE t == [tx[p] EXCEPT !.stage = "write"]
  <2>2. /\ tx' = [tx EXCEPT ![p] = t] /\ tx'[p] = t
        /\ \A q \in Clients \ {p} : tx'[q] = tx[q]
        /\ t.op = tx[p].op /\ t.uses = tx[p].uses /\ t.keys = tx[p].keys
        /\ t.start = tx[p].start /\ t.dur = tx[p].dur /\ t.lesson = tx[p].lesson
    BY <1>1, <2>1 DEF Tx
  <2>. HIDE DEF t
  <2>3. tx[p].op \in Ops
    <3>1. tx[p].op \in OpNames /\ "none" \notin OpNames
      BY <1>1 DEF WellFormed, OpNames
    <3>. QED
      BY <3>1 DEF ResourceInv, OpsOnly
  <2>4. HoldsNeeds(p)'
    BY <1>1, <2>1, <2>2 DEF HoldsNeeds, NeedsKey, ResourceInv, NeedsHeld
  <2>5. OpsOnly' /\ NeedsHeld'
    BY <2>1, <2>2, <2>3, <2>4, AdvanceResources
  <2>6. NoJoinedClash'
    BY <1>1 DEF ResourceInv, NoJoinedClash, Clash, Scheduled, Joined, SameTeacher,
                FixedClass
  <2>7. SearchCovers'
    <3>. SUFFICES ASSUME NEW q \in Clients, Writing(q, BookingOps)',
                         NEW l \in Lessons \ {tx'[q].lesson}, Scheduled(l)',
                         Joined(tx[q].uses, lesson[l].uses)'
                  PROVE  ~Overlaps(tx'[q], lesson'[l])
      BY DEF SearchCovers
    <3>1. /\ tx'[q].uses = tx[q].uses /\ tx'[q].start = tx[q].start
          /\ tx'[q].dur = tx[q].dur /\ tx'[q].lesson = tx[q].lesson
          /\ tx'[q].op = tx[q].op
      BY <2>2
    <3>2. Joined(tx[q].uses, lesson[l].uses) /\ Scheduled(l) /\ lesson'[l] = lesson[l]
      BY <1>1, <3>1 DEF Joined, SameTeacher, FixedClass, Scheduled
    <3>3. CASE q # p
      BY <2>2, <3>2, <3>3 DEF ResourceInv, SearchCovers, Writing
    <3>4. CASE q = p
      <4>1. Related(tx[p].uses, lesson[l].uses)
        BY <3>2, <3>4, JoinedIsRelated
      <4>2. ~Collides(tx[p], lesson[l])
        BY <2>1, <3>1, <3>2, <3>4, <4>1 DEF Conflicts
      <4>3. /\ tx[p].start \in Nat /\ tx[p].dur \in Nat
            /\ lesson[l].start \in Nat /\ lesson[l].dur \in Durations
        BY <1>1, <3>2 DEF IInv, TypeOK, Tx, LessonRow
      <4>4. ~Overlaps(tx[p], lesson[l])
        BY <4>2, <4>3, CollidesIsOverlaps
      <4>. QED
        BY <3>1, <3>2, <3>4, <4>4 DEF Overlaps, LessonEnd
    <3>. QED
      BY <3>3, <3>4
  <2>. QED
    BY <2>5, <2>6, <2>7 DEF ResourceInv
<1>. QED
  BY <1>3, <1>4

\* Two bookings that are past their searches may overlap.
LEMMA WritersNotJoined ==
  ASSUME IInv, ResourceInv, NEW p \in Clients, NEW q \in Clients \ {p},
         Writing(p, BookingOps), Writing(q, BookingOps)
  PROVE  ~Joined(tx[p].uses, tx[q].uses)
<1>. SUFFICES ASSUME Joined(tx[p].uses, tx[q].uses) PROVE FALSE
  OBVIOUS
<1>1. tx[p].uses \in SUBSET Keys /\ tx[q].uses \in SUBSET Keys
  BY DEF IInv, TypeOK, Tx
<1>2. PICK k \in Keys : NeedsKey(tx[p].uses, k) /\ NeedsKey(tx[q].uses, k)
  BY <1>1, JoinedShareKey DEF IInv
<1>3. tx[p].keys = {} /\ tx[q].keys = {}
  BY DEF IInv, KeysHeld, Writing
<1>4. <<"key", HashOf[k]>> \in held[p] /\ <<"key", HashOf[k]>> \in held[q]
  BY <1>2, <1>3 DEF ResourceInv, NeedsHeld, Writing
<1>. QED
  BY <1>2, <1>4 DEF IInv, KeyLocksExclusive

\* A booking is written where no lesson that it may not overlap has come since.
LEMMA WriteBookingResources ==
  ASSUME IInv, ResourceInv, TiesKept, NEW p \in Clients, WriteBooking(p)
  PROVE  SearchCovers' /\ NoJoinedClash'
<1>. DEFINE t == tx[p]
            row == [status |-> IF t.op \in CreateOps THEN "SCHEDULED"
                               ELSE lesson[t.lesson].status,
                    uses |-> t.uses, start |-> t.start, dur |-> t.dur]
<1>1. t \in Tx /\ WellFormed(t) /\ lesson \in [Lessons -> LessonRow]
  BY DEF IInv, TypeOK
<1>2. t.lesson \in Lessons /\ Writing(p, BookingOps)
  BY <1>1 DEF WriteBooking, Writing, WellFormed, BookingOps, LessonOps,
              CreateOps, TheoryRowOps, PracticeRowOps
<1>3. lesson' = [lesson EXCEPT ![t.lesson] = row] /\ EndTx(p)
      /\ UNCHANGED <<group, enrolled>>
  BY <1>2 DEF WriteBooking
<1>4. row.uses = t.uses /\ row.start = t.start /\ row.dur = t.dur
  OBVIOUS
<1>. HIDE DEF row
<1>5. /\ lesson'[t.lesson] = row
      /\ \A l \in Lessons \ {t.lesson} : lesson'[l] = lesson[l]
  BY <1>1, <1>2, <1>3
<1>6. /\ t.start \in Nat /\ t.dur \in Nat
      /\ \A l \in Lessons : lesson[l].start \in Nat /\ lesson[l].dur \in Nat
  BY <1>1 DEF Tx, LessonRow
<1>7. \A l \in Lessons \ {t.lesson} :
        Scheduled(l) /\ Joined(t.uses, lesson[l].uses) => ~Overlaps(t, lesson[l])
  BY <1>2 DEF ResourceInv, SearchCovers
<1>8. \A u, v : Joined(u, v)' <=> Joined(u, v)
  BY <1>3 DEF Joined, SameTeacher, FixedClass
<1>9. NoJoinedClash'
  <2>. SUFFICES ASSUME NEW l \in Lessons, NEW m \in Lessons, Clash(l, m)',
                       Joined(lesson[l].uses, lesson[m].uses)'
                PROVE  FALSE
    BY DEF NoJoinedClash
  <2>0. PICK u, v : u = lesson'[l].uses /\ v = lesson'[m].uses
    OBVIOUS
  <2>1. Joined(u, v)
    BY <1>3, <2>0 DEF Joined, SameTeacher, FixedClass
  <2>2. CASE l # t.lesson /\ m # t.lesson
    BY <1>5, <2>0, <2>1, <2>2 DEF ResourceInv, NoJoinedClash, Clash, Scheduled
  <2>3. CASE l = t.lesson /\ m # t.lesson
    <3>1. Scheduled(m) /\ Overlaps(t, lesson[m])
      BY <1>4, <1>5, <2>3 DEF Clash, Scheduled, Overlaps, LessonEnd
    <3>. QED
      BY <1>4, <1>5, <1>7, <2>0, <2>1, <2>3, <3>1
  <2>4. CASE l # t.lesson /\ m = t.lesson
    <3>1. Scheduled(l) /\ Overlaps(lesson[l], t)
      BY <1>4, <1>5, <2>4 DEF Clash, Scheduled, Overlaps, LessonEnd
    <3>2. Overlaps(t, lesson[l])
      BY <1>6, <3>1, OverlapsSymmetric
    <3>3. Joined(v, u)
      BY <2>1, JoinedSymmetric
    <3>. QED
      BY <1>4, <1>5, <1>7, <2>0, <2>4, <3>1, <3>2, <3>3
  <2>. QED
    BY <2>2, <2>3, <2>4 DEF Clash
<1>10. SearchCovers'
  <2>. SUFFICES ASSUME NEW q \in Clients, Writing(q, BookingOps)',
                       NEW l \in Lessons \ {tx'[q].lesson}, Scheduled(l)',
                       Joined(tx[q].uses, lesson[l].uses)'
                PROVE  ~Overlaps(tx'[q], lesson'[l])
    BY DEF SearchCovers
  <2>1. q # p /\ tx'[q] = tx[q] /\ Writing(q, BookingOps)
    BY <1>3, EndTxLocks DEF Writing
  <2>2. PICK u, v : u = tx[q].uses /\ v = lesson'[l].uses
    OBVIOUS
  <2>3. Joined(u, v)
    BY <1>3, <2>1, <2>2 DEF Joined, SameTeacher, FixedClass
  <2>4. CASE l = t.lesson
    <3>1. Joined(t.uses, tx[q].uses)
      BY <1>4, <1>5, <2>2, <2>3, <2>4, JoinedSymmetric
    <3>. QED
      BY <1>2, <2>1, <3>1, WritersNotJoined
  <2>5. CASE l # t.lesson
    BY <1>5, <2>1, <2>2, <2>3, <2>5 DEF ResourceInv, SearchCovers, Scheduled
  <2>. QED
    BY <2>4, <2>5
<1>. QED
  BY <1>9, <1>10

\* ResourceInv is inductive, given IInv.
LEMMA NextResources == IInv /\ ResourceInv /\ [Next]_vars => ResourceInv'
<1>. SUFFICES ASSUME IInv, ResourceInv, [Next]_vars PROVE ResourceInv'
  OBVIOUS
<1>1. TiesKept
  BY NextTies DEF IInv, ResourceInv
<1>2. ASSUME NEW p \in Clients, WriteBooking(p) PROVE ResourceInv'
  <2>1. EndTx(p)
    BY <1>2 DEF WriteBooking
  <2>. QED
    BY <1>1, <1>2, <2>1, EndResources, WriteBookingResources DEF ResourceInv
<1>3. ASSUME NEW p \in Clients, EndTx(p), RowsKept PROVE ResourceInv'
  BY <1>1, <1>3, EndResources, EndTxLocks, QuietResources DEF ResourceInv
<1>4. ASSUME NEW p \in Clients, WriteCancel(p) \/ WriteAttendance(p) \/ WriteGroup(p)
      PROVE  EndTx(p) /\ RowsKept
  BY <1>4 DEF WriteCancel, WriteAttendance, WriteGroup, RowsKept, Scheduled, IInv,
              TypeOK, LessonRow
<1>5. ASSUME NEW p \in Clients, WriteStatus(p) PROVE EndTx(p) /\ RowsKept
  BY <1>5 DEF WriteStatus, RowsKept, Scheduled, IInv, TypeOK, LessonRow
<1>6. ASSUME NEW p \in Clients, Abort(p) PROVE EndTx(p) /\ RowsKept
  BY <1>6 DEF Abort, data, RowsKept, Scheduled
<1>7. CASE Environment \/ UNCHANGED vars
  <2>1. UNCHANGED <<lesson, tx, held>>
    BY <1>7 DEF Environment, Tick, Enrol, Withdraw, Suspend, vars
  <2>2. RowsKept /\ \A q \in Clients : Writing(q, BookingOps)' => tx'[q] = tx[q]
    BY <2>1 DEF RowsKept, Scheduled
  <2>3. SearchCovers' /\ NoJoinedClash'
    BY <1>1, <2>2, QuietResources
  <2>4. \A q \in Clients : HoldsNeeds(q)'
    BY <1>1, <2>1, HoldsNeedsKept DEF ResourceInv
  <2>. QED
    BY <2>1, <2>3, <2>4 DEF ResourceInv, OpsOnly, NeedsHeld, HoldsNeeds
<1>. QED
  BY <1>1, <1>2, <1>3, <1>4, <1>5, <1>6, <1>7, BeginResources, AcquireResources,
     CheckResources, SearchResources DEF Next, Proceed, Write

\* ResourceInv holds in every reachable state.
LEMMA ResourcesInvariant == Spec => []ResourceInv
<1>1. Init => IInv /\ ResourceInv
  BY InitIInv, InitResourceInv
<1>2. IInv /\ ResourceInv /\ [Next]_vars => IInv' /\ ResourceInv'
  BY NextIInv, NextResources
<1>. QED
  BY <1>1, <1>2, PTL DEF Spec

\* Where no group changes its teacher, no teacher has two lessons at once, for any
\* number of groups that share the teacher (TeacherNotDoubleBooked of
\* LessonSchedule).
THEOREM TeachersNeverDoubleBooked == Spec => []TeacherNotDoubleBooked
<1>1. ResourceInv => TeacherNotDoubleBooked
  BY DEF ResourceInv, NoJoinedClash, Joined, FixedTeachers, TeacherNotDoubleBooked
<1>. QED
  BY <1>1, ResourcesInvariant, PTL

\* A student whose enrolment is not changed by others is never in the car and in
\* class at once (StudentNotInTwoPlaces of LessonSchedule).
THEOREM StudentsNeverInTwoPlaces == Spec => []StudentNotInTwoPlaces
<1>1. ResourceInv => StudentNotInTwoPlaces
  BY DEF ResourceInv, NoJoinedClash, Joined, FixedClass, StudentNotInTwoPlaces
<1>. QED
  BY <1>1, ResourcesInvariant, PTL
=============================================================================
