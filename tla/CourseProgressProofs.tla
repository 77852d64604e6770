------------------------ MODULE CourseProgressProofs ------------------------
(***************************************************************************)
(* Proofs about CourseProgress, for any number of students, lessons,       *)
(* requests and editors: no completion is inserted twice, saved counts are *)
(* never ahead of what is completed, an answer misses nothing that was     *)
(* completed before, and a completion saves exact counts.                  *)
(***************************************************************************)
EXTENDS CourseProgress, CourseStructureProofs

-----------------------------------------------------------------------------
(* The inductive invariant *)

Counting == {"lessons", "completions", "snapshot", "persist"}

\* What the request r may rely on whoever else is at work: comp is what its
\* student has completed, snap his saved counts, all the lessons of the course.
Sound(r, comp, snap, all) ==
  /\ r.student \in Students
  /\ r.stage \notin {"idle", "failed"}
  /\ r.stage \notin Counting => r.added = {}
  /\ r.stage \in {"checked", "locked", "create"} => r.lesson # None
  /\ r.stage = "create" => r.lesson \in all
  /\ r.added \subseteq {r.lesson} \cap all
  /\ r.known \subseteq comp
  /\ r.stage \in Counting /\ r.lesson # None => r.lesson \in comp \cup r.added
  /\ r.stage \in {"completions", "snapshot", "persist"} =>
       r.known \subseteq r.lessons /\ r.lessons \subseteq all
  /\ r.stage \in {"snapshot", "persist", "answered"} =>
       /\ r.known \subseteq r.done /\ r.done \subseteq comp \cup r.added
       /\ r.lesson # None => r.lesson \in r.done
  /\ r.stage = "persist" /\ r.saw # None =>
       snap # None /\ r.saw.completed <= Cardinality(comp)

\* What a completion relies on while it holds the row of the course: nobody
\* else inserts a completion or commits a lesson.
Exclusive(r, comp, all) ==
  /\ r.stage = "create" \/ r.added # {} => r.lesson \notin comp
  /\ r.stage \in {"completions", "snapshot", "persist"} => r.lessons = all
  /\ r.stage \in {"snapshot", "persist"} => r.done = comp \cup r.added

\* The request r is inside the transaction of completeLesson.
Holding(r) == r.lesson # None /\ r.stage \in Counting \cup {"locked", "create"}

ReqInv(q) ==
  \/ req[q] = IdleReq
  \/ LET s == req[q].student IN
     /\ Sound(req[q], completed[s], snapshot[s], CourseLessons)
     /\ Holding(req[q]) => /\ lock = q
                           /\ Exclusive(req[q], completed[s], CourseLessons)

\* The saved counts of a student are those of an earlier moment, or none.
Saved(snap, comp, all) ==
  /\ snap # None <=> comp # {}
  /\ snap # None => /\ snap.completed <= Cardinality(comp)
                    /\ snap.total <= Cardinality(all)
                    /\ snap.completed <= snap.total

ProgressInv ==
  /\ IInv
  /\ req \in [Requests -> Req]
  /\ completed \in [Students -> SUBSET Lessons]
  /\ snapshot \in [Students -> Counts \cup {None}]
  /\ \A s \in Students : /\ completed[s] \subseteq CourseLessons
                         /\ Saved(snapshot[s], completed[s], CourseLessons)
  /\ \A q \in Requests : ReqInv(q)

-----------------------------------------------------------------------------
(* Counts *)

LEMMA QuotientIsNat ==
  ASSUME NEW a \in Nat, NEW b \in Nat, b > 0
  PROVE  a \div b \in Nat
OBVIOUS

LEMMA QuotientBounded ==
  ASSUME NEW a \in Nat, NEW b \in Nat, b > 0, a < 101 * b
  PROVE  a \div b <= 100
OBVIOUS

\* The percentage of a part is one, as course_progress_percentage_check wants.
LEMMA PercentTyped ==
  ASSUME NEW n \in Nat, NEW total \in Nat, n <= total
  PROVE  Percent(n, total) \in 0..100
<1>1. CASE total = 0
  BY <1>1 DEF Percent
<1>2. CASE total > 0
  <2>. DEFINE a == 200 * n + total
              b == 2 * total
  <2>1. a \in Nat /\ b \in Nat /\ b > 0 /\ a < 101 * b
    BY <1>2
  <2>. HIDE DEF a, b
  <2>2. a \div b \in Nat /\ a \div b <= 100
    BY <2>1, QuotientIsNat, QuotientBounded
  <2>. QED  BY <1>2, <2>2 DEF Percent, a, b
<1>. QED  BY <1>1, <1>2

\* Sets of lessons are finite, and larger ones have more lessons.
LEMMA LessonsFinite ==
  /\ \A S \in SUBSET Lessons : IsFiniteSet(S) /\ Cardinality(S) \in Nat
                               /\ (Cardinality(S) = 0 <=> S = {})
  /\ \A S \in SUBSET Lessons, T \in SUBSET Lessons :
       S \subseteq T => Cardinality(S) <= Cardinality(T)
  /\ \A S \in SUBSET Lessons, l \in Lessons :
       l \notin S => Cardinality(S \cup {l}) = Cardinality(S) + 1
<1>1. IsFiniteSet(Lessons)
  BY StructureAssumption, FS_Subset DEF Items
<1>2. \A S \in SUBSET Lessons : IsFiniteSet(S) /\ Cardinality(S) \in Nat
                                /\ (Cardinality(S) = 0 <=> S = {})
  BY <1>1, FS_Subset, FS_CardinalityType, FS_EmptySet
<1>3. \A S \in SUBSET Lessons, T \in SUBSET Lessons :
        S \subseteq T => Cardinality(S) <= Cardinality(T)
  BY <1>2, FS_Subset
<1>4. \A S \in SUBSET Lessons, l \in Lessons :
        l \notin S => Cardinality(S \cup {l}) = Cardinality(S) + 1
  BY <1>2, FS_AddElement
<1>. QED  BY <1>2, <1>3, <1>4

\* What CountsOf returns.
LEMMA CountsTyped ==
  ASSUME NEW done \in SUBSET Lessons, NEW lessons \in SUBSET Lessons
  PROVE  LET counts == CountsOf(done, lessons) IN
         /\ counts \in Counts /\ counts # None
         /\ counts.completed = Cardinality(done \cap lessons)
         /\ counts.total = Cardinality(lessons)
         /\ counts.completed <= counts.total
         /\ counts.completed <= Cardinality(done)
<1>. DEFINE n == Cardinality(done \cap lessons)
            total == Cardinality(lessons)
<1>1. n \in Nat /\ total \in Nat /\ n <= total /\ n <= Cardinality(done)
  <2>1. done \cap lessons \in SUBSET Lessons
    OBVIOUS
  <2>. QED  BY <2>1, LessonsFinite
<1>. HIDE DEF n, total
<1>2. Percent(n, total) \in 0..100
  BY <1>1, PercentTyped
<1>3. CountsOf(done, lessons) = [completed |-> n, total |-> total, percent |-> Percent(n, total)]
  BY DEF CountsOf, n, total
<1>4. CountsOf(done, lessons) \in Counts
  BY <1>1, <1>2, <1>3 DEF Counts
<1>. QED
  BY <1>1, <1>3, <1>4, NoCountsAssumption DEF n, total

-----------------------------------------------------------------------------
(* What a step leaves alone *)

\* What is sound stays so when more is completed, saved and taught.
LEMMA SoundGrows ==
  ASSUME NEW r \in Req, NEW comp \in SUBSET Lessons, NEW comp2 \in SUBSET Lessons,
         NEW snap, NEW snap2, NEW all, NEW all2,
         Sound(r, comp, snap, all),
         comp \subseteq comp2, all \subseteq all2, snap # None => snap2 # None
  PROVE  Sound(r, comp2, snap2, all2)
<1>1. Cardinality(comp) \in Nat /\ Cardinality(comp2) \in Nat
      /\ Cardinality(comp) <= Cardinality(comp2)
  BY LessonsFinite
<1>2. r.saw # None => r.saw.completed \in Nat
  BY DEF Req, Counts
<1>3. r.stage = "persist" /\ r.saw # None =>
        snap2 # None /\ r.saw.completed <= Cardinality(comp2)
  BY <1>1, <1>2 DEF Sound
<1>. QED
  BY <1>3 DEF Sound

\* Saved counts stay sound when lessons are added.
LEMMA SavedGrows ==
  ASSUME NEW snap \in Counts \cup {None}, NEW comp,
         NEW all \in SUBSET Lessons, NEW all2 \in SUBSET Lessons,
         all \subseteq all2, Saved(snap, comp, all)
  PROVE  Saved(snap, comp, all2)
<1>1. Cardinality(all) \in Nat /\ Cardinality(all2) \in Nat
      /\ Cardinality(all) <= Cardinality(all2)
  BY LessonsFinite
<1>2. snap # None => snap.total \in Nat
  BY DEF Counts
<1>. QED  BY <1>1, <1>2 DEF Saved

\* An editor commits under the lock of the course, and removes no lesson.
LEMMA EditorsAdd ==
  ASSUME IInv, NEW c \in Clients, Edit(c)
  PROVE  item' = item \/ (lock = c /\ CourseLessons \subseteq CourseLessons')
<1>. DEFINE t == tx[c]
<1>1. CASE Commit(c)
  <2>1. /\ TypeOK /\ t \in Tx /\ t.stage = "commit" /\ DraftInv(t) /\ lock = c
        /\ item' = t.rows
    BY <1>1 DEF Commit, IInv, TypeOK, LockInv, Stage, Drafting
  <2>. HIDE DEF t
  <2>2. PICK x \in Items : t.rows[x] = At(t.parent, t.to) /\ ShiftedBut(t, Moved(t), x)
    BY <2>1, CommittedRows
  <2>3. \A p \in Parents, k \in Int : At(p, k) # None
    BY NoItemAssumption DEF At, Row
  <2>4. t.rows[x] # None
    <3>1. t.parent \in Parents /\ t.to \in Int
      BY <2>1 DEF DraftInv, Tx
    <3>. QED  BY <2>2, <2>3, <3>1
  <2>5. ASSUME NEW l \in Lessons, item[l] # None PROVE t.rows[l] # None
    <3>1. l \in Items
      BY DEF Items
    <3>2. CASE l = x
      BY <2>4, <3>2
    <3>3. CASE l # x /\ l \in Moved(t)
      <4>1. item[l].position \in Int /\ t.step \in Int /\ t.parent \in Parents
        BY <2>1, <3>3, SiblingsTyped DEF DraftInv
      <4>2. t.rows[l] = At(t.parent, item[l].position + t.step)
        BY <2>2, <3>1, <3>3 DEF ShiftedBut
      <4>3. item[l].position + t.step \in Int
        BY <4>1
      <4>. QED  BY <2>3, <4>1, <4>2, <4>3
    <3>4. CASE l # x /\ l \notin Moved(t)
      BY <2>2, <2>5, <3>1, <3>4 DEF ShiftedBut
    <3>. QED  BY <3>2, <3>3, <3>4
  <2>. QED  BY <2>1, <2>5 DEF CourseLessons
<1>2. CASE ~Commit(c)
  BY <1>2 DEF Edit, LockCourse, Rollback, Park, Place, InsertRow, Shift, CreateChapter,
              CreateLesson, CreateMaterial, BeginCreate, UpdateChapter, UpdateLesson,
              UpdateMaterial, Update, UpdateText, BeginMove
<1>. QED  BY <1>1, <1>2

\* A request takes the lock when nobody has it, and releases its own only.
LEMMA EditorsUndisturbed ==
  ASSUME IInv, NEW q \in Requests, UNCHANGED <<item, tx>>,
         \/ lock' = lock
         \/ lock = None /\ lock' = q
         \/ lock' = Unlocked(q)
  PROVE  IInv'
<1>1. q \in Holders /\ q \notin Clients /\ None \notin Clients
  BY ProgressAssumption, StructureAssumption
<1>2. TypeOK' /\ FreshInv' /\ NoCollision'
  BY <1>1 DEF IInv, TypeOK, FreshInv, NoCollision, Stage, Unlocked
<1>3. LockInv'
  BY <1>1 DEF IInv, LockInv, Stage, Unlocked
<1>4. Unique(item)' /\ ListsContiguous'
  BY DEF IInv, Unique, ListsContiguous, Contiguous, ChildrenIn
<1>5. ASSUME NEW c \in Clients, Stage(c)' \in Drafting
      PROVE  DraftInv(tx[c])'
  <2>1. DraftInv(tx[c]) /\ tx'[c] = tx[c] /\ item' = item
    BY <1>5 DEF IInv, Stage
  <2>. QED  BY <2>1, RowsStay
<1>. QED  BY <1>2, <1>3, <1>4, <1>5 DEF IInv

-----------------------------------------------------------------------------
(* The steps of a request *)

\* What is known of a request that is not idle.
LEMMA AtWork ==
  ASSUME ProgressInv, NEW q \in Requests, ReqStage(q) # "idle"
  PROVE  LET r == req[q]  s == r.student IN
         /\ r \in Req /\ s \in Students
         /\ completed[s] \in SUBSET Lessons /\ completed[s] \subseteq CourseLessons
         /\ CourseLessons \in SUBSET Lessons
         /\ snapshot[s] \in Counts \cup {None}
         /\ Saved(snapshot[s], completed[s], CourseLessons)
         /\ Sound(r, completed[s], snapshot[s], CourseLessons)
         /\ Holding(r) => lock = q /\ Exclusive(r, completed[s], CourseLessons)
<1>. DEFINE r == req[q]
<1>1. r # IdleReq /\ r \in Req /\ ReqInv(q)
  BY DEF ProgressInv, ReqStage, IdleReq
<1>2. /\ Sound(r, completed[r.student], snapshot[r.student], CourseLessons)
      /\ Holding(r) => lock = q /\ Exclusive(r, completed[r.student], CourseLessons)
  BY <1>1 DEF ReqInv
<1>3. r.student \in Students
  BY <1>2 DEF Sound
<1>. QED
  BY <1>1, <1>2, <1>3 DEF ProgressInv, CourseLessons

\* A step that changes the request of q alone keeps the invariant if what it
\* says of the new request holds.
LEMMA OneRequestMoves ==
  ASSUME ProgressInv, NEW q \in Requests, NEW r \in Req,
         req' = [req EXCEPT ![q] = r], UNCHANGED <<item, tx, completed, snapshot>>,
         \/ lock' = lock
         \/ lock = None /\ lock' = q
         \/ lock' = Unlocked(q),
         \/ r = IdleReq
         \/ /\ Sound(r, completed[r.student], snapshot[r.student], CourseLessons)
            /\ Holding(r) =>
                 lock' = q /\ Exclusive(r, completed[r.student], CourseLessons)
  PROVE  ProgressInv'
<1>1. IInv'
  BY EditorsUndisturbed DEF ProgressInv
<1>2. /\ req' \in [Requests -> Req] /\ req'[q] = r
      /\ \A p \in Requests \ {q} : req'[p] = req[p]
  BY DEF ProgressInv
<1>3. /\ completed' \in [Students -> SUBSET Lessons]
      /\ snapshot' \in [Students -> Counts \cup {None}]
      /\ \A s \in Students : /\ completed'[s] \subseteq CourseLessons'
                             /\ Saved(snapshot'[s], completed'[s], CourseLessons')
  BY DEF ProgressInv, CourseLessons
<1>4. ASSUME NEW p \in Requests PROVE ReqInv(p)'
  <2>1. CASE p = q
    BY <1>2, <2>1 DEF ReqInv, CourseLessons
  <2>2. CASE p # q
    <3>1. ReqInv(p) /\ req'[p] = req[p] /\ p # None
      BY <1>2, <2>2, ProgressAssumption, StructureAssumption DEF ProgressInv
    <3>2. lock = p => lock' = p
      BY <2>2, <3>1 DEF Unlocked
    <3>. QED
      BY <3>1, <3>2 DEF ReqInv, CourseLessons
  <2>. QED  BY <2>1, <2>2
<1>. QED
  BY <1>1, <1>2, <1>3, <1>4 DEF ProgressInv

\* Asking for progress, or for a completion, keeps the invariant.
LEMMA Arrives ==
  ASSUME ProgressInv, NEW q \in Requests, NEW s \in Students,
         NEW l \in Lessons \cup {None}, NEW stage,
         \/ stage = "checked" /\ l \in Lessons
         \/ stage = "lessons" /\ l = None,
         Arrive(q, s, l, stage)
  PROVE  ProgressInv'
<1>. DEFINE r == [IdleReq EXCEPT !.stage = stage, !.student = s, !.lesson = l,
                                 !.known = completed[s]]
<1>1. completed[s] \in SUBSET Lessons
  BY DEF ProgressInv
<1>2. r \in Req
  BY <1>1 DEF Req, IdleReq, ReqStages
<1>3. /\ r.stage = stage /\ r.student = s /\ r.lesson = l /\ r.added = {}
      /\ r.known = completed[s]
  BY DEF IdleReq
<1>4. /\ req' = [req EXCEPT ![q] = r] /\ lock' = lock
      /\ UNCHANGED <<item, tx, completed, snapshot>>
  BY DEF Arrive, Set, structure, records
<1>. HIDE DEF r
<1>5. None \notin Lessons
  BY StructureAssumption DEF Items
<1>6. Sound(r, completed[r.student], snapshot[r.student], CourseLessons) /\ ~Holding(r)
  BY <1>3, <1>5 DEF Sound, Holding, Counting
<1>. QED
  BY <1>2, <1>4, <1>6, OneRequestMoves

\* Taking the lock, and looking for the completion under it.
LEMMA Looks ==
  ASSUME ProgressInv, NEW q \in Requests, CompletionLock(q) \/ FindCompletion(q)
  PROVE  ProgressInv'
<1>. DEFINE s == req[q].student
<1>1. ReqStage(q) # "idle"
  BY DEF CompletionLock, FindCompletion
<1>2. /\ req[q] \in Req /\ s \in Students
      /\ completed[s] \in SUBSET Lessons /\ CourseLessons \in SUBSET Lessons
      /\ Sound(req[q], completed[s], snapshot[s], CourseLessons)
      /\ Holding(req[q]) => lock = q /\ Exclusive(req[q], completed[s], CourseLessons)
  BY <1>1, AtWork
<1>3. ASSUME NEW stage \in {"locked", "lessons", "create"},
             \/ req[q].stage = "checked" /\ stage = "locked" /\ lock' = q
             \/ /\ req[q].stage = "locked" /\ lock' = lock
                /\ req[q].lesson \in CourseLessons
                /\ stage = IF req[q].lesson \in completed[s] THEN "lessons" ELSE "create",
             req' = [req EXCEPT ![q] = [req[q] EXCEPT !.stage = stage]],
             lock' = lock \/ (lock = None /\ lock' = q),
             UNCHANGED <<item, tx, completed, snapshot>>
      PROVE  ProgressInv'
  <2>. DEFINE r == [req[q] EXCEPT !.stage = stage]
  <2>1. r \in Req
    BY <1>2 DEF Req, ReqStages
  <2>2. /\ r.stage = stage /\ r.student = s /\ r.lesson = req[q].lesson
        /\ r.added = req[q].added /\ r.known = req[q].known
    BY <1>2 DEF Req
  <2>3. req' = [req EXCEPT ![q] = r]
    BY <1>3
  <2>. HIDE DEF r, s
  <2>4. req[q].lesson # None /\ req[q].added = {} /\ req[q].known \subseteq completed[s]
    BY <1>2, <1>3 DEF Sound, Counting
  <2>5. Sound(r, completed[s], snapshot[s], CourseLessons)
    BY <1>2, <1>3, <2>2, <2>4 DEF Sound, Counting
  <2>6. lock' = q
    BY <1>2, <1>3, <2>4 DEF Holding
  <2>7. Exclusive(r, completed[s], CourseLessons)
    BY <1>3, <2>2, <2>4 DEF Exclusive
  <2>. QED
    BY <1>3, <2>1, <2>2, <2>3, <2>5, <2>6, <2>7, OneRequestMoves
<1>4. CASE CompletionLock(q)
  BY <1>3, <1>4 DEF CompletionLock, CourseFree, Set, ReqStage, structure, records
<1>5. CASE FindCompletion(q)
  BY <1>3, <1>5 DEF FindCompletion, Set, ReqStage, structure, records
<1>. QED  BY <1>4, <1>5

\* The insert meets no committed completion.
LEMMA Creates ==
  ASSUME ProgressInv, NEW q \in Requests, CreateCompletion(q)
  PROVE  ProgressInv'
<1>. DEFINE s == req[q].student
            l == req[q].lesson
            r == [req[q] EXCEPT !.stage = "lessons", !.added = {l}]
<1>1. ReqStage(q) = "create"
  BY DEF CreateCompletion
<1>2. /\ req[q] \in Req /\ s \in Students
      /\ completed[s] \in SUBSET Lessons /\ CourseLessons \in SUBSET Lessons
      /\ Sound(req[q], completed[s], snapshot[s], CourseLessons)
      /\ Holding(req[q]) => lock = q /\ Exclusive(req[q], completed[s], CourseLessons)
  BY <1>1, AtWork
<1>3. l # None /\ l \in CourseLessons /\ req[q].known \subseteq completed[s]
  BY <1>1, <1>2 DEF Sound, ReqStage
<1>4. lock = q /\ l \notin completed[s]
  BY <1>1, <1>2, <1>3 DEF Holding, Exclusive, ReqStage
<1>5. /\ req' = [req EXCEPT ![q] = r] /\ lock' = lock
      /\ UNCHANGED <<item, tx, completed, snapshot>>
  BY <1>4 DEF CreateCompletion, Set, structure, records
<1>6. r \in Req
  BY <1>2, <1>3 DEF Req, ReqStages
<1>7. /\ r.stage = "lessons" /\ r.student = s /\ r.lesson = l
      /\ r.added = {l} /\ r.known = req[q].known
  BY <1>2 DEF Req
<1>. HIDE DEF r, s, l
<1>8. Sound(r, completed[s], snapshot[s], CourseLessons)
  BY <1>2, <1>3, <1>7 DEF Sound, Counting
<1>9. Exclusive(r, completed[s], CourseLessons)
  BY <1>4, <1>7 DEF Exclusive
<1>. QED
  BY <1>4, <1>5, <1>6, <1>7, <1>8, <1>9, OneRequestMoves

\* The three queries of syncProgress.
LEMMA Queries ==
  ASSUME ProgressInv, NEW q \in Requests,
         ListLessons(q) \/ ListCompletions(q) \/ ReadSnapshot(q)
  PROVE  ProgressInv'
<1>. DEFINE s == req[q].student
            o == req[q]
            comp == completed[s]
            snap == snapshot[s]
            all == CourseLessons
<1>1. ReqStage(q) # "idle"
  BY DEF ListLessons, ListCompletions, ReadSnapshot
<1>2. /\ o \in Req /\ s \in Students
      /\ comp \in SUBSET Lessons /\ all \in SUBSET Lessons /\ comp \subseteq all
      /\ snap \in Counts \cup {None} /\ Saved(snap, comp, all)
      /\ Sound(o, comp, snap, all)
      /\ Holding(o) => lock = q /\ Exclusive(o, comp, all)
  BY <1>1, AtWork
<1>3. ASSUME NEW r \in Req, req' = [req EXCEPT ![q] = r], lock' = lock,
             UNCHANGED <<item, tx, completed, snapshot>>,
             r.student = s, r.lesson = o.lesson, o.stage \in Counting,
             Sound(r, comp, snap, all), Holding(o) => Exclusive(r, comp, all)
      PROVE  ProgressInv'
  <2>1. Holding(r) => Holding(o)
    BY <1>3 DEF Holding
  <2>. QED
    BY <1>2, <1>3, <2>1, OneRequestMoves
<1>4. CASE ListLessons(q)
  <2>. DEFINE r == [o EXCEPT !.stage = "completions", !.lessons = all]
  <2>1. /\ req' = [req EXCEPT ![q] = r] /\ lock' = lock /\ o.stage = "lessons"
        /\ UNCHANGED <<item, tx, completed, snapshot>>
    BY <1>4 DEF ListLessons, Set, ReqStage, structure, records
  <2>2. r \in Req
    BY <1>2 DEF Req, ReqStages
  <2>3. /\ r.stage = "completions" /\ r.student = s /\ r.lesson = o.lesson
        /\ r.added = o.added /\ r.known = o.known /\ r.lessons = all
    BY <1>2 DEF Req
  <2>. HIDE DEF r, s, o, comp, snap, all
  <2>4. Sound(r, comp, snap, all)
    BY <1>2, <2>1, <2>3 DEF Sound, Counting, s, o
  <2>5. Holding(o) => Exclusive(r, comp, all)
    BY <1>2, <2>3 DEF Exclusive
  <2>. QED
    BY <1>3, <2>1, <2>2, <2>3, <2>4, <2>5 DEF Counting
<1>5. CASE ListCompletions(q)
  <2>. DEFINE r == [o EXCEPT !.stage = "snapshot", !.done = (comp \cup o.added) \cap o.lessons]
  <2>1. /\ req' = [req EXCEPT ![q] = r] /\ lock' = lock /\ o.stage = "completions"
        /\ UNCHANGED <<item, tx, completed, snapshot>>
    BY <1>5 DEF ListCompletions, Set, ReqStage, structure, records
  <2>2. r \in Req
    BY <1>2 DEF Req, ReqStages
  <2>3. /\ r.stage = "snapshot" /\ r.student = s /\ r.lesson = o.lesson
        /\ r.added = o.added /\ r.known = o.known /\ r.lessons = o.lessons
        /\ r.done = (comp \cup o.added) \cap o.lessons
    BY <1>2 DEF Req
  <2>. HIDE DEF r, s, o, comp, snap, all
  <2>4. Holding(o) <=> o.lesson # None
    BY <2>1 DEF Holding, Counting
  <2>5. /\ o.lesson # None => o.lessons = all /\ o.lesson \in comp \cup o.added
        /\ o.added \subseteq all
        /\ o.known \subseteq comp /\ o.known \subseteq o.lessons /\ o.lessons \subseteq all
    BY <1>2, <2>1, <2>4 DEF Sound, Exclusive, Counting
  <2>6. Sound(r, comp, snap, all)
    BY <1>2, <2>1, <2>3, <2>5 DEF Sound, Counting, s, o
  <2>7. Holding(o) => Exclusive(r, comp, all)
    BY <1>2, <2>3, <2>4, <2>5 DEF Exclusive
  <2>. QED
    BY <1>3, <2>1, <2>2, <2>3, <2>6, <2>7 DEF Counting
<1>6. CASE ReadSnapshot(q)
  <2>. DEFINE r == [o EXCEPT !.stage = "persist", !.saw = snap]
  <2>1. /\ req' = [req EXCEPT ![q] = r] /\ lock' = lock /\ o.stage = "snapshot"
        /\ UNCHANGED <<item, tx, completed, snapshot>>
    BY <1>6 DEF ReadSnapshot, Set, ReqStage, structure, records
  <2>2. r \in Req
    BY <1>2 DEF Req, ReqStages
  <2>3. /\ r.stage = "persist" /\ r.student = s /\ r.lesson = o.lesson
        /\ r.added = o.added /\ r.known = o.known /\ r.lessons = o.lessons
        /\ r.done = o.done /\ r.saw = snap
    BY <1>2 DEF Req
  <2>. HIDE DEF r, s, o, comp, snap, all
  <2>4. Sound(r, comp, snap, all)
    BY <1>2, <2>1, <2>3 DEF Sound, Counting, Saved, s, o
  <2>5. Holding(o) => Exclusive(r, comp, all)
    BY <1>2, <2>1, <2>3 DEF Exclusive
  <2>. QED
    BY <1>3, <2>1, <2>2, <2>3, <2>4, <2>5 DEF Counting
<1>. QED  BY <1>4, <1>5, <1>6

\* A request that fails, or has been answered, leaves nothing behind.
LEMMA Ends ==
  ASSUME ProgressInv, NEW q \in Requests, Abandon(q) \/ Reply(q)
  PROVE  ProgressInv'
<1>1. IdleReq \in Req
  BY DEF IdleReq, Req, ReqStages
<1>2. /\ req' = [req EXCEPT ![q] = IdleReq] /\ UNCHANGED <<item, tx, completed, snapshot>>
      /\ lock' = lock \/ lock' = Unlocked(q)
  BY DEF Abandon, Reply, Set, structure, records
<1>. QED  BY <1>1, <1>2, OneRequestMoves

-----------------------------------------------------------------------------
(* persistSnapshot and the commit *)

Written(o, snap) == IF ToSave(o) = {} THEN snap ELSE CHOOSE n \in ToSave(o) : TRUE

\* What a request leaves in course_progress, if comp is what its student had
\* completed and snap his saved counts.
LEMMA Persisted ==
  ASSUME NEW o \in Req, o.stage = "persist",
         NEW comp \in SUBSET Lessons, NEW all \in SUBSET Lessons, comp \subseteq all,
         NEW snap \in Counts \cup {None}, Saved(snap, comp, all),
         Sound(o, comp, snap, all), o.lesson # None => Exclusive(o, comp, all)
  PROVE  /\ Written(o, snap) \in Counts \cup {None}
         /\ snap # None => Written(o, snap) # None
         /\ Saved(Written(o, snap), comp \cup o.added, all)
         /\ comp \cup o.added # comp =>
              Written(o, snap) = CountsOf(comp \cup o.added, all)
<1>. DEFINE n == CountsOf(o.done, o.lessons)
            comp2 == comp \cup o.added
<1>1. /\ o.done \in SUBSET Lessons /\ o.lessons \in SUBSET Lessons
      /\ o.lesson \in Lessons \cup {None} /\ o.added \in SUBSET Lessons
      /\ comp2 \in SUBSET Lessons /\ None \notin Lessons
  BY StructureAssumption DEF Req, Items
<1>2. /\ o.lessons \subseteq all /\ o.done \subseteq comp2
      /\ o.added \subseteq {o.lesson} \cap all
      /\ o.lesson # None => o.lesson \in o.done /\ o.lesson \in comp2
      /\ o.saw # None => snap # None /\ o.saw.completed <= Cardinality(comp)
  BY DEF Sound, Counting
<1>3. o.lesson # None => o.lessons = all /\ o.done = comp2
  BY DEF Exclusive
<1>4. /\ Cardinality(comp) \in Nat /\ Cardinality(comp2) \in Nat
      /\ Cardinality(comp) <= Cardinality(comp2)
      /\ Cardinality(o.done) \in Nat /\ Cardinality(o.done) <= Cardinality(comp2)
      /\ Cardinality(o.lessons) \in Nat /\ Cardinality(all) \in Nat
      /\ Cardinality(o.lessons) <= Cardinality(all)
  BY <1>1, <1>2, LessonsFinite
<1>5. /\ n \in Counts /\ n # None
      /\ n.completed = Cardinality(o.done \cap o.lessons)
      /\ n.total = Cardinality(o.lessons)
      /\ n.completed <= n.total /\ n.completed <= Cardinality(o.done)
      /\ n.completed \in Nat /\ n.total \in Nat
  <2>1. n \in Counts => n.completed \in Nat /\ n.total \in Nat
    BY DEF Counts
  <2>. HIDE DEF n
  <2>. QED
    BY <1>1, <2>1, CountsTyped DEF n
<1>6. n.completed = 0 <=> o.done \cap o.lessons = {}
  <2>1. o.done \cap o.lessons \in SUBSET Lessons
    BY <1>1
  <2>. QED  BY <1>5, <2>1, LessonsFinite
<1>7. /\ ToSave(o) = {} <=> o.saw = n \/ (o.saw = None /\ n.completed = 0)
      /\ Written(o, snap) = IF ToSave(o) = {} THEN snap ELSE n
  BY DEF ToSave, Written
<1>8. o.lesson = None => comp2 = comp
  BY <1>1, <1>2
<1>9. o.lesson # None => n.completed # 0
  <2>1. comp2 \subseteq all
    BY <1>2
  <2>. QED  BY <1>2, <1>3, <1>6, <2>1
<1>. HIDE DEF n, comp2
<1>10. CASE ToSave(o) = {}
  <2>1. Written(o, snap) = snap /\ (o.saw = n \/ (o.saw = None /\ n.completed = 0))
    BY <1>7, <1>10
  <2>2. comp2 # comp => o.saw = n /\ snap # None
    BY <1>2, <1>5, <1>8, <1>9, <2>1
  <2>3. snap # None => snap.completed \in Nat
    BY DEF Counts
  <2>4. Saved(snap, comp2, all)
    <3>1. CASE comp2 = comp
      BY <3>1
    <3>2. CASE comp2 # comp
      <4>1. comp2 # {}
        BY <2>2, <3>2 DEF Saved, comp2
      <4>. QED  BY <1>4, <2>2, <2>3, <3>2, <4>1 DEF Saved
    <3>. QED  BY <3>1, <3>2
  <2>5. comp2 = comp
    <3>1. SUFFICES ASSUME comp2 # comp PROVE FALSE
      OBVIOUS
    <3>2. o.lesson # None /\ o.lesson \notin comp /\ comp2 = comp \cup {o.lesson}
      BY <1>2, <1>8, <3>1 DEF Exclusive, comp2
    <3>3. Cardinality(comp2) = Cardinality(comp) + 1
      BY <1>1, <3>2, LessonsFinite
    <3>4. o.done \cap o.lessons = comp2
      BY <1>2, <1>3, <3>2 DEF comp2
    <3>5. o.saw = n /\ o.saw # None
      BY <1>5, <2>2, <3>1
    <3>6. n.completed = Cardinality(comp) + 1
      BY <1>5, <3>3, <3>4
    <3>7. n.completed <= Cardinality(comp)
      BY <1>2, <3>5
    <3>. QED
      BY <1>4, <3>6, <3>7
  <2>. QED  BY <2>1, <2>4, <2>5 DEF comp2
<1>11. CASE ToSave(o) # {}
  <2>1. Written(o, snap) = n /\ ~(o.saw = None /\ n.completed = 0)
    BY <1>7, <1>11
  <2>2. comp2 # {}
    <3>1. CASE o.saw # None
      BY <1>2, <3>1 DEF Saved, comp2
    <3>2. CASE o.saw = None
      BY <1>2, <1>6, <2>1, <3>2
    <3>. QED  BY <3>1, <3>2
  <2>3. Saved(n, comp2, all)
    BY <1>4, <1>5, <2>2 DEF Saved
  <2>4. comp2 # comp => n = CountsOf(comp2, all)
    BY <1>3, <1>8 DEF n
  <2>. QED  BY <1>5, <2>1, <2>3, <2>4 DEF comp2
<1>. QED  BY <1>10, <1>11

\* The commit of a request keeps the invariant, and a completion saves exact
\* counts with it.
LEMMA Persists ==
  ASSUME ProgressInv, NEW q \in Requests, Persist(q)
  PROVE  /\ ProgressInv'
         /\ \A s \in Students : completed'[s] # completed[s] =>
              snapshot'[s] = CountsOf(completed'[s], CourseLessons)
<1>. DEFINE o == req[q]
            s == o.student
            comp == completed[s]
            snap == snapshot[s]
            all == CourseLessons
            comp2 == comp \cup o.added
            snap2 == Written(o, snap)
            r == [o EXCEPT !.stage = "answered", !.added = {}]
<1>1. o.stage = "persist" /\ ReqStage(q) # "idle"
  BY DEF Persist, ReqStage
<1>2. /\ o \in Req /\ s \in Students
      /\ comp \in SUBSET Lessons /\ all \in SUBSET Lessons /\ comp \subseteq all
      /\ snap \in Counts \cup {None} /\ Saved(snap, comp, all)
      /\ Sound(o, comp, snap, all)
      /\ Holding(o) => lock = q /\ Exclusive(o, comp, all)
  BY <1>1, AtWork
<1>3. Holding(o) <=> o.lesson # None
  BY <1>1 DEF Holding, Counting
<1>4. /\ snapshot' = [snapshot EXCEPT ![s] = snap2]
      /\ completed' = [completed EXCEPT ![s] = comp2]
      /\ lock' = Unlocked(q) /\ req' = [req EXCEPT ![q] = r]
      /\ UNCHANGED <<item, tx>>
  BY DEF Persist, Set, Written, structure
<1>5. r \in Req /\ o.added \in SUBSET Lessons
  BY <1>2 DEF Req, ReqStages
<1>6. /\ r.stage = "answered" /\ r.student = s /\ r.lesson = o.lesson /\ r.added = {}
      /\ r.known = o.known /\ r.lessons = o.lessons /\ r.done = o.done
  BY <1>2 DEF Req
<1>7. /\ snap2 \in Counts \cup {None} /\ (snap # None => snap2 # None)
      /\ Saved(snap2, comp2, all)
      /\ comp2 # comp => snap2 = CountsOf(comp2, all)
  <2>1. o.lesson # None => Exclusive(o, comp, all)
    BY <1>2, <1>3
  <2>. HIDE DEF o, s, comp, snap, all
  <2>2. /\ Written(o, snap) \in Counts \cup {None}
        /\ snap # None => Written(o, snap) # None
        /\ Saved(Written(o, snap), comp \cup o.added, all)
        /\ comp \cup o.added # comp =>
             Written(o, snap) = CountsOf(comp \cup o.added, all)
    BY <1>1, <1>2, <2>1, Persisted, ZenonT(60)
  <2>. QED  BY <2>2
<1>8. IInv'
  BY <1>4, EditorsUndisturbed DEF ProgressInv
<1>9. /\ \A t \in Students : /\ completed'[t] = IF t = s THEN comp2 ELSE completed[t]
                             /\ snapshot'[t] = IF t = s THEN snap2 ELSE snapshot[t]
      /\ \A p \in Requests : req'[p] = IF p = q THEN r ELSE req[p]
      /\ req' \in [Requests -> Req]
      /\ completed' \in [Students -> SUBSET Lessons]
      /\ snapshot' \in [Students -> Counts \cup {None}]
      /\ CourseLessons' = all
  <2>1. comp2 \in SUBSET Lessons
    BY <1>2, <1>5
  <2>. HIDE DEF comp2, snap2, r, s
  <2>. QED
    BY <1>2, <1>4, <1>5, <1>7, <2>1 DEF ProgressInv, CourseLessons
<1>10. comp2 \subseteq all
  BY <1>2 DEF Sound
<1>11. \A t \in Students : /\ completed'[t] \subseteq CourseLessons'
                           /\ Saved(snapshot'[t], completed'[t], CourseLessons')
  <2>. HIDE DEF comp2, snap2, s
  <2>. QED  BY <1>7, <1>9, <1>10 DEF ProgressInv
<1>12. Sound(r, comp2, snap2, all) /\ ~Holding(r)
  <2>. HIDE DEF r, comp, snap, all, o
  <2>. QED
    BY <1>1, <1>2, <1>6 DEF Sound, Holding, Counting, s
<1>13. ASSUME NEW p \in Requests PROVE ReqInv(p)'
  <2>1. CASE p = q
    <3>1. req'[p] = r /\ completed'[s] = comp2 /\ snapshot'[s] = snap2
      BY <1>2, <1>9, <2>1
    <3>. HIDE DEF r, comp2, snap2, s
    <3>. QED
      BY <1>6, <1>9, <1>12, <3>1 DEF ReqInv
  <2>2. CASE p # q /\ req[p] = IdleReq
    BY <1>9, <2>2 DEF ReqInv
  <2>3. CASE p # q /\ req[p] # IdleReq
    <3>. DEFINE u == req[p]
                t == u.student
    <3>1. /\ u \in Req /\ req'[p] = u /\ p # None /\ Sound(u, completed[t], snapshot[t], all)
          /\ Holding(u) => lock = p /\ Exclusive(u, completed[t], all)
      BY <1>9, <2>3, ProgressAssumption, StructureAssumption DEF ProgressInv, ReqInv
    <3>2. t \in Students
      BY <3>1 DEF Sound
    <3>3. /\ completed[t] \in SUBSET Lessons /\ completed'[t] \in SUBSET Lessons
          /\ completed[t] \subseteq completed'[t]
          /\ snapshot[t] # None => snapshot'[t] # None
      <4>. HIDE DEF snap2, u, t
      <4>. QED  BY <1>7, <1>9, <3>2 DEF ProgressInv
    <3>4. Sound(u, completed'[t], snapshot'[t], all)
      <4>. HIDE DEF u, t, all
      <4>. QED  BY <3>1, <3>3, SoundGrows
    <3>5. ASSUME Holding(u)
          PROVE  lock' = p /\ completed'[t] = completed[t]
      <4>1. lock = p /\ o.lesson = None
        BY <1>2, <1>3, <2>3, <3>1, <3>5
      <4>2. comp2 = comp
        BY <1>2, <4>1, StructureAssumption DEF Sound, Items
      <4>. HIDE DEF comp2
      <4>. QED  BY <1>4, <1>9, <2>3, <3>2, <4>1, <4>2 DEF Unlocked
    <3>. HIDE DEF all
    <3>. QED
      BY <1>9, <3>1, <3>4, <3>5 DEF ReqInv
  <2>. QED  BY <2>1, <2>2, <2>3
<1>14. ProgressInv'
  BY <1>8, <1>9, <1>11, <1>13 DEF ProgressInv
<1>15. \A t \in Students : completed'[t] # completed[t] =>
         snapshot'[t] = CountsOf(completed'[t], CourseLessons)
  <2>. HIDE DEF comp2, snap2, s
  <2>. QED  BY <1>7, <1>9
<1>. QED  BY <1>14, <1>15

-----------------------------------------------------------------------------
(* The invariant is inductive *)

LEMMA NothingYet == ProgressInit => ProgressInv
<1>. SUFFICES ASSUME ProgressInit PROVE ProgressInv
  OBVIOUS
<1>1. IInv
  BY InitKeeps DEF ProgressInit
<1>2. IdleReq \in Req
  BY DEF IdleReq, Req, ReqStages
<1>3. req \in [Requests -> Req] /\ \A q \in Requests : ReqInv(q)
  BY <1>2 DEF ProgressInit, ReqInv
<1>4. \A s \in Students : completed[s] = {} /\ snapshot[s] = None
  BY DEF ProgressInit
<1>. QED
  BY <1>1, <1>3, <1>4 DEF ProgressInv, ProgressInit, Saved

\* An editor's step: a completion that holds the lock sees the same lessons,
\* anything else sees no fewer.
LEMMA EditorsKeep ==
  ASSUME ProgressInv, NEW c \in Clients, Edit(c), UNCHANGED <<completed, snapshot, req>>
  PROVE  ProgressInv'
<1>. DEFINE all == CourseLessons
            all2 == CourseLessons'
<1>1. IInv' /\ (item' = item \/ (lock = c /\ all \subseteq all2))
  BY EditKeeps, EditorsAdd DEF ProgressInv
<1>2. /\ all \in SUBSET Lessons /\ all2 \in SUBSET Lessons /\ all \subseteq all2
      /\ all2 # all => lock = c
  BY <1>1 DEF CourseLessons
<1>3. \A s \in Students : /\ completed[s] \subseteq all2
                          /\ Saved(snapshot[s], completed[s], all2)
  <2>. HIDE DEF all, all2
  <2>1. \A s \in Students : /\ completed[s] \subseteq all
                            /\ snapshot[s] \in Counts \cup {None}
                            /\ Saved(snapshot[s], completed[s], all)
    BY DEF ProgressInv, all
  <2>. QED  BY <1>2, <2>1, SavedGrows
<1>4. \A q \in Requests : lock = q => lock' = q /\ all2 = all
  <2>1. c \in Holders /\ \A q \in Requests : q # c /\ q # None
    BY ProgressAssumption, StructureAssumption
  <2>2. lock \in {None, c} \/ lock' = lock
    BY DEF Edit, LockCourse, CourseFree, Rollback, End, Park, Place, Commit, InsertRow,
           Shift, CreateChapter, CreateLesson, CreateMaterial, BeginCreate, UpdateChapter,
           UpdateLesson, UpdateMaterial, Update, UpdateText, BeginMove, ProgressInv, IInv,
           LockInv, Drafting, Stage
  <2>. HIDE DEF all, all2
  <2>. QED  BY <1>2, <2>1, <2>2
<1>5. ASSUME NEW q \in Requests PROVE ReqInv(q)'
  <2>. DEFINE r == req[q]
              s == r.student
  <2>1. r \in Req /\ req'[q] = r /\ ReqInv(q)
    BY DEF ProgressInv
  <2>2. CASE r = IdleReq
    BY <2>1, <2>2 DEF ReqInv
  <2>3. CASE r # IdleReq
    <3>1. /\ Sound(r, completed[s], snapshot[s], all)
          /\ Holding(r) => lock = q /\ Exclusive(r, completed[s], all)
      BY <2>1, <2>3 DEF ReqInv
    <3>2. completed[s] \in SUBSET Lessons
      BY <3>1 DEF Sound, ProgressInv
    <3>. HIDE DEF r, s, all, all2
    <3>3. Sound(r, completed[s], snapshot[s], all2)
      BY <1>2, <2>1, <3>1, <3>2, SoundGrows
    <3>4. Holding(r) => lock' = q /\ Exclusive(r, completed[s], all2)
      BY <1>4, <3>1
    <3>5. completed'[s] = completed[s] /\ snapshot'[s] = snapshot[s]
      OBVIOUS
    <3>. QED
      BY <2>1, <3>3, <3>4, <3>5 DEF ReqInv, s, all2
  <2>. QED  BY <2>2, <2>3
<1>6. /\ req' \in [Requests -> Req]
      /\ completed' \in [Students -> SUBSET Lessons]
      /\ snapshot' \in [Students -> Counts \cup {None}]
  BY DEF ProgressInv
<1>. QED
  BY <1>1, <1>3, <1>5, <1>6 DEF ProgressInv

\* Publication and places in groups are of no matter to what is counted.
LEMMA OthersKeep ==
  ASSUME ProgressInv, UNCHANGED <<item, lock, tx, completed, snapshot, req>>
  PROVE  ProgressInv'
<1>1. IInv'
  BY StepKeeps DEF ProgressInv
<1>2. \A q \in Requests : ReqInv(q)'
  BY DEF ProgressInv, ReqInv, CourseLessons
<1>. QED
  BY <1>1, <1>2 DEF ProgressInv, CourseLessons

\* Every step but a commit of syncProgress leaves the completions alone.
LEMMA StepsOfRequests ==
  ASSUME ProgressInv, NEW q \in Requests, ProgressStep(q)
  PROVE  ProgressInv' /\ (completed' = completed \/ Persist(q))
<1>1. CASE CompletionLock(q) \/ FindCompletion(q)
  BY <1>1, Looks DEF CompletionLock, FindCompletion, records
<1>2. CASE CreateCompletion(q)
  BY <1>2, Creates DEF CreateCompletion, records
<1>3. CASE Abandon(q) \/ Reply(q)
  BY <1>3, Ends DEF Abandon, Reply, records
<1>4. CASE ListLessons(q) \/ ListCompletions(q) \/ ReadSnapshot(q)
  BY <1>4, Queries DEF ListLessons, ListCompletions, ReadSnapshot, records
<1>5. CASE Persist(q)
  BY <1>5, Persists
<1>6. ASSUME NEW s \in Students, NEW l \in Lessons \cup {None}, NEW stage,
             \/ stage = "checked" /\ l \in Lessons
             \/ stage = "lessons" /\ l = None,
             Arrive(q, s, l, stage)
      PROVE  ProgressInv' /\ completed' = completed
  BY <1>6, Arrives DEF Arrive, records
<1>. QED
  BY <1>1, <1>2, <1>3, <1>4, <1>5, <1>6
     DEF ProgressStep, AskOwn, AskForStudent, AskCompletion

LEMMA EveryStep ==
  ASSUME ProgressInv, [ProgressNext]_vars
  PROVE  /\ ProgressInv'
         /\ \A s \in Students : completed'[s] # completed[s] =>
              snapshot'[s] = CountsOf(completed'[s], CourseLessons)
<1>1. ASSUME NEW c \in Clients, Edit(c), UNCHANGED <<access, records, req>>
      PROVE  ProgressInv' /\ completed' = completed
  BY <1>1, EditorsKeep DEF records
<1>2. CASE Access
  <2>1. UNCHANGED <<item, lock, tx, completed, snapshot, req>>
    BY <1>2 DEF Access, ChangePublication, AssignCourse, ChangePlace, structure, records
  <2>. QED  BY <2>1, OthersKeep
<1>3. CASE UNCHANGED vars
  BY <1>3, OthersKeep DEF vars
<1>. QED
  BY <1>1, <1>2, <1>3, StepsOfRequests, Persists DEF ProgressNext

-----------------------------------------------------------------------------
(* Theorems *)

THEOREM ProgressInvariance == ProgressSpec => []ProgressInv
BY NothingYet, EveryStep, PTL DEF ProgressSpec

\* However many completions of one lesson a student sends together, no insert
\* meets the unique index: markCompleted looks under the lock of the course.
THEOREM CompletionsNeverCollide == ProgressSpec => []NoDuplicateCompletion
<1>1. ProgressInv => NoDuplicateCompletion
  BY DEF ProgressInv, ReqInv, Sound, NoDuplicateCompletion, ReqStage, IdleReq
<1>. QED  BY ProgressInvariance, <1>1, PTL

\* Whatever requests overlap, students have saved counts exactly when they have
\* completed something, and the counts are never ahead of the rows.
THEOREM CountsNeverAhead == ProgressSpec => []SavedCountsSound
<1>1. ProgressInv => SavedCountsSound
  BY DEF ProgressInv, Saved, SavedCountsSound
<1>. QED  BY ProgressInvariance, <1>1, PTL

\* An answer counts what was completed when its request came in, although its
\* queries are separate and, when it only asks, take no lock.
THEOREM AnswersMissNothing == ProgressSpec => []AnswerCountsKnown
<1>1. ProgressInv => AnswerCountsKnown
  BY DEF ProgressInv, ReqInv, Sound, AnswerCountsKnown, ReqStage, Completes, IdleReq
<1>. QED  BY ProgressInvariance, <1>1, PTL

\* The counts saved with a completion are those of the moment it commits: an
\* overlapping request for progress cannot make persistSnapshot skip the write.
THEOREM CompletionsCountThemselves == ProgressSpec => CompletionSavesExactCounts
BY ProgressInvariance, EveryStep, PTL DEF ProgressSpec, CompletionSavesExactCounts

\* Editors keep what CourseStructure promises while students work.
THEOREM StructureKept == ProgressSpec => [](ListsContiguous /\ NoCollision)
<1>1. ProgressInv => ListsContiguous /\ NoCollision
  BY DEF ProgressInv, IInv
<1>. QED  BY ProgressInvariance, <1>1, PTL
=============================================================================
