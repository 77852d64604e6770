--------------------------- MODULE CourseProgress ---------------------------
(***************************************************************************)
(* The progress of students through a course: course-progress.service.ts,  *)
(* over the lessons of CourseStructure, whose editors work at the same     *)
(* time.                                                                   *)
(*                                                                         *)
(* Completing a lesson locks the row of the course, as the editors do, adds *)
(* a completion, counts again and saves the counts.  Asking for progress    *)
(* counts and saves too, but locks nothing: each query sees what is        *)
(* committed at that moment, and the saved counts may be old by then.      *)
(***************************************************************************)
EXTENDS CourseStructure

CONSTANTS
  Students,
  Requests   \* requests for progress that may be in progress together

ASSUME ProgressAssumption ==
  /\ Requests \subseteq Holders /\ Requests \cap Clients = {}
  /\ None \notin Students

VARIABLES
  published,  \* the course is PUBLISHED
  enrolment,  \* each student's place in a group that is taught the course
  completed,  \* rows of course_lesson_completions, by student
  snapshot,   \* the row of course_progress of each student, or None
  req         \* the request for progress each process is working on

records == <<completed, snapshot>>
access == <<published, enrolment>>
vars == <<item, lock, tx, published, enrolment, completed, snapshot, req>>

-----------------------------------------------------------------------------
(* Rows *)

PlaceStatus == {"none", "ACTIVE", "COMPLETED", "DROPPED"}

\* Saved counts.  The percentage is a function of them.
Counts == [completed: Nat, total: Nat, percent: 0..100]

ASSUME NoCountsAssumption == None \notin Counts

\* progressPercent: Math.round(completed * 100 / total).
Percent(n, total) ==
  IF total = 0 THEN 0 ELSE (200 * n + total) \div (2 * total)

CountsOf(done, lessons) ==
  LET n == Cardinality(done \cap lessons)
      total == Cardinality(lessons)
  IN [completed |-> n, total |-> total, percent |-> Percent(n, total)]

CourseLessons == {l \in Lessons : item[l] # None}

-----------------------------------------------------------------------------
(* Requests *)

ReqStages == {"idle", "checked", "locked", "create", "lessons", "completions",
              "snapshot", "persist", "answered", "failed"}

\* added: the completion the transaction has inserted.  lessons, done, saw: what
\* its queries have returned.  known: what was completed when the request came
\* in, kept for the properties only.
Req == [stage: ReqStages, student: Students \cup {None}, lesson: Lessons \cup {None},
        added: SUBSET Lessons, lessons: SUBSET Lessons, done: SUBSET Lessons,
        saw: Counts \cup {None}, known: SUBSET Lessons]

IdleReq == [stage |-> "idle", student |-> None, lesson |-> None, added |-> {},
            lessons |-> {}, done |-> {}, saw |-> None, known |-> {}]

ReqStage(q) == req[q].stage
Completes(q) == req[q].lesson # None

Set(q, r) == req' = [req EXCEPT ![q] = r]

Unlocked(q) == IF lock = q THEN None ELSE lock

\* requireAssignedPublishedCourse.
MayStudy(s) == published /\ enrolment[s] = "ACTIVE"

\* enrollmentWhere: a place in a group that is taught the course, past ones too.
VisibleEnrolment(s) == enrolment[s] \in {"ACTIVE", "COMPLETED"}

\* requireStaffEnrollment, for an administrator or the teacher of the group.
MayBeSeen(s) == VisibleEnrolment(s)

Arrive(q, s, l, stage) ==
  /\ ReqStage(q) = "idle"
  /\ Set(q, [IdleReq EXCEPT !.stage = stage, !.student = s, !.lesson = l,
                            !.known = completed[s]])
  /\ UNCHANGED <<structure, lock, access, records>>

\* completeLesson: the access is checked before the transaction.
AskCompletion(q, s, l) == MayStudy(s) /\ Arrive(q, s, l, "checked")

\* getOwn and getCurrent.
AskOwn(q, s) == MayStudy(s) /\ Arrive(q, s, None, "lessons")

\* getForStudent.
AskForStudent(q, s) == MayBeSeen(s) /\ Arrive(q, s, None, "lessons")

\* Mutant of CompletionLock: lockCourse is left out.
NoCompletionLock(q) ==
  /\ ReqStage(q) = "checked"
  /\ Set(q, [req[q] EXCEPT !.stage = "locked"])
  /\ UNCHANGED <<structure, lock, access, records>>

\* BEGIN; lockCourse.
CompletionLock(q) ==
  /\ ReqStage(q) = "checked"
  /\ CourseFree(q)
  /\ lock' = q
  /\ Set(q, [req[q] EXCEPT !.stage = "locked"])
  /\ UNCHANGED <<structure, access, records>>

\* The lesson exists; markCompleted looks for its completion.
FindCompletion(q) ==
  /\ ReqStage(q) = "locked"
  /\ req[q].lesson \in CourseLessons
  /\ Set(q, [req[q] EXCEPT
               !.stage = IF req[q].lesson \in completed[req[q].student]
                         THEN "lessons" ELSE "create"])
  /\ UNCHANGED <<structure, lock, access, records>>

\* courseLessonCompletion.create.  An insert of the same row by another
\* transaction is waited for; if it is committed, the unique index refuses this
\* one, and PostgreSQL refuses the rest of the transaction.
CreateCompletion(q) ==
  LET s == req[q].student  l == req[q].lesson IN
  /\ ReqStage(q) = "create"
  /\ \A r \in Requests \ {q} : req[r].student = s => l \notin req[r].added
  /\ Set(q, IF l \in completed[s]
            THEN [req[q] EXCEPT !.stage = "failed"]
            ELSE [req[q] EXCEPT !.stage = "lessons", !.added = {l}])
  /\ UNCHANGED <<structure, lock, access, records>>

\* 404, a timeout or an error inside the transaction.
Abandon(q) ==
  /\ ReqStage(q) \notin {"idle", "answered"}
  /\ lock' = Unlocked(q)
  /\ Set(q, IdleReq)
  /\ UNCHANGED <<structure, access, records>>

-----------------------------------------------------------------------------
(* syncProgress *)

ListLessons(q) ==
  /\ ReqStage(q) = "lessons"
  /\ Set(q, [req[q] EXCEPT !.stage = "completions", !.lessons = CourseLessons])
  /\ UNCHANGED <<structure, lock, access, records>>

\* Mutant of ListCompletions: the query is sent outside the transaction.
ListCommittedCompletions(q) ==
  /\ ReqStage(q) = "completions"
  /\ Set(q, [req[q] EXCEPT !.stage = "snapshot",
                           !.done = completed[req[q].student] \cap req[q].lessons])
  /\ UNCHANGED <<structure, lock, access, records>>

\* The student's completions of these lessons, the transaction's own included.
ListCompletions(q) ==
  /\ ReqStage(q) = "completions"
  /\ Set(q, [req[q] EXCEPT
               !.stage = "snapshot",
               !.done = (completed[req[q].student] \cup req[q].added) \cap req[q].lessons])
  /\ UNCHANGED <<structure, lock, access, records>>

ReadSnapshot(q) ==
  /\ ReqStage(q) = "snapshot"
  /\ Set(q, [req[q] EXCEPT !.stage = "persist", !.saw = snapshot[req[q].student]])
  /\ UNCHANGED <<structure, lock, access, records>>

\* Mutant of ToSave: the saved count is increased by every completion.
ToSaveIncreased(r) ==
  LET counts == CountsOf(r.done, r.lessons)
  IN IF r.saw # None /\ r.lesson # None
     THEN {[counts EXCEPT !.completed = r.saw.completed + 1]}
     ELSE IF r.saw = counts \/ (r.saw = None /\ counts.completed = 0)
          THEN {} ELSE {counts}

\* Mutant of ToSave: counts of zero are saved too.
ToSaveAlways(r) ==
  LET counts == CountsOf(r.done, r.lessons)
  IN IF r.saw = counts THEN {} ELSE {counts}

\* persistSnapshot: the counts it writes, if it writes.
ToSave(r) ==
  LET counts == CountsOf(r.done, r.lessons)
  IN IF r.saw = counts \/ (r.saw = None /\ counts.completed = 0)
     THEN {} ELSE {counts}

\* The upsert and the commit.
Persist(q) ==
  LET r == req[q]  s == r.student IN
  /\ ReqStage(q) = "persist"
  /\ snapshot' = [snapshot EXCEPT ![s] =
                    IF ToSave(r) = {} THEN @ ELSE CHOOSE n \in ToSave(r) : TRUE]
  /\ completed' = [completed EXCEPT ![s] = @ \cup r.added]
  /\ lock' = Unlocked(q)
  /\ Set(q, [r EXCEPT !.stage = "answered", !.added = {}])
  /\ UNCHANGED <<structure, access>>

Reply(q) ==
  /\ ReqStage(q) = "answered"
  /\ Set(q, IdleReq)
  /\ UNCHANGED <<structure, lock, access, records>>

-----------------------------------------------------------------------------
(* What else changes the access to the course *)

\* changePublication, in one UPDATE of the row that lockCourse locks; no code
\* archives a course.
ChangePublication ==
  /\ lock = None
  /\ published' = ~published
  /\ UNCHANGED <<structure, lock, enrolment, records, req>>

\* assignGroup, removeFromGroup and changeTrainingStatus of students.service.ts.
ChangePlace(s, status) ==
  /\ status # enrolment[s]
  /\ enrolment' = [enrolment EXCEPT ![s] = status]
  /\ UNCHANGED <<structure, lock, published, records, req>>

\* assignCourse of groups.service.ts: the open group of a student is given the
\* course, or another one or none.
AssignCourse(s) ==
  /\ enrolment[s] \in {"none", "ACTIVE"}
  /\ ChangePlace(s, IF enrolment[s] = "none" THEN "ACTIVE" ELSE "none")

-----------------------------------------------------------------------------
ProgressInit ==
  /\ Init
  /\ published = FALSE
  /\ enrolment = [s \in Students |-> "none"]
  /\ completed = [s \in Students |-> {}]
  /\ snapshot = [s \in Students |-> None]
  /\ req = [q \in Requests |-> IdleReq]

ProgressStep(q) ==
  \/ CompletionLock(q) \/ FindCompletion(q) \/ CreateCompletion(q) \/ Abandon(q)
  \/ ListLessons(q) \/ ListCompletions(q) \/ ReadSnapshot(q) \/ Persist(q) \/ Reply(q)
  \/ \E s \in Students : \/ AskOwn(q, s) \/ AskForStudent(q, s)
                         \/ \E l \in Lessons : AskCompletion(q, s, l)

Access ==
  \/ ChangePublication
  \/ \E s \in Students : \/ AssignCourse(s)
                         \/ \E status \in PlaceStatus : ChangePlace(s, status)

ProgressNext ==
  \/ \E c \in Clients : Edit(c) /\ UNCHANGED <<access, records, req>>
  \/ \E q \in Requests : ProgressStep(q)
  \/ Access

ProgressSpec == ProgressInit /\ [][ProgressNext]_vars

-----------------------------------------------------------------------------
(* Properties *)

\* Two completions of a lesson by one student never meet in the insert: the
\* lock of the course makes the second one find the first (markCompleted).
NoDuplicateCompletion == \A q \in Requests : ReqStage(q) # "failed"

\* A student has saved counts exactly when he has completed a lesson, whatever
\* requests for his progress overlap.  They may be behind, they are never ahead
\* of the completions and the lessons there are, and they stay within
\* course_progress_counts_check (persistSnapshot).
SavedCountsSound ==
  \A s \in Students :
    /\ snapshot[s] # None <=> completed[s] # {}
    /\ snapshot[s] # None =>
         /\ snapshot[s].completed <= Cardinality(completed[s])
         /\ snapshot[s].total <= Cardinality(CourseLessons)
         /\ snapshot[s].completed <= snapshot[s].total

\* An answer counts everything that was completed when the request came in,
\* and the lesson the request itself completed (syncProgress).
AnswerCountsKnown ==
  \A q \in Requests : ReqStage(q) = "answered" =>
    /\ req[q].known \subseteq req[q].done
    /\ Completes(q) => req[q].lesson \in req[q].done

\* A completion leaves saved counts that are exact when it commits: neither a
\* lesson nor a completion can appear between its counting and its commit.
CompletionSavesExactCounts ==
  [][\A s \in Students : completed'[s] # completed[s] =>
       snapshot'[s] = CountsOf(completed'[s], CourseLessons)]_vars
=============================================================================
