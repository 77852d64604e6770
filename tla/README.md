# Stage Drive backend: TLA+ models, checks and proofs

The repository is the backend of a system for driving schools: a NestJS
application over PostgreSQL (Prisma). This directory holds TLA+ models of the
parts in which concurrent requests, background work and failures meet, the TLC
configurations that check them on small instances, and proofs checked by TLAPS.
Paths below are relative to the repository; `modules/` is `src/modules/` and
`common/` is `src/common/`.

## 1. The system

All state is in PostgreSQL; a server process keeps none that matters except the
progress of its invitation mail pump. Requests run concurrently, in one or more
processes. Transactions are READ COMMITTED: every statement sees what has been
committed by the time it starts, so a row that was read without a lock may be
different when it is written. Components meet only in rows and in the locks
they take on them.

| Component (code) | State | Operations | Meets | What makes it correct |
|---|---|---|---|---|
| Lesson schedule (`modules/lessons/lessons.service.ts`, `schedule-conflicts.ts`) | `lessons`, `driving_lessons` | create, update, reschedule, cancel of theory and practice | groups, attendance, students, cars through row and advisory locks | nobody and nothing is booked twice; a cancelled lesson stays cancelled; no deadlock |
| Attendance (`lesson-attendance.service.ts`) | `lesson_attendance` | mark, list | lesson row and group row | marks only of lessons that have begun, never moved afterwards |
| Locks (`common/prisma/schedule-lock.ts`, `group-lock.ts`) | locks of PostgreSQL | lock group, lesson, schedule keys | everything above | one order: group, lesson, sorted keys |
| Groups (`modules/groups`) | `groups` | create, update, change status, course, roster | lessons (closing cancels them), enrolment | status only moves forward; a closed group has no future lesson and is not edited |
| Students and enrolment (`modules/students`) | `students`, `enrollments` | create, edit, assign, remove, training status, archive, practice access | groups, cars, schedule | at most one open group per student; no member of a closed group; training status, enrolments and the group in the row agree |
| Cars (`modules/cars`) | `cars` | create, edit, assign an instructor, change status | students in practice, schedule | the car of a student in practice is available and fits |
| Invitations (`modules/invitations/invitations.service.ts`) | `users`, `invitations` | invite, invite again, resend, cancel, verify, activate | mail queue, sign-in | one outcome per invitation; an account is activated once |
| Mail queue (`invitation-email.queue.ts`) | `invitation_email_jobs`, pump of each process | enqueue, supersede, claim, dispatch, retry, recover | invitations, SMTP | each letter ends; one pump per job; the link is stored no longer than needed |
| Course structure (`modules/courses/course-structure.*`) | chapters, lessons, materials with positions | insert, move, edit | course row lock | positions are 1..n without gap; no unique violation on the way |
| Course progress (`course-progress.service.ts`) | completions, snapshot | complete, load | course row lock (not when loading), structure, publication, enrolment | saved counts are never ahead and exact after a completion; an answer misses nothing completed before it was asked |
| Courses (`courses.service.ts`) | `courses` | create, update, publish | structure, progress | only a published course is studied |
| Sessions (`modules/auth/auth.service.ts`, `refresh-token.service.ts`, `google-auth.service.ts`) | refresh tokens, `tokensInvalidBefore` | login, rotate, revoke, logout, Google | users | a session that is over stays over; who ends sessions ends them all |
| Password reset, e-mail change (`password-reset.service.ts`, `modules/users/email-change.service.ts`) | links | request, reset, verify | sessions, users | a link changes the address once; a change ends all sessions |
| Users and members (`modules/users/users.service.ts`) | `users`, `students` | status, role, password, deletion, profile | invitations (which write role and profile too), sessions, everything that checks a role | a student has a profile; a change of the role takes profile and open invitations with it |
| Organization, dashboards, personal schedule | rows | edits, lists | the above | single statements, or only reads |

The behaviours that are hard here: requests interleaving between a read and a
write; a clock read before a wait for a lock; the order of locks; rows updated
by id after an unlocked check; processes that stop between claiming a job and
finishing it; letters that are refused, or delivered although refused.
`PROJECT.json` lists them as hazards, each at its line.

## 2. Modules

| Module | Models |
|---|---|
| `ScheduleSlots` | the interval arithmetic of `schedule-conflicts.ts` |
| `BookingLedger` | abstract: lessons booked, moved, cancelled in one step, only into free slots |
| `LessonSchedule` | the schedule, attendance, closing and editing of groups, and their locks, as interleaved transactions |
| `MCLessonSchedule` | instances of it for TLC |
| `LessonScheduleProofs` | its theorems about keys and conflicts |
| `LessonResourceProofs` | its theorems about teachers and classes |
| `LessonLockProofs` | its theorems about row locks, the refinement of `BookingLedger`, and the order of locks |
| `InvitationEmails` | the mail queue: rows of jobs, the pump of every process, faults |
| `Invitations` | the requests around invitations, composed with the queue |
| `MCInvitations` | instances of it for TLC |
| `InvitationProofs` | theorems about requests and queue together |
| `StudentRecords` | students, their enrolments and cars, and closing groups, as interleaved requests |
| `MCStudentRecords` | instances of it for TLC |
| `StudentRecordsProofs` | its theorems |
| `OrderedList` | abstract: lists of children, inserted and moved in one step |
| `CourseStructure` | the structure of a course, edited UPDATE by UPDATE under the course lock and read level by level |
| `MCCourseStructure` | instances of it for TLC |
| `CourseStructureProofs` | its theorems, with the refinement of `OrderedList` |
| `CourseProgress` | requests for progress, composed with the editors of `CourseStructure` |
| `MCCourseProgress` | instances of it for TLC |
| `CourseProgressProofs` | its theorems |
| `Accounts` | one account: its sessions, its links, its status and role, query by query |
| `MCAccounts` | instances of it for TLC |
| `AccountProofs` | its theorems |

Every module keeps, next to a definition, the faulty variants of it (named
"Mutant of ...") that its properties have been tested against: each property is
violated when its definition is replaced by one of them.

### LessonSchedule

State: `clock`; `group` (status, teacher, days), `enrolled` (ACTIVE rows of
`enrollments`), `lesson` (both lesson tables: status, the keys used, start,
duration), `attendance`, `suspended` (people not ACTIVE, cars not AVAILABLE);
and, for every client, `tx` (the request and the stage its transaction has
reached) and `held` (its locks).

| Stage | Code | Action |
|---|---|---|
| request, `now` is read | the handlers of `lessons.controller.ts`, `groups.controller.ts` | `CreateTheory` ... `UpdateGroup` |
| group row lock | `lockGroup`, `lockTheoryLessonWithGroup` | `LockGroup` |
| lesson row lock | `lockTheoryLesson`, `lockPracticeLesson` | `LockLesson` |
| reads and refusals | `assertEditable`, `assertStartsInFuture`, ... | `Check` |
| advisory keys, one at a time | `lockScheduleResources` | `LockKey` |
| conflict search | `findTheoryConflicts`, `findPracticeConflicts` | `Search` |
| statement that writes, COMMIT | `create`/`update`/`updateMany` | `WriteBooking`, `WriteCancel`, `WriteAttendance`, `WriteStatus`, `WriteGroup` |
| ROLLBACK by time-out, restart or as a victim | Prisma, PostgreSQL | `Abort` |

Between any two stages other clients run. An operation skips the stages its
code does not have: closing a group locks its row and writes, editing a group
checks before any lock and only then waits for the row, as `UPDATE` does.

Abstractions. The actor is an ADMIN: the checks for other roles only refuse
more. One organization. Time is in units, so a duration of 2 with a maximum of
2 stands for 15..240 minutes; the window of candidates keeps its strict bounds.
The reads of one check are one step (they are made after the row lock, on rows
which that lock or the group lock holds still; the others are `suspended` and
`enrolled`, which may change just before or just after). The two SELECTs of a
search are one step. The days of a group are one set, not two dates. The value
of a mark, topics, places and reasons are left out; an edit of those alone is a
step that changes no variable. Whose car a car is, and which student it fits,
is the constant `Fit`: reassigning cars is not modelled. Practice rows without a
car (from before cars were required) are not modelled. Enrolment, time and the
state of people and cars change in single steps (`Enrol`, `Withdraw`,
`Suspend`, `Tick`); `Enrol` waits for a group being closed as the code does,
the others wait for nothing.

### InvitationEmails and Invitations

One invited e-mail address is modelled; addresses share no row. A link (token)
has one job, so a job is named by its link. State: `user` (status, and which
link the password was set with), `invitation`, `job`, `worker` (how far the
pump of each process is with which job), `mailed` (links in a mailbox),
`faults`, and `request` per client. `CLOSED` is BLOCKED or ARCHIVED.
`acceptedAt` is set exactly when the status is ACCEPTED and is left out.

The pump: `Claim` (`claimNext`), `LoadJob`, `CheckInvitation`, `ReloadJob` (the
three reads of `dispatch`), `Send` (SMTP accepts; refuses; refuses although the
letter goes out), `FinishSent` and `Retry` (`finish`). Every one is a step of
its own and everybody may write in between. The retry delay is abstracted: a
queued job can be claimed at any time. `QueryFails`, `Stop`, `Start` (with
`recoverStuck`) are the faults; `GrowOld` makes a PROCESSING job two minutes
old, which happens only to a job no live pump works on, because each SMTP phase
times out after 10 or 20 seconds (`mail.module.ts`) while `STUCK_PROCESSING_MS`
is two minutes.

A request reads in one step and writes and commits in a later one. The writes
of one transaction are one step because its row locks hold what its conditional
updates have found until the commit; a deadlock between two of them (activate
writes invitation, then user; inviting again the other way round) only rolls
one back, which `GiveUp` also does. `students.create` invites like `invite` does
for a new address. `AccountChange` stands for Google sign-in, archiving, blocking
and deleting.

### StudentRecords

State: `student` (the columns of `users` and `students` that decisions use:
account, training, group, instructor, car; `kind` is the pair of category and
transmission), `enrolment` (status by student and group, `none` for no row),
`group` (status), `car`, `suspended` (instructors not ACTIVE) and `tx`, the
request of every client. `LessonSchedule` takes what these requests do as single
steps; here their own races are modelled.

| Stage | Code | Action |
|---|---|---|
| first reads and refusals | head of each method of `students.service.ts`, `cars.service.ts` | `CreateStudent` ... `ChangeGroupStatus` |
| enrolments that bar a student | `assignGroup`, `terminalEnrollment` | `CheckEnrolments` |
| lock of the group row | `lockGroup` | `LockGroup` |
| the checks made last | `otherActiveEnrollment`, `assertStudentsStillMatch`, `inPractice`, ... | `Check` |
| writes and COMMIT | the updates of each method | `WriteCreateStudent` ... `WriteGroupStatus` |
| ROLLBACK | time-out, deadlock, restart | `Abort` |

`ChangeCar` is `update` of a car and `AssignInstructor` its `assignInstructor`;
both go on through `ChangeColumns`, where only columns that
differ from the row that was read are written. Reads that open a request are one
step, because what the later ones see could only refuse more. The writes of a
request are one step with its commit: each request that writes several rows of a
student or a group waits for, or deadlocks on, the first row another one has
written. `removeFromGroup` writes the enrolment first and the others the
student's row, so two of them may deadlock, and PostgreSQL rolls one back
(`Abort`).

Nothing keeps two requests for one student or one car apart, and the code loses
some of these races (section 3). The history variable `overtaken`, which no action
depends on, says to whom that has happened: a request is overtaken when another
one commits a change of a row that it has read, or would read now: the row and
the enrolments of its student, its car, or a student who has that car
(`Rewritten`). The closing of a group and a change of an account are not
counted: the checks have to bear those at any time. The properties are about
single steps, and a request that is not overtaken may break none of them:
`SecondGroupByRace` says that a student who is in one open group at most gets into
a second one only at the commit of an overtaken assignment, and the others
likewise, each naming the requests whose overtaking can do the harm.

`Fickle` names the accounts that may be blocked, archived and revived.

### CourseStructure, OrderedList and CourseProgress

State of `CourseStructure`: `item` (the committed rows of chapters, lessons and
materials: parent and position), `lock` (who holds the row of the course) and `tx`
(what the transaction, or the reader, of a client sees and has still to do).

| Stage | Code | Action |
|---|---|---|
| `SELECT ... FOR UPDATE` of the course | `lockCourse` in `withLockedCourse` | `LockCourse` |
| parent, siblings, position; refusal | `create*`, `update*`, `assertInsertPosition`, `assertMovePosition` | `CreateChapter` ..., `UpdateChapter` ... |
| the moved row is put out of the way | `shiftForMove`, `update(id, -from)` | `Park` |
| one sibling per UPDATE, in the order of the loop | `shiftForInsert`, `shiftForMove` | `Shift` |
| INSERT, or the final UPDATE | `create*`, `update*` | `InsertRow`, `Place` |
| COMMIT; ROLLBACK | Prisma | `Commit`, `Rollback` |
| queries of `getStructure` and of the student's view, one per level | Prisma's nested select | `ReadChapters`, `ReadLessons`, `ReadMaterials`, `Answer` |

The unique index `(parent, position)` is checked by every statement, as
PostgreSQL checks a constraint that is not deferrable: `Placed` fails on a
position that is `Taken`, and only `Rollback` follows. Requests without a position,
with one out of range, and with the row's own are all asked for (`Asked`).
Nothing deletes a chapter, a lesson or a material in the code, so nothing does
here. Who may read a structure is left out: anybody may, at any time (`View`). `OrderedList` has lists without numbers and one step per request.

`CourseProgress` extends it with `published`, `enrolment` (the place of a student
in a group that is taught the course), `completed`, `snapshot` and `req`. A
completion is a transaction that holds the course lock to its commit
(`CompletionLock`, `FindCompletion`, `CreateCompletion`, then the queries of
`syncProgress`); a request for progress runs the same queries (`ListLessons`,
`ListCompletions`, `ReadSnapshot`, `Persist`) with no lock and no transaction.
Access is checked before, and may end meanwhile (`ChangePublication`,
`ChangePlace`, `AssignCourse`). The percentage is a function of the two counts. Which materials a
lesson has does not matter to progress.

### Accounts

State: `account` (status, role, whether there is a row of `students`, and which
link confirmed the address), `invitation` (rows of the user's invitations: whether
one is open, and the role it names), `token` (refresh tokens and their families),
`link` (for a new password or a new address, and the authorizations that are open
at Google) and `request` per client. The account is a registered owner's or an
invited member's. Hardly anything here is done in a transaction:

| Code | Actions, one per query |
|---|---|
| `login` | `SignIn`, `ActivateOnSignIn`, `Issue` |
| `start`, `complete` of Google | `RequestGoogle`, `SendLink`; `Callback`, `SpendAuthorization`, `SessionFromProfile`, `ActivateOnSignIn`, `Issue` |
| `rotate` | `Refresh`, `RefreshUser`, `UseToken`, `Issue`, or `RevokeFamily` |
| `logout` | `Logout`, `RevokeFamily` |
| `changePassword` | `ChangePassword`, `WritePassword`, `RevokeAll` |
| `requestPasswordReset`, `requestEmailChange` | `RequestReset`, `RequestAddress`, `SpendLinks`, `SendLink` |
| `resetPassword` | `ResetPassword`, `ResetUser`, `WriteReset`, `SpendReset`, `RevokeAll` |
| `verifyEmailChange` | `Confirm`, `WriteAddress` (its transaction), `RevokeAll` |
| `changeMemberStatus`, `changeMemberRole`, `deleteUser` | `ChangeStatus`, `WriteStatus`; `ChangeRole`, `WriteRole` (its transaction); `DeleteUser`, `WriteDeleted` |
| `createAndSendInvitation` for an invited user | `InviteAgain`, `FindInvitation`, `WriteInviteAgain` (its writes and COMMIT) |
| `resend` | `Resend`, `WriteResend` |

`GiveUp` ends a request at any stage: a query fails, or the process stops, and
what was written stays. One account is modelled, since no row here is shared by
two. Left out: passwords (a right one may always be given), expiry and the
cool-down of letters (time may always have passed), the comparison of access
tokens with `tokensInvalidBefore` (every request is made with an access token
that was good when the guard read the user), the state of the organization,
the exchange with Google and the rows that link identities to accounts (whoever
comes back may be whoever the account is linked to), and whatever groups, cars
or lessons make `changeMemberRole` refuse. `Activate` and `CancelInvitation` are
what `Invitations` models in detail; the letters of repeated and resent
invitations are there too.

## 3. Runs

Every run is exhaustive within its bounds. `Symmetry` permutes clients and
interchangeable rows, never keys (they are ordered) and never in a run with a
liveness property. Two clients are enough for every race named here, which are
between a decision of one request and the commit of another; rows and slots are
as few as make the competing requests both possible.

| Run | Checks | Shows |
|---|---|---|
| `theory_booking` | `NoDoubleBooking`, `TeacherNotDoubleBooked` | two groups with one teacher, lessons of one or two units: overlaps from both sides |
| `group_closing` | `ClosedGroupHasNoFutureLesson`, `AttendanceOnlyOfPast`, `CancelledStaysCancelled`, `StatusMovesForward` | closing against creating, moving, cancelling, marking, while time passes the lesson |
| `surroundings` | `SearchStaysValid`, `StudentNotInTwoPlaces`, `ImplementsLedger` | practice and theory of two students who share car and instructor, while the enrolment of one, dates, teachers and availability change underneath |
| `every_request_answered` | `NoWaitCycle`, `EveryRequestAnswered` | no circle of waits; every request ends, under fairness |
| `mail_faults` | `TypeOK`, `LinkStoredWhileUnfinished`, `OnePumpPerJob` | two processes, two faults, two links, every kind of request |
| `invitation_races` | `CurrentLinkHasLetter`, `AcceptedHasPassword`, `ActivatedOnce`, `SettledForGood`, `EveryLetterSettles` | two clients race over one invitation with old and new links |
| `rosters` | `TypeOK`, `NoMemberOfClosedGroup`, `SecondGroupByRace`, `FinishedEnrolledByRace`, `RowLosesGroupByRace`, `BarredByRace` | two requests at a time, for a student between two groups and for the status of these groups, in every order |
| `practice_cars` | `CarMisfitsByRace` | two requests at a time, for a student and a car of two kinds between two instructors, who are suspended and restored |
| `v_two_groups` | `OneOpenGroup` (violated) | two assignments of one student to two groups |
| `course_structure` | `TypeOK`, `NoCollision`, `ListsContiguous`, `ShownInOrder`, `ImplementsOrderedList` | two clients edit and read two chapters, three lessons and a material |
| `course_progress` | `NoDuplicateCompletion`, `SavedCountsSound`, `AnswerCountsKnown`, `CompletionSavesExactCounts` | two requests of one student, an editor, publication and places change |
| `accounts` | `TypeOK`, `SignedOut`, `RoleLostOnlyByInvitation`, `SessionStaysOver`, `LinkChangesAddressOnce` | one client requests anything while another refreshes, signs in by Google, confirms an address, changes the role or invites again |

Bounds: times `1..MaxTime`, durations `1..MaxDuration`, `MaxLinks` tokens,
`MaxInvitations` rows, `MaxAttempts` sends (3 in the code, 1 or 2 here: a first
try and a last one), `MaxFaults` stops and failed queries. Deadlock is not
checked where the instance can run out: of time, of lesson ids, of links, of
open groups or of steps in training. `surroundings` has one slot of
time, so that every conflict is one of resources. In `rosters` one
student is enough, because the properties are about one student and requests
for different students meet only in shared locks; two groups, because
`assignGroup` compares a new group with the old one; two clients, because one
request that overtakes another, or one closing, is the least there has to be. In
`practice_cars` a student and a car with two possible instructors and two kinds
can part in every way the properties name, and `Ops` leaves out what touches
neither. For more students, cars and clients there are the theorems.

`course_structure` has three lessons, so that a move shifts one or two siblings
in either direction and an insertion at the front shifts two; two chapters, so
that lists of different parents exist side by side; a material, because there is
a third level. Its editors exclude each other by the course lock, so a second
one is there to wait for it and to read. `course_progress` has one student,
because no row is shared by two, and two lessons, so that a request can complete
one while another counts, and the editor can add the second in between; the
editor moves lessons as well. In `accounts` two tokens are a session and its
successor, or two sessions, and two links an old and a new one; the roles are
the owner's, the student's and two others, and two invitations one that is found
and one that is not. The second client's requests are those whose
interleaving with every other request is of interest for a property: what
outlives a revocation (refresh, google), and what reads before its transaction
(confirm, role, inviting again). Sessions and links on the one side and roles and
invitations on the other meet in nothing but the status, so the constraint
`OneConcern` of `MCAccounts` goes on only from states that are about one of them:
about sessions, with one invitation, one role besides STUDENT, and either one
authorization of Google or links in letters; or about roles, before there is a
token or a link. The theorems need none of this. The run may stop when tokens and
links are used up; `course_structure` and `course_progress` check that nothing stops.

Conditions. `TeacherNotDoubleBooked` supposes that groups keep their teacher and
`StudentNotInTwoPlaces` that the student keeps the enrolment: the repository
lists both as known gaps of rescheduling
(`docs/lessons-edit-reschedule-implementation.md`). `CurrentLinkHasLetter`,
`AcceptedHasPassword` and `ActivatedOnce` suppose that the address is not
invited again, see below. `SettledForGood` allows for a renewal that was decided
on while the invitation was open. `EveryLetterSettles` supposes no fault.
The properties of `rosters` and `practice_cars` suppose nothing of who requests
what and when. They allow for the requests that the code lets overtake each other
on one student or car, and say that nothing else does harm; what these races
lead to is below. `NoMemberOfClosedGroup` makes no such allowance.
`RoleLostOnlyByInvitation` allows for the two writes that part the role from what
depends on it: an invitation repeated with another role, or while another
invitation is open, and a resend that writes after its invitation was closed.

Fairness. `FairSpec` of `LessonSchedule`: a transaction that can go on goes on
(weak fairness of `Proceed`; the server awaits nothing but the database), and a
lock is granted to a client that could have it again and again (strong fairness
of `Acquire`; PostgreSQL queues waiters). Nothing is assumed of clients, of the
clock or of `Abort`, so no time-out is needed to answer a request.
`EveryRequestAnswered` is claimed of two requests at a time: with three, two of
them could hold FOR SHARE locks of a group in turns without a gap and keep a
closing of it waiting, until its time-out. `FairSpec` of `Invitations`: a pump
works on (a timer wakes it every poll interval), a stopped process is started
again, two minutes pass.

### What the code does not keep

`v_two_groups` checks a statement of the documentation, and TLC finds a behaviour
of the code against it: a student is to be in one open group at most
(`docs/groups-course-members-access-implementation.md`), but two assignments to
two groups lock different groups, neither sees the other's enrolment, and both
commit.

Of the same kind, met while modelling and not kept as runs:

- A cancellation reads `now`, waits for the row lock while the lesson begins and
  is marked, and then cancels it (`lessons.service.ts:605`), although there are no
  cancelled lessons with attendance (`docs/lessons-attendance-implementation.md`).
- Inviting again reads INVITED, the account is activated, and it is written
  INVITED without a password (`invitations.service.ts:569`), although the address of
  an active account is refused (`invitations.controller.ts:98`).
- A sign-in that found the account INVITED makes it ACTIVE after it was archived
  (`auth.service.ts:82`, `google-auth.service.ts:226`), and a password reset writes
  back the status it has read (`password-reset.service.ts:89`): an account blocked
  in between is open again.
- A reset link works for every reset that has read it before the first one marks
  it used (`password-reset.service.ts:99`); an address link does not.
- Two rotations of one refresh token can both issue a successor, and a rotation
  or a sign-in that passed its checks before a revocation issues its token after it
  (`refresh-token.service.ts:39`). `SignedOut` therefore speaks of the tokens there
  were, and `SessionStaysOver` of families with no refresh under way.
- When the revocation fails after the password, the address, the role or the status
  was written, the request fails with its change in place and the old sessions live
  on (`email-change.service.ts:167`); access tokens are refused all the same, by
  `tokensInvalidBefore`.
- An update of a group that read it as open is written after the group has been
  closed (`groups.service.ts:242`), although a closed group is not edited
  (`docs/groups-create-update-implementation.md:62`).
- A resend that read an invitation as PENDING makes it PENDING again after its
  cancellation (`invitations.service.ts:239`), although a cancelled link is refused
  from then on (`invitations.controller.ts:191`). It names the role it named then,
  which `changeMemberRole` may have changed meanwhile.
- An invited student who is invited again as a teacher keeps the row of a student:
  inviting again writes the role by the id (`invitations.service.ts:569`), and
  `ensureStudentProfile` (488) only ever adds that row. When two invitations are
  open (below), inviting again changes the role in one of them.
- Practice is granted with a car whose status is being changed, and neither
  request sees the other (`cars.service.ts:460`, against `cars.controller.ts:202`);
  the other pairs that `CarMisfitsByRace` names pass each other in the same way.
- `grantPracticeAccess` writes PRACTICE whatever the status is by then
  (`students.service.ts:1366`): a student graduated or archived in between is back
  in practice.
- An assignment that read the student before an archiving and commits after it
  leaves an archived student in the group, which the archiving is there to
  prevent (`students.service.ts:312`, `1433`). An account that is archived by
  `changeMemberStatus` keeps its enrolment as well.

And less visible: a lesson at its very start
may be marked and then cancelled by the closing of its group; two
requests that invite again after a cancellation create two pending invitations;
a pump whose letter was refused queues a job again that a resend has superseded
(its next dispatch supersedes it once more); a job whose pump loses a query
stays PROCESSING until a process starts more than two minutes later; keys are
sorted by name but locked by hash, so two keys with one hash could deadlock.

## 4. Proofs

Every theorem holds for any number of clients, rows, keys and values, from the
assumptions on constants that the modules name (`ScheduleAssumption`,
`MaxDurationAssumption`, `InvitationEmailsAssumption`, `InvitationsAssumption`,
`RecordsAssumption`, `StructureAssumption`, `ProgressAssumption`, `AccountsAssumption`, and that `None`
is not a row) and, where said, from one more. Where a property is conditional
(no group changes its teacher, nobody is invited again, a student does not move),
so is its theorem.

| Module | Theorem | States |
|---|---|---|
| `LessonScheduleProofs` | `TypesKept`, `NeverDoubleBooked`, `SearchNeverStale` | `TypeOK`, `NoDoubleBooking`, `SearchStaysValid` |
| `LessonResourceProofs` | `TeachersNeverDoubleBooked`, `StudentsNeverInTwoPlaces` | `TeacherNotDoubleBooked`, `StudentNotInTwoPlaces` |
| `LessonLockProofs` | `AttendanceIsOfThePast`, `ClosingEmptiesTheFuture` | `AttendanceOnlyOfPast`, `ClosedGroupHasNoFutureLesson` |
| | `CancelledIsFinal`, `StatusFollowsTransitions` | `CancelledStaysCancelled`, `StatusMovesForward` |
| | `LedgerImplemented` | `ImplementsLedger`: the schedule implements `BookingLedger` |
| | `NoDeadlock` | `NoWaitCycle`, if no two keys have one hash and the order of the keys is bounded |
| `InvitationProofs` | `InvitationTypes`, `LinkStoredAsLongAsNeeded`, `NoTwoPumpsOnOneJob` | `TypeOK`, `LinkStoredWhileUnfinished`, `OnePumpPerJob` |
| | `SettledStaysSettled`, `NoLetterDropped` | `SettledForGood`, `CurrentLinkHasLetter` |
| | `AcceptanceGivesPassword`, `PasswordSetOnce` | `AcceptedHasPassword`, `ActivatedOnce` |
| `StudentRecordsProofs` | `TypesKept`, `ClosedGroupsStayEmpty` | `TypeOK`, `NoMemberOfClosedGroup` |
| | `SecondGroupOnlyByRace`, `FinishedEnrolledOnlyByRace`, `RowLosesGroupOnlyByRace`, `BarredOnlyByRace` | `SecondGroupByRace`, `FinishedEnrolledByRace`, `RowLosesGroupByRace`, `BarredByRace` |
| | `CarMisfitsOnlyByRace` | `CarMisfitsByRace` |
| `CourseStructureProofs` | `TypesKept`, `ShiftsNeverCollide`, `ListsStayContiguous`, `ShownStaysInOrder` | `TypeOK`, `NoCollision`, `ListsContiguous`, `ShownInOrder` |
| | `OrderImplemented` | `ImplementsOrderedList`: the structure implements `OrderedList` |
| `CourseProgressProofs` | `CompletionsNeverCollide`, `CountsNeverAhead`, `AnswersMissNothing`, `CompletionsCountThemselves` | `NoDuplicateCompletion`, `SavedCountsSound`, `AnswerCountsKnown`, `CompletionSavesExactCounts` |
| | `StructureKept` | `ListsContiguous` and `NoCollision`, with students at work |
| `AccountProofs` | `AccountTypes`, `SessionsEnd`, `RoleLostOnlyByWrites` | `TypeOK`, `SignedOut`, `RoleLostOnlyByInvitation` |
| | `AddressChangesOnce`, `SessionsStayOver` | `LinkChangesAddressOnce`, `SessionStaysOver` |

None of these properties is inductive by itself: each says something of the rows,
and what a request may write depends on what it has looked at some steps before.
The inductive invariants say, stage by stage, what a request may still rely on.

### The schedule

`NoDoubleBooking` needs that a booking is written only where a search made earlier
found room. The inductive invariant `IInv` is the conjunction of `TypeOK`,
`KeyLocksExclusive` (no two clients hold the same key lock), `KeysHeld` (from the
search on, a booking holds the lock of every key its lesson uses),
`SearchStaysValid` and `NoDoubleBooking`. The argument of the one interesting step:
when client p writes, every other client q that is past its search holds the keys
of its own lesson; were a key common to both, p and q would hold one lock; so what
p writes touches nothing q's search has looked at. A collision of hashes does no
harm here, it only makes two clients exclude each other that need not.

`LessonResourceProofs` extends this to what lessons need without using it: the
teacher of the group, and the student in class. `ResourceInv` says that lessons
which may not overlap (`Joined`) always have to lock a key in common
(`NeedsHeld`), and then the same argument applies. It shows where the two
conditions come from: a new teacher, or a new enrolment, changes what a booking
should have locked after it has locked.

`LessonLockProofs` is about the row locks. `LockInv` says which lock a request
holds from which stage on (`LocksHeld`), that no lock is held together with one it
excludes (`LocksExclusive`), that a request works on a row that keeps its group and
that the id of a new lesson is nobody else's (`NamesRow`), and that therefore what
was checked under the lock is still true at the write (`ChecksStillHold`). Closing a
group, attendance, cancellation and the transitions of status are read off it. So is
the refinement: a step that writes a lesson is `Put` of `BookingLedger` into a slot
that is free by `SearchStaysValid`, or `Cancel` of the lessons that a cancellation or
a closing finds scheduled; all other steps leave the ledger as it is.

`NoDeadlock` rests on `LocksInOrder`: a client holds nothing before it asks for a
group, at most a group when it asks for a lesson, and only keys sorted before the
one it asks for after that. Give every lock a level, the group's, the lesson's, then
the keys' in their order; in a circle of waits the levels would rise for ever, and
they are bounded. The assumption on hashes is needed: the code sorts keys by name and
locks their hashes (`schedule-lock.ts:28`), and two keys with one hash would stand in
the order twice.

### Invitations

`IInv` has three parts. `QueueInv`: a pump has a job in hand exactly when it is at
work, no two have the same one, and a job in hand is neither queued nor two minutes
old (`ClaimedJobs`), which is why a start that requeues what looks stuck takes nothing
away from a live pump. `RequestInv`: a request that is ready to write names an
invitation that exists, and what it has read was so (`RequestsSound`). `CountsInv`
bounds the faults. `LetterInv`, kept beside it, says that the job of an open
invitation is its own and neither missing nor superseded: no job is superseded but by
the request that gives the invitation another link in the same commit, or by a pump
that has just seen that the invitation is over or has another link.

### Students, enrolments and cars

`NoMemberOfClosedGroup` holds whichever requests race. `IInv`
adds to it `LockInv` (a request that joins a group holds its row lock from its checks
to its commit, one that changes its status holds it for update), `ExclusiveInv` (a
lock for update on a group excludes every other one) and `OpenInv` (the group of a
request that joins it and is about to write is open). When one client closes a group,
nobody else holds a lock on it, so nobody is about to join it; the members it has are
finished in the same commit.

For the others `RaceInv` adds what a request still knows. Of every request:
`TransitionInv` (under its lock, a change of the status of a group is still
allowed when it is written) and `DecidedInv` (the group an assignment takes its
student out of has been closed, and a closed group is not opened again). Of a
request that has not been overtaken, `ReadInv`: what it has read of its student's row
and enrolments (`StillRead`) and of the cars and their drivers (`StillFits`) is
still so. A commit breaks that only for those whose rows it changes, and these are
overtaken from then on (`OthersKnow`); groups are closed and accounts change
without counting as overtaking, so the proof is that `StillRead` bears them
(`WritesKeepReads`, `AccountsKeepReads`). The theorems then take the steps one by
one: a step for another student leaves the predicate alone (`OthersKeepRosters`), and
the commit of a request that has not been overtaken keeps it by what the request
knows (`OwnKeepsOneOpen`, `OwnKeepsHasLeft`, `OwnKeepsNames`, `OwnKeepsFree`,
`OwnKeepsFits`, and `CarWritesKeepFits` for the requests of cars). What remains is an
overtaken request; which operations it can be follows from the same lemmas.

### Courses

`IInv` says what a request relies on between two UPDATEs (`DraftInv`): its rows are
the committed ones, but that the siblings it has already shifted are one place
further and the row it moves stands at minus its old position. The committed rows do
not change meanwhile, because whoever edits holds the lock of the course (`LockInv`).
`ShiftFits` is the arithmetic: the siblings that are shifted go to places above zero
other than the one made free, and nobody who stays is at any of these. So a place is
taken at most by a sibling that is shifted too, and the order of the loop has moved
that one away before (`ShiftIsFree`, `ParkIsFree`, `PlaceIsFree`: no UPDATE meets the
unique index). At the commit the positions are 1 .. n again: each is found at a
sibling that stayed, at one that was shifted there, or at the row itself
(`CommitKeepsContiguous`). For readers `ReadInv` adds that every kind of row stands
under its kind of parent and that the levels read so far are complete: one query
reads all children of all parents it names, in one state in which every list is
1 .. n (`ReadLevel`); that the next level is read in a later state takes nothing
away from it.

For the refinement, `ListOf` reads the rows of a parent as a list. `RankIsPosition`
and `ListIs` say that where positions are 1 .. n, the k-th element is the row at
position k, and `ListIsUnique` that this determines the list; `CreateInserts` and
`MoveMoves` then compare it before and after a commit with `InsertAt` and `RemoveAt`
of the library, place by place. Every other step leaves the committed rows alone.

`ProgressInv` contains `IInv` of the structure and says, query by query, what a
request for progress has already counted (`Sound`) and what a completion knows more
because it holds the lock of the course (`Exclusive`): nobody else inserts a
completion or commits a lesson before it has saved its counts. Rows are only added,
so the counts of an unlocked request can be behind but never ahead.

### Accounts

There are no locks here, so the argument is about what no other request can take
away. Tokens are only added, keep their family, and once revoked stay revoked
(`Grows`); `Sound` says of a request stopped between two queries that the tokens it
is to revoke exist, and that at its answer they are revoked, and every step keeps
that. `RowInv` types the rows and says that a student has a row of students.

`RoleLostOnlyByWrites` looks at the writes one after the other in a state in which
role, row and open invitations agree (`RoleAgrees`). A status that is written is
never INVITED but by a repeated invitation (`StatusKeepsRole`); `changeMemberRole`
writes only while role and status are what it has read (`RoleUnchanged`), and all
that depends on the role with it (`WriteRoleKeepsRole`); a repeated invitation keeps
the agreement unless it takes the role from a student or another invitation is open
(`InviteAgainKeepsRole`), and a resend unless its invitation has been closed
(`ResendKeepsRole`).

The attempt to prove `SessionStaysOver` found that it had been stated wrongly: the
condition that no refresh of the family is under way was asked of the first token of
the family only, while a rotation may hold any of them. With two tokens, as in the
run, the two agree; with three they do not. `Over` now asks for the family.

### Only model-checked

`EveryRequestAnswered` and `EveryLetterSettles`: liveness under fairness, and
`ENABLED`, are out of the prover's reach. Every
invariant and action property, and both refinements, that a passing run checks is
stated by a theorem; what `v_two_groups` refutes is `SecondGroupByRace` without its
allowance for races.

## 5. Plan

Next theorems: that the extra condition of `NoDeadlock` on hashes can be given up when
keys are sorted by hash (a change to the code worth proposing, and then proving); what
`CurrentLinkHasLetter` still says when an address is invited again, one request at a
time; the step from `EveryRequestAnswered` to its non-temporal core, namely that in
every state with a request under way some client's lock is free or to be freed.

Next models: `create` of groups, with dates as two columns; the
names of courses and groups, which are compared before a creation without a
unique index; the rows that link identities at Google to accounts.

Not to be modelled: dashboards and the personal schedule (they only read), file
uploads, SMTP and OAuth exchanges, input validation, seeds, the organization (single
statements on one row), and the browser side.
