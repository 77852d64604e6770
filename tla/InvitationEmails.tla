-------------------------- MODULE InvitationEmails --------------------------
(***************************************************************************)
(* The queue of invitation letters, invitation-email.queue.ts: jobs in a   *)
(* table, one pump in every server process that claims them, looks at the  *)
(* invitation and hands the letter to SMTP, and what is left of that when  *)
(* a process stops or a query fails.  Invitations.tla has the requests     *)
(* that put jobs into the queue and change invitations under its feet.     *)
(*                                                                         *)
(* Every link is issued once and has one job, so a job is named by its     *)
(* link; what the code stores as token_hash is that name.  One invited     *)
(* e-mail address is modelled: addresses share no row.                     *)
(***************************************************************************)
EXTENDS Naturals, FiniteSets

CONSTANTS
  MaxLinks,       \* bound on the links (tokens) ever issued
  MaxInvitations, \* bound on the rows of invitations
  Workers,        \* server processes, each with one pump
  MaxAttempts,    \* INVITATION_EMAIL_MAX_ATTEMPTS
  MaxFaults       \* bound on stops of a process and on failed queries

ASSUME InvitationEmailsAssumption ==
  /\ MaxLinks \in Nat
  /\ MaxInvitations \in Nat
  /\ MaxAttempts \in Nat \ {0}
  /\ MaxFaults \in Nat

Links == 1 .. MaxLinks
Invitations == 1 .. MaxInvitations
NoLink == 0

VARIABLES
  user,        \* the row of the invited address: status, password
  invitation,  \* rows of invitations: status, current link, expired
  job,         \* rows of invitation_email_jobs
  worker,      \* the pump of each process
  mailed,      \* links that are in somebody's mailbox
  faults       \* stops and failed queries so far

UserStatus == {"none", "INVITED", "ACTIVE", "CLOSED", "DELETED"}
InvitationStatus == {"none", "PENDING", "ACCEPTED", "CANCELLED"}
JobStatus == {"none", "QUEUED", "PROCESSING", "SENT", "FAILED", "SUPERSEDED"}

Unfinished == {"QUEUED", "PROCESSING"}

\* raw: the link itself, not only its hash, is still stored in the row.
\* old: the row has not been written for STUCK_PROCESSING_MS.
JobRow == [status: JobStatus, invitation: Invitations \cup {0}, raw: BOOLEAN,
           attempts: Nat, old: BOOLEAN]

NoJob == [status |-> "none", invitation |-> 0, raw |-> FALSE, attempts |-> 0,
          old |-> FALSE]

\* attempts is the value the pump has read, which the row may have left behind.
Worker == [at: {"down", "idle", "claimed", "loaded", "checked", "sending",
                "accepted", "refused"},
           job: Links \cup {NoLink}, attempts: Nat]

Down == [at |-> "down", job |-> NoLink, attempts |-> 0]
Idle == [at |-> "idle", job |-> NoLink, attempts |-> 0]

WorksOn(w, t) == worker[w].job = t

Held(w) == job[worker[w].job]

GoOn(w, at) == worker' = [worker EXCEPT ![w].at = at]

\* The pump has nothing more to do for its job.
PutDown(w) == worker' = [worker EXCEPT ![w] = Idle]

-----------------------------------------------------------------------------
(* The rows of jobs, written inside the transaction of a request *)

\* Mutant of Queued: the job does not refer to its invitation.
QueuedUnrelated(i) == [NoJob EXCEPT !.status = "QUEUED", !.raw = TRUE]

\* enqueue
Queued(i) == [NoJob EXCEPT !.status = "QUEUED", !.invitation = i, !.raw = TRUE]

Supersede(row) == [row EXCEPT !.status = "SUPERSEDED", !.raw = FALSE, !.old = FALSE]

\* The unfinished and the failed jobs of invitation i are superseded.
StopUnfinished(i) ==
  [t \in Links |-> IF /\ job[t].invitation = i
                      /\ job[t].status \in {"QUEUED", "PROCESSING", "FAILED"}
                   THEN Supersede(job[t]) ELSE job[t]]

\* Mutant of ReplacePending: the new job is queued before the others are stopped.
ReplaceAll(i, t) == [StopUnfinished(i) EXCEPT ![t] = Supersede(Queued(i))]

\* replacePending
ReplacePending(i, t) == [StopUnfinished(i) EXCEPT ![t] = Queued(i)]

-----------------------------------------------------------------------------
(* The pump *)

\* claimNext.  A retry is due after a delay, so any queued job can be the next.
Claim(w) ==
  \E t \in Links :
    /\ worker[w].at = "idle"
    /\ job[t].status = "QUEUED"
    /\ job' = [job EXCEPT ![t].status = "PROCESSING", ![t].attempts = @ + 1,
                          ![t].old = FALSE]
    /\ worker' = [worker EXCEPT ![w] = [at |-> "claimed", job |-> t, attempts |-> 0]]
    /\ UNCHANGED <<user, invitation, mailed, faults>>

\* The end of dispatch: nothing in the row is compared with what was read.
Finish(w, status, raw) ==
  /\ job' = [job EXCEPT ![worker[w].job].status = status,
                        ![worker[w].job].raw = raw,
                        ![worker[w].job].old = FALSE]
  /\ PutDown(w)

\* The three reads of dispatch, between which everybody else may write: the
\* job, its invitation with the user, and the job again.
LoadJob(w) ==
  /\ worker[w].at = "claimed"
  /\ IF Held(w).status = "PROCESSING" /\ Held(w).raw
     THEN GoOn(w, "loaded")
     ELSE PutDown(w)
  /\ UNCHANGED <<user, invitation, job, mailed, faults>>

LinkIsCurrent(t) ==
  LET i == job[t].invitation
  IN /\ invitation[i].status = "PENDING"
     /\ invitation[i].link = t
     /\ user.status = "INVITED"

CheckInvitation(w) ==
  /\ worker[w].at = "loaded"
  /\ \/ /\ user.status = "DELETED"
        /\ Finish(w, "FAILED", FALSE)
     \/ /\ user.status # "DELETED"
        /\ ~LinkIsCurrent(worker[w].job)
        /\ Finish(w, "SUPERSEDED", FALSE)
     \/ /\ LinkIsCurrent(worker[w].job)
        /\ GoOn(w, "checked")
        /\ UNCHANGED job
  /\ UNCHANGED <<user, invitation, mailed, faults>>

\* That the link is still stored and still the one of the invitation that has
\* been read is tested again: it is, as long as the job is PROCESSING.
ReloadJob(w) ==
  /\ worker[w].at = "checked"
  /\ IF Held(w).status = "PROCESSING"
     THEN worker' = [worker EXCEPT ![w].at = "sending",
                                   ![w].attempts = Held(w).attempts]
     ELSE PutDown(w)
  /\ UNCHANGED <<user, invitation, job, mailed, faults>>

\* sendEmail.  A letter may arrive although SMTP has reported an error.
Send(w) ==
  /\ worker[w].at = "sending"
  /\ \/ GoOn(w, "accepted") /\ mailed' = mailed \cup {worker[w].job}
     \/ GoOn(w, "refused") /\ mailed' \in {mailed, mailed \cup {worker[w].job}}
  /\ UNCHANGED <<user, invitation, job, faults>>

FinishSent(w) ==
  /\ worker[w].at = "accepted"
  /\ Finish(w, "SENT", FALSE)
  /\ UNCHANGED <<user, invitation, mailed, faults>>

\* Mutant of Retry: the link is dropped with the failure.
RetryWithoutLink(w) ==
  /\ worker[w].at = "refused"
  /\ IF worker[w].attempts >= MaxAttempts
     THEN Finish(w, "FAILED", FALSE)
     ELSE Finish(w, "QUEUED", FALSE)
  /\ UNCHANGED <<user, invitation, mailed, faults>>

Retry(w) ==
  /\ worker[w].at = "refused"
  /\ IF worker[w].attempts >= MaxAttempts
     THEN Finish(w, "FAILED", FALSE)
     ELSE Finish(w, "QUEUED", TRUE)
  /\ UNCHANGED <<user, invitation, mailed, faults>>

Pump(w) ==
  \/ Claim(w)     \/ LoadJob(w) \/ CheckInvitation(w)
  \/ ReloadJob(w) \/ Send(w)    \/ FinishSent(w)      \/ Retry(w)

-----------------------------------------------------------------------------
(* Faults *)

Fault == faults < MaxFaults /\ faults' = faults + 1

\* A query fails.  The pump logs it and takes the next job; only a failure to
\* record a sent letter is caught earlier, as if the letter had been refused.
QueryFails(w) ==
  /\ Fault
  /\ worker[w].at \in {"claimed", "loaded", "checked", "accepted", "refused"}
  /\ IF worker[w].at = "accepted"
     THEN GoOn(w, "refused")
     ELSE PutDown(w)
  /\ UNCHANGED <<user, invitation, job, mailed>>

\* A process stops wherever it is.
Stop(w) ==
  /\ Fault
  /\ worker[w].at # "down"
  /\ worker' = [worker EXCEPT ![w] = Down]
  /\ UNCHANGED <<user, invitation, job, mailed>>

\* Mutant of Recovered: every job in progress is taken for stuck.
RecoveredAll ==
  [t \in Links |-> IF job[t].status = "PROCESSING"
                   THEN [job[t] EXCEPT !.status = "QUEUED", !.old = FALSE]
                   ELSE job[t]]

\* recoverStuck, whatever process the stuck jobs belonged to.
Recovered ==
  [t \in Links |-> IF job[t].status = "PROCESSING" /\ job[t].old
                   THEN [job[t] EXCEPT !.status = "QUEUED", !.old = FALSE]
                   ELSE job[t]]

\* onApplicationBootstrap: the only time recoverStuck runs.  If it fails the
\* pump starts nevertheless.
Start(w) ==
  /\ worker[w].at = "down"
  /\ PutDown(w)
  /\ \/ job' = Recovered /\ UNCHANGED faults
     \/ Fault /\ UNCHANGED job
  /\ UNCHANGED <<user, invitation, mailed>>

\* Two minutes pass.  A pump that is alive has done with a job by then: each
\* SMTP phase times out after 10 or 20 seconds (mail.module.ts).
GrowOld(t) ==
  /\ job[t].status = "PROCESSING"
  /\ ~job[t].old
  /\ \A w \in Workers : ~WorksOn(w, t)
  /\ job' = [job EXCEPT ![t].old = TRUE]
  /\ UNCHANGED <<user, invitation, worker, mailed, faults>>

-----------------------------------------------------------------------------
(* What the queue guarantees *)

\* The link itself is stored as long as a letter may still have to be sent and
\* no longer (schema.prisma), also when a finish, a resend or a cancellation and
\* a restart overwrite each other's status: a queued job can always be sent, and
\* no leak of the table gives away a link that is done with.
LinkStoredWhileUnfinished ==
  \A t \in Links : job[t].raw <=> job[t].status \in Unfinished

\* A job is in the hands of one pump: FOR UPDATE SKIP LOCKED between the
\* processes, the age limit of recoverStuck between a restart and a live pump.
OnePumpPerJob ==
  \A v, w \in Workers : v # w /\ worker[v].job # NoLink => worker[v].job # worker[w].job

=============================================================================
