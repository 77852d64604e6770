--------------------------- MODULE InvitationProofs ---------------------------
(***************************************************************************)
(* What holds of Invitations for every number of links, invitations, server *)
(* processes and requests, and every bound on the faults: the invariants    *)
(* of the queue, the invariants of the requests, and from both the          *)
(* properties the runs check.                                               *)
(***************************************************************************)
EXTENDS Invitations, TLAPS

\* A pump has only a job that has been claimed, and nobody takes it for stuck.
ClaimedJobs ==
  \A w \in Workers : worker[w].job # NoLink =>
    job[worker[w].job].status \notin {"none", "QUEUED"} /\ ~job[worker[w].job].old

\* The invariant of the table of jobs and of the pumps.
QueueInv ==
  /\ job \in [Links -> JobRow]
  /\ worker \in [Workers -> Worker]
  /\ \A w \in Workers : worker[w].job = NoLink <=> worker[w].at \in {"down", "idle"}
  /\ \A t \in Links : job[t].status # "none" => job[t].invitation \in Invitations
  /\ LinkStoredWhileUnfinished
  /\ OnePumpPerJob
  /\ ClaimedJobs

\* What a request in progress may rely on of what it has read.
RequestsSound ==
  \A p \in Clients :
    /\ request[p].at # "idle" => request[p].op \in Ops
    /\ request[p].at = "found" => request[p].op = "inviteAgain"
    /\ Ready(p, "resend") \/ Ready(p, "cancel") \/ Ready(p, "activate")
         => request[p].invitation \in Invitations
    /\ Ready(p, "activate") => request[p].link # NoLink
    /\ request[p].at # "idle" /\ user.status = "none" => request[p].op = "invite"

\* Nobody has an invitation before there is a user; every invitation has a link.
InvitationsSound ==
  /\ user.status = "none" => user.password = NoLink
  /\ \A i \in Invitations : invitation[i].status # "none" =>
       user.status # "none" /\ invitation[i].link # NoLink

\* The invariant of the other tables and of the requests.
RequestInv ==
  /\ user \in [status: UserStatus, password: Links \cup {NoLink}]
  /\ invitation \in [Invitations -> InvitationRow]
  /\ request \in [Clients -> Request]
  /\ RequestsSound
  /\ InvitationsSound

CountsInv == mailed \subseteq Links /\ faults \in 0 .. MaxFaults

IInv == QueueInv /\ RequestInv /\ CountsInv

queue == <<job, worker>>
requests == <<user, invitation, request>>

-----------------------------------------------------------------------------
(* The queue *)

\* A pump can put down what it has in hand at any time.
LEMMA PutDownQueue ==
  ASSUME QueueInv, NEW w \in Workers, NEW r \in {Idle, Down},
         worker' = [worker EXCEPT ![w] = r], job' = job
  PROVE  QueueInv'
<1>1. r \in Worker /\ r.job = NoLink /\ r.at \in {"down", "idle"}
  BY DEF Idle, Down, Worker
<1>2. /\ worker'[w] = r /\ worker' \in [Workers -> Worker]
      /\ \A v \in Workers \ {w} : worker'[v] = worker[v]
  BY <1>1 DEF QueueInv
<1>. QED
  BY <1>1, <1>2 DEF QueueInv, LinkStoredWhileUnfinished, OnePumpPerJob, ClaimedJobs

\* A pump with a job goes on to another of its steps.
LEMMA GoOnQueue ==
  ASSUME QueueInv, NEW w \in Workers, NEW r \in Worker, r.at \notin {"down", "idle"},
         r.job = worker[w].job, worker[w].at \notin {"down", "idle"},
         worker' = [worker EXCEPT ![w] = r], job' = job
  PROVE  QueueInv'
<1>2. /\ worker'[w] = r /\ worker' \in [Workers -> Worker]
      /\ \A v \in Workers \ {w} : worker'[v] = worker[v]
  BY DEF QueueInv
<1>. QED
  BY <1>2 DEF QueueInv, LinkStoredWhileUnfinished, OnePumpPerJob, ClaimedJobs

\* A pump finishes the job it has: nobody else has it.
LEMMA FinishQueue ==
  ASSUME QueueInv, NEW w \in Workers, worker[w].at \notin {"down", "idle"},
         NEW status \in {"SENT", "FAILED", "SUPERSEDED", "QUEUED"}, NEW raw \in BOOLEAN,
         raw <=> status = "QUEUED", Finish(w, status, raw)
  PROVE  QueueInv'
<1>. DEFINE t == worker[w].job
            row == [job[t] EXCEPT !.status = status, !.raw = raw, !.old = FALSE]
<1>1. t \in Links /\ t # NoLink /\ job[t] \in JobRow /\ job[t].invitation \in Invitations
  BY DEF QueueInv, ClaimedJobs, Worker
<1>2. /\ row \in JobRow /\ row.status = status /\ row.raw = raw /\ ~row.old
      /\ row.invitation = job[t].invitation
  BY <1>1 DEF JobRow, JobStatus
<1>3. job' = [job EXCEPT ![t] = row]
  BY <1>1 DEF Finish, QueueInv, JobRow
<1>4. worker' = [worker EXCEPT ![w] = Idle]
  BY DEF Finish, PutDown
<1>. HIDE DEF t, row
<1>5. /\ job' \in [Links -> JobRow] /\ job'[t] = row
      /\ \A u \in Links \ {t} : job'[u] = job[u]
  BY <1>1, <1>2, <1>3 DEF QueueInv
<1>6. Idle \in Worker /\ Idle.job = NoLink /\ Idle.at = "idle"
  BY DEF Idle, Worker
<1>7. /\ worker' \in [Workers -> Worker] /\ worker'[w] = Idle
      /\ \A v \in Workers \ {w} : worker'[v] = worker[v]
  BY <1>4, <1>6 DEF QueueInv
<1>8. \A v \in Workers \ {w} : worker[v].job # t
  BY <1>1 DEF QueueInv, OnePumpPerJob, t
<1>9. \A v \in Workers : worker[v].job \in Links \cup {NoLink}
  BY DEF QueueInv, Worker
<1>10. LinkStoredWhileUnfinished' /\ OnePumpPerJob' /\ ClaimedJobs'
  <2>1. LinkStoredWhileUnfinished'
    BY <1>2, <1>5 DEF QueueInv, LinkStoredWhileUnfinished, Unfinished
  <2>2. OnePumpPerJob'
    BY <1>6, <1>7 DEF QueueInv, OnePumpPerJob
  <2>3. ClaimedJobs'
    BY <1>5, <1>6, <1>7, <1>8, <1>9 DEF QueueInv, ClaimedJobs
  <2>. QED
    BY <2>1, <2>2, <2>3
<1>. QED
  BY <1>1, <1>2, <1>5, <1>6, <1>7, <1>10 DEF QueueInv

\* Rows are superseded, queued anew, taken for stuck or put back under the hands
\* of the pumps.
LEMMA RewriteQueue ==
  ASSUME QueueInv, UNCHANGED worker, job' \in [Links -> JobRow],
         \A t \in Links :
           \/ job'[t] = job[t]
           \/ job[t].status # "none" /\ job'[t] = Supersede(job[t])
           \/ job[t].status = "none" /\ \E i \in Invitations : job'[t] = Queued(i)
           \/ /\ \A w \in Workers : ~WorksOn(w, t)
              /\ job[t].status = "PROCESSING"
              /\ \/ job'[t] = [job[t] EXCEPT !.old = TRUE]
                 \/ job'[t] = [job[t] EXCEPT !.status = "QUEUED", !.old = FALSE]
  PROVE  QueueInv'
<1>1. \A t \in Links :
        /\ job[t] \in JobRow
        /\ job'[t].raw <=> job'[t].status \in Unfinished
        /\ job'[t].status # "none" => job'[t].invitation \in Invitations
  <2>. SUFFICES ASSUME NEW t \in Links
                PROVE  /\ job[t] \in JobRow
                       /\ job'[t].raw <=> job'[t].status \in Unfinished
                       /\ job'[t].status # "none" => job'[t].invitation \in Invitations
    OBVIOUS
  <2>1. /\ job[t] \in JobRow
        /\ job[t].raw <=> job[t].status \in Unfinished
        /\ job[t].status # "none" => job[t].invitation \in Invitations
    BY DEF QueueInv, LinkStoredWhileUnfinished
  <2>2. CASE job[t].status # "none" /\ job'[t] = Supersede(job[t])
    BY <2>1, <2>2 DEF Supersede, JobRow, Unfinished
  <2>3. CASE job[t].status = "none" /\ \E i \in Invitations : job'[t] = Queued(i)
    BY <2>1, <2>3 DEF Queued, NoJob, Unfinished
  <2>4. CASE job[t].status = "PROCESSING" /\ job'[t] = [job[t] EXCEPT !.old = TRUE]
    BY <2>1, <2>4 DEF JobRow
  <2>5. CASE /\ job[t].status = "PROCESSING"
             /\ job'[t] = [job[t] EXCEPT !.status = "QUEUED", !.old = FALSE]
    BY <2>1, <2>5 DEF JobRow, Unfinished
  <2>. QED
    BY <2>1, <2>2, <2>3, <2>4, <2>5
<1>2. \A w \in Workers : worker[w].job # NoLink =>
        job'[worker[w].job].status \notin {"none", "QUEUED"} /\ ~job'[worker[w].job].old
  <2>. SUFFICES ASSUME NEW w \in Workers, worker[w].job # NoLink
                PROVE  /\ job'[worker[w].job].status \notin {"none", "QUEUED"}
                       /\ ~job'[worker[w].job].old
    OBVIOUS
  <2>. DEFINE t == worker[w].job
  <2>1. /\ t \in Links /\ WorksOn(w, t) /\ job[t] \in JobRow
        /\ job[t].status \notin {"none", "QUEUED"} /\ ~job[t].old
    BY DEF QueueInv, ClaimedJobs, Worker, WorksOn
  <2>. HIDE DEF t
  <2>2. job'[t] = job[t] \/ job'[t] = Supersede(job[t])
    BY <2>1
  <2>3. job'[t].status \notin {"none", "QUEUED"} /\ ~job'[t].old
    BY <2>1, <2>2 DEF Supersede, JobRow
  <2>. QED
    BY <2>3 DEF t
<1>. QED
  BY <1>1, <1>2 DEF QueueInv, LinkStoredWhileUnfinished, OnePumpPerJob, ClaimedJobs

\* Every step of a pump keeps the invariant of the queue.
LEMMA PumpQueue ==
  ASSUME QueueInv, NEW w \in Workers, Pump(w)
  PROVE  QueueInv'
<1>0. worker[w] \in Worker
  BY DEF QueueInv
<1>1. CASE Claim(w)
  <2>1. PICK t \in Links :
          /\ worker[w].at = "idle"
          /\ job[t].status = "QUEUED"
          /\ job' = [job EXCEPT ![t].status = "PROCESSING", ![t].attempts = @ + 1,
                                ![t].old = FALSE]
          /\ worker' = [worker EXCEPT ![w] =
                          [at |-> "claimed", job |-> t, attempts |-> 0]]
    BY <1>1 DEF Claim
  <2>. DEFINE row == [job[t] EXCEPT !.status = "PROCESSING", !.attempts = @ + 1,
                                    !.old = FALSE]
              r == [at |-> "claimed", job |-> t, attempts |-> 0]
  <2>2. /\ row \in JobRow /\ row.status = "PROCESSING" /\ row.raw = job[t].raw
        /\ ~row.old /\ row.invitation = job[t].invitation
    <3>1. job[t] \in JobRow
      BY DEF QueueInv
    <3>2. job[t].attempts + 1 \in Nat
      BY <3>1 DEF JobRow
    <3>3. row \in JobRow
      BY <3>1, <3>2 DEF JobRow, JobStatus
    <3>4. row.status = "PROCESSING" /\ row.invitation = job[t].invitation
      BY <3>1 DEF JobRow
    <3>5. row.raw = job[t].raw
      BY <3>1 DEF JobRow
    <3>6. ~row.old
      BY <3>1 DEF JobRow
    <3>. QED
      BY <3>3, <3>4, <3>5, <3>6
  <2>3. job' = [job EXCEPT ![t] = row]
    BY <2>1 DEF QueueInv, JobRow
  <2>4. r \in Worker /\ r.at = "claimed" /\ r.job = t
    BY DEF Worker
  <2>5. worker' = [worker EXCEPT ![w] = r]
    BY <2>1
  <2>. HIDE DEF row, r
  <2>6. /\ job' \in [Links -> JobRow] /\ job'[t] = row
        /\ \A u \in Links \ {t} : job'[u] = job[u]
    BY <2>2, <2>3 DEF QueueInv
  <2>7. /\ worker' \in [Workers -> Worker] /\ worker'[w] = r
        /\ \A v \in Workers \ {w} : worker'[v] = worker[v]
    BY <2>4, <2>5 DEF QueueInv
  <2>8. t # NoLink
    BY DEF Links, NoLink
  <2>9. \A v \in Workers : worker[v].job # t /\ worker[v].job \in Links \cup {NoLink}
    BY <2>1, <2>8 DEF QueueInv, ClaimedJobs, Worker
  <2>10. LinkStoredWhileUnfinished'
    BY <2>1, <2>2, <2>6 DEF QueueInv, LinkStoredWhileUnfinished, Unfinished
  <2>11. OnePumpPerJob'
    BY <2>4, <2>7, <2>9 DEF QueueInv, OnePumpPerJob
  <2>12. ClaimedJobs'
    BY <2>2, <2>4, <2>6, <2>7, <2>9 DEF QueueInv, ClaimedJobs
  <2>13. \A u \in Links : job'[u].status # "none" => job'[u].invitation \in Invitations
    BY <2>1, <2>2, <2>6 DEF QueueInv
  <2>14. \A v \in Workers : worker'[v].job = NoLink <=> worker'[v].at \in {"down", "idle"}
    BY <2>4, <2>7, <2>8 DEF QueueInv
  <2>. QED
    BY <2>6, <2>7, <2>10, <2>11, <2>12, <2>13, <2>14 DEF QueueInv
<1>2. CASE LoadJob(w)
  <2>1. CASE GoOn(w, "loaded")
    BY <1>0, <1>2, <2>1, GoOnQueue DEF LoadJob, GoOn, Worker
  <2>2. CASE PutDown(w)
    BY <1>2, <2>2, PutDownQueue DEF LoadJob, PutDown
  <2>. QED
    BY <1>2, <2>1, <2>2 DEF LoadJob
<1>3. CASE CheckInvitation(w)
  <2>1. CASE Finish(w, "FAILED", FALSE)
    BY <1>3, <2>1, FinishQueue DEF CheckInvitation
  <2>2. CASE Finish(w, "SUPERSEDED", FALSE)
    BY <1>3, <2>2, FinishQueue DEF CheckInvitation
  <2>3. CASE GoOn(w, "checked") /\ UNCHANGED job
    BY <1>0, <1>3, <2>3, GoOnQueue DEF CheckInvitation, GoOn, Worker
  <2>. QED
    BY <1>3, <2>1, <2>2, <2>3 DEF CheckInvitation
<1>4. CASE ReloadJob(w)
  <2>1. CASE Held(w).status = "PROCESSING"
    <3>. DEFINE r == [worker[w] EXCEPT !.at = "sending", !.attempts = Held(w).attempts]
    <3>1. worker[w].job \in Links /\ Held(w) \in JobRow
      BY <1>0, <1>4 DEF ReloadJob, Held, QueueInv, Worker
    <3>2. r \in Worker /\ r.at = "sending" /\ r.job = worker[w].job
      BY <1>0, <3>1 DEF Worker, JobRow
    <3>3. worker' = [worker EXCEPT ![w] = r] /\ job' = job
      BY <1>4, <2>1 DEF ReloadJob, QueueInv
    <3>. HIDE DEF r
    <3>. QED
      BY <1>4, <3>2, <3>3, GoOnQueue DEF ReloadJob
  <2>2. CASE PutDown(w)
    BY <1>4, <2>2, PutDownQueue DEF ReloadJob, PutDown
  <2>. QED
    BY <1>4, <2>1, <2>2 DEF ReloadJob
<1>5. CASE Send(w)
  <2>1. CASE GoOn(w, "accepted")
    BY <1>0, <1>5, <2>1, GoOnQueue DEF Send, GoOn, Worker
  <2>2. CASE GoOn(w, "refused")
    BY <1>0, <1>5, <2>2, GoOnQueue DEF Send, GoOn, Worker
  <2>. QED
    BY <1>5, <2>1, <2>2 DEF Send
<1>6. CASE FinishSent(w)
  BY <1>6, FinishQueue DEF FinishSent
<1>7. CASE Retry(w)
  <2>1. CASE Finish(w, "FAILED", FALSE)
    BY <1>7, <2>1, FinishQueue DEF Retry
  <2>2. CASE Finish(w, "QUEUED", TRUE)
    BY <1>7, <2>2, FinishQueue DEF Retry
  <2>. QED
    BY <1>7, <2>1, <2>2 DEF Retry
<1>. QED
  BY <1>1, <1>2, <1>3, <1>4, <1>5, <1>6, <1>7 DEF Pump

\* A fault or a restart of a process, and the passing of time.
LEMMA FaultQueue ==
  ASSUME QueueInv, NEW w \in Workers, QueryFails(w) \/ Stop(w) \/ Start(w)
  PROVE  QueueInv'
<1>0. worker[w] \in Worker
  BY DEF QueueInv
<1>1. CASE QueryFails(w)
  <2>1. CASE GoOn(w, "refused")
    <3>1. worker[w].at \notin {"down", "idle"}
      BY <1>1 DEF QueryFails
    <3>. QED
      BY <1>0, <1>1, <2>1, <3>1, GoOnQueue DEF QueryFails, GoOn, Worker
  <2>2. CASE PutDown(w)
    BY <1>1, <2>2, PutDownQueue DEF QueryFails, PutDown
  <2>. QED
    BY <1>1, <2>1, <2>2 DEF QueryFails
<1>2. CASE Stop(w)
  BY <1>2, PutDownQueue DEF Stop
<1>3. CASE Start(w)
  <2>1. CASE UNCHANGED job
    BY <1>3, <2>1, PutDownQueue DEF Start, PutDown
  <2>2. CASE job' = Recovered
    <3>1. /\ worker[w].job = NoLink /\ Idle \in Worker /\ Idle.job = NoLink
          /\ Idle.at = "idle"
      BY <1>3 DEF Start, QueueInv, Idle, Worker
    <3>2. /\ worker' \in [Workers -> Worker] /\ worker'[w] = Idle
          /\ \A v \in Workers \ {w} : worker'[v] = worker[v]
      BY <1>3, <3>1 DEF Start, PutDown, QueueInv
    <3>3. \A t \in Links :
            /\ job[t] \in JobRow
            /\ job'[t] = job[t] \/ ( /\ job[t].status = "PROCESSING" /\ job[t].old
                                     /\ job'[t] = [job[t] EXCEPT !.status = "QUEUED",
                                                                 !.old = FALSE] )
      BY <2>2 DEF Recovered, QueueInv
    <3>4. job' \in [Links -> JobRow]
      <4>1. \A t \in Links : job'[t] \in JobRow
        BY <3>3 DEF JobRow, JobStatus
      <4>. QED
        BY <2>2, <4>1 DEF Recovered
    <3>5. \A t \in Links :
            /\ job'[t].raw <=> job'[t].status \in Unfinished
            /\ job'[t].status # "none" => job'[t].invitation \in Invitations
      <4>. SUFFICES ASSUME NEW t \in Links
                    PROVE  /\ job'[t].raw <=> job'[t].status \in Unfinished
                           /\ job'[t].status # "none" =>
                                job'[t].invitation \in Invitations
        OBVIOUS
      <4>1. /\ job[t] \in JobRow
            /\ job[t].raw <=> job[t].status \in Unfinished
            /\ job[t].status # "none" => job[t].invitation \in Invitations
        BY DEF QueueInv, LinkStoredWhileUnfinished
      <4>. QED
        BY <3>3, <4>1 DEF JobRow, Unfinished
    <3>6. OnePumpPerJob'
      BY <3>1, <3>2 DEF QueueInv, OnePumpPerJob
    <3>7. ClaimedJobs'
      <4>1. \A v \in Workers : worker[v].job \in Links \cup {NoLink}
        BY DEF QueueInv, Worker
      <4>. QED
        BY <3>1, <3>2, <3>3, <4>1 DEF QueueInv, ClaimedJobs
    <3>. QED
      BY <3>1, <3>2, <3>4, <3>5, <3>6, <3>7 DEF QueueInv, LinkStoredWhileUnfinished
  <2>. QED
    BY <1>3, <2>1, <2>2 DEF Start
<1>. QED
  BY <1>1, <1>2, <1>3

LEMMA AgeQueue ==
  ASSUME QueueInv, NEW t \in Links, GrowOld(t)
  PROVE  QueueInv'
<1>1. /\ job' = [job EXCEPT ![t] = [job[t] EXCEPT !.old = TRUE]]
      /\ [job[t] EXCEPT !.old = TRUE] \in JobRow
  BY DEF GrowOld, QueueInv, JobRow
<1>2. /\ job' \in [Links -> JobRow]
      /\ \A u \in Links : IF u = t THEN job'[u] = [job[t] EXCEPT !.old = TRUE]
                          ELSE job'[u] = job[u]
  BY <1>1 DEF QueueInv
<1>. QED
  BY <1>2, RewriteQueue DEF GrowOld

\* The writes of a request in the table of jobs.
LEMMA StopUnfinishedRows ==
  ASSUME QueueInv, NEW i \in Invitations
  PROVE  /\ StopUnfinished(i) \in [Links -> JobRow]
         /\ \A t \in Links :
              \/ StopUnfinished(i)[t] = job[t]
              \/ /\ job[t].status # "none" /\ job[t].invitation = i
                 /\ StopUnfinished(i)[t] = Supersede(job[t])
<1>1. \A t \in Links : job[t] \in JobRow
  BY DEF QueueInv
<1>2. \A t \in Links : Supersede(job[t]) \in JobRow
  BY <1>1 DEF Supersede, JobRow, JobStatus
<1>. QED
  BY <1>1, <1>2 DEF StopUnfinished

LEMMA QueuedRow ==
  ASSUME NEW i \in Invitations
  PROVE  /\ Queued(i) \in JobRow /\ Queued(i).status = "QUEUED"
         /\ Queued(i).invitation = i
BY DEF Queued, NoJob, JobRow, JobStatus

LEMMA ReplacePendingRows ==
  ASSUME QueueInv, NEW i \in Invitations, NEW t \in NextLink
  PROVE  /\ t \in Links /\ job[t].status = "none"
         /\ ReplacePending(i, t) \in [Links -> JobRow]
         /\ ReplacePending(i, t)[t] = Queued(i)
         /\ \A u \in Links \ {t} : ReplacePending(i, t)[u] = StopUnfinished(i)[u]
BY StopUnfinishedRows, QueuedRow DEF ReplacePending, NextLink

LEMMA WriteQueue ==
  ASSUME QueueInv, UNCHANGED worker,
         \/ UNCHANGED job
         \/ \E i \in Invitations : job' = StopUnfinished(i)
         \/ \E i \in Invitations, t \in NextLink : job' = ReplacePending(i, t)
         \/ \E i \in Invitations, t \in NextLink : job' = [job EXCEPT ![t] = Queued(i)]
  PROVE  QueueInv'
<1>1. CASE UNCHANGED job
  BY <1>1, RewriteQueue DEF QueueInv
<1>2. ASSUME NEW i \in Invitations, job' = StopUnfinished(i)
      PROVE  QueueInv'
  BY <1>2, StopUnfinishedRows, RewriteQueue
<1>3. ASSUME NEW i \in Invitations, NEW t \in NextLink, job' = ReplacePending(i, t)
      PROVE  QueueInv'
  <2>1. \A u \in Links : u # t => \/ job'[u] = job[u]
                                  \/ job[u].status # "none" /\ job'[u] = Supersede(job[u])
    BY <1>3, ReplacePendingRows, StopUnfinishedRows
  <2>2. job[t].status = "none" /\ job'[t] = Queued(i) /\ job' \in [Links -> JobRow]
    BY <1>3, ReplacePendingRows
  <2>. QED
    BY <2>1, <2>2, RewriteQueue
<1>4. ASSUME NEW i \in Invitations, NEW t \in NextLink,
             job' = [job EXCEPT ![t] = Queued(i)]
      PROVE  QueueInv'
  <2>1. /\ job' \in [Links -> JobRow] /\ t \in Links
        /\ job[t].status = "none" /\ job'[t] = Queued(i)
        /\ \A u \in Links : u # t => job'[u] = job[u]
    BY <1>4, QueuedRow DEF QueueInv, NextLink
  <2>. QED
    BY <2>1, RewriteQueue
<1>. QED
  BY <1>1, <1>2, <1>3, <1>4

-----------------------------------------------------------------------------
(* The requests *)

\* A request that has read what it needs.
LEMMA BeginRequests ==
  ASSUME RequestInv, NEW p \in Clients, NEW o, NEW at \in {"found", "ready"},
         NEW i \in Invitations \cup {0}, NEW t \in Links \cup {NoLink},
         at = "found" => o = "inviteAgain",
         at = "ready" /\ o \in {"resend", "cancel", "activate"} => i \in Invitations,
         o = "activate" => t # NoLink,
         user.status = "none" => o = "invite",
         Begin(p, o, at, i, t)
  PROVE  RequestInv'
<1>. DEFINE r == [op |-> o, at |-> at, invitation |-> i, link |-> t]
<1>1. o \in Ops /\ o \in OpNames
  BY InvitationsAssumption DEF Begin
<1>2. r \in Request /\ r.op = o /\ r.at = at /\ r.invitation = i /\ r.link = t
  BY <1>1 DEF Request
<1>3. request' = [request EXCEPT ![p] = r] /\ UNCHANGED <<user, invitation>>
  BY DEF Begin
<1>. HIDE DEF r
<1>4. /\ request' \in [Clients -> Request] /\ request'[p] = r
      /\ \A q \in Clients \ {p} : request'[q] = request[q]
  BY <1>2, <1>3 DEF RequestInv
<1>5. RequestsSound'
  BY <1>1, <1>2, <1>3, <1>4 DEF RequestInv, RequestsSound, Ready
<1>. QED
  BY <1>3, <1>4, <1>5 DEF RequestInv, InvitationsSound

\* A request that ends, or a step that is not one of a request.
LEMMA AnswerRequests ==
  ASSUME RequestInv, NEW p \in Clients, Answer(p) \/ UNCHANGED request,
         user' \in [status: UserStatus, password: Links \cup {NoLink}],
         user'.status = "none" => user.status = "none",
         invitation' \in [Invitations -> InvitationRow], InvitationsSound'
  PROVE  RequestInv'
<1>1. CASE UNCHANGED request
  BY <1>1 DEF RequestInv, RequestsSound, Ready
<1>2. CASE Answer(p)
  <2>1. NoRequest \in Request /\ NoRequest.at = "idle"
    BY DEF NoRequest, Request
  <2>2. /\ request' \in [Clients -> Request] /\ request'[p] = NoRequest
        /\ \A q \in Clients \ {p} : request'[q] = request[q]
    BY <1>2, <2>1 DEF RequestInv, Answer
  <2>3. RequestsSound'
    BY <2>1, <2>2 DEF RequestInv, RequestsSound, Ready
  <2>. QED
    BY <2>2, <2>3 DEF RequestInv
<1>. QED
  BY <1>1, <1>2

LEMMA ReadRequests ==
  ASSUME RequestInv, CountsInv, NEW p \in Clients, Read(p)
  PROVE  RequestInv'
<1>0. NoLink \in Links \cup {NoLink} /\ 0 \in Invitations \cup {0}
  OBVIOUS
<1>1. CASE Invite(p)
  BY <1>0, <1>1, BeginRequests DEF Invite
<1>2. CASE InviteAgain(p)
  BY <1>0, <1>2, BeginRequests DEF InviteAgain
<1>3. CASE FindPending(p)
  <2>1. PICK i \in Invitations \cup {0} :
          request' = [request EXCEPT ![p] = [request[p] EXCEPT !.at = "ready",
                                                               !.invitation = i]]
    <3>1. request[p] \in Request
      BY DEF RequestInv
    <3>. QED
      BY <1>3, <3>1 DEF FindPending, RequestInv, Request
  <2>. DEFINE r == [request[p] EXCEPT !.at = "ready", !.invitation = i]
  <2>2. /\ request[p] \in Request /\ request[p].op = "inviteAgain"
        /\ request[p].op \in Ops /\ request[p].at # "idle"
    BY <1>3 DEF FindPending, RequestInv, RequestsSound
  <2>3. r \in Request /\ r.op = "inviteAgain" /\ r.at = "ready"
    BY <2>2 DEF Request
  <2>4. request' = [request EXCEPT ![p] = r] /\ UNCHANGED <<user, invitation>>
    BY <1>3, <2>1 DEF FindPending
  <2>. HIDE DEF r
  <2>5. /\ request' \in [Clients -> Request] /\ request'[p] = r
        /\ \A q \in Clients \ {p} : request'[q] = request[q]
    BY <2>3, <2>4 DEF RequestInv
  <2>6. RequestsSound'
    BY <2>2, <2>3, <2>4, <2>5 DEF RequestInv, RequestsSound, Ready
  <2>. QED
    BY <2>4, <2>5, <2>6 DEF RequestInv, InvitationsSound
<1>4. CASE Resend(p)
  BY <1>0, <1>4, BeginRequests DEF Resend, Open
<1>5. CASE Cancel(p)
  BY <1>0, <1>5, BeginRequests DEF Cancel, Open
<1>6. CASE Activate(p)
  <2>1. PICK t \in mailed, i \in Invitations :
          Open(i) /\ Begin(p, "activate", "ready", i, t)
    BY <1>6 DEF Activate
  <2>2. t \in Links /\ t # NoLink
    BY <2>1 DEF CountsInv, Links, NoLink
  <2>. QED
    BY <2>1, <2>2, BeginRequests DEF Open
<1>. QED
  BY <1>1, <1>2, <1>3, <1>4, <1>5, <1>6 DEF Read

\* A row of an invitation is written.
LEMMA RowWritten ==
  ASSUME RequestInv, NEW i \in Invitations, NEW r \in InvitationRow,
         invitation' = [invitation EXCEPT ![i] = r],
         r.link # NoLink,
         user'.status = "none" => user' = user,
         user.status # "none" \/ user'.status # "none"
  PROVE  invitation' \in [Invitations -> InvitationRow] /\ InvitationsSound'
BY DEF RequestInv, InvitationsSound

\* The invitation is renewed.
LEMMA RenewedWritten ==
  ASSUME RequestInv, NEW i \in Invitations, NEW t \in Links,
         invitation' = [invitation EXCEPT ![i] = Renewed(t)],
         user'.status = "none" => user' = user,
         user.status # "none" \/ user'.status # "none"
  PROVE  invitation' \in [Invitations -> InvitationRow] /\ InvitationsSound'
<1>1. Renewed(t) \in InvitationRow /\ Renewed(t).link # NoLink
  BY DEF Renewed, InvitationRow, InvitationStatus, Links, NoLink
<1>. QED
  BY <1>1, RowWritten

\* The invitation is cancelled or accepted, or expires.
LEMMA StatusWritten ==
  ASSUME RequestInv, NEW i \in Invitations, Pending(i),
         \/ invitation' = [invitation EXCEPT ![i].status = "CANCELLED"]
         \/ invitation' = [invitation EXCEPT ![i].status = "ACCEPTED"]
         \/ invitation' = [invitation EXCEPT ![i].expired = TRUE],
         user'.status = "none" => user' = user,
         user.status # "none" \/ user'.status # "none"
  PROVE  invitation' \in [Invitations -> InvitationRow] /\ InvitationsSound'
<1>1. invitation[i] \in InvitationRow /\ invitation[i].link # NoLink
  BY DEF RequestInv, InvitationsSound, Pending
<1>2. PICK r \in InvitationRow : r.link # NoLink /\ invitation' = [invitation EXCEPT ![i] = r]
  <2>1. CASE invitation' = [invitation EXCEPT ![i].status = "CANCELLED"]
    <3>. DEFINE r == [invitation[i] EXCEPT !.status = "CANCELLED"]
    <3>1. r \in InvitationRow /\ r.link # NoLink
      BY <1>1 DEF InvitationRow, InvitationStatus
    <3>2. invitation' = [invitation EXCEPT ![i] = r]
      BY <2>1
    <3>. QED
      BY <3>1, <3>2
  <2>2. CASE invitation' = [invitation EXCEPT ![i].status = "ACCEPTED"]
    <3>. DEFINE r == [invitation[i] EXCEPT !.status = "ACCEPTED"]
    <3>1. r \in InvitationRow /\ r.link # NoLink
      BY <1>1 DEF InvitationRow, InvitationStatus
    <3>2. invitation' = [invitation EXCEPT ![i] = r]
      BY <2>2
    <3>. QED
      BY <3>1, <3>2
  <2>3. CASE invitation' = [invitation EXCEPT ![i].expired = TRUE]
    <3>. DEFINE r == [invitation[i] EXCEPT !.expired = TRUE]
    <3>1. r \in InvitationRow /\ r.link # NoLink
      BY <1>1 DEF InvitationRow
    <3>2. invitation' = [invitation EXCEPT ![i] = r]
      BY <2>3
    <3>. QED
      BY <3>1, <3>2
  <2>. QED
    BY <2>1, <2>2, <2>3
<1>. QED
  BY <1>2, RowWritten

LEMMA WriteRequests ==
  ASSUME RequestInv, NEW p \in Clients, Write(p)
  PROVE  RequestInv'
<1>0. /\ user \in [status: UserStatus, password: Links \cup {NoLink}]
      /\ request[p] \in Request
      /\ \A i \in Invitations : invitation[i] \in InvitationRow
      /\ invitation \in [Invitations -> InvitationRow]
  BY DEF RequestInv
<1>. DEFINE i == request[p].invitation
<1>1. CASE WriteInvite(p)
  <2>1. CASE user.status = "none"
    <3>1. PICK t \in NextLink, k \in NextInvitation :
            /\ user' = [status |-> "INVITED", password |-> NoLink]
            /\ invitation' = [invitation EXCEPT ![k] = Renewed(t)]
      BY <1>1, <2>1 DEF WriteInvite
    <3>2. user' \in [status: UserStatus, password: Links \cup {NoLink}]
      BY <3>1 DEF UserStatus
    <3>3. k \in Invitations /\ t \in Links
      BY DEF NextLink, NextInvitation
    <3>4. invitation' \in [Invitations -> InvitationRow] /\ InvitationsSound'
      BY <3>1, <3>3, RenewedWritten
    <3>. QED
      BY <1>1, <2>1, <3>2, <3>4, AnswerRequests DEF WriteInvite
  <2>2. CASE UNCHANGED <<user, invitation>>
    BY <1>0, <1>1, <2>2, AnswerRequests DEF WriteInvite, RequestInv, InvitationsSound
  <2>. QED
    BY <1>1, <2>1, <2>2 DEF WriteInvite
<1>2. CASE WriteInviteAgain(p)
  <2>1. /\ user' \in [status: UserStatus, password: Links \cup {NoLink}]
        /\ user'.status # "none"
    BY <1>0, <1>2 DEF WriteInviteAgain, UserStatus
  <2>2. PICK t \in NextLink, k \in Invitations :
          invitation' = [invitation EXCEPT ![k] = Renewed(t)]
    BY <1>0, <1>2 DEF WriteInviteAgain, NextInvitation, Request
  <2>3. t \in Links
    BY DEF NextLink
  <2>4. invitation' \in [Invitations -> InvitationRow] /\ InvitationsSound'
    BY <2>1, <2>2, <2>3, RenewedWritten
  <2>. QED
    BY <1>2, <2>1, <2>4, AnswerRequests DEF WriteInviteAgain
<1>3. CASE WriteResend(p)
  <2>1. i \in Invitations /\ user.status # "none"
    BY <1>3 DEF WriteResend, RequestInv, RequestsSound, Ready
  <2>2. PICK t \in NextLink : invitation' = [invitation EXCEPT ![i] = Renewed(t)]
    BY <1>3 DEF WriteResend
  <2>3. t \in Links /\ user' = user
    BY <1>3 DEF NextLink, WriteResend
  <2>4. Answer(p)
    BY <1>3 DEF WriteResend
  <2>. HIDE DEF i
  <2>5. invitation' \in [Invitations -> InvitationRow] /\ InvitationsSound'
    BY <2>1, <2>2, <2>3, RenewedWritten
  <2>. QED
    BY <1>0, <2>3, <2>4, <2>5, AnswerRequests
<1>4. CASE WriteCancel(p)
  <2>1. i \in Invitations /\ user.status # "none" /\ user' = user
    BY <1>4 DEF WriteCancel, RequestInv, RequestsSound, Ready
  <2>2. CASE UNCHANGED invitation
    BY <1>0, <1>4, <2>1, <2>2, AnswerRequests DEF WriteCancel, RequestInv, InvitationsSound
  <2>3. CASE Pending(i)
    <3>1. invitation' = [invitation EXCEPT ![i].status = "CANCELLED"] /\ Answer(p)
      BY <1>4, <2>3 DEF WriteCancel
    <3>. HIDE DEF i
    <3>2. invitation' \in [Invitations -> InvitationRow] /\ InvitationsSound'
      BY <2>1, <2>3, <3>1, StatusWritten
    <3>. QED
      BY <1>0, <2>1, <3>1, <3>2, AnswerRequests
  <2>. QED
    BY <1>4, <2>2, <2>3 DEF WriteCancel
<1>5. CASE WriteActivate(p)
  <2>1. /\ i \in Invitations /\ user.status # "none"
        /\ request[p].link \in Links \cup {NoLink}
    BY <1>0, <1>5 DEF WriteActivate, RequestInv, RequestsSound, Ready, Request
  <2>2. CASE UNCHANGED <<user, invitation>>
    BY <1>0, <1>5, <2>2, AnswerRequests DEF WriteActivate, RequestInv, InvitationsSound
  <2>3. CASE Open(i) /\ Activated(p)
    <3>1. invitation' = [invitation EXCEPT ![i].status = "ACCEPTED"] /\ Pending(i)
      BY <2>3 DEF Activated, Open
    <3>2. /\ user' = [status |-> "ACTIVE", password |-> request[p].link]
          /\ user'.status # "none"
      BY <2>3 DEF Activated
    <3>3. /\ user' \in [status: UserStatus, password: Links \cup {NoLink}]
          /\ user'.status # "none"
      BY <2>1, <3>2 DEF UserStatus
    <3>4. Answer(p)
      BY <1>5 DEF WriteActivate
    <3>. HIDE DEF i
    <3>5. invitation' \in [Invitations -> InvitationRow] /\ InvitationsSound'
      BY <2>1, <3>1, <3>3, StatusWritten
    <3>. QED
      BY <3>3, <3>4, <3>5, AnswerRequests
  <2>. QED
    BY <1>5, <2>2, <2>3 DEF WriteActivate
<1>. QED
  BY <1>1, <1>2, <1>3, <1>4, <1>5 DEF Write

\* Time, and what else changes the status of the user.
LEMMA SurroundingRequests ==
  ASSUME RequestInv,
         AccountChange \/ \E i \in Invitations : Expire(i)
  PROVE  RequestInv'
<1>0. /\ user \in [status: UserStatus, password: Links \cup {NoLink}]
      /\ \A i \in Invitations : invitation[i] \in InvitationRow
      /\ invitation \in [Invitations -> InvitationRow]
  BY DEF RequestInv
<1>1. UNCHANGED request
  BY DEF AccountChange, Expire
<1>2. /\ user' \in [status: UserStatus, password: Links \cup {NoLink}]
      /\ user'.status = "none" => user' = user
      /\ invitation' \in [Invitations -> InvitationRow]
      /\ InvitationsSound'
  <2>1. CASE AccountChange
    BY <1>0, <2>1 DEF AccountChange, AccountMoves, UserStatus, RequestInv, InvitationsSound
  <2>2. ASSUME NEW i \in Invitations, Expire(i)
        PROVE  /\ user' = user /\ invitation' \in [Invitations -> InvitationRow]
               /\ InvitationsSound'
    <3>1. /\ invitation' = [invitation EXCEPT ![i].expired = TRUE]
          /\ user' = user /\ Pending(i)
      BY <2>2 DEF Expire
    <3>2. user.status # "none"
      BY <3>1 DEF RequestInv, InvitationsSound, Pending
    <3>. QED
      BY <3>1, <3>2, StatusWritten
  <2>. QED
    BY <1>0, <2>1, <2>2
<1>3. RequestsSound'
  BY <1>1, <1>2 DEF RequestInv, RequestsSound, Ready
<1>. QED
  BY <1>1, <1>2, <1>3 DEF RequestInv

-----------------------------------------------------------------------------
(* The invariant *)

LEMMA InitInv == Init => IInv
<1>. SUFFICES ASSUME Init PROVE IInv
  OBVIOUS
<1>1. QueueInv
  BY DEF Init, QueueInv, LinkStoredWhileUnfinished, OnePumpPerJob, ClaimedJobs, NoJob,
         JobRow, JobStatus, Unfinished, Idle, Worker, NoLink
<1>2. RequestInv
  BY DEF Init, RequestInv, RequestsSound, Ready, InvitationsSound, NoRequest, Request,
         NoInvitation, InvitationRow, InvitationStatus, UserStatus
<1>3. CountsInv
  BY InvitationEmailsAssumption DEF Init, CountsInv
<1>. QED
  BY <1>1, <1>2, <1>3 DEF IInv

\* The jobs a write of a request leaves behind.
LEMMA WriteJobs ==
  ASSUME RequestInv, NEW p \in Clients, Write(p)
  PROVE  /\ UNCHANGED worker
         /\ \/ UNCHANGED job
            \/ \E i \in Invitations : job' = StopUnfinished(i)
            \/ \E i \in Invitations, t \in NextLink : job' = ReplacePending(i, t)
            \/ \E i \in Invitations, t \in NextLink : job' = [job EXCEPT ![t] = Queued(i)]
<1>1. request[p] \in Request
  BY DEF RequestInv
<1>2. CASE WriteInvite(p)
  BY <1>2 DEF WriteInvite, NextInvitation
<1>3. CASE WriteInviteAgain(p)
  BY <1>1, <1>3 DEF WriteInviteAgain, NextInvitation, Request
<1>4. CASE WriteResend(p)
  BY <1>4 DEF WriteResend, RequestInv, RequestsSound
<1>5. CASE WriteCancel(p)
  BY <1>5 DEF WriteCancel, RequestInv, RequestsSound
<1>6. CASE WriteActivate(p)
  BY <1>6 DEF WriteActivate
<1>. QED
  BY <1>2, <1>3, <1>4, <1>5, <1>6 DEF Write

LEMMA CountsStep ==
  ASSUME QueueInv, CountsInv, NEW w \in Workers, QueueStep(w)
  PROVE  CountsInv'
<1>1. worker[w].job = NoLink \/ worker[w].job \in Links
  BY DEF QueueInv, Worker
<1>2. CASE Send(w)
  <2>1. worker[w].job \in Links
    BY <1>1, <1>2 DEF Send, QueueInv
  <2>. QED
    BY <1>2, <2>1 DEF Send, CountsInv
<1>3. CASE UNCHANGED mailed /\ (UNCHANGED faults \/ Fault)
  BY <1>3, InvitationEmailsAssumption DEF CountsInv, Fault
<1>4. Send(w) \/ (UNCHANGED mailed /\ (UNCHANGED faults \/ Fault))
  BY DEF QueueStep, Pump, Claim, LoadJob, CheckInvitation, ReloadJob, FinishSent, Retry,
         QueryFails, Stop, Start
<1>. QED
  BY <1>2, <1>3, <1>4

LEMMA NextInv == IInv /\ [Next]_vars => IInv'
<1>. SUFFICES ASSUME IInv, [Next]_vars PROVE IInv'
  OBVIOUS
<1>1. QueueInv /\ RequestInv /\ CountsInv
  BY DEF IInv
<1>2. CASE UNCHANGED vars
  <2>1. QueueInv'
    BY <1>1, <1>2, WriteQueue DEF vars
  <2>2. RequestInv'
    BY <1>1, <1>2 DEF vars, RequestInv, RequestsSound, Ready, InvitationsSound
  <2>. QED
    BY <1>1, <1>2, <2>1, <2>2 DEF vars, IInv, CountsInv
<1>3. ASSUME NEW p \in Clients, Read(p) \/ GiveUp(p)
      PROVE  IInv'
  <2>1. UNCHANGED <<job, worker, mailed, faults>>
    BY <1>3 DEF Read, Invite, InviteAgain, FindPending, Resend, Cancel, Activate, Begin,
                GiveUp
  <2>2. QueueInv'
    BY <1>1, <2>1, WriteQueue
  <2>3. RequestInv'
    <3>1. CASE GiveUp(p)
      BY <1>1, <3>1, AnswerRequests DEF GiveUp, RequestInv, InvitationsSound
    <3>. QED
      BY <1>1, <1>3, <3>1, ReadRequests
  <2>. QED
    BY <1>1, <2>1, <2>2, <2>3 DEF IInv, CountsInv
<1>4. ASSUME NEW p \in Clients, Write(p)
      PROVE  IInv'
  <2>1. UNCHANGED <<mailed, faults>>
    BY <1>4 DEF Write, WriteInvite, WriteInviteAgain, WriteResend, WriteCancel,
                WriteActivate
  <2>2. QueueInv' /\ RequestInv'
    BY <1>1, <1>4, WriteJobs, WriteQueue, WriteRequests
  <2>. QED
    BY <1>1, <2>1, <2>2 DEF IInv, CountsInv
<1>5. ASSUME NEW w \in Workers, QueueStep(w)
      PROVE  IInv'
  <2>1. QueueInv'
    BY <1>1, <1>5, PumpQueue, FaultQueue DEF QueueStep
  <2>2. UNCHANGED <<user, invitation, request>>
    BY <1>5 DEF QueueStep, Pump, Claim, LoadJob, CheckInvitation, ReloadJob, Send,
                FinishSent, Retry, QueryFails, Stop, Start
  <2>3. RequestInv'
    BY <1>1, <2>2 DEF RequestInv, RequestsSound, Ready, InvitationsSound
  <2>. QED
    BY <1>1, <1>5, <2>1, <2>3, CountsStep DEF IInv
<1>6. ASSUME NEW t \in Links, GrowOld(t) /\ UNCHANGED request
      PROVE  IInv'
  <2>1. QueueInv'
    BY <1>1, <1>6, AgeQueue
  <2>2. UNCHANGED <<user, invitation, request, mailed, faults>>
    BY <1>6 DEF GrowOld
  <2>. QED
    BY <1>1, <2>1, <2>2 DEF IInv, CountsInv, RequestInv, RequestsSound, Ready,
                            InvitationsSound
<1>7. CASE AccountChange \/ \E i \in Invitations : Expire(i)
  <2>1. UNCHANGED <<job, worker, mailed, faults>>
    BY <1>7 DEF AccountChange, Expire
  <2>2. QueueInv' /\ RequestInv'
    BY <1>1, <1>7, <2>1, WriteQueue, SurroundingRequests
  <2>. QED
    BY <1>1, <2>1, <2>2 DEF IInv, CountsInv
<1>. QED
  BY <1>2, <1>3, <1>4, <1>5, <1>6, <1>7 DEF Next

LEMMA Invariance == Spec => []IInv
BY InitInv, NextInv, PTL DEF Spec

\* The tables, the pumps and the requests hold only values of their kinds, whatever
\* overtakes a request or a pump between its reads and its writes.
THEOREM InvitationTypes == Spec => []TypeOK
<1>1. IInv => TypeOK
  BY DEF IInv, QueueInv, RequestInv, CountsInv, RequestsSound, TypeOK
<1>. QED
  BY <1>1, Invariance, PTL

\* The link is stored exactly as long as its letter may still have to be sent.
THEOREM LinkStoredAsLongAsNeeded == Spec => []LinkStoredWhileUnfinished
<1>1. IInv => LinkStoredWhileUnfinished
  BY DEF IInv, QueueInv
<1>. QED
  BY <1>1, Invariance, PTL

\* No two server processes work on one letter, with any number of processes,
\* restarts and failed queries.
THEOREM NoTwoPumpsOnOneJob == Spec => []OnePumpPerJob
<1>1. IInv => OnePumpPerJob
  BY DEF IInv, QueueInv
<1>. QED
  BY <1>1, Invariance, PTL

\* An invitation that has been accepted or cancelled is touched only by the write of
\* a resend or of another invitation that had been decided on before.
THEOREM SettledStaysSettled == Spec => SettledForGood
<1>. DEFINE Settled(i) ==
       invitation[i].status \in {"ACCEPTED", "CANCELLED"} /\ invitation'[i] # invitation[i]
         => \E p \in Clients : /\ Ready(p, "resend") \/ Ready(p, "inviteAgain")
                               /\ request[p].invitation = i
                               /\ request'[p] = NoRequest
<1>1. ASSUME IInv, [Next]_vars, NEW i \in Invitations
      PROVE  Settled(i)
  <2>0. /\ RequestInv /\ invitation \in [Invitations -> InvitationRow]
        /\ request \in [Clients -> Request]
    BY <1>1 DEF IInv, RequestInv
  <2>1. CASE invitation'[i] = invitation[i]
    BY <2>1
  <2>2. ASSUME NEW p \in Clients, WriteResend(p)
        PROVE  Settled(i)
    <3>1. request'[p] = NoRequest /\ Ready(p, "resend")
      BY <2>0, <2>2 DEF WriteResend, Answer
    <3>2. request[p].invitation # i => invitation'[i] = invitation[i]
      BY <2>0, <2>2 DEF WriteResend
    <3>. QED
      BY <3>1, <3>2
  <2>3. ASSUME NEW p \in Clients, WriteInviteAgain(p)
        PROVE  Settled(i)
    <3>1. request'[p] = NoRequest /\ Ready(p, "inviteAgain")
      BY <2>0, <2>3 DEF WriteInviteAgain, Answer
    <3>2. request[p].invitation # i =>
            invitation'[i] = invitation[i] \/ invitation[i].status = "none"
      BY <2>0, <2>3 DEF WriteInviteAgain, NextInvitation
    <3>. QED
      BY <3>1, <3>2
  <2>4. ASSUME NEW p \in Clients, WriteInvite(p) \/ WriteCancel(p) \/ WriteActivate(p)
        PROVE  invitation'[i] = invitation[i] \/ invitation[i].status \in {"none", "PENDING"}
    <3>1. CASE WriteInvite(p)
      BY <2>0, <3>1 DEF WriteInvite, NextInvitation
    <3>2. CASE WriteCancel(p)
      BY <2>0, <3>2 DEF WriteCancel, Pending
    <3>3. CASE WriteActivate(p)
      BY <2>0, <3>3 DEF WriteActivate, Activated, Open, Pending
    <3>. QED
      BY <2>4, <3>1, <3>2, <3>3
  <2>5. ASSUME NEW k \in Invitations, Expire(k)
        PROVE  invitation'[i] = invitation[i] \/ invitation[i].status = "PENDING"
    BY <2>0, <2>5 DEF Expire, Pending
  <2>6. CASE UNCHANGED invitation
    BY <2>1, <2>6
  <2>7. \/ UNCHANGED invitation
        \/ \E p \in Clients : Write(p)
        \/ \E k \in Invitations : Expire(k)
    <3>1. ASSUME NEW p \in Clients, Read(p) \/ GiveUp(p)
          PROVE  UNCHANGED invitation
      BY <3>1 DEF Read, Invite, InviteAgain, FindPending, Resend, Cancel, Activate, Begin,
                  GiveUp
    <3>2. ASSUME NEW w \in Workers, QueueStep(w)
          PROVE  UNCHANGED invitation
      BY <3>2 DEF QueueStep, Pump, Claim, LoadJob, CheckInvitation, ReloadJob, Send,
                  FinishSent, Retry, QueryFails, Stop, Start
    <3>. QED
      BY <1>1, <3>1, <3>2 DEF Next, vars, GrowOld, AccountChange
  <2>. HIDE DEF Settled
  <2>8. ASSUME invitation[i].status \in {"none", "PENDING"}
        PROVE  Settled(i)
    BY <2>8 DEF Settled
  <2>. QED
    BY <2>1, <2>2, <2>3, <2>4, <2>5, <2>6, <2>7, <2>8 DEF Write
<1>2. IInv /\ [Next]_vars => [\A i \in Invitations : Settled(i)]_invitation
  BY <1>1
<1>. QED
  BY <1>2, Invariance, PTL DEF Spec, SettledForGood

-----------------------------------------------------------------------------
(* Letters and passwords, unless an address is invited again *)

Lost == {"none", "SUPERSEDED"}

\* The link of an open invitation has a letter that is not lost; an account that
\* has a password has left its invitations behind.
LetterInv ==
  "inviteAgain" \notin Ops =>
    /\ \A i \in Invitations : Open(i) => /\ job[invitation[i].link].invitation = i
                                         /\ job[invitation[i].link].status \notin Lost
    /\ \A i \in Invitations : invitation[i].status = "ACCEPTED" => user.password # NoLink
    /\ user.password # NoLink => user.status \notin {"none", "INVITED"}

\* The pumps give no job to another invitation and lose none that is current.
JobsGoOn ==
  \A t \in Links :
    /\ job'[t].invitation = job[t].invitation
    /\ job[t].status \notin Lost /\ LinkIsCurrent(t) => job'[t].status \notin Lost

LEMMA FinishGoesOn ==
  ASSUME QueueInv, NEW w \in Workers, worker[w].at \notin {"down", "idle"},
         NEW status, NEW raw, Finish(w, status, raw),
         status \notin Lost \/ ~LinkIsCurrent(worker[w].job)
  PROVE  JobsGoOn
<1>1. worker[w].job \in Links /\ \A t \in Links : job[t] \in JobRow
  BY DEF QueueInv, Worker
<1>2. job' = [job EXCEPT ![worker[w].job] =
                [job[worker[w].job] EXCEPT !.status = status, !.raw = raw, !.old = FALSE]]
  BY <1>1 DEF Finish, QueueInv, JobRow
<1>3. /\ job'[worker[w].job].invitation = job[worker[w].job].invitation
      /\ job'[worker[w].job].status = status
      /\ \A t \in Links \ {worker[w].job} : job'[t] = job[t]
  BY <1>1, <1>2 DEF QueueInv, JobRow
<1>. QED
  BY <1>3 DEF JobsGoOn

LEMMA QueueGoesOn ==
  ASSUME QueueInv, (\E w \in Workers : QueueStep(w)) \/ \E t \in Links : GrowOld(t)
  PROVE  JobsGoOn
<1>0. \A t \in Links : job[t] \in JobRow
  BY DEF QueueInv
<1>1. CASE UNCHANGED job
  BY <1>1 DEF JobsGoOn
<1>2. ASSUME NEW w \in Workers, Claim(w)
      PROVE  JobsGoOn
  <2>1. PICK t \in Links : job' = [job EXCEPT ![t].status = "PROCESSING",
                                              ![t].attempts = @ + 1, ![t].old = FALSE]
    BY <1>2 DEF Claim
  <2>2. /\ job'[t].invitation = job[t].invitation /\ job'[t].status = "PROCESSING"
        /\ \A u \in Links \ {t} : job'[u] = job[u]
    BY <1>0, <2>1 DEF QueueInv, JobRow
  <2>. QED
    BY <2>2 DEF JobsGoOn, Lost
<1>3. ASSUME NEW w \in Workers, CheckInvitation(w) \/ FinishSent(w) \/ Retry(w)
      PROVE  JobsGoOn
  <2>1. worker[w].at \notin {"down", "idle"}
    BY <1>3 DEF CheckInvitation, FinishSent, Retry
  <2>2. \/ UNCHANGED job
        \/ Finish(w, "FAILED", FALSE)
        \/ Finish(w, "SUPERSEDED", FALSE) /\ ~LinkIsCurrent(worker[w].job)
        \/ Finish(w, "SENT", FALSE)
        \/ Finish(w, "QUEUED", TRUE)
    BY <1>3 DEF CheckInvitation, FinishSent, Retry
  <2>3. /\ "FAILED" \notin Lost /\ "SENT" \notin Lost /\ "QUEUED" \notin Lost
    BY DEF Lost
  <2>. QED
    BY <1>1, <2>1, <2>2, <2>3, FinishGoesOn
<1>4. ASSUME NEW w \in Workers, LoadJob(w) \/ ReloadJob(w) \/ Send(w) \/ QueryFails(w)
                                  \/ Stop(w)
      PROVE  JobsGoOn
  BY <1>1, <1>4 DEF LoadJob, ReloadJob, Send, QueryFails, Stop
<1>5. ASSUME NEW w \in Workers, Start(w)
      PROVE  JobsGoOn
  <2>1. CASE job' = Recovered
    <3>1. \A t \in Links :
            \/ job'[t] = job[t]
            \/ job'[t] = [job[t] EXCEPT !.status = "QUEUED", !.old = FALSE]
      BY <2>1 DEF Recovered
    <3>2. \A t \in Links :
            \/ job'[t] = job[t]
            \/ job'[t].invitation = job[t].invitation /\ job'[t].status = "QUEUED"
      BY <1>0, <3>1 DEF JobRow
    <3>. QED
      BY <3>2 DEF JobsGoOn, Lost
  <2>. QED
    BY <1>1, <1>5, <2>1 DEF Start
<1>6. ASSUME NEW t \in Links, GrowOld(t)
      PROVE  JobsGoOn
  <2>1. /\ job'[t].invitation = job[t].invitation /\ job'[t].status = job[t].status
        /\ \A u \in Links \ {t} : job'[u] = job[u]
    BY <1>0, <1>6 DEF GrowOld, QueueInv, JobRow
  <2>. QED
    BY <2>1 DEF JobsGoOn
<1>. QED
  BY <1>2, <1>3, <1>4, <1>5, <1>6 DEF QueueStep, Pump

LEMMA LettersKept ==
  ASSUME IInv, LetterInv, JobsGoOn, UNCHANGED <<user, invitation>>
  PROVE  LetterInv'
<1>1. \A i \in Invitations : Open(i)' <=> Open(i)
  BY DEF Open, Pending
<1>2. \A i \in Invitations : Open(i) => invitation[i].link \in Links
  BY DEF IInv, RequestInv, InvitationsSound, InvitationRow, Open, Pending
<1>3. ASSUME "inviteAgain" \notin Ops, NEW i \in Invitations, Open(i)
      PROVE  /\ job'[invitation[i].link].invitation = i
             /\ job'[invitation[i].link].status \notin Lost
  <2>1. LinkIsCurrent(invitation[i].link)
    BY <1>2, <1>3 DEF LetterInv, LinkIsCurrent, Open, Pending
  <2>. QED
    BY <1>2, <1>3, <2>1 DEF LetterInv, JobsGoOn
<1>. QED
  BY <1>1, <1>3 DEF LetterInv

\* A link is put into an invitation together with its letter.
LEMMA NewLetter ==
  ASSUME IInv, LetterInv, NEW i \in Invitations, NEW t \in NextLink,
         invitation' = [invitation EXCEPT ![i] = Renewed(t)],
         job' \in [Links -> JobRow], job'[t] = Queued(i),
         \A u \in Links \ {t} : job'[u] = job[u] \/ job[u].invitation = i,
         "inviteAgain" \notin Ops => user'.password = user.password,
         UNCHANGED user \/ user.status = "none"
  PROVE  LetterInv'
<1>. SUFFICES ASSUME "inviteAgain" \notin Ops
              PROVE  LetterInv'
  BY DEF LetterInv
<1>1. /\ t \in Links /\ job[t].status = "none"
      /\ Renewed(t).status = "PENDING" /\ Renewed(t).link = t
      /\ Queued(i).invitation = i /\ Queued(i).status = "QUEUED"
  BY QueuedRow DEF NextLink, Renewed
<1>2. /\ invitation'[i] = Renewed(t)
      /\ \A k \in Invitations \ {i} : invitation'[k] = invitation[k]
  BY DEF IInv, RequestInv
<1>3. ASSUME NEW k \in Invitations \ {i}, Open(k)'
      PROVE  /\ job'[invitation[k].link].invitation = k
             /\ job'[invitation[k].link].status \notin Lost
  <2>1. user.status # "none"
    BY <1>2, <1>3 DEF Open, Pending, IInv, RequestInv, InvitationsSound
  <2>2. Open(k)
    BY <1>2, <1>3, <2>1 DEF Open, Pending
  <2>3. invitation[k].link \in Links
    BY <2>2 DEF IInv, RequestInv, InvitationsSound, InvitationRow, Open, Pending
  <2>4. /\ job[invitation[k].link].invitation = k
        /\ job[invitation[k].link].status \notin Lost
    BY <2>2 DEF LetterInv
  <2>5. invitation[k].link # t
    BY <1>1, <2>4 DEF Lost
  <2>6. job'[invitation[k].link] = job[invitation[k].link]
    BY <2>3, <2>4, <2>5
  <2>. QED
    BY <2>4, <2>6
<1>4. \A k \in Invitations : Open(k)' => /\ job'[invitation'[k].link].invitation = k
                                         /\ job'[invitation'[k].link].status \notin Lost
  BY <1>1, <1>2, <1>3 DEF Lost
<1>5. \A k \in Invitations : invitation'[k].status = "ACCEPTED" => user'.password # NoLink
  BY <1>1, <1>2 DEF LetterInv
<1>6. user'.password # NoLink => user'.status \notin {"none", "INVITED"}
  BY DEF LetterInv, IInv, RequestInv, InvitationsSound
<1>. QED
  BY <1>4, <1>5, <1>6 DEF LetterInv

LEMMA WriteLetters ==
  ASSUME IInv, LetterInv, NEW p \in Clients, Write(p)
  PROVE  LetterInv'
<1>. SUFFICES ASSUME "inviteAgain" \notin Ops
              PROVE  LetterInv'
  BY DEF LetterInv
<1>0. /\ QueueInv /\ RequestInv /\ request[p] \in Request
      /\ invitation \in [Invitations -> InvitationRow]
  BY DEF IInv, RequestInv
<1>. DEFINE i == request[p].invitation
<1>1. CASE WriteInvite(p)
  <2>1. CASE user.status = "none"
    <3>1. PICK t \in NextLink, k \in NextInvitation :
            /\ user' = [status |-> "INVITED", password |-> NoLink]
            /\ invitation' = [invitation EXCEPT ![k] = Renewed(t)]
            /\ job' = [job EXCEPT ![t] = Queued(k)]
      BY <1>1, <2>1 DEF WriteInvite
    <3>2. k \in Invitations /\ t \in Links
      BY DEF NextInvitation, NextLink
    <3>3. /\ job' \in [Links -> JobRow] /\ job'[t] = Queued(k)
          /\ \A u \in Links \ {t} : job'[u] = job[u]
      BY <1>0, <3>1, <3>2, QueuedRow DEF QueueInv
    <3>4. user'.password = user.password
      BY <1>0, <2>1, <3>1 DEF RequestInv, InvitationsSound
    <3>. QED
      BY <2>1, <3>1, <3>2, <3>3, <3>4, NewLetter
  <2>2. CASE UNCHANGED <<user, invitation, job>>
    BY <2>2, LettersKept DEF JobsGoOn
  <2>. QED
    BY <1>1, <2>1, <2>2 DEF WriteInvite
<1>2. CASE WriteInviteAgain(p)
  BY <1>0, <1>2 DEF WriteInviteAgain, RequestInv, RequestsSound, Ready
<1>3. CASE WriteResend(p)
  <2>1. i \in Invitations /\ user' = user
    BY <1>0, <1>3 DEF WriteResend, RequestInv, RequestsSound
  <2>2. PICK t \in NextLink : /\ invitation' = [invitation EXCEPT ![i] = Renewed(t)]
                              /\ job' = ReplacePending(i, t)
    BY <1>3 DEF WriteResend
  <2>. HIDE DEF i
  <2>3. /\ job' \in [Links -> JobRow] /\ job'[t] = Queued(i)
        /\ \A u \in Links \ {t} : job'[u] = job[u] \/ job[u].invitation = i
    BY <1>0, <2>1, <2>2, ReplacePendingRows, StopUnfinishedRows
  <2>. QED
    BY <2>1, <2>2, <2>3, NewLetter
<1>4. CASE WriteCancel(p)
  <2>1. i \in Invitations /\ user' = user
    BY <1>0, <1>4 DEF WriteCancel, RequestInv, RequestsSound
  <2>2. CASE UNCHANGED <<invitation, job>>
    BY <2>1, <2>2, LettersKept DEF JobsGoOn
  <2>3. CASE /\ invitation' = [invitation EXCEPT ![i].status = "CANCELLED"]
             /\ job' = StopUnfinished(i)
    <3>. HIDE DEF i
    <3>1. /\ invitation'[i].status = "CANCELLED"
          /\ \A k \in Invitations \ {i} : invitation'[k] = invitation[k]
      BY <1>0, <2>1, <2>3 DEF InvitationRow
    <3>2. \A u \in Links : job'[u] = job[u] \/ job[u].invitation = i
      BY <1>0, <2>1, <2>3, StopUnfinishedRows
    <3>3. ASSUME NEW k \in Invitations, Open(k)'
          PROVE  /\ job'[invitation'[k].link].invitation = k
                 /\ job'[invitation'[k].link].status \notin Lost
      <4>1. k # i /\ Open(k)
        BY <2>1, <3>1, <3>3 DEF Open, Pending
      <4>2. /\ job[invitation[k].link].invitation = k
            /\ job[invitation[k].link].status \notin Lost
        BY <4>1 DEF LetterInv
      <4>3. invitation[k].link \in Links
        BY <1>0, <4>1 DEF RequestInv, InvitationsSound, InvitationRow, Open, Pending
      <4>. QED
        BY <3>1, <3>2, <4>1, <4>2, <4>3
    <3>. QED
      BY <2>1, <3>1, <3>3 DEF LetterInv
  <2>. QED
    BY <1>4, <2>2, <2>3 DEF WriteCancel
<1>5. CASE WriteActivate(p)
  <2>1. i \in Invitations /\ request[p].link # NoLink /\ UNCHANGED job
    BY <1>0, <1>5 DEF WriteActivate, RequestInv, RequestsSound
  <2>2. CASE UNCHANGED <<user, invitation>>
    BY <2>1, <2>2, LettersKept DEF JobsGoOn
  <2>3. CASE Activated(p)
    <3>1. user'.status = "ACTIVE" /\ user'.password # NoLink
      BY <2>1, <2>3 DEF Activated
    <3>. QED
      BY <3>1 DEF LetterInv, Open
  <2>. QED
    BY <1>5, <2>2, <2>3 DEF WriteActivate
<1>. QED
  BY <1>1, <1>2, <1>3, <1>4, <1>5 DEF Write

LEMMA LetterStep == IInv /\ LetterInv /\ [Next]_vars => LetterInv'
<1>. SUFFICES ASSUME IInv, LetterInv, [Next]_vars PROVE LetterInv'
  OBVIOUS
<1>1. CASE UNCHANGED <<user, invitation, job>>
  BY <1>1, LettersKept DEF JobsGoOn
<1>2. ASSUME NEW p \in Clients, Read(p) \/ GiveUp(p)
      PROVE  LetterInv'
  BY <1>1, <1>2 DEF Read, Invite, InviteAgain, FindPending, Resend, Cancel, Activate, Begin,
                    GiveUp
<1>3. CASE (\E w \in Workers : QueueStep(w)) \/ \E t \in Links : GrowOld(t)
  <2>1. UNCHANGED <<user, invitation>>
    BY <1>3 DEF QueueStep, Pump, Claim, LoadJob, CheckInvitation, ReloadJob, Send,
                FinishSent, Retry, QueryFails, Stop, Start, GrowOld
  <2>. QED
    BY <1>3, <2>1, QueueGoesOn, LettersKept DEF IInv
<1>4. ASSUME NEW i \in Invitations, Expire(i)
      PROVE  LetterInv'
  <2>1. /\ invitation \in [Invitations -> InvitationRow]
        /\ UNCHANGED <<user, job>>
    BY <1>4 DEF IInv, RequestInv, Expire
  <2>2. \A k \in Invitations : /\ invitation'[k].status = invitation[k].status
                               /\ invitation'[k].link = invitation[k].link
    BY <1>4, <2>1 DEF Expire, InvitationRow
  <2>3. \A k \in Invitations : Open(k)' <=> Open(k)
    BY <2>1, <2>2 DEF Open, Pending
  <2>. QED
    BY <2>1, <2>2, <2>3 DEF LetterInv
<1>5. CASE AccountChange
  <2>1. /\ user'.password = user.password /\ user'.status \notin {"none", "INVITED"}
        /\ UNCHANGED <<invitation, job>>
    BY <1>5 DEF AccountChange, AccountMoves, IInv, RequestInv
  <2>. QED
    BY <2>1 DEF LetterInv, Open
<1>. QED
  BY <1>1, <1>2, <1>3, <1>4, <1>5, WriteLetters DEF Next, vars

LEMMA LetterInvariance == Spec => []LetterInv
<1>1. Init => LetterInv
  BY DEF Init, LetterInv, Open, Pending, NoInvitation, NoLink
<1>. QED
  BY <1>1, LetterStep, Invariance, PTL DEF Spec

\* No race of resends, cancellations, retries and restarts drops the letter with the
\* current link of an open invitation.
THEOREM NoLetterDropped == Spec => []CurrentLinkHasLetter
<1>1. LetterInv => CurrentLinkHasLetter
  BY DEF LetterInv, CurrentLinkHasLetter, Lost
<1>. QED
  BY <1>1, LetterInvariance, PTL

\* An accepted invitation has given its user a password.
THEOREM AcceptanceGivesPassword == Spec => []AcceptedHasPassword
<1>1. LetterInv => AcceptedHasPassword
  BY DEF LetterInv, AcceptedHasPassword
<1>. QED
  BY <1>1, LetterInvariance, PTL

\* No second activation replaces the password of an account.
THEOREM PasswordSetOnce == Spec => ActivatedOnce
<1>1. ASSUME IInv, LetterInv, [Next]_vars, "inviteAgain" \notin Ops,
             user.password # NoLink
      PROVE  user'.password = user.password
  <2>0. /\ RequestInv /\ user.status \notin {"none", "INVITED"}
        /\ user \in [status: UserStatus, password: Links \cup {NoLink}]
    BY <1>1 DEF IInv, LetterInv, RequestInv
  <2>1. ASSUME NEW p \in Clients, Write(p)
        PROVE  user' = user
    <3>1. ~WriteInviteAgain(p)
      BY <1>1, <2>0 DEF WriteInviteAgain, RequestInv, RequestsSound, Ready
    <3>. QED
      BY <2>0, <2>1, <3>1 DEF Write, WriteInvite, WriteResend, WriteCancel, WriteActivate,
                              Open
  <2>2. CASE AccountChange
    BY <2>0, <2>2 DEF AccountChange
  <2>3. CASE UNCHANGED user
    BY <2>3
  <2>4. \/ UNCHANGED user \/ AccountChange
        \/ \E p \in Clients : Write(p)
    <3>1. ASSUME NEW p \in Clients, Read(p) \/ GiveUp(p)
          PROVE  UNCHANGED user
      BY <3>1 DEF Read, Invite, InviteAgain, FindPending, Resend, Cancel, Activate, Begin,
                  GiveUp
    <3>2. ASSUME NEW w \in Workers, QueueStep(w)
          PROVE  UNCHANGED user
      BY <3>2 DEF QueueStep, Pump, Claim, LoadJob, CheckInvitation, ReloadJob, Send,
                  FinishSent, Retry, QueryFails, Stop, Start
    <3>. QED
      BY <1>1, <3>1, <3>2 DEF Next, vars, GrowOld, Expire
  <2>. QED
    BY <2>1, <2>2, <2>3, <2>4
<1>2. IInv /\ LetterInv /\ [Next]_vars =>
        [("inviteAgain" \notin Ops /\ user.password # NoLink) =>
           user'.password = user.password]_user
  BY <1>1
<1>. QED
  BY <1>2, Invariance, LetterInvariance, PTL DEF Spec, ActivatedOnce

=============================================================================
