----------------------------- MODULE Invitations -----------------------------
(***************************************************************************)
(* The life of an invitation, invitations.service.ts, together with the    *)
(* queue of its letters: an administrator invites an address, resends or   *)
(* cancels the invitation, and whoever has a link in the mailbox activates *)
(* the account with it.                                                    *)
(*                                                                         *)
(* A request reads, decides, and then writes in a transaction.  The reads  *)
(* are steps of their own: they take no lock, so everything may change     *)
(* between them and the writes.  The writes of a transaction and its       *)
(* commit are one step: its row locks keep what its conditional updates    *)
(* have found until it commits, and a deadlock of two transactions (their  *)
(* rows are not locked in one order) only rolls one of them back.          *)
(***************************************************************************)
EXTENDS InvitationEmails

CONSTANTS
  Clients,   \* requests that may be in progress together
  Ops        \* what clients may request in this model

OpNames == {"invite", "inviteAgain", "resend", "cancel", "activate"}

ASSUME InvitationsAssumption == Ops \subseteq OpNames

VARIABLE request   \* the request each client is working on

vars == <<user, invitation, job, worker, mailed, faults, request>>

InvitationRow == [status: InvitationStatus, link: Links \cup {NoLink}, expired: BOOLEAN]

NoInvitation == [status |-> "none", link |-> NoLink, expired |-> FALSE]

Request == [op: OpNames \cup {"none"}, at: {"idle", "found", "ready"},
            invitation: Invitations \cup {0}, link: Links \cup {NoLink}]

NoRequest == [op |-> "none", at |-> "idle", invitation |-> 0, link |-> NoLink]

Begin(p, o, at, i, t) ==
  /\ o \in Ops
  /\ request[p].at = "idle"
  /\ request' = [request EXCEPT ![p] = [op |-> o, at |-> at, invitation |-> i, link |-> t]]
  /\ UNCHANGED <<user, invitation, job, worker, mailed, faults>>

\* The answer, or the exception, that ends a request.
Answer(p) == request' = [request EXCEPT ![p] = NoRequest]

Ready(p, o) == request[p].at = "ready" /\ request[p].op = o

-----------------------------------------------------------------------------
(* Rows *)

\* randomBytes: a link that has never been issued; a row that does not exist.
NextLink == {t \in Links : /\ job[t].status = "none"
                           /\ \A u \in Links : job[u].status = "none" => t <= u}

NextInvitation ==
  {i \in Invitations : /\ invitation[i].status = "none"
                       /\ \A k \in Invitations : invitation[k].status = "none" => i <= k}

Pending(i) == invitation[i].status = "PENDING"

\* PENDING with link t, not accepted and valid for another INVITATION_TTL_MS.
Renewed(t) == [status |-> "PENDING", link |-> t, expired |-> FALSE]

\* The user takes part in an invitation that is open.
Open(i) == Pending(i) /\ user.status = "INVITED"

-----------------------------------------------------------------------------
(* createAndSendInvitation *)

\* The first read: is there a user with this address?
Invite(p) ==
  /\ user.status = "none"
  /\ Begin(p, "invite", "ready", 0, NoLink)

InviteAgain(p) ==
  /\ user.status = "INVITED"
  /\ Begin(p, "inviteAgain", "found", 0, NoLink)

\* The second read: an invitation of that user that is still pending.
FindPending(p) ==
  /\ request[p].at = "found"
  /\ \E i \in Invitations \cup {0} :
       /\ IF \E k \in Invitations : Pending(k) THEN i # 0 /\ Pending(i) ELSE i = 0
       /\ request' = [request EXCEPT ![p].at = "ready", ![p].invitation = i]
  /\ UNCHANGED <<user, invitation, job, worker, mailed, faults>>

\* The e-mail address is unique: of two new users with it one is refused.
WriteInvite(p) ==
  /\ Ready(p, "invite")
  /\ Answer(p)
  /\ IF user.status = "none"
     THEN \E t \in NextLink, i \in NextInvitation :
            /\ user' = [status |-> "INVITED", password |-> NoLink]
            /\ invitation' = [invitation EXCEPT ![i] = Renewed(t)]
            /\ job' = [job EXCEPT ![t] = Queued(i)]
     ELSE UNCHANGED <<user, invitation, job>>
  /\ UNCHANGED <<worker, mailed, faults>>

\* The pending invitation gets a new link, or there is a new invitation; the
\* user is INVITED, without a password, whatever has happened since the reads.
WriteInviteAgain(p) ==
  /\ Ready(p, "inviteAgain")
  /\ Answer(p)
  /\ user' = [user EXCEPT !.status = IF @ = "DELETED" THEN @ ELSE "INVITED",
                          !.password = NoLink]
  /\ \E t \in NextLink :
       \/ LET i == request[p].invitation
          IN /\ i # 0
             /\ invitation' = [invitation EXCEPT ![i] = Renewed(t)]
             /\ job' = ReplacePending(i, t)
       \/ /\ request[p].invitation = 0
          /\ \E i \in NextInvitation :
               /\ invitation' = [invitation EXCEPT ![i] = Renewed(t)]
               /\ job' = [job EXCEPT ![t] = Queued(i)]
  /\ UNCHANGED <<worker, mailed, faults>>

-----------------------------------------------------------------------------
(* resend and cancel *)

Resend(p) ==
  \E i \in Invitations : Open(i) /\ Begin(p, "resend", "ready", i, NoLink)

\* The row is updated by its id alone.
WriteResend(p) ==
  /\ Ready(p, "resend")
  /\ \E t \in NextLink :
       LET i == request[p].invitation
       IN /\ invitation' = [invitation EXCEPT ![i] = Renewed(t)]
          /\ job' = ReplacePending(i, t)
  /\ Answer(p)
  /\ UNCHANGED <<user, worker, mailed, faults>>

Cancel(p) ==
  \E i \in Invitations : Open(i) /\ Begin(p, "cancel", "ready", i, NoLink)

\* Mutant of WriteCancel: the status is not a condition of the update.
WriteCancelAnyway(p) ==
  /\ Ready(p, "cancel")
  /\ Answer(p)
  /\ invitation' = [invitation EXCEPT ![request[p].invitation].status = "CANCELLED"]
  /\ job' = StopUnfinished(request[p].invitation)
  /\ UNCHANGED <<user, worker, mailed, faults>>

\* The update is conditional: an invitation accepted meanwhile stays accepted.
WriteCancel(p) ==
  LET i == request[p].invitation
  IN /\ Ready(p, "cancel")
     /\ Answer(p)
     /\ IF Pending(i)
        THEN /\ invitation' = [invitation EXCEPT ![i].status = "CANCELLED"]
             /\ job' = StopUnfinished(i)
        ELSE UNCHANGED <<invitation, job>>
     /\ UNCHANGED <<user, worker, mailed, faults>>

-----------------------------------------------------------------------------
(* activate *)

\* findActivatableInvitation: by the link, which must have reached a mailbox.
Activate(p) ==
  \E t \in mailed, i \in Invitations :
    /\ invitation[i].link = t
    /\ Open(i)
    /\ ~invitation[i].expired
    /\ Begin(p, "activate", "ready", i, t)

Activated(p) ==
  /\ invitation' = [invitation EXCEPT ![request[p].invitation].status = "ACCEPTED"]
  /\ user' = [status |-> "ACTIVE", password |-> request[p].link]

\* Mutants of WriteActivate: what was read before the password was hashed is
\* taken for granted; the two updates are not rolled back together.
WriteActivateUnchecked(p) ==
  /\ Ready(p, "activate")
  /\ Answer(p)
  /\ Activated(p)
  /\ UNCHANGED <<job, worker, mailed, faults>>

WriteActivateHalf(p) ==
  LET i == request[p].invitation
  IN /\ Ready(p, "activate")
     /\ Answer(p)
     /\ \/ Open(i) /\ Activated(p)
        \/ /\ Pending(i) /\ ~Open(i)
           /\ invitation' = [invitation EXCEPT ![i].status = "ACCEPTED"]
           /\ UNCHANGED user
        \/ ~Pending(i) /\ UNCHANGED <<user, invitation>>
     /\ UNCHANGED <<job, worker, mailed, faults>>

\* After the password has been hashed the invitation is read again by its id,
\* not by the link; the conditional updates repeat its conditions.
WriteActivate(p) ==
  LET i == request[p].invitation
  IN /\ Ready(p, "activate")
     /\ Answer(p)
     /\ IF Open(i) /\ ~invitation[i].expired
        THEN Activated(p)
        ELSE UNCHANGED <<user, invitation>>
     /\ UNCHANGED <<job, worker, mailed, faults>>

-----------------------------------------------------------------------------
(* Surroundings: time, and what else changes the status of the user *)

Expire(i) ==
  /\ Pending(i)
  /\ ~invitation[i].expired
  /\ invitation' = [invitation EXCEPT ![i].expired = TRUE]
  /\ UNCHANGED <<user, job, worker, mailed, faults, request>>

\* GoogleAuthService.sessionFor makes an INVITED user ACTIVE without looking at
\* the invitation; StudentsService.archive closes any account and
\* UsersService.changeMemberStatus closes or opens one that is not INVITED.
AccountMoves == {<<"INVITED", "ACTIVE">>, <<"INVITED", "CLOSED">>, <<"ACTIVE", "CLOSED">>,
                 <<"CLOSED", "ACTIVE">>, <<"ACTIVE", "DELETED">>}

AccountChange ==
  /\ \E m \in AccountMoves : /\ user.status = m[1]
                             /\ user' = [user EXCEPT !.status = m[2]]
  /\ UNCHANGED <<invitation, job, worker, mailed, faults, request>>

-----------------------------------------------------------------------------
Init ==
  /\ user = [status |-> "none", password |-> NoLink]
  /\ invitation = [i \in Invitations |-> NoInvitation]
  /\ job = [t \in Links |-> NoJob]
  /\ worker = [w \in Workers |-> Idle]
  /\ mailed = {}
  /\ faults = 0
  /\ request = [p \in Clients |-> NoRequest]

Read(p) == \/ Invite(p) \/ InviteAgain(p) \/ FindPending(p)
           \/ Resend(p) \/ Cancel(p)      \/ Activate(p)

Write(p) == \/ WriteInvite(p) \/ WriteInviteAgain(p) \/ WriteResend(p)
            \/ WriteCancel(p) \/ WriteActivate(p)

\* The process stops or the transaction is rolled back before it commits.
GiveUp(p) ==
  /\ request[p].at # "idle"
  /\ Answer(p)
  /\ UNCHANGED <<user, invitation, job, worker, mailed, faults>>

QueueStep(w) ==
  /\ Pump(w) \/ QueryFails(w) \/ Stop(w) \/ Start(w)
  /\ UNCHANGED request

Next ==
  \/ \E p \in Clients : Read(p) \/ Write(p) \/ GiveUp(p)
  \/ \E w \in Workers : QueueStep(w)
  \/ \E t \in Links : GrowOld(t) /\ UNCHANGED request
  \/ \E i \in Invitations : Expire(i)
  \/ AccountChange

Spec == Init /\ [][Next]_vars

\* A pump that runs works on (the poll timer wakes it), and a process that has
\* stopped is started again.  Two minutes always pass.
FairSpec ==
  /\ Spec
  /\ \A w \in Workers : WF_vars(Pump(w) /\ UNCHANGED request)
                        /\ WF_vars(Start(w) /\ UNCHANGED request)
  /\ \A t \in Links : WF_vars(GrowOld(t) /\ UNCHANGED request)

-----------------------------------------------------------------------------
\* Every variable holds a value of the kind its table or process can hold.
TypeOK ==
  /\ user \in [status: UserStatus, password: Links \cup {NoLink}]
  /\ invitation \in [Invitations -> InvitationRow]
  /\ job \in [Links -> JobRow]
  /\ worker \in [Workers -> Worker]
  /\ mailed \subseteq Links
  /\ faults \in 0 .. MaxFaults
  /\ request \in [Clients -> Request]
  /\ \A w \in Workers : worker[w].job = NoLink <=> worker[w].at \in {"down", "idle"}
  /\ \A t \in Links : job[t].status # "none" => job[t].invitation \in Invitations
  /\ \A p \in Clients : Ready(p, "resend") \/ Ready(p, "cancel") \/ Ready(p, "activate")
                          => request[p].invitation \in Invitations

\* Unless the address is invited again the link of an open invitation has a letter
\* that is waiting, on its way, sent or reported as failed: no race of resends,
\* cancellations, retries and restarts silently drops it.
CurrentLinkHasLetter ==
  "inviteAgain" \notin Ops => \A i \in Invitations :
    Open(i) => /\ job[invitation[i].link].invitation = i
               /\ job[invitation[i].link].status # "SUPERSEDED"

\* Cancelling and activating race for an invitation and one of them wins for good
\* (the comment on the conditional update in InvitationsService.cancel): after that
\* only a renewal that was decided on while it was open can still touch it.
SettledForGood ==
  [][\A i \in Invitations :
       invitation[i].status \in {"ACCEPTED", "CANCELLED"} /\ invitation'[i] # invitation[i]
         => \E p \in Clients : /\ Ready(p, "resend") \/ Ready(p, "inviteAgain")
                               /\ request[p].invitation = i
                               /\ request'[p] = NoRequest]_invitation

\* Unless the address is invited again an account is activated once: no second
\* request, with the same or a newer link, replaces the password.
ActivatedOnce ==
  [][("inviteAgain" \notin Ops /\ user.password # NoLink) =>
       user'.password = user.password]_user

\* Unless the address is invited again an accepted invitation has given its user
\* a password: the two conditional updates of activate succeed or fail together.
AcceptedHasPassword ==
  "inviteAgain" \notin Ops =>
    \A i \in Invitations : invitation[i].status = "ACCEPTED" => user.password # NoLink

\* If no process stops and no query fails, every letter is sent or given up.
EveryLetterSettles ==
  <>[](faults = 0 => \A t \in Links : job[t].status \notin Unfinished)
=============================================================================
