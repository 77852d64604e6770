------------------------------- MODULE Accounts -------------------------------
(***************************************************************************)
(* The account of a member, its sessions and its links: auth.service.ts,   *)
(* refresh-token.service.ts, password-reset.service.ts, google-auth.service *)
(* .ts, email-change.service.ts, users.service.ts, and the repeated        *)
(* invitation and the resending of invitations.service.ts.                 *)
(*                                                                         *)
(* A session is a family of refresh tokens; each is used once and replaced *)
(* by the next.  A change of the password, of the address, of the role and *)
(* the closing of an account are meant to end its sessions.  Nearly all of *)
(* this is done without a transaction: every query is a step, and a request *)
(* may be overtaken, or its process stop, between any two.                 *)
(*                                                                         *)
(* One account is modelled.  Passwords, the times in access tokens, expiry *)
(* and the cool-down between two letters are left out: time may always have *)
(* passed, and the right password may always be given.                     *)
(***************************************************************************)
EXTENDS Naturals

CONSTANTS
  Clients,     \* requests that may be in progress together
  Tokens,      \* refresh tokens
  Links,       \* links in letters, for a new password or a new address
  Invitations, \* rows of invitations of the user
  OtherRoles,  \* roles other than STUDENT that can be given to a member
  Ops,         \* what each client may request in this model
  None

OpNames == {"signIn", "refresh", "logout", "changePassword", "requestLink", "reset",
            "google", "confirm", "changeStatus", "changeRole", "deleteUser", "inviteAgain",
            "resend"}

\* Roles of members.  An owner has registered; no role of anybody becomes OWNER.
MemberRoles == {"STUDENT"} \cup OtherRoles

Roles == MemberRoles \cup {"OWNER"}

ASSUME AccountsAssumption ==
  /\ Ops \in [Clients -> SUBSET OpNames]
  /\ "OWNER" \notin OtherRoles
  /\ None \notin Tokens \cup Links \cup Invitations \cup Roles

VARIABLES
  account,     \* the row of users, and whether there is a row of students for it
  invitation,  \* rows of invitations
  token,       \* rows of refresh_tokens
  link,        \* rows of password_reset_tokens, email_change_tokens and
               \* oauth_authorizations
  request      \* the request each client is working on

vars == <<account, invitation, token, link, request>>

-----------------------------------------------------------------------------
(* Rows *)

\* DELETED stands for a row with deletedAt, whatever its status.
AccountStatus == {"INVITED", "ACTIVE", "BLOCKED", "ARCHIVED", "DELETED"}

\* address: the link that confirmed the address, or None for the first one.
Account == [status: AccountStatus, role: Roles, profile: BOOLEAN,
            address: Links \cup {None}]

\* A token that is both used and revoked is refused like a revoked one.
TokenRow == [state: {"none", "open", "used", "revoked"}, family: Tokens \cup {None}]

NoToken == [state |-> "none", family |-> None]

\* A google link is the way through Google that one authorization opens.
LinkKinds == {"reset", "address", "google"}

LinkRow == [kind: LinkKinds \cup {"none"}, open: BOOLEAN]

NoLink == [kind |-> "none", open |-> FALSE]

\* open: PENDING and never accepted; otherwise accepted or cancelled, or no row yet.
InvitationRow == [open: BOOLEAN, role: Roles \cup {None}]

NoInvitation == [open |-> FALSE, role |-> None]

OpenInvitations == {i \in Invitations : invitation[i].open}

Issued == {t \in Tokens : token[t].state # "none"}

Valid == {t \in Issued : token[t].state # "revoked"}

Family(t) == {u \in Issued : token[u].family = token[t].family}

OpenLinks(kind) == {l \in Links : link[l].kind = kind /\ link[l].open}

\* requireMember finds the row as long as it is not deleted, and never an owner's.
IsMember == account.status # "DELETED" /\ account.role # "OWNER"

\* A row of users keeps its deletedAt.
StatusSet(s) == IF account.status = "DELETED" THEN account.status ELSE s

Closed == {"BLOCKED", "ARCHIVED"}

MemberTransitions ==
  {<<"ACTIVE", "BLOCKED">>, <<"ACTIVE", "ARCHIVED">>, <<"BLOCKED", "ACTIVE">>,
   <<"BLOCKED", "ARCHIVED">>, <<"ARCHIVED", "ACTIVE">>}

\* assertStatusTransition; an unchanged status is not written at all.
MayBecome(s) == <<account.status, s>> \in MemberTransitions

-----------------------------------------------------------------------------
(* Requests *)

Stages == {"idle", "activate", "user", "use", "issue", "revoke", "find", "write",
           "mark", "create", "revokeAll", "answered"}

\* token, link, to: what the request names.  found: the invitation it has found.
\* status, role: the columns it has read.
\* old: the tokens there were at its write, kept for the properties only.
Request == [op: OpNames \cup {"none"}, stage: Stages, token: Tokens \cup {None},
            link: Links \cup {None}, found: Invitations \cup {None}, to: AccountStatus \cup Roles \cup LinkKinds \cup {None},
            status: AccountStatus \cup {None}, role: Roles \cup {None}, old: SUBSET Tokens]

NoRequest == [op |-> "none", stage |-> "idle", token |-> None, link |-> None,
              found |-> None, to |-> None, status |-> None, role |-> None, old |-> {}]

At(c, stage) == request[c].stage = stage

Put(c, r) == request' = [request EXCEPT ![c] = r]

GoTo(c, stage) == Put(c, [request[c] EXCEPT !.stage = stage])

Done(c) == Put(c, NoRequest)

\* What the request has read is not needed any more.
Owes(c, stage, old) == Put(c, [NoRequest EXCEPT !.stage = stage, !.old = old])

Begin(c, op, r) ==
  /\ At(c, "idle") /\ op \in Ops[c]
  /\ Put(c, [r EXCEPT !.op = op])
  /\ UNCHANGED <<account, invitation, token, link>>

\* assertSignInAllowed, assertActiveUser (AuthGuard).
SignInAllowed == account.status \in {"INVITED", "ACTIVE"}
IsActive == account.status = "ACTIVE"

\* A refused request changes nothing; the error of a query, or the end of the
\* process, leaves what the earlier queries have written.
GiveUp(c) ==
  /\ ~At(c, "idle")
  /\ Done(c)
  /\ UNCHANGED <<account, invitation, token, link>>

\* RefreshTokenService.revokeAllForUser, the last query of the requests that end
\* sessions.
RevokeAll(c) ==
  /\ At(c, "revokeAll")
  /\ token' = [t \in Tokens |-> IF t \in Issued THEN [token[t] EXCEPT !.state = "revoked"]
                                ELSE token[t]]
  /\ Owes(c, "answered", request[c].old)
  /\ UNCHANGED <<account, invitation, link>>

Reply(c) ==
  /\ At(c, "answered")
  /\ Done(c)
  /\ UNCHANGED <<account, invitation, token, link>>

\* The request goes on to RevokeAll, which it owes to the tokens of this moment.
EndSessions(c) == Owes(c, "revokeAll", Valid)

-----------------------------------------------------------------------------
(* login; GoogleAuthService; refresh; logout *)

SignIn(c) ==
  /\ SignInAllowed
  /\ Begin(c, "signIn",
           [NoRequest EXCEPT !.stage = IF IsActive THEN "issue" ELSE "activate"])

\* An INVITED user is made ACTIVE, by the id alone.
ActivateOnSignIn(c) ==
  /\ At(c, "activate")
  /\ account' = [account EXCEPT !.status = StatusSet("ACTIVE")]
  /\ GoTo(c, "issue")
  /\ UNCHANGED <<invitation, token, link>>

\* start of GoogleAuthService, by anybody.
RequestGoogle(c) ==
  Begin(c, "requestLink", [NoRequest EXCEPT !.to = "google", !.stage = "create"])

\* complete: Google has sent somebody back, and the authorization is read ...
Callback(c, l) ==
  /\ l \in OpenLinks("google")
  /\ Begin(c, "google", [NoRequest EXCEPT !.link = l, !.stage = "mark"])

\* ... and must be there still when it is deleted.
SpendAuthorization(c) ==
  /\ At(c, "mark") /\ request[c].op = "google"
  /\ request[c].link \in OpenLinks("google")
  /\ link' = [link EXCEPT ![request[c].link].open = FALSE]
  /\ GoTo(c, "user")
  /\ UNCHANGED <<account, invitation, token>>

\* sessionFromProfile, of whichever identity at Google the account is linked to.
SessionFromProfile(c) ==
  /\ At(c, "user") /\ request[c].op = "google"
  /\ SignInAllowed
  /\ GoTo(c, IF IsActive THEN "issue" ELSE "activate")
  /\ UNCHANGED <<account, invitation, token, link>>

\* RefreshTokenService.issue: the first token of a family, or the next.
Issue(c) ==
  /\ At(c, "issue")
  /\ \E t \in Tokens \ Issued :
       token' = [token EXCEPT ![t] =
                   [state |-> "open",
                    family |-> IF request[c].token = None THEN t
                               ELSE token[request[c].token].family]]
  /\ Done(c)
  /\ UNCHANGED <<account, invitation, link>>

\* Mutant of Refresh: usedAt is looked at, revokedAt is not.
RefreshRevoked(c, t) ==
  /\ t \in Issued
  /\ Begin(c, "refresh",
           [NoRequest EXCEPT !.token = t,
                             !.stage = IF token[t].state = "used" THEN "revoke" ELSE "user",
                             !.old = IF token[t].state = "used" THEN Valid \cap Family(t) ELSE {}])

\* rotate: a token that was used or revoked before ends its family.
Refresh(c, t) ==
  /\ t \in Issued
  /\ Begin(c, "refresh",
           [NoRequest EXCEPT !.token = t,
                             !.stage = IF token[t].state = "open" THEN "user" ELSE "revoke",
                             !.old = IF token[t].state = "open" THEN {}
                                     ELSE Valid \cap Family(t)])

RefreshUser(c) ==
  /\ At(c, "user") /\ request[c].op = "refresh"
  /\ IsActive
  /\ GoTo(c, "use")
  /\ UNCHANGED <<account, invitation, token, link>>

UseToken(c) ==
  /\ At(c, "use")
  /\ token' = [token EXCEPT ![request[c].token].state =
                 IF @ = "revoked" THEN @ ELSE "used"]
  /\ GoTo(c, "issue")
  /\ UNCHANGED <<account, invitation, link>>

Logout(c, t) ==
  /\ t \in Issued
  /\ Begin(c, "logout", [NoRequest EXCEPT !.token = t, !.stage = "revoke",
                                          !.old = Valid \cap Family(t)])

\* Mutant of RevokeFamily: only the token that was presented is revoked.
RevokePresented(c) ==
  /\ At(c, "revoke")
  /\ token' = [token EXCEPT ![request[c].token].state = "revoked"]
  /\ Owes(c, "answered", request[c].old)
  /\ UNCHANGED <<account, invitation, link>>

RevokeFamily(c) ==
  /\ At(c, "revoke")
  /\ token' = [t \in Tokens |-> IF t \in Family(request[c].token)
                                THEN [token[t] EXCEPT !.state = "revoked"]
                                ELSE token[t]]
  /\ Owes(c, "answered", request[c].old)
  /\ UNCHANGED <<account, invitation, link>>

-----------------------------------------------------------------------------
(* changePassword, requestPasswordReset, resetPassword *)

ChangePassword(c) ==
  /\ IsActive
  /\ Begin(c, "changePassword", [NoRequest EXCEPT !.stage = "write"])

WritePassword(c) ==
  /\ At(c, "write") /\ request[c].op = "changePassword"
  /\ EndSessions(c)
  /\ UNCHANGED <<account, invitation, token, link>>

\* requestPasswordReset, by whoever knows the address.
RequestReset(c) ==
  /\ account.status # "DELETED"
  /\ Begin(c, "requestLink", [NoRequest EXCEPT !.to = "reset", !.stage = "mark"])

\* requestEmailChange.
RequestAddress(c) ==
  /\ IsActive
  /\ Begin(c, "requestLink", [NoRequest EXCEPT !.to = "address", !.stage = "mark"])

\* updateMany: the links sent before are used.
SpendLinks(c) ==
  /\ At(c, "mark") /\ request[c].op = "requestLink"
  /\ link' = [l \in Links |-> IF l \in OpenLinks(request[c].to)
                              THEN [link[l] EXCEPT !.open = FALSE] ELSE link[l]]
  /\ GoTo(c, "create")
  /\ UNCHANGED <<account, invitation, token>>

\* The row and the letter.  Nobody has the link before the letter, and a letter
\* to a new address that cannot be sent takes the row with it.
SendLink(c) ==
  /\ At(c, "create")
  /\ \/ \E l \in Links : /\ link[l] = NoLink
                          /\ link' = [link EXCEPT ![l] = [kind |-> request[c].to, open |-> TRUE]]
     \/ request[c].to = "address" /\ UNCHANGED link
  /\ Done(c)
  /\ UNCHANGED <<account, invitation, token>>

ResetPassword(c, l) ==
  /\ l \in OpenLinks("reset")
  /\ Begin(c, "reset", [NoRequest EXCEPT !.link = l, !.stage = "user"])

ResetUser(c) ==
  /\ At(c, "user") /\ request[c].op = "reset"
  /\ Put(c, [request[c] EXCEPT !.stage = "write", !.status = account.status])
  /\ UNCHANGED <<account, invitation, token, link>>

\* The status is written back as it was read, an INVITED one as ACTIVE.
WriteReset(c) ==
  LET s == request[c].status IN
  /\ At(c, "write") /\ request[c].op = "reset"
  /\ account' = [account EXCEPT !.status = StatusSet(IF s = "INVITED" THEN "ACTIVE" ELSE s)]
  /\ Put(c, [request[c] EXCEPT !.stage = "mark", !.old = Valid])
  /\ UNCHANGED <<invitation, token, link>>

SpendReset(c) ==
  /\ At(c, "mark") /\ request[c].op = "reset"
  /\ link' = [link EXCEPT ![request[c].link].open = FALSE]
  /\ Owes(c, "revokeAll", request[c].old)
  /\ UNCHANGED <<account, invitation, token>>

-----------------------------------------------------------------------------
(* verifyEmailChange *)

Confirm(c, l) ==
  /\ IsActive
  /\ l \in OpenLinks("address")
  /\ Begin(c, "confirm", [NoRequest EXCEPT !.link = l, !.stage = "write"])

\* Mutant of AddressWritten: the other links are spent, the one in hand is not.
AddressWrittenOthersSpent(c) ==
  /\ account' = [account EXCEPT !.address = request[c].link]
  /\ link' = [l \in Links |-> IF link[l].kind = "address" /\ l # request[c].link
                              THEN [link[l] EXCEPT !.open = FALSE] ELSE link[l]]
  /\ EndSessions(c)
  /\ UNCHANGED <<invitation, token>>

AddressWritten(c) ==
  /\ account' = [account EXCEPT !.address = request[c].link]
  /\ link' = [l \in Links |-> IF link[l].kind = "address"
                              THEN [link[l] EXCEPT !.open = FALSE] ELSE link[l]]
  /\ EndSessions(c)
  /\ UNCHANGED <<invitation, token>>

\* Mutant of WriteAddress: what was read before the transaction is relied on.
WriteAddressUnchecked(c) ==
  /\ At(c, "write") /\ request[c].op = "confirm"
  /\ AddressWritten(c)

\* The transaction: the link is spent if it is still open, the address written,
\* and the other links of the user are spent with it.
WriteAddress(c) ==
  /\ At(c, "write") /\ request[c].op = "confirm"
  /\ request[c].link \in OpenLinks("address")
  /\ AddressWritten(c)

-----------------------------------------------------------------------------
(* changeMemberStatus, changeMemberRole, deleteUser *)

ChangeStatus(c, s) ==
  /\ IsMember
  /\ MayBecome(s)
  /\ Begin(c, "changeStatus", [NoRequest EXCEPT !.to = s, !.stage = "write"])

WriteStatus(c) ==
  LET s == request[c].to IN
  /\ At(c, "write") /\ request[c].op = "changeStatus"
  /\ account' = [account EXCEPT !.status = StatusSet(s)]
  /\ IF s \in Closed THEN EndSessions(c) ELSE Done(c)
  /\ UNCHANGED <<invitation, token, link>>

\* Groups, cars, lessons and history that forbid the change only refuse it.
ChangeRole(c, r) ==
  /\ IsMember
  /\ account.status \in {"INVITED", "ACTIVE"}
  /\ account.role # r
  /\ Begin(c, "changeRole", [NoRequest EXCEPT !.to = r, !.stage = "write",
                                              !.status = account.status,
                                              !.role = account.role])

\* Mutant of RoleUnchanged: the role is not compared.
RoleMayHaveChanged(c) == account.status = request[c].status

\* What was read still holds: updateMany with role, status and deletedAt.
RoleUnchanged(c) == account.role = request[c].role /\ account.status = request[c].status

\* The transaction: the role, the row of students, the pending invitation.
WriteRole(c) ==
  LET q == request[c] IN
  /\ At(c, "write") /\ q.op = "changeRole"
  /\ RoleUnchanged(c)
  /\ account' = [account EXCEPT
                   !.role = q.to,
                   !.profile = (@ /\ q.role # "STUDENT") \/ q.to = "STUDENT"]
  /\ invitation' = [i \in Invitations |->
                       IF i \in OpenInvitations /\ q.status = "INVITED"
                       THEN [invitation[i] EXCEPT !.role = q.to] ELSE invitation[i]]
  /\ IF q.status = "ACTIVE" THEN EndSessions(c) ELSE Done(c)
  /\ UNCHANGED <<token, link>>

DeleteUser(c) ==
  /\ IsActive
  /\ Begin(c, "deleteUser", [NoRequest EXCEPT !.stage = "write"])

WriteDeleted(c) ==
  /\ At(c, "write") /\ request[c].op = "deleteUser"
  /\ account' = [account EXCEPT !.status = "DELETED"]
  /\ Done(c)
  /\ UNCHANGED <<invitation, token, link>>

-----------------------------------------------------------------------------
(* createAndSendInvitation for an address that has been invited; resend *)

InviteAgain(c, r) ==
  /\ account.status = "INVITED"
  /\ Begin(c, "inviteAgain", [NoRequest EXCEPT !.to = r, !.stage = "find"])

FindInvitation(c) ==
  /\ At(c, "find")
  /\ \E i \in OpenInvitations \cup {None} :
       /\ i = None => OpenInvitations = {}
       /\ Put(c, [request[c] EXCEPT !.found = i, !.stage = "write"])
  /\ UNCHANGED <<account, invitation, token, link>>

\* ensureStudentProfile adds the row of a student and takes none away.
EnsureStudentProfile(role) == account.profile \/ role = "STUDENT"

\* The row that was found, whatever has become of it, or a new one.
InvitationToWrite(c) ==
  IF request[c].found # None THEN {request[c].found}
  ELSE {i \in Invitations : invitation[i] = NoInvitation}

\* The writes of the transaction: the user by the id alone, the students row, and
\* the invitation by its id alone.
WriteInviteAgain(c) ==
  LET r == request[c].to IN
  /\ At(c, "write") /\ request[c].op = "inviteAgain"
  /\ account' = [account EXCEPT !.role = r, !.status = StatusSet("INVITED"),
                                !.profile = EnsureStudentProfile(r)]
  /\ \E i \in InvitationToWrite(c) :
       invitation' = [invitation EXCEPT ![i] = [open |-> TRUE, role |-> r]]
  /\ Done(c)
  /\ UNCHANGED <<token, link>>

\* assertInvitationResendable, of an invitation read outside the transaction.
Resend(c, i) ==
  /\ i \in OpenInvitations /\ account.status = "INVITED"
  /\ Begin(c, "resend", [NoRequest EXCEPT !.found = i, !.stage = "write"])

\* The invitation is made PENDING by its id alone, and keeps the role it names.
WriteResend(c) ==
  /\ At(c, "write") /\ request[c].op = "resend"
  /\ invitation' = [invitation EXCEPT ![request[c].found].open = TRUE]
  /\ Done(c)
  /\ UNCHANGED <<account, token, link>>

-----------------------------------------------------------------------------
(* Surroundings: an invitation of the user is activated or cancelled *)

Activate(i) ==
  /\ account.status = "INVITED" /\ i \in OpenInvitations
  /\ account' = [account EXCEPT !.status = "ACTIVE"]
  /\ invitation' = [invitation EXCEPT ![i].open = FALSE]
  /\ UNCHANGED <<token, link, request>>

CancelInvitation(i) ==
  /\ i \in OpenInvitations
  /\ invitation' = [invitation EXCEPT ![i].open = FALSE]
  /\ UNCHANGED <<account, token, link, request>>

-----------------------------------------------------------------------------
\* createOwnerUser of AuthService, with the organization.
Registered ==
  /\ account = [status |-> "ACTIVE", role |-> "OWNER", profile |-> FALSE, address |-> None]
  /\ invitation = [i \in Invitations |-> NoInvitation]

Invited(i, r) ==
  /\ account = [status |-> "INVITED", role |-> r, profile |-> r = "STUDENT",
                address |-> None]
  /\ invitation = [j \in Invitations |-> IF j = i THEN [open |-> TRUE, role |-> r]
                                         ELSE NoInvitation]

Init ==
  /\ Registered \/ \E i \in Invitations, r \in MemberRoles : Invited(i, r)
  /\ token = [t \in Tokens |-> NoToken]
  /\ link = [l \in Links |-> NoLink]
  /\ request = [c \in Clients |-> NoRequest]

Session(c) ==
  \/ SignIn(c) \/ ActivateOnSignIn(c) \/ Issue(c)
  \/ RequestGoogle(c) \/ SpendAuthorization(c) \/ SessionFromProfile(c)
  \/ \E l \in Links : Callback(c, l)
  \/ RefreshUser(c) \/ UseToken(c) \/ RevokeFamily(c)
  \/ \E t \in Tokens : Refresh(c, t) \/ Logout(c, t)

Owner(c) ==
  \/ ChangePassword(c) \/ WritePassword(c)
  \/ RequestReset(c) \/ RequestAddress(c) \/ SpendLinks(c) \/ SendLink(c)
  \/ ResetUser(c) \/ WriteReset(c) \/ SpendReset(c) \/ WriteAddress(c)
  \/ \E l \in Links : ResetPassword(c, l) \/ Confirm(c, l)
  \/ DeleteUser(c) \/ WriteDeleted(c)

Administrator(c) ==
  \/ WriteStatus(c) \/ WriteRole(c)
  \/ FindInvitation(c) \/ WriteInviteAgain(c) \/ WriteResend(c)
  \/ \E i \in Invitations : Resend(c, i)
  \/ \E s \in AccountStatus : ChangeStatus(c, s)
  \/ \E r \in MemberRoles : ChangeRole(c, r) \/ InviteAgain(c, r)

Next ==
  \/ \E c \in Clients : \/ Session(c) \/ Owner(c) \/ Administrator(c)
                        \/ RevokeAll(c) \/ Reply(c) \/ GiveUp(c)
  \/ \E i \in Invitations : Activate(i) \/ CancelInvitation(i)

Spec == Init /\ [][Next]_vars

-----------------------------------------------------------------------------
(* Properties *)

TypeOK ==
  /\ account \in Account
  /\ invitation \in [Invitations -> InvitationRow]
  /\ token \in [Tokens -> TokenRow]
  /\ link \in [Links -> LinkRow]
  /\ request \in [Clients -> Request]
  /\ \A t \in Issued : token[t].family \in Issued
  /\ account.address # None => link[account.address] = [kind |-> "address", open |-> FALSE]

\* When a request that ends sessions is answered, none of the refresh tokens
\* there were when it changed the account is left, whatever signed in, was
\* refreshed or signed out meanwhile (revokeAllForUser, revokeFamily).
SignedOut ==
  \A c \in Clients : At(c, "answered") =>
    \A t \in request[c].old : token[t].state = "revoked"

\* A refresh of the family that has found its token in order.
Refreshing(f) ==
  \E c \in Clients : /\ request[c].op = "refresh"
                     /\ request[c].stage \in {"user", "use", "issue"}
                     /\ token[request[c].token].family = f

Over(f) ==
  /\ token[f].state # "none"
  /\ \A t \in Family(f) : token[t].state # "open"
  /\ ~Refreshing(token[f].family)

\* A session that is over stays over: neither a used token nor a revoked one
\* opens it again, and only a refresh that was under way when the tokens were
\* revoked could (rotate).
SessionStaysOver == [][\A f \in Tokens : Over(f) => Over(f)']_<<token, request>>

\* The role agrees with what depends on it.
RoleAgrees ==
  /\ account.profile <=> account.role = "STUDENT"
  /\ account.status = "INVITED" =>
       \A i \in OpenInvitations : invitation[i].role = account.role

\* The write of this repeated invitation can part the role from the rest: it leaves
\* the row of a student who is to be something else, or another open invitation.
InvitesOverOldRole(c) ==
  /\ request[c].op = "inviteAgain" /\ At(c, "write")
  /\ \/ account.role = "STUDENT" /\ request[c].to # "STUDENT"
     \/ OpenInvitations \ {request[c].found} # {}

\* The write of this resend opens an invitation that was cancelled or used meanwhile.
ReopensClosed(c) ==
  /\ request[c].op = "resend" /\ At(c, "write")
  /\ request[c].found \notin OpenInvitations

\* A student always has a row of students, and no change of the role, activation,
\* cancellation or sign-in, however they meet, parts the role of a member from the
\* row of students or from the invitations that are open: only two writes by an id
\* do, a repeated invitation over the old role (createAndSendInvitation) and a
\* resend that comes too late (resend).
RoleLostOnlyByInvitation ==
  [][/\ account'.role = "STUDENT" => account'.profile
     /\ RoleAgrees /\ ~RoleAgrees' =>
          \E c \in Clients : /\ request'[c] # request[c]
                             /\ InvitesOverOldRole(c) \/ ReopensClosed(c)
    ]_<<account, invitation>>

\* A link changes the address once, and when it does no other link that was sent
\* is left, although its conditions were first read outside the transaction.
LinkChangesAddressOnce ==
  [][account'.address # account.address =>
       /\ link[account'.address].open
       /\ \A l \in Links : link'[l].kind = "address" => ~link'[l].open]_account
=============================================================================
