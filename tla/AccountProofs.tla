----------------------------- MODULE AccountProofs -----------------------------
(***************************************************************************)
(* What holds of Accounts for every number of requests, refresh tokens,    *)
(* links and roles, whatever each client may request.                      *)
(*                                                                         *)
(* The argument is about what a request that is stopped between two of its *)
(* queries may still rely on: Sound says it of a request and a table of    *)
(* tokens, and what the other requests do to the tokens (Grows) keeps it.  *)
(***************************************************************************)
EXTENDS Accounts, TLAPS

IssuedIn(tok) == {t \in Tokens : tok[t].state # "none"}

\* Tokens are only added; they keep their family, and a revoked one stays revoked.
Grows(old, new) ==
  \A t \in IssuedIn(old) :
    /\ new[t].state # "none"
    /\ new[t].family = old[t].family
    /\ old[t].state = "revoked" => new[t].state = "revoked"

RefreshStages == {"user", "use", "issue"}

\* A request about a token names a token that has been issued; the tokens it is to
\* revoke are issued, and at the end they are revoked.
SoundTokens(r, tok) ==
  /\ r.op = "refresh" /\ r.stage \in RefreshStages => r.token \in IssuedIn(tok)
  /\ r.stage = "activate" => r.op # "refresh" /\ r.token = None
  /\ r.op = "google" => r.token = None
  /\ r.stage = "use" => r.op = "refresh"
  /\ r.stage = "issue" => r.op = "refresh" \/ r.token = None
  /\ r.stage = "revoke" => r.token \in IssuedIn(tok)
  /\ r.stage = "revoke" => \A t \in r.old : tok[t].family = tok[r.token].family
  /\ r.old \subseteq IssuedIn(tok)
  /\ r.stage = "answered" => \A t \in r.old : tok[t].state = "revoked"

\* A request that is to write has read what it writes.
SoundFields(r) ==
  /\ r.op = "requestLink" => r.to \in LinkKinds
  /\ r.stage = "create" => r.op = "requestLink"
  /\ r.op = "reset" => r.link \in Links
  /\ r.op = "reset" /\ r.stage = "write" => r.status \in AccountStatus
  /\ r.op = "changeStatus" => r.to \in AccountStatus \ {"INVITED", "DELETED"}
  /\ r.op = "changeRole" => r.to \in Roles
  /\ r.op = "google" => r.link \in Links
  /\ r.stage = "find" => r.op = "inviteAgain"
  /\ r.op = "inviteAgain" => r.to \in Roles
  /\ r.op = "resend" => r.found \in Invitations

Sound(r, tok) == SoundTokens(r, tok) /\ SoundFields(r)

TokenInv ==
  /\ token \in [Tokens -> TokenRow]
  /\ \A t \in Issued : token[t].family \in Issued

RequestInv ==
  /\ request \in [Clients -> Request]
  /\ \A c \in Clients : Sound(request[c], token)

RowInv ==
  /\ account \in Account
  /\ invitation \in [Invitations -> InvitationRow]
  /\ link \in [Links -> LinkRow]
  /\ account.address # None => link[account.address] = [kind |-> "address", open |-> FALSE]
  /\ account.role = "STUDENT" => account.profile

IInv == TokenInv /\ RequestInv /\ RowInv

-----------------------------------------------------------------------------
(* Tokens *)

LEMMA SoundKept ==
  ASSUME NEW old, NEW new, Grows(old, new), NEW r, Sound(r, old)
  PROVE  Sound(r, new)
<1>1. IssuedIn(old) \subseteq IssuedIn(new)
  BY DEF Grows, IssuedIn
<1>. QED
  BY <1>1 DEF Grows, Sound, SoundTokens

LEMMA GrowsRefl ==
  ASSUME NEW old
  PROVE  Grows(old, old)
BY DEF Grows, IssuedIn

\* What the request of a client becomes.
LEMMA RequestPut ==
  ASSUME RequestInv, Grows(token, token'), NEW c \in Clients, NEW r \in Request,
         Put(c, r), Sound(r, token')
  PROVE  RequestInv'
<1>1. /\ request' \in [Clients -> Request] /\ request'[c] = r
      /\ \A d \in Clients \ {c} : request'[d] = request[d]
  BY DEF RequestInv, Put
<1>2. \A d \in Clients : Sound(request[d], token')
  BY SoundKept DEF RequestInv
<1>3. \A d \in Clients : Sound(request'[d], token')
  BY <1>1, <1>2
<1>. QED
  BY <1>1, <1>3 DEF RequestInv

\* A request that ends, or that only has tokens left to revoke.
LEMMA OwesSound ==
  ASSUME NEW tok, NEW stage \in {"revokeAll", "answered"}, NEW old \in SUBSET Tokens,
         old \subseteq IssuedIn(tok),
         stage = "answered" => \A t \in old : tok[t].state = "revoked"
  PROVE  LET r == [NoRequest EXCEPT !.stage = stage, !.old = old]
         IN r \in Request /\ Sound(r, tok)
BY DEF NoRequest, Request, Stages, Sound, SoundTokens, SoundFields, RefreshStages

LEMMA DoneSound ==
  ASSUME NEW tok
  PROVE  NoRequest \in Request /\ Sound(NoRequest, tok)
BY DEF NoRequest, Request, Stages, Sound, SoundTokens, SoundFields, RefreshStages

LEMMA StepRequests ==
  ASSUME RequestInv, Grows(token, token'), NEW c \in Clients, Done(c)
  PROVE  RequestInv'
BY RequestPut, DoneSound DEF Done

\* The tokens there are are revoked, all of them or those of a family.
LEMMA RevokeTokens ==
  ASSUME TokenInv, NEW S \in SUBSET Issued,
         token' = [t \in Tokens |-> IF t \in S THEN [token[t] EXCEPT !.state = "revoked"]
                                    ELSE token[t]]
  PROVE  /\ TokenInv' /\ Grows(token, token')
         /\ \A t \in S : token'[t].state = "revoked"
<1>1. \A t \in Tokens : token[t] \in TokenRow /\ t \in S => token[t].state # "none"
  BY DEF TokenInv, Issued
<1>2. \A t \in Tokens :
        /\ token'[t] \in TokenRow /\ token'[t].family = token[t].family
        /\ IF t \in S THEN token'[t].state = "revoked" ELSE token'[t] = token[t]
  BY DEF TokenInv, TokenRow
<1>3. token' \in [Tokens -> TokenRow]
  BY <1>2
<1>4. Grows(token, token')
  BY <1>2 DEF Grows, IssuedIn
<1>5. \A t \in Tokens : token'[t].state = "none" <=> token[t].state = "none"
  <2>. TAKE t \in Tokens
  <2>1. t \in S => token[t].state # "none"
    BY DEF Issued
  <2>. QED
    BY <1>2, <2>1
<1>6. Issued' = Issued
  BY <1>5 DEF Issued
<1>. QED
  BY <1>2, <1>3, <1>4, <1>6 DEF TokenInv, Issued

LEMMA TokenSteps ==
  ASSUME TokenInv, RequestInv, NEW c \in Clients
  PROVE  /\ UseToken(c) => TokenInv' /\ Grows(token, token')
         /\ Issue(c) => TokenInv' /\ Grows(token, token')
<1>1. ASSUME UseToken(c)
      PROVE  TokenInv' /\ Grows(token, token')
  <2>. DEFINE k == request[c].token
  <2>1. k \in Issued /\ k \in Tokens
    BY <1>1 DEF UseToken, At, RequestInv, Sound, SoundTokens, RefreshStages, IssuedIn, Issued
  <2>2. token' = [token EXCEPT ![k].state = IF @ = "revoked" THEN @ ELSE "used"]
    BY <1>1 DEF UseToken
  <2>. HIDE DEF k
  <2>3. /\ \A t \in Tokens \ {k} : token'[t] = token[t]
        /\ token' \in [Tokens -> TokenRow] /\ token'[k].family = token[k].family
        /\ token'[k].state = IF token[k].state = "revoked" THEN "revoked" ELSE "used"
    BY <2>1, <2>2 DEF TokenInv, TokenRow
  <2>4. Issued' = Issued
    BY <2>1, <2>3 DEF Issued
  <2>. QED
    BY <2>1, <2>3, <2>4 DEF TokenInv, Grows, IssuedIn, Issued
<1>2. ASSUME Issue(c)
      PROVE  TokenInv' /\ Grows(token, token')
  <2>1. PICK t \in Tokens \ Issued :
          token' = [token EXCEPT ![t] =
                      [state |-> "open",
                       family |-> IF request[c].token = None THEN t
                                  ELSE token[request[c].token].family]]
    BY <1>2 DEF Issue
  <2>. DEFINE f == IF request[c].token = None THEN t ELSE token[request[c].token].family
  <2>2. f \in Issued \cup {t}
    BY <1>2 DEF Issue, At, RequestInv, Sound, SoundTokens, RefreshStages, IssuedIn, Issued,
                TokenInv
  <2>3. token' = [token EXCEPT ![t] = [state |-> "open", family |-> f]]
    BY <2>1
  <2>. HIDE DEF f
  <2>4. /\ \A u \in Tokens \ {t} : token'[u] = token[u]
        /\ token'[t].state = "open" /\ token'[t].family = f
        /\ token' \in [Tokens -> TokenRow]
    BY <2>2, <2>3 DEF TokenInv, TokenRow, Issued
  <2>5. Issued' = Issued \cup {t}
    BY <2>4 DEF Issued
  <2>6. \A u \in Issued' : token'[u].family \in Issued'
    BY <2>2, <2>4, <2>5 DEF TokenInv, Issued
  <2>7. Grows(token, token')
    BY <2>4 DEF Grows, IssuedIn, Issued
  <2>. QED
    BY <2>4, <2>6, <2>7 DEF TokenInv
<1>. QED
  BY <1>1, <1>2

-----------------------------------------------------------------------------
(* Steps of a request *)

\* The first step of a request.
LEMMA BeginRequest ==
  ASSUME RequestInv, NEW c \in Clients, NEW op \in OpNames, NEW r,
         [r EXCEPT !.op = op] \in Request, Sound([r EXCEPT !.op = op], token),
         Begin(c, op, r)
  PROVE  RequestInv' /\ UNCHANGED <<account, invitation, token, link>>
<1>. DEFINE q == [r EXCEPT !.op = op]
<1>1. q \in Request /\ Sound(q, token) /\ Put(c, q) /\ UNCHANGED token
  BY DEF Begin
<1>. HIDE DEF q
<1>2. Grows(token, token') /\ Sound(q, token')
  BY <1>1, GrowsRefl
<1>. QED
  BY <1>1, <1>2, RequestPut DEF Begin

\* The requests of a user that name nothing.
LEMMA PlainBegins ==
  ASSUME RequestInv, NEW c \in Clients,
         \/ SignIn(c) \/ ChangePassword(c) \/ RequestReset(c) \/ RequestAddress(c)
         \/ DeleteUser(c) \/ RequestGoogle(c)
  PROVE  RequestInv' /\ UNCHANGED <<account, invitation, token, link>>
<1>1. CASE SignIn(c)
  <2>. DEFINE r == [NoRequest EXCEPT !.stage = IF IsActive THEN "issue" ELSE "activate"]
  <2>1. [r EXCEPT !.op = "signIn"] \in Request
    BY DEF NoRequest, Request, Stages, OpNames
  <2>2. Sound([r EXCEPT !.op = "signIn"], token)
    BY DEF NoRequest, Request, Sound, SoundTokens, SoundFields, RefreshStages
  <2>3. Begin(c, "signIn", r)
    BY <1>1 DEF SignIn
  <2>4. "signIn" \in OpNames
    BY DEF OpNames
  <2>. HIDE DEF r
  <2>. QED
    BY <2>1, <2>2, <2>3, <2>4, BeginRequest
<1>2. CASE ChangePassword(c)
  <2>. DEFINE r == [NoRequest EXCEPT !.stage = "write"]
  <2>1. [r EXCEPT !.op = "changePassword"] \in Request
    BY DEF NoRequest, Request, Stages, OpNames
  <2>2. Sound([r EXCEPT !.op = "changePassword"], token)
    BY DEF NoRequest, Request, Sound, SoundTokens, SoundFields, RefreshStages
  <2>3. Begin(c, "changePassword", r)
    BY <1>2 DEF ChangePassword
  <2>4. "changePassword" \in OpNames
    BY DEF OpNames
  <2>. HIDE DEF r
  <2>. QED
    BY <2>1, <2>2, <2>3, <2>4, BeginRequest
<1>3. CASE RequestReset(c)
  <2>. DEFINE r == [NoRequest EXCEPT !.to = "reset", !.stage = "mark"]
  <2>1. [r EXCEPT !.op = "requestLink"] \in Request
    BY DEF NoRequest, Request, Stages, OpNames, LinkKinds
  <2>2. Sound([r EXCEPT !.op = "requestLink"], token)
    BY DEF NoRequest, Request, Sound, SoundTokens, SoundFields, RefreshStages, LinkKinds
  <2>3. Begin(c, "requestLink", r)
    BY <1>3 DEF RequestReset
  <2>4. "requestLink" \in OpNames
    BY DEF OpNames
  <2>. HIDE DEF r
  <2>. QED
    BY <2>1, <2>2, <2>3, <2>4, BeginRequest
<1>4. CASE RequestAddress(c)
  <2>. DEFINE r == [NoRequest EXCEPT !.to = "address", !.stage = "mark"]
  <2>1. [r EXCEPT !.op = "requestLink"] \in Request
    BY DEF NoRequest, Request, Stages, OpNames, LinkKinds
  <2>2. Sound([r EXCEPT !.op = "requestLink"], token)
    BY DEF NoRequest, Request, Sound, SoundTokens, SoundFields, RefreshStages, LinkKinds
  <2>3. Begin(c, "requestLink", r)
    BY <1>4 DEF RequestAddress
  <2>4. "requestLink" \in OpNames
    BY DEF OpNames
  <2>. HIDE DEF r
  <2>. QED
    BY <2>1, <2>2, <2>3, <2>4, BeginRequest
<1>5. CASE DeleteUser(c)
  <2>. DEFINE r == [NoRequest EXCEPT !.stage = "write"]
  <2>1. [r EXCEPT !.op = "deleteUser"] \in Request
    BY DEF NoRequest, Request, Stages, OpNames
  <2>2. Sound([r EXCEPT !.op = "deleteUser"], token)
    BY DEF NoRequest, Request, Sound, SoundTokens, SoundFields, RefreshStages
  <2>3. Begin(c, "deleteUser", r)
    BY <1>5 DEF DeleteUser
  <2>4. "deleteUser" \in OpNames
    BY DEF OpNames
  <2>. HIDE DEF r
  <2>. QED
    BY <2>1, <2>2, <2>3, <2>4, BeginRequest
<1>6. CASE RequestGoogle(c)
  <2>. DEFINE r == [NoRequest EXCEPT !.to = "google", !.stage = "create"]
  <2>1. [r EXCEPT !.op = "requestLink"] \in Request
    BY DEF NoRequest, Request, Stages, OpNames, LinkKinds
  <2>2. Sound([r EXCEPT !.op = "requestLink"], token)
    BY DEF NoRequest, Request, Sound, SoundTokens, SoundFields, RefreshStages, LinkKinds
  <2>3. Begin(c, "requestLink", r)
    BY <1>6 DEF RequestGoogle
  <2>4. "requestLink" \in OpNames
    BY DEF OpNames
  <2>. HIDE DEF r
  <2>. QED
    BY <2>1, <2>2, <2>3, <2>4, BeginRequest
<1>. QED
  BY <1>1, <1>2, <1>3, <1>4, <1>5, <1>6

\* The requests that name a link, a status, a role or an invitation.
LEMMA NamingBegins ==
  ASSUME RequestInv, RowInv, NEW c \in Clients,
         \/ \E l \in Links : ResetPassword(c, l) \/ Confirm(c, l) \/ Callback(c, l)
         \/ \E s \in AccountStatus : ChangeStatus(c, s)
         \/ \E r \in MemberRoles : ChangeRole(c, r) \/ InviteAgain(c, r)
         \/ \E i \in Invitations : Resend(c, i)
  PROVE  RequestInv' /\ UNCHANGED <<account, invitation, token, link>>
<1>1. ASSUME NEW l \in Links, ResetPassword(c, l)
      PROVE  RequestInv' /\ UNCHANGED <<account, invitation, token, link>>
  <2>. DEFINE r == [NoRequest EXCEPT !.link = l, !.stage = "user"]
  <2>1. [r EXCEPT !.op = "reset"] \in Request
    BY DEF NoRequest, Request, Stages, OpNames
  <2>2. Sound([r EXCEPT !.op = "reset"], token)
    BY DEF NoRequest, Request, Sound, SoundTokens, SoundFields, RefreshStages
  <2>3. Begin(c, "reset", r)
    BY <1>1 DEF ResetPassword
  <2>4. "reset" \in OpNames
    BY DEF OpNames
  <2>. HIDE DEF r
  <2>. QED
    BY <2>1, <2>2, <2>3, <2>4, BeginRequest
<1>2. ASSUME NEW l \in Links, Confirm(c, l)
      PROVE  RequestInv' /\ UNCHANGED <<account, invitation, token, link>>
  <2>. DEFINE r == [NoRequest EXCEPT !.link = l, !.stage = "write"]
  <2>1. [r EXCEPT !.op = "confirm"] \in Request
    BY DEF NoRequest, Request, Stages, OpNames
  <2>2. Sound([r EXCEPT !.op = "confirm"], token)
    BY DEF NoRequest, Request, Sound, SoundTokens, SoundFields, RefreshStages
  <2>3. Begin(c, "confirm", r)
    BY <1>2 DEF Confirm
  <2>4. "confirm" \in OpNames
    BY DEF OpNames
  <2>. HIDE DEF r
  <2>. QED
    BY <2>1, <2>2, <2>3, <2>4, BeginRequest
<1>3. ASSUME NEW s \in AccountStatus, ChangeStatus(c, s)
      PROVE  RequestInv' /\ UNCHANGED <<account, invitation, token, link>>
  <2>. DEFINE r == [NoRequest EXCEPT !.to = s, !.stage = "write"]
  <2>5. s \in AccountStatus /\ s \notin {"INVITED", "DELETED"}
    BY <1>3 DEF ChangeStatus, MayBecome, MemberTransitions
  <2>1. [r EXCEPT !.op = "changeStatus"] \in Request
    BY <2>5 DEF NoRequest, Request, Stages, OpNames
  <2>2. Sound([r EXCEPT !.op = "changeStatus"], token)
    BY <2>5 DEF NoRequest, Request, Sound, SoundTokens, SoundFields, RefreshStages
  <2>3. Begin(c, "changeStatus", r)
    BY <1>3 DEF ChangeStatus
  <2>4. "changeStatus" \in OpNames
    BY DEF OpNames
  <2>. HIDE DEF r
  <2>. QED
    BY <2>1, <2>2, <2>3, <2>4, BeginRequest
<1>4. ASSUME NEW role \in MemberRoles, ChangeRole(c, role)
      PROVE  RequestInv' /\ UNCHANGED <<account, invitation, token, link>>
  <2>. DEFINE r == [NoRequest EXCEPT !.to = role, !.stage = "write",
                                    !.status = account.status, !.role = account.role]
  <2>5. account.status \in AccountStatus /\ account.role \in Roles /\ role \in Roles
    BY DEF RowInv, Account, Roles
  <2>1. [r EXCEPT !.op = "changeRole"] \in Request
    BY <2>5 DEF NoRequest, Request, Stages, OpNames
  <2>2. Sound([r EXCEPT !.op = "changeRole"], token)
    BY <2>5 DEF NoRequest, Request, Sound, SoundTokens, SoundFields, RefreshStages
  <2>3. Begin(c, "changeRole", r)
    BY <1>4 DEF ChangeRole
  <2>4. "changeRole" \in OpNames
    BY DEF OpNames
  <2>. HIDE DEF r
  <2>. QED
    BY <2>1, <2>2, <2>3, <2>4, BeginRequest
<1>5. ASSUME NEW l \in Links, Callback(c, l)
      PROVE  RequestInv' /\ UNCHANGED <<account, invitation, token, link>>
  <2>. DEFINE r == [NoRequest EXCEPT !.link = l, !.stage = "mark"]
  <2>1. [r EXCEPT !.op = "google"] \in Request
    BY DEF NoRequest, Request, Stages, OpNames, LinkKinds
  <2>2. Sound([r EXCEPT !.op = "google"], token)
    BY DEF NoRequest, Request, Sound, SoundTokens, SoundFields, RefreshStages, LinkKinds
  <2>3. Begin(c, "google", r)
    BY <1>5 DEF Callback
  <2>4. "google" \in OpNames
    BY DEF OpNames
  <2>. HIDE DEF r
  <2>. QED
    BY <2>1, <2>2, <2>3, <2>4, BeginRequest
<1>6. ASSUME NEW role \in MemberRoles, InviteAgain(c, role)
      PROVE  RequestInv' /\ UNCHANGED <<account, invitation, token, link>>
  <2>. DEFINE r == [NoRequest EXCEPT !.to = role, !.stage = "find"]
  <2>5. role \in Roles
    BY DEF Roles
  <2>1. [r EXCEPT !.op = "inviteAgain"] \in Request
    BY <2>5 DEF NoRequest, Request, Stages, OpNames, LinkKinds
  <2>2. Sound([r EXCEPT !.op = "inviteAgain"], token)
    BY <2>5 DEF NoRequest, Request, Sound, SoundTokens, SoundFields, RefreshStages, LinkKinds
  <2>3. Begin(c, "inviteAgain", r)
    BY <1>6 DEF InviteAgain
  <2>4. "inviteAgain" \in OpNames
    BY DEF OpNames
  <2>. HIDE DEF r
  <2>. QED
    BY <2>1, <2>2, <2>3, <2>4, BeginRequest
<1>7. ASSUME NEW i \in Invitations, Resend(c, i)
      PROVE  RequestInv' /\ UNCHANGED <<account, invitation, token, link>>
  <2>. DEFINE r == [NoRequest EXCEPT !.found = i, !.stage = "write"]
  <2>1. [r EXCEPT !.op = "resend"] \in Request
    BY DEF NoRequest, Request, Stages, OpNames, LinkKinds
  <2>2. Sound([r EXCEPT !.op = "resend"], token)
    BY DEF NoRequest, Request, Sound, SoundTokens, SoundFields, RefreshStages, LinkKinds
  <2>3. Begin(c, "resend", r)
    BY <1>7 DEF Resend
  <2>4. "resend" \in OpNames
    BY DEF OpNames
  <2>. HIDE DEF r
  <2>. QED
    BY <2>1, <2>2, <2>3, <2>4, BeginRequest
<1>. QED
  BY <1>1, <1>2, <1>3, <1>4, <1>5, <1>6, <1>7

\* The requests that present a token.
LEMMA TokenBegins ==
  ASSUME RequestInv, TokenInv, NEW c \in Clients, NEW t \in Tokens,
         Refresh(c, t) \/ Logout(c, t)
  PROVE  RequestInv' /\ UNCHANGED <<account, invitation, token, link>>
<1>0. /\ t \in Issued /\ t \in IssuedIn(token)
      /\ Valid \cap Family(t) \in SUBSET Tokens
      /\ Valid \cap Family(t) \subseteq IssuedIn(token)
      /\ \A u \in Valid \cap Family(t) : token[u].family = token[t].family
  BY DEF Refresh, Logout, Issued, IssuedIn, Valid, Family
<1>1. CASE Refresh(c, t)
  <2>. DEFINE r == [NoRequest EXCEPT
                     !.token = t,
                     !.stage = IF token[t].state = "open" THEN "user" ELSE "revoke",
                     !.old = IF token[t].state = "open" THEN {} ELSE Valid \cap Family(t)]
  <2>1. [r EXCEPT !.op = "refresh"] \in Request
    BY <1>0 DEF NoRequest, Request, Stages, OpNames
  <2>2. Sound([r EXCEPT !.op = "refresh"], token)
    BY <1>0 DEF NoRequest, Request, Sound, SoundTokens, SoundFields, RefreshStages
  <2>3. Begin(c, "refresh", r)
    BY <1>1 DEF Refresh
  <2>4. "refresh" \in OpNames
    BY DEF OpNames
  <2>. HIDE DEF r
  <2>. QED
    BY <2>1, <2>2, <2>3, <2>4, BeginRequest
<1>2. CASE Logout(c, t)
  <2>. DEFINE r == [NoRequest EXCEPT !.token = t, !.stage = "revoke",
                                    !.old = Valid \cap Family(t)]
  <2>1. [r EXCEPT !.op = "logout"] \in Request
    BY <1>0 DEF NoRequest, Request, Stages, OpNames
  <2>2. Sound([r EXCEPT !.op = "logout"], token)
    BY <1>0 DEF NoRequest, Request, Sound, SoundTokens, SoundFields, RefreshStages
  <2>3. Begin(c, "logout", r)
    BY <1>2 DEF Logout
  <2>4. "logout" \in OpNames
    BY DEF OpNames
  <2>. HIDE DEF r
  <2>. QED
    BY <2>1, <2>2, <2>3, <2>4, BeginRequest
<1>. QED
  BY <1>1, <1>2

\* The steps of a request that leave the tokens alone and go on.
LEMMA GoOnRequests ==
  ASSUME RequestInv, RowInv, NEW c \in Clients,
         \/ RefreshUser(c) \/ ActivateOnSignIn(c) \/ ResetUser(c) \/ WriteReset(c)
         \/ SpendLinks(c) \/ SpendAuthorization(c) \/ SessionFromProfile(c)
         \/ FindInvitation(c)
  PROVE  RequestInv' /\ UNCHANGED token
<1>0. request[c] \in Request /\ Sound(request[c], token)
  BY DEF RequestInv
<1>1. CASE RefreshUser(c)
  <2>. DEFINE r == [request[c] EXCEPT !.stage = "use"]
  <2>1. r \in Request
    BY <1>0, <1>1 DEF RefreshUser, At, Request, Stages
  <2>2. Sound(r, token)
    BY <1>0, <1>1 DEF RefreshUser, At, Request, Sound, SoundTokens, SoundFields, RefreshStages
  <2>3. Put(c, r) /\ UNCHANGED token
    BY <1>1 DEF RefreshUser, GoTo
  <2>. HIDE DEF r
  <2>4. Grows(token, token') /\ Sound(r, token')
    BY <2>2, <2>3, GrowsRefl
  <2>5. RequestInv'
    BY <2>1, <2>3, <2>4, RequestPut
  <2>. QED
    BY <2>3, <2>5
<1>2. CASE ActivateOnSignIn(c)
  <2>. DEFINE r == [request[c] EXCEPT !.stage = "issue"]
  <2>1. r \in Request
    BY <1>0, <1>2 DEF ActivateOnSignIn, At, Request, Stages
  <2>2. Sound(r, token)
    BY <1>0, <1>2 DEF ActivateOnSignIn, At, Request, Sound, SoundTokens, SoundFields, RefreshStages
  <2>3. Put(c, r) /\ UNCHANGED token
    BY <1>2 DEF ActivateOnSignIn, GoTo
  <2>. HIDE DEF r
  <2>4. Grows(token, token') /\ Sound(r, token')
    BY <2>2, <2>3, GrowsRefl
  <2>5. RequestInv'
    BY <2>1, <2>3, <2>4, RequestPut
  <2>. QED
    BY <2>3, <2>5
<1>3. CASE ResetUser(c)
  <2>. DEFINE r == [request[c] EXCEPT !.stage = "write", !.status = account.status]
  <2>1. r \in Request
    BY <1>0, <1>3 DEF ResetUser, At, Request, Stages, RowInv, Account
  <2>2. Sound(r, token)
    BY <1>0, <1>3 DEF ResetUser, At, Request, Sound, SoundTokens, SoundFields, RefreshStages, RowInv, Account
  <2>3. Put(c, r) /\ UNCHANGED token
    BY <1>3 DEF ResetUser, GoTo
  <2>. HIDE DEF r
  <2>4. Grows(token, token') /\ Sound(r, token')
    BY <2>2, <2>3, GrowsRefl
  <2>5. RequestInv'
    BY <2>1, <2>3, <2>4, RequestPut
  <2>. QED
    BY <2>3, <2>5
<1>4. CASE WriteReset(c)
  <2>. DEFINE r == [request[c] EXCEPT !.stage = "mark", !.old = Valid]
  <2>1. r \in Request
    BY <1>0, <1>4 DEF WriteReset, At, Request, Stages, Valid, Issued, IssuedIn
  <2>2. Sound(r, token)
    BY <1>0, <1>4 DEF WriteReset, At, Request, Sound, SoundTokens, SoundFields, RefreshStages, Valid, Issued, IssuedIn
  <2>3. Put(c, r) /\ UNCHANGED token
    BY <1>4 DEF WriteReset, GoTo
  <2>. HIDE DEF r
  <2>4. Grows(token, token') /\ Sound(r, token')
    BY <2>2, <2>3, GrowsRefl
  <2>5. RequestInv'
    BY <2>1, <2>3, <2>4, RequestPut
  <2>. QED
    BY <2>3, <2>5
<1>5. CASE SpendLinks(c)
  <2>. DEFINE r == [request[c] EXCEPT !.stage = "create"]
  <2>1. r \in Request
    BY <1>0, <1>5 DEF SpendLinks, At, Request, Stages
  <2>2. Sound(r, token)
    BY <1>0, <1>5 DEF SpendLinks, At, Request, Sound, SoundTokens, SoundFields, RefreshStages
  <2>3. Put(c, r) /\ UNCHANGED token
    BY <1>5 DEF SpendLinks, GoTo
  <2>. HIDE DEF r
  <2>4. Grows(token, token') /\ Sound(r, token')
    BY <2>2, <2>3, GrowsRefl
  <2>5. RequestInv'
    BY <2>1, <2>3, <2>4, RequestPut
  <2>. QED
    BY <2>3, <2>5
<1>6. CASE SpendAuthorization(c)
  <2>. DEFINE r == [request[c] EXCEPT !.stage = "user"]
  <2>1. r \in Request
    BY <1>0, <1>6 DEF SpendAuthorization, At, Request, Stages
  <2>2. Sound(r, token)
    BY <1>0, <1>6 DEF SpendAuthorization, At, Request, Sound, SoundTokens, SoundFields, RefreshStages
  <2>3. Put(c, r) /\ UNCHANGED token
    BY <1>6 DEF SpendAuthorization, GoTo
  <2>. HIDE DEF r
  <2>4. Grows(token, token') /\ Sound(r, token')
    BY <2>2, <2>3, GrowsRefl
  <2>5. RequestInv'
    BY <2>1, <2>3, <2>4, RequestPut
  <2>. QED
    BY <2>3, <2>5
<1>7. CASE SessionFromProfile(c)
  <2>. DEFINE r == [request[c] EXCEPT !.stage = IF IsActive THEN "issue" ELSE "activate"]
  <2>1. r \in Request
    BY <1>0, <1>7 DEF SessionFromProfile, At, Request, Stages
  <2>2. Sound(r, token)
    BY <1>0, <1>7 DEF SessionFromProfile, At, Request, Sound, SoundTokens, SoundFields, RefreshStages
  <2>3. Put(c, r) /\ UNCHANGED token
    BY <1>7 DEF SessionFromProfile, GoTo
  <2>. HIDE DEF r
  <2>4. Grows(token, token') /\ Sound(r, token')
    BY <2>2, <2>3, GrowsRefl
  <2>5. RequestInv'
    BY <2>1, <2>3, <2>4, RequestPut
  <2>. QED
    BY <2>3, <2>5
<1>8. CASE FindInvitation(c)
  <2>0. PICK i \in Invitations \cup {None} :
          Put(c, [request[c] EXCEPT !.found = i, !.stage = "write"])
    BY <1>8 DEF FindInvitation, OpenInvitations
  <2>. DEFINE r == [request[c] EXCEPT !.found = i, !.stage = "write"]
  <2>1. r \in Request
    BY <1>0, <1>8, <2>0 DEF FindInvitation, At, Request, Stages
  <2>2. Sound(r, token)
    BY <1>0, <1>8, <2>0 DEF FindInvitation, At, Request, Sound, SoundTokens, SoundFields, RefreshStages
  <2>3. Put(c, r) /\ UNCHANGED token
    BY <1>8, <2>0 DEF FindInvitation, GoTo
  <2>. HIDE DEF r
  <2>4. Grows(token, token') /\ Sound(r, token')
    BY <2>2, <2>3, GrowsRefl
  <2>5. RequestInv'
    BY <2>1, <2>3, <2>4, RequestPut
  <2>. QED
    BY <2>3, <2>5
<1>. QED
  BY <1>1, <1>2, <1>3, <1>4, <1>5, <1>6, <1>7, <1>8

\* The step that owes it to the tokens of the moment to revoke them.
LEMMA OweRequests ==
  ASSUME RequestInv, NEW c \in Clients, UNCHANGED token,
         EndSessions(c) \/ Owes(c, "revokeAll", request[c].old)
  PROVE  RequestInv'
<1>1. PICK old \in SUBSET Tokens : old \subseteq IssuedIn(token) /\ Owes(c, "revokeAll", old)
  BY DEF RequestInv, Sound, SoundTokens, EndSessions, Valid, Issued, IssuedIn, Request
<1>. DEFINE r == [NoRequest EXCEPT !.stage = "revokeAll", !.old = old]
<1>2. r \in Request /\ Sound(r, token)
  BY <1>1, OwesSound
<1>3. Put(c, r)
  BY <1>1 DEF Owes
<1>. HIDE DEF r
<1>4. Grows(token, token') /\ Sound(r, token')
  BY <1>2, GrowsRefl
<1>. QED
  BY <1>2, <1>3, <1>4, RequestPut

\* The step that revokes tokens leaves none of those it owes.
LEMMA RevokeRequests ==
  ASSUME RequestInv, TokenInv, NEW c \in Clients, RevokeFamily(c) \/ RevokeAll(c)
  PROVE  RequestInv' /\ TokenInv' /\ Grows(token, token')
<1>0. request[c] \in Request /\ Sound(request[c], token)
  BY DEF RequestInv
<1>1. PICK S \in SUBSET Issued :
        /\ token' = [t \in Tokens |-> IF t \in S THEN [token[t] EXCEPT !.state = "revoked"]
                                      ELSE token[t]]
        /\ request[c].old \subseteq S
  <2>1. CASE RevokeFamily(c)
    <3>1. Family(request[c].token) \in SUBSET Issued
      BY DEF Family
    <3>2. request[c].old \subseteq Family(request[c].token)
      BY <1>0, <2>1 DEF RevokeFamily, At, Sound, SoundTokens, Family, Issued, IssuedIn
    <3>. QED
      BY <2>1, <3>1, <3>2 DEF RevokeFamily
  <2>2. CASE RevokeAll(c)
    BY <1>0, <2>2 DEF RevokeAll, Sound, SoundTokens, Issued, IssuedIn
  <2>. QED
    BY <2>1, <2>2
<1>2. /\ TokenInv' /\ Grows(token, token')
      /\ \A t \in S : token'[t].state = "revoked"
  BY <1>1, RevokeTokens
<1>. DEFINE r == [NoRequest EXCEPT !.stage = "answered", !.old = request[c].old]
<1>3. /\ request[c].old \in SUBSET Tokens /\ request[c].old \subseteq IssuedIn(token')
      /\ \A t \in request[c].old : token'[t].state = "revoked"
  BY <1>0, <1>1, <1>2 DEF Request, Sound, SoundTokens, Grows, IssuedIn
<1>4. r \in Request /\ Sound(r, token')
  BY <1>3, OwesSound
<1>5. Put(c, r)
  BY DEF RevokeFamily, RevokeAll, Owes
<1>. HIDE DEF r
<1>. QED
  BY <1>2, <1>4, <1>5, RequestPut

LEMMA UseRequests ==
  ASSUME RequestInv, TokenInv, NEW c \in Clients, UseToken(c)
  PROVE  RequestInv' /\ TokenInv'
<1>0. request[c] \in Request /\ Sound(request[c], token)
  BY DEF RequestInv
<1>. DEFINE r == [request[c] EXCEPT !.stage = "issue"]
<1>1. r \in Request /\ Sound(r, token)
  BY <1>0 DEF UseToken, At, Request, Stages, Sound, SoundTokens, SoundFields, RefreshStages
<1>2. Put(c, r)
  BY DEF UseToken, GoTo
<1>. HIDE DEF r
<1>3. TokenInv' /\ Grows(token, token')
  BY TokenSteps
<1>4. Sound(r, token')
  BY <1>1, <1>3, SoundKept
<1>. QED
  BY <1>1, <1>2, <1>3, <1>4, RequestPut

\* Every step of a request keeps what the requests rely on.
LEMMA ClientRequests ==
  ASSUME IInv, NEW c \in Clients,
         \/ Session(c) \/ Owner(c) \/ Administrator(c)
         \/ RevokeAll(c) \/ Reply(c) \/ GiveUp(c)
  PROVE  RequestInv' /\ TokenInv' /\ Grows(token, token')
<1>0. TokenInv /\ RequestInv /\ RowInv
  BY DEF IInv
<1>. DEFINE Goal == RequestInv' /\ TokenInv' /\ Grows(token, token')
<1>1. ASSUME RequestInv', UNCHANGED token
      PROVE  Goal
  <2>1. TokenInv' /\ Grows(token, token')
    BY <1>0, <1>1, GrowsRefl DEF TokenInv, Issued
  <2>. QED
    BY <1>1, <2>1
<1>2. ASSUME Done(c), UNCHANGED token
      PROVE  Goal
  <2>1. RequestInv'
    BY <1>0, <1>2, StepRequests, GrowsRefl
  <2>. QED
    BY <1>1, <1>2, <2>1
<1>3. CASE Session(c)
  <2>1. CASE SignIn(c) \/ RequestGoogle(c)
    BY <1>0, <1>1, <2>1, PlainBegins
  <2>2. CASE \/ ActivateOnSignIn(c) \/ RefreshUser(c)
             \/ SpendAuthorization(c) \/ SessionFromProfile(c)
    BY <1>0, <1>1, <2>2, GoOnRequests
  <2>3. CASE Issue(c)
    BY <1>0, <2>3, TokenSteps, StepRequests DEF Issue
  <2>4. CASE UseToken(c)
    BY <1>0, <2>4, UseRequests, TokenSteps
  <2>5. CASE RevokeFamily(c)
    BY <1>0, <2>5, RevokeRequests
  <2>6. ASSUME NEW t \in Tokens, Refresh(c, t) \/ Logout(c, t)
        PROVE  Goal
    BY <1>0, <1>1, <2>6, TokenBegins
  <2>7. ASSUME NEW l \in Links, Callback(c, l)
        PROVE  Goal
    BY <1>0, <1>1, <2>7, NamingBegins
  <2>. QED
    BY <1>3, <2>1, <2>2, <2>3, <2>4, <2>5, <2>6, <2>7 DEF Session
<1>4. CASE Owner(c)
  <2>1. CASE ChangePassword(c) \/ RequestReset(c) \/ RequestAddress(c) \/ DeleteUser(c)
    BY <1>0, <1>1, <2>1, PlainBegins
  <2>2. CASE SpendLinks(c) \/ ResetUser(c) \/ WriteReset(c)
    BY <1>0, <1>1, <2>2, GoOnRequests
  <2>3. CASE WritePassword(c) \/ SpendReset(c) \/ WriteAddress(c)
    <3>1. UNCHANGED token /\ (EndSessions(c) \/ Owes(c, "revokeAll", request[c].old))
      BY <2>3 DEF WritePassword, SpendReset, WriteAddress, AddressWritten
    <3>. QED
      BY <1>0, <1>1, <3>1, OweRequests
  <2>4. CASE SendLink(c) \/ WriteDeleted(c)
    BY <1>2, <2>4 DEF SendLink, WriteDeleted
  <2>5. ASSUME NEW l \in Links, ResetPassword(c, l) \/ Confirm(c, l)
        PROVE  Goal
    BY <1>0, <1>1, <2>5, NamingBegins
  <2>. QED
    BY <1>4, <2>1, <2>2, <2>3, <2>4, <2>5 DEF Owner
<1>5. CASE Administrator(c)
  <2>1. CASE WriteStatus(c) \/ WriteRole(c)
    <3>1. UNCHANGED token /\ (EndSessions(c) \/ Done(c))
      BY <2>1 DEF WriteStatus, WriteRole
    <3>. QED
      BY <1>0, <1>1, <1>2, <3>1, OweRequests
  <2>2. CASE \/ \E s \in AccountStatus : ChangeStatus(c, s)
             \/ \E r \in MemberRoles : ChangeRole(c, r) \/ InviteAgain(c, r)
             \/ \E i \in Invitations : Resend(c, i)
    BY <1>0, <1>1, <2>2, NamingBegins
  <2>3. CASE FindInvitation(c)
    BY <1>0, <1>1, <2>3, GoOnRequests
  <2>4. CASE WriteInviteAgain(c) \/ WriteResend(c)
    BY <1>2, <2>4 DEF WriteInviteAgain, WriteResend
  <2>. QED
    BY <1>5, <2>1, <2>2, <2>3, <2>4 DEF Administrator
<1>6. CASE RevokeAll(c)
  BY <1>0, <1>6, RevokeRequests
<1>7. CASE Reply(c) \/ GiveUp(c)
  BY <1>2, <1>7 DEF Reply, GiveUp
<1>8. Goal
  BY <1>3, <1>4, <1>5, <1>6, <1>7
<1>. QED
  BY <1>8

-----------------------------------------------------------------------------
(* The rows *)

\* The status of the account is written.
LEMMA StatusRows ==
  ASSUME RowInv, NEW s \in AccountStatus,
         account' = [account EXCEPT !.status = StatusSet(s)] \/ account' = [account EXCEPT !.status = s],
         UNCHANGED link, invitation' \in [Invitations -> InvitationRow]
  PROVE  RowInv'
<1>1. account \in Account /\ StatusSet(s) \in AccountStatus
  BY DEF RowInv, StatusSet, Account
<1>2. /\ account' \in Account
      /\ account'.role = account.role /\ account'.profile = account.profile
      /\ account'.address = account.address
  BY <1>1 DEF Account
<1>. QED
  BY <1>1, <1>2 DEF RowInv

LEMMA ClientRows ==
  ASSUME IInv, NEW c \in Clients,
         \/ Session(c) \/ Owner(c) \/ Administrator(c)
         \/ RevokeAll(c) \/ Reply(c) \/ GiveUp(c)
  PROVE  RowInv'
<1>0. /\ TokenInv /\ RequestInv /\ RowInv
      /\ request[c] \in Request /\ Sound(request[c], token) /\ account \in Account
      /\ link \in [Links -> LinkRow] /\ invitation \in [Invitations -> InvitationRow]
  BY DEF IInv, RequestInv, RowInv
<1>1. CASE UNCHANGED <<account, invitation, link>>
  BY <1>0, <1>1 DEF RowInv
<1>2. CASE ActivateOnSignIn(c)
  <2>1. "ACTIVE" \in AccountStatus
    BY DEF AccountStatus
  <2>. QED
    BY <1>0, <1>2, <2>1, StatusRows DEF ActivateOnSignIn
<1>3. CASE WriteReset(c)
  <2>. DEFINE s == IF request[c].status = "INVITED" THEN "ACTIVE" ELSE request[c].status
  <2>1. s \in AccountStatus
    BY <1>0, <1>3 DEF WriteReset, At, Sound, SoundFields, AccountStatus
  <2>2. account' = [account EXCEPT !.status = StatusSet(s)] /\ UNCHANGED <<link, invitation>>
    BY <1>3 DEF WriteReset
  <2>. HIDE DEF s
  <2>. QED
    BY <1>0, <2>1, <2>2, StatusRows
<1>4. CASE WriteStatus(c)
  <2>1. request[c].to \in AccountStatus
    BY <1>0, <1>4 DEF WriteStatus, Sound, SoundFields
  <2>. QED
    BY <1>0, <1>4, <2>1, StatusRows DEF WriteStatus
<1>5. CASE WriteDeleted(c)
  <2>1. "DELETED" \in AccountStatus
    BY DEF AccountStatus
  <2>. QED
    BY <1>0, <1>5, <2>1, StatusRows DEF WriteDeleted
<1>6. CASE WriteRole(c)
  <2>. DEFINE to == request[c].to
              profile == (account.profile /\ request[c].role # "STUDENT") \/ to = "STUDENT"
  <2>1. to \in Roles
    BY <1>0, <1>6 DEF WriteRole, Sound, SoundFields
  <2>2. profile \in BOOLEAN /\ (to = "STUDENT" => profile)
    BY <1>0 DEF Account
  <2>3. /\ account' = [account EXCEPT !.role = to, !.profile = profile]
        /\ link' = link
        /\ invitation' = [i \in Invitations |->
                             IF i \in OpenInvitations /\ request[c].status = "INVITED"
                             THEN [invitation[i] EXCEPT !.role = to] ELSE invitation[i]]
    BY <1>6 DEF WriteRole
  <2>. HIDE DEF to, profile
  <2>4. /\ account' \in Account /\ account'.role = to /\ account'.profile = profile
        /\ account'.address = account.address
    BY <1>0, <2>1, <2>2, <2>3 DEF Account
  <2>5. invitation' \in [Invitations -> InvitationRow]
    BY <1>0, <2>1, <2>3 DEF InvitationRow
  <2>. QED
    BY <1>0, <2>2, <2>3, <2>4, <2>5 DEF RowInv
<1>7. CASE SpendLinks(c)
  <2>1. \A l \in Links : /\ link'[l] \in LinkRow /\ link'[l].kind = link[l].kind
                         /\ ~link[l].open => link'[l] = link[l]
    BY <1>0, <1>7 DEF SpendLinks, OpenLinks, LinkRow
  <2>2. link' \in [Links -> LinkRow] /\ UNCHANGED <<account, invitation>>
    BY <1>7, <2>1 DEF SpendLinks
  <2>3. account.address \in Links \cup {None}
    BY <1>0 DEF Account
  <2>. QED
    BY <1>0, <2>1, <2>2, <2>3 DEF RowInv
<1>8. CASE SendLink(c)
  <2>1. UNCHANGED <<account, invitation>>
    BY <1>8 DEF SendLink
  <2>2. ASSUME NEW l \in Links, link[l] = NoLink,
               link' = [link EXCEPT ![l] = [kind |-> request[c].to, open |-> TRUE]]
        PROVE  RowInv'
    <3>1. request[c].to \in LinkKinds
      BY <1>0, <1>8 DEF SendLink, At, Sound, SoundFields
    <3>2. [kind |-> request[c].to, open |-> TRUE] \in LinkRow
      BY <3>1 DEF LinkRow
    <3>3. account.address # None => account.address # l
      BY <2>2 DEF RowInv, NoLink, IInv
    <3>4. account.address \in Links \cup {None}
      BY <1>0 DEF Account
    <3>. QED
      BY <1>0, <2>1, <2>2, <3>2, <3>3, <3>4 DEF RowInv
  <2>3. UNCHANGED link => RowInv'
    BY <1>1, <2>1
  <2>. QED
    BY <1>8, <2>2, <2>3 DEF SendLink
<1>9. CASE SpendReset(c) \/ SpendAuthorization(c)
  <2>. DEFINE l == request[c].link
  <2>1. l \in Links
    BY <1>0, <1>9 DEF SpendReset, SpendAuthorization, Sound, SoundFields
  <2>2. link' = [link EXCEPT ![l].open = FALSE] /\ UNCHANGED <<account, invitation>>
    BY <1>9 DEF SpendReset, SpendAuthorization
  <2>. HIDE DEF l
  <2>3. /\ link' \in [Links -> LinkRow] /\ \A k \in Links \ {l} : link'[k] = link[k]
        /\ link'[l].kind = link[l].kind
        /\ ~link[l].open => link'[l] = link[l]
    BY <1>0, <2>1, <2>2 DEF LinkRow
  <2>4. account.address \in Links \cup {None}
    BY <1>0 DEF Account
  <2>5. account.address = l /\ l # None => link[l] = [kind |-> "address", open |-> FALSE]
    BY <1>0 DEF RowInv
  <2>6. account.address = l /\ l # None => ~link[l].open
    BY <2>5
  <2>7. account.address # None => link'[account.address] = link[account.address]
    BY <2>3, <2>4, <2>6
  <2>. QED
    BY <1>0, <2>2, <2>3, <2>7 DEF RowInv
<1>10. CASE WriteAddress(c)
  <2>. DEFINE l == request[c].link
  <2>1. l \in Links /\ link[l].kind = "address"
    BY <1>10 DEF WriteAddress, OpenLinks
  <2>2. /\ account' = [account EXCEPT !.address = l] /\ invitation' = invitation
        /\ link' = [k \in Links |-> IF link[k].kind = "address"
                                    THEN [link[k] EXCEPT !.open = FALSE] ELSE link[k]]
    BY <1>10 DEF WriteAddress, AddressWritten
  <2>. HIDE DEF l
  <2>3. /\ account' \in Account /\ account'.address = l /\ account'.role = account.role
        /\ account'.status = account.status /\ account'.profile = account.profile
    BY <1>0, <2>1, <2>2 DEF Account
  <2>4. \A k \in Links : /\ link'[k] \in LinkRow
                         /\ link[k].kind = "address" =>
                              link'[k] = [kind |-> "address", open |-> FALSE]
    BY <1>0, <2>2 DEF LinkRow
  <2>5. link' \in [Links -> LinkRow] /\ link'[l] = [kind |-> "address", open |-> FALSE]
    BY <2>1, <2>2, <2>4
  <2>. QED
    BY <1>0, <2>2, <2>3, <2>5 DEF RowInv
<1>11. CASE WriteInviteAgain(c)
  <2>. DEFINE to == request[c].to
              profile == account.profile \/ to = "STUDENT"
  <2>1. to \in Roles
    BY <1>0, <1>11 DEF WriteInviteAgain, Sound, SoundFields
  <2>2. profile \in BOOLEAN /\ (to = "STUDENT" => profile)
    BY <1>0 DEF Account
  <2>3. StatusSet("INVITED") \in AccountStatus
    BY <1>0 DEF StatusSet, Account, AccountStatus
  <2>4. /\ account' = [account EXCEPT !.role = to, !.status = StatusSet("INVITED"),
                                      !.profile = profile]
        /\ link' = link
        /\ \E i \in InvitationToWrite(c) :
             invitation' = [invitation EXCEPT ![i] = [open |-> TRUE, role |-> to]]
    BY <1>11 DEF WriteInviteAgain, EnsureStudentProfile
  <2>. HIDE DEF to, profile
  <2>5. /\ account' \in Account /\ account'.role = to /\ account'.profile = profile
        /\ account'.address = account.address
    BY <1>0, <2>1, <2>2, <2>3, <2>4 DEF Account
  <2>6. [open |-> TRUE, role |-> to] \in InvitationRow
    BY <2>1 DEF InvitationRow
  <2>7. invitation' \in [Invitations -> InvitationRow]
    BY <1>0, <2>4, <2>6
  <2>. QED
    BY <1>0, <2>2, <2>4, <2>5, <2>7 DEF RowInv
<1>12. CASE WriteResend(c)
  <2>1. invitation' \in [Invitations -> InvitationRow]
    BY <1>0, <1>12 DEF WriteResend, InvitationRow
  <2>. QED
    BY <1>0, <1>12, <2>1 DEF WriteResend, RowInv
<1>13. \/ UNCHANGED <<account, invitation, link>>
       \/ ActivateOnSignIn(c) \/ WriteReset(c) \/ WriteStatus(c) \/ WriteDeleted(c)
       \/ WriteRole(c) \/ SpendLinks(c) \/ SendLink(c) \/ SpendReset(c) \/ WriteAddress(c)
       \/ SpendAuthorization(c) \/ WriteInviteAgain(c) \/ WriteResend(c)
  <2>1. CASE Session(c) \/ RevokeAll(c) \/ Reply(c) \/ GiveUp(c)
    BY <2>1 DEF Session, SignIn, Issue, RefreshUser, UseToken, RevokeFamily, Refresh, Logout,
                RequestGoogle, Callback, SessionFromProfile, RevokeAll, Reply, GiveUp, Begin
  <2>2. CASE Owner(c) \/ Administrator(c)
    BY <2>2 DEF Owner, ChangePassword, WritePassword, RequestReset, RequestAddress,
                ResetUser, ResetPassword, Confirm, DeleteUser, Administrator,
                ChangeStatus, ChangeRole, InviteAgain, FindInvitation, Resend, Begin
  <2>. QED
    BY <2>1, <2>2
<1>. QED
  BY <1>1, <1>2, <1>3, <1>4, <1>5, <1>6, <1>7, <1>8, <1>9, <1>10, <1>11, <1>12, <1>13

-----------------------------------------------------------------------------
(* The invariant *)

LEMMA InitInv == Init => IInv
<1>. SUFFICES ASSUME Init PROVE IInv
  OBVIOUS
<1>1. TokenInv
  BY DEF Init, TokenInv, Issued, NoToken, TokenRow
<1>2. RequestInv
  BY DoneSound DEF Init, RequestInv
<1>3. RowInv
  <2>1. \A role \in Roles : [open |-> TRUE, role |-> role] \in InvitationRow
    BY DEF InvitationRow
  <2>2. NoInvitation \in InvitationRow
    BY DEF NoInvitation, InvitationRow
  <2>3. /\ account \in Account /\ account.address = None
        /\ account.role = "STUDENT" => account.profile
        /\ invitation \in [Invitations -> InvitationRow]
    <3>1. CASE Registered
      <4>1. "OWNER" \in Roles /\ "ACTIVE" \in AccountStatus
        BY DEF Roles, AccountStatus
      <4>. QED
        BY <2>2, <3>1, <4>1 DEF Registered, Account
    <3>2. ASSUME NEW i \in Invitations, NEW role \in MemberRoles, Invited(i, role)
          PROVE  /\ account \in Account /\ account.address = None
                 /\ account.role = "STUDENT" => account.profile
                 /\ invitation \in [Invitations -> InvitationRow]
      <4>1. role \in Roles /\ "INVITED" \in AccountStatus
        BY DEF Roles, AccountStatus
      <4>. QED
        BY <2>1, <2>2, <3>2, <4>1 DEF Invited, Account
    <3>. QED
      BY <3>1, <3>2 DEF Init
  <2>4. link \in [Links -> LinkRow]
    BY DEF Init, NoLink, LinkRow
  <2>. QED
    BY <2>3, <2>4 DEF RowInv
<1>. QED
  BY <1>1, <1>2, <1>3 DEF IInv

LEMMA NextInv == IInv /\ [Next]_vars => IInv'
<1>. SUFFICES ASSUME IInv, [Next]_vars PROVE IInv'
  OBVIOUS
<1>1. TokenInv /\ RequestInv /\ RowInv
  BY DEF IInv
<1>2. CASE UNCHANGED vars
  BY <1>1, <1>2 DEF vars, IInv, TokenInv, Issued, RequestInv, RowInv
<1>3. ASSUME NEW c \in Clients,
             \/ Session(c) \/ Owner(c) \/ Administrator(c)
             \/ RevokeAll(c) \/ Reply(c) \/ GiveUp(c)
      PROVE  IInv'
  BY <1>3, ClientRequests, ClientRows DEF IInv
<1>4. ASSUME NEW i \in Invitations, Activate(i) \/ CancelInvitation(i)
      PROVE  IInv'
  <2>1. UNCHANGED <<token, link, request>>
    BY <1>4 DEF Activate, CancelInvitation
  <2>3. invitation' \in [Invitations -> InvitationRow]
    BY <1>1, <1>4 DEF Activate, CancelInvitation, RowInv, InvitationRow
  <2>2. RowInv'
    <3>1. CASE Activate(i)
      <4>1. "ACTIVE" \in AccountStatus
        BY DEF AccountStatus
      <4>. QED
        BY <1>1, <2>1, <2>3, <3>1, <4>1, StatusRows DEF Activate
    <3>2. CASE CancelInvitation(i)
      BY <1>1, <2>1, <2>3, <3>2 DEF CancelInvitation, RowInv
    <3>. QED
      BY <1>4, <3>1, <3>2
  <2>. QED
    BY <1>1, <2>1, <2>2 DEF IInv, TokenInv, Issued, RequestInv
<1>. QED
  BY <1>2, <1>3, <1>4 DEF Next

LEMMA Invariance == Spec => []IInv
BY InitInv, NextInv, PTL DEF Spec

\* The rows and the requests hold only values of their kinds, and the link that
\* confirmed the address is spent, whatever comes between two queries.
THEOREM AccountTypes == Spec => []TypeOK
<1>1. IInv => TypeOK
  BY DEF IInv, TokenInv, RequestInv, RowInv, TypeOK
<1>. QED
  BY <1>1, Invariance, PTL

\* A request that ends sessions is answered only when none of the tokens it was to
\* end is left, however many requests sign in, refresh and sign out meanwhile.
THEOREM SessionsEnd == Spec => []SignedOut
<1>1. IInv => SignedOut
  BY DEF IInv, RequestInv, Sound, SoundTokens, SignedOut, At
<1>. QED
  BY <1>1, Invariance, PTL

\* A write of the status alone parts the role from nothing, nor does closing an
\* invitation: what is written is not INVITED.
LEMMA StatusKeepsRole ==
  ASSUME RowInv, RoleAgrees, NEW s \in AccountStatus \ {"INVITED"},
         \/ account' = [account EXCEPT !.status = StatusSet(s)]
         \/ account' = [account EXCEPT !.status = s]
  PROVE  RoleAgrees'
<1>1. StatusSet(s) # "INVITED" /\ account \in Account
  BY DEF StatusSet, RowInv
<1>2. /\ account'.status # "INVITED" /\ account'.role = account.role
      /\ account'.profile = account.profile
  BY <1>1 DEF Account
<1>. QED
  BY <1>2 DEF RoleAgrees

\* changeMemberRole: what it has read still holds, and it writes all that depends
\* on the role.
LEMMA WriteRoleKeepsRole ==
  ASSUME IInv, RoleAgrees, NEW c \in Clients, WriteRole(c)
  PROVE  RoleAgrees'
<1>. DEFINE q == request[c]
            profile == (account.profile /\ q.role # "STUDENT") \/ q.to = "STUDENT"
<1>1. /\ account \in Account /\ invitation \in [Invitations -> InvitationRow]
      /\ q.to \in Roles
  BY DEF IInv, RowInv, RequestInv, Sound, SoundFields, WriteRole
<1>2. /\ account' = [account EXCEPT !.role = q.to, !.profile = profile]
      /\ invitation' = [i \in Invitations |->
                           IF i \in OpenInvitations /\ q.status = "INVITED"
                           THEN [invitation[i] EXCEPT !.role = q.to] ELSE invitation[i]]
      /\ account.role = q.role /\ account.status = q.status
  BY DEF WriteRole, RoleUnchanged
<1>3. profile <=> q.to = "STUDENT"
  BY <1>2 DEF RoleAgrees
<1>. HIDE DEF q, profile
<1>4. /\ account'.role = q.to /\ account'.profile = profile
      /\ account'.status = account.status
  BY <1>1, <1>2 DEF Account
<1>5. ASSUME account.status = "INVITED", NEW i \in Invitations, invitation'[i].open
      PROVE  invitation'[i].role = q.to
  <2>1. CASE i \in OpenInvitations
    BY <1>1, <1>2, <1>5, <2>1 DEF InvitationRow
  <2>2. CASE i \notin OpenInvitations
    BY <1>2, <1>5, <2>2 DEF OpenInvitations
  <2>. QED
    BY <2>1, <2>2
<1>. QED
  BY <1>3, <1>4, <1>5 DEF RoleAgrees, OpenInvitations

\* createAndSendInvitation, unless it leaves a row of students or another open
\* invitation behind.
LEMMA InviteAgainKeepsRole ==
  ASSUME IInv, RoleAgrees, NEW c \in Clients, WriteInviteAgain(c), ~InvitesOverOldRole(c)
  PROVE  RoleAgrees'
<1>. DEFINE r == request[c].to
<1>1. /\ account \in Account /\ invitation \in [Invitations -> InvitationRow]
      /\ request[c].found \in Invitations \cup {None}
  BY DEF IInv, RowInv, RequestInv, Request
<1>2. /\ account.role = "STUDENT" => r = "STUDENT"
      /\ OpenInvitations \subseteq {request[c].found}
  BY DEF WriteInviteAgain, InvitesOverOldRole
<1>3. PICK i \in InvitationToWrite(c) :
        invitation' = [invitation EXCEPT ![i] = [open |-> TRUE, role |-> r]]
  BY DEF WriteInviteAgain
<1>4. i \in Invitations /\ OpenInvitations \subseteq {i}
  <2>1. CASE request[c].found = None
    BY <1>2, <2>1, AccountsAssumption DEF InvitationToWrite, OpenInvitations
  <2>2. CASE request[c].found # None
    BY <1>1, <1>2, <2>2 DEF InvitationToWrite
  <2>. QED
    BY <2>1, <2>2
<1>5. account' = [account EXCEPT !.role = r, !.status = StatusSet("INVITED"),
                                 !.profile = account.profile \/ r = "STUDENT"]
  BY DEF WriteInviteAgain, EnsureStudentProfile
<1>. HIDE DEF r
<1>6. account'.role = r /\ account'.profile = (account.profile \/ r = "STUDENT")
  BY <1>1, <1>5 DEF Account
<1>7. \A j \in Invitations : invitation'[j].open => invitation'[j].role = r
  BY <1>1, <1>3, <1>4 DEF OpenInvitations
<1>. QED
  BY <1>2, <1>6, <1>7 DEF RoleAgrees, OpenInvitations

\* resend, unless the invitation has been closed since it was read.
LEMMA ResendKeepsRole ==
  ASSUME IInv, RoleAgrees, NEW c \in Clients, WriteResend(c), ~ReopensClosed(c)
  PROVE  RoleAgrees'
<1>1. invitation \in [Invitations -> InvitationRow]
  BY DEF IInv, RowInv
<1>2. request[c].found \in OpenInvitations /\ UNCHANGED account
  BY DEF WriteResend, ReopensClosed
<1>3. \A i \in Invitations : /\ invitation'[i].open = invitation[i].open
                             /\ invitation'[i].role = invitation[i].role
  BY <1>1, <1>2 DEF WriteResend, OpenInvitations, InvitationRow
<1>. QED
  BY <1>2, <1>3 DEF RoleAgrees, OpenInvitations

\* Every other step of a request.
LEMMA ClientKeepsRole ==
  ASSUME IInv, RoleAgrees, NEW c \in Clients,
         \/ Session(c) \/ Owner(c) \/ Administrator(c)
         \/ RevokeAll(c) \/ Reply(c) \/ GiveUp(c),
         ~WriteInviteAgain(c), ~WriteResend(c)
  PROVE  RoleAgrees'
<1>0. /\ RowInv /\ Sound(request[c], token) /\ account \in Account
  BY DEF IInv, RequestInv, RowInv
<1>1. CASE UNCHANGED <<account, invitation>>
  BY <1>1 DEF RoleAgrees, OpenInvitations
<1>2. CASE ActivateOnSignIn(c)
  <2>1. "ACTIVE" \in AccountStatus \ {"INVITED"}
    BY DEF AccountStatus
  <2>. QED
    BY <1>0, <1>2, <2>1, StatusKeepsRole DEF ActivateOnSignIn
<1>3. CASE WriteReset(c)
  <2>. DEFINE s == IF request[c].status = "INVITED" THEN "ACTIVE" ELSE request[c].status
  <2>1. s \in AccountStatus \ {"INVITED"}
    BY <1>0, <1>3 DEF WriteReset, At, Sound, SoundFields, AccountStatus
  <2>2. account' = [account EXCEPT !.status = StatusSet(s)]
    BY <1>3 DEF WriteReset
  <2>. HIDE DEF s
  <2>. QED
    BY <1>0, <2>1, <2>2, StatusKeepsRole
<1>4. CASE WriteStatus(c)
  <2>1. request[c].to \in AccountStatus \ {"INVITED"}
    BY <1>0, <1>4 DEF WriteStatus, Sound, SoundFields
  <2>. QED
    BY <1>0, <1>4, <2>1, StatusKeepsRole DEF WriteStatus
<1>5. CASE WriteDeleted(c)
  <2>1. "DELETED" \in AccountStatus \ {"INVITED"}
    BY DEF AccountStatus
  <2>. QED
    BY <1>0, <1>5, <2>1, StatusKeepsRole DEF WriteDeleted
<1>6. CASE WriteRole(c)
  BY <1>6, WriteRoleKeepsRole
<1>7. CASE WriteAddress(c)
  <2>1. /\ account' = [account EXCEPT !.address = request[c].link]
        /\ UNCHANGED invitation
    BY <1>7 DEF WriteAddress, AddressWritten
  <2>2. /\ account'.role = account.role /\ account'.profile = account.profile
        /\ account'.status = account.status
    BY <1>0, <2>1 DEF Account
  <2>. QED
    BY <2>1, <2>2 DEF RoleAgrees, OpenInvitations
<1>8. \/ UNCHANGED <<account, invitation>>
      \/ ActivateOnSignIn(c) \/ WriteReset(c) \/ WriteStatus(c) \/ WriteDeleted(c)
      \/ WriteRole(c) \/ WriteAddress(c)
  <2>1. CASE Session(c) \/ RevokeAll(c) \/ Reply(c) \/ GiveUp(c)
    BY <2>1 DEF Session, SignIn, Issue, RefreshUser, UseToken, RevokeFamily, Refresh, Logout,
                RequestGoogle, Callback, SpendAuthorization, SessionFromProfile, RevokeAll,
                Reply, GiveUp, Begin
  <2>2. CASE Owner(c) \/ Administrator(c)
    BY <2>2 DEF Owner, ChangePassword, WritePassword, RequestReset, RequestAddress,
                SpendLinks, SendLink, ResetUser, SpendReset, ResetPassword, Confirm,
                DeleteUser, Administrator, ChangeStatus, ChangeRole, InviteAgain,
                FindInvitation, Resend, Begin
  <2>. QED
    BY <2>1, <2>2
<1>. QED
  BY <1>1, <1>2, <1>3, <1>4, <1>5, <1>6, <1>7, <1>8

\* A student always has a row of students, and only a repeated invitation over the
\* old role or a resend that comes too late parts the role from that row or from the
\* open invitations: no change of the role, activation or cancellation does.
THEOREM RoleLostOnlyByWrites == Spec => RoleLostOnlyByInvitation
<1>1. ASSUME IInv, [Next]_vars, RoleAgrees, ~RoleAgrees'
      PROVE  \E c \in Clients : /\ request'[c] # request[c]
                                /\ InvitesOverOldRole(c) \/ ReopensClosed(c)
  <2>1. PICK c \in Clients : \/ WriteInviteAgain(c) /\ InvitesOverOldRole(c)
                             \/ WriteResend(c) /\ ReopensClosed(c)
    <3>1. ASSUME NEW c \in Clients,
                 \/ Session(c) \/ Owner(c) \/ Administrator(c)
                 \/ RevokeAll(c) \/ Reply(c) \/ GiveUp(c)
          PROVE  \/ WriteInviteAgain(c) /\ InvitesOverOldRole(c)
                 \/ WriteResend(c) /\ ReopensClosed(c)
      BY <1>1, <3>1, ClientKeepsRole, InviteAgainKeepsRole, ResendKeepsRole
    <3>2. ASSUME NEW i \in Invitations, Activate(i)
          PROVE  FALSE
      <4>1. "ACTIVE" \in AccountStatus \ {"INVITED"} /\ RowInv
        BY <1>1 DEF AccountStatus, IInv
      <4>. QED
        BY <1>1, <3>2, <4>1, StatusKeepsRole DEF Activate
    <3>3. ASSUME NEW i \in Invitations, CancelInvitation(i)
          PROVE  FALSE
      <4>1. \A j \in Invitations : invitation'[j].open => invitation'[j] = invitation[j]
        BY <1>1, <3>3 DEF CancelInvitation, IInv, RowInv, InvitationRow
      <4>. QED
        BY <1>1, <3>3, <4>1 DEF CancelInvitation, RoleAgrees, OpenInvitations
    <3>4. CASE UNCHANGED vars
      BY <1>1, <3>4 DEF vars, RoleAgrees, OpenInvitations
    <3>. QED
      BY <1>1, <3>1, <3>2, <3>3, <3>4 DEF Next
  <2>2. request[c].stage # NoRequest.stage /\ Done(c)
    BY <2>1 DEF WriteInviteAgain, WriteResend, At, NoRequest
  <2>3. request'[c] = NoRequest
    BY <1>1, <2>2 DEF Done, Put, IInv, RequestInv
  <2>. QED
    BY <2>1, <2>2, <2>3
<1>2. IInv /\ [Next]_vars =>
        [/\ account'.role = "STUDENT" => account'.profile
         /\ RoleAgrees /\ ~RoleAgrees' =>
              \E c \in Clients : /\ request'[c] # request[c]
                                 /\ InvitesOverOldRole(c) \/ ReopensClosed(c)
        ]_<<account, invitation>>
  <2>1. IInv /\ [Next]_vars => (account'.role = "STUDENT" => account'.profile)
    BY NextInv DEF IInv, RowInv
  <2>. QED
    BY <1>1, <2>1
<1>. QED
  BY <1>2, Invariance, PTL DEF Spec, RoleLostOnlyByInvitation

\* A link changes the address once, and then no other link is left.
THEOREM AddressChangesOnce == Spec => LinkChangesAddressOnce
<1>1. ASSUME IInv, [Next]_vars, account'.address # account.address
      PROVE  /\ link[account'.address].open
             /\ \A l \in Links : link'[l].kind = "address" => ~link'[l].open
  <2>0. account \in Account /\ link \in [Links -> LinkRow]
    BY <1>1 DEF IInv, RowInv
  <2>1. ASSUME NEW s, \/ account' = [account EXCEPT !.status = s]
                      \/ account' = account
        PROVE  FALSE
    BY <1>1, <2>0, <2>1 DEF Account
  <2>2. PICK c \in Clients : WriteAddress(c)
    <3>1. ASSUME NEW c \in Clients, Session(c) \/ RevokeAll(c) \/ Reply(c) \/ GiveUp(c)
          PROVE  FALSE
      <4>1. CASE ActivateOnSignIn(c)
        BY <2>1, <4>1 DEF ActivateOnSignIn
      <4>2. CASE UNCHANGED account
        BY <2>1, <4>2
      <4>. QED
        BY <3>1, <4>1, <4>2 DEF Session, SignIn, Issue, RefreshUser, UseToken,
             RevokeFamily, Refresh, Logout, RequestGoogle, Callback, SpendAuthorization,
             SessionFromProfile, RevokeAll, Reply, GiveUp, Begin
    <3>2. ASSUME NEW c \in Clients, Owner(c), ~WriteAddress(c)
          PROVE  FALSE
      <4>1. CASE WriteReset(c) \/ WriteDeleted(c)
        BY <2>1, <4>1 DEF WriteReset, WriteDeleted
      <4>2. CASE UNCHANGED account
        BY <2>1, <4>2
      <4>. QED
        BY <3>2, <4>1, <4>2 DEF Owner, ChangePassword, WritePassword, RequestReset,
             RequestAddress, SpendLinks, SendLink, ResetUser, SpendReset, ResetPassword,
             Confirm, DeleteUser, Begin
    <3>3. ASSUME NEW c \in Clients, Administrator(c)
          PROVE  FALSE
      <4>1. CASE WriteStatus(c)
        BY <2>1, <4>1 DEF WriteStatus
      <4>2. CASE WriteRole(c) \/ WriteInviteAgain(c)
        BY <1>1, <2>0, <4>2 DEF WriteRole, WriteInviteAgain, Account
      <4>3. CASE UNCHANGED account
        BY <2>1, <4>3
      <4>. QED
        BY <3>3, <4>1, <4>2, <4>3 DEF Administrator, ChangeStatus, ChangeRole, InviteAgain,
             FindInvitation, Resend, WriteResend, Begin
    <3>4. ASSUME NEW i \in Invitations, Activate(i)
          PROVE  FALSE
      BY <2>1, <3>4 DEF Activate
    <3>5. CASE UNCHANGED vars \/ \E i \in Invitations : CancelInvitation(i)
      BY <2>1, <3>5 DEF CancelInvitation, vars
    <3>. QED
      BY <1>1, <3>1, <3>2, <3>3, <3>4, <3>5 DEF Next
  <2>3. /\ account'.address = request[c].link /\ request[c].link \in OpenLinks("address")
        /\ link' = [l \in Links |-> IF link[l].kind = "address"
                                    THEN [link[l] EXCEPT !.open = FALSE] ELSE link[l]]
    BY <2>0, <2>2 DEF WriteAddress, AddressWritten, Account
  <2>4. \A l \in Links : link'[l].kind = "address" => ~link'[l].open
    BY <2>0, <2>3 DEF LinkRow
  <2>. QED
    BY <2>3, <2>4 DEF OpenLinks
<1>2. IInv /\ [Next]_vars =>
        [account'.address # account.address =>
           /\ link[account'.address].open
           /\ \A l \in Links : link'[l].kind = "address" => ~link'[l].open]_account
  BY <1>1
<1>. QED
  BY <1>2, Invariance, PTL DEF Spec, LinkChangesAddressOnce

-----------------------------------------------------------------------------
(* Sessions that are over *)

\* A token is opened only by a request that was about to issue it.
Opens(t) ==
  \E c \in Clients :
    /\ request[c].stage = "issue"
    /\ t \notin Issued
    /\ token'[t].family = IF request[c].token = None THEN t
                          ELSE token[request[c].token].family

\* A refresh goes on with the token it began with, and began with an open one.
RefreshGoesOn(c) ==
  request'[c].op = "refresh" /\ request'[c].stage \in RefreshStages =>
    \/ /\ request[c].op = "refresh" /\ request[c].stage \in RefreshStages
       /\ request'[c].token = request[c].token
    \/ request'[c].token \in Issued /\ token[request'[c].token].state = "open"

LEMMA OpenedByIssue ==
  ASSUME IInv, NEW c \in Clients,
         \/ Session(c) \/ Owner(c) \/ Administrator(c)
         \/ RevokeAll(c) \/ Reply(c) \/ GiveUp(c),
         NEW t \in Tokens, token'[t].state = "open"
  PROVE  token[t].state = "open" \/ Opens(t)
<1>0. token \in [Tokens -> TokenRow]
  BY DEF IInv, TokenInv
<1>1. CASE UNCHANGED token
  BY <1>1
<1>2. CASE Issue(c)
  BY <1>0, <1>2 DEF Issue, At, Opens
<1>3. CASE UseToken(c)
  BY <1>0, <1>3 DEF UseToken, TokenRow
<1>4. CASE RevokeFamily(c) \/ RevokeAll(c)
  <2>1. token'[t] = token[t] \/ token'[t] = [token[t] EXCEPT !.state = "revoked"]
    BY <1>4 DEF RevokeFamily, RevokeAll
  <2>. QED
    BY <1>0, <2>1 DEF TokenRow
<1>5. UNCHANGED token \/ Issue(c) \/ UseToken(c) \/ RevokeFamily(c) \/ RevokeAll(c)
  <2>1. CASE Session(c) \/ RevokeAll(c) \/ Reply(c) \/ GiveUp(c)
    BY <2>1 DEF Session, SignIn, ActivateOnSignIn, RefreshUser, Refresh, Logout,
                RequestGoogle, Callback, SpendAuthorization, SessionFromProfile, Reply,
                GiveUp, Begin
  <2>2. CASE Owner(c)
    BY <2>2 DEF Owner, ChangePassword, WritePassword, RequestReset, RequestAddress,
         SpendLinks, SendLink, ResetUser, WriteReset, SpendReset, WriteAddress,
         AddressWritten, ResetPassword, Confirm, DeleteUser, WriteDeleted, Begin
  <2>3. CASE Administrator(c)
    BY <2>3 DEF Administrator, WriteStatus, WriteRole, ChangeStatus, ChangeRole,
                InviteAgain, FindInvitation, WriteInviteAgain, Resend, WriteResend, Begin
  <2>. QED
    BY <2>1, <2>2, <2>3
<1>. QED
  BY <1>1, <1>2, <1>3, <1>4, <1>5

LEMMA RefreshStep ==
  ASSUME IInv, NEW c \in Clients,
         \/ Session(c) \/ Owner(c) \/ Administrator(c)
         \/ RevokeAll(c) \/ Reply(c) \/ GiveUp(c)
  PROVE  \A d \in Clients : RefreshGoesOn(d)
<1>0. /\ request \in [Clients -> Request]
      /\ request[c] \in Request /\ Sound(request[c], token)
  BY DEF IInv, RequestInv
<1>1. ASSUME NEW r, Put(c, r)
      PROVE  /\ request'[c] = r
             /\ \A d \in Clients \ {c} : RefreshGoesOn(d)
  BY <1>0, <1>1 DEF Put, RefreshGoesOn
<1>2. ASSUME NEW r, Put(c, r), r.op # "refresh"
      PROVE  \A d \in Clients : RefreshGoesOn(d)
  BY <1>1, <1>2 DEF RefreshGoesOn
<1>3. NoRequest.op # "refresh"
  BY DEF NoRequest
<1>4. CASE SignIn(c)
  <2>. DEFINE r == [[NoRequest EXCEPT !.stage = IF IsActive THEN "issue" ELSE "activate"] EXCEPT !.op = "signIn"]
  <2>1. Put(c, r)
    BY <1>4 DEF SignIn, Begin
  <2>2. r.op # "refresh"
    BY DEF NoRequest
  <2>. HIDE DEF r
  <2>. QED
    BY <1>2, <2>1, <2>2
<1>5. CASE ChangePassword(c)
  <2>. DEFINE r == [[NoRequest EXCEPT !.stage = "write"] EXCEPT !.op = "changePassword"]
  <2>1. Put(c, r)
    BY <1>5 DEF ChangePassword, Begin
  <2>2. r.op # "refresh"
    BY DEF NoRequest
  <2>. HIDE DEF r
  <2>. QED
    BY <1>2, <2>1, <2>2
<1>6. CASE DeleteUser(c)
  <2>. DEFINE r == [[NoRequest EXCEPT !.stage = "write"] EXCEPT !.op = "deleteUser"]
  <2>1. Put(c, r)
    BY <1>6 DEF DeleteUser, Begin
  <2>2. r.op # "refresh"
    BY DEF NoRequest
  <2>. HIDE DEF r
  <2>. QED
    BY <1>2, <2>1, <2>2
<1>7. CASE RequestReset(c)
  <2>. DEFINE r == [[NoRequest EXCEPT !.to = "reset", !.stage = "mark"] EXCEPT !.op = "requestLink"]
  <2>1. Put(c, r)
    BY <1>7 DEF RequestReset, Begin
  <2>2. r.op # "refresh"
    BY DEF NoRequest
  <2>. HIDE DEF r
  <2>. QED
    BY <1>2, <2>1, <2>2
<1>8. CASE RequestAddress(c)
  <2>. DEFINE r == [[NoRequest EXCEPT !.to = "address", !.stage = "mark"] EXCEPT !.op = "requestLink"]
  <2>1. Put(c, r)
    BY <1>8 DEF RequestAddress, Begin
  <2>2. r.op # "refresh"
    BY DEF NoRequest
  <2>. HIDE DEF r
  <2>. QED
    BY <1>2, <2>1, <2>2
<1>9. ASSUME NEW l \in Links, ResetPassword(c, l)
      PROVE  \A d \in Clients : RefreshGoesOn(d)
  <2>. DEFINE r == [[NoRequest EXCEPT !.link = l, !.stage = "user"] EXCEPT !.op = "reset"]
  <2>1. Put(c, r)
    BY <1>9 DEF ResetPassword, Begin
  <2>2. r.op # "refresh"
    BY DEF NoRequest
  <2>. HIDE DEF r
  <2>. QED
    BY <1>2, <2>1, <2>2
<1>10. ASSUME NEW l \in Links, Confirm(c, l)
      PROVE  \A d \in Clients : RefreshGoesOn(d)
  <2>. DEFINE r == [[NoRequest EXCEPT !.link = l, !.stage = "write"] EXCEPT !.op = "confirm"]
  <2>1. Put(c, r)
    BY <1>10 DEF Confirm, Begin
  <2>2. r.op # "refresh"
    BY DEF NoRequest
  <2>. HIDE DEF r
  <2>. QED
    BY <1>2, <2>1, <2>2
<1>11. ASSUME NEW s \in AccountStatus, ChangeStatus(c, s)
      PROVE  \A d \in Clients : RefreshGoesOn(d)
  <2>. DEFINE r == [[NoRequest EXCEPT !.to = s, !.stage = "write"] EXCEPT !.op = "changeStatus"]
  <2>1. Put(c, r)
    BY <1>11 DEF ChangeStatus, Begin
  <2>2. r.op # "refresh"
    BY DEF NoRequest
  <2>. HIDE DEF r
  <2>. QED
    BY <1>2, <2>1, <2>2
<1>12. ASSUME NEW role \in MemberRoles, ChangeRole(c, role)
      PROVE  \A d \in Clients : RefreshGoesOn(d)
  <2>. DEFINE r == [[NoRequest EXCEPT !.to = role, !.stage = "write",
                                       !.status = account.status,
                                       !.role = account.role] EXCEPT !.op = "changeRole"]
  <2>1. Put(c, r)
    BY <1>12 DEF ChangeRole, Begin
  <2>2. r.op # "refresh"
    BY DEF NoRequest
  <2>. HIDE DEF r
  <2>. QED
    BY <1>2, <2>1, <2>2
<1>13. ASSUME NEW t \in Tokens, Logout(c, t)
      PROVE  \A d \in Clients : RefreshGoesOn(d)
  <2>. DEFINE r == [[NoRequest EXCEPT !.token = t, !.stage = "revoke",
                                       !.old = Valid \cap Family(t)] EXCEPT !.op = "logout"]
  <2>1. Put(c, r)
    BY <1>13 DEF Logout, Begin
  <2>2. r.op # "refresh"
    BY DEF NoRequest
  <2>. HIDE DEF r
  <2>. QED
    BY <1>2, <2>1, <2>2
<1>24. CASE RequestGoogle(c)
  <2>. DEFINE r == [[NoRequest EXCEPT !.to = "google", !.stage = "create"] EXCEPT !.op = "requestLink"]
  <2>1. Put(c, r)
    BY <1>24 DEF RequestGoogle, Begin
  <2>2. r.op # "refresh"
    BY DEF NoRequest
  <2>. HIDE DEF r
  <2>. QED
    BY <1>2, <2>1, <2>2
<1>25. ASSUME NEW l \in Links, Callback(c, l)
       PROVE  \A d \in Clients : RefreshGoesOn(d)
  <2>. DEFINE r == [[NoRequest EXCEPT !.link = l, !.stage = "mark"] EXCEPT !.op = "google"]
  <2>1. Put(c, r)
    BY <1>25 DEF Callback, Begin
  <2>2. r.op # "refresh"
    BY DEF NoRequest
  <2>. HIDE DEF r
  <2>. QED
    BY <1>2, <2>1, <2>2
<1>26. ASSUME NEW role \in MemberRoles, InviteAgain(c, role)
       PROVE  \A d \in Clients : RefreshGoesOn(d)
  <2>. DEFINE r == [[NoRequest EXCEPT !.to = role, !.stage = "find"] EXCEPT !.op = "inviteAgain"]
  <2>1. Put(c, r)
    BY <1>26 DEF InviteAgain, Begin
  <2>2. r.op # "refresh"
    BY DEF NoRequest
  <2>. HIDE DEF r
  <2>. QED
    BY <1>2, <2>1, <2>2
<1>27. ASSUME NEW i \in Invitations, Resend(c, i)
       PROVE  \A d \in Clients : RefreshGoesOn(d)
  <2>. DEFINE r == [[NoRequest EXCEPT !.found = i, !.stage = "write"] EXCEPT !.op = "resend"]
  <2>1. Put(c, r)
    BY <1>27 DEF Resend, Begin
  <2>2. r.op # "refresh"
    BY DEF NoRequest
  <2>. HIDE DEF r
  <2>. QED
    BY <1>2, <2>1, <2>2
<1>14. ASSUME NEW t \in Tokens, Refresh(c, t)
       PROVE  \A d \in Clients : RefreshGoesOn(d)
  <2>. DEFINE r == [NoRequest EXCEPT
                      !.token = t,
                      !.stage = IF token[t].state = "open" THEN "user" ELSE "revoke",
                      !.old = IF token[t].state = "open" THEN {} ELSE Valid \cap Family(t),
                      !.op = "refresh"]
  <2>1. Put(c, r) /\ t \in Issued
    BY <1>14 DEF Refresh, Begin, NoRequest
  <2>2. /\ r.token = t
        /\ r.stage = IF token[t].state = "open" THEN "user" ELSE "revoke"
    BY DEF NoRequest
  <2>. HIDE DEF r
  <2>3. request'[c] = r /\ \A d \in Clients \ {c} : RefreshGoesOn(d)
    BY <1>1, <2>1
  <2>4. RefreshGoesOn(c)
    BY <2>1, <2>2, <2>3 DEF RefreshGoesOn, RefreshStages
  <2>. QED
    BY <2>3, <2>4
<1>15. CASE RefreshUser(c) \/ UseToken(c)
  <2>1. PICK stage \in {"use", "issue"} : Put(c, [request[c] EXCEPT !.stage = stage])
    BY <1>15 DEF RefreshUser, UseToken, GoTo
  <2>. DEFINE r == [request[c] EXCEPT !.stage = stage]
  <2>2. r.token = request[c].token
    BY <1>0 DEF Request
  <2>3. request[c].op = "refresh" /\ request[c].stage \in RefreshStages
    BY <1>0, <1>15 DEF RefreshUser, UseToken, At, Sound, SoundTokens, RefreshStages
  <2>. HIDE DEF r
  <2>4. request'[c] = r /\ \A d \in Clients \ {c} : RefreshGoesOn(d)
    BY <1>1, <2>1 DEF r
  <2>5. RefreshGoesOn(c)
    BY <2>2, <2>3, <2>4 DEF RefreshGoesOn
  <2>. QED
    BY <2>4, <2>5
<1>16. CASE \/ ActivateOnSignIn(c) \/ SpendLinks(c) \/ ResetUser(c) \/ WriteReset(c)
            \/ SpendAuthorization(c) \/ SessionFromProfile(c) \/ FindInvitation(c)
  <2>1. request[c].op # "refresh"
    BY <1>0, <1>16 DEF ActivateOnSignIn, SpendLinks, ResetUser, WriteReset, At, Sound,
                       SpendAuthorization, SessionFromProfile, FindInvitation, SoundTokens,
                       SoundFields
  <2>2. PICK r : Put(c, r) /\ r.op = request[c].op
    <3>1. CASE ActivateOnSignIn(c)
      BY <1>0, <3>1 DEF ActivateOnSignIn, GoTo, Request
    <3>2. CASE SpendLinks(c)
      BY <1>0, <3>2 DEF SpendLinks, GoTo, Request
    <3>3. CASE ResetUser(c)
      <4>. DEFINE r == [request[c] EXCEPT !.stage = "write", !.status = account.status]
      <4>1. r.op = request[c].op
        BY <1>0 DEF Request
      <4>. QED
        BY <3>3, <4>1 DEF ResetUser
    <3>4. CASE WriteReset(c)
      <4>. DEFINE r == [request[c] EXCEPT !.stage = "mark", !.old = Valid]
      <4>1. r.op = request[c].op
        BY <1>0 DEF Request
      <4>. QED
        BY <3>4, <4>1 DEF WriteReset
    <3>5. CASE SpendAuthorization(c) \/ SessionFromProfile(c)
      <4>1. PICK stage \in Stages : GoTo(c, stage)
        BY <3>5 DEF SpendAuthorization, SessionFromProfile, Stages
      <4>2. [request[c] EXCEPT !.stage = stage].op = request[c].op
        BY <1>0 DEF Request
      <4>. QED
        BY <4>1, <4>2 DEF GoTo
    <3>6. CASE FindInvitation(c)
      <4>1. PICK i : Put(c, [request[c] EXCEPT !.found = i, !.stage = "write"])
        BY <3>6 DEF FindInvitation
      <4>2. [request[c] EXCEPT !.found = i, !.stage = "write"].op = request[c].op
        BY <1>0 DEF Request
      <4>. QED
        BY <4>1, <4>2
    <3>. QED
      BY <1>16, <3>1, <3>2, <3>3, <3>4, <3>5, <3>6
  <2>. QED
    BY <1>2, <2>1, <2>2
<1>17. ASSUME Done(c) \/ \E stage, old : Owes(c, stage, old)
       PROVE  \A d \in Clients : RefreshGoesOn(d)
  <2>1. CASE Done(c)
    BY <1>2, <1>3, <2>1 DEF Done
  <2>2. ASSUME NEW stage, NEW old, Owes(c, stage, old)
        PROVE  \A d \in Clients : RefreshGoesOn(d)
    <3>1. [NoRequest EXCEPT !.stage = stage, !.old = old].op # "refresh"
      BY DEF NoRequest
    <3>. QED
      BY <1>2, <2>2, <3>1 DEF Owes
  <2>. QED
    BY <1>17, <2>1, <2>2
<1>18. CASE \/ Issue(c) \/ SendLink(c) \/ WriteDeleted(c) \/ Reply(c) \/ GiveUp(c)
            \/ WriteInviteAgain(c) \/ WriteResend(c)
  BY <1>17, <1>18 DEF Issue, SendLink, WriteDeleted, Reply, GiveUp, WriteInviteAgain,
                      WriteResend
<1>19. CASE RevokeFamily(c) \/ RevokeAll(c) \/ SpendReset(c)
  BY <1>17, <1>19 DEF RevokeFamily, RevokeAll, SpendReset
<1>20. CASE WritePassword(c) \/ WriteAddress(c) \/ WriteStatus(c) \/ WriteRole(c)
  <2>1. EndSessions(c) \/ Done(c)
    BY <1>20 DEF WritePassword, WriteAddress, AddressWritten, WriteStatus, WriteRole
  <2>. QED
    BY <1>17, <2>1 DEF EndSessions
<1>21. CASE Session(c)
  BY <1>4, <1>13, <1>14, <1>15, <1>16, <1>18, <1>19, <1>21, <1>24, <1>25 DEF Session
<1>22. CASE Owner(c)
  BY <1>5, <1>6, <1>7, <1>8, <1>16, <1>18, <1>19, <1>20, <1>22, <1>9, <1>10 DEF Owner
<1>23. CASE Administrator(c)
  BY <1>11, <1>12, <1>16, <1>18, <1>20, <1>23, <1>26, <1>27 DEF Administrator
<1>. QED
  BY <1>18, <1>19, <1>21, <1>22, <1>23

\* A session that is over stays over: no step of any request opens a token of its
\* family again, with any number of refreshes, sign-ins and revocations.
THEOREM SessionsStayOver == Spec => SessionStaysOver
<1>1. ASSUME IInv, [Next]_vars, NEW f \in Tokens, Over(f)
      PROVE  Over(f)'
  <2>0. TokenInv /\ RequestInv /\ f \in Issued
    BY <1>1 DEF IInv, Over, Issued
  <2>1. CASE UNCHANGED <<token, request>>
    BY <1>1, <2>1 DEF Over, Family, Issued, Refreshing
  <2>2. ASSUME NEW c \in Clients,
               \/ Session(c) \/ Owner(c) \/ Administrator(c)
               \/ RevokeAll(c) \/ Reply(c) \/ GiveUp(c)
        PROVE  Over(f)'
    <3>1. Grows(token, token')
      BY <1>1, <2>2, ClientRequests
    <3>2. \A t \in Issued : token'[t].state # "none" /\ token'[t].family = token[t].family
      BY <3>1 DEF Grows, IssuedIn, Issued
    <3>3. \A d \in Clients : request[d].op = "refresh" /\ request[d].stage \in RefreshStages =>
            request[d].token \in Issued /\ token[request[d].token].family # token[f].family
      BY <1>1, <2>0 DEF RequestInv, Sound, SoundTokens, IssuedIn, Issued, Over, Refreshing,
                        RefreshStages
    <3>4. \A t \in Issued : token[t].family = token[f].family => token[t].state # "open"
      BY <1>1 DEF Over, Family
    <3>5. \A t \in Tokens : token'[t].family = token[f].family => token'[t].state # "open"
      <4>. SUFFICES ASSUME NEW t \in Tokens, token'[t].family = token[f].family,
                           token'[t].state = "open"
                    PROVE  FALSE
        OBVIOUS
      <4>1. CASE token[t].state = "open"
        BY <3>2, <3>4, <4>1 DEF Issued
      <4>2. CASE Opens(t)
        <5>1. PICK d \in Clients :
                /\ request[d].stage = "issue" /\ t \notin Issued
                /\ token'[t].family = IF request[d].token = None THEN t
                                      ELSE token[request[d].token].family
          BY <4>2 DEF Opens
        <5>2. CASE request[d].token = None
          BY <2>0, <5>1, <5>2 DEF TokenInv
        <5>3. CASE request[d].token # None
          <6>1. request[d].op = "refresh" /\ request[d].stage \in RefreshStages
            BY <2>0, <5>1, <5>3 DEF RequestInv, Sound, SoundTokens, RefreshStages
          <6>. QED
            BY <3>3, <5>1, <5>3, <6>1
        <5>. QED
          BY <5>2, <5>3
      <4>. QED
        BY <1>1, <2>2, <4>1, <4>2, OpenedByIssue
    <3>6. ASSUME NEW d \in Clients, request'[d].op = "refresh",
                 request'[d].stage \in RefreshStages,
                 token'[request'[d].token].family = token[f].family
          PROVE  FALSE
      <4>1. RefreshGoesOn(d)
        BY <1>1, <2>2, RefreshStep
      <4>. QED
        BY <3>2, <3>3, <3>4, <3>6, <4>1 DEF RefreshGoesOn
    <3>. QED
      BY <2>0, <3>2, <3>5, <3>6 DEF Over, Family, Issued, Refreshing, RefreshStages
  <2>3. CASE \E i \in Invitations : Activate(i) \/ CancelInvitation(i)
    BY <2>1, <2>3 DEF Activate, CancelInvitation
  <2>. QED
    BY <1>1, <2>1, <2>2, <2>3 DEF Next, vars
<1>2. IInv /\ [Next]_vars => [\A f \in Tokens : Over(f) => Over(f)']_<<token, request>>
  BY <1>1
<1>. QED
  BY <1>2, Invariance, PTL DEF Spec, SessionStaysOver

=============================================================================
