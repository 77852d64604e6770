------------------------------ MODULE MCAccounts ------------------------------
(* Accounts for TLC. *)
EXTENDS Accounts, TLC

CONSTANTS p1, p2

\* One client requests anything, and so everything meets what the other one does.
MCOps == p1 :> OpNames @@ p2 :> {"refresh", "google", "confirm", "changeRole", "inviteAgain"}

\* Links that exist, or that somebody is about to create.
KindsInUse == ({link[l].kind : l \in Links} \cup {request[c].to : c \in Clients}) \cap LinkKinds

\* Sessions and links have nothing in common with the roles an account is invited in
\* but its status.  A state is about the one, with one invitation and one role other
\* than STUDENT in use, and one authorization of Google or links in letters, or about the
\* other, before there are tokens and links.
AboutSessions ==
  /\ KindsInUse = {"google"} \/ "google" \notin KindsInUse
  /\ \A k, l \in Links : link[k].kind = "google" /\ link[l].kind = "google" => k = l
  /\ \A c \in Clients : request[c].op \notin {"inviteAgain", "resend"}
  /\ request[p2].op # "changeRole"
  /\ \E i \in Invitations : \A j \in Invitations \ {i} : invitation[j] = NoInvitation
  /\ \E r \in OtherRoles : /\ account.role # r
                          /\ \A i \in Invitations : invitation[i].role # r
                          /\ \A c \in Clients : r \notin {request[c].to, request[c].role}

AboutRoles ==
  /\ \A t \in Tokens : token[t] = NoToken
  /\ \A l \in Links : link[l] = NoLink
  /\ \A c \in Clients : request[c].op \notin {"requestLink", "changePassword"}

OneConcern == AboutSessions \/ AboutRoles

Symmetry == Permutations(Tokens) \cup Permutations(Links) \cup Permutations(Invitations)
            \cup Permutations(OtherRoles)
=============================================================================
