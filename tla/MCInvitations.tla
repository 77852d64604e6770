---------------------------- MODULE MCInvitations ----------------------------
(***************************************************************************)
(* Small instances of Invitations for TLC.                                 *)
(***************************************************************************)
EXTENDS Invitations, TLC

\* Links and invitations are numbered in the order they are issued, so only
\* processes and requests are interchangeable.
Symmetry == Permutations(Workers) \cup Permutations(Clients)
=============================================================================
