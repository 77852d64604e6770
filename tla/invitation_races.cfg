SPECIFICATION FairSpec
CONSTANTS
  MaxLinks = 2
  MaxInvitations = 1
  Workers = {w1}
  MaxAttempts = 2
  MaxFaults = 1
  Clients = {p1, p2}
  Ops = {"invite", "resend", "cancel", "activate"}
INVARIANTS CurrentLinkHasLetter AcceptedHasPassword
PROPERTIES ActivatedOnce SettledForGood EveryLetterSettles
CHECK_DEADLOCK FALSE
