SPECIFICATION Spec
CONSTANTS
  MaxLinks = 2
  MaxInvitations = 2
  Workers = {w1, w2}
  MaxAttempts = 2
  MaxFaults = 2
  Clients = {p1}
  Ops = {"invite", "inviteAgain", "resend", "cancel", "activate"}
INVARIANTS TypeOK LinkStoredWhileUnfinished OnePumpPerJob
SYMMETRY Symmetry
CHECK_DEADLOCK FALSE
