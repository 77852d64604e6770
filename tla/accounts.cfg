SPECIFICATION Spec
CONSTANTS
  p1 = p1
  p2 = p2
  Clients = {p1, p2}
  Tokens = {k1, k2}
  Links = {l1, l2}
  Invitations = {i1, i2}
  OtherRoles = {r1, r2}
  Ops <- MCOps
  None = None
INVARIANTS TypeOK SignedOut
CONSTRAINT OneConcern
SYMMETRY Symmetry
CHECK_DEADLOCK FALSE
PROPERTIES RoleLostOnlyByInvitation SessionStaysOver LinkChangesAddressOnce
