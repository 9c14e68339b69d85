CONSTANTS
  People = {ann, bob, cid, dan}
  Founder = ann
  Requests = {q1, q2}
  MaxMembers = 3
  MaxInvites = 3
  MaxCalls = 4
SPECIFICATION Spec
SYMMETRY Symmetry
INVARIANTS TypeOK OwnerUnlessRaced SeatsUnlessRaced OneInviteUnlessRaced
PROPERTY JoinUsesUpAnInvite
CHECK_DEADLOCK FALSE
