CONSTANTS
  People = {ann, bob, cid}
  Founder = ann
  Requests = {q1, q2}
  MaxMembers = 2
  MaxInvites = 2
  MaxCalls = 4
SPECIFICATION Spec
CHECK_DEADLOCK FALSE
INVARIANT AlwaysAnOwner
