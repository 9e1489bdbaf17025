\* Two addresses, two requests at a time, any number one after another.
CONSTANTS
  Requests = {q1, q2}
  Emails = {e1, e2}
  Teams = {t1, t2}
  Invites = {i1, i2}
  Roles = {"owner", "member"}
  None = None
  NewTeam = NewTeam
SPECIFICATION Spec
SYMMETRY MembershipSymmetry
INVARIANTS TypeOK TeamIsLed OnePlatformInvite
