SPECIFICATION Spec
CONSTANTS
  u1 = u1
  u2 = u2
  w1 = w1
  p1 = p1
  r1 = r1
  r2 = r2
  NoUser = NoUser
  Users <- MCUsers
  OrgIds <- MCOrgIds
  PersonalIds <- MCPersonalIds
  Requests <- MCRequests
  InviteRoles <- MCInviteRoles
  UpdateBodies <- MCUpdateBodies
  MaxInvites = 2
SYMMETRY MCSymmetry
INVARIANTS
  OwnerMembership
  PersonalSolo
PROPERTIES
  ActsOnTheRowRead
  ImplementsRoster
