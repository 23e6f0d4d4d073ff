SPECIFICATION Spec
CONSTANTS
  ann = ann
  bob = bob
  a1 = a1
  b1 = b1
  MaxExpiries = 1
  Users = {ann, bob}
  Sockets = {a1, b1}
  OwnerOf <- MCOwnerOf
  Requests = {1, 2, 3}
  Calls <- MCCalls
  Members0 <- MCMembers0
  OnProject0 = {ann}
INVARIANTS
  RoomsFollowAccess
  InformedOfChanges
  TypingRetracted
PROPERTIES
  RevokedLeaves
CHECK_DEADLOCK FALSE
