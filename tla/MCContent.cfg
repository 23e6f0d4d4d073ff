SPECIFICATION Spec
CONSTANTS
  u1 = u1
  u2 = u2
  u3 = u3
  d1 = d1
  d2 = d2
  Users = {u1, u2, u3}
  Tokens = {d1, d2}
  Requests = {1, 2, 3}
  Earlier = earlier
  None = none
  Url = url
  Plans <- MCPlans
  Access0 = {u1, u2, u3}
  NoteOf = u1
  MaxTime = 3
  Late = 2
  MaxDeaths = 1
  Moderators = {u2}
  Watchers = {u1, u3}
  Comments0 <- MCComments0
  Rows0 = {earlier}
  Avatar0 <- MCAvatar0
INVARIANTS
  RepliesAnchored
  FilesAreThere
  NoFileForgotten
  HeardOnce
  ToldWhoSees
  DevicesFollowSignIn
  RemindedOnce
PROPERTIES
  RemindedInTheEnd
CHECK_DEADLOCK FALSE
