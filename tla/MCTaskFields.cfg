SPECIFICATION Spec
CONSTANTS
  t1 = t1
  u1 = u1
  l1 = l1
  r1 = r1
  r2 = r2
  NoTask = NoTask
  NoUser = NoUser
  NoLabel = NoLabel
  Tasks <- MCTasks
  Users <- MCUsers
  Labels <- MCLabels
  Requests <- MCRequests
  Bodies <- MCBodies
  d1 = d1
  NoDate = NoDate
  Dates <- MCDates
SYMMETRY MCSymmetry
PROPERTIES
  CompletionFollows
  RemindsOnce
  LabelsExist
  LeaversLetGo
  AssigneesSeeProject
CHECK_DEADLOCK FALSE
