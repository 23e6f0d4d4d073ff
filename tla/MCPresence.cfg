\* One person, two devices, two processes.
SPECIFICATION Spec
CONSTANTS
  u1 = u1
  s1 = s1
  s2 = s2
  i1 = i1
  i2 = i2
  r1 = r1
  r2 = r2
  Nowhere = Nowhere
  Users <- MCUsers
  Sockets <- MCSockets
  Instances <- MCInstances
  Watchers <- MCWatchers
  Home <- MCHome
  Owner <- MCOwner
  Handlers <- MCHandlers
  Closers <- MCClosers
  Faulty <- MCFaulty
INVARIANTS
  OpenHasRow
  ShownIsRight
PROPERTIES
  RowsGo
CHECK_DEADLOCK FALSE
