SPECIFICATION Spec
CONSTANTS
  t1 = t1
  t2 = t2
  t3 = t3
  p1 = p1
  p2 = p2
  r1 = r1
  r2 = r2
  NoTask = NoTask
  NoProject = NoProject
  Tasks <- MCThree
  Projects <- MCProjects
  Requests <- MCRequests
SYMMETRY MCSymmetry
INVARIANTS
  OneLevelOneProject
PROPERTIES
  EachAloneKeepsGraph
CHECK_DEADLOCK FALSE
