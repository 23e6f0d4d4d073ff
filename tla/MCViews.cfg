SPECIFICATION Spec
CONSTANTS
  ann = ann
  bob = bob
  w1 = w1
  w2 = w2
  p1 = p1
  p2 = p2
  p3 = p3
  t1 = t1
  t2 = t2
  t3 = t3
  t4 = t4
  Users = {ann, bob}
  Workspaces = {w1, w2}
  Projects = {p1, p2, p3}
  Tasks = {t1, t2, t3, t4}
  Requests = {1, 2, 3}
  Plans <- MCPlans
  Now <- MCNow
  Day = 2
  ListLimit = 1
INVARIANTS
  SameVisibility
  ShownWasVisible
  FiguresAddUp
CHECK_DEADLOCK FALSE
