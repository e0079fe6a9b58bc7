SPECIFICATION ProgressSpec
CONSTANTS
  t1 = t1  t2 = t2  t3 = t3  a1 = a1
  NoAgent = NoAgent  Unused = Unused  Removed = Removed
  Task = {t1, t2, t3}
  Agent = {a1}
  EdgeId = {e1, e2}  e1 = e1  e2 = e2
  Inputs <- Idle
  Node = {n1, n2, n3}
CHECK_DEADLOCK FALSE
INVARIANTS StartsWereDue
PROPERTIES NoNodeForgotten ReadyNodesStart WalkAnswers
