SPECIFICATION MCSpec
CONSTANTS
  top = top  c1 = c1  c2 = c2  c3 = c3  a1 = a1
  w1 = w1  w2 = w2  d1 = d1  d2 = d2
  NoAgent = NoAgent  Unused = Unused  Removed = Removed  NoPlan = NoPlan
  Task = {top, c1, c2, c3}
  Parent = top
  Agent = {a1}
  EdgeId = {e1}
  Inputs <- Idle
  PlanInputs <- OfPlans
  Window = {w1, w2}
  Design = {d1, d2}
  Chats <- OfChats
CHECK_DEADLOCK FALSE
INVARIANTS ParentFollowsChildren AppliedOnceAsConfirmed
PROPERTIES ChildrenStartInTurn NothingOverwritten
