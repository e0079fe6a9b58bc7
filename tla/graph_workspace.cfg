SPECIFICATION GraphSpec
CONSTANTS
  t1 = t1  t2 = t2  t3 = t3  a1 = a1  a2 = a2
  NoAgent = NoAgent  Unused = Unused  Removed = Removed
  Task = {t1, t2, t3}
  Agent = {a1, a2}
  EdgeId = {e1, e2}
  Inputs <- Idle
SYMMETRY EdgeSymmetry
CHECK_DEADLOCK FALSE
INVARIANTS TypeOK GateCoherent IssueHoldJustified HappensBeforeAcyclic ActiveEdgesAreCurrent AttemptsAreFenced
PROPERTIES HoldReleasedOnlyWhenClear OutcomesAreFinal VerdictSettlesItsGeneration StartsRespectGates
