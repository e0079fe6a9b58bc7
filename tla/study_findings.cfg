SPECIFICATION MCSpec
\* A decision, a consensus and a ledger are made once.
CHECK_DEADLOCK FALSE
INVARIANTS SelectionsAreFair DecisionsRestOnPeople
PROPERTIES FindingsMakeOneCase CommitmentsAreReplacedInOrder
