SPECIFICATION FairSpec
CONSTANTS
    r1 = r1  r2 = r2
    Runs = {r1, r2}
    Packets = {1, 2}
    Setups <- AnySetup
CHECK_DEADLOCK FALSE
INVARIANTS CheckpointIsSound
PROPERTIES ImplementsLedger RowsSurvive RunEnds
