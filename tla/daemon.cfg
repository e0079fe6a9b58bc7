SPECIFICATION DaemonSpec
CONSTANTS
  Alone = r1
  Runs = {r1, r2}
  Things = {t1}
  Agents = {a1}
  Failures = {"early", "late"}
  MaxCrashes = 2
CHECK_DEADLOCK FALSE
INVARIANTS AcknowledgedIsDurable RunningIsHeardOf RefusedIsForgotten
PROPERTIES OutcomesStand RunsEnd
