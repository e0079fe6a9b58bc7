SPECIFICATION MCSpec
CONSTANTS
    s1 = s1  s2 = s2  s3 = s3  t1 = t1  t2 = t2  t3 = t3  only = only
    u1 = u1  u2 = u2  w1 = w1  none = none  nokey = nokey
SYMMETRY TaskSymmetry
\* The number of commands, entries and edits is bounded.
CHECK_DEADLOCK FALSE
INVARIANTS RecordsHoldTogether
PROPERTIES WindowsStayApart
