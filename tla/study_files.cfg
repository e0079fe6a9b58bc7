SPECIFICATION MCSpec
CONSTANTS
    p1 = p1  s1 = s1  s2 = s2  t1 = t1  t2 = t2  j1 = j1  j2 = j2
    cli = cli  grader = grader
    Procs = {p1}  Screenings = {s1, s2}  Classifications = {t1, t2}
    Commands <- ReviewCommands  CommandsMayDie = TRUE
    Scans = {s1, s2}  Takes = {t1, t2}  Judges = {j1, j2}
    Sites = {s1, s2}  Cli = cli  Grader = grader  Items <- Episodes  Replies = {t1, t2}
    Triages <- OfTriages
INVARIANTS AnswersMeetTheirQuestions BoundIsWhatWasGiven
PROPERTIES AnswersAreKept
