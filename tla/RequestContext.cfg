CONSTANTS
    s = s
    t = t
    site = site
    lab = lab
    demo = demo
    Threads = {s, t}
    Apps = {site, lab, demo}
    LogLevels = {1, 3, 4}
    Debugged = {lab}
    MaxRequests = 2
    MaxNesting = 2
SPECIFICATION Spec
INVARIANTS TypeOK LastCallWins RecordsAreAttributed RecordsAreWrittenOnce AnswersNameTheirRequest GenericAnswersAreTraceable
CONSTRAINTS OneOfTheApplication DemoIsLast
SYMMETRY Symmetric
CHECK_DEADLOCK FALSE
