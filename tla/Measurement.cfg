\* No symmetry, since liveness is checked.
CONSTANTS
    c1 = c1
    c2 = c2
    NoConn = NoConn
    Conns = {c1, c2}
    MaxSeq = 3
    MaxWarm = 1
    MaxDups = 1
SPECIFICATION Spec
INVARIANTS ResetNeverInflates ReportExactWhenQuiet LossUnderstatedByAtMostOne
PROPERTIES RunTerminates
