SPECIFICATION Spec
CONSTANTS
    Participants = {p1, p2}
    Sessions = {s1, s2, s3, s4}
    Ratings = {2, 5}
    Changes <- MCChanges
    None = None
    MaxRows = 4
SYMMETRY Symmetry
CHECK_DEADLOCK FALSE
INVARIANTS ReportAddsUp
