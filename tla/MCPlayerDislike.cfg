SPECIFICATION Spec
CONSTANTS
    t1 = t1
    t2 = t2
    t3 = t3
    Tracks = {t1, t2, t3}
    FirstQueue <- MCFirstQueue
    Counts = {2}
    MaxLength = 2
    HistoryLimit = 1
    MaxTasks = 2
PROPERTY FailureIsNotDislike
