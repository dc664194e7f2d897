SPECIFICATION FairSpec
CONSTANTS
    t1 = t1
    t2 = t2
    t3 = t3
    Tracks = {t1, t2, t3}
    FirstQueue <- MCFirstQueue
    Counts = {2}
    MaxLength = 2
    HistoryLimit = 0
    MaxTasks = 3
INVARIANTS TypeOK OnlyFullTracksSound PageTellsAudio
PROPERTIES AdaptsAhead ComesToRest
