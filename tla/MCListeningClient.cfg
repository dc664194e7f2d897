SPECIFICATION ClientSpec
CONSTANTS
    None = None
    Tracks = {t1, t2, t3}
    ClientIds = {e1}
    EventIds = {e1, a1, a2, a3, a4}
    Sessions = {s1}
    Sid = s1
    Workers = {w1, w2}
    Tab = w1
    QueueLengths = {3}
    StartMoods = {calm}
    TargetMoods = {bright}
    CheckInMoods = {low}
    HistoryLimit = 2
    MaxRevision = 5
    OthersUntil = 2
    damaged = t3
    Moods <- MCMoods
    TrackMood <- MCTrackMood
    AudioStates <- MCAudio
INVARIANTS
    AuditInRevisionOrder
PROPERTIES
    JourneyCompletes ExpiredStaysFrozen
