SPECIFICATION Spec
CONSTANTS
    None = None
    Tracks = {t1, t2}
    ClientIds = {}
    EventIds = {a1, a2}
    Sessions = {s1}
    Handlers = {h1, h2}
    PoolSize = 1
    QueueLengths = {2}
    StartMoods = {calm}
    TargetMoods = {bright}
    CheckInMoods = {low}
    SentTypes = {}
    SentForms = {TRUE}
    HistoryLimit = 2
    Retention = 2
    MaxRevision = 3
    MaxClock = 3
    Moods <- MCMoods
    TrackMood <- MCTrackMood
    Catalogs <- SameCatalog
    AudioStates <- AllAudio
PROPERTIES
    ListedSessionsExist
