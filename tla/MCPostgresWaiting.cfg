SPECIFICATION FairSpec
CONSTANTS
    None = None
    Tracks = {t1}
    ClientIds = {}
    EventIds = {a1}
    Sessions = {s1}
    Handlers = {h1, h2, h3}
    PoolSize = 2
    QueueLengths = {1}
    StartMoods = {calm}
    TargetMoods = {bright}
    CheckInMoods = {}
    SentTypes = {}
    SentForms = {TRUE}
    HistoryLimit = 2
    Retention = 1
    MaxRevision = 2
    MaxClock = 1
    Moods <- MCMoods
    TrackMood <- MCTrackMood
    Catalogs <- SameCatalog
    AudioStates <- AllAudio
PROPERTIES
    EveryRequestEnds
