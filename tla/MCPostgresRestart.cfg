SPECIFICATION Spec
CONSTANTS
    None = None
    Tracks = {t1, t2, t3, t4}
    ClientIds = {e1, e2}
    EventIds = {e1, e2}
    Sessions = {s1}
    Handlers = {h1}
    PoolSize = 1
    QueueLengths = {3}
    StartMoods = {calm}
    TargetMoods = {bright}
    CheckInMoods = {low}
    SentTypes = {"start", "skip", "like"}
    SentForms = {TRUE}
    HistoryLimit = 2
    Retention = 3
    MaxRevision = 4
    MaxClock = 3
    Moods <- MCMoods
    TrackMood <- MCTrackMood
    Catalogs <- OneLost
    AudioStates <- OneDamaged
SYMMETRY Symmetry
VIEW WithoutReply
INVARIANTS
    PathFollowsListener
PROPERTIES
    KeepsContract
