SPECIFICATION Spec
CONSTANTS
    None = None
    Tracks = {t1, t2, t3}
    ClientIds = {e1}
    EventIds = {e1, a1}
    Sessions = {s1}
    Handlers = {h1, h2}
    PoolSize = 2
    QueueLengths = {2}
    StartMoods = {calm}
    TargetMoods = {bright}
    CheckInMoods = {low}
    SentTypes = {"complete", "like"}
    SentForms = {TRUE}
    HistoryLimit = 2
    Retention = 2
    MaxRevision = 4
    MaxClock = 4
    Moods <- MCMoods
    TrackMood <- MCTrackMood
    Catalogs <- SameCatalog
    AudioStates <- AllAudio
SYMMETRY Symmetry
VIEW WithoutReply
INVARIANTS
    TypeOK PreparedOnCurrentRow LocksAreHeld KeyIsFree ListedInOrder
PROPERTIES
    KeepsContract RepliesAreCommitted AcceptedAsSent ExpiryHolds
