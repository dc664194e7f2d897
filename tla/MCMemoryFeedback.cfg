SPECIFICATION Spec
CONSTANTS
    None = None
    Tracks = {t1, t2, t3, t4}
    ClientIds = {e1, e2}
    EventIds = {e1, e2}
    Sessions = {s1}
    Workers = {}
    QueueLengths = {1, 2, 3, 5}
    StartMoods = {calm}
    TargetMoods = {bright}
    CheckInMoods = {low}
    HistoryLimit = 2
    MaxRevision = 4
    Moods <- MCMoods
    TrackMood <- MCTrackMood
    AudioStates <- AllAudio
SYMMETRY Symmetry
VIEW WithoutReply
INVARIANTS
    TypeOK AuditMatchesQueue RetriesRecognised StatusAgrees
    CheckInAgrees NoOrphans QueueSound DestinationKept FutureFollowsListener
PROPERTIES
    LockedStaysLocked RepliesAreCurrent KeepsContract
