SPECIFICATION Spec
CONSTANTS
    Tracks = {1, 2, 3, 4, 5, 6}
    g1 = g1
    g2 = g2
    g3 = g3
    a1 = a1
    a2 = a2
    Genres = {g1, g2, g3}
    Tempos = {60, 90, 180}
    Artists = {a1, a2}
    EventIds = {1, 2}
    Inputs <- MCInputs
CHECK_DEADLOCK FALSE
INVARIANTS TypeOK WeightsAreSums ExplorationKept ColdStartCoversGenres
PROPERTIES FeedbackIsMonotone
