SPECIFICATION Spec
CONSTANTS
    Tracks = {1, 2, 3, 4}
    g1 = g1
    g2 = g2
    Genres = {g1, g2}
    Width = 12
    Catalogs <- MCCatalogs
    Requests <- MCRequests
CHECK_DEADLOCK FALSE
INVARIANTS NeverStarves OptimalUnlessPruned
