CONSTANTS
    Vertices = {v1, v2, v3}
    MaxEdges = 3
    Size0 = 2
    Towns = 2
    Costs = {1}
SPECIFICATION SearchSpec
INVARIANT DijkstraFindsWays
CHECK_DEADLOCK FALSE
