\* The loop bound is the code's. A search that reads an empty list stops the server:
\* no deadlock check.
SPECIFICATION SearchSpec
CHECK_DEADLOCK FALSE
CONSTANTS
    Maps <- MCMaps
    Requests <- MCRequests
    Cols = 6
    Rows = 6
    OpenMax = 30
    PointMax = 4
    MaxStale = 1
INVARIANTS Walkable StartsHere 
