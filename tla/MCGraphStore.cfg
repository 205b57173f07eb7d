CONSTANTS
    Node = {1, 2, 3}
    Edge <- MCEdge
    Query <- MCQuery
    None = None
    MaxWrites = 4
    MaxNow = 2
SPECIFICATION Spec
CHECK_DEADLOCK FALSE
INVARIANTS AdjacencyAgrees SubgraphClosed TraverseReaches
