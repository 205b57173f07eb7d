---------------------------- MODULE MCGraphStore ----------------------------
\* Three nodes, two edge ids that can be rewired, and reads that differ in
\* direction, depth, filters and budgets.
EXTENDS GraphStore

E(id, from, to, vf, vt) ==
    [id |-> id, from |-> from, to |-> to, type |-> "t", validFrom |-> vf, validTo |-> vt]

MCEdge == { E(1, 1, 2, 0, 0), E(2, 2, 3, 0, 0), E(2, 2, 2, 0, 2), E(1, 3, 2, 2, 0),
            E(2, 1, 3, 0, 0) }

Q(kind, dir, depth, maxNodes, maxEdges, fanOut) ==
    [kind |-> kind, start |-> 1, dir |-> dir, types |-> {}, labelled |-> {}, asOf |-> 0, depth |-> depth,
     maxNodes |-> maxNodes, maxEdges |-> maxEdges, fanOut |-> fanOut]

MCQuery == { Q("traverse", "both", 2, 4, 0, 2), Q("traverse", "out", 1, 3, 0, 0),
             Q("traverse", "both", 2, 2, 2, 0), Q("traverse", "out", 3, 0, 1, 1),
             Q("neighbors", "both", 1, 1, 0, 0),
             [Q("neighbors", "in", 1, 3, 0, 0) EXCEPT !.start = 2, !.types = {"t"},
                                               !.labelled = {1}] }
=============================================================================
