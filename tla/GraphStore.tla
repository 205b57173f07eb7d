----------------------------- MODULE GraphStore -----------------------------
(***************************************************************************)
(* The graph block (internal/graph): the memory driver, which holds its    *)
(* lock for a whole call, and the PostgreSQL driver, whose reads run       *)
(* statement by statement at READ COMMITTED.  One driver is chosen at the  *)
(* start, one namespace is modelled.                                       *)
(*                                                                         *)
(* Edges need not have stored endpoints.  Edge ids are numbers, for the    *)
(* ORDER BY id of the SQL driver; the memory driver visits edges in the    *)
(* random order of Go's maps.                                              *)
(***************************************************************************)
EXTENDS Integers, FiniteSets, Sequences, SequencesExt

CONSTANTS
    Node,          \* node ids
    Edge,          \* edges clients write: [id, from, to, type, validFrom, validTo]
    Query,         \* options of the modelled reads; labelled is the set of
                   \* nodes that carry a wanted label, {} for no label filter
    None,
    MaxWrites,     \* bound: writing calls
    MaxNow         \* bound: the clock

ASSUME GraphAssumption ==
    /\ \A e \in Edge : e.id \in Nat /\ e.from \in Node /\ e.to \in Node
    /\ \A q \in Query : /\ q.maxNodes \in Nat /\ q.maxEdges \in Nat /\ q.fanOut \in Nat
                        /\ q.kind = "traverse" => q.depth \in Nat \ {0}
    /\ None \notin Node /\ Node # {} /\ MaxWrites \in Nat /\ MaxNow \in Nat \ {0}

VARIABLES
    driver,        \* "memory" or "postgres"
    now,
    nodes,         \* per stored node: when it was created
    edges,         \* the stored edges
    out, in,       \* memory: adjacency, pairs of a node and an edge id
    query,         \* the Neighbors or Traverse call in progress
    del,           \* postgres: the DeleteNode transaction in progress
    writes

vars == <<driver, now, nodes, edges, out, in, query, del, writes>>

NoDelete == [pc |-> "idle", node |-> None, incident |-> {}, cascade |-> FALSE]
NoQuery  == [pc |-> "idle"]

Init ==
    /\ driver \in {"memory", "postgres"}
    /\ now = 1 /\ nodes = << >> /\ edges = {} /\ out = {} /\ in = {}
    /\ query = NoQuery /\ del = NoDelete /\ writes = 0

Stored == DOMAIN nodes

\* validFrom <= t < validTo; 0 is an open bound.
ValidAt(e, t) == (e.validFrom = 0 \/ e.validFrom <= t) /\ (e.validTo = 0 \/ t < e.validTo)

otherEndpoint(e, n) == IF e.from = n THEN e.to ELSE e.from

-----------------------------------------------------------------------------
(* Locks.  A memory reader excludes writers; rows a postgres transaction   *)
(* has deleted block the writers of those rows.                            *)

Reading  == query.pc \notin {"idle", "done", "failed"}
MayWrite == writes < MaxWrites /\ ~ (driver = "memory" /\ Reading)

\* A write marks the read it may have torn, or whose result it outdates.
Tear  == query' = IF query.pc \in {"idle", "failed"} THEN query ELSE [query EXCEPT !.torn = TRUE]
Wrote == writes' = writes + 1 /\ Tear

-----------------------------------------------------------------------------
(* Upserts.  A batch is one critical section of the memory driver and one  *)
(* implicit transaction of the SQL driver.                                 *)

\* Without a time of its own a node keeps the one it was created with; the
\* SQL driver never changes it.
UpsertNodes(S, createdAt) ==
    /\ MayWrite
    /\ nodes' = [n \in Stored \cup S |->
         IF n \notin S THEN nodes[n]
         ELSE IF n \in Stored /\ (driver = "postgres" \/ createdAt = 0) THEN nodes[n]
         ELSE IF createdAt = 0 THEN now ELSE createdAt]
    /\ Wrote
    /\ UNCHANGED <<driver, now, edges, out, in, del>>

Table == [edges |-> edges, out |-> out, in |-> in]

detach(s, e) == [s EXCEPT !.out = @ \ {<<e.from, e.id>>}, !.in = @ \ {<<e.to, e.id>>}]

\* A plausible error: replacing an edge leaves its old adjacency.
PutEdgeStale(s, e) ==
    [edges |-> { o \in s.edges : o.id # e.id } \cup {e},
     out   |-> s.out \cup {<<e.from, e.id>>}, in |-> s.in \cup {<<e.to, e.id>>}]

\* Replacing an edge first drops the adjacency of the old one.
PutEdge(s, e) ==
    LET old == { o \in s.edges : o.id = e.id }
        d   == IF old = {} THEN s ELSE detach(s, CHOOSE o \in old : TRUE)
    IN  [edges |-> (s.edges \ old) \cup {e},
         out   |-> d.out \cup {<<e.from, e.id>>}, in |-> d.in \cup {<<e.to, e.id>>}]

\* The edges of a batch are put one after the other.
PutEdges(batch) ==
    LET s[i \in 0 .. Len(batch)] == IF i = 0 THEN Table ELSE PutEdge(s[i - 1], batch[i])
    IN  s[Len(batch)]

UpsertEdges(batch) ==
    LET s == PutEdges(batch) IN
    /\ MayWrite /\ driver = "memory"
    /\ edges' = s.edges /\ out' = s.out /\ in' = s.in
    /\ Wrote
    /\ UNCHANGED <<driver, now, nodes, del>>

\* INSERT ... ON CONFLICT DO UPDATE for each edge of the batch.
UpsertEdgesPostgres(batch) ==
    LET last(i) == \A j \in i + 1 .. Len(batch) : batch[j].id # batch[i].id
        new     == { batch[i] : i \in { j \in 1 .. Len(batch) : last(j) } }
        ids     == { e.id : e \in new }
    IN  /\ MayWrite /\ driver = "postgres"
        /\ ids \cap { e.id : e \in del.incident } = {}
        /\ edges' = { e \in edges : e.id \notin ids } \cup new
        /\ Wrote
        /\ UNCHANGED <<driver, now, nodes, out, in, del>>

-----------------------------------------------------------------------------
(* Deletes.                                                                *)

Touching(n) == { e \in edges : e.from = n \/ e.to = n }

DeleteEdge(e) ==
    /\ MayWrite /\ e \in edges
    /\ LET s == detach(Table, e) IN out' = s.out /\ in' = s.in
    /\ edges' = edges \ {e}
    /\ Wrote
    /\ UNCHANGED <<driver, now, nodes, del>>

DeleteEdgePostgres(e) ==
    /\ MayWrite /\ e \in edges /\ e \notin del.incident
    /\ edges' = edges \ {e}
    /\ Wrote
    /\ UNCHANGED <<driver, now, nodes, out, in, del>>

\* memory: without cascade a node with edges stays.
DeleteNode(n, cascade) ==
    LET ids == { p[2] : p \in { q \in out \cup in : q[1] = n } }
        inc == { e \in edges : e.id \in ids }
    IN  /\ MayWrite /\ driver = "memory" /\ n \in Stored
        /\ inc = {} \/ cascade                       \* ErrEdgesExist
        /\ edges' = edges \ inc
        /\ out' = out \ { <<e.from, e.id>> : e \in inc }
        /\ in'  = in  \ { <<e.to, e.id>> : e \in inc }
        /\ nodes' = [m \in Stored \ {n} |-> nodes[m]]
        /\ Wrote
        /\ UNCHANGED <<driver, now, del>>

\* postgres: existence, count, cascade and delete are four statements of one
\* transaction.
DeleteBegin(n, cascade) ==
    /\ MayWrite /\ driver = "postgres" /\ del.pc = "idle" /\ n \in Stored
    /\ del' = [pc |-> "count", node |-> n, incident |-> {}, cascade |-> cascade]
    /\ writes' = writes + 1
    /\ UNCHANGED <<driver, now, nodes, edges, out, in, query>>

DeleteCount ==
    /\ del.pc = "count"
    /\ del' = [del EXCEPT !.pc = CASE Touching(del.node) = {} -> "node"
                                   [] del.cascade             -> "cascade"
                                   [] OTHER                   -> "idle"]
    /\ UNCHANGED <<driver, now, nodes, edges, out, in, query, writes>>

DeleteCascade ==
    /\ del.pc = "cascade"
    /\ del' = [del EXCEPT !.pc = "node", !.incident = Touching(del.node)]
    /\ UNCHANGED <<driver, now, nodes, edges, out, in, query, writes>>

\* The node row is deleted and the transaction commits.
DeleteCommit ==
    /\ del.pc = "node"
    /\ edges' = edges \ del.incident
    /\ nodes' = [m \in Stored \ {del.node} |-> nodes[m]]
    /\ del' = NoDelete
    /\ Tear
    /\ UNCHANGED <<driver, now, out, in, writes>>

-----------------------------------------------------------------------------
(* Reads.                                                                  *)

\* memory: entries of the adjacency lists; a self-loop is in both.
incident(n, dir) ==
    { <<e, "out">> : e \in { f \in edges : dir # "in"  /\ <<n, f.id>> \in out } } \cup
    { <<e, "in">>  : e \in { f \in edges : dir # "out" /\ <<n, f.id>> \in in } }

\* postgres: one statement, every edge once.
incidentEdges(n, dir) ==
    { <<e, "row">> : e \in { f \in edges : (dir # "in" /\ f.from = n) \/ (dir # "out" /\ f.to = n) } }

Incident(n, dir) == IF driver = "memory" THEN incident(n, dir) ELSE incidentEdges(n, dir)

\* The orders in which a driver may visit the entries of a list.
Before(i, j) == driver = "postgres" /\ i[1].id < j[1].id

Passes(e) == (query.types = {} \/ e.type \in query.types) /\ ValidAt(e, query.asOf)

\* The start node is looked up; asOf defaults to the time of the call.
Begin(q) ==
    /\ query.pc = "idle"
    /\ query' = IF q.start \notin Stored THEN [pc |-> "failed"] ELSE
         [pc |-> IF q.kind = "neighbors" THEN "neighbors" ELSE "hop",
          kind |-> q.kind, start |-> q.start, dir |-> q.dir, types |-> q.types,
          labelled |-> q.labelled,
          asOf |-> IF q.asOf = 0 THEN now ELSE q.asOf,
          depth |-> q.depth, maxNodes |-> IF q.maxNodes = 0 THEN 1 ELSE q.maxNodes,
          maxEdges |-> q.maxEdges, fanOut |-> q.fanOut, hop |-> 0,
          frontier |-> {q.start}, next |-> {}, at |-> None, scan |-> {}, fan |-> 0,
          nodes |-> {q.start}, edges |-> {}, torn |-> FALSE]
    /\ UNCHANGED <<driver, now, nodes, edges, out, in, del, writes>>

Reads(q) == query' = q /\ UNCHANGED <<driver, now, nodes, edges, out, in, del, writes>>

\* Neighbors: the statement that reads the incident edges ...
NeighborsScan ==
    /\ query.pc = "neighbors"
    /\ Reads([query EXCEPT !.pc = "load", !.scan = Incident(query.start, query.dir)])

\* ... and the one that loads the nodes at their other ends, followed by the
\* loop, which stops once it has maxNodes neighbours.
NeighborsLoad ==
    LET end(i) == otherEndpoint(i[1], query.start)
        pass == { i \in query.scan : /\ Passes(i[1])
                                     /\ end(i) \in Stored \ {query.start}
                                     /\ query.labelled = {} \/ end(i) \in query.labelled }
        far(I) == { end(i) : i \in I }
    IN  /\ query.pc = "load"
        /\ \E order \in SetToAllKPermutations(pass) :
              /\ Len(order) = Cardinality(pass)
              /\ \A i, j \in DOMAIN order : Before(order[i], order[j]) => i < j
              /\ LET kept == { order[i] : i \in { k \in DOMAIN order :
                           Cardinality(far({ order[m] : m \in 1 .. k - 1 })) < query.maxNodes } }
                 IN  Reads([query EXCEPT !.pc = "done", !.scan = {},
                                         !.nodes = far(kept) \cup {query.start},
                                         !.edges = { i[1] : i \in kept }])

\* A plausible error: the depth is counted from one hop too early.
TraverseHopExtra ==
    /\ query.pc = "hop"
    /\ IF query.frontier # {} THEN
         \E n \in query.frontier :
           Reads([query EXCEPT !.pc = "edge", !.at = n, !.frontier = @ \ {n}, !.fan = 0,
                               !.scan = Incident(n, query.dir)])
       ELSE Reads([query EXCEPT !.hop = @ + 1, !.frontier = query.next, !.next = {},
                       !.pc = IF query.hop <= query.depth /\ query.next # {} THEN "hop" ELSE "done"])

\* Traverse: the edges of the next frontier node are read; when the frontier
\* is spent the next hop begins, if the depth allows one.
TraverseHop ==
    /\ query.pc = "hop"
    /\ IF query.frontier # {} THEN
         \E n \in query.frontier :
           Reads([query EXCEPT !.pc = "edge", !.at = n, !.frontier = @ \ {n}, !.fan = 0,
                               !.scan = Incident(n, query.dir)])
       ELSE Reads([query EXCEPT !.hop = @ + 1, !.frontier = query.next, !.next = {},
                       !.pc = IF query.hop + 1 < query.depth /\ query.next # {}
                              THEN "hop" ELSE "done"])

Keep(q, e) == IF q.maxEdges > 0 /\ Cardinality(q.edges) >= q.maxEdges THEN q
              ELSE [q EXCEPT !.edges = @ \cup {e}]

\* A plausible error: with the node budget spent the edge is kept.
VisitEdgeDangling(i) ==
    LET e == i[1]
        m == otherEndpoint(e, query.at)
        q == [query EXCEPT !.scan = @ \ {i}, !.fan = @ + 1]
    IN  /\ query.pc = "edge" /\ i \in query.scan
        /\ Reads(IF ~ Passes(e) THEN q
                 ELSE IF m \notin q.nodes /\ m \in Stored /\ Cardinality(q.nodes) < q.maxNodes
                      THEN Keep([q EXCEPT !.nodes = @ \cup {m}, !.next = @ \cup {m}], e)
                      ELSE Keep(q, e))

\* One entry of the list: filters, then the node budget, then the edge
\* budget.  The SQL driver looks the node up with a statement of its own.
VisitEdge(i) ==
    LET e == i[1]
        m == otherEndpoint(e, query.at)
        q == [query EXCEPT !.scan = @ \ {i}, !.fan = @ + 1]
    IN  /\ query.pc = "edge" /\ i \in query.scan
        /\ \A j \in query.scan : ~ Before(j, i)
        /\ query.fanOut > 0 => query.fan < query.fanOut
        /\ Reads(IF ~ Passes(e) THEN q
                 ELSE IF m \in q.nodes THEN Keep(q, e)
                 ELSE IF Cardinality(q.nodes) >= q.maxNodes \/ m \notin Stored THEN q
                 ELSE Keep([q EXCEPT !.nodes = @ \cup {m}, !.next = @ \cup {m}], e))

\* The list is spent, or the fan-out cap reached.
EdgesEnd ==
    /\ query.pc = "edge"
    /\ query.scan = {} \/ (query.fanOut > 0 /\ query.fan >= query.fanOut)
    /\ Reads([query EXCEPT !.pc = "hop", !.at = None, !.scan = {}])

\* A failing statement or a cancelled call.
QueryFails ==
    /\ driver = "postgres" /\ Reading
    /\ Reads([pc |-> "failed"])

Tick ==
    /\ now < MaxNow /\ now' = now + 1
    /\ UNCHANGED <<driver, nodes, edges, out, in, query, del, writes>>

-----------------------------------------------------------------------------
Batch == { <<e>> : e \in Edge } \cup (Edge \X Edge)

Write ==
    \/ \E S \in {Node, {CHOOSE n \in Node : TRUE}}, t \in {0, MaxNow} : UpsertNodes(S, t)
    \/ \E batch \in Batch : UpsertEdges(batch) \/ UpsertEdgesPostgres(batch)
    \/ \E e \in edges : IF driver = "memory" THEN DeleteEdge(e) ELSE DeleteEdgePostgres(e)
    \/ \E n \in Node, cascade \in BOOLEAN : DeleteNode(n, cascade) \/ DeleteBegin(n, cascade)

Next ==
    \/ Write
    \/ DeleteCount \/ DeleteCascade \/ DeleteCommit
    \/ \E q \in Query : Begin(q)
    \/ NeighborsScan \/ NeighborsLoad
    \/ TraverseHop \/ (Reading /\ \E i \in query.scan : VisitEdge(i)) \/ EdgesEnd
    \/ QueryFails \/ Tick

Spec == Init /\ [][Next]_vars

-----------------------------------------------------------------------------
\* Nodes and edges come from the upserts, and an edge id is stored once.
TypeOK ==
    /\ Stored \subseteq Node /\ edges \subseteq Edge
    /\ \A e, f \in edges : e.id = f.id => e = f
    /\ writes \in 0 .. MaxWrites /\ now \in 1 .. MaxNow

\* The adjacency lists of the memory driver are those of the stored edges,
\* whatever upserts, replacements and cascades came before (addAdj, detach).
AdjacencyAgrees ==
    driver = "memory" => /\ out = { <<e.from, e.id>> : e \in edges }
                         /\ in  = { <<e.to, e.id>> : e \in edges }

\* A result names no edge without both of its nodes and stays within its
\* budgets, even when other sessions write between the statements
\* (Neighbors and Traverse: "don't add a dangling edge").
SubgraphClosed ==
    (Reading \/ query.pc = "done") =>
        /\ \A e \in query.edges : e.from \in query.nodes /\ e.to \in query.nodes
        /\ query.kind = "traverse" =>
              /\ Cardinality(query.nodes) <= query.maxNodes
              /\ query.maxEdges > 0 => Cardinality(query.edges) <= query.maxEdges

\* The stored nodes one hop from a node of S.
OneHop(S) ==
    { m \in Stored : \E e \in edges : /\ Passes(e)
                                      /\ \/ query.dir # "in"  /\ e.from \in S /\ e.to = m
                                         \/ query.dir # "out" /\ e.to \in S /\ e.from = m }

\* The nodes within d hops, by the definition of reachability.
Within[d \in 0 .. query.depth] ==
    IF d = 0 THEN {query.start} ELSE Within[d - 1] \cup OneHop(Within[d - 1])

\* Nothing was cut off: there was room for another node, and no node has more
\* entries than may be visited.
Uncut ==
    /\ Cardinality(query.nodes) < query.maxNodes
    /\ query.fanOut > 0 => \A n \in Stored : Cardinality(Incident(n, query.dir)) <= query.fanOut

\* A traversal that no write has torn returns only nodes within its depth, and
\* all of them if nothing was cut off (Traverse's breadth-first search).
TraverseReaches ==
    (query.pc = "done" /\ query.kind = "traverse" /\ ~ query.torn) =>
        /\ query.nodes \subseteq Within[query.depth]
        /\ Uncut => query.nodes = Within[query.depth]
=============================================================================
