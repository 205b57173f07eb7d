-------------------------- MODULE GraphStoreProofs --------------------------
(***************************************************************************)
(* The graph block, for any nodes, edges, queries and batches: an edge id  *)
(* is stored once, the adjacency lists of the memory driver are those of   *)
(* the stored edges, and a result names no edge without both of its nodes  *)
(* and stays within its budgets, whatever is written between the statements*)
(* of the read, and a search that is not torn finds exactly what is within *)
(* its depth.                                                              *)
(***************************************************************************)
EXTENDS GraphStore, FiniteSetTheorems, TLAPS

\* Each id occurs once among the edges of E, and their adjacency lists.
OneId(E) == \A e, f \in E : e.id = f.id => e = f
Outs(E)  == { <<e.from, e.id>> : e \in E }
Ins(E)   == { <<e.to, e.id>> : e \in E }

\* A table of edges with its adjacency lists.
Indexed(E) == [edges |-> E, out |-> Outs(E), in |-> Ins(E)]

\* Only the SQL driver deletes a node in several statements.
DeleteInv == del.pc # "idle" => driver # "memory"

----------------------------------------------------------------------------
(* Facts about the operators.                                              *)

\* Every non-empty set of naturals has a least element.
LEMMA LeastNatural ==
  ASSUME NEW T \in SUBSET Nat, T # {}
  PROVE  \E x \in T : \A y \in T : x <= y
<1> DEFINE R == {ss \in Nat \X Nat : ss[1] < ss[2]}
<1>1. IsWellFoundedOn(R, Nat)
  BY NatLessThanWellFounded DEF OpToRel
<1>2. PICK x \in T : \A y \in T : ~ (<<y, x>> \in R)
  BY <1>1, WFMin
<1>3. ASSUME NEW y \in T PROVE x <= y
  <2>1. y \in Nat /\ x \in Nat /\ ~ (y < x)
    BY <1>2
  <2> QED BY <2>1
<1> QED
  BY <1>3

\* Removing edges takes exactly their entries from the adjacency lists.
LEMMA ListsWithout ==
  ASSUME NEW E, OneId(E), NEW D \in SUBSET E
  PROVE  Outs(E \ D) = Outs(E) \ Outs(D) /\ Ins(E \ D) = Ins(E) \ Ins(D)
BY DEF OneId, Outs, Ins

\* Putting an edge replaces the one with its id, in the table and in the lists.
LEMMA PutEdgeIndexes ==
  ASSUME NEW E \in SUBSET Edge, OneId(E), NEW e \in Edge
  PROVE  LET F == { o \in E : o.id # e.id } \cup {e}
         IN  /\ F \in SUBSET Edge /\ OneId(F) /\ PutEdge(Indexed(E), e) = Indexed(F)
             /\ IsFiniteSet(E) => IsFiniteSet(F)
<1> DEFINE old == { o \in E : o.id = e.id }
           F == { o \in E : o.id # e.id } \cup {e}
           d == IF old = {} THEN Indexed(E) ELSE detach(Indexed(E), CHOOSE o \in old : TRUE)
<1>1. F \in SUBSET Edge /\ OneId(F) /\ F = (E \ old) \cup {e}
  BY DEF OneId
<1>2. d.out = Outs(E \ old) /\ d.in = Ins(E \ old)
  <2>1. CASE old = {}
    <3>1. E \ old = E
      BY <2>1
    <3> QED BY <2>1, <3>1 DEF Indexed
  <2>2. CASE old # {}
    <3> DEFINE o == CHOOSE o \in old : TRUE
    <3>1. o \in old /\ old = {o}
      BY <2>2 DEF OneId
    <3>2. detach(Indexed(E), o).out = Outs(E) \ {<<o.from, o.id>>}
          /\ detach(Indexed(E), o).in = Ins(E) \ {<<o.to, o.id>>}
      BY DEF detach, Indexed
    <3> HIDE DEF o
    <3>3. Outs(old) = {<<o.from, o.id>>} /\ Ins(old) = {<<o.to, o.id>>}
      BY <3>1 DEF Outs, Ins
    <3>4. Outs(E \ old) = Outs(E) \ Outs(old) /\ Ins(E \ old) = Ins(E) \ Ins(old)
      BY ListsWithout
    <3> QED BY <2>2, <3>2, <3>3, <3>4 DEF o
  <2> QED BY <2>1, <2>2
<1>3. Outs(F) = Outs(E \ old) \cup {<<e.from, e.id>>} /\ Ins(F) = Ins(E \ old) \cup {<<e.to, e.id>>}
  BY <1>1 DEF Outs, Ins
<1>4. PutEdge(Indexed(E), e) =
        [edges |-> (E \ old) \cup {e},
         out |-> d.out \cup {<<e.from, e.id>>}, in |-> d.in \cup {<<e.to, e.id>>}]
  BY DEF PutEdge, Indexed
<1>5. ASSUME IsFiniteSet(E) PROVE IsFiniteSet(F)
  <2>1. IsFiniteSet(E \ old)
    BY <1>5, FS_Difference
  <2> QED BY <1>1, <2>1, FS_AddElement
<1> HIDE DEF F, d, old
<1>6. PutEdge(Indexed(E), e) = Indexed(F)
  BY <1>1, <1>2, <1>3, <1>4 DEF Indexed
<1> QED
  BY <1>1, <1>5, <1>6 DEF F

\* f holds the tables after each edge of a batch, up to the nth.
Tables(f, batch, n) ==
  f = [i \in 0 .. n |-> IF i = 0 THEN Table ELSE PutEdge(f[i - 1], batch[i])]

\* The recursion over a batch has a solution.
LEMMA TablesExist ==
  ASSUME NEW batch, NEW n \in Nat
  PROVE  \E f : Tables(f, batch, n)
<1> DEFINE Bad == { m \in Nat : ~ \E f : Tables(f, batch, m) }
<1>1. ASSUME NEW b \in Bad PROVE FALSE
  <2>1. PICK m \in Bad : \A k \in Bad : m <= k
    <3>1. Bad \in SUBSET Nat /\ Bad # {}
      BY <1>1
    <3> HIDE DEF Bad
    <3> QED BY <3>1, LeastNatural
  <2>2. m \in Nat /\ ~ \E f : Tables(f, batch, m)
    OBVIOUS
  <2>3. CASE m = 0
    <3> DEFINE f == [i \in 0 .. 0 |-> Table]
    <3>1. f = [i \in 0 .. 0 |-> IF i = 0 THEN Table ELSE PutEdge(f[i - 1], batch[i])]
      OBVIOUS
    <3>2. Tables(f, batch, 0)
      BY <3>1 DEF Tables
    <3> QED BY <2>2, <2>3, <3>2
  <2>4. CASE m # 0
    <3>1. m - 1 \in Nat /\ ~ (m <= m - 1)
      BY <2>2, <2>4
    <3>2. PICK g : Tables(g, batch, m - 1)
      BY <2>1, <3>1
    <3> DEFINE f == [i \in 0 .. m |-> IF i = m THEN PutEdge(g[m - 1], batch[m]) ELSE g[i]]
    <3>3. ASSUME NEW i \in 0 .. m
          PROVE  f[i] = IF i = 0 THEN Table ELSE PutEdge(f[i - 1], batch[i])
      <4>1. CASE i = m
        <5>1. i # 0 /\ i - 1 \in 0 .. m /\ i - 1 # m
          BY <2>2, <2>4, <4>1
        <5>2. f[i - 1] = g[i - 1]
          BY <5>1
        <5> QED BY <4>1, <5>1, <5>2
      <4>2. CASE i = 0
        <5>1. g[0] = Table /\ 0 \in 0 .. m /\ 0 # m
          BY <2>2, <2>4, <3>1, <3>2 DEF Tables
        <5> QED BY <4>2, <5>1
      <4>3. CASE i # 0 /\ i # m
        <5>1. i \in 0 .. m - 1 /\ i - 1 \in 0 .. m /\ i - 1 # m
          BY <2>2, <4>3
        <5>2. g[i] = PutEdge(g[i - 1], batch[i])
          BY <3>2, <4>3, <5>1 DEF Tables
        <5>3. f[i] = g[i] /\ f[i - 1] = g[i - 1]
          BY <4>3, <5>1
        <5> QED BY <4>3, <5>2, <5>3
      <4> QED BY <4>1, <4>2, <4>3
    <3>4. f = [i \in 0 .. m |-> f[i]]
      OBVIOUS
    <3> HIDE DEF f
    <3>5. Tables(f, batch, m)
      BY <3>3, <3>4 DEF Tables
    <3> QED BY <2>2, <3>5
  <2> QED BY <2>3, <2>4
<1> QED
  BY <1>1

\* However long the batch, its edges are put into the table and its lists alike.
LEMMA PutEdgesIndexes ==
  ASSUME NEW E \in SUBSET Edge, OneId(E), Table = Indexed(E), NEW batch \in Seq(Edge)
  PROVE  \E F \in SUBSET Edge : /\ OneId(F) /\ PutEdges(batch) = Indexed(F)
                                /\ IsFiniteSet(E) => IsFiniteSet(F)
<1> DEFINE n == Len(batch)
           s == CHOOSE f : f = [i \in 0 .. n |->
                    IF i = 0 THEN Table ELSE PutEdge(f[i - 1], batch[i])]
           Good(i) == \E F \in SUBSET Edge : /\ OneId(F) /\ s[i] = Indexed(F)
                                             /\ IsFiniteSet(E) => IsFiniteSet(F)
           Bad == { i \in Nat : i <= n /\ ~ Good(i) }
<1>1. n \in Nat /\ \A i \in 1 .. n : batch[i] \in Edge
  OBVIOUS
<1>2. PutEdges(batch) = s[n]
  BY DEF PutEdges
<1>3. Tables(s, batch, n)
  BY <1>1, TablesExist DEF Tables
<1> HIDE DEF s
<1>4. s[0] = Table /\ \A i \in 1 .. n : s[i] = PutEdge(s[i - 1], batch[i])
  BY <1>1, <1>3 DEF Tables
<1>5. ASSUME NEW b \in Bad PROVE FALSE
  <2>1. PICK m \in Bad : \A k \in Bad : m <= k
    <3>1. Bad \in SUBSET Nat /\ Bad # {}
      BY <1>5
    <3> HIDE DEF Bad
    <3> QED BY <3>1, LeastNatural
  <2>2. m \in Nat /\ m <= n /\ ~ Good(m)
    OBVIOUS
  <2>3. m # 0
    <3>1. Good(0)
      BY <1>4
    <3> QED BY <2>2, <3>1
  <2>4. m - 1 \in Nat /\ m - 1 <= n /\ ~ (m <= m - 1) /\ m \in 1 .. n
    BY <1>1, <2>2, <2>3
  <2>5. Good(m - 1)
    BY <2>1, <2>4
  <2>6. PICK F \in SUBSET Edge : /\ OneId(F) /\ s[m - 1] = Indexed(F)
                                 /\ IsFiniteSet(E) => IsFiniteSet(F)
    BY <2>5
  <2>7. s[m] = PutEdge(Indexed(F), batch[m]) /\ batch[m] \in Edge
    BY <1>1, <1>4, <2>4, <2>6
  <2>8. Good(m)
    <3> DEFINE e == batch[m]
    <3>1. e \in Edge
      BY <2>7
    <3> HIDE DEF e
    <3>2. PICK G \in SUBSET Edge : /\ OneId(G) /\ PutEdge(Indexed(F), e) = Indexed(G)
                                   /\ IsFiniteSet(F) => IsFiniteSet(G)
      BY <2>6, <3>1, PutEdgeIndexes
    <3> QED BY <2>6, <2>7, <3>2 DEF e
  <2> QED BY <2>2, <2>8
<1>6. Good(n)
  BY <1>1, <1>5
<1> QED
  BY <1>2, <1>6

\* The batches of the behaviours are sequences of edges.
LEMMA BatchIsSeq ==
  ASSUME NEW batch \in Batch
  PROVE  batch \in Seq(Edge)
<1>1. CASE batch \in { <<e>> : e \in Edge }
  <2>1. PICK e \in Edge : batch = <<e>>
    BY <1>1
  <2> QED BY <2>1
<1>2. CASE batch \in Edge \X Edge
  <2>1. PICK e \in Edge, f \in Edge : batch = <<e, f>>
    BY <1>2
  <2> QED BY <2>1
<1> QED
  BY <1>1, <1>2 DEF Batch

----------------------------------------------------------------------------
(* Types.                                                                  *)

\* The memory driver's upsert of a batch keeps the lists those of the edges.
LEMMA UpsertIndexes ==
  ASSUME edges \subseteq Edge, OneId(edges), AdjacencyAgrees,
         NEW batch \in Batch, UpsertEdges(batch)
  PROVE  \E F \in SUBSET Edge :
           /\ OneId(F) /\ edges' = F /\ out' = Outs(F) /\ in' = Ins(F)
           /\ IsFiniteSet(edges) => IsFiniteSet(F)
<1>1. driver = "memory" /\ out = Outs(edges) /\ in = Ins(edges)
  BY DEF UpsertEdges, AdjacencyAgrees, Outs, Ins
<1>2. Table = Indexed(edges)
  BY <1>1 DEF Table, Indexed
<1>3. PICK F \in SUBSET Edge : /\ OneId(F) /\ PutEdges(batch) = Indexed(F)
                               /\ IsFiniteSet(edges) => IsFiniteSet(F)
  BY <1>2, PutEdgesIndexes, BatchIsSeq
<1>4. edges' = F /\ out' = Outs(F) /\ in' = Ins(F)
  BY <1>3 DEF UpsertEdges, Indexed
<1> QED
  BY <1>3, <1>4

\* Upserts and deletes, in one step or several, keep one edge to an id; a step
\* of a read or of a pending delete touches neither nodes nor edges.
LEMMA TypeStep ==
  ASSUME TypeOK, AdjacencyAgrees, [Next]_vars
  PROVE  TypeOK'
<1> USE GraphAssumption
<1>0. /\ Stored \subseteq Node /\ edges \subseteq Edge /\ OneId(edges)
      /\ writes \in 0 .. MaxWrites /\ now \in 1 .. MaxNow
  BY DEF TypeOK, OneId
<1>1. ASSUME edges' \subseteq Edge, OneId(edges'), Stored' \subseteq Node,
             writes' \in 0 .. MaxWrites, now' \in 1 .. MaxNow
      PROVE  TypeOK'
  BY <1>1 DEF TypeOK, OneId
<1>2. MayWrite => writes + 1 \in 0 .. MaxWrites
  BY <1>0 DEF MayWrite
<1>3. \A E \in SUBSET edges : E \subseteq Edge /\ OneId(E)
  BY <1>0 DEF OneId
<1>4. ASSUME UNCHANGED <<now, nodes, edges, writes>> PROVE TypeOK'
  BY <1>0, <1>1, <1>4 DEF Stored
<1>5. ASSUME NEW S \in {Node, {CHOOSE n \in Node : TRUE}}, NEW t, UpsertNodes(S, t)
      PROVE  TypeOK'
  <2>1. S \subseteq Node
    OBVIOUS
  <2>2. Stored' = Stored \cup S
    BY <1>5 DEF UpsertNodes, Stored
  <2>3. UNCHANGED <<now, edges>> /\ writes' = writes + 1 /\ MayWrite
    BY <1>5 DEF UpsertNodes, Wrote
  <2> QED BY <1>0, <1>1, <1>2, <2>1, <2>2, <2>3
<1>6. ASSUME NEW batch \in Batch, UpsertEdgesPostgres(batch) PROVE TypeOK'
  <2> DEFINE last(i) == \A j \in i + 1 .. Len(batch) : batch[j].id # batch[i].id
             new == { batch[i] : i \in { j \in 1 .. Len(batch) : last(j) } }
             ids == { e.id : e \in new }
  <2>1. /\ edges' = { e \in edges : e.id \notin ids } \cup new
        /\ UNCHANGED <<now, nodes>> /\ writes' = writes + 1 /\ MayWrite
    BY <1>6 DEF UpsertEdgesPostgres, Wrote
  <2>2. batch \in Seq(Edge)
    BY BatchIsSeq
  <2>3. new \subseteq Edge
    BY <2>2
  <2>4. ASSUME NEW i \in 1 .. Len(batch), NEW j \in 1 .. Len(batch), last(i), last(j),
               batch[i].id = batch[j].id
        PROVE  i = j
    <3>1. i \in Int /\ j \in Int /\ Len(batch) \in Nat
      BY <2>2
    <3>2. ASSUME i < j PROVE FALSE
      <4>1. j \in i + 1 .. Len(batch)
        BY <3>1, <3>2
      <4> QED BY <2>4, <4>1
    <3>3. ASSUME j < i PROVE FALSE
      <4>1. i \in j + 1 .. Len(batch)
        BY <3>1, <3>3
      <4> QED BY <2>4, <4>1
    <3> QED BY <3>1, <3>2, <3>3
  <2>5. OneId(new)
    BY <2>4 DEF OneId
  <2> HIDE DEF new
  <2>6. OneId({ e \in edges : e.id \notin ids } \cup new)
    BY <1>0, <2>5 DEF OneId
  <2> QED BY <1>0, <1>1, <1>2, <2>1, <2>3, <2>6 DEF Stored
<1>7. ASSUME NEW E \in SUBSET edges, edges' = E, Stored' \subseteq Stored,
             now' = now, writes' = writes \/ (writes' = writes + 1 /\ MayWrite)
      PROVE  TypeOK'
  BY <1>0, <1>1, <1>2, <1>3, <1>7
<1>8. ASSUME NEW e \in edges, DeleteEdge(e) \/ DeleteEdgePostgres(e) PROVE TypeOK'
  <2>1. edges' = edges \ {e} /\ UNCHANGED <<now, nodes>> /\ writes' = writes + 1 /\ MayWrite
    BY <1>8 DEF DeleteEdge, DeleteEdgePostgres, Wrote
  <2> QED BY <1>7, <2>1 DEF Stored
<1>9. ASSUME NEW n \in Node, NEW cascade, DeleteNode(n, cascade) PROVE TypeOK'
  <2>1. PICK inc : edges' = edges \ inc
    BY <1>9 DEF DeleteNode
  <2>2. Stored' = Stored \ {n} /\ now' = now /\ writes' = writes + 1 /\ MayWrite
    BY <1>9 DEF DeleteNode, Wrote, Stored
  <2> QED BY <1>7, <2>1, <2>2
<1>10. ASSUME NEW n \in Node, NEW cascade, DeleteBegin(n, cascade) PROVE TypeOK'
  BY <1>7, <1>10 DEF DeleteBegin, Stored
<1>11. CASE DeleteCommit
  <2>1. edges' = edges \ del.incident /\ Stored' = Stored \ {del.node} /\ now' = now
        /\ writes' = writes
    BY <1>11 DEF DeleteCommit, Stored
  <2> QED BY <1>7, <2>1
<1>12. CASE Tick
  BY <1>0, <1>1, <1>12 DEF Tick, Stored
<1>13. ASSUME NEW batch \in Batch, UpsertEdges(batch) PROVE TypeOK'
  <2>1. PICK F \in SUBSET Edge : OneId(F) /\ edges' = F
    BY <1>0, <1>13, UpsertIndexes
  <2>2. UNCHANGED <<now, nodes>> /\ writes' = writes + 1 /\ MayWrite
    BY <1>13 DEF UpsertEdges, Wrote
  <2> QED BY <1>0, <1>1, <1>2, <2>1, <2>2 DEF Stored
<1> QED
  BY <1>4, <1>5, <1>6, <1>8, <1>9, <1>10, <1>11, <1>12, <1>13
     DEF Next, Write, DeleteCount, DeleteCascade, Begin, Reads, NeighborsScan, NeighborsLoad,
         TraverseHop, VisitEdge, EdgesEnd, QueryFails, vars

\* The memory driver changes an edge and its list entries in one critical section.
LEMMA AdjacencyStep ==
  ASSUME TypeOK, AdjacencyAgrees, DeleteInv, [Next]_vars
  PROVE  AdjacencyAgrees' /\ DeleteInv'
<1>0. edges \subseteq Edge /\ OneId(edges)
  BY DEF TypeOK, OneId
<1>1. AdjacencyAgrees' <=> (driver' = "memory" => out' = Outs(edges') /\ in' = Ins(edges'))
  BY DEF AdjacencyAgrees, Outs, Ins
<1>2. driver = "memory" => out = Outs(edges) /\ in = Ins(edges)
  BY DEF AdjacencyAgrees, Outs, Ins
<1>3. ASSUME UNCHANGED <<driver, edges, out, in>>, del' = del \/ driver # "memory"
      PROVE  AdjacencyAgrees' /\ DeleteInv'
  BY <1>1, <1>2, <1>3 DEF DeleteInv
<1>4. ASSUME NEW batch \in Batch, UpsertEdges(batch) PROVE AdjacencyAgrees' /\ DeleteInv'
  <2>1. PICK F \in SUBSET Edge : OneId(F) /\ edges' = F /\ out' = Outs(F) /\ in' = Ins(F)
    BY <1>0, <1>4, UpsertIndexes
  <2> QED BY <1>1, <1>4, <2>1 DEF UpsertEdges, DeleteInv
<1>5. ASSUME NEW e \in edges, driver = "memory", DeleteEdge(e) PROVE AdjacencyAgrees' /\ DeleteInv'
  <2>1. edges' = edges \ {e} /\ out' = out \ {<<e.from, e.id>>} /\ in' = in \ {<<e.to, e.id>>}
    BY <1>5 DEF DeleteEdge, detach, Table
  <2>2. Outs({e}) = {<<e.from, e.id>>} /\ Ins({e}) = {<<e.to, e.id>>}
    BY DEF Outs, Ins
  <2>3. Outs(edges \ {e}) = Outs(edges) \ Outs({e}) /\ Ins(edges \ {e}) = Ins(edges) \ Ins({e})
    BY <1>0, ListsWithout
  <2>4. UNCHANGED <<driver, del>>
    BY <1>5 DEF DeleteEdge
  <2> QED BY <1>1, <1>2, <1>5, <2>1, <2>2, <2>3, <2>4 DEF DeleteInv
<1>6. ASSUME NEW n \in Node, NEW cascade, DeleteNode(n, cascade) PROVE AdjacencyAgrees' /\ DeleteInv'
  <2>1. PICK inc \in SUBSET edges :
          edges' = edges \ inc /\ out' = out \ Outs(inc) /\ in' = in \ Ins(inc)
    BY <1>6 DEF DeleteNode, Outs, Ins
  <2>2. Outs(edges \ inc) = Outs(edges) \ Outs(inc) /\ Ins(edges \ inc) = Ins(edges) \ Ins(inc)
    BY <1>0, ListsWithout
  <2>3. driver = "memory" /\ UNCHANGED <<driver, del>>
    BY <1>6 DEF DeleteNode
  <2> QED BY <1>1, <1>2, <2>1, <2>2, <2>3 DEF DeleteInv
<1>7. ASSUME driver # "memory", driver' = driver PROVE AdjacencyAgrees' /\ DeleteInv'
  BY <1>1, <1>7 DEF DeleteInv
<1>8. ASSUME NEW S, NEW t, UpsertNodes(S, t) PROVE AdjacencyAgrees' /\ DeleteInv'
  BY <1>3, <1>8 DEF UpsertNodes
<1>9. ASSUME NEW batch, UpsertEdgesPostgres(batch) PROVE AdjacencyAgrees' /\ DeleteInv'
  BY <1>7, <1>9 DEF UpsertEdgesPostgres
<1>10. ASSUME NEW e, driver # "memory", DeleteEdgePostgres(e) PROVE AdjacencyAgrees' /\ DeleteInv'
  BY <1>7, <1>10 DEF DeleteEdgePostgres
<1>11. ASSUME NEW n, NEW cascade, DeleteBegin(n, cascade) PROVE AdjacencyAgrees' /\ DeleteInv'
  BY <1>3, <1>11 DEF DeleteBegin
<1>12. CASE DeleteCount \/ DeleteCascade \/ DeleteCommit
  BY <1>7, <1>12 DEF DeleteCount, DeleteCascade, DeleteCommit, DeleteInv
<1> QED
  BY <1>3, <1>4, <1>5, <1>6, <1>8, <1>9, <1>10, <1>11, <1>12
     DEF Next, Write, Begin, Reads, NeighborsScan, NeighborsLoad,
         TraverseHop, VisitEdge, EdgesEnd, QueryFails, Tick, vars

\* TypeOK as a theorem of the specification: an edge id is stored once, under
\* either driver, any batches and the SQL driver's interleaved transactions.
THEOREM TypeCorrect == Spec => [](TypeOK /\ DeleteInv)
<1>1. Init => TypeOK /\ AdjacencyAgrees /\ DeleteInv
  BY GraphAssumption DEF Init, TypeOK, Stored, AdjacencyAgrees, DeleteInv, NoDelete
<1> QED
  BY <1>1, TypeStep, AdjacencyStep, PTL DEF Spec

\* After any upserts, replacements and cascades the adjacency lists of the
\* memory driver are those of the edges it stores.
THEOREM AdjacencyHolds == Spec => []AdjacencyAgrees
<1>1. Init => TypeOK /\ AdjacencyAgrees /\ DeleteInv
  BY GraphAssumption DEF Init, TypeOK, Stored, AdjacencyAgrees, DeleteInv, NoDelete
<1> QED
  BY <1>1, TypeStep, AdjacencyStep, PTL DEF Spec

----------------------------------------------------------------------------
(* Reads.                                                                  *)

Fields == {"pc", "kind", "start", "dir", "types", "labelled", "asOf", "depth", "maxNodes",
           "maxEdges", "fanOut", "hop", "frontier", "next", "at", "scan", "fan", "nodes",
           "edges", "torn"}

Touches(e, n) == e.from = n \/ e.to = n

\* A call that runs or is done: every edge still to be visited touches the
\* node it was read for, which the result already has, as it has the frontier.
Ran(q) ==
  /\ DOMAIN q = Fields
  /\ q.pc \in {"neighbors", "load", "hop", "edge", "done"}
  /\ q.start \in q.nodes
  /\ q.pc \in {"hop", "edge"} => q.frontier \subseteq q.nodes /\ q.next \subseteq q.nodes
  /\ q.pc = "load" => \A i \in q.scan : Touches(i[1], q.start)
  /\ q.pc = "edge" => q.at \in q.nodes /\ \A i \in q.scan : Touches(i[1], q.at)
  /\ \A e \in q.edges : e.from \in q.nodes /\ e.to \in q.nodes

\* A traversal has its budgets, and a finite result within them.
InBudget(q) ==
  q.kind = "traverse" =>
    /\ q.pc \notin {"neighbors", "load"}
    /\ q.maxNodes \in Nat /\ q.maxEdges \in Nat
    /\ IsFiniteSet(q.nodes) /\ Cardinality(q.nodes) <= q.maxNodes
    /\ IsFiniteSet(q.edges)
    /\ q.maxEdges > 0 => Cardinality(q.edges) <= q.maxEdges

Sound(q)  == q.pc \notin {"idle", "failed"} => Ran(q) /\ InBudget(q)
QueryInv  == Sound(query)

\* Both drivers read only edges that touch the node asked for.
LEMMA IncidentTouches ==
  ASSUME TypeOK, AdjacencyAgrees, NEW n, NEW dir, NEW i \in Incident(n, dir)
  PROVE  Touches(i[1], n)
<1>1. OneId(edges)
  BY DEF TypeOK, OneId
<1>2. CASE driver = "memory"
  <2>1. out = Outs(edges) /\ in = Ins(edges)
    BY <1>2 DEF AdjacencyAgrees, Outs, Ins
  <2>2. \A f \in edges : <<n, f.id>> \in Outs(edges) => f.from = n
    BY <1>1 DEF Outs, OneId
  <2>3. \A f \in edges : <<n, f.id>> \in Ins(edges) => f.to = n
    BY <1>1 DEF Ins, OneId
  <2>4. i \in incident(n, dir)
    BY <1>2 DEF Incident
  <2>5. \E f \in edges : i[1] = f /\ (<<n, f.id>> \in out \/ <<n, f.id>> \in in)
    BY <2>4 DEF incident
  <2> QED BY <2>1, <2>2, <2>3, <2>5 DEF Touches
<1>3. CASE driver # "memory"
  <2>1. i \in incidentEdges(n, dir)
    BY <1>3 DEF Incident
  <2> QED BY <2>1 DEF incidentEdges, Touches
<1> QED
  BY <1>2, <1>3

\* An edge between nodes of the result is kept if the edge budget allows it.
LEMMA KeepsSound ==
  ASSUME NEW q, Ran(q), InBudget(q), NEW e, e.from \in q.nodes, e.to \in q.nodes
  PROVE  Ran(Keep(q, e)) /\ InBudget(Keep(q, e)) /\ Keep(q, e).pc = q.pc
<1>1. CASE q.maxEdges > 0 /\ Cardinality(q.edges) >= q.maxEdges
  BY <1>1 DEF Keep
<1>2. CASE ~ (q.maxEdges > 0 /\ Cardinality(q.edges) >= q.maxEdges)
  <2> DEFINE k == [q EXCEPT !.edges = @ \cup {e}]
  <2>1. Keep(q, e) = k
    BY <1>2 DEF Keep
  <2>2. /\ DOMAIN k = Fields /\ k.edges = q.edges \cup {e} /\ k.pc = q.pc /\ k.kind = q.kind
        /\ k.start = q.start /\ k.nodes = q.nodes /\ k.frontier = q.frontier
        /\ k.next = q.next /\ k.scan = q.scan /\ k.at = q.at
        /\ k.maxNodes = q.maxNodes /\ k.maxEdges = q.maxEdges
    BY DEF Ran, Fields
  <2> HIDE DEF k
  <2>3. Ran(k)
    BY <2>2 DEF Ran
  <2>4. ASSUME q.kind = "traverse"
        PROVE  /\ IsFiniteSet(k.edges)
               /\ k.maxEdges > 0 => Cardinality(k.edges) <= k.maxEdges
    <3>1. IsFiniteSet(q.edges) /\ q.maxEdges \in Nat /\ Cardinality(q.edges) \in Nat
      BY <2>4, FS_CardinalityType DEF InBudget
    <3>2. /\ IsFiniteSet(q.edges \cup {e})
          /\ Cardinality(q.edges \cup {e}) = IF e \in q.edges THEN Cardinality(q.edges)
                                             ELSE Cardinality(q.edges) + 1
      BY <3>1, FS_AddElement
    <3> QED BY <1>2, <2>2, <3>1, <3>2
  <2>5. InBudget(k)
    BY <2>2, <2>4 DEF InBudget
  <2> QED BY <2>1, <2>2, <2>3, <2>5
<1> QED
  BY <1>1, <1>2

\* No write and no statement of a read leaves the call unsound.
LEMMA QueryStep ==
  ASSUME TypeOK, AdjacencyAgrees, QueryInv, [Next]_vars
  PROVE  QueryInv'
<1>1. CASE UNCHANGED query
  BY <1>1 DEF QueryInv
<1>2. CASE Tear
  <2> DEFINE k == [query EXCEPT !.torn = TRUE]
  <2>1. CASE query.pc \in {"idle", "failed"}
    BY <1>2, <2>1 DEF Tear, QueryInv
  <2>2. CASE query.pc \notin {"idle", "failed"}
    <3>1. Ran(query) /\ InBudget(query) /\ query' = k
      BY <1>2, <2>2 DEF Tear, QueryInv, Sound
    <3>2. /\ DOMAIN k = Fields /\ k.edges = query.edges /\ k.pc = query.pc
          /\ k.kind = query.kind /\ k.start = query.start /\ k.nodes = query.nodes
          /\ k.frontier = query.frontier /\ k.next = query.next /\ k.scan = query.scan
          /\ k.at = query.at /\ k.maxNodes = query.maxNodes /\ k.maxEdges = query.maxEdges
      BY <3>1 DEF Ran, Fields
    <3> HIDE DEF k
    <3>3. Ran(k) /\ InBudget(k)
      BY <3>1, <3>2 DEF Ran, InBudget
    <3> QED BY <3>1, <3>3 DEF QueryInv, Sound
  <2> QED BY <2>1, <2>2
<1>3. ASSUME NEW q \in Query, Begin(q) PROVE QueryInv'
  <2>1. CASE q.start \notin Stored
    BY <1>3, <2>1 DEF Begin, QueryInv, Sound
  <2>2. CASE q.start \in Stored
    <3> DEFINE k == [pc |-> IF q.kind = "neighbors" THEN "neighbors" ELSE "hop",
          kind |-> q.kind, start |-> q.start, dir |-> q.dir, types |-> q.types,
          labelled |-> q.labelled,
          asOf |-> IF q.asOf = 0 THEN now ELSE q.asOf,
          depth |-> q.depth, maxNodes |-> IF q.maxNodes = 0 THEN 1 ELSE q.maxNodes,
          maxEdges |-> q.maxEdges, fanOut |-> q.fanOut, hop |-> 0,
          frontier |-> {q.start}, next |-> {}, at |-> None, scan |-> {}, fan |-> 0,
          nodes |-> {q.start}, edges |-> {}, torn |-> FALSE]
    <3>1. query' = k
      BY <1>3, <2>2 DEF Begin
    <3>2. DOMAIN k = Fields
      BY DEF Fields
    <3>3. /\ k.pc = (IF q.kind = "neighbors" THEN "neighbors" ELSE "hop") /\ k.kind = q.kind
          /\ k.start = q.start /\ k.nodes = {q.start} /\ k.frontier = {q.start}
          /\ k.next = {} /\ k.scan = {} /\ k.edges = {} /\ k.maxEdges = q.maxEdges
          /\ k.maxNodes = IF q.maxNodes = 0 THEN 1 ELSE q.maxNodes
      OBVIOUS
    <3> HIDE DEF k
    <3>4. Ran(k)
      BY <3>2, <3>3 DEF Ran
    <3>5. q.maxNodes \in Nat /\ q.maxEdges \in Nat
      BY GraphAssumption
    <3>6. IsFiniteSet({q.start}) /\ Cardinality({q.start}) = 1
          /\ IsFiniteSet({}) /\ Cardinality({}) = 0
      BY FS_Singleton, FS_EmptySet
    <3>7. InBudget(k)
      BY <3>3, <3>5, <3>6 DEF InBudget
    <3> QED BY <3>1, <3>4, <3>7 DEF QueryInv, Sound
  <2> QED BY <2>1, <2>2
<1>4. CASE NeighborsScan
  <2> DEFINE s == Incident(query.start, query.dir)
             k == [query EXCEPT !.pc = "load", !.scan = s]
  <2>1. query.pc = "neighbors" /\ query' = k /\ Ran(query) /\ InBudget(query)
    BY <1>4 DEF NeighborsScan, Reads, QueryInv, Sound
  <2>2. \A i \in s : Touches(i[1], query.start)
    BY IncidentTouches
  <2> HIDE DEF s
  <2>3. /\ DOMAIN k = Fields /\ k.edges = query.edges /\ k.pc = "load" /\ k.scan = s
        /\ k.kind = query.kind /\ k.start = query.start /\ k.nodes = query.nodes
        /\ k.frontier = query.frontier /\ k.next = query.next
    BY <2>1 DEF Ran, Fields
  <2> HIDE DEF k
  <2>4. Ran(k)
    BY <2>1, <2>2, <2>3 DEF Ran
  <2>5. InBudget(k)
    BY <2>1, <2>3 DEF InBudget
  <2> QED BY <2>1, <2>4, <2>5 DEF QueryInv, Sound
<1>5. CASE NeighborsLoad
  <2> DEFINE end(i) == otherEndpoint(i[1], query.start)
             pass == { i \in query.scan : /\ Passes(i[1])
                                          /\ end(i) \in Stored \ {query.start}
                                          /\ query.labelled = {} \/ end(i) \in query.labelled }
             far(I) == { end(i) : i \in I }
             few(order) == { k \in DOMAIN order :
               Cardinality(far({ order[m] : m \in 1 .. k - 1 })) < query.maxNodes }
             loaded(kept) == [query EXCEPT !.pc = "done", !.scan = {},
                                           !.nodes = far(kept) \cup {query.start},
                                           !.edges = { i[1] : i \in kept }]
  <2>1. query.pc = "load" /\ Ran(query) /\ InBudget(query)
    BY <1>5 DEF NeighborsLoad, QueryInv, Sound
  <2>2. PICK order \in SetToAllKPermutations(pass) :
          query' = loaded({ order[i] : i \in few(order) })
    BY <1>5 DEF NeighborsLoad, Reads
  <2>3. \A i \in DOMAIN order : order[i] \in query.scan
    <3>1. PICK s \in SUBSET pass : order \in SetToSeqs(s)
      BY <2>2 DEF SetToAllKPermutations
    <3>2. order \in [1 .. Cardinality(s) -> s]
      BY <3>1 DEF SetToSeqs
    <3> QED BY <3>1, <3>2
  <2> DEFINE kept == { order[i] : i \in few(order) }
             k == loaded(kept)
  <2>4. kept \subseteq query.scan
    BY <2>3
  <2>5. query' = k
    BY <2>2
  <2> HIDE DEF kept
  <2>6. /\ DOMAIN k = Fields /\ k.pc = "done" /\ k.kind = query.kind
        /\ k.edges = { i[1] : i \in kept } /\ k.nodes = far(kept) \cup {query.start}
        /\ k.start = query.start /\ k.frontier = query.frontier /\ k.next = query.next
    BY <2>1 DEF Ran, Fields
  <2>7. \A e \in k.edges : e.from \in k.nodes /\ e.to \in k.nodes
    BY <2>1, <2>4, <2>6 DEF Ran, Touches, otherEndpoint
  <2> HIDE DEF k
  <2>8. Ran(k)
    BY <2>6, <2>7 DEF Ran
  <2>9. InBudget(k)
    BY <2>1, <2>6 DEF InBudget
  <2> QED BY <2>5, <2>8, <2>9 DEF QueryInv, Sound
<1>6. CASE TraverseHop
  <2>1. query.pc = "hop" /\ Ran(query) /\ InBudget(query)
    BY <1>6 DEF TraverseHop, QueryInv, Sound
  <2>2. CASE query.frontier # {}
    <3>1. PICK n \in query.frontier :
            query' = [query EXCEPT !.pc = "edge", !.at = n, !.frontier = @ \ {n}, !.fan = 0,
                                   !.scan = Incident(n, query.dir)]
      BY <1>6, <2>2 DEF TraverseHop, Reads
    <3> DEFINE s == Incident(n, query.dir)
               k == [query EXCEPT !.pc = "edge", !.at = n, !.frontier = @ \ {n}, !.fan = 0,
                                  !.scan = s]
    <3>2. query' = k
      BY <3>1
    <3>3. \A i \in s : Touches(i[1], n)
      BY IncidentTouches
    <3>4. n \in query.nodes
      BY <2>1 DEF Ran
    <3> HIDE DEF s
    <3>5. /\ DOMAIN k = Fields /\ k.pc = "edge" /\ k.kind = query.kind
          /\ k.edges = query.edges /\ k.nodes = query.nodes /\ k.start = query.start
          /\ k.frontier = query.frontier \ {n} /\ k.next = query.next
          /\ k.at = n /\ k.scan = s
          /\ k.maxNodes = query.maxNodes /\ k.maxEdges = query.maxEdges
      BY <2>1 DEF Ran, Fields
    <3> HIDE DEF k
    <3>6. Ran(k) /\ InBudget(k)
      BY <2>1, <3>3, <3>4, <3>5 DEF Ran, InBudget
    <3> QED BY <3>2, <3>6 DEF QueryInv, Sound
  <2>3. CASE query.frontier = {}
    <3> DEFINE pc == IF query.hop + 1 < query.depth /\ query.next # {} THEN "hop" ELSE "done"
               k == [query EXCEPT !.hop = @ + 1, !.frontier = query.next, !.next = {}, !.pc = pc]
    <3>1. query' = k
      BY <1>6, <2>3 DEF TraverseHop, Reads
    <3>2. pc \in {"hop", "done"}
      OBVIOUS
    <3> HIDE DEF pc
    <3>3. /\ DOMAIN k = Fields /\ k.pc = pc /\ k.kind = query.kind
          /\ k.edges = query.edges /\ k.nodes = query.nodes /\ k.start = query.start
          /\ k.frontier = query.next /\ k.next = {}
          /\ k.maxNodes = query.maxNodes /\ k.maxEdges = query.maxEdges
      BY <2>1 DEF Ran, Fields
    <3> HIDE DEF k
    <3>4. Ran(k) /\ InBudget(k)
      BY <2>1, <3>2, <3>3 DEF Ran, InBudget
    <3> QED BY <3>1, <3>4 DEF QueryInv, Sound
  <2> QED BY <2>2, <2>3
<1>7. ASSUME NEW i, VisitEdge(i) PROVE QueryInv'
  <2> DEFINE e == i[1]
             m == otherEndpoint(e, query.at)
             q == [query EXCEPT !.scan = @ \ {i}, !.fan = @ + 1]
             r == [q EXCEPT !.nodes = @ \cup {m}, !.next = @ \cup {m}]
  <2>1. query.pc = "edge" /\ i \in query.scan /\ Ran(query) /\ InBudget(query)
    BY <1>7 DEF VisitEdge, QueryInv, Sound
  <2>2. \/ query' = q
        \/ m \in q.nodes /\ query' = Keep(q, e)
        \/ ~ (Cardinality(q.nodes) >= q.maxNodes) /\ query' = Keep(r, e)
    BY <1>7 DEF VisitEdge, Reads
  <2>3. query.at \in query.nodes /\ e.from \in {query.at, m} /\ e.to \in {query.at, m}
    BY <2>1 DEF Ran, Touches, otherEndpoint
  <2> HIDE DEF m, e
  <2>4. /\ DOMAIN q = Fields /\ q.pc = "edge" /\ q.kind = query.kind
        /\ q.edges = query.edges /\ q.nodes = query.nodes /\ q.start = query.start
        /\ q.frontier = query.frontier /\ q.next = query.next
        /\ q.at = query.at /\ q.scan = query.scan \ {i}
        /\ q.maxNodes = query.maxNodes /\ q.maxEdges = query.maxEdges
    BY <2>1 DEF Ran, Fields
  <2> HIDE DEF q
  <2>5. Ran(q) /\ InBudget(q)
    BY <2>1, <2>4 DEF Ran, InBudget
  <2>6. ASSUME ~ (Cardinality(q.nodes) >= q.maxNodes) PROVE Ran(r) /\ InBudget(r)
    <3>1. /\ DOMAIN r = Fields /\ r.pc = "edge" /\ r.kind = q.kind
          /\ r.edges = q.edges /\ r.nodes = q.nodes \cup {m} /\ r.start = q.start
          /\ r.frontier = q.frontier /\ r.next = q.next \cup {m}
          /\ r.at = q.at /\ r.scan = q.scan
          /\ r.maxNodes = q.maxNodes /\ r.maxEdges = q.maxEdges
      BY <2>4 DEF Fields
    <3> HIDE DEF r
    <3>2. Ran(r)
      BY <2>5, <3>1, <2>4 DEF Ran
    <3>3. ASSUME q.kind = "traverse"
          PROVE  IsFiniteSet(r.nodes) /\ Cardinality(r.nodes) <= r.maxNodes
      <4>1. IsFiniteSet(q.nodes) /\ q.maxNodes \in Nat /\ Cardinality(q.nodes) \in Nat
        BY <2>5, <3>3, FS_CardinalityType DEF InBudget
      <4>2. /\ IsFiniteSet(q.nodes \cup {m})
            /\ Cardinality(q.nodes \cup {m}) = IF m \in q.nodes THEN Cardinality(q.nodes)
                                               ELSE Cardinality(q.nodes) + 1
        BY <4>1, FS_AddElement
      <4> QED BY <2>6, <3>1, <4>1, <4>2
    <3>4. InBudget(r)
      BY <2>4, <2>5, <3>1, <3>3 DEF InBudget
    <3> QED BY <3>2, <3>4
  <2>7. r.nodes = q.nodes \cup {m}
    BY <2>4 DEF Fields
  <2> HIDE DEF r
  <2>8. CASE query' = q
    BY <2>5, <2>8 DEF QueryInv, Sound
  <2>9. CASE m \in q.nodes /\ query' = Keep(q, e)
    <3>1. e.from \in q.nodes /\ e.to \in q.nodes
      BY <2>3, <2>4, <2>9
    <3> QED BY <2>5, <2>9, <3>1, KeepsSound DEF QueryInv, Sound
  <2>10. CASE ~ (Cardinality(q.nodes) >= q.maxNodes) /\ query' = Keep(r, e)
    <3>1. e.from \in r.nodes /\ e.to \in r.nodes
      BY <2>3, <2>4, <2>7
    <3> QED BY <2>6, <2>10, <3>1, KeepsSound DEF QueryInv, Sound
  <2> QED BY <2>2, <2>8, <2>9, <2>10
<1>8. CASE EdgesEnd
  <2> DEFINE k == [query EXCEPT !.pc = "hop", !.at = None, !.scan = {}]
  <2>1. query.pc = "edge" /\ query' = k /\ Ran(query) /\ InBudget(query)
    BY <1>8 DEF EdgesEnd, Reads, QueryInv, Sound
  <2>2. /\ DOMAIN k = Fields /\ k.pc = "hop" /\ k.kind = query.kind
        /\ k.edges = query.edges /\ k.nodes = query.nodes /\ k.start = query.start
        /\ k.frontier = query.frontier /\ k.next = query.next
        /\ k.maxNodes = query.maxNodes /\ k.maxEdges = query.maxEdges
    BY <2>1 DEF Ran, Fields
  <2> HIDE DEF k
  <2>3. Ran(k) /\ InBudget(k)
    BY <2>1, <2>2 DEF Ran, InBudget
  <2> QED BY <2>1, <2>3 DEF QueryInv, Sound
<1>9. CASE QueryFails
  BY <1>9 DEF QueryFails, Reads, QueryInv, Sound
<1>10. CASE Write
  BY <1>1, <1>2, <1>10 DEF Write, UpsertNodes, UpsertEdges, UpsertEdgesPostgres, DeleteEdge,
       DeleteEdgePostgres, DeleteNode, DeleteBegin, Wrote
<1>11. CASE DeleteCount \/ DeleteCascade \/ DeleteCommit \/ Tick
  BY <1>1, <1>2, <1>11 DEF DeleteCount, DeleteCascade, DeleteCommit, Tick
<1> QED
  BY <1>1, <1>3, <1>4, <1>5, <1>6, <1>7, <1>8, <1>9, <1>10, <1>11 DEF Next, vars

\* Whatever is written between its statements, a Neighbors or Traverse call
\* returns no edge without both of its nodes, and a traversal no more than its
\* budgets allow.
THEOREM ResultsClosed == Spec => []SubgraphClosed
<1>1. Init => TypeOK /\ AdjacencyAgrees /\ DeleteInv /\ QueryInv
  BY GraphAssumption DEF Init, TypeOK, Stored, AdjacencyAgrees, DeleteInv, NoDelete, NoQuery,
     QueryInv, Sound
<1>2. QueryInv => SubgraphClosed
  BY DEF QueryInv, Sound, Ran, InBudget, SubgraphClosed, Reading
<1> QED
  BY <1>1, <1>2, TypeStep, AdjacencyStep, QueryStep, PTL DEF Spec

----------------------------------------------------------------------------
(* Searches.                                                               *)

\* f holds the nodes within each number of hops, up to n.
LevelsTo(f, n) ==
  f = [d \in 0 .. n |-> IF d = 0 THEN {query.start} ELSE f[d - 1] \cup OneHop(f[d - 1])]

\* A stored edge that leads away from node n in the direction asked for.
Along(e, n) == e \in edges /\ ((query.dir # "in" /\ e.from = n) \/ (query.dir # "out" /\ e.to = n))

\* The nodes that the entries still to be visited lead to.
Ahead == { otherEndpoint(i[1], query.at) : i \in { j \in query.scan : Passes(j[1]) } }

Traversing == query.pc \in {"hop", "edge"} /\ query.kind = "traverse" /\ ~ query.torn
Traversed  == query.pc = "done" /\ query.kind = "traverse" /\ ~ query.torn

\* Hop by hop: the frontier and the result are the nodes of a level and the next
\* one found so far; if nothing was cut off, the nodes of the level that are
\* spent have all their neighbours in the result.
HopsOk(f) ==
  Traversing =>
    /\ query.hop < query.depth
    /\ query.frontier \subseteq f[query.hop] /\ query.next \subseteq f[query.hop + 1]
    /\ query.nodes \subseteq f[query.hop] \cup query.next
    /\ query.pc = "edge" => query.at \in f[query.hop] /\ \A i \in query.scan : Along(i[1], query.at)
    /\ Uncut =>
         /\ f[query.hop] \subseteq query.nodes
         /\ \A n \in f[query.hop] \ query.frontier :
               OneHop({n}) \subseteq IF query.pc = "edge" /\ n = query.at
                                     THEN query.nodes \cup Ahead ELSE query.nodes

\* A traversal ends at its depth, or earlier where nothing new is found.
EndOk(f) ==
  Traversed =>
    /\ query.hop <= query.depth
    /\ query.nodes \subseteq f[query.hop]
    /\ Uncut => /\ f[query.hop] \subseteq query.nodes
                /\ query.hop < query.depth => OneHop(query.nodes) \subseteq query.nodes

\* What an untorn traversal counts: hops, and visited entries under the fan-out cap.
Counts ==
  Traversing \/ Traversed =>
    /\ query.hop \in Nat /\ query.depth \in Nat /\ query.fan \in Nat /\ query.fanOut \in Nat
    /\ query.nodes \subseteq Stored
    /\ query.pc = "edge" =>
         /\ IsFiniteSet(query.scan)
         /\ query.fan + Cardinality(query.scan) <= Cardinality(Incident(query.at, query.dir))

ReachInv ==
  /\ IsFiniteSet(edges)
  /\ Counts
  /\ \A f : (Traversing \/ Traversed) /\ LevelsTo(f, query.depth) => HopsOk(f) /\ EndOk(f)

----------------------------------------------------------------------------
(* Facts about levels.                                                     *)

\* The recursion over the levels has a solution.
LEMMA LevelsExist ==
  ASSUME NEW n \in Nat
  PROVE  \E f : LevelsTo(f, n)
<1> DEFINE Bad == { m \in Nat : ~ \E f : LevelsTo(f, m) }
           Up(S) == S \cup OneHop(S)
           Root == {query.start}
<1>0. \A f, m : LevelsTo(f, m) <=> f = [d \in 0 .. m |-> IF d = 0 THEN Root ELSE Up(f[d - 1])]
  BY DEF LevelsTo
<1> HIDE DEF Up, Root
<1>1. ASSUME NEW b \in Bad PROVE FALSE
  <2>1. PICK m \in Bad : \A k \in Bad : m <= k
    <3>1. Bad \in SUBSET Nat /\ Bad # {}
      BY <1>1
    <3> HIDE DEF Bad
    <3> QED BY <3>1, LeastNatural
  <2>2. m \in Nat /\ ~ \E f : LevelsTo(f, m)
    OBVIOUS
  <2>3. CASE m = 0
    <3> DEFINE f == [d \in 0 .. 0 |-> Root]
    <3>1. f = [d \in 0 .. 0 |-> IF d = 0 THEN Root ELSE Up(f[d - 1])]
      OBVIOUS
    <3>2. LevelsTo(f, 0)
      BY <1>0, <3>1
    <3> QED BY <2>2, <2>3, <3>2
  <2>4. CASE m # 0
    <3>1. m - 1 \in Nat /\ ~ (m <= m - 1)
      BY <2>2, <2>4
    <3>2. PICK g : LevelsTo(g, m - 1)
      BY <2>1, <3>1
    <3>3. g = [d \in 0 .. m - 1 |-> IF d = 0 THEN Root ELSE Up(g[d - 1])]
      BY <1>0, <3>2
    <3> DEFINE f == [d \in 0 .. m |-> IF d = m THEN Up(g[m - 1]) ELSE g[d]]
    <3>4. ASSUME NEW d \in 0 .. m
          PROVE  f[d] = IF d = 0 THEN Root ELSE Up(f[d - 1])
      <4>1. CASE d = m
        <5>1. d # 0 /\ d - 1 \in 0 .. m /\ d - 1 # m
          BY <2>2, <2>4, <4>1
        <5>2. f[d - 1] = g[d - 1]
          BY <5>1
        <5> QED BY <4>1, <5>1, <5>2
      <4>2. CASE d = 0
        <5>1. g[0] = Root /\ 0 # m
          BY <2>2, <2>4, <3>1, <3>3
        <5> QED BY <4>2, <5>1
      <4>3. CASE d # 0 /\ d # m
        <5>1. d \in 0 .. m - 1 /\ d - 1 \in 0 .. m /\ d - 1 # m
          BY <2>2, <4>3
        <5>2. g[d] = Up(g[d - 1])
          BY <3>3, <4>3, <5>1
        <5>3. f[d] = g[d] /\ f[d - 1] = g[d - 1]
          BY <4>3, <5>1
        <5> QED BY <4>3, <5>2, <5>3
      <4> QED BY <4>1, <4>2, <4>3
    <3>5. f = [d \in 0 .. m |-> f[d]]
      OBVIOUS
    <3> HIDE DEF f
    <3>6. LevelsTo(f, m)
      BY <1>0, <3>4, <3>5
    <3> QED BY <2>2, <3>6
  <2> QED BY <2>3, <2>4
<1> QED
  BY <1>1

\* Each level holds the one below and its neighbours.
LEMMA LevelFacts ==
  ASSUME NEW n \in Nat, NEW f, LevelsTo(f, n)
  PROVE  /\ f[0] = {query.start}
         /\ \A d \in 0 .. n : d + 1 <= n => f[d + 1] = f[d] \cup OneHop(f[d])
<1> DEFINE Up(S) == S \cup OneHop(S)
           Root == {query.start}
<1>1. f = [d \in 0 .. n |-> IF d = 0 THEN Root ELSE Up(f[d - 1])]
  BY DEF LevelsTo
<1> HIDE DEF Up, Root
<1>2. f[0] = Root
  BY <1>1
<1>3. ASSUME NEW d \in 0 .. n, d + 1 <= n PROVE f[d + 1] = Up(f[d])
  <2>1. d + 1 \in 0 .. n /\ d + 1 # 0 /\ (d + 1) - 1 = d
    BY <1>3
  <2> QED BY <1>1, <2>1
<1> QED
  BY <1>2, <1>3 DEF Up, Root

\* A property of a level that passes to the next one holds from there on.
LEMMA LevelsKeep ==
  ASSUME NEW n \in Nat, NEW f, LevelsTo(f, n), NEW c \in 0 .. n, NEW T, f[c] \subseteq T,
         c < n => OneHop(T) \subseteq T
  PROVE  f[n] \subseteq T
<1> DEFINE Bad == { d \in Nat : c <= d /\ d <= n /\ ~ f[d] \subseteq T }
<1>1. ASSUME NEW b \in Bad PROVE FALSE
  <2>1. PICK m \in Bad : \A k \in Bad : m <= k
    <3>1. Bad \in SUBSET Nat /\ Bad # {}
      BY <1>1
    <3> HIDE DEF Bad
    <3> QED BY <3>1, LeastNatural
  <2>2. m \in Nat /\ c <= m /\ m <= n /\ ~ f[m] \subseteq T /\ m # c
    OBVIOUS
  <2>3. m - 1 \in Nat /\ c <= m - 1 /\ m - 1 <= n /\ ~ (m <= m - 1) /\ c < n /\ (m - 1) + 1 = m
        /\ m - 1 \in 0 .. n
    BY <2>2
  <2>4. f[m - 1] \subseteq T
    BY <2>1, <2>3
  <2>5. f[m] = f[m - 1] \cup OneHop(f[m - 1])
    <3>1. (m - 1) + 1 <= n => f[(m - 1) + 1] = f[m - 1] \cup OneHop(f[m - 1])
      BY <2>3, LevelFacts
    <3> QED BY <2>2, <2>3, <3>1
  <2>6. OneHop(f[m - 1]) \subseteq OneHop(T)
    BY <2>4 DEF OneHop
  <2> QED BY <2>2, <2>3, <2>4, <2>5, <2>6
<1> QED
  BY <1>1

\* Later levels hold the earlier ones.
LEMMA LevelsGrow ==
  ASSUME NEW n \in Nat, NEW f, LevelsTo(f, n), NEW c \in 0 .. n
  PROVE  f[c] \subseteq f[n]
<1> DEFINE Bad == { d \in Nat : c <= d /\ d <= n /\ ~ f[c] \subseteq f[d] }
<1>0. \A d \in 0 .. n : d + 1 <= n => f[d + 1] = f[d] \cup OneHop(f[d])
  BY LevelFacts
<1>1. ASSUME NEW b \in Bad PROVE FALSE
  <2>1. PICK m \in Bad : \A k \in Bad : m <= k
    <3>1. Bad \in SUBSET Nat /\ Bad # {}
      BY <1>1
    <3> HIDE DEF Bad
    <3> QED BY <3>1, LeastNatural
  <2>2. m \in Nat /\ c <= m /\ m <= n /\ ~ f[c] \subseteq f[m] /\ m # c
    OBVIOUS
  <2>3. m - 1 \in Nat /\ c <= m - 1 /\ m - 1 <= n /\ ~ (m <= m - 1) /\ (m - 1) + 1 = m
        /\ m - 1 \in 0 .. n
    BY <2>2
  <2>4. f[c] \subseteq f[m - 1]
    BY <2>1, <2>3
  <2>5. f[m] = f[m - 1] \cup OneHop(f[m - 1])
    <3>1. (m - 1) + 1 <= n => f[(m - 1) + 1] = f[m - 1] \cup OneHop(f[m - 1])
      BY <1>0, <2>3
    <3> QED BY <2>2, <2>3, <3>1
  <2> QED BY <2>2, <2>4, <2>5
<1> QED
  BY <1>1

\* A node's entries are the edges along which its neighbours are found.
LEMMA IncidentIsHop ==
  ASSUME TypeOK, AdjacencyAgrees, NEW n
  PROVE  /\ \A i \in Incident(n, query.dir) : Along(i[1], n)
         /\ \A m \in OneHop({n}) : \E i \in Incident(n, query.dir) :
               Passes(i[1]) /\ otherEndpoint(i[1], n) = m
<1> DEFINE dir == query.dir
<1>1. OneId(edges)
  BY DEF TypeOK, OneId
<1>2. \A e \in edges : driver = "memory" =>
         /\ <<n, e.id>> \in out <=> e.from = n
         /\ <<n, e.id>> \in in <=> e.to = n
  BY <1>1 DEF AdjacencyAgrees, OneId
<1>3. ASSUME NEW i \in Incident(n, dir) PROVE Along(i[1], n)
  <2>1. CASE driver = "memory"
    <3>1. i \in incident(n, dir)
      BY <1>3, <2>1 DEF Incident
    <3>2. CASE i \in { <<e, "out">> : e \in { f \in edges : dir # "in" /\ <<n, f.id>> \in out } }
      <4>1. PICK e \in edges : i = <<e, "out">> /\ dir # "in" /\ <<n, e.id>> \in out
        BY <3>2
      <4>2. i[1] = e
        BY <4>1
      <4> QED BY <1>2, <2>1, <4>1, <4>2 DEF Along
    <3>3. CASE i \in { <<e, "in">> : e \in { f \in edges : dir # "out" /\ <<n, f.id>> \in in } }
      <4>1. PICK e \in edges : i = <<e, "in">> /\ dir # "out" /\ <<n, e.id>> \in in
        BY <3>3
      <4>2. i[1] = e
        BY <4>1
      <4> QED BY <1>2, <2>1, <4>1, <4>2 DEF Along
    <3> QED BY <3>1, <3>2, <3>3 DEF incident
  <2>2. CASE driver # "memory"
    BY <1>3, <2>2 DEF Incident, incidentEdges, Along
  <2> QED BY <2>1, <2>2
<1>4. ASSUME NEW m \in OneHop({n})
      PROVE  \E i \in Incident(n, dir) : Passes(i[1]) /\ otherEndpoint(i[1], n) = m
  <2>1. PICK e \in edges : Passes(e) /\ \/ dir # "in" /\ e.from = n /\ e.to = m
                                        \/ dir # "out" /\ e.to = n /\ e.from = m
    BY <1>4 DEF OneHop
  <2>2. otherEndpoint(e, n) = m
    BY <2>1 DEF otherEndpoint
  <2>3. \E i \in Incident(n, dir) : i[1] = e
    <3>1. CASE driver = "memory" /\ dir # "in" /\ e.from = n
      <4>1. <<e, "out">> \in incident(n, dir)
        BY <1>2, <3>1 DEF incident
      <4> QED BY <3>1, <4>1 DEF Incident
    <3>2. CASE driver = "memory" /\ dir # "out" /\ e.to = n
      <4>1. <<e, "in">> \in incident(n, dir)
        BY <1>2, <3>2 DEF incident
      <4> QED BY <3>2, <4>1 DEF Incident
    <3>3. CASE driver # "memory"
      <4>1. <<e, "row">> \in incidentEdges(n, dir)
        BY <2>1 DEF incidentEdges
      <4> QED BY <3>3, <4>1 DEF Incident
    <3> QED BY <2>1, <3>1, <3>2, <3>3
  <2> QED BY <2>1, <2>2, <2>3
<1> QED
  BY <1>3, <1>4

\* An edge that leads from a node of S to a stored one leads one hop from S.
LEMMA AlongIsHop ==
  ASSUME NEW n, NEW e, Along(e, n), Passes(e), otherEndpoint(e, n) \in Stored, NEW S, n \in S
  PROVE  otherEndpoint(e, n) \in OneHop(S)
BY DEF Along, OneHop, otherEndpoint

\* A hop from a set is a hop from one of its nodes.
LEMMA HopFromOne ==
  ASSUME NEW S, NEW T, \A n \in S : OneHop({n}) \subseteq T
  PROVE  OneHop(S) \subseteq T
<1>1. \A m \in OneHop(S) : \E n \in S : m \in OneHop({n})
  BY DEF OneHop
<1> QED
  BY <1>1

\* A node has finitely many entries.
LEMMA IncidentFinite ==
  ASSUME IsFiniteSet(edges), NEW n, NEW dir
  PROVE  IsFiniteSet(Incident(n, dir))
<1>1. IsFiniteSet({"out", "in", "row"})
  <2>1. IsFiniteSet({"out"}) /\ IsFiniteSet({"out"} \cup {"in"})
    BY FS_Singleton, FS_AddElement
  <2>2. IsFiniteSet(({"out"} \cup {"in"}) \cup {"row"})
    BY <2>1, FS_AddElement
  <2>3. {"out", "in", "row"} = ({"out"} \cup {"in"}) \cup {"row"}
    OBVIOUS
  <2> QED BY <2>2, <2>3
<1>2. IsFiniteSet(edges \X {"out", "in", "row"})
  BY <1>1, FS_Product
<1>3. Incident(n, dir) \subseteq edges \X {"out", "in", "row"}
  <2>1. incident(n, dir) \subseteq edges \X {"out", "in", "row"}
    <3> DEFINE D == { f \in edges : dir # "in" /\ <<n, f.id>> \in out }
               G == { f \in edges : dir # "out" /\ <<n, f.id>> \in in }
    <3>1. D \subseteq edges /\ G \subseteq edges
      OBVIOUS
    <3>2. incident(n, dir) = { <<e, "out">> : e \in D } \cup { <<e, "in">> : e \in G }
      BY DEF incident
    <3> HIDE DEF D, G
    <3> QED BY <3>1, <3>2
  <2>2. incidentEdges(n, dir) \subseteq edges \X {"out", "in", "row"}
    BY DEF incidentEdges
  <2> QED BY <2>1, <2>2 DEF Incident
<1> QED
  BY <1>2, <1>3, FS_Subset

----------------------------------------------------------------------------
(* Traversals.                                                             *)

\* Upserts and deletes leave finitely many edges.
LEMMA FiniteStep ==
  ASSUME TypeOK, AdjacencyAgrees, IsFiniteSet(edges), [Next]_vars
  PROVE  IsFiniteSet(edges)'
<1>0. edges \subseteq Edge /\ OneId(edges)
  BY DEF TypeOK, OneId
<1>1. CASE edges' \subseteq edges
  BY <1>1, FS_Subset
<1>2. ASSUME NEW batch \in Batch, UpsertEdges(batch) PROVE IsFiniteSet(edges)'
  BY <1>0, <1>2, UpsertIndexes
<1>3. ASSUME NEW batch \in Batch, UpsertEdgesPostgres(batch) PROVE IsFiniteSet(edges)'
  <2> DEFINE last(i) == \A j \in i + 1 .. Len(batch) : batch[j].id # batch[i].id
             new == { batch[i] : i \in { j \in 1 .. Len(batch) : last(j) } }
             ids == { e.id : e \in new }
  <2>1. edges' = { e \in edges : e.id \notin ids } \cup new
    BY <1>3 DEF UpsertEdgesPostgres
  <2>2. IsFiniteSet(new)
    <3>1. PICK e \in Edge, g \in Edge : batch \in {<<e>>, <<e, g>>}
      BY <1>3 DEF Batch
    <3>2. new \subseteq {e} \cup {g}
      BY <3>1
    <3> HIDE DEF new
    <3>3. IsFiniteSet({e} \cup {g})
      BY FS_Singleton, FS_AddElement
    <3> QED BY <3>2, <3>3, FS_Subset
  <2>3. IsFiniteSet({ e \in edges : e.id \notin ids })
    BY FS_Subset
  <2> HIDE DEF new
  <2> QED BY <2>1, <2>2, <2>3, FS_Union
<1>4. ASSUME NEW S, NEW t, UpsertNodes(S, t) PROVE IsFiniteSet(edges)'
  BY <1>1, <1>4 DEF UpsertNodes
<1>5. ASSUME NEW e, DeleteEdge(e) \/ DeleteEdgePostgres(e) PROVE IsFiniteSet(edges)'
  BY <1>1, <1>5 DEF DeleteEdge, DeleteEdgePostgres
<1>6. ASSUME NEW n, NEW cascade, DeleteNode(n, cascade) \/ DeleteBegin(n, cascade)
      PROVE  IsFiniteSet(edges)'
  BY <1>1, <1>6 DEF DeleteNode, DeleteBegin
<1>7. CASE DeleteCommit
  BY <1>1, <1>7 DEF DeleteCommit
<1>8. CASE UNCHANGED edges
  BY <1>8
<1> QED
  BY <1>2, <1>3, <1>4, <1>5, <1>6, <1>7, <1>8
     DEF Next, Write, DeleteCount, DeleteCascade, Begin, Reads, NeighborsScan, NeighborsLoad,
         TraverseHop, VisitEdge, EdgesEnd, QueryFails, Tick, vars

\* While the tables stay as they are and the call keeps its options, so do the
\* hops and the levels.
LEMMA HopsStay ==
  ASSUME UNCHANGED <<driver, nodes, edges, out, in>>,
         query'.start = query.start, query'.dir = query.dir, query'.types = query.types,
         query'.asOf = query.asOf, query'.depth = query.depth
  PROVE  /\ Stored' = Stored
         /\ \A e : Passes(e)' <=> Passes(e)
         /\ \A S : OneHop(S)' = OneHop(S)
         /\ \A e, n : Along(e, n)' <=> Along(e, n)
         /\ \A n : Incident(n, query.dir)' = Incident(n, query.dir)
         /\ \A f : LevelsTo(f, query.depth)' <=> LevelsTo(f, query.depth)
<1>1. Stored' = Stored
  BY DEF Stored
<1>2. ASSUME NEW e PROVE Passes(e)' <=> Passes(e)
  BY DEF Passes, ValidAt
<1>3. ASSUME NEW S PROVE OneHop(S)' = OneHop(S)
  BY <1>1, <1>2 DEF OneHop
<1>4. \A e, n : Along(e, n)' <=> Along(e, n)
  BY DEF Along
<1>5. ASSUME NEW n PROVE Incident(n, query.dir)' = Incident(n, query.dir)
  BY DEF Incident, incident, incidentEdges
<1>6. ASSUME NEW f PROVE LevelsTo(f, query.depth)' <=> LevelsTo(f, query.depth)
  BY <1>3 DEF LevelsTo
<1> QED
  BY <1>1, <1>2, <1>3, <1>4, <1>5, <1>6

\* A write that comes during a traversal tears it.
LEMMA TornApart ==
  ASSUME QueryInv, Tear
  PROVE  ~ Traversing' /\ ~ Traversed'
<1>1. CASE query.pc \in {"idle", "failed"}
  BY <1>1 DEF Tear, Traversing, Traversed
<1>2. CASE query.pc \notin {"idle", "failed"}
  <2>1. query' = [query EXCEPT !.torn = TRUE] /\ "torn" \in DOMAIN query
    BY <1>2 DEF Tear, QueryInv, Sound, Ran, Fields
  <2>2. query'.torn
    BY <2>1
  <2> QED BY <2>2 DEF Traversing, Traversed
<1> QED
  BY <1>1, <1>2

\* A search starts at its start node, which is stored.
LEMMA BeginReaches ==
  ASSUME IsFiniteSet(edges), NEW q \in Query, Begin(q)
  PROVE  ReachInv'
<1>1. CASE q.start \notin Stored \/ q.kind # "traverse"
  <2>1. ~ Traversing' /\ ~ Traversed' /\ edges' = edges
    BY <1>1 DEF Begin, Traversing, Traversed
  <2> QED BY <2>1 DEF ReachInv, Counts
<1>2. CASE q.start \in Stored /\ q.kind = "traverse"
  <2>1. /\ query'.pc = "hop" /\ query'.hop = 0 /\ query'.depth = q.depth /\ query'.fan = 0
        /\ query'.fanOut = q.fanOut /\ query'.start = q.start /\ query'.nodes = {q.start}
        /\ query'.frontier = {q.start} /\ query'.next = {}
        /\ UNCHANGED <<nodes, edges>>
    BY <1>2 DEF Begin
  <2>2. q.depth \in Nat \ {0} /\ q.fanOut \in Nat
    BY <1>2, GraphAssumption
  <2>3. Counts'
    BY <1>2, <2>1, <2>2 DEF Counts, Stored
  <2>4. ASSUME NEW f, LevelsTo(f, query.depth)' PROVE HopsOk(f)' /\ EndOk(f)'
    <3>1. f[0] = {q.start}
      BY <2>1, <2>2, <2>4 DEF LevelsTo
    <3>2. \A n \in f[0] \ query'.frontier : FALSE
      BY <2>1, <3>1
    <3>3. HopsOk(f)'
      BY <2>1, <2>2, <3>1, <3>2 DEF HopsOk
    <3> QED BY <2>1, <3>3 DEF EndOk, Traversed
  <2> QED BY <2>1, <2>3, <2>4 DEF ReachInv
<1> QED
  BY <1>1, <1>2

\* The next frontier node is fetched with its entries, which lead to all of its
\* neighbours; or the next hop begins, with every node of this one spent.
LEMMA HopReaches ==
  ASSUME TypeOK, AdjacencyAgrees, QueryInv, ReachInv, TraverseHop
  PROVE  ReachInv'
<1>1. query.pc = "hop" /\ Ran(query) /\ UNCHANGED <<driver, nodes, edges, out, in>>
  BY DEF TraverseHop, Reads, QueryInv, Sound
<1>2. CASE ~ (query.kind = "traverse" /\ ~ query.torn)
  <2>1. query'.kind = query.kind /\ query'.torn = query.torn
    <3>1. DOMAIN query = Fields
      BY <1>1 DEF Ran
    <3>2. "kind" \in DOMAIN query /\ "torn" \in DOMAIN query
      BY <3>1 DEF Fields
    <3> QED BY <3>2 DEF TraverseHop, Reads
  <2>2. ~ Traversing' /\ ~ Traversed'
    BY <1>2, <2>1 DEF Traversing, Traversed
  <2> QED BY <1>1, <2>2 DEF ReachInv, Counts
<1>3. CASE query.kind = "traverse" /\ ~ query.torn /\ query.frontier # {}
  <2>1. Traversing
    BY <1>1, <1>3 DEF Traversing
  <2>2. PICK n \in query.frontier :
          query' = [query EXCEPT !.pc = "edge", !.at = n, !.frontier = @ \ {n}, !.fan = 0,
                                 !.scan = Incident(n, query.dir)]
    BY <1>3 DEF TraverseHop, Reads
  <2> DEFINE s == Incident(n, query.dir)
  <2>3. IsFiniteSet(s) /\ Cardinality(s) \in Nat
    BY IncidentFinite, FS_CardinalityType DEF ReachInv
  <2>4. /\ \A i \in s : Along(i[1], n)
        /\ \A m \in OneHop({n}) : \E i \in s : Passes(i[1]) /\ otherEndpoint(i[1], n) = m
    BY IncidentIsHop
  <2>5. query' = [query EXCEPT !.pc = "edge", !.at = n, !.frontier = @ \ {n}, !.fan = 0,
                               !.scan = s]
    BY <2>2
  <2> HIDE DEF s
  <2>6. /\ query'.pc = "edge" /\ query'.at = n /\ query'.frontier = query.frontier \ {n}
        /\ query'.fan = 0 /\ query'.scan = s /\ query'.next = query.next
        /\ query'.hop = query.hop /\ query'.depth = query.depth /\ query'.nodes = query.nodes
        /\ query'.fanOut = query.fanOut /\ query'.maxNodes = query.maxNodes
        /\ query'.start = query.start /\ query'.dir = query.dir /\ query'.types = query.types
        /\ query'.asOf = query.asOf
    BY <1>1, <2>5 DEF Ran, Fields
  <2>7. /\ Stored' = Stored /\ \A e : Passes(e)' <=> Passes(e)
        /\ \A S : OneHop(S)' = OneHop(S) /\ \A e, m : Along(e, m)' <=> Along(e, m)
        /\ \A m : Incident(m, query.dir)' = Incident(m, query.dir)
        /\ \A f : LevelsTo(f, query.depth)' <=> LevelsTo(f, query.depth)
    BY <1>1, <2>6, HopsStay
  <2>8. Incident(query.at, query.dir)' = s
    BY <2>6, <2>7 DEF s
  <2>9. Counts'
    BY <2>1, <2>3, <2>6, <2>7, <2>8 DEF ReachInv, Counts
  <2>10. Uncut' => Uncut
    BY <2>6, <2>7 DEF Uncut
  <2>11. ASSUME NEW f, LevelsTo(f, query.depth)' PROVE HopsOk(f)' /\ EndOk(f)'
    <3>1. HopsOk(f)
      BY <2>1, <2>7, <2>11 DEF ReachInv
    <3>2. OneHop({n}) \subseteq Ahead'
      BY <2>4, <2>6, <2>7 DEF Ahead
    <3>3. /\ query.hop < query.depth
          /\ query.frontier \subseteq f[query.hop] /\ query.next \subseteq f[query.hop + 1]
          /\ query.nodes \subseteq f[query.hop] \cup query.next
      BY <2>1, <3>1 DEF HopsOk
    <3>4. ASSUME Uncut'
          PROVE  /\ f[query.hop] \subseteq query.nodes
                 /\ \A m \in f[query.hop] \ (query.frontier \ {n}) :
                      OneHop({m})' \subseteq IF m = n THEN query.nodes \cup Ahead' ELSE query.nodes
      <4>1. /\ f[query.hop] \subseteq query.nodes
            /\ \A m \in f[query.hop] \ query.frontier : OneHop({m}) \subseteq query.nodes
        BY <1>1, <2>1, <2>10, <3>1, <3>4 DEF HopsOk
      <4> QED BY <2>7, <3>2, <4>1
    <3>5. HopsOk(f)'
      BY <2>4, <2>6, <2>7, <3>3, <3>4 DEF HopsOk
    <3> QED BY <2>6, <3>5 DEF EndOk, Traversed
  <2> QED BY <1>1, <2>9, <2>11 DEF ReachInv
<1>4. CASE query.kind = "traverse" /\ ~ query.torn /\ query.frontier = {}
  <2>1. Traversing
    BY <1>1, <1>4 DEF Traversing
  <2>2. query' = [query EXCEPT !.hop = @ + 1, !.frontier = query.next, !.next = {},
                    !.pc = IF query.hop + 1 < query.depth /\ query.next # {} THEN "hop" ELSE "done"]
    BY <1>4 DEF TraverseHop, Reads
  <2>3. /\ query'.pc = (IF query.hop + 1 < query.depth /\ query.next # {} THEN "hop" ELSE "done")
        /\ query'.hop = query.hop + 1 /\ query'.frontier = query.next /\ query'.next = {}
        /\ query'.depth = query.depth /\ query'.nodes = query.nodes /\ query'.fan = query.fan
        /\ query'.fanOut = query.fanOut /\ query'.maxNodes = query.maxNodes
        /\ query'.start = query.start /\ query'.dir = query.dir /\ query'.types = query.types
        /\ query'.asOf = query.asOf
    BY <1>1, <2>2 DEF Ran, Fields
  <2>4. /\ Stored' = Stored
        /\ \A S : OneHop(S)' = OneHop(S)
        /\ \A m : Incident(m, query.dir)' = Incident(m, query.dir)
        /\ \A f : LevelsTo(f, query.depth)' <=> LevelsTo(f, query.depth)
    BY <1>1, <2>3, HopsStay
  <2>5. query.hop \in Nat /\ query.depth \in Nat
    BY <2>1 DEF ReachInv, Counts
  <2>6. Counts'
    BY <2>1, <2>3, <2>4, <2>5 DEF ReachInv, Counts
  <2>7. Uncut' => Uncut
    BY <2>3, <2>4 DEF Uncut
  <2>8. ASSUME NEW f, LevelsTo(f, query.depth)' PROVE HopsOk(f)' /\ EndOk(f)'
    <3>1. HopsOk(f) /\ LevelsTo(f, query.depth)
      BY <2>1, <2>4, <2>8 DEF ReachInv
    <3> DEFINE h == query.hop
    <3>2. /\ h < query.depth
          /\ query.next \subseteq f[h + 1] /\ query.nodes \subseteq f[h] \cup query.next
      BY <2>1, <3>1 DEF HopsOk
    <3>3. f[h + 1] = f[h] \cup OneHop(f[h])
      <4>1. h \in 0 .. query.depth /\ h + 1 <= query.depth
        BY <2>5, <3>2
      <4> QED BY <2>5, <3>1, <4>1, LevelFacts
    <3>4. query.nodes \subseteq f[h + 1]
      BY <3>2, <3>3
    <3>5. ASSUME Uncut'
          PROVE  f[h + 1] \subseteq query.nodes /\ \A n \in f[h] : OneHop({n}) \subseteq query.nodes
      <4>1. f[h] \subseteq query.nodes /\ \A n \in f[h] : OneHop({n}) \subseteq query.nodes
        BY <1>1, <1>4, <2>1, <2>7, <3>1, <3>5 DEF HopsOk
      <4>2. OneHop(f[h]) \subseteq query.nodes
        BY <4>1, HopFromOne
      <4> QED BY <3>3, <4>1, <4>2
    <3>6. ASSUME Uncut'
          PROVE  \A n \in f[h + 1] \ query.next : OneHop({n})' \subseteq query.nodes
      BY <2>4, <3>2, <3>5, <3>6
    <3>7. ASSUME Uncut', query.next = {}
          PROVE  OneHop(query.nodes)' \subseteq query.nodes
      <4>1. \A n \in query.nodes : OneHop({n}) \subseteq query.nodes
        BY <3>2, <3>5, <3>7
      <4>2. OneHop(query.nodes) \subseteq query.nodes
        BY <4>1, HopFromOne
      <4>3. OneHop(query.nodes)' = OneHop(query.nodes)
        BY <1>1, <2>3 DEF OneHop, Passes, ValidAt, Stored
      <4> QED BY <4>2, <4>3
    <3> HIDE DEF h
    <3>8. h = query.hop /\ h \in Nat /\ query'.hop = h + 1 /\ query.depth \in Nat
      BY <2>3, <2>5 DEF h
    <3>9. HopsOk(f)'
      <4>1. ASSUME Traversing' PROVE query'.pc = "hop" /\ h + 1 < query.depth
        BY <2>3, <3>8, <4>1 DEF Traversing
      <4> QED BY <2>3, <2>4, <3>2, <3>4, <3>5, <3>6, <3>8, <4>1 DEF HopsOk
    <3>10. EndOk(f)'
      <4>1. ASSUME Traversed', h + 1 < query.depth PROVE query.next = {}
        BY <2>3, <3>8, <4>1 DEF Traversed
      <4> QED BY <2>3, <2>4, <3>2, <3>4, <3>5, <3>7, <3>8, <4>1 DEF EndOk
    <3> QED BY <3>9, <3>10
  <2> QED BY <1>1, <2>6, <2>8 DEF ReachInv
<1> QED
  BY <1>2, <1>3, <1>4

\* Keeping an edge changes only the edges of the result.
LEMMA KeepsRest ==
  ASSUME NEW q, DOMAIN q = Fields, NEW e
  PROVE  /\ DOMAIN Keep(q, e) = Fields
         /\ \A x \in Fields \ {"edges"} : Keep(q, e)[x] = q[x]
BY DEF Keep, Fields

\* A visited entry leaves the list; its node joins the result and the next level,
\* unless it has no part in the search, is there already or finds no room.
LEMMA VisitTakes ==
  ASSUME Ran(query), InBudget(query), query.kind = "traverse", NEW i, VisitEdge(i)
  PROVE  LET m == otherEndpoint(i[1], query.at) IN
         /\ DOMAIN query' = Fields
         /\ \A x \in Fields \ {"scan", "fan", "nodes", "next", "edges"} : query'[x] = query[x]
         /\ query'.scan = query.scan \ {i} /\ query'.fan = query.fan + 1
         /\ \/ /\ query'.nodes = query.nodes /\ query'.next = query.next
               /\ \/ ~ Passes(i[1]) \/ m \in query.nodes \/ m \notin Stored
                  \/ ~ (Cardinality(query.nodes) < query.maxNodes)
            \/ /\ query'.nodes = query.nodes \cup {m} /\ query'.next = query.next \cup {m}
               /\ Passes(i[1]) /\ m \in Stored /\ Cardinality(query.nodes) < query.maxNodes
<1> DEFINE e == i[1]
           m == otherEndpoint(e, query.at)
           q == [query EXCEPT !.scan = @ \ {i}, !.fan = @ + 1]
           r == [q EXCEPT !.nodes = @ \cup {m}, !.next = @ \cup {m}]
           Same(k) == \A x \in Fields \ {"scan", "fan", "nodes", "next", "edges"} : k[x] = query[x]
<1>1. query' = IF ~ Passes(e) THEN q
               ELSE IF m \in q.nodes THEN Keep(q, e)
               ELSE IF Cardinality(q.nodes) >= q.maxNodes \/ m \notin Stored THEN q
               ELSE Keep(r, e)
  BY DEF VisitEdge, Reads
<1>2. Cardinality(query.nodes) >= query.maxNodes <=> ~ (Cardinality(query.nodes) < query.maxNodes)
  BY FS_CardinalityType DEF InBudget
<1>3. DOMAIN query = Fields
  BY DEF Ran
<1> HIDE DEF m, e
<1>4. /\ DOMAIN q = Fields /\ q.scan = query.scan \ {i} /\ q.fan = query.fan + 1
      /\ q.nodes = query.nodes /\ q.next = query.next /\ q.maxNodes = query.maxNodes /\ Same(q)
  BY <1>3 DEF Fields
<1> HIDE DEF q
<1>5. /\ DOMAIN r = Fields /\ r.scan = q.scan /\ r.fan = q.fan
      /\ r.nodes = query.nodes \cup {m} /\ r.next = query.next \cup {m} /\ Same(r)
  BY <1>4 DEF Fields
<1> HIDE DEF r
<1>6. ASSUME NEW k, DOMAIN k = Fields, Same(k)
      PROVE  /\ DOMAIN Keep(k, e) = Fields /\ Same(Keep(k, e))
             /\ Keep(k, e).scan = k.scan /\ Keep(k, e).fan = k.fan
             /\ Keep(k, e).nodes = k.nodes /\ Keep(k, e).next = k.next
  <2>1. /\ DOMAIN Keep(k, e) = Fields
        /\ \A x \in Fields \ {"edges"} : Keep(k, e)[x] = k[x]
    BY <1>6, KeepsRest
  <2> QED BY <1>6, <2>1 DEF Fields
<1>7. CASE query' = q /\ (~ Passes(e) \/ m \notin Stored \/ ~ (Cardinality(query.nodes) < query.maxNodes))
  BY <1>4, <1>7 DEF e, m
<1>8. CASE query' = Keep(q, e) /\ m \in query.nodes
  BY <1>4, <1>6, <1>8 DEF e, m
<1>9. CASE query' = Keep(r, e) /\ Passes(e) /\ m \in Stored /\ Cardinality(query.nodes) < query.maxNodes
  BY <1>4, <1>5, <1>6, <1>9 DEF e, m
<1> QED
  BY <1>1, <1>2, <1>4, <1>7, <1>8, <1>9

\* A visited entry brings its node in, so none is missed that the list led to.
LEMMA VisitReaches ==
  ASSUME TypeOK, QueryInv, ReachInv, NEW i, VisitEdge(i)
  PROVE  ReachInv'
<1>1. query.pc = "edge" /\ i \in query.scan /\ Ran(query) /\ InBudget(query)
      /\ UNCHANGED <<driver, nodes, edges, out, in>>
  BY DEF VisitEdge, Reads, QueryInv, Sound
<1>2. CASE ~ (query.kind = "traverse" /\ ~ query.torn)
  <2>1. query'.kind = query.kind /\ query'.torn = query.torn
    <3> DEFINE m == otherEndpoint(i[1], query.at)
               q == [query EXCEPT !.scan = @ \ {i}, !.fan = @ + 1]
               r == [q EXCEPT !.nodes = @ \cup {m}, !.next = @ \cup {m}]
    <3>1. query' \in {q, Keep(q, i[1]), Keep(r, i[1])}
      BY DEF VisitEdge, Reads
    <3> HIDE DEF m
    <3>2. /\ DOMAIN q = Fields /\ q.kind = query.kind /\ q.torn = query.torn
          /\ DOMAIN r = Fields /\ r.kind = query.kind /\ r.torn = query.torn
      BY <1>1 DEF Ran, Fields
    <3> HIDE DEF q, r
    <3>3. ASSUME NEW k, DOMAIN k = Fields
          PROVE  Keep(k, i[1]).kind = k.kind /\ Keep(k, i[1]).torn = k.torn
      <4>1. \A x \in Fields \ {"edges"} : Keep(k, i[1])[x] = k[x]
        BY <3>3, KeepsRest
      <4> QED BY <4>1 DEF Fields
    <3> QED BY <3>1, <3>2, <3>3
  <2>2. ~ Traversing' /\ ~ Traversed'
    BY <1>2, <2>1 DEF Traversing, Traversed
  <2> QED BY <1>1, <2>2 DEF ReachInv, Counts
<1>3. CASE query.kind = "traverse" /\ ~ query.torn
  <2> DEFINE m == otherEndpoint(i[1], query.at)
  <2>1. Traversing
    BY <1>1, <1>3 DEF Traversing
  <2>2. /\ \A x \in Fields \ {"scan", "fan", "nodes", "next", "edges"} : query'[x] = query[x]
        /\ query'.scan = query.scan \ {i} /\ query'.fan = query.fan + 1
        /\ \/ /\ query'.nodes = query.nodes /\ query'.next = query.next
              /\ \/ ~ Passes(i[1]) \/ m \in query.nodes \/ m \notin Stored
                 \/ ~ (Cardinality(query.nodes) < query.maxNodes)
           \/ /\ query'.nodes = query.nodes \cup {m} /\ query'.next = query.next \cup {m}
              /\ Passes(i[1]) /\ m \in Stored /\ Cardinality(query.nodes) < query.maxNodes
    BY <1>1, <1>3, VisitTakes
  <2>3. /\ query'.pc = "edge" /\ query'.at = query.at /\ query'.frontier = query.frontier
        /\ query'.hop = query.hop /\ query'.depth = query.depth /\ query'.fanOut = query.fanOut
        /\ query'.maxNodes = query.maxNodes /\ query'.start = query.start /\ query'.dir = query.dir
        /\ query'.types = query.types /\ query'.asOf = query.asOf
    BY <1>1, <2>2 DEF Fields
  <2>4. /\ Stored' = Stored /\ \A d : Passes(d)' <=> Passes(d)
        /\ \A S : OneHop(S)' = OneHop(S) /\ \A d, n : Along(d, n)' <=> Along(d, n)
        /\ \A n : Incident(n, query.dir)' = Incident(n, query.dir)
        /\ \A f : LevelsTo(f, query.depth)' <=> LevelsTo(f, query.depth)
    BY <1>1, <2>3, HopsStay
  <2>5. /\ query.hop \in Nat /\ query.depth \in Nat /\ query.fan \in Nat /\ query.fanOut \in Nat
        /\ query.nodes \subseteq Stored /\ IsFiniteSet(query.scan)
        /\ query.fan + Cardinality(query.scan) <= Cardinality(Incident(query.at, query.dir))
    BY <1>1, <2>1 DEF ReachInv, Counts
  <2>6. Counts'
    <3>1. /\ IsFiniteSet(query.scan \ {i})
          /\ Cardinality(query.scan \ {i}) = Cardinality(query.scan) - 1
          /\ Cardinality(query.scan) \in Nat
      BY <1>1, <2>5, FS_RemoveElement, FS_CardinalityType
    <3>2. Incident(query.at, query.dir)' = Incident(query.at, query.dir)
      BY <1>1, <2>3 DEF Incident, incident, incidentEdges
    <3>3. (query.fan + 1) + (Cardinality(query.scan) - 1) = query.fan + Cardinality(query.scan)
      BY <2>5, <3>1
    <3>4. query'.fan + Cardinality(query'.scan) <= Cardinality(Incident(query.at, query.dir)')
      BY <2>2, <2>5, <3>1, <3>2, <3>3
    <3>5. query'.nodes \subseteq Stored'
      BY <2>2, <2>4, <2>5
    <3> QED BY <2>2, <2>3, <2>5, <3>1, <3>4, <3>5 DEF Counts
  <2>7. Uncut' => Uncut
    <3>1. Cardinality(query'.nodes) < query.maxNodes => Cardinality(query.nodes) < query.maxNodes
      BY <2>2
    <3> QED BY <2>3, <2>4, <3>1 DEF Uncut
  <2> HIDE DEF m
  <2>8. ASSUME NEW f, LevelsTo(f, query.depth)' PROVE HopsOk(f)' /\ EndOk(f)'
    <3> DEFINE h == query.hop
    <3>1. HopsOk(f) /\ LevelsTo(f, query.depth)
      BY <2>1, <2>4, <2>8 DEF ReachInv
    <3>2. /\ h < query.depth /\ query.frontier \subseteq f[h] /\ query.next \subseteq f[h + 1]
          /\ query.nodes \subseteq f[h] \cup query.next /\ query.at \in f[h]
          /\ \A j \in query.scan : Along(j[1], query.at)
      BY <1>1, <2>1, <3>1 DEF HopsOk
    <3>3. f[h + 1] = f[h] \cup OneHop(f[h])
      <4>1. h \in 0 .. query.depth /\ h + 1 <= query.depth
        BY <2>5, <3>2
      <4> QED BY <2>5, <3>1, <4>1, LevelFacts
    <3>4. Passes(i[1]) /\ m \in Stored => m \in f[h + 1]
      BY <1>1, <3>2, <3>3, AlongIsHop DEF m
    <3>5. query'.next \subseteq f[h + 1] /\ query'.nodes \subseteq f[h] \cup query'.next
      BY <2>2, <3>2, <3>4
    <3>6. ASSUME Uncut'
          PROVE  /\ f[h] \subseteq query'.nodes
                 /\ \A n \in f[h] \ query.frontier :
                      OneHop({n})' \subseteq IF n = query.at THEN query'.nodes \cup Ahead'
                                             ELSE query'.nodes
      <4>1. /\ f[h] \subseteq query.nodes
            /\ \A n \in f[h] \ query.frontier :
                  OneHop({n}) \subseteq IF n = query.at THEN query.nodes \cup Ahead ELSE query.nodes
        BY <1>1, <2>1, <2>7, <3>1, <3>6 DEF HopsOk
      <4>2. query.nodes \subseteq query'.nodes
        BY <2>2
      <4>3. Cardinality(query.nodes) < query.maxNodes
        BY <2>7, <3>6 DEF Uncut
      <4>4. \A x \in Ahead \cap Stored : x \in query'.nodes \cup Ahead'
        <5>1. ASSUME NEW x \in Ahead, x \in Stored PROVE x \in query'.nodes \cup Ahead'
          <6>1. PICK j \in query.scan : Passes(j[1]) /\ x = otherEndpoint(j[1], query.at)
            BY <5>1 DEF Ahead
          <6>2. CASE j = i
            <7>1. x = m /\ Passes(i[1])
              BY <6>1, <6>2 DEF m
            <7> QED BY <2>2, <4>3, <5>1, <7>1
          <6>3. CASE j # i
            <7>1. j \in query'.scan /\ Passes(j[1])' /\ x = otherEndpoint(j[1], query'.at)
              BY <2>2, <2>3, <2>4, <6>1, <6>3
            <7> QED BY <7>1 DEF Ahead
          <6> QED BY <6>2, <6>3
        <5> QED BY <5>1
      <4>5. \A n : OneHop({n}) \subseteq Stored
        BY DEF OneHop
      <4>6. \A n : OneHop({n})' = OneHop({n})
        BY <2>4
      <4> QED BY <4>1, <4>2, <4>4, <4>5, <4>6
    <3>7. \A j \in query'.scan : Along(j[1], query.at)'
      <4>1. ASSUME NEW j \in query'.scan PROVE Along(j[1], query.at)'
        <5>1. j \in query.scan
          BY <2>2, <4>1
        <5> QED BY <1>1, <2>3, <3>2, <5>1 DEF Along
      <4> QED BY <4>1
    <3>8. h = query'.hop /\ query'.depth = query.depth
      BY <2>3
    <3> HIDE DEF h
    <3>9. HopsOk(f)'
      BY <2>3, <3>2, <3>5, <3>6, <3>7, <3>8 DEF HopsOk
    <3> QED BY <2>3, <3>9 DEF EndOk, Traversed
  <2> QED BY <1>1, <2>6, <2>8 DEF ReachInv
<1> QED
  BY <1>2, <1>3

\* The list of a node ends with nothing left on it, unless the fan-out was cut.
LEMMA EndReaches ==
  ASSUME TypeOK, QueryInv, ReachInv, EdgesEnd
  PROVE  ReachInv'
<1>1. query.pc = "edge" /\ Ran(query) /\ UNCHANGED <<driver, nodes, edges, out, in>>
      /\ query' = [query EXCEPT !.pc = "hop", !.at = None, !.scan = {}]
      /\ (query.scan = {} \/ (query.fanOut > 0 /\ query.fan >= query.fanOut))
  BY DEF EdgesEnd, Reads, QueryInv, Sound
<1>2. /\ query'.pc = "hop" /\ query'.frontier = query.frontier /\ query'.next = query.next
      /\ query'.hop = query.hop /\ query'.depth = query.depth /\ query'.fanOut = query.fanOut
      /\ query'.maxNodes = query.maxNodes /\ query'.start = query.start /\ query'.dir = query.dir
      /\ query'.types = query.types /\ query'.asOf = query.asOf /\ query'.fan = query.fan
      /\ query'.nodes = query.nodes /\ query'.kind = query.kind /\ query'.torn = query.torn
  BY <1>1 DEF Ran, Fields
<1>3. CASE ~ Traversing
  <2>1. ~ Traversing' /\ ~ Traversed'
    BY <1>1, <1>2, <1>3 DEF Traversing, Traversed
  <2> QED BY <1>1, <2>1 DEF ReachInv, Counts
<1>4. CASE Traversing
  <2>1. /\ Stored' = Stored /\ \A S : OneHop(S)' = OneHop(S)
        /\ \A n : Incident(n, query.dir)' = Incident(n, query.dir)
        /\ \A f : LevelsTo(f, query.depth)' <=> LevelsTo(f, query.depth)
    BY <1>1, <1>2, HopsStay
  <2>2. /\ query.hop \in Nat /\ query.depth \in Nat /\ query.fan \in Nat /\ query.fanOut \in Nat
        /\ query.nodes \subseteq Stored /\ IsFiniteSet(query.scan)
        /\ query.fan + Cardinality(query.scan) <= Cardinality(Incident(query.at, query.dir))
    BY <1>1, <1>4 DEF ReachInv, Counts
  <2>3. Counts'
    BY <1>2, <2>1, <2>2 DEF Counts
  <2>4. Uncut' => Uncut
    BY <1>2, <2>1 DEF Uncut
  <2>5. ASSUME Uncut PROVE Ahead = {}
    <3>1. CASE query.scan = {}
      BY <3>1 DEF Ahead
    <3>2. CASE query.fanOut > 0 /\ query.fan >= query.fanOut
      <4>1. query.at \in Stored
        BY <1>1, <2>2 DEF Ran
      <4>2. Cardinality(Incident(query.at, query.dir)) <= query.fanOut
        BY <2>5, <3>2, <4>1 DEF Uncut
      <4>3. Cardinality(query.scan) \in Nat /\ Cardinality(Incident(query.at, query.dir)) \in Nat
        BY <2>2, IncidentFinite, FS_CardinalityType DEF ReachInv
      <4>4. Cardinality(query.scan) = 0
        BY <2>2, <3>2, <4>2, <4>3
      <4>5. query.scan = {}
        BY <2>2, <4>4, FS_EmptySet
      <4> QED BY <3>1, <4>5
    <3> QED BY <1>1, <3>1, <3>2
  <2>6. ASSUME NEW f, LevelsTo(f, query.depth)' PROVE HopsOk(f)' /\ EndOk(f)'
    <3>1. HopsOk(f)
      BY <1>4, <2>1, <2>6 DEF ReachInv
    <3>2. /\ query.hop < query.depth
          /\ query.frontier \subseteq f[query.hop] /\ query.next \subseteq f[query.hop + 1]
          /\ query.nodes \subseteq f[query.hop] \cup query.next
      BY <1>4, <3>1 DEF HopsOk
    <3>3. ASSUME Uncut'
          PROVE  /\ f[query.hop] \subseteq query.nodes
                 /\ \A n \in f[query.hop] \ query.frontier : OneHop({n})' \subseteq query.nodes
      <4>1. /\ f[query.hop] \subseteq query.nodes
            /\ \A n \in f[query.hop] \ query.frontier : OneHop({n}) \subseteq query.nodes \cup Ahead
        BY <1>1, <1>4, <2>4, <3>1, <3>3 DEF HopsOk
      <4> QED BY <2>1, <2>4, <2>5, <3>3, <4>1
    <3>4. HopsOk(f)'
      BY <1>2, <3>2, <3>3 DEF HopsOk
    <3> QED BY <1>2, <3>4 DEF EndOk, Traversed
  <2> QED BY <1>1, <2>3, <2>6 DEF ReachInv
<1> QED
  BY <1>3, <1>4

\* No step of the block leads a search astray: writes tear it, and its own
\* statements go on hop by hop.
LEMMA ReachStep ==
  ASSUME TypeOK, AdjacencyAgrees, QueryInv, ReachInv, [Next]_vars
  PROVE  ReachInv'
<1>1. IsFiniteSet(edges)'
  BY FiniteStep DEF ReachInv
<1>2. ASSUME ~ Traversing', ~ Traversed' PROVE ReachInv'
  BY <1>1, <1>2 DEF ReachInv, Counts
<1>3. CASE Tear
  BY <1>2, <1>3, TornApart
<1>4. ASSUME UNCHANGED <<driver, nodes, edges, out, in, query>> PROVE ReachInv'
  <2>1. Traversing' = Traversing /\ Traversed' = Traversed
    BY <1>4 DEF Traversing, Traversed
  <2>2. CASE ~ Traversing /\ ~ Traversed
    BY <1>2, <2>1, <2>2
  <2>3. CASE Traversing \/ Traversed
    <3>1. /\ Stored' = Stored /\ \A e : Passes(e)' <=> Passes(e)
          /\ \A S : OneHop(S)' = OneHop(S) /\ \A e, n : Along(e, n)' <=> Along(e, n)
          /\ \A n : Incident(n, query.dir)' = Incident(n, query.dir)
          /\ \A f : LevelsTo(f, query.depth)' <=> LevelsTo(f, query.depth)
      BY <1>4, HopsStay
    <3>2. Counts'
      <4>1. Incident(query.at, query.dir)' = Incident(query.at, query.dir)
        BY <1>4 DEF Incident, incident, incidentEdges
      <4> QED BY <1>4, <2>1, <3>1, <4>1 DEF ReachInv, Counts
    <3>3. Uncut' <=> Uncut
      BY <1>4, <3>1 DEF Uncut
    <3>4. Ahead' = Ahead
      BY <1>4, <3>1 DEF Ahead
    <3>5. ASSUME NEW f, LevelsTo(f, query.depth)' PROVE HopsOk(f)' /\ EndOk(f)'
      <4>1. HopsOk(f) /\ EndOk(f)
        BY <2>3, <3>1, <3>5 DEF ReachInv
      <4>2. HopsOk(f)'
        BY <1>4, <2>1, <3>1, <3>3, <3>4, <4>1 DEF HopsOk
      <4>3. OneHop(query.nodes)' = OneHop(query.nodes)
        BY <1>4 DEF OneHop, Passes, ValidAt, Stored
      <4>4. EndOk(f)'
        BY <1>4, <2>1, <3>1, <3>3, <4>1, <4>3 DEF EndOk
      <4> QED BY <4>2, <4>4
    <3> QED BY <1>1, <3>2, <3>5 DEF ReachInv
  <2> QED BY <2>2, <2>3
<1>5. ASSUME NEW q \in Query, Begin(q) PROVE ReachInv'
  BY <1>5, BeginReaches DEF ReachInv
<1>6. CASE NeighborsScan
  <2>1. query'.pc = "load"
    BY <1>6 DEF NeighborsScan, Reads, QueryInv, Sound, Ran, Fields
  <2> QED BY <1>2, <2>1 DEF Traversing, Traversed
<1>7. CASE NeighborsLoad
  <2>1. query.pc = "load" /\ Ran(query) /\ InBudget(query)
    BY <1>7 DEF NeighborsLoad, QueryInv, Sound
  <2>2. query'.kind = query.kind
    BY <1>7, <2>1 DEF NeighborsLoad, Reads, Ran, Fields
  <2> QED BY <1>2, <2>1, <2>2 DEF InBudget, Traversing, Traversed
<1>8. CASE TraverseHop
  BY <1>8, HopReaches
<1>9. ASSUME NEW i, VisitEdge(i) PROVE ReachInv'
  BY <1>9, VisitReaches
<1>10. CASE EdgesEnd
  BY <1>10, EndReaches
<1>11. CASE QueryFails
  BY <1>2, <1>11 DEF QueryFails, Reads, Traversing, Traversed
<1>12. CASE Write
  BY <1>3, <1>4, <1>12 DEF Write, UpsertNodes, UpsertEdges, UpsertEdgesPostgres, DeleteEdge,
     DeleteEdgePostgres, DeleteNode, DeleteBegin, Wrote
<1>13. CASE DeleteCount \/ DeleteCascade \/ DeleteCommit \/ Tick
  BY <1>3, <1>4, <1>13 DEF DeleteCount, DeleteCascade, DeleteCommit, Tick
<1> QED
  BY <1>4, <1>5, <1>6, <1>7, <1>8, <1>9, <1>10, <1>11, <1>12, <1>13 DEF Next, vars

\* A search that no write tears returns only nodes within its depth, and all of
\* them if it had room, for any graph, direction, filters and depth.
THEOREM SearchReaches == Spec => []TraverseReaches
<1>1. Init => TypeOK /\ AdjacencyAgrees /\ QueryInv /\ ReachInv
  BY GraphAssumption, FS_EmptySet DEF Init, TypeOK, Stored, AdjacencyAgrees, NoQuery,
     QueryInv, Sound, ReachInv, Counts, Traversing, Traversed
<1>2. Init => DeleteInv
  BY DEF Init, DeleteInv, NoDelete
<1>3. ReachInv => TraverseReaches
  <2> SUFFICES ASSUME ReachInv, Traversed
               PROVE  /\ query.nodes \subseteq Within[query.depth]
                      /\ Uncut => query.nodes = Within[query.depth]
    BY DEF TraverseReaches, Traversed
  <2>1. query.depth \in Nat /\ query.hop \in Nat
    BY DEF ReachInv, Counts
  <2>2. LevelsTo(Within, query.depth)
    <3>1. PICK g : LevelsTo(g, query.depth)
      BY <2>1, LevelsExist
    <3>2. g = [d \in 0 .. query.depth |->
                  IF d = 0 THEN {query.start} ELSE g[d - 1] \cup OneHop(g[d - 1])]
      BY <3>1 DEF LevelsTo
    <3>3. Within = CHOOSE w : w = [d \in 0 .. query.depth |->
                  IF d = 0 THEN {query.start} ELSE w[d - 1] \cup OneHop(w[d - 1])]
      BY DEF Within
    <3>4. Within = [d \in 0 .. query.depth |->
                  IF d = 0 THEN {query.start} ELSE Within[d - 1] \cup OneHop(Within[d - 1])]
      BY <3>2, <3>3
    <3> QED BY <3>4 DEF LevelsTo
  <2>3. PICK f : f = Within
    OBVIOUS
  <2>4. EndOk(f) /\ LevelsTo(f, query.depth)
    BY <2>2, <2>3 DEF ReachInv
  <2>5. /\ query.hop \in 0 .. query.depth /\ query.nodes \subseteq f[query.hop]
        /\ Uncut => /\ f[query.hop] \subseteq query.nodes
                    /\ query.hop < query.depth => OneHop(query.nodes) \subseteq query.nodes
    BY <2>1, <2>4 DEF EndOk
  <2>6. query.nodes \subseteq f[query.depth]
    BY <2>1, <2>4, <2>5, LevelsGrow
  <2>7. ASSUME Uncut PROVE f[query.depth] \subseteq query.nodes
    BY <2>1, <2>4, <2>5, <2>7, LevelsKeep
  <2> QED BY <2>3, <2>6, <2>7
<1> QED
  BY <1>1, <1>2, <1>3, TypeStep, AdjacencyStep, QueryStep, ReachStep, PTL DEF Spec
=============================================================================
