------------------------------ MODULE Services ------------------------------
(***************************************************************************)
(* The RPC surface: which methods each service has and how they are        *)
(* dispatched (gen/mindd), what policy calls them (interceptor/policy.go), *)
(* and what each handler checks before and after it authorises the caller, *)
(* and how it answers each outcome of its driver (the blocks' service.go). *)
(*                                                                         *)
(* A handler is [op, before, after, answers]: the request fields required  *)
(* before authorisation, those required after it, and the status of the    *)
(* driver outcomes other than "ok" that are not an internal error.         *)
(***************************************************************************)
EXTENDS Access, TLC

-----------------------------------------------------------------------------
(* Service descriptors.  A unary request is decoded before the interceptors*)
(* run, a stream's first message when the handler asks for it.             *)

KV_ServiceDesc       == [unary  |-> {"Get", "MultiGet", "Put", "Delete"}, stream |-> {"Scan"}]
Episodic_ServiceDesc == [unary  |-> {"Append", "Expire"}, stream |-> {"Range", "Tail"}]
Semantic_ServiceDesc == [unary  |-> {"Upsert", "Search", "Delete", "Expire"}, stream |-> {}]
Artifact_ServiceDesc == [unary  |-> {"Stat", "Delete"}, stream |-> {"Put", "Get", "List"}]
Lease_ServiceDesc    == [unary  |-> {"Acquire", "Renew", "Release", "Inspect", "List"}, stream |-> {}]
Graph_ServiceDesc    == [unary  |-> {"UpsertNodes", "UpsertEdges", "GetNode", "Neighbors", "Traverse",
                                     "DeleteNode", "DeleteEdge"}, stream |-> {}]
Admin_ServiceDesc    == [unary  |-> {"ListNamespaces"}, stream |-> {}]

ServiceDesc == [kv |-> KV_ServiceDesc, episodic |-> Episodic_ServiceDesc, semantic |-> Semantic_ServiceDesc,
                artifact |-> Artifact_ServiceDesc, lease |-> Lease_ServiceDesc, graph |-> Graph_ServiceDesc,
                admin |-> Admin_ServiceDesc]

Streams(m) == m.block \in DOMAIN ServiceDesc /\ m.name \in ServiceDesc[m.block].stream

(* The HTTP gateway posts to /package.Service/Method; graph and admin are  *)
(* not registered with it.                                                 *)

KVRoutes       == {"Get", "MultiGet", "Put", "Delete", "Scan"}
EpisodicRoutes == {"Append", "Range", "Tail", "Expire"}
SemanticRoutes == {"Upsert", "Search", "Delete", "Expire"}
ArtifactRoutes == {"Put", "Get", "Stat", "Delete", "List"}
LeaseRoutes    == {"Acquire", "Renew", "Release", "Inspect", "List"}

NewHTTPGateway == [kv |-> KVRoutes, episodic |-> EpisodicRoutes, semantic |-> SemanticRoutes,
                   artifact |-> ArtifactRoutes, lease |-> LeaseRoutes]

Routed(m) == m.block \in DOMAIN NewHTTPGateway /\ m.name \in NewHTTPGateway[m.block]

-----------------------------------------------------------------------------
(* Handlers.                                                               *)

Handler(op, before, after, answers) ==
    [op |-> op, before |-> before, after |-> after, answers |-> answers]

Mismatch == [mismatch |-> "FailedPrecondition"]
NotHeld  == [not_held |-> "FailedPrecondition"]
Missing  == [not_found |-> "NotFound"]
Ended    == [canceled |-> "OK"]

KVGet      == Handler("get", {"key"}, {}, [not_found |-> "OK"])
KVMultiGet == Handler("get", {}, {}, << >>)
KVPut      == Handler("put", {"key"}, {}, Mismatch)
KVDelete   == Handler("delete", {"key"}, {}, Mismatch)
KVScan     == Handler("scan", {}, {}, << >>)

EpisodicAppend == Handler("append", {"type"}, {}, << >>)
EpisodicRange  == Handler("range", {}, {}, Ended)
EpisodicTail   == Handler("tail", {}, {}, Ended)
EpisodicExpire == Handler("expire", {"action", "max_rows"}, {}, [no_window |-> "InvalidArgument"])

SemanticUpsert == Handler("upsert", {}, {"content_or_vector"}, Mismatch)
SemanticSearch == Handler("search", {}, {"query"}, << >>)
SemanticDelete == Handler("delete", {"id"}, {}, << >>)
SemanticExpire == Handler("expire", {"action", "max_rows"}, {}, << >>)

ArtifactPut    == Handler("put", {"init"}, {}, << >>)
ArtifactGet    == Handler("get", {"id"}, {"valid_id"}, Missing)
ArtifactStat   == Handler("stat", {"id"}, {"valid_id"}, [not_found |-> "OK"])
ArtifactDelete == Handler("delete", {"id"}, {"valid_id"}, << >>)
ArtifactList   == Handler("list", {}, {}, << >>)

LeaseAcquire == Handler("acquire", {"key", "ttl"}, {}, [held |-> "FailedPrecondition", canceled |-> "Canceled"])
LeaseRenew   == Handler("renew", {"key", "holder_id", "ttl"}, {}, NotHeld)
LeaseRelease == Handler("release", {"key", "holder_id"}, {}, NotHeld)
LeaseInspect == Handler("inspect", {"key"}, {}, << >>)
LeaseList    == Handler("list", {}, {}, << >>)

GraphUpsertNodes == Handler("upsert", {}, {"id"}, << >>)
GraphUpsertEdges == Handler("upsert", {}, {"id", "type", "from", "to"}, << >>)
GraphGetNode     == Handler("get", {"id"}, {}, Missing)
GraphNeighbors   == Handler("query", {"id"}, {}, Missing)
GraphTraverse    == Handler("query", {"id"}, {}, Missing)
GraphDeleteNode  == Handler("delete", {"id"}, {}, [edges |-> "FailedPrecondition"])
GraphDeleteEdge  == Handler("delete", {"id"}, {}, << >>)

AdminListNamespaces == Handler("inspect", {}, {}, << >>)

\* methodToOp has exactly the methods the services have.
methodToOp(m) ==
    CASE m.block = "kv"       -> [Get |-> KVGet, MultiGet |-> KVMultiGet, Put |-> KVPut,
                                  Delete |-> KVDelete, Scan |-> KVScan][m.name]
      [] m.block = "episodic" -> [Append |-> EpisodicAppend, Range |-> EpisodicRange,
                                  Tail |-> EpisodicTail, Expire |-> EpisodicExpire][m.name]
      [] m.block = "semantic" -> [Upsert |-> SemanticUpsert, Search |-> SemanticSearch,
                                  Delete |-> SemanticDelete, Expire |-> SemanticExpire][m.name]
      [] m.block = "artifact" -> [Put |-> ArtifactPut, Get |-> ArtifactGet, Stat |-> ArtifactStat,
                                  Delete |-> ArtifactDelete, List |-> ArtifactList][m.name]
      [] m.block = "lease"    -> [Acquire |-> LeaseAcquire, Renew |-> LeaseRenew, Release |-> LeaseRelease,
                                  Inspect |-> LeaseInspect, List |-> LeaseList][m.name]
      [] m.block = "graph"    -> [UpsertNodes |-> GraphUpsertNodes, UpsertEdges |-> GraphUpsertEdges,
                                  GetNode |-> GraphGetNode, Neighbors |-> GraphNeighbors,
                                  Traverse |-> GraphTraverse, DeleteNode |-> GraphDeleteNode,
                                  DeleteEdge |-> GraphDeleteEdge][m.name]
      [] m.block = "admin"    -> AdminListNamespaces

OpOf(m) == [block |-> m.block, verb |-> methodToOp(m).op]

isPublicMethod(m) == m.block \in {"health", "reflection"}

-----------------------------------------------------------------------------
(* What the interceptors see, and what a handler answers.                  *)

\* The upload's namespace is inside its first message's init field, which has
\* no getter of its own, so policy sees none.
namespaceFromRequest(q) == IF q.m = [block |-> "artifact", name |-> "Put"] THEN << >> ELSE q.namespace

\* A plausible error: a stream is judged before its first message is there.
HookCtxStream(q, cap) ==
    [tenant |-> cap.tenant, agent |-> cap.agent, op |-> OpOf(q.m),
     namespace |-> IF Streams(q.m) THEN << >> ELSE namespaceFromRequest(q), cost |-> q.cost]

\* decide's hook, built alike for unary calls and for a stream's first message.
HookCtx(q, cap) ==
    [tenant |-> cap.tenant, agent |-> cap.agent, op |-> OpOf(q.m),
     namespace |-> namespaceFromRequest(q), cost |-> q.cost]

policyCode(exhausted) == IF exhausted THEN "ResourceExhausted" ELSE "PermissionDenied"

\* The order of the checks in every handler; bound are the namespaces the
\* block's registry resolves.  Admin asks for the op only.
driverFor(q, cap, bound) ==
    LET h == methodToOp(q.m) IN
    CASE ~ h.before \subseteq q.fields                               -> "InvalidArgument"
      [] q.m.block # "admin" /\ ~ PermitsNamespace(cap, q.m.block, q.namespace) -> "PermissionDenied"
      [] ~ PermitsOp(cap, OpOf(q.m))                                 -> "PermissionDenied"
      [] q.m.block # "admin" /\ q.namespace \notin bound             -> "NotFound"
      [] ~ h.after \subseteq q.fields                                -> "InvalidArgument"
      [] OTHER                                                       -> "OK"

answer(m, outcome) ==
    LET a == methodToOp(m).answers IN
    CASE outcome = "ok"          -> "OK"
      [] outcome \in DOMAIN a    -> a[outcome]
      [] OTHER                   -> "Internal"
=============================================================================
