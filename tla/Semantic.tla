------------------------------ MODULE Semantic ------------------------------
(***************************************************************************)
(* The semantic block: internal/semantic/service.go, its embedding cache   *)
(* (cache.go), the embedders it calls, and the two drivers.                *)
(*                                                                         *)
(* Each session serves one call at a time.  A call first turns its texts   *)
(* into vectors: the cache is consulted text by text under its own lock,   *)
(* the misses go to the embedder in one request, and the answers are put   *)
(* into the cache one by one, so the sessions interleave inside Embed.     *)
(* The memory driver then acts in one step under its mutex; the Postgres   *)
(* driver runs a transaction of several statements, or a search of up to   *)
(* three queries each with a snapshot of its own.                          *)
(*                                                                         *)
(* A vector is the text it is the embedding of, a client's own vector that *)
(* of its content.  A missing id is an unused one chosen by the driver, so *)
(* it is covered by the calls that name one.                               *)
(***************************************************************************)
EXTENDS Ranking, FiniteSetsExt

CONSTANTS
    Sessions,       \* gRPC handler goroutines
    Tenants, Ids,   \* a record's key is <<tenant, id>>
    Calls,          \* the requests clients make
    Drivers,        \* a subset of {"memory", "postgres"}
    CacheSize,      \* capacity of the embedding cache
    MaxCalls        \* bound: calls in a behaviour

Text    == DOMAIN Terms
Upserts == { c \in Calls : c.op = "upsert" }
Meta    == UNION { { c.recs[i].meta : i \in DOMAIN c.recs } : c \in Upserts }

\* A record as a client sends it, and as it is stored.
Record == [id : Ids, text : Text, meta : Meta, ifv : Nat \cup {None}, sup : SUBSET Ids,
           given : BOOLEAN]
Time   == 0 .. MaxCalls
Row    == [version : Nat \ {0}, text : Text, vec : Text, meta : Meta, created : Time, from : Time,
           to : Time \cup {None}, deleted : BOOLEAN]

ASSUME SemanticAssumption ==
    /\ CacheSize \in Nat \ {0} /\ MaxCalls \in Nat
    /\ Drivers \subseteq {"memory", "postgres"} /\ Ids \subseteq Int
    /\ None \notin Nat /\ None \notin Row
    /\ \A c \in Calls :
          /\ c.op \in {"upsert", "search", "delete", "expire"} /\ c.tenant \in Tenants
          /\ c.op = "upsert" => c.recs \in Seq(Record)
          /\ c.op = "search" => /\ c.text \in Text /\ c.mode \in {"dense", "sparse", "hybrid"}
                                /\ {c.k, c.rerank} \subseteq Nat \ {0}      \* defaults filled in
          /\ c.op = "delete" => c.id \in Ids
          /\ c.op = "expire" => c.max \in Nat

VARIABLES
    driver,     \* which driver the namespace is bound to
    rows,       \* per key: the stored (for Postgres: committed) record
    order,      \* memory driver: keys in insertion order
    cache,      \* the LRU list, most recent first, of [key, vec]
    now,        \* the clock, which ticks with every call
    sess,       \* per session: the state of its call
    found,      \* history: the last search's lanes, fused list and hits
    replaced    \* history: conditional writes, with the version each replaced

vars == <<driver, rows, order, cache, now, sess, found, replaced>>

Keys == Tenants \X Ids

Idle == [pc |-> "idle"]

NoSearch == [mode |-> "none"]

Init ==
    /\ driver \in Drivers
    /\ rows = [k \in Keys |-> None]
    /\ order = << >>
    /\ cache = << >>
    /\ now = 0
    /\ sess = [s \in Sessions |-> Idle]
    /\ found = NoSearch
    /\ replaced = {}

-----------------------------------------------------------------------------
(* Records.                                                                *)

KeyOf(call, id) == <<call.tenant, id>>

\* The elements of s at the positions P, in their order.
Upto(P, i) == Cardinality({ h \in P : h <= i })
Selection(s, P) == [j \in 1 .. Cardinality(P) |-> s[CHOOSE i \in P : Upto(P, i) = j]]
Keep(s, S) == Selection(s, { i \in 1 .. Len(s) : s[i] \in S })

Version(row) == IF row = None THEN 0 ELSE row.version

\* The record stored for r over old: it brings its own lifecycle, so a
\* tombstoned record written again is live.  Only Postgres keeps created_at.
Stored(r, vec, old, at) ==
    [version |-> Version(old) + 1, text |-> r.text, vec |-> vec, meta |-> r.meta,
     created |-> IF driver = "postgres" /\ old # None THEN old.created ELSE at,
     from |-> at, to |-> None, deleted |-> FALSE]

\* valid_to is pulled back to the superseding record's valid_from.
Superseded(row, at) ==
    IF row # None /\ ~ row.deleted /\ (row.to = None \/ row.to > at)
    THEN [row EXCEPT !.to = at] ELSE row

\* A record never supersedes itself.
Targets(call, r) == { KeyOf(call, id) : id \in r.sup \ {r.id} }

\* For the history: record i of the call replaces old; did the call itself
\* write that record before?
Conditional(call, i, old) ==
    [checked |-> call.recs[i].ifv, was |-> Version(old),
     again |-> \E h \in 1 .. i - 1 : call.recs[h].id = call.recs[i].id]

liveAt(row, asOf) ==
    /\ ~ row.deleted
    /\ row.from <= asOf
    /\ row.to = None \/ row.to > asOf

matchesFilter(row, filter) == filter = None \/ row.meta = filter

matchesPredicates(row, pred) ==
    \/ pred = None
    \/ driver = "memory"   /\ Matches(pred, row.meta)
    \/ driver = "postgres" /\ predicateCond(pred, row.meta)

\* What a search may return, by id: the text the record's vector stands for.
Candidates(call) ==
    LET asOf == IF call.asOf = None THEN now ELSE call.asOf
        ok(k) == /\ rows[k] # None
                 /\ matchesFilter(rows[k], call.filter)
                 /\ matchesPredicates(rows[k], call.pred)
                 /\ call.after = None \/ rows[k].created > call.after
                 /\ call.all \/ liveAt(rows[k], asOf)
    IN  [i \in { j \in Ids : ok(KeyOf(call, j)) } |-> rows[KeyOf(call, i)]]

Vectors(cands)  == [i \in DOMAIN cands |-> cands[i].vec]
Contents(cands) == [i \in DOMAIN cands |-> cands[i].text]

-----------------------------------------------------------------------------
(* service.go: what a call is checked for before anything happens.         *)

\* The records without a vector of their own.
Needed(call) == { i \in 1 .. Len(call.recs) : ~ call.recs[i].given }

ToEmbed(call) ==
    CASE call.op = "upsert" ->
           Selection([i \in 1 .. Len(call.recs) |-> call.recs[i].text], Needed(call))
      [] call.op = "search" /\ call.mode # "sparse" -> <<call.text>>
      [] OTHER -> << >>

\* A search is checked when its text is embedded.
Malformed(call) == call.op = "search" /\ call.pred # None /\ ~ Validate(call.pred)

Refused(call) ==
    \/ call.op = "expire" /\ call.max = 0
    \/ call.op = "upsert" /\ call.recs = << >>      \* answered with no work

Begin(s) ==
    \E call \in Calls :
        /\ sess[s].pc = "idle"
        /\ now < MaxCalls
        /\ now' = now + 1
        /\ sess' = IF Refused(call) THEN sess
                   ELSE [sess EXCEPT ![s] =
                           [pc |-> "get", call |-> call, texts |-> ToEmbed(call),
                            out |-> << >>, miss |-> << >>, vecs |-> << >>]]
        /\ UNCHANGED <<driver, rows, order, cache, found, replaced>>

-----------------------------------------------------------------------------
(* cache.go: Embed.                                                        *)

Cached(key) == SelectInSeq(cache, LAMBDA e : e.key = key)

MoveToFront(i) == <<cache[i]>> \o RemoveAt(cache, i)

\* One text: a hit moves to the front; a miss is asked for once.
EmbedGet(s) ==
    LET me == sess[s]
        t  == me.texts[Len(me.out) + 1]
        at == Cached(t)
    IN  /\ me.pc = "get" /\ Len(me.out) < Len(me.texts)
        /\ IF at > 0
           THEN /\ cache' = MoveToFront(at)
                /\ sess' = [sess EXCEPT ![s].out = Append(@, cache[at].vec)]
           ELSE /\ cache' = cache
                /\ sess' = [sess EXCEPT ![s].out = Append(@, None),
                              ![s].miss = IF t \in ToSet(@) THEN @ ELSE Append(@, t)]
        /\ UNCHANGED <<driver, rows, order, now, found, replaced>>

EmbedHit(s) ==
    /\ sess[s].pc = "get" /\ Len(sess[s].out) = Len(sess[s].texts)
    /\ sess' = [sess EXCEPT ![s].pc = IF sess[s].miss = << >> THEN "run" ELSE "embed"]
    /\ UNCHANGED <<driver, rows, order, cache, now, found, replaced>>

\* A plausible error: the answers are taken in the order they arrive.
PlaceAsReceived(items) == [i \in 1 .. Len(items) |-> items[i].vec]

\* Every answer names the input it is for (openai.Embed).
Place(items) ==
    [i \in 1 .. Len(items) |-> (CHOOSE it \in ToSet(items) : it.index = i).vec]

\* The provider answers in any order.
EmbedInner(s) ==
    /\ sess[s].pc = "embed"
    /\ \E p \in LET all == 1 .. Len(sess[s].miss) IN Bijection(all, all) :
          sess' = [sess EXCEPT ![s].pc = "put",
                     ![s].vecs = Place([i \in 1 .. Len(p) |-> [index |-> p[i], vec |-> sess[s].miss[p[i]]]])]
    /\ UNCHANGED <<driver, rows, order, cache, now, found, replaced>>

\* The request fails, or the answer has the wrong length or dimension.
EmbedFails(s) ==
    /\ sess[s].pc = "embed"
    /\ sess' = [sess EXCEPT ![s] = Idle]
    /\ UNCHANGED <<driver, rows, order, cache, now, found, replaced>>

put(key, vec) ==
    LET at == Cached(key) IN
    IF at > 0 THEN [MoveToFront(at) EXCEPT ![1].vec = vec]
    ELSE Take(<<[key |-> key, vec |-> vec]>> \o cache, CacheSize)

\* The answers are stored one by one; each fills every position that waits.
EmbedPut(s) ==
    LET me == sess[s]
        t  == Head(me.miss)
        v  == Head(me.vecs)
    IN  /\ me.pc = "put"
        /\ cache' = put(t, v)
        /\ sess' = [sess EXCEPT ![s].miss = Tail(@), ![s].vecs = Tail(@),
                      ![s].out = [i \in DOMAIN @ |-> IF @[i] = None /\ me.texts[i] = t THEN v ELSE @[i]],
                      ![s].pc = IF Len(me.miss) = 1 THEN "run" ELSE "put"]
        /\ UNCHANGED <<driver, rows, order, now, found, replaced>>

Reject(s) ==
    /\ sess[s].pc = "run" /\ Malformed(sess[s].call)
    /\ sess' = [sess EXCEPT ![s] = Idle]
    /\ UNCHANGED <<driver, rows, order, cache, now, found, replaced>>

\* The vector of record i: the client's own, or the next embedded one.
VectorOf(me, i) ==
    LET r == me.call.recs[i]
    IN  IF r.given THEN r.text ELSE me.out[Upto(Needed(me.call), i)]

BatchVectors(me) == [i \in 1 .. Len(me.call.recs) |-> VectorOf(me, i)]

-----------------------------------------------------------------------------
(* Memory driver.  A batch holds its mutex from record to record.          *)

Ready(s, op, d) ==
    sess[s].pc = "run" /\ sess[s].call.op = op /\ driver = d /\ ~ Malformed(sess[s].call)

MutexFree == \A o \in Sessions : sess[o].pc # "batch"

\* Every if_version is checked before the first record is stored ...
MemoryUpsert(s) ==
    LET me == sess[s]  recs == me.call.recs
    IN  /\ Ready(s, "upsert", "memory") /\ MutexFree
        /\ sess' = [sess EXCEPT ![s] =
              IF \A i \in 1 .. Len(recs) : \/ recs[i].ifv = None
                                          \/ recs[i].ifv = Version(rows[KeyOf(me.call, recs[i].id)])
              THEN [pc |-> "batch", call |-> me.call, vecs |-> BatchVectors(me), i |-> 1]
              ELSE Idle]
        /\ UNCHANGED <<driver, rows, order, cache, now, found, replaced>>

\* ... then each is stored, and supersedes others.
MemoryStore(s) ==
    LET me == sess[s]
        r  == me.call.recs[me.i]
        k  == KeyOf(me.call, r.id)
        stored == [rows EXCEPT ![k] = Stored(r, me.vecs[me.i], rows[k], now)]
    IN  /\ me.pc = "batch"
        /\ rows' = [x \in Keys |-> IF x \in Targets(me.call, r) THEN Superseded(stored[x], now)
                                  ELSE stored[x]]
        /\ order' = IF rows[k] = None THEN Append(order, k) ELSE order
        /\ replaced' = replaced \cup (IF r.ifv = None THEN {} ELSE {Conditional(me.call, me.i, rows[k])})
        /\ sess' = [sess EXCEPT ![s] = IF me.i = Len(me.call.recs) THEN Idle ELSE [me EXCEPT !.i = @ + 1]]
        /\ UNCHANGED <<driver, cache, now, found>>

\* Delete is one step in both drivers; in Postgres it waits for row locks.
Locked(k, s) == \E o \in Sessions \ {s} : sess[o].pc = "tx" /\ k \in sess[o].locks

Delete(s) ==
    LET call == sess[s].call
        k    == KeyOf(call, call.id)
    IN  /\ sess[s].pc = "run" /\ call.op = "delete" /\ MutexFree /\ ~ Locked(k, s)
        /\ rows' = [rows EXCEPT ![k] =
              IF @ = None \/ call.hard THEN None ELSE [@ EXCEPT !.deleted = TRUE]]
        /\ order' = IF call.hard THEN Keep(order, Keys \ {k}) ELSE order
        /\ sess' = [sess EXCEPT ![s] = Idle]
        /\ UNCHANGED <<driver, cache, now, found, replaced>>

-----------------------------------------------------------------------------
(* Expire: at most max of the matching records; memory goes by insertion,  *)
(* the LIMIT of the SQL takes any.                                         *)

\* In Postgres a filter that is empty is null, and so is the metadata of a record
\* that has none: it matches those records and no other.
Expirable(call, row) ==
    /\ row # None
    /\ IF driver = "memory" THEN matchesFilter(row, call.filter) ELSE row.meta = call.filter
    /\ call.action # "hard" => ~ row.deleted
    /\ call.action = "invalidate" => row.to = None \/ row.to > now

Expired(call, row) ==
    CASE call.action = "invalidate" -> [row EXCEPT !.to = now]
      [] call.action = "soft"       -> [row EXCEPT !.deleted = TRUE]
      [] OTHER                      -> None

Expire(s) ==
    LET call  == sess[s].call
        match == { k \in Keys : k[1] = call.tenant /\ Expirable(call, rows[k]) }
        size  == IF call.max < Cardinality(match) THEN call.max ELSE Cardinality(match)
        first == ToSet(Take(Keep(order, match), call.max))
        picks == IF driver = "memory" THEN {first} ELSE kSubset(size, match)
    IN  /\ sess[s].pc = "run" /\ call.op = "expire" /\ MutexFree
        /\ \E hit \in picks :
              /\ \A k \in hit : ~ Locked(k, s)
              /\ rows' = [k \in Keys |-> IF k \in hit THEN Expired(call, rows[k]) ELSE rows[k]]
              /\ order' = Keep(order, { k \in Keys : rows'[k] # None })
        /\ sess' = [sess EXCEPT ![s] = Idle]
        /\ UNCHANGED <<driver, cache, now, found, replaced>>

-----------------------------------------------------------------------------
(* Search.                                                                 *)

Found(call, dense, sparse, fused, hits) ==
    [mode |-> call.mode, tenant |-> call.tenant, k |-> call.k,
     dense |-> dense, sparse |-> sparse, fused |-> fused, hits |-> hits]

\* The dense mode alone leaves the order of equal distances open.
DenseHits(call) ==
    LET v == Vectors(Candidates(call)) IN
    { Take(l, call.k) : l \in { p \in SetToSeqs(DOMAIN v) :
          \A i, j \in 1 .. Len(p) : i < j => distance(call.text, v[p[i]]) <= distance(call.text, v[p[j]]) } }

SearchDense(s) ==
    LET call == sess[s].call IN
    /\ sess[s].pc = "run" /\ call.op = "search" /\ call.mode = "dense" /\ MutexFree
    /\ ~ Malformed(call)
    /\ \E lane \in DenseHits(call) :
          found' = Found(call, lane, << >>, lane, [i \in DOMAIN lane |-> KeyOf(call, lane[i])])
    /\ sess' = [sess EXCEPT ![s] = Idle]
    /\ UNCHANGED <<driver, rows, order, cache, now, replaced>>

DenseLane(call, cands)  == denseLane(Vectors(cands), call.text, call.rerank)

SparseLane(call, cands, k) ==
    LET texts == Contents(cands)
    IN  sparseLane(texts, IF driver = "memory" THEN anyTerm(texts, call.text) ELSE allTerms(texts, call.text),
                   call.text, k)

\* rankSparse, rankHybrid: everything from one snapshot under the read lock.
MemoryRank(s) ==
    LET call   == sess[s].call
        cands  == Candidates(call)
        hybrid == call.mode = "hybrid"
        dense  == IF hybrid THEN DenseLane(call, cands) ELSE << >>
        sparse == SparseLane(call, cands, IF hybrid THEN call.rerank ELSE call.k)
        fused  == IF hybrid THEN RRFFuse(dense, sparse, call.k) ELSE sparse
    IN  /\ Ready(s, "search", "memory") /\ call.mode # "dense" /\ MutexFree
        /\ found' = Found(call, dense, sparse, fused, [i \in DOMAIN fused |-> KeyOf(call, fused[i])])
        /\ sess' = [sess EXCEPT ![s] = Idle]
        /\ UNCHANGED <<driver, rows, order, cache, now, replaced>>

\* searchHybrid and searchSparse: each lane is a query with its own snapshot.
PgDenseIDs(s) ==
    LET call == sess[s].call IN
    /\ Ready(s, "search", "postgres") /\ call.mode = "hybrid"
    /\ sess' = [sess EXCEPT ![s] = [pc |-> "lane", call |-> call,
                                    dense |-> DenseLane(call, Candidates(call))]]
    /\ UNCHANGED <<driver, rows, order, cache, now, found, replaced>>

PgSparseLane(s) ==
    LET call   == sess[s].call
        hybrid == call.mode = "hybrid"
        dense  == IF hybrid THEN sess[s].dense ELSE << >>
        sparse == SparseLane(call, Candidates(call), IF hybrid THEN call.rerank ELSE call.k)
    IN  /\ \/ sess[s].pc = "lane"
           \/ Ready(s, "search", "postgres") /\ call.mode = "sparse"
        /\ sess' = [sess EXCEPT ![s] =
              [pc |-> "fetch", call |-> call, dense |-> dense, sparse |-> sparse,
               fused |-> IF hybrid THEN RRFFuse(dense, sparse, call.k) ELSE sparse]]
        /\ UNCHANGED <<driver, rows, order, cache, now, found, replaced>>

\* A plausible error: records are fetched by id, whoever they belong to.
MaterializeAnyTenant(s) ==
    LET me == sess[s] IN
    /\ me.pc = "fetch"
    /\ \E t \in Tenants :
          found' = Found(me.call, me.dense, me.sparse, me.fused,
                     Keep([i \in DOMAIN me.fused |-> <<t, me.fused[i]>>], { k \in Keys : rows[k] # None }))
    /\ sess' = [sess EXCEPT ![s] = Idle]
    /\ UNCHANGED <<driver, rows, order, cache, now, replaced>>

\* The records as they are now: one that is gone is dropped, one that was
\* deleted softly or changed since its lane is returned as it is.
Materialize(s) ==
    LET me == sess[s] IN
    /\ me.pc = "fetch"
    /\ found' = Found(me.call, me.dense, me.sparse, me.fused,
                  Keep([i \in DOMAIN me.fused |-> KeyOf(me.call, me.fused[i])], { k \in Keys : rows[k] # None }))
    /\ sess' = [sess EXCEPT ![s] = Idle]
    /\ UNCHANGED <<driver, rows, order, cache, now, replaced>>

-----------------------------------------------------------------------------
(* Postgres driver: Upsert's transaction, statement by statement.          *)

PgBegin(s) ==
    /\ Ready(s, "upsert", "postgres")
    /\ sess' = [sess EXCEPT ![s] = [pc |-> "tx", call |-> sess[s].call, at |-> now, i |-> 1, step |-> "cas",
                  vecs |-> BatchVectors(sess[s]),
                  locks |-> {}, writes |-> [k \in Keys |-> None], conds |-> {}]]
    /\ UNCHANGED <<driver, rows, order, cache, now, found, replaced>>

\* What the transaction sees: its own writes over what is committed.
View(me, k) == IF me.writes[k] = None THEN rows[k] ELSE me.writes[k]

InTx(s, step) == sess[s].pc = "tx" /\ sess[s].i <= Len(sess[s].call.recs) /\ sess[s].step = step

\* A plausible error: the version is read without FOR UPDATE.
PgCasNoLock(s) ==
    LET me == sess[s]
        r  == me.call.recs[me.i]
        k  == KeyOf(me.call, r.id)
    IN  /\ InTx(s, "cas")
        /\ IF r.ifv = None \/ r.ifv = Version(View(me, k))
           THEN sess' = [sess EXCEPT ![s].step = "insert"]
           ELSE sess' = [sess EXCEPT ![s] = Idle]
        /\ UNCHANGED <<driver, rows, order, cache, now, found, replaced>>

\* SELECT version ... FOR UPDATE locks the row, if there is one.
PgCas(s) ==
    LET me == sess[s]
        r  == me.call.recs[me.i]
        k  == KeyOf(me.call, r.id)
    IN  /\ InTx(s, "cas")
        /\ r.ifv = None \/ rows[k] = None \/ ~ Locked(k, s)
        /\ IF r.ifv = None THEN sess' = [sess EXCEPT ![s].step = "insert"]
           ELSE IF r.ifv = Version(View(me, k))
           THEN sess' = [sess EXCEPT ![s].step = "insert",
                           ![s].locks = IF View(me, k) = None THEN @ ELSE @ \cup {k}]
           ELSE sess' = [sess EXCEPT ![s] = Idle]       \* rollback
        /\ UNCHANGED <<driver, rows, order, cache, now, found, replaced>>

\* INSERT ... ON CONFLICT waits for the key's row, or its uncommitted insert.
PgInsert(s) ==
    LET me == sess[s]
        r  == me.call.recs[me.i]
        k  == KeyOf(me.call, r.id)
        old == View(me, k)
    IN  /\ InTx(s, "insert") /\ ~ Locked(k, s)
        /\ sess' = [sess EXCEPT ![s].step = "supersede", ![s].locks = @ \cup {k},
                      ![s].writes[k] = Stored(r, me.vecs[me.i], old, me.at),
                      ![s].conds = IF r.ifv = None THEN @ ELSE @ \cup {Conditional(me.call, me.i, old)}]
        /\ UNCHANGED <<driver, rows, order, cache, now, found, replaced>>

\* UPDATE ... SET valid_to on the named live rows the statement can see.
PgSupersede(s) ==
    LET me == sess[s]
        r  == me.call.recs[me.i]
        hit == { k \in Targets(me.call, r) : Superseded(View(me, k), me.at) # View(me, k) }
    IN  /\ InTx(s, "supersede")
        /\ \A k \in hit : ~ Locked(k, s)
        /\ sess' = [sess EXCEPT ![s].i = @ + 1, ![s].step = "cas", ![s].locks = @ \cup hit,
                      ![s].writes = [k \in Keys |->
                                       IF k \in hit THEN Superseded(View(me, k), me.at) ELSE @[k]]]
        /\ UNCHANGED <<driver, rows, order, cache, now, found, replaced>>

PgCommit(s) ==
    LET me == sess[s] IN
    /\ me.pc = "tx" /\ me.i > Len(me.call.recs)
    /\ rows' = [k \in Keys |-> View(me, k)]
    /\ replaced' = replaced \cup me.conds
    /\ sess' = [sess EXCEPT ![s] = Idle]
    /\ UNCHANGED <<driver, order, cache, now, found>>

\* A statement or the commit fails: a lost connection, a cancelled request,
\* the victim of a deadlock.  The deferred Rollback undoes everything.
PgFails(s) ==
    /\ sess[s].pc \in {"tx", "lane", "fetch"}
    /\ sess' = [sess EXCEPT ![s] = Idle]
    /\ UNCHANGED <<driver, rows, order, cache, now, found, replaced>>

-----------------------------------------------------------------------------
Next ==
    \E s \in Sessions :
        \/ Begin(s)
        \/ EmbedGet(s) \/ EmbedHit(s) \/ EmbedInner(s) \/ EmbedFails(s) \/ EmbedPut(s) \/ Reject(s)
        \/ MemoryUpsert(s) \/ MemoryStore(s) \/ Delete(s) \/ Expire(s)
        \/ SearchDense(s) \/ MemoryRank(s)
        \/ PgDenseIDs(s) \/ PgSparseLane(s) \/ Materialize(s)
        \/ PgBegin(s) \/ PgCas(s) \/ PgInsert(s) \/ PgSupersede(s) \/ PgCommit(s) \/ PgFails(s)

Spec == Init /\ [][Next]_vars

-----------------------------------------------------------------------------
\* What a session keeps while it embeds, stores a batch in memory, or runs a
\* transaction.
EmbedCall == [pc : {"get", "embed", "put", "run"}, call : Calls, texts : Seq(Text),
              out : Seq(Text \cup {None}), miss : Seq(Text), vecs : Seq(Text)]
BatchCall == [pc : {"batch"}, call : Upserts, vecs : Seq(Text), i : Nat \ {0}]
TxCall    == [pc : {"tx"}, call : Upserts, at : Time, i : Nat \ {0},
              step : {"cas", "insert", "supersede"}, vecs : Seq(Text), locks : SUBSET Keys,
              writes : [Keys -> Row \cup {None}],
              conds : SUBSET [checked : Nat, was : Nat, again : BOOLEAN]]

\* The memory driver's order lists exactly the stored keys, each once, and the
\* cache's list holds at most its capacity, each text once (memory.Delete,
\* memory.Expire, cache.put: two structures kept in step by hand).
TypeOK ==
    /\ driver \in Drivers /\ now \in Time
    /\ rows \in [Keys -> Row \cup {None}]
    /\ order \in Seq(Keys)
    /\ driver = "memory" => IsInjective(order) /\ ToSet(order) = { k \in Keys : rows[k] # None }
    /\ cache \in Seq([key : Text, vec : Text]) /\ Len(cache) <= CacheSize
    /\ \A i, j \in 1 .. Len(cache) : cache[i].key = cache[j].key => i = j
    /\ DOMAIN sess = Sessions
    /\ \A s \in Sessions :
          \/ sess[s] \in {Idle} \cup EmbedCall \cup BatchCall \cup TxCall
          \/ sess[s].pc \in {"lane", "fetch"}

\* Whatever the cache, the provider's order of answers and the other sessions
\* do, a record the block embedded carries the vector of its own content
\* (cachingEmbedder.Embed, openai.Embed, service.Upsert's index juggling).
VectorIsOfContent ==
    /\ \A k \in Keys : rows[k] # None => rows[k].vec = rows[k].text
    /\ \A i \in 1 .. Len(cache) : cache[i].vec = cache[i].key

\* A write conditional on a version replaces exactly that version, also when
\* transactions overlap.  Two exceptions are the code's: the memory driver
\* checks a batch before it stores any of it, so a record the batch names twice
\* is replaced twice; a creation (version 0) finds no row to lock in Postgres
\* (memory.Upsert's first pass, postgres.Upsert's FOR UPDATE).
CASReplacesChecked ==
    \A w \in replaced :
        \/ w.checked = w.was
        \/ driver = "memory" /\ w.again
        \/ driver = "postgres" /\ w.checked = 0

\* What the driver interface says of a conditional write in memory, also of a
\* record its batch names twice (memory.Upsert's first pass).
BatchCASHonoured == driver = "memory" => \A w \in replaced : w.checked = w.was

\* A search returns only the caller's tenant's records, in the order of the
\* fused list, which ranks first what both lanes rank first (RRFFuse,
\* materialize, rankHybrid).
SearchIsSound ==
    found.mode # "none" =>
        /\ \A i \in 1 .. Len(found.hits) : found.hits[i][1] = found.tenant
        /\ \A i, j \in 1 .. Len(found.hits) : i < j =>
              RankIn(found.fused, found.hits[i][2]) < RankIn(found.fused, found.hits[j][2])
        /\ found.mode = "hybrid" => FusionRespects(found.dense, found.sparse, found.k, found.fused)
=============================================================================
