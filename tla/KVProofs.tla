------------------------------ MODULE KVProofs ------------------------------
(***************************************************************************)
(* The two drivers of the KV block.                                        *)
(*                                                                         *)
(* One namespace of the in-memory driver, for any number of Gets, any      *)
(* keys, ttls and policy: expiry never removes a record that was not due,  *)
(* every access is booked on the record it returned, and eviction keeps a  *)
(* namespace at its capacity.                                              *)
(*                                                                         *)
(* Writers of one key in the PostgreSQL driver, for any number of calls,   *)
(* any ttls and any if_version arguments: what a transaction selected      *)
(* stays true of the row until it ends, so compare-and-swap on an existing *)
(* version is honoured and no two puts of one life of the key return the   *)
(* same version.                                                           *)
(***************************************************************************)
EXTENDS KVMemory, KVPostgres, FiniteSetTheorems, TLAPS

----------------------------------------------------------------------------
(* The memory driver.                                                      *)

\* A Get past its lookup holds a record, and the clock has been read by the
\* time it asks for the write lock.
GetInv ==
  \A g \in Gets :
    /\ pc[g] \in {"found", "expired", "live", "touching"} => ref[g] # 0
    /\ pc[g] = "touching" => stamp[g] # 0

\* A record with an expiry has had one since it was written and was first due
\* no later than that; what a Get or the sweeper saw expired was due by now.
ExpiryInv ==
  /\ \A id \in DOMAIN heap :
       /\ heap[id].expires = 0 => heap[id].earliest = 0
       /\ heap[id].expires # 0 => heap[id].earliest \in 1..heap[id].expires
  /\ \A g \in Gets : pc[g] = "expired" => heap[ref[g]].earliest \in 1..clock
  /\ sweeper.now <= clock

\* The Gets that returned a snapshot of record id with their access on it.
Returned(id) == {g \in Gets : pc[g] = "touched" /\ ref[g] = id}

\* The count of a record is that of the finitely many Gets it was booked by.
CountInv ==
  \A id \in DOMAIN heap :
    /\ IsFiniteSet(Returned(id))
    /\ Track => heap[id].count = Cardinality(Returned(id))

\* The keys with an entry, finitely many and within the capacity.
Held == {k \in Keys : items[k] # 0}
CapacityInv == IsFiniteSet(Held) /\ CapacityHeld

----------------------------------------------------------------------------
(* Facts about records.                                                    *)

\* A record object that exists is a record.
LEMMA RecordTypes ==
  ASSUME TypeOK, NEW id \in DOMAIN heap
  PROVE  /\ heap[id] \in Record
         /\ heap[id].version \in Nat /\ heap[id].created \in Nat
         /\ heap[id].expires \in Nat /\ heap[id].earliest \in Nat
         /\ heap[id].accessed \in Nat /\ heap[id].count \in Nat
<1>1. heap[id] \in Record
  BY DEF TypeOK
<1> QED
  BY <1>1 DEF Record

\* An index that is not nil is that of an existing object.
LEMMA PointersAreRecords ==
  ASSUME TypeOK
  PROVE  /\ DOMAIN heap = 1..Len(heap) /\ Len(heap) \in Nat
         /\ \A k \in Keys : items[k] # 0 => items[k] \in DOMAIN heap
         /\ \A g \in Gets : ref[g] # 0 => ref[g] \in DOMAIN heap
BY DEF TypeOK

\* An access changes the access data and the expiry of a record, and nothing else.
LEMMA TouchedRecord ==
  ASSUME NEW r \in Record, NEW now \in Nat
  PROVE  LET slid == IF SlideTTL > 0 /\ r.expires # 0 THEN now + SlideTTL
                     ELSE r.expires
         IN /\ Touched(r, now) \in Record
            /\ Touched(r, now).key = r.key
            /\ Touched(r, now).count = IF Track THEN r.count + 1 ELSE r.count
            /\ Touched(r, now).accessed = IF Track THEN now ELSE r.accessed
            /\ Touched(r, now).expires = slid
            /\ Touched(r, now).earliest = IF slid < r.earliest THEN slid ELSE r.earliest
<1> DEFINE slid == IF SlideTTL > 0 /\ r.expires # 0 THEN now + SlideTTL ELSE r.expires
           n == IF Track THEN r.count + 1 ELSE r.count
           a == IF Track THEN now ELSE r.accessed
           e == IF slid < r.earliest THEN slid ELSE r.earliest
<1>1. /\ r.expires \in Nat /\ r.earliest \in Nat /\ r.count \in Nat /\ r.accessed \in Nat
      /\ r.key \in Keys
  BY DEF Record
<1>2. SlideTTL \in Nat
  BY KVMemoryAssumption, KVAssumption
<1>3. slid \in Nat
  BY <1>1, <1>2
<1>4. n \in Nat /\ a \in Nat /\ e \in Nat
  BY <1>1, <1>3
<1>5. Touched(r, now) = [r EXCEPT !.count = n, !.accessed = a, !.expires = slid,
                                  !.earliest = e]
  BY DEF Touched
<1> HIDE DEF slid, n, a, e
<1>6. /\ Touched(r, now) \in Record
      /\ Touched(r, now).key = r.key /\ Touched(r, now).count = n
      /\ Touched(r, now).accessed = a /\ Touched(r, now).expires = slid
      /\ Touched(r, now).earliest = e
  BY <1>3, <1>4, <1>5 DEF Record
<1> QED
  BY <1>6 DEF slid, n, a, e

----------------------------------------------------------------------------
(* Types.                                                                  *)

\* No step of a Get, a writer, the sweeper or the clock leaves the types.
LEMMA TypeStep ==
  ASSUME TypeOK, GetInv, [Next]_vars
  PROVE  TypeOK' /\ GetInv'
<1> USE KVMemoryAssumption, KVAssumption
<1>0. /\ DOMAIN heap = 1..Len(heap) /\ Len(heap) \in Nat
      /\ \A k \in Keys : items[k] # 0 => items[k] \in DOMAIN heap
      /\ \A g \in Gets : ref[g] # 0 => ref[g] \in DOMAIN heap
  BY PointersAreRecords
<1>1. CASE Tick
  BY <1>1 DEF Tick, getVars, TypeOK, GetInv
<1>2. ASSUME NEW g \in Gets, GetLookup(g) \/ GetTestExpiry(g) \/ GetStamp(g)
      PROVE  TypeOK' /\ GetInv'
  <2>1. CASE GetLookup(g)
    BY <2>1 DEF GetLookup, TypeOK, GetInv
  <2>2. CASE GetTestExpiry(g)
    BY <2>2 DEF GetTestExpiry, TypeOK, GetInv
  <2>3. CASE GetStamp(g)
    BY <2>3 DEF GetStamp, TypeOK, GetInv
  <2> QED BY <1>2, <2>1, <2>2, <2>3
<1>3. ASSUME NEW g \in Gets, GetDropExpired(g) PROVE TypeOK' /\ GetInv'
  <2>1. want[g] \in Keys
    BY DEF TypeOK
  <2>2. items' \in [Keys -> 0..Len(heap)] /\ \A k \in Keys : items'[k] \in {0, items[k]}
    <3>1. items \in [Keys -> 0..Len(heap)]
      BY DEF TypeOK
    <3>2. items' = [items EXCEPT ![want[g]] = IF @ = ref[g] THEN 0 ELSE @]
      BY <1>3 DEF GetDropExpired
    <3>3. items' = [k \in Keys |-> items'[k]]
      BY <3>1, <3>2
    <3>4. ASSUME NEW k \in Keys PROVE items'[k] \in {0, items[k]}
      BY <3>1, <3>2
    <3>5. 0 \in 0..Len(heap) /\ \A k \in Keys : items[k] \in 0..Len(heap)
      BY <1>0, <3>1
    <3> QED BY <3>3, <3>4, <3>5
  <2> QED BY <1>3, <2>2 DEF GetDropExpired, TypeOK, GetInv
<1>4. ASSUME NEW g \in Gets, GetTouch(g) PROVE TypeOK' /\ GetInv'
  <2>1. /\ ref[g] \in DOMAIN heap /\ stamp[g] \in Nat /\ stamp[g] # 0
    BY <1>0, <1>4 DEF GetTouch, TypeOK, GetInv
  <2> DEFINE r == heap[ref[g]]
             new == Touched(r, stamp[g])
  <2>2. r \in Record /\ r.count \in Nat /\ r.accessed \in Nat
    BY <2>1, RecordTypes
  <2>3. /\ new \in Record /\ new.key = r.key
        /\ new.count = IF Track THEN r.count + 1 ELSE r.count
        /\ new.accessed = IF Track THEN stamp[g] ELSE r.accessed
    BY <2>1, <2>2, TouchedRecord
  <2>4. new.accessed = 0 <=> new.count = 0
    <3>1. r.accessed = 0 <=> r.count = 0
      BY <2>1 DEF TypeOK
    <3> QED BY <2>1, <2>2, <2>3, <3>1
  <2> HIDE DEF new
  <2>5. heap' = heap \/ heap' = [heap EXCEPT ![ref[g]] = new]
    BY <1>4 DEF GetTouch, new
  <2>6. /\ heap' \in Seq(Record) /\ Len(heap') = Len(heap)
        /\ \A id \in DOMAIN heap : /\ heap'[id].accessed = 0 <=> heap'[id].count = 0
                                   /\ heap'[id].key = heap[id].key
        /\ DOMAIN heap' = DOMAIN heap
    <3>1. heap \in Seq(Record) /\ \A id \in DOMAIN heap : heap[id].accessed = 0 <=> heap[id].count = 0
      BY DEF TypeOK
    <3>2. CASE heap' = heap
      BY <3>1, <3>2
    <3>3. CASE heap' = [heap EXCEPT ![ref[g]] = new]
      <4>1. /\ DOMAIN heap' = DOMAIN heap /\ heap'[ref[g]] = new
            /\ \A id \in DOMAIN heap \ {ref[g]} : heap'[id] = heap[id]
        BY <2>1, <3>3
      <4>2. heap' \in Seq(Record) /\ Len(heap') = Len(heap)
        BY <2>1, <2>3, <3>1, <3>3
      <4> QED BY <2>3, <2>4, <3>1, <4>1, <4>2
    <3> QED BY <2>5, <3>2, <3>3
  <2>7. \A k \in Keys : items[k] # 0 => heap'[items[k]].key = k
    BY <1>0, <2>6 DEF TypeOK
  <2>8. /\ pc' \in [Gets -> {"ready", "found", "expired", "live", "touching",
                             "notFound", "plain", "touched"}]
        /\ pc'[g] \in {"touched", "plain"}
        /\ \A h \in Gets \ {g} : pc'[h] = pc[h] /\ stamp'[h] = stamp[h]
        /\ stamp' \in [Gets -> 0..MaxClock]
        /\ UNCHANGED <<clock, items, want, ref, sweeper>>
    <3>1. /\ pc \in [Gets -> {"ready", "found", "expired", "live", "touching",
                             "notFound", "plain", "touched"}]
          /\ stamp \in [Gets -> 0..MaxClock]
      BY DEF TypeOK
    <3>2. /\ stamp' = [stamp EXCEPT ![g] = 0]
          /\ UNCHANGED <<clock, items, want, ref, sweeper>>
          /\ \/ pc' = [pc EXCEPT ![g] = "touched"]
             \/ pc' = [pc EXCEPT ![g] = "plain"]
      BY <1>4 DEF GetTouch
    <3> QED BY <3>1, <3>2
  <2>9. GetInv'
    BY <2>8 DEF GetInv
  <2> QED BY <2>6, <2>7, <2>8, <2>9 DEF TypeOK
<1>5. ASSUME NEW k \in Keys, NEW ifVersion, NEW ttl \in TTLs, Put(k, ttl, ifVersion)
      PROVE  TypeOK' /\ GetInv'
  <2> DEFINE old == LiveEntry(k)
             expires == IF ttl = 0 THEN 0 ELSE clock + ttl
             new == [key |-> k, version |-> CurrentVersion(k) + 1,
                     created |-> IF old = 0 THEN clock ELSE heap[old].created,
                     expires |-> expires, earliest |-> expires,
                     accessed |-> 0, count |-> 0]
  <2>1. old = 0 \/ old \in DOMAIN heap
    BY <1>0 DEF LiveEntry
  <2>2. CurrentVersion(k) \in Nat
    BY <2>1, RecordTypes DEF CurrentVersion
  <2>3. clock \in Nat /\ ttl \in Nat
    BY DEF TypeOK
  <2>4. expires \in Nat /\ (IF old = 0 THEN clock ELSE heap[old].created) \in Nat
    BY <2>1, <2>3, RecordTypes
  <2>5. new \in Record
    BY <2>2, <2>4 DEF Record
  <2>6. new.key = k /\ new.accessed = 0 /\ new.count = 0
    OBVIOUS
  <2>7. heap' = Append(heap, new) /\ Len(heap) < MaxPuts
    BY <1>5 DEF Put
  <2>8. /\ items'[k] = Len(heap) + 1
        /\ \A j \in Keys \ {k} : items'[j] \in {0, items[j]}
        /\ items' \in [Keys -> 0..Len(heap) + 1]
    BY <1>0, <1>5 DEF Put, TypeOK
  <2>9. UNCHANGED <<clock, pc, want, ref, stamp, sweeper>>
    BY <1>5 DEF Put, getVars
  <2> HIDE DEF new, old, expires
  <2>10. /\ heap' \in Seq(Record) /\ Len(heap') = Len(heap) + 1
         /\ heap'[Len(heap) + 1] = new
         /\ \A id \in DOMAIN heap : heap'[id] = heap[id]
         /\ DOMAIN heap' = 1..Len(heap) + 1
    BY <1>0, <2>5, <2>7 DEF TypeOK
  <2>11. \A id \in DOMAIN heap' : heap'[id].accessed = 0 <=> heap'[id].count = 0
    <3>1. \A id \in DOMAIN heap : heap[id].accessed = 0 <=> heap[id].count = 0
      BY DEF TypeOK
    <3>2. DOMAIN heap' = DOMAIN heap \cup {Len(heap) + 1}
      BY <1>0, <2>10
    <3> QED BY <2>6, <2>10, <3>1, <3>2
  <2>12. \A j \in Keys : items'[j] # 0 => heap'[items'[j]].key = j
    BY <1>0, <2>6, <2>8, <2>10 DEF TypeOK
  <2>13. /\ ref' \in [Gets -> 0..Len(heap')]
         /\ Len(heap') <= MaxPuts
    BY <1>0, <2>7, <2>9, <2>10 DEF TypeOK
  <2> QED BY <2>8, <2>9, <2>10, <2>11, <2>12, <2>13 DEF TypeOK, GetInv
<1>6. ASSUME NEW k \in Keys, NEW ifVersion, Delete(k, ifVersion) \/ VersionMismatch(k, ifVersion)
      PROVE  TypeOK' /\ GetInv'
  <2>1. LiveEntry(k) \in {0, items[k]}
    BY DEF LiveEntry
  <2>2. items' \in [Keys -> 0..Len(heap)] /\ \A j \in Keys : items'[j] \in {0, items[j]}
    <3>1. items \in [Keys -> 0..Len(heap)]
      BY DEF TypeOK
    <3>2. \/ items' = [items EXCEPT ![k] = 0]
          \/ items' = [items EXCEPT ![k] = LiveEntry(k)]
      BY <1>6 DEF Delete, VersionMismatch
    <3> QED BY <1>0, <2>1, <3>1, <3>2
  <2> QED BY <1>6, <2>2 DEF Delete, VersionMismatch, getVars, TypeOK, GetInv
<1>7. CASE SweepStart \/ Close
  BY <1>7 DEF SweepStart, Close, Idle, Stopped, getVars, TypeOK, GetInv
<1>8. CASE SweepExpired
  <2>1. items' \in [Keys -> 0..Len(heap)] /\ \A j \in Keys : items'[j] \in {0, items[j]}
    BY <1>0, <1>8 DEF SweepExpired, TypeOK
  <2> QED BY <1>8, <2>1 DEF SweepExpired, Idle, getVars, TypeOK, GetInv
<1>9. CASE UNCHANGED vars
  BY <1>9 DEF vars, getVars, TypeOK, GetInv
<1> QED
  BY <1>1, <1>2, <1>3, <1>4, <1>5, <1>6, <1>7, <1>8, <1>9 DEF Next

\* TypeOK as a theorem of the specification, for any policy and any bounds: a
\* pointer a Get, an entry or the sweeper holds is always that of a record.
THEOREM TypeCorrect == Spec => [](TypeOK /\ GetInv)
<1>1. Init => TypeOK /\ GetInv
  BY KVMemoryAssumption, KVAssumption DEF Init, Idle, TypeOK, GetInv
<1> QED
  BY <1>1, TypeStep, PTL DEF Spec

----------------------------------------------------------------------------
(* Expiry.                                                                 *)

\* What an access or a write does to a record's expiry keeps what a Get and the
\* sweeper concluded from it: the earliest expiry only moves back.
LEMMA ExpiryStep ==
  ASSUME TypeOK, GetInv, ExpiryInv, [Next]_vars
  PROVE  ExpiryInv'
<1> USE KVMemoryAssumption, KVAssumption
<1>0. /\ DOMAIN heap = 1..Len(heap) /\ Len(heap) \in Nat
      /\ \A k \in Keys : items[k] # 0 => items[k] \in DOMAIN heap
      /\ \A g \in Gets : ref[g] # 0 => ref[g] \in DOMAIN heap
  BY PointersAreRecords
<1>1. clock \in Nat /\ clock # 0 /\ sweeper.now \in Nat
  BY DEF TypeOK
<1>2. CASE Tick
  <2>1. UNCHANGED <<heap, pc, ref, sweeper>> /\ clock' = clock + 1
    BY <1>2 DEF Tick, getVars
  <2>2. \A g \in Gets : pc[g] = "expired" => heap[ref[g]].earliest \in 1..clock + 1
    BY <1>1 DEF ExpiryInv
  <2>3. sweeper.now <= clock + 1
    BY <1>1 DEF ExpiryInv
  <2> QED BY <2>1, <2>2, <2>3 DEF ExpiryInv
<1>3. ASSUME NEW g \in Gets, GetLookup(g) \/ GetDropExpired(g) \/ GetStamp(g)
      PROVE  ExpiryInv'
  <2>1. UNCHANGED <<clock, heap, sweeper>> /\ pc'[g] # "expired"
        /\ \A h \in Gets \ {g} : pc'[h] = pc[h] /\ ref'[h] = ref[h]
    BY <1>3 DEF GetLookup, GetDropExpired, GetStamp, TypeOK
  <2> QED BY <2>1 DEF ExpiryInv
<1>4. ASSUME NEW g \in Gets, GetTestExpiry(g) PROVE ExpiryInv'
  <2>1. UNCHANGED <<clock, heap, ref, sweeper>>
        /\ \A h \in Gets \ {g} : pc'[h] = pc[h]
    BY <1>4 DEF GetTestExpiry, TypeOK
  <2>2. ref[g] \in DOMAIN heap
    BY <1>0, <1>4 DEF GetTestExpiry, GetInv
  <2>3. heap[ref[g]].expires \in Nat /\ heap[ref[g]].earliest \in Nat
    BY <2>2, RecordTypes
  <2>4. pc'[g] = "expired" => Expired(ref[g], clock)
    BY <1>4 DEF GetTestExpiry, TypeOK
  <2>5. pc'[g] = "expired" => heap[ref[g]].earliest \in 1..clock
    BY <1>1, <2>2, <2>3, <2>4 DEF Expired, ExpiryInv
  <2> QED BY <2>1, <2>5 DEF ExpiryInv
<1>5. ASSUME NEW g \in Gets, GetTouch(g) PROVE ExpiryInv'
  <2>1. /\ ref[g] \in DOMAIN heap /\ stamp[g] \in Nat /\ stamp[g] # 0
    BY <1>0, <1>5 DEF GetTouch, TypeOK, GetInv
  <2> DEFINE r == heap[ref[g]]
             new == Touched(r, stamp[g])
             slid == IF SlideTTL > 0 /\ r.expires # 0 THEN stamp[g] + SlideTTL
                     ELSE r.expires
  <2>2. r \in Record /\ r.expires \in Nat /\ r.earliest \in Nat
    BY <2>1, RecordTypes
  <2>3. /\ new.expires = slid
        /\ new.earliest = IF slid < r.earliest THEN slid ELSE r.earliest
    BY <2>1, <2>2, TouchedRecord
  <2>4. /\ r.expires = 0 => r.earliest = 0
        /\ r.expires # 0 => r.earliest \in 1..r.expires
    BY <2>1 DEF ExpiryInv
  <2>5. /\ new.expires = 0 => new.earliest = 0
        /\ new.expires # 0 => new.earliest \in 1..new.expires
        /\ r.earliest # 0 => new.earliest \in 1..r.earliest
    BY <2>1, <2>2, <2>3, <2>4
  <2> HIDE DEF new, slid
  <2>6. heap' = heap \/ heap' = [heap EXCEPT ![ref[g]] = new]
    BY <1>5 DEF GetTouch, new
  <2>7. /\ DOMAIN heap' = DOMAIN heap
        /\ \A id \in DOMAIN heap :
             \/ heap'[id] = heap[id]
             \/ id = ref[g] /\ heap'[id] = new
    BY <2>6
  <2>8. /\ UNCHANGED <<clock, ref, sweeper>> /\ pc'[g] # "expired"
        /\ \A h \in Gets \ {g} : pc'[h] = pc[h]
    BY <1>5 DEF GetTouch, TypeOK
  <2>9. ASSUME NEW id \in DOMAIN heap'
        PROVE  /\ heap'[id].expires = 0 => heap'[id].earliest = 0
               /\ heap'[id].expires # 0 => heap'[id].earliest \in 1..heap'[id].expires
    BY <2>5, <2>7, <2>9 DEF ExpiryInv
  <2>10. ASSUME NEW h \in Gets, pc'[h] = "expired"
         PROVE  heap'[ref[h]].earliest \in 1..clock
    <3>1. pc[h] = "expired" /\ heap[ref[h]].earliest \in 1..clock
      BY <2>8, <2>10 DEF ExpiryInv
    <3>2. ref[h] \in DOMAIN heap
      BY <1>0, <3>1 DEF GetInv
    <3>3. CASE heap'[ref[h]] = heap[ref[h]]
      BY <3>1, <3>3
    <3>4. CASE ref[h] = ref[g] /\ heap'[ref[h]] = new
      <4>1. r.earliest \in 1..clock
        BY <3>1, <3>4
      <4>2. new.earliest \in 1..r.earliest
        BY <1>1, <4>1, <2>5
      <4> QED BY <1>1, <3>4, <4>1, <4>2
    <3> QED BY <2>7, <3>2, <3>3, <3>4
  <2> QED BY <2>8, <2>9, <2>10 DEF ExpiryInv
<1>6. ASSUME NEW k \in Keys, NEW ifVersion, NEW ttl \in TTLs, Put(k, ttl, ifVersion)
      PROVE  ExpiryInv'
  <2>1. clock \in Nat /\ ttl \in Nat
    BY DEF TypeOK
  <2> DEFINE expires == IF ttl = 0 THEN 0 ELSE clock + ttl
  <2>2. PICK new : /\ heap' = Append(heap, new)
                   /\ new.expires = expires /\ new.earliest = expires
    BY <1>6 DEF Put
  <2>3. expires \in Nat
    BY <2>1
  <2> HIDE DEF expires
  <2>4. /\ DOMAIN heap' = DOMAIN heap \cup {Len(heap) + 1}
        /\ heap'[Len(heap) + 1] = new
        /\ \A id \in DOMAIN heap : heap'[id] = heap[id]
    BY <1>0, <2>2 DEF TypeOK
  <2>5. /\ new.expires = 0 => new.earliest = 0
        /\ new.expires # 0 => new.earliest \in 1..new.expires
    BY <2>2, <2>3
  <2>6. UNCHANGED <<clock, pc, ref, sweeper>>
    BY <1>6 DEF Put, getVars
  <2>7. \A g \in Gets : pc[g] = "expired" => ref[g] \in DOMAIN heap
    BY <1>0 DEF GetInv
  <2> QED BY <2>4, <2>5, <2>6, <2>7 DEF ExpiryInv
<1>7. ASSUME NEW k \in Keys, NEW ifVersion, Delete(k, ifVersion) \/ VersionMismatch(k, ifVersion)
      PROVE  ExpiryInv'
  BY <1>7 DEF Delete, VersionMismatch, getVars, ExpiryInv
<1>8. CASE SweepStart \/ SweepExpired \/ Close
  <2>1. UNCHANGED <<clock, heap, pc, ref>> /\ sweeper'.now \in {0, clock}
    BY <1>8 DEF SweepStart, SweepExpired, Close, Idle, Stopped, getVars
  <2>2. sweeper'.now <= clock
    BY <1>1, <2>1
  <2> QED BY <2>1, <2>2 DEF ExpiryInv
<1>9. CASE UNCHANGED vars
  BY <1>9 DEF vars, getVars, ExpiryInv
<1> QED
  BY <1>2, <1>3, <1>4, <1>5, <1>6, <1>7, <1>8, <1>9 DEF Next

\* A stale observation never costs a fresh value: what a Get that saw an expired
\* record, or the sweeper, removes had been due by then.
THEOREM ExpirySpares == Spec => ExpiryNeverHitsFreshRecord
<1>1. Init => ExpiryInv
  BY DEF Init, Idle, ExpiryInv
<1>2. ASSUME TypeOK, GetInv, ExpiryInv, SweepExpired, NEW id \in Removed
      PROVE  heap[id].earliest \in 1..clock
  <2>1. PICK k \in Keys : items[k] # 0 /\ items'[k] = 0 /\ id = items[k]
    BY DEF Removed
  <2>2. Expired(id, sweeper.now)
    BY <1>2, <2>1 DEF SweepExpired
  <2>3. id \in DOMAIN heap
    BY <1>2, <2>1, PointersAreRecords
  <2>4. /\ heap[id].expires \in Nat /\ heap[id].earliest \in Nat
        /\ clock \in Nat /\ sweeper.now \in Nat
    BY <1>2, <2>3, RecordTypes DEF TypeOK
  <2> QED BY <1>2, <2>2, <2>3, <2>4 DEF Expired, ExpiryInv
<1>3. ASSUME TypeOK, GetInv, ExpiryInv, NEW g \in Gets, GetDropExpired(g), NEW id \in Removed
      PROVE  heap[id].earliest \in 1..clock
  <2>1. PICK k \in Keys : items[k] # 0 /\ items'[k] = 0 /\ id = items[k]
    BY DEF Removed
  <2>2. pc[g] = "expired" /\ id = ref[g]
    BY <1>3, <2>1 DEF GetDropExpired, TypeOK
  <2> QED BY <1>3, <2>2 DEF ExpiryInv
<1>4. ASSUME TypeOK, GetInv, ExpiryInv
      PROVE  (SweepExpired \/ \E g \in Gets : GetDropExpired(g)) =>
               \A id \in Removed : heap[id].earliest \in 1..clock
  BY <1>2, <1>3, <1>4
<1> QED
  BY <1>1, <1>4, TypeCorrect, ExpiryStep, PTL DEF Spec, ExpiryNeverHitsFreshRecord

----------------------------------------------------------------------------
(* Access counts.                                                          *)

\* A step that returns no snapshot, and moves no pointer of a Get that did,
\* leaves the Gets that returned a record as they are.
LEMMA ReturnedStays ==
  ASSUME TypeOK, NEW g \in Gets, pc[g] # "touched",
         pc'[g] # "touched", \A h \in Gets \ {g} : pc'[h] = pc[h] /\ ref'[h] = ref[h]
  PROVE  \A id : Returned(id)' = Returned(id)
BY DEF Returned

\* An access is booked on the record it returns, in the same critical section.
LEMMA CountStep ==
  ASSUME TypeOK, GetInv, CountInv, [Next]_vars
  PROVE  CountInv'
<1> USE KVMemoryAssumption, KVAssumption
<1>0. /\ DOMAIN heap = 1..Len(heap) /\ Len(heap) \in Nat
      /\ \A g \in Gets : ref[g] # 0 => ref[g] \in DOMAIN heap
  BY PointersAreRecords
<1>1. CASE UNCHANGED <<heap, pc, ref>>
  BY <1>1 DEF CountInv, Returned
<1>2. ASSUME NEW g \in Gets,
             GetLookup(g) \/ GetTestExpiry(g) \/ GetDropExpired(g) \/ GetStamp(g)
      PROVE  CountInv'
  <2>1. /\ pc[g] # "touched" /\ pc'[g] # "touched" /\ heap' = heap
        /\ \A h \in Gets \ {g} : pc'[h] = pc[h] /\ ref'[h] = ref[h]
    BY <1>2 DEF GetLookup, GetTestExpiry, GetDropExpired, GetStamp, TypeOK
  <2>2. \A id : Returned(id)' = Returned(id)
    BY <2>1, ReturnedStays
  <2> QED BY <2>1, <2>2 DEF CountInv
<1>3. ASSUME NEW g \in Gets, GetTouch(g) PROVE CountInv'
  <2>1. /\ ref[g] \in DOMAIN heap /\ stamp[g] \in Nat /\ pc[g] # "touched"
    BY <1>0, <1>3 DEF GetTouch, TypeOK, GetInv
  <2>2. CASE items[want[g]] = ref[g]
    <3> DEFINE new == Touched(heap[ref[g]], stamp[g])
    <3>1. heap' = [heap EXCEPT ![ref[g]] = new] /\ ref' = ref
          /\ pc' = [pc EXCEPT ![g] = "touched"]
      BY <1>3, <2>2 DEF GetTouch
    <3>2. heap[ref[g]] \in Record /\ heap[ref[g]].count \in Nat
      BY <2>1, RecordTypes
    <3>3. Track => new.count = heap[ref[g]].count + 1
      BY <2>1, <3>2, TouchedRecord
    <3> HIDE DEF new
    <3>4. pc \in [Gets -> {"ready", "found", "expired", "live", "touching",
                           "notFound", "plain", "touched"}]
      BY DEF TypeOK
    <3>5. /\ Returned(ref[g])' = Returned(ref[g]) \cup {g} /\ g \notin Returned(ref[g])
          /\ \A id : id # ref[g] => Returned(id)' = Returned(id)
      BY <2>1, <3>1, <3>4 DEF Returned
    <3>6. DOMAIN heap' = DOMAIN heap /\ heap'[ref[g]] = new
          /\ \A id \in DOMAIN heap : id # ref[g] => heap'[id] = heap[id]
      BY <2>1, <3>1
    <3>7. IsFiniteSet(Returned(ref[g]))
          /\ (Track => heap[ref[g]].count = Cardinality(Returned(ref[g])))
      BY <2>1 DEF CountInv
    <3>8. IsFiniteSet(Returned(ref[g]) \cup {g})
          /\ Cardinality(Returned(ref[g]) \cup {g}) = Cardinality(Returned(ref[g])) + 1
      BY <3>5, <3>7, FS_AddElement
    <3>9. IsFiniteSet(Returned(ref[g])')
          /\ (Track => heap'[ref[g]].count = Cardinality(Returned(ref[g])'))
      BY <3>3, <3>5, <3>6, <3>7, <3>8
    <3>10. ASSUME NEW id \in DOMAIN heap'
           PROVE  /\ IsFiniteSet(Returned(id)')
                  /\ Track => heap'[id].count = Cardinality(Returned(id)')
      <4>1. CASE id = ref[g]
        BY <3>9, <3>1, <4>1
      <4>2. CASE id # ref[g]
        BY <3>5, <3>6, <4>2 DEF CountInv
      <4> QED BY <4>1, <4>2
    <3> QED BY <3>10 DEF CountInv
  <2>3. CASE items[want[g]] # ref[g]
    <3>1. /\ heap' = heap /\ pc'[g] # "touched"
          /\ \A h \in Gets \ {g} : pc'[h] = pc[h] /\ ref'[h] = ref[h]
      BY <1>3, <2>3 DEF GetTouch, TypeOK
    <3>2. \A id : Returned(id)' = Returned(id)
      BY <2>1, <3>1, ReturnedStays
    <3> QED BY <3>1, <3>2 DEF CountInv
  <2> QED BY <2>2, <2>3
<1>4. ASSUME NEW k \in Keys, NEW ifVersion, NEW ttl \in TTLs, Put(k, ttl, ifVersion)
      PROVE  CountInv'
  <2>1. UNCHANGED <<pc, ref>>
    BY <1>4 DEF Put, getVars
  <2>2. PICK new : heap' = Append(heap, new) /\ new.count = 0
    BY <1>4 DEF Put
  <2>3. /\ DOMAIN heap' = DOMAIN heap \cup {Len(heap) + 1}
        /\ heap'[Len(heap) + 1] = new
        /\ \A id \in DOMAIN heap : heap'[id] = heap[id]
    BY <1>0, <2>2 DEF TypeOK
  <2>4. \A id : Returned(id)' = Returned(id)
    BY <2>1 DEF Returned
  <2>5. Returned(Len(heap) + 1) = {}
    BY <1>0 DEF Returned, TypeOK
  <2>6. IsFiniteSet(Returned(Len(heap) + 1)) /\ Cardinality(Returned(Len(heap) + 1)) = 0
    BY <2>5, FS_EmptySet
  <2> QED BY <2>2, <2>3, <2>4, <2>6 DEF CountInv
<1> QED
  BY <1>1, <1>2, <1>3, <1>4
     DEF Next, Tick, Delete, VersionMismatch, SweepStart, SweepExpired, Close, vars, getVars

\* No access is lost and none is booked on a record's successor, however Gets of
\* one key overlap each other, writers and the sweeper.
THEOREM AccessesCounted == Spec => []AccessCountExact
<1>1. Init => CountInv
  BY DEF Init, CountInv
<1>2. CountInv => AccessCountExact
  BY DEF CountInv, AccessCountExact, Returned
<1> QED
  BY <1>1, <1>2, TypeCorrect, CountStep, PTL DEF Spec

----------------------------------------------------------------------------
(* Eviction.                                                               *)

\* Every non-empty set of naturals has a least element.
LEMMA LeastNatural ==
  ASSUME NEW T \in SUBSET Nat, T # {}
  PROVE  \E x \in T : \A y \in T : x <= y
<1> DEFINE R == {ss \in Nat \X Nat : ss[1] < ss[2]}
<1>1. IsWellFoundedOn(R, Nat)
  BY NatLessThanWellFounded DEF OpToRel
<1>2. PICK x \in T : \A y \in T : ~ (<<y, x>> \in R)
  BY <1>1, WFMin
<1>3. ASSUME NEW y \in T PROVE x <= y
  <2>1. y \in Nat /\ x \in Nat /\ ~ (y < x)
    BY <1>2
  <2> QED BY <2>1
<1> QED
  BY <1>3

\* The heat of an entry is a number.
LEMMA HeatIsNumber ==
  ASSUME TypeOK, NEW k \in Held
  PROVE  Heat(items[k]) \in Int
<1> DEFINE r == heap[items[k]]
           last == IF r.accessed = 0 THEN r.created ELSE r.accessed
           age == IF clock < last THEN 0 ELSE clock - last
<1>1. items[k] \in DOMAIN heap
  BY PointersAreRecords DEF Held
<1>2. r.accessed \in Nat /\ r.created \in Nat /\ r.count \in Nat
  BY <1>1, RecordTypes
<1>3. clock \in 1..MaxClock /\ MaxClock \in Nat
  BY KVMemoryAssumption, KVAssumption DEF TypeOK
<1>4. age \in Nat /\ MaxClock - age \in Nat
  BY <1>2, <1>3
<1> HIDE DEF age
<1>5. 2^(MaxClock - age) \in Int
  BY <1>4
<1>6. r.count * 2^(MaxClock - age) \in Int
  BY <1>2, <1>5
<1> QED
  BY <1>6 DEF Heat, age

\* Of any two entries one is colder: ties of heat are broken by key order.
LEMMA ColderIsLinear ==
  ASSUME TypeOK
  PROVE  /\ \A j, k \in Held : j # k => Colder(j, k) \/ Colder(k, j)
         /\ \A i, j, k \in Held : Colder(i, j) /\ Colder(j, k) => Colder(i, k)
<1>1. \A k \in Held : Heat(items[k]) \in Int /\ k \in Int
  BY HeatIsNumber, KVMemoryAssumption, KVAssumption DEF Held
<1> QED
  BY <1>1 DEF Colder

\* Finitely many entries have a coldest one.
LEMMA ColdestExists ==
  ASSUME TypeOK, NEW S \in SUBSET Held, IsFiniteSet(S), S # {}
  PROVE  \E x \in S : \A y \in S \ {x} : Colder(x, y)
<1> DEFINE Has(W) == \E x \in W : \A y \in W \ {x} : Colder(x, y)
           Bad == {n \in Nat : \E W \in SUBSET S :
                     IsFiniteSet(W) /\ W # {} /\ Cardinality(W) = n /\ ~ Has(W)}
<1>1. SUFFICES ASSUME ~ Has(S) PROVE FALSE
  OBVIOUS
<1>2. Cardinality(S) \in Bad
  <2>1. Cardinality(S) \in Nat
    BY FS_CardinalityType
  <2> QED BY <1>1, <2>1
<1>3. PICK n \in Bad : \A m \in Bad : n <= m
  <2>1. Bad \in SUBSET Nat /\ Bad # {}
    BY <1>2
  <2> HIDE DEF Bad
  <2> QED BY <2>1, LeastNatural
<1>4. PICK W \in SUBSET S : IsFiniteSet(W) /\ W # {} /\ Cardinality(W) = n /\ ~ Has(W)
  BY <1>3
<1>5. PICK x \in W : TRUE
  BY <1>4
<1>6. IsFiniteSet(W \ {x}) /\ Cardinality(W \ {x}) = n - 1 /\ n \in Nat
  BY <1>4, <1>5, FS_RemoveElement
<1>7. W \ {x} # {}
  BY <1>4, <1>5
<1>8. Has(W \ {x})
  <2>1. ASSUME ~ Has(W \ {x}) PROVE FALSE
    <3>1. Cardinality(W \ {x}) \in Nat
      BY <1>6, FS_CardinalityType
    <3>2. n - 1 \in Bad
      BY <1>6, <1>7, <2>1, <3>1
    <3> HIDE DEF Bad
    <3>3. n <= n - 1
      BY <1>3, <3>2
    <3> QED BY <1>6, <3>3
  <2> QED BY <2>1
<1>9. PICK z \in W \ {x} : \A y \in W \ {x, z} : Colder(z, y)
  BY <1>8
<1>10. x \in Held /\ z \in Held /\ W \subseteq Held
  BY <1>4, <1>5
<1>11. CASE Colder(z, x)
  BY <1>4, <1>9, <1>11
<1>12. CASE Colder(x, z)
  <2>1. \A y \in W \ {x} : Colder(x, y)
    BY <1>9, <1>10, <1>12, ColderIsLinear
  <2> QED BY <1>4, <1>5, <2>1
<1> QED
  BY <1>9, <1>10, <1>11, <1>12, ColderIsLinear

\* V are the n coldest of the entries in S.
Coldest(V, n, S) ==
  V \in kSubset(n, S) /\ \A v \in V, w \in S \ V : Colder(v, w)

\* Whatever number of entries has to go, the coldest ones can be named: the
\* choice that eviction makes is a real one.
LEMMA VictimsExist ==
  ASSUME TypeOK, NEW S \in SUBSET Held, IsFiniteSet(S), NEW n \in Nat, n <= Cardinality(S)
  PROVE  \E V \in kSubset(n, S) : \A v \in V, w \in S \ V : Colder(v, w)
<1> DEFINE Bad == {m \in Nat : m <= Cardinality(S) /\ ~ \E V : Coldest(V, m, S)}
<1>0. Cardinality(S) \in Nat
  BY FS_CardinalityType
<1>1. ASSUME NEW b \in Bad PROVE FALSE
  <2>1. PICK m \in Bad : \A q \in Bad : m <= q
    <3>1. Bad \in SUBSET Nat /\ Bad # {}
      BY <1>1
    <3> HIDE DEF Bad
    <3> QED BY <3>1, LeastNatural
  <2>2. m \in Nat /\ m <= Cardinality(S) /\ \A V : ~ Coldest(V, m, S)
    OBVIOUS
  <2>3. m # 0
    <3>1. Coldest({}, 0, S)
      BY FS_EmptySet DEF Coldest, kSubset
    <3> QED BY <2>2, <3>1
  <2>4. m - 1 \in Nat /\ m - 1 <= Cardinality(S) /\ ~ (m <= m - 1)
    BY <1>0, <2>2, <2>3
  <2>5. PICK V : Coldest(V, m - 1, S)
    BY <2>1, <2>4
  <2>6. V \subseteq S /\ Cardinality(V) = m - 1 /\ \A v \in V, w \in S \ V : Colder(v, w)
    BY <2>5 DEF Coldest, kSubset
  <2>7. IsFiniteSet(V) /\ IsFiniteSet(S \ V)
    BY <2>6, FS_Subset
  <2>8. S \ V # {}
    <3>1. ASSUME S \ V = {} PROVE FALSE
      <4>1. V = S
        BY <2>6, <3>1
      <4> QED BY <1>0, <2>2, <2>6, <4>1
    <3> QED BY <3>1
  <2>9. PICK x \in S \ V : \A y \in (S \ V) \ {x} : Colder(x, y)
    <3>1. S \ V \in SUBSET Held
      OBVIOUS
    <3> DEFINE U == S \ V
    <3> HIDE DEF U
    <3>2. \E x \in U : \A y \in U \ {x} : Colder(x, y)
      BY <2>7, <2>8, <3>1, ColdestExists DEF U
    <3> QED BY <3>2 DEF U
  <2>10. IsFiniteSet(V \cup {x}) /\ Cardinality(V \cup {x}) = m
    <3>1. Cardinality(V \cup {x}) = Cardinality(V) + 1
      BY <2>7, FS_AddElement
    <3> QED BY <2>2, <2>6, <2>7, <3>1, FS_AddElement
  <2>11. \A v \in V \cup {x}, w \in S \ (V \cup {x}) : Colder(v, w)
    BY <2>6, <2>9
  <2>12. Coldest(V \cup {x}, m, S)
    BY <2>6, <2>10, <2>11 DEF Coldest, kSubset
  <2> QED BY <2>2, <2>12
<1>2. \E V : Coldest(V, n, S)
  BY <1>1
<1> QED
  BY <1>2 DEF Coldest

\* A Put over the capacity evicts as many other entries as the namespace is over.
LEMMA PutEvicts ==
  ASSUME TypeOK, CapacityInv, NEW k \in Keys, Capacity > 0
  PROVE  /\ IsFiniteSet((Held \ {k}) \ EvictColdest(k))
         /\ Cardinality((Held \ {k}) \ EvictColdest(k)) < Capacity
<1> DEFINE others == {j \in Keys \ {k} : items[j] # 0}
           over == Cardinality(others) + 1 - Capacity
           n == Min({over, Cardinality(others)})
           V == EvictColdest(k)
<1>0. others = Held \ {k}
  BY DEF Held
<1>1. IsFiniteSet(others) /\ Cardinality(others) \in Nat /\ others \in SUBSET Held
  <2>1. IsFiniteSet(others)
    BY <1>0, FS_Subset DEF CapacityInv
  <2> QED BY <1>0, <2>1, FS_CardinalityType
<1>2. Capacity \in Nat
  BY KVMemoryAssumption, KVAssumption
<1>4. V = IF Capacity = 0 \/ over <= 0 THEN {}
          ELSE CHOOSE W \in kSubset(n, others) : \A v \in W, w \in others \ W : Colder(v, w)
  BY DEF EvictColdest
<1> HIDE DEF others, V
<1>5. CASE over <= 0
  <2>1. others \ V = others
    BY <1>4, <1>5
  <2>2. Cardinality(others) < Capacity
    BY <1>1, <1>2, <1>5
  <2>3. IsFiniteSet(others \ V) /\ Cardinality(others \ V) < Capacity
    BY <1>1, <2>1, <2>2
  <2> QED BY <1>0, <2>3 DEF V
<1>6. CASE ~ (over <= 0)
  <2>1. over \in Nat /\ over <= Cardinality(others)
    BY <1>1, <1>2, <1>6
  <2>2. n = over
    <3> HIDE DEF over
    <3>1. over \in {over, Cardinality(others)} /\ \A y \in {over, Cardinality(others)} : over =< y
      BY <2>1
    <3>2. \A x \in {over, Cardinality(others)} :
            (\A y \in {over, Cardinality(others)} : x =< y) => x = over
      BY <1>1, <2>1
    <3> QED BY <3>1, <3>2 DEF Min
  <2> HIDE DEF n, over
  <2>3. \E W \in kSubset(over, others) : \A v \in W, w \in others \ W : Colder(v, w)
    BY <1>1, <2>1, VictimsExist
  <2>4. V \in kSubset(over, others)
    BY <1>2, <1>4, <1>6, <2>2, <2>3
  <2>5. V \subseteq others /\ Cardinality(V) = over
    BY <2>4 DEF kSubset
  <2>6. IsFiniteSet(others \ V) /\ Cardinality(others \ V) = Cardinality(others) - over
    <3>1. IsFiniteSet(V) /\ IsFiniteSet(others \ V) /\ others \cap V = V
      BY <1>1, <2>5, FS_Subset
    <3>2. Cardinality(others \ V) = Cardinality(others) - Cardinality(others \cap V)
      BY <1>1, FS_Difference
    <3> QED BY <2>5, <3>1, <3>2
  <2>7. Cardinality(others) - over = Capacity - 1
    BY <1>1, <1>2 DEF over
  <2> QED BY <1>0, <1>2, <2>6, <2>7 DEF V
<1> QED
  BY <1>5, <1>6

\* Entries are only ever added by a Put, which makes room first.
LEMMA CapacityStep ==
  ASSUME TypeOK, CapacityInv, [Next]_vars
  PROVE  CapacityInv'
<1>1. ASSUME \A k \in Keys : items'[k] # 0 => items[k] # 0
      PROVE  CapacityInv'
  <2>1. Held' \subseteq Held
    BY <1>1 DEF Held
  <2>2. IsFiniteSet(Held') /\ Cardinality(Held') <= Cardinality(Held)
    BY <2>1, FS_Subset DEF CapacityInv
  <2>3. Cardinality(Held) \in Nat /\ Cardinality(Held') \in Nat /\ Capacity \in Nat
    BY <2>2, FS_CardinalityType, KVMemoryAssumption, KVAssumption DEF CapacityInv
  <2>4. Capacity > 0 => Cardinality(Held') <= Capacity
    BY <2>2, <2>3 DEF CapacityInv, CapacityHeld, Held
  <2> QED BY <2>2, <2>4 DEF CapacityInv, CapacityHeld, Held
<1>2. ASSUME NEW g \in Gets, GetDropExpired(g) PROVE CapacityInv'
  BY <1>1, <1>2 DEF GetDropExpired, TypeOK
<1>3. ASSUME NEW k \in Keys, NEW ifVersion, NEW ttl \in TTLs, Put(k, ttl, ifVersion)
      PROVE  CapacityInv'
  <2> DEFINE kept == (Held \ {k}) \ EvictColdest(k)
  <2>1. /\ items'[k] = Len(heap) + 1 /\ Len(heap) + 1 # 0
        /\ \A j \in Keys \ {k} : items'[j] = IF j \in EvictColdest(k) THEN 0 ELSE items[j]
    BY <1>3, PointersAreRecords DEF Put
  <2>2. Held' = kept \cup {k} /\ k \notin kept
    BY <2>1 DEF Held
  <2>3. IsFiniteSet(kept)
    BY FS_Subset DEF CapacityInv
  <2> HIDE DEF kept
  <2>4. IsFiniteSet(Held') /\ Cardinality(Held') = Cardinality(kept) + 1
        /\ Cardinality(kept) \in Nat
    BY <2>2, <2>3, FS_AddElement, FS_CardinalityType
  <2>5. Capacity > 0 => Cardinality(kept) < Capacity
    BY PutEvicts DEF kept
  <2>6. Capacity > 0 => Cardinality(Held') <= Capacity
    BY <2>4, <2>5, KVMemoryAssumption, KVAssumption
  <2> QED BY <2>4, <2>6 DEF CapacityInv, CapacityHeld, Held
<1>4. ASSUME NEW k \in Keys, NEW ifVersion, Delete(k, ifVersion) \/ VersionMismatch(k, ifVersion)
      PROVE  CapacityInv'
  <2>1. LiveEntry(k) \in {0, items[k]}
    BY DEF LiveEntry
  <2> QED BY <1>1, <1>4, <2>1 DEF Delete, VersionMismatch, TypeOK
<1>5. CASE SweepExpired
  BY <1>1, <1>5 DEF SweepExpired
<1>6. CASE UNCHANGED items
  BY <1>1, <1>6
<1> QED
  BY <1>2, <1>3, <1>4, <1>5, <1>6
     DEF Next, Tick, GetLookup, GetTestExpiry, GetStamp, GetTouch, SweepStart, Close, vars

\* A namespace with a capacity stays within it, whatever reads, sweeps and
\* deletes run between the Puts that enforce it and however heats compare.
THEOREM CapacityKept == Spec => []CapacityHeld
<1>1. Init => CapacityInv
  <2>1. ASSUME Init PROVE Held = {}
    BY <2>1 DEF Init, Held
  <2>2. ASSUME Init PROVE CapacityInv
    BY <2>1, <2>2, FS_EmptySet, KVMemoryAssumption, KVAssumption DEF CapacityInv, CapacityHeld, Held
  <2> QED BY <2>2
<1>2. CapacityInv => CapacityHeld
  BY DEF CapacityInv
<1> QED
  BY <1>1, <1>2, TypeCorrect, CapacityStep, PTL DEF Spec

----------------------------------------------------------------------------
(* The PostgreSQL driver.                                                  *)

\* The calls that committed; the epochs of the model count them.
Committed == {u \in Txs : stage[u] = "committed"}

\* What the types rest on: finitely many calls have committed, and a lock
\* held after the SELECT alone is held because the SELECT found a row.
LockInv ==
  /\ IsFiniteSet(Committed)
  /\ \A t \in Txs : lock = t /\ stage[t] = "selected" => snap[t].version # 0

\* The row a transaction selected is locked by it, unchanged and as live as it
\* was, until the transaction writes; the write replaced the version checked.
CheckedInv ==
  \A t \in Txs :
    /\ stage[t] = "selected" /\ snap[t].version # 0 =>
         lock = t /\ LiveAt(row, snap[t].now) /\ row.version = snap[t].version
    /\ stage[t] = "written" => lock = t
    /\ stage[t] \in {"written", "committed"} /\ arg[t].expect > 0 =>
         base[t] = arg[t].expect

\* In the life the row is in, the row has the highest version returned so
\* far; a pending put continues that life by one version or begins a new one.
LifeInv ==
  /\ row.epoch <= Cardinality(Committed)
  /\ row.version # 0 => row.epoch # 0
  /\ \A u \in CommittedPuts :
       /\ wrote[u].epoch \in 1..Cardinality(Committed)
       /\ wrote[u].epoch = row.epoch => wrote[u].version <= row.version
  /\ \A t \in Txs : stage[t] = "ready" => wrote[t] = NoRow
  /\ \A t \in Txs : stage[t] = "written" /\ wrote[t] # NoRow =>
       \/ /\ wrote[t].epoch = row.epoch
          /\ wrote[t].epoch # 0
          /\ wrote[t].version = row.version + 1
       \/ wrote[t].epoch = 1 + Cardinality(Committed)

----------------------------------------------------------------------------
\* The arguments of a call have their types, and NoTx is no call.
LEMMA CallTypes ==
  ASSUME PgTypeOK, NEW t \in Txs
  PROVE  /\ t # NoTx
         /\ arg[t].ttl \in Nat
         /\ arg[t].expect \in Nat \cup {Any}
         /\ snap[t].now \in Nat /\ snap[t].tuple \in Nat /\ snap[t].version \in Nat
         /\ row.version \in Nat /\ row.expires \in Nat
         /\ row.tuple \in Nat /\ row.epoch \in Nat
<1>1. arg[t] \in Args
  BY DEF PgTypeOK
<1>2. arg[t].ttl \in TTLs \cup {0} /\ arg[t].expect \in Expects
  <2>1. CASE arg[t] \in [op : {"put"}, expect : Expects, ttl : TTLs]
    BY <2>1
  <2>2. CASE arg[t] \in [op : {"delete"}, expect : Expects, ttl : {0}]
    BY <2>2
  <2> QED BY <1>1, <2>1, <2>2 DEF Args
<1>3. snap[t] \in Snap /\ row \in Row
  BY DEF PgTypeOK
<1>4. t # NoTx
  BY KVPostgresAssumption, KVAssumption
<1>5. arg[t].ttl \in Nat
  <2>1. TTLs \cup {0} \subseteq Nat
    BY KVPostgresAssumption, KVAssumption
  <2> QED BY <1>2, <2>1
<1>6. arg[t].expect \in Nat \cup {Any}
  <2>1. Expects \subseteq Nat \cup {Any}
    BY KVPostgresAssumption, KVAssumption
  <2> QED BY <1>2, <2>1
<1>7. /\ snap[t].now \in Nat /\ snap[t].tuple \in Nat /\ snap[t].version \in Nat
      /\ row.version \in Nat /\ row.expires \in Nat
      /\ row.tuple \in Nat /\ row.epoch \in Nat
  BY <1>3 DEF Snap, Row
<1> QED
  BY <1>4, <1>5, <1>6, <1>7

\* A step that ends no call in a commit leaves the committed calls as they are.
LEMMA CommittedStays ==
  ASSUME PgTypeOK, NEW t \in Txs, NEW o, o # "committed", stage[t] # "committed",
         stage' = [stage EXCEPT ![t] = o]
  PROVE  Committed' = Committed
BY DEF Committed, PgTypeOK

\* A commit adds the call to them.
LEMMA CommittedGrows ==
  ASSUME PgTypeOK, IsFiniteSet(Committed), NEW t \in Txs, stage[t] # "committed",
         stage' = [stage EXCEPT ![t] = "committed"]
  PROVE  /\ IsFiniteSet(Committed')
         /\ Cardinality(Committed) \in Nat
         /\ Cardinality(Committed') = Cardinality(Committed) + 1
<1>1. Committed' = Committed \cup {t} /\ t \notin Committed
  BY DEF Committed, PgTypeOK
<1> QED
  BY <1>1, FS_AddElement, FS_CardinalityType

----------------------------------------------------------------------------
\* No statement, commit, rollback, sweep or tick leaves the types.
LEMMA PgTypeStep ==
  ASSUME PgTypeOK, LockInv, [PgNext]_pgVars
  PROVE  PgTypeOK' /\ LockInv'
<1> USE KVPostgresAssumption, KVAssumption DEF Ended
<1>0. \A t \in Txs : /\ t # NoTx
                     /\ snap[t].version \in Nat
                     /\ row.version \in Nat
  BY CallTypes
<1>1. CASE PgTick
  BY <1>1 DEF PgTick, PgTypeOK, LockInv, Committed
<1>2. CASE Sweep
  <2>1. NoRow \in Row
    BY DEF NoRow, Row
  <2> QED BY <1>2, <2>1 DEF Sweep, PgTypeOK, LockInv, Committed
<1>3. ASSUME NEW t \in Txs, SelectNone(t) \/ SelectRow(t)
      PROVE  PgTypeOK' /\ LockInv'
  <2>1. clock \in Nat /\ row.tuple \in Nat
    BY CallTypes DEF PgTypeOK
  <2>2. snap' \in [Txs -> Snap]
    <3>1. [NoSnap EXCEPT !.now = clock] \in Snap
      BY <2>1 DEF NoSnap, Snap
    <3>2. [NoSnap EXCEPT !.now = clock, !.tuple = row.tuple] \in Snap
      BY <2>1 DEF NoSnap, Snap
    <3> QED BY <1>3, <3>1, <3>2 DEF SelectNone, SelectRow, PgTypeOK
  <2>3. PICK o \in {"selected", "locking"} : stage' = [stage EXCEPT ![t] = o]
    BY <1>3 DEF Step, SelectNone, SelectRow
  <2>4. stage[t] = "ready" /\ UNCHANGED <<clock, row, lock, arg, wrote, base>>
        /\ \A u \in Txs \ {t} : snap'[u] = snap[u]
    BY <1>3 DEF Step, SelectNone, SelectRow, PgTypeOK
  <2>5. Committed' = Committed
    BY <2>3, <2>4, CommittedStays
  <2>6. lock # t
    BY <1>0, <2>4 DEF PgTypeOK
  <2> QED BY <2>2, <2>3, <2>4, <2>5, <2>6 DEF PgTypeOK, LockInv
<1>4. ASSUME NEW t \in Txs, LockRow(t) PROVE PgTypeOK' /\ LockInv'
  <2> DEFINE found == row.tuple = snap[t].tuple /\ LiveAt(row, snap[t].now)
  <2>1. /\ stage[t] = "locking" /\ lock = NoTx
        /\ snap' = [snap EXCEPT ![t].version = IF found THEN row.version ELSE 0]
        /\ lock' = IF found THEN t ELSE NoTx
        /\ stage' = [stage EXCEPT ![t] = "selected"]
        /\ UNCHANGED <<clock, row, arg, wrote, base>>
    BY <1>4 DEF LockRow
  <2>2. snap' \in [Txs -> Snap]
    BY <1>0, <2>1 DEF Snap, PgTypeOK
  <2>3. found => snap'[t].version # 0
    BY <2>1 DEF LiveAt, PgTypeOK, Snap
  <2>4. Committed' = Committed
    BY <2>1, CommittedStays
  <2>5. lock' \in Txs \cup {NoTx} /\ (lock' # NoTx => lock' = t /\ found)
    BY <2>1
  <2>6. PgTypeOK'
    BY <2>1, <2>2, <2>5 DEF PgTypeOK
  <2>7. LockInv'
    BY <1>0, <2>3, <2>4, <2>5 DEF LockInv
  <2> QED BY <2>6, <2>7
<1>5. ASSUME NEW t \in Txs, Mismatch(t) PROVE PgTypeOK' /\ LockInv'
  <2>1. Committed' = Committed
    BY <1>5, CommittedStays DEF Mismatch
  <2>2. NoSnap \in Snap
    BY DEF NoSnap, Snap
  <2>3. lock' \in {lock, NoTx} /\ lock' # t
    BY <1>0, <1>5 DEF Mismatch, Unlocked
  <2> QED BY <1>0, <1>5, <2>1, <2>2, <2>3 DEF Mismatch, PgTypeOK, LockInv
<1>6. ASSUME NEW t \in Txs, NEW called \in 1..snap[t].now, Upsert(t, called)
      PROVE  PgTypeOK' /\ LockInv'
  <2>1. Cardinality(Committed) \in Nat
    BY FS_CardinalityType DEF LockInv
  <2>2. /\ called \in Nat /\ arg[t].ttl \in Nat /\ row.tuple \in Nat
        /\ row.epoch \in Nat
    BY CallTypes
  <2>3. wrote'[t] \in Row
    <3>1. wrote'[t] =
            [version |-> IF row = NoRow THEN snap[t].version + 1 ELSE ConflictVersion(t),
             expires |-> IF arg[t].ttl = 0 THEN 0 ELSE called + arg[t].ttl,
             tuple   |-> IF row = NoRow THEN 1 + Cardinality(Committed) ELSE row.tuple,
             epoch   |-> IF LiveAt(row, snap[t].now) THEN row.epoch
                         ELSE 1 + Cardinality(Committed)]
      BY <1>6 DEF Upsert, Committed, PgTypeOK
    <3>2. ConflictVersion(t) \in Nat
      BY <1>0 DEF ConflictVersion
    <3> QED BY <1>0, <2>1, <2>2, <3>1, <3>2 DEF Row
  <2>4. wrote' \in [Txs -> Row]
    BY <1>6, <2>3 DEF Upsert, PgTypeOK
  <2>5. base' \in [Txs -> Nat]
    BY <1>0, <1>6 DEF Upsert, PgTypeOK
  <2>6. Committed' = Committed
    BY <1>6, CommittedStays DEF Upsert
  <2>7. /\ lock' = t /\ stage' = [stage EXCEPT ![t] = "written"]
        /\ UNCHANGED <<clock, row, arg, snap>>
    BY <1>6 DEF Upsert
  <2>8. PgTypeOK'
    BY <2>4, <2>5, <2>7 DEF PgTypeOK
  <2>9. LockInv'
    BY <2>6, <2>7 DEF LockInv, PgTypeOK
  <2> QED BY <2>8, <2>9
<1>7. ASSUME NEW t \in Txs, DeleteRow(t) PROVE PgTypeOK' /\ LockInv'
  <2>1. Committed' = Committed
    BY <1>7, CommittedStays DEF DeleteRow
  <2>2. NoRow \in Row
    BY DEF NoRow, Row
  <2> QED BY <1>0, <1>7, <2>1, <2>2 DEF DeleteRow, PgTypeOK, LockInv
<1>8. ASSUME NEW t \in Txs, DeleteAbsent(t) PROVE PgTypeOK' /\ LockInv'
  <2>1. Committed' = Committed
    BY <1>8, CommittedStays DEF DeleteAbsent
  <2>2. NoSnap \in Snap
    BY DEF NoSnap, Snap
  <2>3. lock # t
    BY <1>8 DEF DeleteAbsent, LockInv
  <2> QED BY <1>8, <2>1, <2>2, <2>3 DEF DeleteAbsent, PgTypeOK, LockInv
<1>9. ASSUME NEW t \in Txs, Commit(t) PROVE PgTypeOK' /\ LockInv'
  <2>1. IsFiniteSet(Committed')
    BY <1>9, CommittedGrows DEF Commit, LockInv
  <2>2. NoSnap \in Snap
    BY DEF NoSnap, Snap
  <2> QED BY <1>0, <1>9, <2>1, <2>2 DEF Commit, PgTypeOK, LockInv
<1>10. ASSUME NEW t \in Txs, Fail(t) PROVE PgTypeOK' /\ LockInv'
  <2>1. Committed' = Committed
    BY <1>10, CommittedStays DEF Fail
  <2>2. NoSnap \in Snap /\ NoRow \in Row
    BY DEF NoSnap, Snap, NoRow, Row
  <2>3. lock' \in {lock, NoTx} /\ lock' # t
    BY <1>0, <1>10 DEF Fail, Unlocked
  <2> QED BY <1>0, <1>10, <2>1, <2>2, <2>3 DEF Fail, PgTypeOK, LockInv
<1>11. ASSUME NEW t \in Txs, DeleteNow(t) PROVE PgTypeOK' /\ LockInv'
  <2>1. NoRow \in Row
    BY DEF NoRow, Row
  <2>2. PICK o \in {"committed", "absent"} : stage' = [stage EXCEPT ![t] = o]
    BY <1>11 DEF DeleteNow
  <2>3. IsFiniteSet(Committed')
    BY <1>11, <2>2, CommittedStays, CommittedGrows DEF DeleteNow, LockInv
  <2>4. lock' = NoTx
    BY <1>11 DEF DeleteNow
  <2> QED BY <1>0, <1>11, <2>1, <2>3, <2>4 DEF DeleteNow, PgTypeOK, LockInv
<1>12. CASE UNCHANGED pgVars
  BY <1>12 DEF pgVars, PgTypeOK, LockInv, Committed
<1> QED
  BY <1>1, <1>2, <1>3, <1>4, <1>5, <1>6, <1>7, <1>8, <1>9, <1>10, <1>11, <1>12
     DEF PgNext, Step

\* The type invariant, with the finiteness of the committed calls it needs.
THEOREM PgTypeCorrect == PgSpec => [](PgTypeOK /\ LockInv)
<1>1. PgInit => PgTypeOK /\ LockInv
  <2> SUFFICES ASSUME PgInit PROVE PgTypeOK /\ LockInv
    OBVIOUS
  <2>1. Committed = {}
    BY DEF PgInit, Committed
  <2>2. NoRow \in Row /\ NoSnap \in Snap
    BY DEF NoRow, Row, NoSnap, Snap
  <2>3. PgTypeOK
    <3>1. clock \in 1..MaxClock
      BY KVPostgresAssumption, KVAssumption DEF PgInit
    <3> QED BY <2>2, <3>1 DEF PgInit, PgTypeOK
  <2>4. LockInv
    BY <2>1, FS_EmptySet DEF PgInit, LockInv
  <2> QED BY <2>3, <2>4
<1>2. (PgTypeOK /\ LockInv) /\ [PgNext]_pgVars => (PgTypeOK /\ LockInv)'
  BY PgTypeStep
<1> QED
  BY <1>1, <1>2, PTL DEF PgSpec

----------------------------------------------------------------------------
\* What a transaction has checked holds as long as it neither ends nor writes,
\* whatever the others do: it is the only one that can replace the row.
LEMMA OthersUndisturbed ==
  ASSUME CheckedInv, NEW t \in Txs,
         stage'[t] = stage[t], arg'[t] = arg[t], snap'[t] = snap[t], base'[t] = base[t],
         lock = t => lock' = t /\ row' = row
  PROVE  /\ stage'[t] = "selected" /\ snap'[t].version # 0 =>
              lock' = t /\ LiveAt(row', snap'[t].now) /\ row'.version = snap'[t].version
         /\ stage'[t] = "written" => lock' = t
         /\ stage'[t] \in {"written", "committed"} /\ arg'[t].expect > 0 =>
              base'[t] = arg'[t].expect
BY DEF CheckedInv

\* No step of any call disturbs what the others have checked.
LEMMA CheckedStep ==
  ASSUME PgTypeOK, LockInv, CheckedInv, [PgNext]_pgVars
  PROVE  CheckedInv'
<1>0. \A t \in Txs : /\ t # NoTx
                     /\ snap[t].version \in Nat
                     /\ row.version \in Nat
  BY CallTypes
<1>1. CASE PgTick \/ UNCHANGED pgVars
  BY <1>1 DEF PgTick, pgVars, CheckedInv
<1>2. CASE Sweep
  BY <1>0, <1>2 DEF Sweep, CheckedInv
<1>3. ASSUME NEW t \in Txs, Step(t) \/ Fail(t), NEW u \in Txs, u # t
      PROVE  /\ stage'[u] = stage[u] /\ arg'[u] = arg[u] /\ snap'[u] = snap[u]
             /\ base'[u] = base[u]
  BY <1>3 DEF Step, SelectNone, SelectRow, LockRow, Mismatch, Upsert, DeleteRow,
              DeleteAbsent, Commit, Fail, DeleteNow, PgTypeOK
<1>4. ASSUME NEW t \in Txs, Step(t) \/ Fail(t), NEW u \in Txs, u # t, lock = u
      PROVE  lock' = u /\ row' = row
  <2>1. CASE Commit(t)
    <3>1. lock = t
      BY <2>1 DEF Commit, CheckedInv
    <3> QED BY <1>4, <3>1
  <2>2. CASE ~Commit(t)
    BY <1>0, <1>4, <2>2
       DEF Step, SelectNone, SelectRow, LockRow, Mismatch, Upsert, DeleteRow,
           DeleteAbsent, Fail, DeleteNow, Unlocked
  <2> QED BY <2>1, <2>2
<1>5. ASSUME NEW t \in Txs, Step(t) \/ Fail(t)
      PROVE  /\ stage'[t] = "selected" /\ snap'[t].version # 0 =>
                  lock' = t /\ LiveAt(row', snap'[t].now) /\ row'.version = snap'[t].version
             /\ stage'[t] = "written" => lock' = t
             /\ stage'[t] \in {"written", "committed"} /\ arg'[t].expect > 0 =>
                  base'[t] = arg'[t].expect
  <2> DEFINE Holds ==
               /\ stage'[t] = "selected" /\ snap'[t].version # 0 =>
                    lock' = t /\ LiveAt(row', snap'[t].now) /\ row'.version = snap'[t].version
               /\ stage'[t] = "written" => lock' = t
               /\ stage'[t] \in {"written", "committed"} /\ arg'[t].expect > 0 =>
                    base'[t] = arg'[t].expect
  <2>1. CASE SelectNone(t)
    BY <2>1 DEF SelectNone, NoSnap, PgTypeOK
  <2>2. CASE SelectRow(t) \/ Mismatch(t) \/ DeleteAbsent(t) \/ Fail(t)
    BY <2>2 DEF SelectRow, Mismatch, DeleteAbsent, Fail, PgTypeOK
  <2>3. CASE LockRow(t)
    <3>1. snap[t] \in Snap
      BY DEF PgTypeOK
    <3>2. snap'[t].now = snap[t].now /\ stage'[t] = "selected" /\ row' = row
      BY <2>3, <3>1 DEF LockRow, PgTypeOK, Snap
    <3>3. snap'[t].version # 0 =>
            lock' = t /\ LiveAt(row, snap[t].now) /\ snap'[t].version = row.version
      BY <2>3, <3>1 DEF LockRow, PgTypeOK, Snap
    <3> QED BY <3>2, <3>3
  <2>4. ASSUME NEW called \in 1..snap[t].now, Upsert(t, called) PROVE Holds
    <3>1. stage'[t] = "written" /\ lock' = t /\ arg' = arg /\ stage[t] = "selected"
          /\ arg[t].expect \in {Any, snap[t].version}
          /\ base'[t] = IF LiveAt(row, snap[t].now) THEN row.version ELSE 0
      BY <2>4 DEF Upsert, PgTypeOK
    <3>2. arg[t].expect > 0 => snap[t].version = arg[t].expect /\ snap[t].version # 0
      BY <1>0, <3>1 DEF Any
    <3>3. snap[t].version # 0 => LiveAt(row, snap[t].now) /\ row.version = snap[t].version
      BY <3>1 DEF CheckedInv
    <3> QED BY <3>1, <3>2, <3>3
  <2>5. CASE DeleteRow(t)
    BY <2>5 DEF DeleteRow, CheckedInv, PgTypeOK
  <2>6. CASE Commit(t)
    BY <2>6 DEF Commit, CheckedInv, PgTypeOK
  <2>7. CASE DeleteNow(t)
    BY <2>7 DEF DeleteNow, PgTypeOK, Any
  <2> QED BY <1>5, <2>1, <2>2, <2>3, <2>4, <2>5, <2>6, <2>7 DEF Step
<1>6. ASSUME NEW t \in Txs, Step(t) \/ Fail(t) PROVE CheckedInv'
  <2> SUFFICES ASSUME NEW u \in Txs
               PROVE  /\ stage'[u] = "selected" /\ snap'[u].version # 0 =>
                           /\ lock' = u /\ LiveAt(row', snap'[u].now)
                           /\ row'.version = snap'[u].version
                      /\ stage'[u] = "written" => lock' = u
                      /\ stage'[u] \in {"written", "committed"} /\ arg'[u].expect > 0 =>
                           base'[u] = arg'[u].expect
    BY DEF CheckedInv, LiveAt
  <2>1. CASE u = t
    BY <1>5, <1>6, <2>1
  <2>2. CASE u # t
    <3>1. /\ stage'[u] = stage[u] /\ arg'[u] = arg[u] /\ snap'[u] = snap[u]
          /\ base'[u] = base[u]
      BY <1>3, <1>6, <2>2
    <3>2. lock = u => lock' = u /\ row' = row
      BY <1>4, <1>6, <2>2
    <3> QED BY <3>1, <3>2, OthersUndisturbed
  <2> QED BY <2>1, <2>2
<1> QED
  BY <1>1, <1>2, <1>6 DEF PgNext

\* Compare-and-swap on an existing version: what the SELECT .. FOR UPDATE
\* checked against if_version is what the write replaced.
THEOREM CompareAndSwap == PgSpec => []CASReplacesVersionChecked
<1>1. PgInit => CheckedInv
  BY DEF PgInit, CheckedInv
<1>2. PgTypeOK /\ LockInv /\ CheckedInv /\ [PgNext]_pgVars => CheckedInv'
  BY CheckedStep
<1>3. CheckedInv => CASReplacesVersionChecked
  BY DEF CheckedInv, CASReplacesVersionChecked
<1> QED
  BY <1>1, <1>2, <1>3, PgTypeCorrect, PTL DEF PgSpec

----------------------------------------------------------------------------
\* The versions of a life go up: the pending put of a call continues the life
\* the row is in, or begins one that no committed put belongs to.
LEMMA LifeStep ==
  ASSUME PgTypeOK, LockInv, CheckedInv, LifeInv, [PgNext]_pgVars
  PROVE  LifeInv'
<1> DEFINE N == Cardinality(Committed)
<1>0. /\ N \in Nat
      /\ row.version \in Nat /\ row.epoch \in Nat
      /\ \A u \in Txs : wrote[u].version \in Nat /\ wrote[u].epoch \in Nat
      /\ NoRow.version = 0 /\ NoRow.epoch = 0
  <2>1. N \in Nat
    BY FS_CardinalityType DEF LockInv
  <2>2. \A u \in Txs : wrote[u] \in Row
    BY DEF PgTypeOK
  <2>3. row \in Row
    BY DEF PgTypeOK
  <2> QED BY <2>1, <2>2, <2>3 DEF Row, NoRow
<1>1. CASE PgTick \/ UNCHANGED pgVars
  BY <1>1 DEF PgTick, pgVars, LifeInv, Committed, CommittedPuts
<1>2. CASE Sweep
  <2>1. /\ row' = NoRow /\ UNCHANGED <<stage, wrote>> /\ lock = NoTx
        /\ Committed' = Committed /\ CommittedPuts' = CommittedPuts
    BY <1>2 DEF Sweep, Committed, CommittedPuts
  <2>2. \A t \in Txs : stage[t] # "written"
    BY <2>1, KVPostgresAssumption, KVAssumption DEF CheckedInv
  <2>3. \A u \in CommittedPuts : wrote[u].epoch \in 1..N
    BY DEF LifeInv
  <2> QED BY <1>0, <2>1, <2>2, <2>3 DEF LifeInv
<1>3. ASSUME NEW t \in Txs,
             \/ SelectNone(t) \/ SelectRow(t) \/ LockRow(t) \/ Mismatch(t)
             \/ DeleteAbsent(t) \/ Fail(t)
      PROVE  LifeInv'
  <2>1. /\ UNCHANGED row
        /\ Committed' = Committed /\ CommittedPuts' = CommittedPuts
        /\ \A u \in Txs : stage'[u] \in {"ready", "written", "committed"} => stage'[u] = stage[u]
        /\ \A u \in Txs : stage'[u] \in {"ready", "written", "committed"} => wrote'[u] = wrote[u]
    BY <1>3 DEF SelectNone, SelectRow, LockRow, Mismatch, DeleteAbsent, Fail,
                PgTypeOK, Committed, CommittedPuts
  <2>2. \A u \in CommittedPuts : u \in Txs /\ wrote'[u] = wrote[u]
    BY <2>1 DEF CommittedPuts
  <2> QED BY <2>1, <2>2 DEF LifeInv
<1>4. ASSUME NEW t \in Txs, NEW called \in 1..snap[t].now, Upsert(t, called)
      PROVE  LifeInv'
  <2>1. /\ UNCHANGED row /\ stage[t] = "selected" /\ stage' = [stage EXCEPT ![t] = "written"]
        /\ \A u \in Txs \ {t} : stage'[u] = stage[u] /\ wrote'[u] = wrote[u]
        /\ Committed' = Committed
    BY <1>4 DEF Upsert, Committed, PgTypeOK
  <2>2. CommittedPuts' = CommittedPuts /\ t \notin CommittedPuts
    BY <2>1 DEF CommittedPuts, PgTypeOK
  <2>3. \/ /\ wrote'[t].epoch = row.epoch
           /\ wrote'[t].epoch # 0
           /\ wrote'[t].version = row.version + 1
        \/ wrote'[t].epoch = 1 + N
    <3>1. /\ wrote'[t].version =
               IF row = NoRow THEN snap[t].version + 1 ELSE ConflictVersion(t)
          /\ wrote'[t].epoch = IF LiveAt(row, snap[t].now) THEN row.epoch ELSE 1 + N
      BY <1>4 DEF Upsert, PgTypeOK, Committed
    <3>2. CASE LiveAt(row, snap[t].now)
      <4>1. row.version # 0 /\ row # NoRow
        BY <1>0, <3>2 DEF LiveAt
      <4>2. row.epoch # 0
        BY <4>1 DEF LifeInv
      <4> QED BY <3>1, <3>2, <4>1, <4>2 DEF ConflictVersion
    <3>3. CASE ~LiveAt(row, snap[t].now)
      BY <3>1, <3>3
    <3> QED BY <3>2, <3>3
  <2>4. \A u \in CommittedPuts : u \in Txs \ {t}
    BY <2>2 DEF CommittedPuts
  <2>5. \A u \in Txs : stage'[u] = "ready" => u # t
    BY <2>1 DEF PgTypeOK
  <2> QED BY <2>1, <2>2, <2>3, <2>4, <2>5 DEF LifeInv
<1>5. ASSUME NEW t \in Txs, DeleteRow(t) PROVE LifeInv'
  <2>1. /\ UNCHANGED row /\ stage[t] = "selected" /\ stage' = [stage EXCEPT ![t] = "written"]
        /\ wrote'[t] = NoRow
        /\ \A u \in Txs \ {t} : stage'[u] = stage[u] /\ wrote'[u] = wrote[u]
        /\ Committed' = Committed
    BY <1>5 DEF DeleteRow, Committed, PgTypeOK
  <2>2. CommittedPuts' = CommittedPuts /\ t \notin CommittedPuts
    BY <2>1 DEF CommittedPuts, PgTypeOK
  <2>3. \A u \in CommittedPuts : u \in Txs \ {t}
    BY <2>2 DEF CommittedPuts
  <2>4. \A u \in Txs : stage'[u] = "ready" => u # t
    BY <2>1 DEF PgTypeOK
  <2> QED BY <2>1, <2>2, <2>3, <2>4 DEF LifeInv
<1>6. ASSUME NEW t \in Txs, Commit(t) PROVE LifeInv'
  <2>1. /\ row' = wrote[t] /\ stage[t] = "written" /\ lock = t
        /\ stage' = [stage EXCEPT ![t] = "committed"] /\ UNCHANGED wrote
        /\ \A u \in Txs \ {t} : stage'[u] = stage[u]
    BY <1>6 DEF Commit, CheckedInv, PgTypeOK
  <2>2. Cardinality(Committed') = N + 1
    BY <2>1, CommittedGrows DEF LockInv
  <2>3. \A u \in Txs : stage'[u] # "written"
    BY <2>1 DEF CheckedInv, PgTypeOK
  <2>4. CommittedPuts' \subseteq CommittedPuts \cup {t}
    BY <2>1 DEF CommittedPuts
  <2>5. \/ wrote[t] = NoRow
        \/ wrote[t].epoch = 1 + N
        \/ /\ wrote[t].epoch = row.epoch /\ wrote[t].epoch # 0
           /\ wrote[t].version = row.version + 1
    BY <2>1 DEF LifeInv
  <2>6. row'.epoch <= N + 1 /\ (row'.version # 0 => row'.epoch # 0)
    BY <1>0, <2>1, <2>5 DEF LifeInv
  <2>7. ASSUME NEW u \in CommittedPuts
        PROVE  /\ wrote[u].epoch \in 1..N + 1
               /\ wrote[u].epoch = wrote[t].epoch => wrote[u].version <= wrote[t].version
    <3>1. u \in Txs /\ wrote[u].epoch \in 1..N
          /\ (wrote[u].epoch = row.epoch => wrote[u].version <= row.version)
      BY DEF LifeInv, CommittedPuts
    <3> QED BY <1>0, <2>5, <3>1
  <2>8. t \in CommittedPuts' => wrote[t].epoch \in 1..N + 1
    <3>1. t \in CommittedPuts' => wrote[t] # NoRow
      BY <2>1 DEF CommittedPuts
    <3> QED BY <1>0, <2>5, <3>1 DEF LifeInv
  <2>9. ASSUME NEW u \in CommittedPuts'
        PROVE  /\ wrote'[u].epoch \in 1..Cardinality(Committed')
               /\ wrote'[u].epoch = row'.epoch => wrote'[u].version <= row'.version
    BY <1>0, <2>1, <2>2, <2>4, <2>7, <2>8
  <2>10. \A u \in Txs : stage'[u] = "ready" => wrote'[u] = NoRow
    BY <2>1 DEF LifeInv, PgTypeOK
  <2> QED BY <2>2, <2>3, <2>6, <2>9, <2>10 DEF LifeInv
<1>7. ASSUME NEW t \in Txs, DeleteNow(t) PROVE LifeInv'
  <2>1. /\ row' \in {row, NoRow} /\ stage[t] = "ready" /\ lock = NoTx /\ UNCHANGED wrote
        /\ \A u \in Txs \ {t} : stage'[u] = stage[u]
    BY <1>7 DEF DeleteNow, PgTypeOK
  <2>2. PICK o \in {"committed", "absent"} : stage' = [stage EXCEPT ![t] = o]
    BY <1>7 DEF DeleteNow
  <2>3. Cardinality(Committed') \in {N, N + 1}
    BY <2>1, <2>2, CommittedStays, CommittedGrows DEF LockInv
  <2>4. wrote[t] = NoRow
    BY <2>1 DEF LifeInv
  <2>5. CommittedPuts' = CommittedPuts
    BY <2>1, <2>4 DEF CommittedPuts
  <2>6. \A u \in Txs : stage'[u] # "written"
    BY <2>1, <2>2, KVPostgresAssumption, KVAssumption DEF CheckedInv, PgTypeOK
  <2>7. \A u \in Txs : stage'[u] = "ready" => wrote'[u] = NoRow
    BY <2>1, <2>4 DEF LifeInv
  <2>8. ASSUME NEW u \in CommittedPuts'
        PROVE  /\ wrote'[u].epoch \in 1..Cardinality(Committed')
               /\ wrote'[u].epoch = row'.epoch => wrote'[u].version <= row'.version
    <3>1. u \in Txs /\ wrote[u].epoch \in 1..N
          /\ (wrote[u].epoch = row.epoch => wrote[u].version <= row.version)
      BY <2>5 DEF LifeInv, CommittedPuts
    <3> QED BY <1>0, <2>1, <2>3, <3>1
  <2>9. row'.epoch <= Cardinality(Committed') /\ (row'.version # 0 => row'.epoch # 0)
    BY <1>0, <2>1, <2>3 DEF LifeInv
  <2> QED BY <2>6, <2>7, <2>8, <2>9 DEF LifeInv
<1> QED
  BY <1>1, <1>2, <1>3, <1>4, <1>5, <1>6, <1>7 DEF PgNext, Step

\* Two puts that committed are told apart by the life they wrote in and the
\* version they returned there.
LEMMA DistinctStep ==
  ASSUME PgTypeOK, LockInv, CheckedInv, LifeInv, VersionsAreDistinct, [PgNext]_pgVars
  PROVE  VersionsAreDistinct'
<1> DEFINE N == Cardinality(Committed)
<1>0. /\ N \in Nat /\ row.version \in Nat
      /\ \A u \in Txs : wrote[u].version \in Nat /\ wrote[u].epoch \in Nat
  <2>1. N \in Nat
    BY FS_CardinalityType DEF LockInv
  <2>2. \A u \in Txs : wrote[u] \in Row
    BY DEF PgTypeOK
  <2>3. row \in Row
    BY DEF PgTypeOK
  <2> QED BY <2>1, <2>2, <2>3 DEF Row
<1>1. CASE \E t \in Txs : Commit(t)
  <2>1. PICK t \in Txs : Commit(t)
    BY <1>1
  <2>2. /\ stage[t] = "written" /\ UNCHANGED wrote
        /\ \A u \in Txs \ {t} : stage'[u] = stage[u]
    BY <2>1 DEF Commit, PgTypeOK
  <2>3. CommittedPuts' \subseteq CommittedPuts \cup {t}
    BY <2>2 DEF CommittedPuts
  <2>4. ASSUME NEW u \in CommittedPuts, t \in CommittedPuts'
        PROVE  wrote[u].epoch # wrote[t].epoch \/ wrote[u].version # wrote[t].version
    <3>1. u \in Txs /\ wrote[u].epoch \in 1..N
          /\ (wrote[u].epoch = row.epoch => wrote[u].version <= row.version)
      BY DEF LifeInv, CommittedPuts
    <3>2. wrote[t] # NoRow
      BY <2>2, <2>4 DEF CommittedPuts
    <3>3. \/ wrote[t].epoch = row.epoch /\ wrote[t].version = row.version + 1
          \/ wrote[t].epoch = 1 + N
      BY <2>2, <3>2 DEF LifeInv
    <3> QED BY <1>0, <3>1, <3>3
  <2> QED BY <2>2, <2>3, <2>4 DEF VersionsAreDistinct
<1>2. CASE ~ \E t \in Txs : Commit(t)
  <2>1. ASSUME NEW u \in CommittedPuts' PROVE u \in CommittedPuts /\ wrote'[u] = wrote[u]
    <3>1. u \in Txs /\ stage'[u] = "committed" /\ wrote'[u] # NoRow
      BY DEF CommittedPuts
    <3>2. CASE PgTick \/ Sweep \/ UNCHANGED pgVars
      BY <3>1, <3>2 DEF PgTick, Sweep, pgVars, CommittedPuts
    <3>3. ASSUME NEW t \in Txs, Step(t) \/ Fail(t)
          PROVE  u \in CommittedPuts /\ wrote'[u] = wrote[u]
      <4>1. CASE DeleteNow(t)
        <5>1. wrote[t] = NoRow /\ UNCHANGED wrote
              /\ \A s \in Txs \ {t} : stage'[s] = stage[s]
          BY <4>1 DEF DeleteNow, LifeInv, PgTypeOK
        <5> QED BY <3>1, <5>1 DEF CommittedPuts
      <4>2. CASE ~DeleteNow(t)
        <5>1. stage[t] # "committed" /\ stage'[t] # "committed"
              /\ \A s \in Txs \ {t} : stage'[s] = stage[s] /\ wrote'[s] = wrote[s]
          BY <1>2, <3>3, <4>2
             DEF Step, SelectNone, SelectRow, LockRow, Mismatch, Upsert, DeleteRow,
                 DeleteAbsent, Fail, PgTypeOK
        <5> QED BY <3>1, <5>1 DEF CommittedPuts
      <4> QED BY <4>1, <4>2
    <3> QED BY <3>2, <3>3 DEF PgNext
  <2> QED BY <2>1 DEF VersionsAreDistinct
<1> QED
  BY <1>1, <1>2

\* No increment is lost, however many writers race: also two that both found
\* the key absent, which the comment on nextVersion in Put tells of.
THEOREM NoIncrementLost == PgSpec => []VersionsAreDistinct
<1>1. PgInit => CheckedInv /\ LifeInv /\ VersionsAreDistinct
  <2> SUFFICES ASSUME PgInit PROVE CheckedInv /\ LifeInv /\ VersionsAreDistinct
    OBVIOUS
  <2>1. Committed = {} /\ CommittedPuts = {}
    BY DEF PgInit, Committed, CommittedPuts
  <2>2. Cardinality(Committed) = 0
    BY <2>1, FS_EmptySet
  <2> QED BY <2>1, <2>2 DEF PgInit, CheckedInv, LifeInv, VersionsAreDistinct, NoRow
<1>2. (PgTypeOK /\ LockInv) /\ (CheckedInv /\ LifeInv /\ VersionsAreDistinct)
        /\ [PgNext]_pgVars => (CheckedInv /\ LifeInv /\ VersionsAreDistinct)'
  BY CheckedStep, LifeStep, DistinctStep
<1> QED
  BY <1>1, <1>2, PgTypeCorrect, PTL DEF PgSpec
=============================================================================
