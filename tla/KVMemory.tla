------------------------------ MODULE KVMemory ------------------------------
(***************************************************************************)
(* One namespace of the in-memory KV driver (src/internal/kv/drivers/      *)
(* memory), with its access policy.  Put and Delete are one critical       *)
(* section each.  Get is not: it looks the record up under the read lock,  *)
(* tests the expiry of the record it points to without the lock, and takes *)
(* the write lock only to drop an expired record or to record the access,  *)
(* each time after comparing the pointer it holds with the stored one.     *)
(* The sweeper reads the clock before it takes the lock.                   *)
(*                                                                         *)
(* A record object is an index of heap: Put always allocates a new one, so *)
(* pointer equality is equality of indices, and 0 is the nil pointer.      *)
(* Values are not modelled: a record stands for the value it carries.      *)
(* The unlocked read of ExpiresAt races with the write of a sliding Get; it*)
(* yields the old or the new expiry, depending on which comes first.       *)
(* MultiGet is a sequence of Gets.                                         *)
(***************************************************************************)
EXTENDS KV, Sequences, FiniteSetsExt

CONSTANTS Keys,      \* keys, as numbers: ties of heat are broken by key order
          Gets,      \* the Get calls of a behaviour
          Track,     \* AccessPolicy.Track
          SlideTTL,  \* AccessPolicy.SlideTTL, 0 = off
          Capacity,  \* AccessPolicy.Capacity, 0 = off
          MaxPuts    \* bound: successful Puts in a behaviour

ASSUME KVMemoryAssumption ==
  /\ Keys \subseteq Nat
  /\ Track \in BOOLEAN
  /\ SlideTTL \in Nat /\ Capacity \in Nat
  /\ MaxPuts \in Nat

VARIABLES heap,      \* every record object allocated so far
          items,     \* key -> index of the stored record, 0 = no entry
          pc,        \* Get call -> its next step or its outcome
          want,      \* Get call -> the key asked for
          ref,       \* Get call -> the pointer r it looked up
          stamp,     \* Get call -> now read before taking the write lock
          sweeper    \* the sweeper's state, and the now it works with

vars == <<clock, heap, items, pc, want, ref, stamp, sweeper>>
getVars == <<pc, want, ref, stamp>>

\* earliest is not in the code: the earliest expiry the record ever had.
Record == [key : Keys, version : Nat, created : Nat, expires : Nat,
           earliest : Nat, accessed : Nat, count : Nat]

Idle    == [state |-> "idle", now |-> 0]
Stopped == [state |-> "stopped", now |-> 0]
PolicyEnabled == Track \/ SlideTTL > 0 \/ Capacity > 0

\* !ExpiresAt.IsZero() && !ExpiresAt.After(now)
Expired(id, now) == heap[id].expires # 0 /\ heap[id].expires <= now

Init ==
  /\ clock = 1
  /\ heap = <<>>
  /\ items = [k \in Keys |-> 0]
  /\ pc = [g \in Gets |-> "ready"]
  /\ want \in [Gets -> Keys]
  /\ ref = [g \in Gets |-> 0]
  /\ stamp = [g \in Gets |-> 0]
  /\ sweeper = Idle

Tick ==
  /\ clock < MaxClock
  /\ clock' = clock + 1
  /\ UNCHANGED <<heap, items, getVars, sweeper>>

----------------------------------------------------------------------------
(* Get                                                                     *)

\* Under the read lock: the pointer, or ErrNotFound.
GetLookup(g) ==
  /\ pc[g] = "ready"
  /\ ref' = [ref EXCEPT ![g] = items[want[g]]]
  /\ pc' = [pc EXCEPT ![g] = IF items[want[g]] = 0 THEN "notFound" ELSE "found"]
  /\ UNCHANGED <<clock, heap, items, want, stamp, sweeper>>

\* Without a lock: expired, live with nothing to record, or live.
GetTestExpiry(g) ==
  /\ pc[g] = "found"
  /\ pc' = [pc EXCEPT ![g] = IF Expired(ref[g], clock) THEN "expired"
                             ELSE IF PolicyEnabled THEN "live" ELSE "plain"]
  /\ UNCHANGED <<clock, heap, items, want, ref, stamp, sweeper>>

\* A plausible error: the entry under the key is dropped, whichever it is.
GetDropByKey(g) ==
  /\ pc[g] = "expired"
  /\ items' = [items EXCEPT ![want[g]] = 0]
  /\ pc' = [pc EXCEPT ![g] = "notFound"]
  /\ UNCHANGED <<clock, heap, want, ref, stamp, sweeper>>

\* Lazy expiry under the write lock; the answer is ErrNotFound in any case.
GetDropExpired(g) ==
  /\ pc[g] = "expired"
  /\ items' = [items EXCEPT ![want[g]] = IF @ = ref[g] THEN 0 ELSE @]
  /\ pc' = [pc EXCEPT ![g] = "notFound"]
  /\ ref' = [ref EXCEPT ![g] = 0]
  /\ UNCHANGED <<clock, heap, want, stamp, sweeper>>

\* now := d.now(), before the write lock is requested.
GetStamp(g) ==
  /\ pc[g] = "live"
  /\ stamp' = [stamp EXCEPT ![g] = clock]
  /\ pc' = [pc EXCEPT ![g] = "touching"]
  /\ UNCHANGED <<clock, heap, items, want, ref, sweeper>>

\* The record after an access at time now.
Touched(r, now) ==
  LET slid == IF SlideTTL > 0 /\ r.expires # 0 THEN now + SlideTTL ELSE r.expires
  IN [r EXCEPT !.count = IF Track THEN @ + 1 ELSE @,
               !.accessed = IF Track THEN now ELSE @,
               !.expires = slid,
               !.earliest = IF slid < @ THEN slid ELSE @]

\* A plausible error: the access is recorded on whatever the key holds now.
GetTouchByKey(g) ==
  LET id == items[want[g]]
  IN /\ pc[g] = "touching"
     /\ IF id # 0
        THEN /\ heap' = [heap EXCEPT ![id] = Touched(@, stamp[g])]
             /\ pc' = [pc EXCEPT ![g] = "touched"]
        ELSE /\ pc' = [pc EXCEPT ![g] = "plain"]
             /\ UNCHANGED heap
     /\ UNCHANGED <<clock, items, want, ref, stamp, sweeper>>

\* Under the write lock: the access is recorded if the entry is still the
\* record looked up; the record looked up is returned either way.
GetTouch(g) ==
  /\ pc[g] = "touching"
  /\ IF items[want[g]] = ref[g]
     THEN /\ heap' = [heap EXCEPT ![ref[g]] = Touched(@, stamp[g])]
          /\ pc' = [pc EXCEPT ![g] = "touched"]
     ELSE /\ pc' = [pc EXCEPT ![g] = "plain"]
          /\ UNCHANGED heap
  /\ stamp' = [stamp EXCEPT ![g] = 0]
  /\ UNCHANGED <<clock, items, want, ref, sweeper>>

----------------------------------------------------------------------------
(* Put and Delete                                                          *)

\* The entry Put and Delete see once an expired one has been dropped.
LiveEntry(k) == IF items[k] # 0 /\ Expired(items[k], clock) THEN 0 ELSE items[k]

CurrentVersion(k) == IF LiveEntry(k) = 0 THEN 0 ELSE heap[LiveEntry(k)].version

\* access_count * 2^(-age/half_life), scaled to an integer, for a half-life
\* of one tick.
Heat(id) ==
  LET r    == heap[id]
      last == IF r.accessed = 0 THEN r.created ELSE r.accessed
      age  == IF clock < last THEN 0 ELSE clock - last
  IN r.count * 2^(MaxClock - age)

Colder(j, k) ==
  \/ Heat(items[j]) < Heat(items[k])
  \/ Heat(items[j]) = Heat(items[k]) /\ j < k

\* A plausible error: the entry just written is not counted.
EvictOneTooFew(k) ==
  LET cands == {j \in Keys \ {k} : items[j] # 0}
      over  == Cardinality(cands) - Capacity
  IN IF Capacity = 0 \/ over <= 0 THEN {}
     ELSE CHOOSE V \in kSubset(Min({over, Cardinality(cands)}), cands) :
            \A v \in V, w \in cands \ V : Colder(v, w)

\* The keys to evict when k has just been written: the coldest others, as
\* many as the namespace is over its capacity.
EvictColdest(k) ==
  LET cands == {j \in Keys \ {k} : items[j] # 0}
      over  == Cardinality(cands) + 1 - Capacity
  IN IF Capacity = 0 \/ over <= 0 THEN {}
     ELSE CHOOSE V \in kSubset(Min({over, Cardinality(cands)}), cands) :
            \A v \in V, w \in cands \ V : Colder(v, w)

Put(k, ttl, ifVersion) ==
  LET old     == LiveEntry(k)
      expires == IF ttl = 0 THEN 0 ELSE clock + ttl
      victims == EvictColdest(k)
  IN /\ Len(heap) < MaxPuts
     /\ ifVersion \in {Any, CurrentVersion(k)}
     /\ heap' = Append(heap,
          [key |-> k, version |-> CurrentVersion(k) + 1,
           created |-> IF old = 0 THEN clock ELSE heap[old].created,
           expires |-> expires, earliest |-> expires,
           accessed |-> 0, count |-> 0])
     /\ items' = [j \in Keys |-> IF j = k THEN Len(heap) + 1
                                 ELSE IF j \in victims THEN 0 ELSE items[j]]
     /\ UNCHANGED <<clock, getVars, sweeper>>

Delete(k, ifVersion) ==
  /\ ifVersion \in {Any, CurrentVersion(k)}
  /\ items' = [items EXCEPT ![k] = 0]
  /\ UNCHANGED <<clock, heap, getVars, sweeper>>

\* ErrVersionMismatch from Put or Delete; an expired entry is gone all the same.
VersionMismatch(k, ifVersion) ==
  /\ ifVersion \notin {Any, CurrentVersion(k)}
  /\ items' = [items EXCEPT ![k] = LiveEntry(k)]
  /\ UNCHANGED <<clock, heap, getVars, sweeper>>

----------------------------------------------------------------------------
(* The sweeper                                                             *)

SweepStart ==
  /\ sweeper = Idle
  /\ sweeper' = [state |-> "sweeping", now |-> clock]
  /\ UNCHANGED <<clock, heap, items, getVars>>

\* A plausible error: an entry that expires at this very instant is kept, and
\* only strictly older ones go.
SweepStrictlyOlder ==
  /\ sweeper.state = "sweeping"
  /\ items' = [k \in Keys |->
       IF items[k] # 0 /\ Expired(items[k], sweeper.now - 1) THEN 0 ELSE items[k]]
  /\ sweeper' = Idle
  /\ UNCHANGED <<clock, heap, getVars>>

SweepExpired ==
  /\ sweeper.state = "sweeping"
  /\ items' = [k \in Keys |->
       IF items[k] # 0 /\ Expired(items[k], sweeper.now) THEN 0 ELSE items[k]]
  /\ sweeper' = Idle
  /\ UNCHANGED <<clock, heap, getVars>>

\* Close stops the sweeper and waits for a sweep under way.
Close ==
  /\ sweeper = Idle
  /\ sweeper' = Stopped
  /\ UNCHANGED <<clock, heap, items, getVars>>

----------------------------------------------------------------------------
Next ==
  \/ Tick
  \/ \E g \in Gets :
       \/ GetLookup(g) \/ GetTestExpiry(g) \/ GetDropExpired(g)
       \/ GetStamp(g) \/ GetTouch(g)
  \/ \E k \in Keys, ifVersion \in {Any} \cup 0..MaxPuts :
       \/ \E ttl \in TTLs : Put(k, ttl, ifVersion)
       \/ Delete(k, ifVersion)
       \/ VersionMismatch(k, ifVersion)
  \/ SweepStart
  \/ SweepExpired
  \/ Close

Spec == Init /\ [][Next]_vars

\* Time passes and the sweeper's ticker keeps firing until Close.
FairSpec == Spec /\ WF_vars(Tick) /\ WF_vars(SweepStart) /\ WF_vars(SweepExpired)

----------------------------------------------------------------------------
(* Properties                                                              *)

\* Every variable keeps its type, an entry points to a record of its key, and
\* a record has an access time exactly when it has been accessed.
TypeOK ==
  /\ clock \in 1..MaxClock
  /\ heap \in Seq(Record) /\ Len(heap) <= MaxPuts
  /\ \A id \in DOMAIN heap : heap[id].accessed = 0 <=> heap[id].count = 0
  /\ items \in [Keys -> 0..Len(heap)]
  /\ \A k \in Keys : items[k] # 0 => heap[items[k]].key = k
  /\ pc \in [Gets -> {"ready", "found", "expired", "live", "touching",
                      "notFound", "plain", "touched"}]
  /\ want \in [Gets -> Keys]
  /\ ref \in [Gets -> 0..Len(heap)]
  /\ stamp \in [Gets -> 0..MaxClock]
  /\ sweeper \in [state : {"idle", "sweeping", "stopped"}, now : 0..MaxClock]

\* The entries that leave items in this step.
Removed == {items[k] : k \in {j \in Keys : items[j] # 0 /\ items'[j] = 0}}

\* Neither a Get that saw an expired record nor the sweeper ever removes a
\* record before the earliest expiry that record had: a value written after
\* the stale observation survives it, whatever runs in between.
ExpiryNeverHitsFreshRecord ==
  [][(SweepExpired \/ \E g \in Gets : GetDropExpired(g)) =>
        \A id \in Removed : heap[id].earliest \in 1..clock]_vars

\* The access count of a record is the number of Gets that returned a
\* snapshot of that very record: no access is lost or booked on a successor.
AccessCountExact ==
  Track => \A id \in DOMAIN heap :
    heap[id].count = Cardinality({g \in Gets : pc[g] = "touched" /\ ref[g] = id})

\* A namespace with a capacity never holds more entries than that, although
\* reads, sweeps and deletes run between the Puts that enforce it.
CapacityHeld ==
  Capacity > 0 => Cardinality({k \in Keys : items[k] # 0}) <= Capacity

\* Until Close, an expired record does not keep its place: it is swept, read
\* away, replaced or slid to a later expiry.
ExpiredIsReclaimed ==
  \A id \in 1..MaxPuts :
    (id \in DOMAIN heap /\ \E k \in Keys : items[k] = id /\ Expired(id, clock))
      ~> \/ sweeper = Stopped
         \/ \A k \in Keys : items[k] # id
         \/ ~Expired(id, clock)

\* The code does not have this property (see the README).
\* driver.go: SlideTTL "extends a TTL'd record's expiry to now+SlideTTL on
\* each Get": a record whose expiry lies ahead is not dropped as expired.
SlidRecordIsKept ==
  [][(SweepExpired \/ \E g \in Gets : GetDropExpired(g)) =>
        \A id \in Removed : Expired(id, clock)]_vars
=============================================================================
