---------------------------- MODULE LeaseMemory ----------------------------
(***************************************************************************)
(* The in-memory lease driver (src/internal/lease/drivers/memory).         *)
(*                                                                         *)
(* Every public method but Acquire is one critical section of d.mu, hence  *)
(* one action.  Acquire is a polling loop around the critical section      *)
(* tryAcquire: the clock is read again, outside the lock, to test the      *)
(* deadline, and the caller then sleeps on a timer or gives up when its    *)
(* context ends.  Other callers and the clock move between those steps.    *)
(*                                                                         *)
(* The driver draws a random holder id for each grant; the ids are taken   *)
(* to be distinct, so the id of a grant is the call that received it.      *)
(* cond.Broadcast wakes nobody (no one waits on the condition), so it does *)
(* not appear.                                                             *)
(***************************************************************************)
EXTENDS Naturals, FiniteSets

CONSTANTS Keys,      \* (namespace, key) pairs
          Calls,     \* the Acquire calls of a behaviour
          NoHolder,  \* holder of a key that has no lease
          TTLs,      \* lease durations callers ask for
          Waits,     \* wait_for values callers ask for, 0 = fail fast
          Poll,      \* Options.PollInterval
          MaxClock   \* bound: the clock stops here

ASSUME LeaseMemoryAssumption ==
  /\ NoHolder \notin Calls
  /\ TTLs \subseteq Nat \ {0}      \* Service.Acquire/Renew refuse ttl <= 0
  /\ Waits \subseteq Nat
  /\ Poll \in Nat \ {0}
  /\ MaxClock \in Nat

VARIABLES clock,     \* d.now()
          leases,    \* d.leases: key -> stored lease
          req,       \* call -> its arguments, fixed for the behaviour
          pc,        \* call -> where its Acquire stands
          deadline,  \* call -> Acquire's local deadline
          wake,      \* call -> when its poll timer fires
          handle     \* call -> expiry last returned to the client, 0 = none

vars == <<clock, leases, req, pc, deadline, wake, handle>>
callVars == <<req, pc, deadline, wake>>

Lease    == [holder : Calls \cup {NoHolder}, expiresAt : Nat]
Absent   == [holder |-> NoHolder, expiresAt |-> 0]
Request  == [key : Keys, ttl : TTLs, wait : Waits]
Returned == {"granted", "alreadyHeld", "cancelled"}
Waiting  == {"trying", "refused", "sleeping"}

Earlier(a, b) == IF a < b THEN a ELSE b

\* cur.ExpiresAt.After(now); an absent entry has expiry 0 and is never live.
Live(k) == leases[k].expiresAt > clock

\* The lease on k is held by this id: the test of Renew.
HeldBy(c, k) == leases[k].holder = c /\ Live(k)

Init ==
  /\ clock = 0
  /\ leases = [k \in Keys |-> Absent]
  /\ req \in [Calls -> Request]
  /\ pc = [c \in Calls |-> "unused"]
  /\ deadline = [c \in Calls |-> 0]
  /\ wake = [c \in Calls |-> 0]
  /\ handle = [c \in Calls |-> 0]

Tick ==
  /\ clock < MaxClock
  /\ clock' = clock + 1
  /\ UNCHANGED <<leases, callVars, handle>>

----------------------------------------------------------------------------
(* Acquire                                                                 *)

\* The call arrives and fixes its deadline.  Calls whose deadline lies
\* beyond the bound of the clock are not started.
Acquire(c) ==
  /\ pc[c] = "unused"
  /\ clock + req[c].wait <= MaxClock
  /\ pc' = [pc EXCEPT ![c] = "trying"]
  /\ deadline' = [deadline EXCEPT ![c] = clock + req[c].wait]
  /\ UNCHANGED <<clock, leases, req, wake, handle>>

\* A plausible error: the expiry of the entry found is not looked at.
TakeEvenIfHeld(c) ==
  LET e == clock + req[c].ttl
  IN /\ pc[c] = "trying"
     /\ pc' = [pc EXCEPT ![c] = "granted"]
     /\ leases' = [leases EXCEPT ![req[c].key] = [holder |-> c, expiresAt |-> e]]
     /\ handle' = [handle EXCEPT ![c] = e]
     /\ UNCHANGED <<clock, req, deadline, wake>>

\* tryAcquire finds no entry or an expired one and installs a fresh lease.
Take(c) ==
  LET k == req[c].key
      e == clock + req[c].ttl
  IN /\ pc[c] = "trying"
     /\ ~Live(k)
     /\ pc' = [pc EXCEPT ![c] = "granted"]
     /\ deadline' = [deadline EXCEPT ![c] = 0]
     /\ leases' = [leases EXCEPT ![k] = [holder |-> c, expiresAt |-> e]]
     /\ handle' = [handle EXCEPT ![c] = e]
     /\ UNCHANGED <<clock, req, wake>>

\* tryAcquire finds a live lease.
Refuse(c) ==
  /\ pc[c] = "trying"
  /\ Live(req[c].key)
  /\ pc' = [pc EXCEPT ![c] = "refused"]
  /\ UNCHANGED <<clock, leases, req, deadline, wake, handle>>

\* Back outside the lock: now is read again and the deadline has come.
GiveUpWaiting(c) ==
  /\ pc[c] = "refused"
  /\ clock >= deadline[c]
  /\ pc' = [pc EXCEPT ![c] = "alreadyHeld"]
  /\ deadline' = [deadline EXCEPT ![c] = 0]
  /\ UNCHANGED <<clock, leases, req, wake, handle>>

\* There is time left: a timer for the poll interval or what remains of it.
Sleep(c) ==
  /\ pc[c] = "refused"
  /\ clock < deadline[c]
  /\ pc' = [pc EXCEPT ![c] = "sleeping"]
  /\ wake' = [wake EXCEPT ![c] = Earlier(clock + Poll, deadline[c])]
  /\ UNCHANGED <<clock, leases, req, deadline, handle>>

\* A plausible error: the loop goes back to sleep instead of trying again.
WakeAndSleepAgain(c) ==
  /\ pc[c] = "sleeping"
  /\ clock >= wake[c]
  /\ wake' = [wake EXCEPT ![c] = clock + Poll]
  /\ UNCHANGED <<clock, leases, req, pc, deadline, handle>>

\* The timer fires and the loop tries again.
Wake(c) ==
  /\ pc[c] = "sleeping"
  /\ clock >= wake[c]
  /\ pc' = [pc EXCEPT ![c] = "trying"]
  /\ wake' = [wake EXCEPT ![c] = 0]
  /\ UNCHANGED <<clock, leases, req, deadline, handle>>

\* The caller's context ends; it is looked at only while sleeping.
Cancel(c) ==
  /\ pc[c] = "sleeping"
  /\ pc' = [pc EXCEPT ![c] = "cancelled"]
  /\ deadline' = [deadline EXCEPT ![c] = 0]
  /\ wake' = [wake EXCEPT ![c] = 0]
  /\ UNCHANGED <<clock, leases, req, handle>>

----------------------------------------------------------------------------
(* Renew and Release, by a client that was given a holder id.  A client    *)
(* told that it does not hold the lease stops using its handle.            *)

\* A plausible error: an expired lease is renewed if nobody took the key yet.
RenewExpired(c, ttl) ==
  LET k == req[c].key
  IN /\ pc[c] = "granted"
     /\ leases[k].holder = c
     /\ leases' = [leases EXCEPT ![k].expiresAt = clock + ttl]
     /\ handle' = [handle EXCEPT ![c] = clock + ttl]
     /\ UNCHANGED <<clock, callVars>>

\* A plausible error: the stored holder id is overwritten, not compared.
RenewAnyHolder(c, ttl) ==
  LET k == req[c].key
  IN /\ pc[c] = "granted"
     /\ Live(k)
     /\ leases' = [leases EXCEPT ![k] = [holder |-> c, expiresAt |-> clock + ttl]]
     /\ handle' = [handle EXCEPT ![c] = clock + ttl]
     /\ UNCHANGED <<clock, callVars>>

\* Renew by the live holder; the new expiry may be earlier than the old one.
Renew(c, ttl) ==
  LET k == req[c].key
  IN /\ pc[c] = "granted"
     /\ HeldBy(c, k)
     /\ leases' = [leases EXCEPT ![k].expiresAt = clock + ttl]
     /\ handle' = [handle EXCEPT ![c] = clock + ttl]
     /\ UNCHANGED <<clock, callVars>>

\* Renew answers ErrNotHeld: no entry, another holder, or expired.
RenewRefused(c) ==
  /\ pc[c] = "granted"
  /\ ~HeldBy(c, req[c].key)
  /\ handle' = [handle EXCEPT ![c] = 0]
  /\ UNCHANGED <<clock, leases, callVars>>

\* A plausible error: whoever asks, the entry is removed.
ReleaseAnyHolder(c) ==
  /\ pc[c] = "granted"
  /\ leases' = [leases EXCEPT ![req[c].key] = Absent]
  /\ handle' = [handle EXCEPT ![c] = 0]
  /\ UNCHANGED <<clock, callVars>>

\* Release finds the caller's entry: removed, whether or not it has expired,
\* and the answer is existed = true.
Release(c) ==
  /\ pc[c] = "granted"
  /\ leases[req[c].key].holder = c
  /\ leases' = [leases EXCEPT ![req[c].key] = Absent]
  /\ handle' = [handle EXCEPT ![c] = 0]
  /\ UNCHANGED <<clock, callVars>>

\* Release answers existed = false (no entry) or ErrNotHeld (another holder).
ReleaseRefused(c) ==
  /\ pc[c] = "granted"
  /\ leases[req[c].key].holder # c
  /\ handle' = [handle EXCEPT ![c] = 0]
  /\ UNCHANGED <<clock, leases, callVars>>

----------------------------------------------------------------------------
(* Reads: one critical section, no effect.                                 *)

Inspect(k) == IF Live(k) THEN leases[k] ELSE Absent

List == {k \in Keys : Live(k)}

----------------------------------------------------------------------------
CallStep(c) == Take(c) \/ Refuse(c) \/ GiveUpWaiting(c) \/ Sleep(c) \/ Wake(c)

Next ==
  \/ Tick
  \/ \E c \in Calls :
       \/ Acquire(c)
       \/ CallStep(c)
       \/ Cancel(c)
       \/ \E ttl \in TTLs : Renew(c, ttl)
       \/ RenewRefused(c)
       \/ Release(c)
       \/ ReleaseRefused(c)

Spec == Init /\ [][Next]_vars

\* Time passes and every Acquire that can take a step takes one: the Go
\* runtime schedules runnable goroutines and fires their timers.  Nothing
\* makes a caller start, renew, release or cancel.
Fairness == WF_vars(Tick) /\ \A c \in Calls : WF_vars(CallStep(c))

FairSpec == Spec /\ Fairness

----------------------------------------------------------------------------
(* Properties                                                              *)

\* Every variable keeps its type; a key without a holder has no expiry left.
TypeOK ==
  /\ clock \in 0..MaxClock
  /\ leases \in [Keys -> Lease]
  /\ \A k \in Keys : leases[k].holder = NoHolder => leases[k] = Absent
  /\ req \in [Calls -> Request]
  /\ pc \in [Calls -> Waiting \cup Returned \cup {"unused"}]
  /\ deadline \in [Calls -> Nat]
  /\ wake \in [Calls -> Nat]
  /\ handle \in [Calls -> Nat]

\* The client of call c may act as the owner of its key: the last expiry it
\* was told has not passed and it has not released.
Owns(c) == handle[c] > clock

\* Mutual exclusion as the clients see it: whatever order acquires, renewals,
\* releases and expiries come in, no two clients hold unexpired handles for
\* the same key (driver.go: "no two acquirers can both succeed").
MutualExclusion ==
  \A c, d \in Calls :
    Owns(c) /\ Owns(d) /\ req[c].key = req[d].key => c = d

\* A client that believes it owns its key is what Inspect and List report,
\* with the very expiry the client was told.
OwnerIsInspectable ==
  \A c \in Calls : Owns(c) =>
    /\ req[c].key \in List
    /\ Inspect(req[c].key) = [holder |-> c, expiresAt |-> handle[c]]

\* Fencing: a holder id that lost its key, by expiry and takeover or by
\* release, never becomes the holder of any key again: no late Renew
\* re-installs it.
LostHolderNeverReturns ==
  [][\A c \in Calls, k \in Keys :
       pc[c] = "granted" /\ leases[k].holder # c => leases'[k].holder # c]_vars

\* A sleeping call wakes no later than its deadline, so wait_for bounds the
\* time a caller is kept (up to scheduling).
NeverSleepsPastDeadline ==
  \A c \in Calls : pc[c] = "sleeping" => wake[c] <= deadline[c]

\* Every Acquire returns: a grant, ErrAlreadyHeld or the context's error.
EveryAcquireReturns ==
  \A c \in Calls : pc[c] \in Waiting ~> pc[c] \in Returned

\* The expiry instants a grant or a renewal can produce.
GrantExpiries == UNION {{t + ttl : ttl \in TTLs} : t \in 0..MaxClock}

\* The driver keeps the contract of the lease block.
Contract == INSTANCE LeaseContract
              WITH issued   <- {c \in Calls : pc[c] = "granted"},
                   Expiries <- GrantExpiries,
                   LosesAnswers <- FALSE

ImplementsContract == Contract!Spec

\* The code does not have this property (see the README).
\* A Release that succeeds ends a live lease: driver.go documents ErrNotHeld
\* as what Renew/Release return when the triple "does not match a live lease
\* (wrong holder, expired, or absent)".
ReleaseEndsALiveLease ==
  [][\A c \in Calls : Release(c) => HeldBy(c, req[c].key)]_vars
=============================================================================
