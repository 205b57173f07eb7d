--------------------------- MODULE LeaseContract ---------------------------
(***************************************************************************)
(* What every driver of the lease block promises its callers               *)
(* (src/internal/lease/driver.go).  A lease on a key is granted to one     *)
(* Acquire call; the holder id of the grant is the identity of that call.  *)
(* The grant names an expiry, the holder may move it by renewing while the *)
(* lease is live, and nobody else gets the key before that expiry unless   *)
(* the holder gives it up.  How a driver waits, polls and refuses is left  *)
(* to the drivers.                                                         *)
(***************************************************************************)
EXTENDS Naturals

CONSTANTS Keys,      \* (namespace, key) pairs
          Calls,     \* Acquire calls; a granted call is its own holder id
          NoHolder,  \* the holder of a key that has no lease, not a call
          Expiries,  \* the expiry instants a driver may grant
          LosesAnswers \* TRUE: a Renew or Release that returns an error may
                       \* have taken effect

VARIABLES clock,     \* the clock every expiry is compared with
          leases,    \* key -> the lease the driver stores
          handle,    \* call -> until when its client counts on the lease
          issued     \* the calls that were granted a lease

contractVars == <<clock, leases, handle, issued>>

Absent == [holder |-> NoHolder, expiresAt |-> 0]

\* The lease on k is unexpired: ExpiresAt.After(now).
Live(k) == leases[k].expiresAt > clock

Init ==
  /\ clock = 0
  /\ leases = [k \in Keys |-> Absent]
  /\ handle = [c \in Calls |-> 0]
  /\ issued = {}

\* A key without a live lease is granted to a call that has none yet.
Grant(c, k, e) ==
  /\ c \notin issued
  /\ ~Live(k)
  /\ leases' = [leases EXCEPT ![k] = [holder |-> c, expiresAt |-> e]]
  /\ handle' = [handle EXCEPT ![c] = e]
  /\ issued' = issued \cup {c}
  /\ UNCHANGED clock

\* The live holder moves its own expiry.
Extend(c, k, e) ==
  /\ leases[k].holder = c
  /\ Live(k)
  /\ leases' = [leases EXCEPT ![k].expiresAt = e]
  /\ handle' = [handle EXCEPT ![c] = e]
  /\ UNCHANGED <<clock, issued>>

\* The holder's expiry moves without its being told, and not below what it
\* counts on.
ExtendUnheard(c, k, e) ==
  /\ LosesAnswers
  /\ leases[k].holder = c
  /\ Live(k)
  /\ handle[c] <= e
  /\ leases' = [leases EXCEPT ![k].expiresAt = e]
  /\ UNCHANGED <<clock, handle, issued>>

\* A client that may not hear the answer counts on less before it asks.
CountOnLess(c, e) ==
  /\ LosesAnswers
  /\ e < handle[c]
  /\ handle' = [handle EXCEPT ![c] = e]
  /\ UNCHANGED <<clock, leases, issued>>

\* The holder, live or not, gives the key back.
GiveUp(c, k) ==
  /\ leases[k].holder = c
  /\ leases' = [leases EXCEPT ![k] = Absent]
  /\ handle' = [handle EXCEPT ![c] = 0]
  /\ UNCHANGED <<clock, issued>>

\* A client told that it holds nothing forgets a handle that has run out.
Forget(c) ==
  /\ handle[c] <= clock
  /\ handle' = [handle EXCEPT ![c] = 0]
  /\ UNCHANGED <<clock, leases, issued>>

Tick ==
  /\ clock' = clock + 1
  /\ UNCHANGED <<leases, handle, issued>>

Next ==
  \/ Tick
  \/ \E c \in Calls : Forget(c) \/ \E e \in Expiries \cup {0} : CountOnLess(c, e)
  \/ \E c \in Calls, k \in Keys :
       \/ GiveUp(c, k)
       \/ \E e \in Expiries : Grant(c, k, e) \/ Extend(c, k, e) \/ ExtendUnheard(c, k, e)

Spec == Init /\ [][Next]_contractVars
=============================================================================
