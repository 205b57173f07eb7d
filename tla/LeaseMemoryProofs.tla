------------------------ MODULE LeaseMemoryProofs ------------------------
(***************************************************************************)
(* The in-memory lease driver keeps mutual exclusion, fencing and the      *)
(* contract of the lease block for any number of keys, callers and ticks.  *)
(***************************************************************************)
EXTENDS LeaseMemory, TLAPS

\* The strengthening that makes mutual exclusion inductive: an unexpired
\* handle is a faithful copy of the entry in the driver's table.
HandleInv ==
  \A c \in Calls : Owns(c) =>
    /\ pc[c] = "granted"
    /\ leases[req[c].key] = [holder |-> c, expiresAt |-> handle[c]]

----------------------------------------------------------------------------
\* The arguments of a call, and the expiry a ttl leads to, have their types.
LEMMA ArgumentTypes ==
  ASSUME TypeOK, NEW c \in Calls, NEW ttl \in TTLs
  PROVE  /\ req[c].key \in Keys /\ req[c].ttl \in TTLs /\ req[c].wait \in Nat
         /\ clock \in Nat /\ clock + ttl \in Nat
<1>1. req[c] \in Request
  BY DEF TypeOK
<1>2. req[c].key \in Keys /\ req[c].ttl \in TTLs /\ req[c].wait \in Waits
  BY <1>1 DEF Request
<1>3. clock \in Nat /\ ttl \in Nat
  BY LeaseMemoryAssumption DEF TypeOK
<1>4. req[c].wait \in Nat
  BY <1>2, LeaseMemoryAssumption
<1>5. clock + ttl \in Nat
  BY <1>3
<1> QED
  BY <1>2, <1>3, <1>4, <1>5

\* The type invariant: no Acquire, Renew, Release or tick leaves the types.
THEOREM TypeCorrect == Spec => []TypeOK
<1> USE LeaseMemoryAssumption DEF Lease, Absent, Request, Returned, Waiting
<1>1. Init => TypeOK
  BY DEF Init, TypeOK
<1>2. TypeOK /\ [Next]_vars => TypeOK'
  <2> SUFFICES ASSUME TypeOK, [Next]_vars PROVE TypeOK'
    OBVIOUS
  <2> USE DEF TypeOK, callVars
  <2>1. CASE Tick
    BY <2>1 DEF Tick
  <2>2. ASSUME NEW c \in Calls, Acquire(c) PROVE TypeOK'
    <3>1. req[c].wait \in Nat
      OBVIOUS
    <3> QED BY <2>2, <3>1 DEF Acquire
  <2>3. ASSUME NEW c \in Calls, Take(c) PROVE TypeOK'
    <3>0. req[c].ttl \in TTLs
      BY ArgumentTypes DEF Take
    <3>1. req[c].key \in Keys /\ clock + req[c].ttl \in Nat
      BY <3>0, ArgumentTypes
    <3>2. leases' \in [Keys -> Lease]
      BY <2>3, <3>1 DEF Take
    <3> QED BY <2>3, <3>1, <3>2 DEF Take
  <2>4. ASSUME NEW c \in Calls, Refuse(c) PROVE TypeOK'
    BY <2>4 DEF Refuse
  <2>5. ASSUME NEW c \in Calls, GiveUpWaiting(c) PROVE TypeOK'
    BY <2>5 DEF GiveUpWaiting
  <2>6. ASSUME NEW c \in Calls, Sleep(c) PROVE TypeOK'
    <3>1. Earlier(clock + Poll, deadline[c]) \in Nat
      BY DEF Earlier
    <3> QED BY <2>6, <3>1 DEF Sleep
  <2>7. ASSUME NEW c \in Calls, Wake(c) PROVE TypeOK'
    BY <2>7 DEF Wake
  <2>8. ASSUME NEW c \in Calls, Cancel(c) PROVE TypeOK'
    BY <2>8 DEF Cancel
  <2>9. ASSUME NEW c \in Calls, NEW ttl \in TTLs, Renew(c, ttl) PROVE TypeOK'
    <3>1. req[c].key \in Keys /\ clock + ttl \in Nat
      OBVIOUS
    <3>2. leases' \in [Keys -> Lease]
      BY <2>9, <3>1 DEF Renew
    <3>3. \A k \in Keys : leases'[k].holder = leases[k].holder
      BY <2>9, <3>1 DEF Renew
    <3>4. ASSUME NEW k \in Keys, leases'[k].holder = NoHolder
          PROVE  leases'[k] = Absent
      <4>1. leases[k].holder # c
        BY <3>3, <3>4
      <4>2. k # req[c].key
        BY <2>9, <4>1 DEF Renew, HeldBy
      <4> QED BY <2>9, <3>1, <3>3, <3>4, <4>2 DEF Renew
    <3> QED BY <2>9, <3>2, <3>4 DEF Renew
  <2>10. ASSUME NEW c \in Calls, RenewRefused(c) PROVE TypeOK'
    BY <2>10 DEF RenewRefused
  <2>11. ASSUME NEW c \in Calls, Release(c) PROVE TypeOK'
    <3>1. req[c].key \in Keys
      OBVIOUS
    <3>2. leases' \in [Keys -> Lease]
      BY <2>11, <3>1 DEF Release
    <3> QED BY <2>11, <3>2 DEF Release
  <2>12. ASSUME NEW c \in Calls, ReleaseRefused(c) PROVE TypeOK'
    BY <2>12 DEF ReleaseRefused
  <2>13. CASE UNCHANGED vars
    BY <2>13 DEF vars
  <2> QED
    BY <2>1, <2>2, <2>3, <2>4, <2>5, <2>6, <2>7, <2>8, <2>9, <2>10, <2>11,
       <2>12, <2>13 DEF Next, CallStep
<1> QED
  BY <1>1, <1>2, PTL DEF Spec

----------------------------------------------------------------------------
\* No step breaks the correspondence of unexpired handles and table entries.
LEMMA HandleInvStep ==
  ASSUME TypeOK, HandleInv, [Next]_vars
  PROVE  HandleInv'
<1> USE LeaseMemoryAssumption DEF TypeOK, HandleInv, Owns, callVars
<1>1. CASE Tick
  BY <1>1 DEF Tick
<1>2. ASSUME NEW c \in Calls, Acquire(c) PROVE HandleInv'
  BY <1>2 DEF Acquire
<1>3. ASSUME NEW c \in Calls, Take(c) PROVE HandleInv'
  <2> DEFINE k == req[c].key
             e == clock + req[c].ttl
  <2>0. req[c].ttl \in TTLs
    BY DEF Request
  <2>1. k \in Keys /\ e \in Nat
    BY <2>0, ArgumentTypes
  <2>2. leases' = [leases EXCEPT ![k] = [holder |-> c, expiresAt |-> e]]
        /\ handle' = [handle EXCEPT ![c] = e]
        /\ pc' = [pc EXCEPT ![c] = "granted"] /\ UNCHANGED <<clock, req>>
        /\ leases[k].expiresAt <= clock
    BY <1>3, <2>1 DEF Take, Live, Lease
  <2>3. SUFFICES ASSUME NEW d \in Calls, handle'[d] > clock'
                 PROVE  /\ pc'[d] = "granted"
                        /\ leases'[req'[d].key]
                             = [holder |-> d, expiresAt |-> handle'[d]]
    OBVIOUS
  <2>4. CASE d = c
    BY <2>1, <2>2, <2>4
  <2>5. CASE d # c
    <3>1. handle[d] > clock
      BY <2>2, <2>3, <2>5
    <3>2. leases[req[d].key] = [holder |-> d, expiresAt |-> handle[d]]
      BY <3>1
    <3>3. leases[req[d].key].expiresAt = handle[d]
      BY <3>2
    <3>4. req[d].key # k
      BY <3>1, <3>3, <2>2
    <3>5. req[d].key \in Keys
      BY DEF Request
    <3> QED BY <2>1, <2>2, <2>5, <3>1, <3>2, <3>4, <3>5
  <2> QED BY <2>4, <2>5
<1>4. ASSUME NEW c \in Calls, Refuse(c) PROVE HandleInv'
  BY <1>4 DEF Refuse
<1>5. ASSUME NEW c \in Calls, GiveUpWaiting(c) PROVE HandleInv'
  BY <1>5 DEF GiveUpWaiting
<1>6. ASSUME NEW c \in Calls, Sleep(c) PROVE HandleInv'
  BY <1>6 DEF Sleep
<1>7. ASSUME NEW c \in Calls, Wake(c) PROVE HandleInv'
  BY <1>7 DEF Wake
<1>8. ASSUME NEW c \in Calls, Cancel(c) PROVE HandleInv'
  BY <1>8 DEF Cancel
<1>9. ASSUME NEW c \in Calls, NEW ttl \in TTLs, Renew(c, ttl) PROVE HandleInv'
  <2> DEFINE k == req[c].key
             e == clock + ttl
  <2>1. k \in Keys /\ e \in Nat
    BY DEF Request
  <2>2. leases' = [leases EXCEPT ![k].expiresAt = e]
        /\ handle' = [handle EXCEPT ![c] = e]
        /\ UNCHANGED <<clock, req, pc>>
        /\ leases[k].holder = c /\ pc[c] = "granted"
    BY <1>9 DEF Renew, HeldBy
  <2>3. leases'[k] = [holder |-> c, expiresAt |-> e]
    BY <2>1, <2>2 DEF Lease
  <2>4. SUFFICES ASSUME NEW d \in Calls, handle'[d] > clock'
                 PROVE  /\ pc'[d] = "granted"
                        /\ leases'[req'[d].key]
                             = [holder |-> d, expiresAt |-> handle'[d]]
    OBVIOUS
  <2>5. CASE d = c
    BY <2>1, <2>2, <2>3, <2>5
  <2>6. CASE d # c
    <3>1. handle[d] > clock /\ req[d].key \in Keys
      BY <2>2, <2>4, <2>6 DEF Request
    <3>2. leases[req[d].key] = [holder |-> d, expiresAt |-> handle[d]]
      BY <3>1
    <3>3. leases[req[d].key].holder = d
      BY <3>2
    <3>4. req[d].key # k
      BY <3>3, <2>2, <2>6
    <3> QED BY <2>1, <2>2, <2>6, <3>1, <3>2, <3>4
  <2> QED BY <2>5, <2>6
<1>10. ASSUME NEW c \in Calls, RenewRefused(c) PROVE HandleInv'
  BY <1>10 DEF RenewRefused
<1>11. ASSUME NEW c \in Calls, Release(c) PROVE HandleInv'
  <2> DEFINE k == req[c].key
  <2>1. k \in Keys
    BY DEF Request
  <2>2. leases' = [leases EXCEPT ![k] = Absent]
        /\ handle' = [handle EXCEPT ![c] = 0]
        /\ UNCHANGED <<clock, req, pc>> /\ leases[k].holder = c
    BY <1>11 DEF Release
  <2>3. SUFFICES ASSUME NEW d \in Calls, handle'[d] > clock'
                 PROVE  /\ pc'[d] = "granted"
                        /\ leases'[req'[d].key]
                             = [holder |-> d, expiresAt |-> handle'[d]]
    OBVIOUS
  <2>4. d # c /\ handle[d] > clock /\ req[d].key \in Keys
    BY <2>2, <2>3 DEF Request
  <2>5. leases[req[d].key] = [holder |-> d, expiresAt |-> handle[d]]
    BY <2>4
  <2>6. leases[req[d].key].holder = d
    BY <2>5
  <2>7. req[d].key # k
    BY <2>4, <2>6, <2>2
  <2> QED BY <2>1, <2>2, <2>4, <2>5, <2>7
<1>12. ASSUME NEW c \in Calls, ReleaseRefused(c) PROVE HandleInv'
  BY <1>12 DEF ReleaseRefused
<1>13. CASE UNCHANGED vars
  BY <1>13 DEF vars
<1> QED
  BY <1>1, <1>2, <1>3, <1>4, <1>5, <1>6, <1>7, <1>8, <1>9, <1>10, <1>11,
     <1>12, <1>13 DEF Next, CallStep

\* The table mirrors every unexpired handle, in every reachable state.
THEOREM HandlesMirrorTable == Spec => []HandleInv
<1>1. Init => HandleInv
  BY DEF Init, HandleInv, Owns
<1>2. TypeOK /\ HandleInv /\ [Next]_vars => HandleInv'
  BY HandleInvStep
<1> QED
  BY <1>1, <1>2, TypeCorrect, PTL DEF Spec

\* No two clients ever hold unexpired handles for the same key.
THEOREM LeaseMutualExclusion == Spec => []MutualExclusion
<1>1. HandleInv => MutualExclusion
  <2> SUFFICES ASSUME HandleInv,
                      NEW c \in Calls, NEW d \in Calls,
                      Owns(c), Owns(d), req[c].key = req[d].key
               PROVE  c = d
    BY DEF MutualExclusion
  <2>1. [holder |-> c, expiresAt |-> handle[c]]
          = [holder |-> d, expiresAt |-> handle[d]]
    BY DEF HandleInv
  <2> QED BY <2>1
<1> QED
  BY <1>1, HandlesMirrorTable, PTL

\* Inspect and List report every client that believes it owns its key.
THEOREM OwnersInspectable == Spec => []OwnerIsInspectable
<1>1. TypeOK /\ HandleInv => OwnerIsInspectable
  BY DEF TypeOK, HandleInv, OwnerIsInspectable, Owns, Inspect, List, Live,
         Request, Lease
<1> QED
  BY <1>1, TypeCorrect, HandlesMirrorTable, PTL

\* wait_for bounds every sleep: the timer of a sleeping call is set for no
\* later than the deadline the call fixed when it arrived.
THEOREM SleepsAreBounded == Spec => []NeverSleepsPastDeadline
<1>1. Init => NeverSleepsPastDeadline
  BY DEF Init, NeverSleepsPastDeadline
<1>2. TypeOK /\ NeverSleepsPastDeadline /\ [Next]_vars => NeverSleepsPastDeadline'
  <2> SUFFICES ASSUME TypeOK, NeverSleepsPastDeadline, [Next]_vars,
                      NEW d \in Calls, pc'[d] = "sleeping"
               PROVE  wake'[d] <= deadline'[d]
    BY DEF NeverSleepsPastDeadline
  <2> USE LeaseMemoryAssumption DEF TypeOK, NeverSleepsPastDeadline
  <2>1. CASE UNCHANGED <<pc, deadline, wake>>
    BY <2>1
  <2>2. ASSUME NEW c \in Calls, Acquire(c) PROVE wake'[d] <= deadline'[d]
    BY <2>2 DEF Acquire
  <2>3. ASSUME NEW c \in Calls, Take(c) \/ Refuse(c) \/ GiveUpWaiting(c)
        PROVE  wake'[d] <= deadline'[d]
    BY <2>3 DEF Take, Refuse, GiveUpWaiting
  <2>4. ASSUME NEW c \in Calls, Sleep(c) PROVE wake'[d] <= deadline'[d]
    <3>1. Earlier(clock + Poll, deadline[c]) <= deadline[c]
      BY DEF Earlier
    <3> QED BY <2>4, <3>1 DEF Sleep
  <2>5. ASSUME NEW c \in Calls, Wake(c) \/ Cancel(c)
        PROVE  wake'[d] <= deadline'[d]
    BY <2>5 DEF Wake, Cancel
  <2> QED
    BY <2>1, <2>2, <2>3, <2>4, <2>5
       DEF Next, CallStep, vars, callVars, Tick, Renew, RenewRefused, Release,
           ReleaseRefused
<1> QED
  BY <1>1, <1>2, TypeCorrect, PTL DEF Spec

----------------------------------------------------------------------------
\* Fencing: once a granted call is not the holder of a key it never is again.
THEOREM Fencing == Spec => LostHolderNeverReturns
<1>1. ASSUME TypeOK, [Next]_vars
      PROVE  [\A c \in Calls, k \in Keys :
                pc[c] = "granted" /\ leases[k].holder # c
                  => leases'[k].holder # c]_vars
  <2> SUFFICES ASSUME Next, NEW c \in Calls, NEW k \in Keys,
                      pc[c] = "granted", leases[k].holder # c
               PROVE  leases'[k].holder # c
    BY <1>1
  <2> USE <1>1, LeaseMemoryAssumption DEF TypeOK, Lease, Request
  <2>1. CASE UNCHANGED leases
    BY <2>1
  <2>2. ASSUME NEW d \in Calls, Take(d) PROVE leases'[k].holder # c
    BY <2>2 DEF Take
  <2>3. ASSUME NEW d \in Calls, NEW ttl \in TTLs, Renew(d, ttl)
        PROVE  leases'[k].holder # c
    BY <2>3 DEF Renew
  <2>4. ASSUME NEW d \in Calls, Release(d) PROVE leases'[k].holder # c
    BY <2>4 DEF Release, Absent
  <2> QED
    BY <2>1, <2>2, <2>3, <2>4 DEF Next, CallStep, Tick, Acquire, Refuse,
       GiveUpWaiting, Sleep, Wake, Cancel, RenewRefused, ReleaseRefused
<1> QED
  BY <1>1, TypeCorrect, PTL DEF Spec, LostHolderNeverReturns

----------------------------------------------------------------------------
\* An expiry computed from the clock and a ttl is one the contract allows.
LEMMA ExpiryInstants ==
  ASSUME clock \in 0..MaxClock, NEW ttl \in TTLs
  PROVE  clock + ttl \in GrantExpiries
BY DEF GrantExpiries

\* Refinement: the polling loop, the deadline and the refusals only stutter
\* in the contract of the lease block; grants, renewals and releases are its
\* Grant, Extend and GiveUp.
THEOREM RefinesContract == Spec => ImplementsContract
<1> DEFINE issued == {c \in Calls : pc[c] = "granted"}
<1>1. Init => Contract!Init
  BY DEF Init, Contract!Init, Absent, Contract!Absent
<1>2. ASSUME TypeOK, HandleInv, [Next]_vars
      PROVE  [Contract!Next]_(Contract!contractVars)
  <2> USE <1>2, LeaseMemoryAssumption
      DEF TypeOK, Contract!contractVars, Contract!Next, callVars
  <2>1. ASSUME Tick PROVE Contract!Next
    BY <2>1 DEF Tick, Contract!Tick
  <2>2. ASSUME NEW c \in Calls, Take(c) PROVE Contract!Next
    <3>1. req[c].key \in Keys /\ req[c].ttl \in TTLs
      BY DEF Request
    <3>2. clock + req[c].ttl \in GrantExpiries
      BY <3>1, ExpiryInstants
    <3>3. c \notin issued /\ issued' = issued \cup {c}
      BY <2>2 DEF Take
    <3>4. PICK k \in Keys, e \in GrantExpiries :
            k = req[c].key /\ e = clock + req[c].ttl
      BY <3>1, <3>2
    <3>5. Contract!Grant(c, k, e)
      BY <2>2, <3>3, <3>4 DEF Take, Live, Contract!Live, Contract!Grant
    <3> QED BY <3>5
  <2>3. ASSUME NEW c \in Calls, NEW ttl \in TTLs, Renew(c, ttl)
        PROVE  Contract!Next
    <3>1. req[c].key \in Keys
      BY DEF Request
    <3>2. clock + ttl \in GrantExpiries
      BY ExpiryInstants
    <3>3. Contract!Extend(c, req[c].key, clock + ttl)
      BY <2>3 DEF Renew, HeldBy, Live, Contract!Live, Contract!Extend
    <3> QED BY <3>1, <3>2, <3>3
  <2>4. ASSUME NEW c \in Calls, Release(c) PROVE Contract!Next
    <3>1. req[c].key \in Keys
      BY DEF Request
    <3>2. Contract!GiveUp(c, req[c].key)
      BY <2>4 DEF Release, Absent, Contract!Absent, Contract!GiveUp
    <3> QED BY <3>1, <3>2
  <2>5. ASSUME NEW c \in Calls, RenewRefused(c) \/ ReleaseRefused(c)
        PROVE  Contract!Next
    <3>1. req[c].key \in Keys
      BY DEF Request
    <3>2. ~Owns(c)
      <4> SUFFICES ASSUME Owns(c) PROVE FALSE
        OBVIOUS
      <4>1. leases[req[c].key] = [holder |-> c, expiresAt |-> handle[c]]
        BY DEF HandleInv
      <4>2. HeldBy(c, req[c].key)
        BY <4>1 DEF HeldBy, Live, Owns
      <4> QED BY <2>5, <4>2 DEF RenewRefused, ReleaseRefused, HeldBy
    <3>3. handle[c] <= clock
      BY <3>2 DEF Owns
    <3>4. Contract!Forget(c)
      BY <2>5, <3>3 DEF RenewRefused, ReleaseRefused, Contract!Forget
    <3> QED BY <3>4
  <2>6. ASSUME NEW c \in Calls,
               \/ Acquire(c) \/ Refuse(c) \/ GiveUpWaiting(c)
               \/ Sleep(c) \/ Wake(c) \/ Cancel(c)
        PROVE  UNCHANGED Contract!contractVars
    <3>1. UNCHANGED <<clock, leases, handle>>
      BY <2>6 DEF Acquire, Refuse, GiveUpWaiting, Sleep, Wake, Cancel
    <3>2. issued' = issued
      BY <2>6 DEF Acquire, Refuse, GiveUpWaiting, Sleep, Wake, Cancel
    <3> QED BY <3>1, <3>2
  <2>7. ASSUME UNCHANGED vars PROVE UNCHANGED Contract!contractVars
    BY <2>7 DEF vars
  <2> HIDE DEF Contract!Next, Contract!contractVars, TypeOK
  <2> QED
    BY <2>1, <2>2, <2>3, <2>4, <2>5, <2>6, <2>7 DEF Next, CallStep
<1> QED
  BY <1>1, <1>2, TypeCorrect, HandlesMirrorTable, PTL
     DEF Spec, ImplementsContract, Contract!Spec
=============================================================================
