------------------------ MODULE LeasePostgresProofs ------------------------
(***************************************************************************)
(* The PostgreSQL lease driver keeps mutual exclusion and the contract of  *)
(* the lease block for any number of sidecars, callers, keys and ticks,    *)
(* with statements delayed, failing or answered to nobody.                 *)
(***************************************************************************)
EXTENDS LeasePostgres, TLAPS

\* The row of its key outlasts an unexpired handle.
Mirrored(c) ==
  /\ pc[c] \in Issued
  /\ leases[req[c].key].holder = c
  /\ handle[c] <= leases[req[c].key].expiresAt

HandleInv == \A c \in Calls : Owns(c) => Mirrored(c)

\* A client whose Renew is under way counts on no more than it asked for, and
\* one that has called Release on nothing.
AskedInv ==
  \A c \in Calls :
    /\ pc[c] = "renewing" => handle[c] <= sent[c]
    /\ pc[c] \in {"probing", "deleting"} => handle[c] = 0

\* A row is held by a call that was granted it, and while the row is live it
\* does not expire before what that call's client counts on.
RowInv ==
  \A k \in Keys, c \in Calls : leases[k].holder = c =>
    /\ pc[c] \in Issued
    /\ req[c].key = k
    /\ Live(k) => handle[c] <= leases[k].expiresAt

\* A statement under way carries an expiry that some clock reading led to.
SentInv ==
  \A c \in Calls : pc[c] \in {"sent", "renewing"} => sent[c] \in GrantExpiries

----------------------------------------------------------------------------
\* The arguments of a call, and the expiry a ttl leads to, have their types.
LEMMA ArgumentTypes ==
  ASSUME TypeOK, NEW c \in Calls
  PROVE  /\ req[c].key \in Keys /\ req[c].ttl \in TTLs /\ req[c].wait \in Nat
         /\ clock \in Nat
         /\ \A ttl \in TTLs : clock + ttl \in Nat /\ clock + ttl \in GrantExpiries
<1>1. req[c] \in Request
  BY DEF TypeOK
<1>2. req[c].key \in Keys /\ req[c].ttl \in TTLs /\ req[c].wait \in Waits
  BY <1>1 DEF Request
<1>3. clock \in 0..MaxClock /\ clock \in Nat
  BY LeasePostgresAssumption DEF TypeOK
<1>4. req[c].wait \in Nat
  BY <1>2, LeasePostgresAssumption
<1>5. ASSUME NEW ttl \in TTLs
      PROVE  clock + ttl \in Nat /\ clock + ttl \in GrantExpiries
  BY <1>3, LeasePostgresAssumption DEF GrantExpiries
<1> QED
  BY <1>2, <1>3, <1>4, <1>5

\* The type invariant: no statement, timer or tick leaves the types.
THEOREM TypeCorrect == Spec => []TypeOK
<1> USE LeasePostgresAssumption DEF Row, Absent, Acquiring, Issued, Returned
<1>1. Init => TypeOK
  BY DEF Init, TypeOK
<1>2. TypeOK /\ [Next]_vars => TypeOK'
  <2> SUFFICES ASSUME TypeOK, [Next]_vars PROVE TypeOK'
    OBVIOUS
  <2>0. \A c \in Calls : /\ req[c].key \in Keys /\ req[c].ttl \in TTLs
                         /\ req[c].wait \in Nat
                         /\ \A ttl \in TTLs : clock + ttl \in Nat
    BY ArgumentTypes
  <2> USE DEF TypeOK
  <2>1. CASE Tick
    BY <2>1 DEF Tick
  <2>2. ASSUME NEW c \in Calls, Acquire(c) PROVE TypeOK'
    BY <2>0, <2>2 DEF Acquire
  <2>3. ASSUME NEW c \in Calls, SendInsert(c) PROVE TypeOK'
    BY <2>0, <2>3 DEF SendInsert
  <2>4. ASSUME NEW c \in Calls, NEW o \in {"granted", "lost"}, InsertTakes(c, o)
        PROVE  TypeOK'
    <3>1. leases' \in [Keys -> Row]
      BY <2>0, <2>4 DEF InsertTakes
    <3>2. \A k \in Keys : leases'[k].holder = NoHolder => leases'[k] = Absent
      BY <2>0, <2>4 DEF InsertTakes
    <3> QED BY <2>4, <3>1, <3>2 DEF InsertTakes
  <2>5. ASSUME NEW c \in Calls,
               InsertRefused(c) \/ InsertFails(c) \/ GiveUpWaiting(c)
        PROVE  TypeOK'
    BY <2>5 DEF InsertRefused, InsertFails, GiveUpWaiting
  <2>6. ASSUME NEW c \in Calls, Sleep(c) PROVE TypeOK'
    <3>1. Earlier(clock + Poll, deadline[c]) \in Nat
      BY DEF Earlier
    <3> QED BY <2>6, <3>1 DEF Sleep
  <2>7. ASSUME NEW c \in Calls, Wake(c) \/ Cancel(c) PROVE TypeOK'
    BY <2>7 DEF Wake, Cancel
  <2>8. ASSUME NEW c \in Calls, NEW ttl \in TTLs, SendUpdate(c, ttl) PROVE TypeOK'
    <3>1. Earlier(handle[c], clock + ttl) \in Nat
      BY <2>0 DEF Earlier
    <3> QED BY <2>0, <2>8, <3>1 DEF SendUpdate
  <2>9. ASSUME NEW c \in Calls, NEW a \in BOOLEAN, UpdateHits(c, a) PROVE TypeOK'
    <3>1. leases' \in [Keys -> Row]
      BY <2>0, <2>9 DEF UpdateHits
    <3>2. ASSUME NEW k \in Keys, leases'[k].holder = NoHolder
          PROVE  leases'[k] = Absent
      <4>1. leases'[k].holder = leases[k].holder
        BY <2>0, <2>9 DEF UpdateHits
      <4>2. k # req[c].key
        BY <2>9, <3>2, <4>1 DEF UpdateHits, HeldBy
      <4> QED BY <2>0, <2>9, <3>2, <4>1, <4>2 DEF UpdateHits
    <3> QED BY <2>9, <3>1, <3>2 DEF UpdateHits
  <2>10. ASSUME NEW c \in Calls,
                UpdateMisses(c) \/ SendProbe(c) \/ ProbeHits(c) \/ ProbeMisses(c)
         PROVE  TypeOK'
    BY <2>10 DEF UpdateMisses, SendProbe, ProbeHits, ProbeMisses
  <2>11. ASSUME NEW c \in Calls, DeleteOwn(c) PROVE TypeOK'
    <3>1. leases' \in [Keys -> Row]
      BY <2>0, <2>11 DEF DeleteOwn
    <3>2. \A k \in Keys : leases'[k].holder = NoHolder => leases'[k] = Absent
      BY <2>0, <2>11 DEF DeleteOwn
    <3> QED BY <2>11, <3>1, <3>2 DEF DeleteOwn
  <2>12. ASSUME NEW c \in Calls, StatementFails(c) PROVE TypeOK'
    BY <2>12 DEF StatementFails
  <2>13. CASE UNCHANGED vars
    BY <2>13 DEF vars
  <2> HIDE DEF TypeOK
  <2> QED
    BY <2>1, <2>2, <2>3, <2>4, <2>5, <2>6, <2>7, <2>8, <2>9, <2>10, <2>11,
       <2>12, <2>13 DEF Next, AcquireStep, HolderStep
<1> QED
  BY <1>1, <1>2, PTL DEF Spec

----------------------------------------------------------------------------
\* Steps that leave the table alone, promise nobody more and keep granted calls
\* granted, keep the correspondence of handles and rows.
LEMMA QuietStep ==
  ASSUME TypeOK, TypeOK', HandleInv, RowInv, UNCHANGED <<clock, leases, req>>,
         \A d \in Calls : handle'[d] <= handle[d],
         \A d \in Calls : pc[d] \in Issued => pc'[d] \in Issued
  PROVE  HandleInv' /\ RowInv'
<1>0. /\ clock \in Nat
      /\ \A d \in Calls : handle[d] \in Nat /\ handle'[d] \in Nat
      /\ \A k \in Keys : leases[k].expiresAt \in Nat
      /\ \A d \in Calls : req[d].key \in Keys
  BY ArgumentTypes, LeasePostgresAssumption DEF TypeOK, Row
<1>1. \A d \in Calls : Owns(d)' => Owns(d)
  BY <1>0 DEF Owns
<1>2. HandleInv'
  BY <1>0, <1>1 DEF HandleInv, Mirrored
<1>3. RowInv'
  BY <1>0 DEF RowInv, Live
<1> QED
  BY <1>2, <1>3

\* Only the client's own call changes what it has asked for.
LEMMA AskedStep ==
  ASSUME TypeOK, AskedInv, [Next]_vars
  PROVE  AskedInv'
<1>0. /\ clock \in Nat
      /\ \A c \in Calls : handle[c] \in Nat /\ sent[c] \in Nat
      /\ \A ttl \in TTLs : clock + ttl \in Nat
  BY LeasePostgresAssumption DEF TypeOK
<1>1. CASE Tick \/ UNCHANGED vars
  BY <1>1 DEF Tick, vars, AskedInv
<1>2. ASSUME NEW c \in Calls,
             \/ Acquire(c) \/ SendInsert(c) \/ InsertRefused(c) \/ InsertFails(c)
             \/ \E o \in {"granted", "lost"} : InsertTakes(c, o)
             \/ GiveUpWaiting(c) \/ Sleep(c) \/ Wake(c) \/ Cancel(c)
             \/ \E a \in BOOLEAN : UpdateHits(c, a)
             \/ UpdateMisses(c) \/ ProbeMisses(c) \/ DeleteOwn(c) \/ StatementFails(c)
      PROVE  AskedInv'
  <2>1. pc'[c] \notin {"renewing", "probing", "deleting"}
    BY <1>2 DEF Acquire, SendInsert, InsertRefused, InsertFails, InsertTakes,
       GiveUpWaiting, Sleep, Wake, Cancel, UpdateHits, UpdateMisses, ProbeMisses,
       DeleteOwn, StatementFails, TypeOK
  <2>2. \A d \in Calls \ {c} :
          pc'[d] = pc[d] /\ sent'[d] = sent[d] /\ handle'[d] = handle[d]
    BY <1>2 DEF Acquire, SendInsert, InsertRefused, InsertFails, InsertTakes,
       GiveUpWaiting, Sleep, Wake, Cancel, UpdateHits, UpdateMisses, ProbeMisses,
       DeleteOwn, StatementFails, TypeOK
  <2> QED BY <2>1, <2>2 DEF AskedInv
<1>3. ASSUME NEW c \in Calls, NEW ttl \in TTLs, SendUpdate(c, ttl)
      PROVE  AskedInv'
  <2>1. pc'[c] = "renewing" /\ handle'[c] <= sent'[c]
    BY <1>0, <1>3 DEF SendUpdate, Earlier, TypeOK
  <2>2. \A d \in Calls \ {c} :
          pc'[d] = pc[d] /\ sent'[d] = sent[d] /\ handle'[d] = handle[d]
    BY <1>3 DEF SendUpdate, TypeOK
  <2> QED BY <2>1, <2>2 DEF AskedInv
<1>4. ASSUME NEW c \in Calls, SendProbe(c) \/ ProbeHits(c)
      PROVE  AskedInv'
  <2>1. pc'[c] \in {"probing", "deleting"} /\ handle'[c] = 0
    BY <1>4 DEF SendProbe, ProbeHits, TypeOK, AskedInv
  <2>2. \A d \in Calls \ {c} :
          pc'[d] = pc[d] /\ sent'[d] = sent[d] /\ handle'[d] = handle[d]
    BY <1>4 DEF SendProbe, ProbeHits, TypeOK
  <2> QED BY <2>1, <2>2 DEF AskedInv
<1> QED
  BY <1>1, <1>2, <1>3, <1>4 DEF Next, AcquireStep, HolderStep

\* No step breaks the correspondence of handles and rows.
LEMMA TableStep ==
  ASSUME TypeOK, TypeOK', HandleInv, AskedInv, RowInv, [Next]_vars
  PROVE  HandleInv' /\ RowInv'
<1>0. /\ clock \in Nat
      /\ \A c \in Calls : req[c].key \in Keys
      /\ \A c \in Calls : handle[c] \in Nat /\ sent[c] \in Nat
      /\ \A k \in Keys : leases[k] \in Row /\ leases[k].expiresAt \in Nat
  BY ArgumentTypes, LeasePostgresAssumption DEF TypeOK, Row
<1>1. CASE Tick
  <2>1. clock' = clock + 1 /\ UNCHANGED <<leases, req, pc, handle>>
    BY <1>1 DEF Tick
  <2>2. \A k \in Keys : Live(k)' => Live(k)
    BY <1>0, <2>1 DEF Live
  <2>3. \A c \in Calls : Owns(c)' => Owns(c)
    BY <1>0, <2>1 DEF Owns
  <2> QED BY <2>1, <2>2, <2>3 DEF HandleInv, Mirrored, RowInv
<1>2. ASSUME NEW c \in Calls,
             \/ Acquire(c) \/ SendInsert(c) \/ InsertRefused(c) \/ InsertFails(c)
             \/ GiveUpWaiting(c) \/ Sleep(c) \/ Wake(c) \/ Cancel(c)
      PROVE  HandleInv' /\ RowInv'
  <2>1. UNCHANGED <<clock, leases, req, handle>>
    BY <1>2 DEF Acquire, SendInsert, InsertRefused, InsertFails, GiveUpWaiting,
                Sleep, Wake, Cancel
  <2>2. pc[c] \notin Issued /\ \A d \in Calls \ {c} : pc'[d] = pc[d]
    BY <1>2 DEF Acquire, SendInsert, InsertRefused, InsertFails, GiveUpWaiting,
                Sleep, Wake, Cancel, Issued, TypeOK
  <2>3. \A d \in Calls : handle'[d] <= handle[d]
    BY <1>0, <2>1
  <2> QED BY <2>1, <2>2, <2>3, QuietStep
<1>3. ASSUME NEW c \in Calls,
             \/ \E ttl \in TTLs : SendUpdate(c, ttl)
             \/ UpdateMisses(c) \/ SendProbe(c) \/ ProbeHits(c) \/ ProbeMisses(c)
             \/ StatementFails(c)
      PROVE  HandleInv' /\ RowInv'
  <2>1. UNCHANGED <<clock, leases, req>>
    BY <1>3 DEF SendUpdate, UpdateMisses, SendProbe, ProbeHits, ProbeMisses,
                StatementFails
  <2>2. pc'[c] \in Issued /\ \A d \in Calls \ {c} : pc'[d] = pc[d]
    BY <1>3 DEF SendUpdate, UpdateMisses, SendProbe, ProbeHits, ProbeMisses,
                StatementFails, Issued, TypeOK
  <2>3. \A d \in Calls : handle'[d] <= handle[d]
    <3>1. CASE \E ttl \in TTLs : SendUpdate(c, ttl)
      <4>1. PICK ttl \in TTLs : SendUpdate(c, ttl)
        BY <3>1
      <4>2. clock + ttl \in Nat
        BY <1>0, LeasePostgresAssumption
      <4>3. handle' = [handle EXCEPT ![c] = Earlier(handle[c], clock + ttl)]
        BY <4>1 DEF SendUpdate
      <4> QED BY <1>0, <4>2, <4>3 DEF Earlier, TypeOK
    <3>2. CASE UpdateMisses(c) \/ SendProbe(c)
      BY <1>0, <3>2 DEF UpdateMisses, SendProbe, TypeOK
    <3>3. CASE ProbeHits(c) \/ ProbeMisses(c) \/ StatementFails(c)
      BY <1>0, <3>3 DEF ProbeHits, ProbeMisses, StatementFails
    <3> QED BY <1>3, <3>1, <3>2, <3>3
  <2> QED BY <2>1, <2>2, <2>3, QuietStep
<1>4. ASSUME NEW c \in Calls, NEW o \in {"granted", "lost"}, InsertTakes(c, o)
      PROVE  HandleInv' /\ RowInv'
  <2> DEFINE k == req[c].key
             e == sent[c]
  <2>1. k \in Keys /\ e \in Nat
    BY <1>0
  <2>2. /\ leases' = [leases EXCEPT ![k] = [holder |-> c, expiresAt |-> e]]
        /\ handle' = [handle EXCEPT ![c] = e]
        /\ pc' = [pc EXCEPT ![c] = o]
        /\ UNCHANGED <<clock, req>> /\ ~Live(k) /\ pc[c] = "sent"
    BY <1>4 DEF InsertTakes
  <2>3. pc'[c] \in Issued /\ \A d \in Calls : pc[d] \in Issued => pc'[d] \in Issued
    BY <2>2 DEF TypeOK, Issued
  <2>4. leases'[k] = [holder |-> c, expiresAt |-> e] /\ handle'[c] = e
    BY <2>1, <2>2 DEF TypeOK
  <2>5. \A j \in Keys \ {k} : leases'[j] = leases[j]
    BY <2>1, <2>2 DEF TypeOK
  <2>6. \A d \in Calls \ {c} : handle'[d] = handle[d]
    BY <2>2 DEF TypeOK
  <2>7. ASSUME NEW d \in Calls \ {c}, Owns(d) PROVE req[d].key # k
    <3>1. Mirrored(d)
      BY <2>7 DEF HandleInv
    <3>2. Live(req[d].key)
      BY <1>0, <2>7, <3>1 DEF Live, Owns, Mirrored
    <3> QED BY <2>2, <3>2
  <2>8. HandleInv'
    <3> SUFFICES ASSUME NEW d \in Calls, Owns(d)' PROVE Mirrored(d)'
      BY DEF HandleInv
    <3>1. CASE d = c
      BY <2>1, <2>2, <2>3, <2>4, <3>1 DEF Mirrored
    <3>2. CASE d # c
      <4>1. Owns(d)
        BY <2>2, <2>6, <3>2 DEF Owns
      <4>2. req[d].key # k /\ req[d].key \in Keys
        BY <1>0, <2>7, <3>2, <4>1
      <4> QED BY <2>2, <2>3, <2>5, <2>6, <3>2, <4>1, <4>2 DEF HandleInv, Mirrored
    <3> QED BY <3>1, <3>2
  <2>9. RowInv'
    <3> SUFFICES ASSUME NEW j \in Keys, NEW d \in Calls, leases'[j].holder = d
                 PROVE  /\ pc'[d] \in Issued /\ req'[d].key = j
                        /\ Live(j)' => handle'[d] <= leases'[j].expiresAt
      BY DEF RowInv
    <3>1. CASE j = k
      BY <2>1, <2>2, <2>3, <2>4, <3>1
    <3>2. CASE j # k
      <4>1. leases[j].holder = d /\ leases'[j] = leases[j]
        BY <2>5, <3>2
      <4>2. pc[d] \in Issued /\ req[d].key = j
            /\ (Live(j) => handle[d] <= leases[j].expiresAt)
        BY <4>1 DEF RowInv
      <4>3. d # c
        BY <2>2, <4>2 DEF Issued
      <4> QED BY <2>2, <2>3, <2>6, <4>1, <4>2, <4>3 DEF Live
    <3> QED BY <3>1, <3>2
  <2> QED BY <2>8, <2>9
<1>5. ASSUME NEW c \in Calls, NEW a \in BOOLEAN, UpdateHits(c, a)
      PROVE  HandleInv' /\ RowInv'
  <2> DEFINE k == req[c].key
             e == sent[c]
  <2>1. k \in Keys /\ e \in Nat
    BY <1>0
  <2>2. /\ leases' = [leases EXCEPT ![k].expiresAt = e]
        /\ handle' = [handle EXCEPT ![c] = IF a THEN e ELSE @]
        /\ pc' = [pc EXCEPT ![c] = "granted"]
        /\ UNCHANGED <<clock, req>> /\ leases[k].holder = c /\ pc[c] = "renewing"
    BY <1>5 DEF UpdateHits, HeldBy
  <2>3. pc'[c] \in Issued /\ \A d \in Calls : pc[d] \in Issued => pc'[d] \in Issued
    BY <2>2 DEF TypeOK, Issued
  <2>4. leases'[k] = [holder |-> c, expiresAt |-> e]
    BY <2>1, <2>2 DEF TypeOK, Row
  <2>41. handle'[c] <= e
    <3>1. handle[c] <= e
      BY <2>2 DEF AskedInv
    <3> QED BY <1>0, <2>1, <2>2, <3>1 DEF TypeOK
  <2>5. \A j \in Keys \ {k} : leases'[j] = leases[j]
    BY <2>1, <2>2 DEF TypeOK
  <2>6. \A d \in Calls \ {c} : handle'[d] = handle[d]
    BY <2>2 DEF TypeOK
  <2>7. ASSUME NEW d \in Calls \ {c}, Owns(d) PROVE req[d].key # k
    BY <2>2, <2>7 DEF HandleInv, Mirrored
  <2>8. HandleInv'
    <3> SUFFICES ASSUME NEW d \in Calls, Owns(d)' PROVE Mirrored(d)'
      BY DEF HandleInv
    <3>1. CASE d = c
      BY <2>2, <2>3, <2>4, <2>41, <3>1 DEF Mirrored
    <3>2. CASE d # c
      <4>1. Owns(d)
        BY <2>2, <2>6, <3>2 DEF Owns
      <4>2. req[d].key # k /\ req[d].key \in Keys
        BY <1>0, <2>7, <3>2, <4>1
      <4> QED BY <2>2, <2>3, <2>5, <2>6, <3>2, <4>1, <4>2 DEF HandleInv, Mirrored
    <3> QED BY <3>1, <3>2
  <2>9. RowInv'
    <3> SUFFICES ASSUME NEW j \in Keys, NEW d \in Calls, leases'[j].holder = d
                 PROVE  /\ pc'[d] \in Issued /\ req'[d].key = j
                        /\ Live(j)' => handle'[d] <= leases'[j].expiresAt
      BY DEF RowInv
    <3>1. CASE j = k
      BY <2>2, <2>3, <2>4, <2>41, <3>1
    <3>2. CASE j # k
      <4>1. leases[j].holder = d /\ leases'[j] = leases[j]
        BY <2>5, <3>2
      <4>2. pc[d] \in Issued /\ req[d].key = j
            /\ (Live(j) => handle[d] <= leases[j].expiresAt)
        BY <4>1 DEF RowInv
      <4>3. d # c
        BY <3>2, <4>2
      <4> QED BY <2>2, <2>3, <2>6, <4>1, <4>2, <4>3 DEF Live
    <3> QED BY <3>1, <3>2
  <2> QED BY <2>8, <2>9
<1>6. ASSUME NEW c \in Calls, DeleteOwn(c) PROVE HandleInv' /\ RowInv'
  <2> DEFINE k == req[c].key
  <2>1. k \in Keys
    BY <1>0
  <2>2. /\ leases' = [leases EXCEPT ![k] = IF @.holder = c THEN Absent ELSE @]
        /\ pc' = [pc EXCEPT ![c] = "granted"]
        /\ UNCHANGED <<clock, req, handle>> /\ pc[c] = "deleting"
    BY <1>6 DEF DeleteOwn
  <2>3. \A d \in Calls : pc[d] \in Issued => pc'[d] \in Issued
    BY <2>2 DEF TypeOK, Issued
  <2>4. ~Owns(c)
    BY <1>0, <2>2 DEF AskedInv, Owns
  <2>5. \A j \in Keys : leases[j].holder # c => leases'[j] = leases[j]
    BY <2>1, <2>2 DEF TypeOK
  <2>6. \A j \in Keys : leases[j].holder = c => leases'[j].holder # c
    <3> SUFFICES ASSUME NEW j \in Keys, leases[j].holder = c
                 PROVE  leases'[j].holder # c
      OBVIOUS
    <3>1. j = k
      BY DEF RowInv
    <3>2. leases'[k] = Absent
      BY <2>1, <2>2, <3>1 DEF TypeOK
    <3> QED BY <3>1, <3>2, LeasePostgresAssumption DEF Absent
  <2>7. HandleInv'
    <3> SUFFICES ASSUME NEW d \in Calls, Owns(d)' PROVE Mirrored(d)'
      BY DEF HandleInv
    <3>1. d # c /\ Mirrored(d)
      BY <2>2, <2>4 DEF Owns, HandleInv
    <3>2. leases[req[d].key].holder # c /\ req[d].key \in Keys
      BY <1>0, <3>1 DEF Mirrored
    <3> QED BY <2>2, <2>3, <2>5, <3>1, <3>2 DEF Mirrored
  <2>8. RowInv'
    <3> SUFFICES ASSUME NEW j \in Keys, NEW d \in Calls, leases'[j].holder = d
                 PROVE  /\ pc'[d] \in Issued /\ req'[d].key = j
                        /\ Live(j)' => handle'[d] <= leases'[j].expiresAt
      BY DEF RowInv
    <3>1. leases[j].holder # c
      <4> SUFFICES ASSUME leases[j].holder = c PROVE FALSE
        OBVIOUS
      <4>1. j = k
        BY DEF RowInv
      <4>2. leases'[j] = Absent
        BY <2>1, <2>2, <4>1 DEF TypeOK
      <4> QED BY <4>2, LeasePostgresAssumption DEF Absent
    <3>2. leases'[j] = leases[j]
      BY <2>5, <3>1
    <3>3. pc[d] \in Issued /\ req[d].key = j
          /\ (Live(j) => handle[d] <= leases[j].expiresAt)
      BY <3>2 DEF RowInv
    <3> QED BY <2>2, <2>3, <3>2, <3>3 DEF Live
  <2> QED BY <2>7, <2>8
<1>7. CASE UNCHANGED vars
  <2>1. UNCHANGED <<clock, leases, req, handle, pc>>
    BY <1>7 DEF vars
  <2>2. \A d \in Calls : handle'[d] <= handle[d]
    BY <1>0, <2>1
  <2> QED BY <2>1, <2>2, QuietStep
<1> QED
  BY <1>1, <1>2, <1>3, <1>4, <1>5, <1>6, <1>7 DEF Next, AcquireStep, HolderStep

\* Handles and rows correspond in every reachable state.
THEOREM HandlesMirrorTable == Spec => [](HandleInv /\ AskedInv /\ RowInv)
<1>1. Init => HandleInv /\ AskedInv /\ RowInv
  BY LeasePostgresAssumption DEF Init, HandleInv, AskedInv, RowInv, Owns, Live, Absent
<1>2. /\ TypeOK /\ TypeOK' /\ [Next]_vars
      /\ HandleInv /\ AskedInv /\ RowInv
      => (HandleInv /\ AskedInv /\ RowInv)'
  BY TableStep, AskedStep
<1> QED
  BY <1>1, <1>2, TypeCorrect, PTL DEF Spec

\* No two clients, of whatever sidecars, hold unexpired handles for one key.
THEOREM LeaseMutualExclusion == Spec => []MutualExclusion
<1>1. HandleInv => MutualExclusion
  BY DEF HandleInv, Mirrored, MutualExclusion
<1> QED
  BY <1>1, HandlesMirrorTable, PTL

\* A live row belongs to a call that was granted it, and outlasts what that
\* call's client counts on.
THEOREM RowsIssued == Spec => []LiveRowsAreIssued
<1>1. TypeOK /\ RowInv => LiveRowsAreIssued
  <2> SUFFICES ASSUME TypeOK, RowInv, NEW k \in List
               PROVE  \E c \in Calls :
                        /\ pc[c] \in Issued
                        /\ req[c].key = k
                        /\ leases[k].holder = c
                        /\ handle[c] <= leases[k].expiresAt
    BY DEF LiveRowsAreIssued
  <2>1. k \in Keys /\ Live(k)
    BY DEF List
  <2>2. leases[k] \in Row
    BY <2>1 DEF TypeOK
  <2>3. leases[k].holder # NoHolder
    <3> SUFFICES ASSUME leases[k].holder = NoHolder PROVE FALSE
      OBVIOUS
    <3>1. leases[k].expiresAt = 0
      BY <2>1 DEF TypeOK, Absent
    <3> QED BY <2>1, <3>1, LeasePostgresAssumption DEF Live, TypeOK
  <2>4. PICK c \in Calls : leases[k].holder = c
    BY <2>2, <2>3 DEF Row
  <2> QED BY <2>1, <2>4 DEF RowInv
<1> QED
  BY <1>1, TypeCorrect, HandlesMirrorTable, PTL
----------------------------------------------------------------------------
\* Every expiry under way comes from a reading of the clock: sidecars compute
\* it before they send, and no other step touches it.
THEOREM SentFromClock == Spec => []SentInv
<1>1. Init => SentInv
  BY DEF Init, SentInv
<1>2. ASSUME TypeOK, SentInv, [Next]_vars PROVE SentInv'
  <2>0. \A c \in Calls : /\ req[c].ttl \in TTLs
                         /\ \A ttl \in TTLs : clock + ttl \in GrantExpiries
    BY <1>2, ArgumentTypes
  <2> USE DEF SentInv, TypeOK
  <2>1. CASE Tick \/ UNCHANGED vars
    BY <1>2, <2>1 DEF Tick, vars
  <2>2. ASSUME NEW c \in Calls,
               \/ SendInsert(c) \/ \E ttl \in TTLs : SendUpdate(c, ttl)
        PROVE  SentInv'
    <3>1. sent'[c] \in GrantExpiries
      BY <1>2, <2>0, <2>2 DEF SendInsert, SendUpdate
    <3>2. \A d \in Calls \ {c} : sent'[d] = sent[d] /\ pc'[d] = pc[d]
      BY <1>2, <2>2 DEF SendInsert, SendUpdate
    <3> QED BY <1>2, <3>1, <3>2
  <2>3. ASSUME NEW c \in Calls,
               \/ Acquire(c) \/ InsertRefused(c) \/ InsertFails(c)
               \/ \E o \in {"granted", "lost"} : InsertTakes(c, o)
               \/ GiveUpWaiting(c) \/ Sleep(c) \/ Wake(c) \/ Cancel(c)
               \/ \E a \in BOOLEAN : UpdateHits(c, a)
               \/ UpdateMisses(c) \/ SendProbe(c) \/ ProbeHits(c)
               \/ ProbeMisses(c) \/ DeleteOwn(c) \/ StatementFails(c)
        PROVE  SentInv'
    <3>1. pc'[c] \notin {"sent", "renewing"}
      BY <1>2, <2>3 DEF Acquire, InsertRefused, InsertFails, InsertTakes,
         GiveUpWaiting, Sleep, Wake, Cancel, UpdateHits, UpdateMisses, SendProbe,
         ProbeHits, ProbeMisses, DeleteOwn, StatementFails
    <3>2. \A d \in Calls \ {c} : sent'[d] = sent[d] /\ pc'[d] = pc[d]
      BY <1>2, <2>3 DEF Acquire, InsertRefused, InsertFails, InsertTakes,
         GiveUpWaiting, Sleep, Wake, Cancel, UpdateHits, UpdateMisses, SendProbe,
         ProbeHits, ProbeMisses, DeleteOwn, StatementFails
    <3>3. GrantExpiries' = GrantExpiries
      BY DEF GrantExpiries
    <3> QED BY <1>2, <3>1, <3>2, <3>3
  <2> HIDE DEF SentInv, TypeOK
  <2> QED
    BY <1>2, <2>1, <2>2, <2>3 DEF Next, AcquireStep, HolderStep
<1> QED
  BY <1>1, <1>2, TypeCorrect, PTL DEF Spec

\* Refinement: waiting and failing stutter in the contract of the lease block,
\* asking for less is its CountOnLess, and the statement the database executes
\* is its Grant, Extend, ExtendUnheard, GiveUp or Forget, whatever happened
\* since it was sent.
THEOREM RefinesContract == Spec => ImplementsContract
<1> DEFINE issued == {c \in Calls : pc[c] \in Issued}
<1>1. Init => Contract!Init
  BY DEF Init, Contract!Init, Absent, Contract!Absent, Issued
<1>2. ASSUME TypeOK, TypeOK', HandleInv, AskedInv, SentInv, [Next]_vars
      PROVE  [Contract!Next]_(Contract!contractVars)
  <2>0. \A c \in Calls : req[c].key \in Keys
    BY <1>2, ArgumentTypes
  <2>00. \A c \in Calls : ~HeldBy(c, req[c].key) => handle[c] <= clock
    <3> SUFFICES ASSUME NEW c \in Calls, ~(handle[c] <= clock)
                 PROVE  HeldBy(c, req[c].key)
      OBVIOUS
    <3>1. /\ clock \in Nat /\ handle[c] \in Nat
          /\ leases[req[c].key].expiresAt \in Nat
      BY <1>2, <2>0, LeasePostgresAssumption DEF TypeOK, Row
    <3>2. Owns(c)
      BY <3>1 DEF Owns
    <3>3. Mirrored(c)
      BY <1>2, <3>2 DEF HandleInv
    <3> QED BY <3>1, <3>2, <3>3 DEF HeldBy, Live, Owns, Mirrored
  <2> USE <1>2, LeasePostgresAssumption
      DEF TypeOK, Contract!contractVars, Contract!Next
  <2>1. ASSUME Tick PROVE Contract!Next
    BY <2>1 DEF Tick, Contract!Tick
  <2>2. ASSUME NEW c \in Calls, NEW o \in {"granted", "lost"}, InsertTakes(c, o)
        PROVE  Contract!Next
    <3>1. PICK k \in Keys, e \in GrantExpiries : k = req[c].key /\ e = sent[c]
      BY <2>0, <2>2 DEF InsertTakes, SentInv
    <3>2. c \notin issued /\ issued' = issued \cup {c}
      BY <2>2 DEF InsertTakes, Issued
    <3>3. Contract!Grant(c, k, e)
      BY <2>2, <3>1, <3>2 DEF InsertTakes, Live, Contract!Live, Contract!Grant
    <3> QED BY <3>3
  <2>3. ASSUME NEW c \in Calls, NEW a \in BOOLEAN, UpdateHits(c, a)
        PROVE  Contract!Next
    <3>1. PICK k \in Keys, e \in GrantExpiries : k = req[c].key /\ e = sent[c]
      BY <2>0, <2>3 DEF UpdateHits, SentInv
    <3>2. issued' = issued
      BY <2>3 DEF UpdateHits, Issued
    <3>3. CASE a
      <4>1. Contract!Extend(c, k, e)
        BY <2>3, <3>1, <3>2, <3>3
           DEF UpdateHits, HeldBy, Live, Contract!Live, Contract!Extend
      <4> QED BY <4>1
    <3>4. CASE ~a
      <4>1. handle' = handle /\ handle[c] <= e
        BY <2>3, <3>1, <3>4 DEF UpdateHits, AskedInv
      <4>2. Contract!ExtendUnheard(c, k, e)
        BY <2>3, <3>1, <3>2, <4>1
           DEF UpdateHits, HeldBy, Live, Contract!Live, Contract!ExtendUnheard
      <4> QED BY <4>2
    <3> QED BY <3>3, <3>4
  <2>4. ASSUME NEW c \in Calls, DeleteOwn(c)
        PROVE  Contract!Next \/ UNCHANGED Contract!contractVars
    <3>1. PICK k \in Keys : k = req[c].key
      BY <2>0
    <3>2. issued' = issued
      BY <2>4 DEF DeleteOwn, Issued
    <3>3. CASE leases[k].holder = c
      <4>1. leases' = [leases EXCEPT ![k] = Absent]
        BY <2>4, <3>1, <3>3 DEF DeleteOwn
      <4>2. handle' = [handle EXCEPT ![c] = 0]
        BY <2>4 DEF DeleteOwn, AskedInv
      <4>3. Contract!GiveUp(c, k)
        BY <2>4, <3>2, <3>3, <4>1, <4>2
           DEF DeleteOwn, Absent, Contract!Absent, Contract!GiveUp
      <4> QED BY <4>3
    <3>4. CASE leases[k].holder # c
      <4>1. leases' = leases
        BY <2>4, <3>1, <3>4 DEF DeleteOwn
      <4> QED BY <2>4, <3>2, <4>1 DEF DeleteOwn
    <3> QED BY <3>3, <3>4
  <2>5. ASSUME NEW c \in Calls, UpdateMisses(c) PROVE Contract!Next
    <3>1. handle[c] <= clock
      BY <2>00, <2>5 DEF UpdateMisses
    <3>2. issued' = issued
      BY <2>5 DEF UpdateMisses, Issued
    <3>3. Contract!Forget(c)
      BY <2>5, <3>1, <3>2 DEF UpdateMisses, Contract!Forget
    <3> QED BY <3>3
  <2>6. ASSUME NEW c \in Calls, NEW e \in GrantExpiries \cup {0}, e \in Nat,
               handle' = [handle EXCEPT ![c] = Earlier(handle[c], e)],
               pc[c] \in Issued, pc'[c] \in Issued,
               \A d \in Calls \ {c} : pc'[d] = pc[d],
               UNCHANGED <<clock, leases>>
        PROVE  Contract!Next \/ UNCHANGED Contract!contractVars
    <3>1. issued' = issued
      BY <2>6
    <3>0. handle[c] \in Nat
      OBVIOUS
    <3>2. CASE handle[c] <= e
      <4>1. handle' = handle
        BY <2>6, <3>2 DEF Earlier
      <4> QED BY <2>6, <3>1, <4>1
    <3>3. CASE e < handle[c]
      <4>0. Earlier(handle[c], e) = e
        BY <2>6, <3>0, <3>3 DEF Earlier
      <4>1. handle' = [handle EXCEPT ![c] = e]
        BY <2>6, <4>0
      <4>2. Contract!CountOnLess(c, e)
        BY <2>6, <3>1, <3>3, <4>1 DEF Contract!CountOnLess
      <4> QED BY <4>2
    <3> QED BY <2>6, <3>0, <3>2, <3>3
  <2>7. ASSUME NEW c \in Calls, NEW ttl \in TTLs, SendUpdate(c, ttl)
        PROVE  Contract!Next \/ UNCHANGED Contract!contractVars
    <3>1. clock + ttl \in GrantExpiries /\ clock + ttl \in Nat
      BY ArgumentTypes
    <3>2. /\ handle' = [handle EXCEPT ![c] = Earlier(handle[c], clock + ttl)]
          /\ pc[c] \in Issued /\ pc'[c] \in Issued
          /\ \A d \in Calls \ {c} : pc'[d] = pc[d]
          /\ UNCHANGED <<clock, leases>>
      BY <2>7 DEF SendUpdate, Issued
    <3> QED BY <2>6, <3>1, <3>2
  <2>8. ASSUME NEW c \in Calls, SendProbe(c)
        PROVE  Contract!Next \/ UNCHANGED Contract!contractVars
    <3>1. handle' = [handle EXCEPT ![c] = Earlier(handle[c], 0)]
      <4>1. handle[c] \in Nat
        OBVIOUS
      <4>2. Earlier(handle[c], 0) = 0
        BY <4>1 DEF Earlier
      <4> QED BY <2>8, <4>2 DEF SendProbe
    <3>2. /\ pc[c] \in Issued /\ pc'[c] \in Issued
          /\ \A d \in Calls \ {c} : pc'[d] = pc[d]
          /\ UNCHANGED <<clock, leases>>
      BY <2>8 DEF SendProbe, Issued
    <3> QED BY <2>6, <3>1, <3>2
  <2>9. ASSUME NEW c \in Calls,
               \/ Acquire(c) \/ SendInsert(c) \/ InsertRefused(c) \/ InsertFails(c)
               \/ GiveUpWaiting(c) \/ Sleep(c) \/ Wake(c) \/ Cancel(c)
               \/ ProbeHits(c) \/ ProbeMisses(c) \/ StatementFails(c)
        PROVE  UNCHANGED Contract!contractVars
    <3>1. UNCHANGED <<clock, leases, handle>>
      BY <2>9 DEF Acquire, SendInsert, InsertRefused, InsertFails, GiveUpWaiting,
         Sleep, Wake, Cancel, ProbeHits, ProbeMisses, StatementFails
    <3>2. \A d \in Calls : pc'[d] \in Issued <=> pc[d] \in Issued
      BY <2>9 DEF Acquire, SendInsert, InsertRefused, InsertFails, GiveUpWaiting,
         Sleep, Wake, Cancel, ProbeHits, ProbeMisses, StatementFails, Issued
    <3>3. issued' = issued
      BY <3>2
    <3> QED BY <3>1, <3>3
  <2>10. ASSUME UNCHANGED vars PROVE UNCHANGED Contract!contractVars
    BY <2>10 DEF vars
  <2> HIDE DEF Contract!Next, Contract!contractVars, TypeOK
  <2> QED
    BY <2>1, <2>2, <2>3, <2>4, <2>5, <2>7, <2>8, <2>9, <2>10
       DEF Next, AcquireStep, HolderStep
<1> QED
  BY <1>1, <1>2, TypeCorrect, HandlesMirrorTable, SentFromClock, PTL
     DEF Spec, ImplementsContract, Contract!Spec
=============================================================================
