--------------------------- MODULE LeasePostgres ---------------------------
(***************************************************************************)
(* The PostgreSQL lease driver (src/internal/lease/drivers/postgres), as   *)
(* any number of sidecars use it on one table.                             *)
(*                                                                         *)
(* Each statement is one atomic step of the database, but the expiry it    *)
(* writes was computed by the sidecar before the statement was sent: it    *)
(* is executed some time later, or never, and its answer may be lost.      *)
(* Release is two statements, a probe of the holder and a DELETE, with no  *)
(* transaction around them.  Expired rows stay until they are taken over   *)
(* or released.                                                            *)
(*                                                                         *)
(* A Renew or Release that ends in an error may have been executed all the *)
(* same.  A client can only be exclusive if it allows for that: from the   *)
(* moment it asks for an earlier expiry it counts on no later one, and     *)
(* from the moment it calls Release on none, until an answer tells it      *)
(* otherwise.  A statement whose call ended in an error was executed       *)
(* before the client's next one, or never is.                              *)
(*                                                                         *)
(* Sidecars and database read one clock (they are synchronised); holder    *)
(* ids are distinct, so the id a grant carries is the call that got it.    *)
(***************************************************************************)
EXTENDS Naturals

CONSTANTS Keys,      \* (namespace, key) pairs
          Calls,     \* the Acquire calls of a behaviour, of all sidecars
          NoHolder,  \* holder of a key that has no row
          TTLs,      \* lease durations callers ask for
          Waits,     \* wait_for values callers ask for, 0 = fail fast
          Poll,      \* Options.PollInterval
          MaxClock   \* bound: the clock stops here

ASSUME LeasePostgresAssumption ==
  /\ NoHolder \notin Calls
  /\ TTLs \subseteq Nat \ {0}      \* Service.Acquire/Renew refuse ttl <= 0
  /\ Waits \subseteq Nat
  /\ Poll \in Nat \ {0}
  /\ MaxClock \in Nat

VARIABLES clock,     \* now(), and time.Now() of every sidecar
          leases,    \* the table leases: key -> row
          req,       \* call -> its arguments, fixed for the behaviour
          pc,        \* call -> where the call or its client's next one stands
          deadline,  \* call -> Acquire's local deadline
          wake,      \* call -> when its poll timer fires
          sent,      \* call -> the expiry in the statement under way
          handle     \* call -> until when its client counts on the lease

vars == <<clock, leases, req, pc, deadline, wake, sent, handle>>

Row      == [holder : Calls \cup {NoHolder}, expiresAt : Nat]
Absent   == [holder |-> NoHolder, expiresAt |-> 0]
Request  == [key : Keys, ttl : TTLs, wait : Waits]
Acquiring == {"trying", "sent", "refused", "sleeping"}
\* Calls that were granted a row: the client idle, using its holder id, or
\* without it because the answer was lost.
Issued   == {"granted", "renewing", "probing", "deleting", "lost"}
Returned == Issued \cup {"alreadyHeld", "cancelled", "failed"}

Earlier(a, b) == IF a < b THEN a ELSE b

\* expires_at > now(); an absent row has expiry 0 and is never live.
Live(k) == leases[k].expiresAt > clock

HeldBy(c, k) == leases[k].holder = c /\ Live(k)

Init ==
  /\ clock = 0
  /\ leases = [k \in Keys |-> Absent]
  /\ req \in [Calls -> Request]
  /\ pc = [c \in Calls |-> "unused"]
  /\ deadline = [c \in Calls |-> 0]
  /\ wake = [c \in Calls |-> 0]
  /\ sent = [c \in Calls |-> 0]
  /\ handle = [c \in Calls |-> 0]

Tick ==
  /\ clock < MaxClock
  /\ clock' = clock + 1
  /\ UNCHANGED <<leases, req, pc, deadline, wake, sent, handle>>

----------------------------------------------------------------------------
(* Acquire                                                                 *)

\* The call arrives and fixes its deadline.  Calls whose deadline lies
\* beyond the bound of the clock are not started.
Acquire(c) ==
  /\ pc[c] = "unused"
  /\ clock + req[c].wait <= MaxClock
  /\ pc' = [pc EXCEPT ![c] = "trying"]
  /\ deadline' = [deadline EXCEPT ![c] = clock + req[c].wait]
  /\ UNCHANGED <<clock, leases, req, wake, sent, handle>>

\* tryAcquire computes the expiry and sends the INSERT.
SendInsert(c) ==
  /\ pc[c] = "trying"
  /\ pc' = [pc EXCEPT ![c] = "sent"]
  /\ sent' = [sent EXCEPT ![c] = clock + req[c].ttl]
  /\ UNCHANGED <<clock, leases, req, deadline, wake, handle>>

\* The INSERT finds no row, or updates one that has expired.  The answer
\* reaches the caller or is lost with its connection or context.
InsertTakes(c, outcome) ==
  LET k == req[c].key
  IN /\ pc[c] = "sent"
     /\ outcome \in {"granted", "lost"}
     /\ ~Live(k)
     /\ leases' = [leases EXCEPT ![k] = [holder |-> c, expiresAt |-> sent[c]]]
     /\ handle' = [handle EXCEPT ![c] = sent[c]]
     /\ pc' = [pc EXCEPT ![c] = outcome]
     /\ deadline' = [deadline EXCEPT ![c] = 0]
     /\ sent' = [sent EXCEPT ![c] = 0]
     /\ UNCHANGED <<clock, req, wake>>

\* The INSERT meets a live row and returns none.
InsertRefused(c) ==
  /\ pc[c] = "sent"
  /\ Live(req[c].key)
  /\ pc' = [pc EXCEPT ![c] = "refused"]
  /\ sent' = [sent EXCEPT ![c] = 0]
  /\ UNCHANGED <<clock, leases, req, deadline, wake, handle>>

\* The INSERT is not executed: Acquire returns the error.
InsertFails(c) ==
  /\ pc[c] = "sent"
  /\ pc' = [pc EXCEPT ![c] = "failed"]
  /\ deadline' = [deadline EXCEPT ![c] = 0]
  /\ sent' = [sent EXCEPT ![c] = 0]
  /\ UNCHANGED <<clock, leases, req, wake, handle>>

\* A plausible error: the loop tries again although the deadline has come.
RetryForever(c) ==
  /\ pc[c] = "refused"
  /\ clock >= deadline[c]
  /\ pc' = [pc EXCEPT ![c] = "trying"]
  /\ UNCHANGED <<clock, leases, req, deadline, wake, sent, handle>>

\* The deadline has come.
GiveUpWaiting(c) ==
  /\ pc[c] = "refused"
  /\ clock >= deadline[c]
  /\ pc' = [pc EXCEPT ![c] = "alreadyHeld"]
  /\ deadline' = [deadline EXCEPT ![c] = 0]
  /\ UNCHANGED <<clock, leases, req, wake, sent, handle>>

\* There is time left: a timer for the poll interval or what remains of it.
Sleep(c) ==
  /\ pc[c] = "refused"
  /\ clock < deadline[c]
  /\ pc' = [pc EXCEPT ![c] = "sleeping"]
  /\ wake' = [wake EXCEPT ![c] = Earlier(clock + Poll, deadline[c])]
  /\ UNCHANGED <<clock, leases, req, deadline, sent, handle>>

Wake(c) ==
  /\ pc[c] = "sleeping"
  /\ clock >= wake[c]
  /\ pc' = [pc EXCEPT ![c] = "trying"]
  /\ wake' = [wake EXCEPT ![c] = 0]
  /\ UNCHANGED <<clock, leases, req, deadline, sent, handle>>

\* The caller's context ends while it sleeps.
Cancel(c) ==
  /\ pc[c] = "sleeping"
  /\ pc' = [pc EXCEPT ![c] = "cancelled"]
  /\ deadline' = [deadline EXCEPT ![c] = 0]
  /\ wake' = [wake EXCEPT ![c] = 0]
  /\ UNCHANGED <<clock, leases, req, sent, handle>>

----------------------------------------------------------------------------
(* Renew and Release by a client that knows its holder id                  *)

\* Renew computes the new expiry and sends the UPDATE.  An expiry earlier than
\* the one it has is all the client counts on from here.
SendUpdate(c, ttl) ==
  /\ pc[c] = "granted"
  /\ pc' = [pc EXCEPT ![c] = "renewing"]
  /\ sent' = [sent EXCEPT ![c] = clock + ttl]
  /\ handle' = [handle EXCEPT ![c] = Earlier(@, clock + ttl)]
  /\ UNCHANGED <<clock, leases, req, deadline, wake>>

\* A plausible error: the UPDATE does not require expires_at > now().
UpdateExpired(c, answered) ==
  LET k == req[c].key
  IN /\ pc[c] = "renewing"
     /\ leases[k].holder = c
     /\ leases' = [leases EXCEPT ![k].expiresAt = sent[c]]
     /\ handle' = [handle EXCEPT ![c] = IF answered THEN sent[c] ELSE @]
     /\ pc' = [pc EXCEPT ![c] = "granted"]
     /\ sent' = [sent EXCEPT ![c] = 0]
     /\ UNCHANGED <<clock, req, deadline, wake>>

\* A plausible error: the UPDATE does not name the holder.
UpdateAnyHolder(c, answered) ==
  LET k == req[c].key
  IN /\ pc[c] = "renewing"
     /\ Live(k)
     /\ leases' = [leases EXCEPT ![k].expiresAt = sent[c]]
     /\ handle' = [handle EXCEPT ![c] = IF answered THEN sent[c] ELSE @]
     /\ pc' = [pc EXCEPT ![c] = "granted"]
     /\ sent' = [sent EXCEPT ![c] = 0]
     /\ UNCHANGED <<clock, req, deadline, wake>>

\* The UPDATE finds the caller's live row.  The expiry it writes may have
\* passed by now, and its answer may be lost: Renew returns an error and the
\* client learns of no new expiry.
UpdateHits(c, answered) ==
  LET k == req[c].key
  IN /\ pc[c] = "renewing"
     /\ HeldBy(c, k)
     /\ leases' = [leases EXCEPT ![k].expiresAt = sent[c]]
     /\ handle' = [handle EXCEPT ![c] = IF answered THEN sent[c] ELSE @]
     /\ pc' = [pc EXCEPT ![c] = "granted"]
     /\ sent' = [sent EXCEPT ![c] = 0]
     /\ UNCHANGED <<clock, req, deadline, wake>>

\* The UPDATE finds no such row: ErrNotHeld, the client drops its handle.
UpdateMisses(c) ==
  /\ pc[c] = "renewing"
  /\ ~HeldBy(c, req[c].key)
  /\ handle' = [handle EXCEPT ![c] = 0]
  /\ pc' = [pc EXCEPT ![c] = "granted"]
  /\ sent' = [sent EXCEPT ![c] = 0]
  /\ UNCHANGED <<clock, leases, req, deadline, wake>>

\* Release begins: SELECT holder_id is under way.  The client has given up.
SendProbe(c) ==
  /\ pc[c] = "granted"
  /\ pc' = [pc EXCEPT ![c] = "probing"]
  /\ handle' = [handle EXCEPT ![c] = 0]
  /\ UNCHANGED <<clock, leases, req, deadline, wake, sent>>

\* The probe finds the caller's row, live or expired.
ProbeHits(c) ==
  /\ pc[c] = "probing"
  /\ leases[req[c].key].holder = c
  /\ pc' = [pc EXCEPT ![c] = "deleting"]
  /\ UNCHANGED <<clock, leases, req, deadline, wake, sent, handle>>

\* No row (existed = false) or another holder's (ErrNotHeld).
ProbeMisses(c) ==
  /\ pc[c] = "probing"
  /\ leases[req[c].key].holder # c
  /\ pc' = [pc EXCEPT ![c] = "granted"]
  /\ UNCHANGED <<clock, leases, req, deadline, wake, sent, handle>>

\* A plausible error: the DELETE trusts the probe and names only the key.
DeleteByKey(c) ==
  /\ pc[c] = "deleting"
  /\ leases' = [leases EXCEPT ![req[c].key] = Absent]
  /\ pc' = [pc EXCEPT ![c] = "granted"]
  /\ UNCHANGED <<clock, req, deadline, wake, sent, handle>>

\* DELETE .. AND holder_id = $3: removes the caller's row if it is still there.
\* Answered or not, the client has given up already.
DeleteOwn(c) ==
  LET k == req[c].key
  IN /\ pc[c] = "deleting"
     /\ leases' = [leases EXCEPT ![k] = IF @.holder = c THEN Absent ELSE @]
     /\ pc' = [pc EXCEPT ![c] = "granted"]
     /\ UNCHANGED <<clock, req, deadline, wake, sent, handle>>

\* A statement of Renew or Release is not executed, or the probe's answer is
\* lost: the client may try again, but is told nothing.
StatementFails(c) ==
  /\ pc[c] \in {"renewing", "probing", "deleting"}
  /\ pc' = [pc EXCEPT ![c] = "granted"]
  /\ sent' = [sent EXCEPT ![c] = 0]
  /\ UNCHANGED <<clock, leases, req, deadline, wake, handle>>

----------------------------------------------------------------------------
(* Reads: one statement, no effect.                                        *)

Inspect(k) == IF Live(k) THEN leases[k] ELSE Absent

List == {k \in Keys : Live(k)}

----------------------------------------------------------------------------
AcquireStep(c) ==
  \/ SendInsert(c)
  \/ \E outcome \in {"granted", "lost"} : InsertTakes(c, outcome)
  \/ InsertRefused(c)
  \/ GiveUpWaiting(c)
  \/ Sleep(c)
  \/ Wake(c)

HolderStep(c) ==
  \/ \E ttl \in TTLs : SendUpdate(c, ttl)
  \/ \E answered \in BOOLEAN : UpdateHits(c, answered)
  \/ UpdateMisses(c)
  \/ SendProbe(c)
  \/ ProbeHits(c)
  \/ ProbeMisses(c)
  \/ DeleteOwn(c)
  \/ StatementFails(c)

Next ==
  \/ Tick
  \/ \E c \in Calls :
       \/ Acquire(c)
       \/ AcquireStep(c)
       \/ InsertFails(c)
       \/ Cancel(c)
       \/ HolderStep(c)

Spec == Init /\ [][Next]_vars

\* Time passes, and every Acquire that can take a step takes one: the database
\* executes what it is sent, and the runtime fires timers.
Fairness == WF_vars(Tick) /\ \A c \in Calls : WF_vars(AcquireStep(c))

FairSpec == Spec /\ Fairness

----------------------------------------------------------------------------
(* Properties                                                              *)

\* Every variable keeps its type; a key without a holder has no row.
TypeOK ==
  /\ clock \in 0..MaxClock
  /\ leases \in [Keys -> Row]
  /\ req \in [Calls -> Request]
  /\ pc \in [Calls -> Acquiring \cup Returned \cup {"unused"}]
  /\ deadline \in [Calls -> Nat]
  /\ wake \in [Calls -> Nat]
  /\ sent \in [Calls -> Nat]
  /\ handle \in [Calls -> Nat]
  /\ \A k \in Keys : leases[k].holder = NoHolder => leases[k] = Absent

\* The client of call c may act as the owner of its key.
Owns(c) == handle[c] > clock

\* No two clients, of whatever sidecars, hold unexpired handles for the same
\* key, although expiries are computed before the statements run, a Renew may
\* have taken effect and returned an error, and a Release may be overtaken
\* between its probe and its DELETE.
MutualExclusion ==
  \A c, d \in Calls :
    Owns(c) /\ Owns(d) /\ req[c].key = req[d].key => c = d

\* An unexpired row belongs to a call that was granted it, and never expires
\* before what its client counts on: the table blocks no key for a call that
\* was refused or failed, and takes no lease from a client that was promised it.
LiveRowsAreIssued ==
  \A k \in List : \E c \in Calls :
    /\ pc[c] \in Issued
    /\ req[c].key = k
    /\ leases[k].holder = c
    /\ handle[c] <= leases[k].expiresAt

\* Every Acquire returns: a grant, ErrAlreadyHeld, or an error.
EveryAcquireReturns ==
  \A c \in Calls : pc[c] \in Acquiring ~> pc[c] \in Returned

\* The expiry instants a statement can carry.
GrantExpiries == UNION {{t + ttl : ttl \in TTLs} : t \in 0..MaxClock}

\* The driver keeps the contract of the lease block, the same one the
\* in-memory driver keeps.
Contract == INSTANCE LeaseContract
              WITH issued   <- {c \in Calls : pc[c] \in Issued},
                   Expiries <- GrantExpiries,
                   LosesAnswers <- TRUE

ImplementsContract == Contract!Spec
=============================================================================
