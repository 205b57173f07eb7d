----------------------------- MODULE KVPostgres -----------------------------
(***************************************************************************)
(* The writers of one key in the PostgreSQL KV driver                      *)
(* (src/internal/kv/drivers/postgres).  Keys are independent rows.         *)
(*                                                                         *)
(* Put is a READ COMMITTED transaction of two statements: SELECT .. FOR    *)
(* UPDATE of the live row, whose version the if_version test uses, and an  *)
(* INSERT .. ON CONFLICT DO UPDATE.  Delete with if_version is a SELECT .. *)
(* FOR UPDATE and a DELETE.  Delete without it and the sweeper are single  *)
(* statements.  now() is the start of the transaction.                     *)
(*                                                                         *)
(* What PostgreSQL does, as the driver relies on it: a statement sees the  *)
(* rows committed before it; a row lock, and the uniqueness of a pending   *)
(* insert, make other writers of the key wait until the transaction ends;  *)
(* a statement that waited looks again at the newest version of the row it *)
(* found, and finds nothing if that row is gone; a rolled-back transaction *)
(* leaves no trace.  Put computes the expiry from the sidecar's clock when *)
(* it is called, the database starts the transaction some time later; the  *)
(* sidecar's clock does not run ahead of the database's.                   *)
(***************************************************************************)
EXTENDS KV

CONSTANTS Txs,       \* the Put and Delete calls of a behaviour
          Expects,   \* the if_version arguments used
          NoTx       \* the lock's owner when it is free

ASSUME KVPostgresAssumption ==
  /\ NoTx \notin Txs
  /\ Expects \subseteq Nat \cup {Any}

VARIABLES row,       \* the committed row of the key
          lock,      \* the transaction that holds the row (or a pending insert)
          arg,       \* call -> its arguments, fixed for the behaviour
          stage,        \* call -> its next step or its outcome
          snap,      \* call -> what its transaction has read, see Snap
          wrote,     \* call -> the row its write statement produced
          base       \* call -> not in the code: version of the live row it replaced

pgVars == <<clock, row, lock, arg, stage, snap, wrote, base>>

\* tuple identifies the insert a row descends from.  epoch is not in the
\* code: it numbers the lives of the key, a new one after absence or expiry.
Row   == [version : Nat, expires : Nat, tuple : Nat, epoch : Nat]
NoRow == [version |-> 0, expires |-> 0, tuple |-> 0, epoch |-> 0]
Args  == [op : {"put"}, expect : Expects, ttl : TTLs]
           \cup [op : {"delete"}, expect : Expects, ttl : {0}]

\* now() in the transaction, the tuple its SELECT found, 0 for none, and the
\* version it returned, 0 for none.
Snap   == [now : Nat, tuple : Nat, version : Nat]
NoSnap == [now |-> 0, tuple |-> 0, version |-> 0]
Ended == {"committed", "mismatch", "absent", "failed"}

\* expires_at IS NULL OR expires_at > now()
LiveAt(r, now) == r.version # 0 /\ (r.expires = 0 \/ r.expires > now)

PgInit ==
  /\ clock = 1
  /\ row = NoRow
  /\ lock = NoTx
  /\ arg \in [Txs -> Args]
  /\ stage = [t \in Txs |-> "ready"]
  /\ snap = [t \in Txs |-> NoSnap]
  /\ wrote = [t \in Txs |-> NoRow]
  /\ base = [t \in Txs |-> 0]

PgTick ==
  /\ clock < MaxClock
  /\ clock' = clock + 1
  /\ UNCHANGED <<row, lock, arg, stage, snap, wrote, base>>

\* lock after transaction t ends.
Unlocked(t) == IF lock = t THEN NoTx ELSE lock

----------------------------------------------------------------------------
(* Statements                                                              *)

\* Begin; SELECT version .. FOR UPDATE finds no live row: nothing is locked.
SelectNone(t) ==
  /\ stage[t] = "ready"
  /\ arg[t].op = "put" \/ arg[t].expect # Any
  /\ ~LiveAt(row, clock)
  /\ snap' = [snap EXCEPT ![t] = [NoSnap EXCEPT !.now = clock]]
  /\ stage' = [stage EXCEPT ![t] = "selected"]
  /\ UNCHANGED <<clock, row, lock, arg, wrote, base>>

\* The SELECT finds a live row and asks for its lock.
SelectRow(t) ==
  /\ stage[t] = "ready"
  /\ arg[t].op = "put" \/ arg[t].expect # Any
  /\ LiveAt(row, clock)
  /\ snap' = [snap EXCEPT ![t] = [NoSnap EXCEPT !.now = clock, !.tuple = row.tuple]]
  /\ stage' = [stage EXCEPT ![t] = "locking"]
  /\ UNCHANGED <<clock, row, lock, arg, wrote, base>>

\* A plausible error: the SELECT does not ask for the lock (no FOR UPDATE).
ReadWithoutLock(t) ==
  /\ stage[t] = "locking"
  /\ LET found == row.tuple = snap[t].tuple /\ LiveAt(row, snap[t].now)
     IN snap' = [snap EXCEPT ![t].version = IF found THEN row.version ELSE 0]
  /\ stage' = [stage EXCEPT ![t] = "selected"]
  /\ UNCHANGED <<clock, row, lock, arg, wrote, base>>

\* The lock is free: the row found is looked at again, and locked if it is
\* still there and still live.
LockRow(t) ==
  /\ stage[t] = "locking"
  /\ lock = NoTx
  /\ LET found == row.tuple = snap[t].tuple /\ LiveAt(row, snap[t].now)
     IN /\ snap' = [snap EXCEPT ![t].version = IF found THEN row.version ELSE 0]
        /\ lock' = IF found THEN t ELSE NoTx
  /\ stage' = [stage EXCEPT ![t] = "selected"]
  /\ UNCHANGED <<clock, row, arg, wrote, base>>

\* A plausible error: the early return leaves the transaction open.
MismatchWithoutRollback(t) ==
  /\ stage[t] = "selected"
  /\ arg[t].expect \notin {Any, snap[t].version}
  /\ stage' = [stage EXCEPT ![t] = "mismatch"]
  /\ snap' = [snap EXCEPT ![t] = NoSnap]
  /\ UNCHANGED <<clock, row, lock, arg, wrote, base>>

\* if_version differs from the version selected: ErrVersionMismatch, rollback.
Mismatch(t) ==
  /\ stage[t] = "selected"
  /\ arg[t].expect \notin {Any, snap[t].version}
  /\ stage' = [stage EXCEPT ![t] = "mismatch"]
  /\ lock' = Unlocked(t)
  /\ snap' = [snap EXCEPT ![t] = NoSnap]
  /\ UNCHANGED <<clock, row, arg, wrote, base>>

\* A plausible error, the one the comment in Put tells of: the version
\* computed from the SELECT is written on conflict.
ExcludedVersion(t) == snap[t].version + 1

\* The version a Put writes over the row found: 1 for an expired row, else
\* one more than the version in the row now locked.
ConflictVersion(t) == IF LiveAt(row, snap[t].now) THEN row.version + 1 ELSE 1

\* INSERT .. ON CONFLICT DO UPDATE, once nobody else holds the row.  called
\* is when Put was entered and added the ttl to the sidecar's clock.
Upsert(t, called) ==
  /\ stage[t] = "selected"
  /\ arg[t].op = "put"
  /\ arg[t].expect \in {Any, snap[t].version}
  /\ lock \in {NoTx, t}
  /\ lock' = t
  /\ LET live == LiveAt(row, snap[t].now)
     IN /\ wrote' = [wrote EXCEPT ![t] =
              [version |-> IF row = NoRow THEN snap[t].version + 1 ELSE ConflictVersion(t),
               expires |-> IF arg[t].ttl = 0 THEN 0 ELSE called + arg[t].ttl,
               tuple   |-> IF row = NoRow THEN 1 + Cardinality({u \in Txs : stage[u] = "committed"})
                                          ELSE row.tuple,
               epoch   |-> IF live THEN row.epoch
                           ELSE 1 + Cardinality({u \in Txs : stage[u] = "committed"})]]
        /\ base' = [base EXCEPT ![t] = IF live THEN row.version ELSE 0]
  /\ stage' = [stage EXCEPT ![t] = "written"]
  /\ UNCHANGED <<clock, row, arg, snap>>

\* DELETE of the row selected and locked.
DeleteRow(t) ==
  /\ stage[t] = "selected"
  /\ arg[t].op = "delete"
  /\ snap[t].version # 0
  /\ arg[t].expect = snap[t].version
  /\ lock \in {NoTx, t}
  /\ lock' = t
  /\ wrote' = [wrote EXCEPT ![t] = NoRow]
  /\ base' = [base EXCEPT ![t] = row.version]
  /\ stage' = [stage EXCEPT ![t] = "written"]
  /\ UNCHANGED <<clock, row, arg, snap>>

\* Delete with if_version 0 of an absent key: existed = false.
DeleteAbsent(t) ==
  /\ stage[t] = "selected"
  /\ arg[t].op = "delete"
  /\ snap[t].version = 0
  /\ arg[t].expect = 0
  /\ stage' = [stage EXCEPT ![t] = "absent"]
  /\ snap' = [snap EXCEPT ![t] = NoSnap]
  /\ UNCHANGED <<clock, row, lock, arg, wrote, base>>

Commit(t) ==
  /\ stage[t] = "written"
  /\ row' = wrote[t]
  /\ lock' = NoTx
  /\ stage' = [stage EXCEPT ![t] = "committed"]
  /\ snap' = [snap EXCEPT ![t] = NoSnap]
  /\ UNCHANGED <<clock, arg, wrote, base>>

\* A statement fails (connection lost, context ended): deferred Rollback.
Fail(t) ==
  /\ stage[t] \in {"locking", "selected", "written"}
  /\ stage' = [stage EXCEPT ![t] = "failed"]
  /\ lock' = Unlocked(t)
  /\ snap' = [snap EXCEPT ![t] = NoSnap]
  /\ wrote' = [wrote EXCEPT ![t] = NoRow]
  /\ base' = [base EXCEPT ![t] = 0]
  /\ UNCHANGED <<clock, row, arg>>

\* Delete without if_version: one statement, once the row is not locked.
DeleteNow(t) ==
  /\ stage[t] = "ready"
  /\ arg[t].op = "delete"
  /\ arg[t].expect = Any
  /\ lock = NoTx
  /\ row' = IF LiveAt(row, clock) THEN NoRow ELSE row
  /\ stage' = [stage EXCEPT ![t] = IF LiveAt(row, clock) THEN "committed" ELSE "absent"]
  /\ UNCHANGED <<clock, lock, arg, snap, wrote, base>>

\* The sweeper's DELETE of expired rows.
Sweep ==
  /\ row # NoRow
  /\ ~LiveAt(row, clock)
  /\ lock = NoTx
  /\ row' = NoRow
  /\ UNCHANGED <<clock, lock, arg, stage, snap, wrote, base>>

----------------------------------------------------------------------------
Step(t) ==
  \/ SelectNone(t) \/ SelectRow(t) \/ LockRow(t) \/ Mismatch(t)
  \/ \E called \in 1..snap[t].now : Upsert(t, called)
  \/ DeleteRow(t) \/ DeleteAbsent(t) \/ Commit(t) \/ DeleteNow(t)

PgNext == PgTick \/ Sweep \/ \E t \in Txs : Step(t) \/ Fail(t)

PgSpec == PgInit /\ [][PgNext]_pgVars

\* The database executes the next statement of every call that can proceed.
PgFairSpec == PgSpec /\ \A t \in Txs : WF_pgVars(Step(t))

----------------------------------------------------------------------------
(* Properties                                                              *)

\* Every variable keeps its type; only a call at work holds the lock.
PgTypeOK ==
  /\ clock \in 1..MaxClock
  /\ row \in Row
  /\ lock \in Txs \cup {NoTx}
  /\ lock # NoTx => stage[lock] \in {"selected", "written"}
  /\ arg \in [Txs -> Args]
  /\ stage \in [Txs -> Ended \cup {"ready", "locking", "selected", "written"}]
  /\ snap \in [Txs -> Snap]
  /\ wrote \in [Txs -> Row] /\ base \in [Txs -> Nat]

\* The calls that wrote a row and committed it.
CommittedPuts == {t \in Txs : stage[t] = "committed" /\ wrote[t] # NoRow}

\* No increment is lost: two Puts that committed in the same life of the key
\* returned different versions, also when both found the key absent (the
\* comment on nextVersion in Put tells of that race).
VersionsAreDistinct ==
  \A t, u \in CommittedPuts :
    wrote[t].epoch = wrote[u].epoch /\ wrote[t].version = wrote[u].version => t = u

\* Compare-and-swap on an existing version: a Put or Delete that committed
\* with if_version n > 0 replaced the live row of version n and no other.
CASReplacesVersionChecked ==
  \A t \in Txs :
    stage[t] = "committed" /\ arg[t].expect > 0 => base[t] = arg[t].expect

\* The same for every if_version, 0 included (kv.proto: "the write succeeds
\* only when the current stored version equals if_version").
CASHonoured ==
  \A t \in Txs :
    stage[t] = "committed" /\ arg[t].expect # Any => base[t] = arg[t].expect

\* Every call ends: no writer waits for ever for a row another one left
\* locked.
EveryWriteEnds ==
  \A t \in Txs : stage[t] = "ready" ~> stage[t] \in Ended
=============================================================================
