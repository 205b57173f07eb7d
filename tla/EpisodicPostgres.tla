-------------------------- MODULE EpisodicPostgres --------------------------
(***************************************************************************)
(* The PostgreSQL driver of the episodic log                               *)
(* (internal/episodic/drivers/postgres).  One namespace is modelled: rows  *)
(* and counters of different namespaces share nothing.                     *)
(*                                                                         *)
(* Every SQL statement of Append is an action of its own, since other      *)
(* sessions run between them.  Statements read the committed state (READ   *)
(* COMMITTED); what a transaction wrote becomes visible when it commits.   *)
(* The counter row stays locked from its increment to the end of the       *)
(* transaction.  A committed row is named by its cursor.                   *)
(*                                                                         *)
(* Replicas first migrate the schema; one that fails is started again, and *)
(* traffic starts when all of them are up.                                 *)
(***************************************************************************)
EXTENDS Integers, FiniteSets, Sequences, FiniteSetsExt

CONSTANTS
    Replica,      \* processes that start on the same database
    Migration,    \* number of migration files
    Appender,     \* sessions that append
    Tailer,       \* sessions that tail
    DedupKey,     \* client idempotency keys
    None,
    MaxBegin      \* bound: transactions begun

ASSUME EpisodicPostgresAssumption ==
    /\ Migration \in Nat /\ MaxBegin \in Nat
    /\ None \notin DedupKey /\ None \notin Appender

VARIABLES
    applied,      \* versions in schema_migrations
    replica,      \* per replica: where runMigrations is
    rows,         \* committed rows of episodic_events
    counter,      \* committed last_cursor
    locker,       \* transaction that holds the counter row
    begun,        \* transactions begun, the clock behind now()
    app,          \* per appender: its transaction
    tailing,      \* per tailer: its Tail call
    closed,       \* the driver was closed
    answers       \* history: cursors Append returned for a key still stored

bootVars  == <<applied, replica>>
pgLogVars == <<rows, counter, locker, begun, app, answers>>
pgVars    == <<bootVars, pgLogVars, tailing, closed>>

Row  == [cursor : Nat \ {0}, key : DedupKey \cup {None}, ts : Nat, deleted : BOOLEAN]
Idle == [pc |-> "idle", key |-> None, supersedes |-> {}, ts |-> 0, next |-> 0,
         locked |-> {}]
Start  == [pc |-> "check", version |-> 1]
NoTail == [pc |-> "off", start |-> 0, last |-> 0, got |-> {}]

PgInit ==
    /\ applied = {} /\ replica = [p \in Replica |-> Start]
    /\ rows = {} /\ counter = 0 /\ locker = None /\ begun = 0
    /\ app = [a \in Appender |-> Idle]
    /\ tailing = [t \in Tailer |-> NoTail]
    /\ closed = FALSE
    /\ answers = [k \in DedupKey |-> {}]

-----------------------------------------------------------------------------
(* Start-up: New opens the pool, pings it and runs the migrations in the   *)
(* order of their names, each with its version row in one transaction.     *)

Traffic == \A p \in Replica : replica[p].pc = "up"

\* The version is looked up outside the migration's transaction.
CheckApplied(p) ==
    LET r == replica[p] IN
    /\ r.pc = "check"
    /\ replica' = [replica EXCEPT ![p] =
         IF r.version > Migration THEN [r EXCEPT !.pc = "up"]
         ELSE IF r.version \in applied THEN [r EXCEPT !.version = @ + 1]
         ELSE [r EXCEPT !.pc = "apply"]]
    /\ UNCHANGED <<applied, pgLogVars, tailing, closed>>

\* The transaction commits only if its version row is new: the primary key
\* rejects the second of two replicas, whose body is rolled back.
ApplyMigration(p) ==
    LET r == replica[p] IN
    /\ r.pc = "apply"
    /\ IF r.version \in applied
       THEN /\ replica' = [replica EXCEPT ![p] = Start]
            /\ UNCHANGED applied
       ELSE /\ applied' = applied \cup {r.version}
            /\ replica' = [replica EXCEPT ![p] = [pc |-> "check", version |-> r.version + 1]]
    /\ UNCHANGED <<pgLogVars, tailing, closed>>

\* An unreachable server, a failing statement or a crash: the process ends
\* and is started again.
StartFails(p) ==
    /\ replica[p].pc \in {"check", "apply"}
    /\ replica' = [replica EXCEPT ![p] = Start]
    /\ UNCHANGED <<applied, pgLogVars, tailing, closed>>

-----------------------------------------------------------------------------
(* Range: the rows a statement returns, as a set; it streams them by       *)
(* cursor.  match stands for the equality filters on session, role, type.  *)

RangeRows(o) ==
    LET hit == { r \in rows :
                   /\ o.includeDeleted \/ ~ r.deleted
                   /\ o.afterCursor > 0 => r.cursor > o.afterCursor
                   /\ o.beforeCursor > 0 => r.cursor < o.beforeCursor
                   /\ o.afterTime > 0 => r.ts > o.afterTime
                   /\ o.beforeTime > 0 => r.ts < o.beforeTime
                   /\ r \in o.match }
        rank(r) == Cardinality({ q \in hit : IF o.reverse THEN q.cursor >= r.cursor
                                             ELSE q.cursor <= r.cursor })
    IN  { r \in hit : o.limit > 0 => rank(r) <= o.limit }

AfterCursor(c) ==
    [afterCursor |-> c, beforeCursor |-> 0, afterTime |-> 0, beforeTime |-> 0,
     match |-> rows, includeDeleted |-> FALSE, reverse |-> FALSE, limit |-> 0]

Stored(k) == { r \in rows : r.key = k }

-----------------------------------------------------------------------------
(* Append, statement by statement.                                         *)

Answer(k, c) ==
    answers' = IF k = None THEN answers ELSE [answers EXCEPT ![k] = @ \cup {c}]

Rollback(a) ==
    /\ locker' = IF locker = a THEN None ELSE locker
    /\ UNCHANGED <<rows, counter, begun>>

AppendBegin(a, k, S) ==
    /\ Traffic /\ ~ closed /\ begun < MaxBegin
    /\ app[a].pc = "idle"
    /\ begun' = begun + 1
    /\ app' = [app EXCEPT ![a] = [Idle EXCEPT !.pc = "lookup", !.key = k,
                                              !.supersedes = S, !.ts = begun + 1]]
    /\ UNCHANGED <<rows, counter, locker, answers, bootVars, tailing, closed>>

\* The fast path: a key that is stored already answers with its event.
FastPath(a) ==
    LET t == app[a] IN
    /\ t.pc = "lookup"
    /\ IF t.key # None /\ Stored(t.key) # {}
       THEN /\ \E r \in Stored(t.key) : Answer(t.key, r.cursor)
            /\ app' = [app EXCEPT ![a] = Idle]
            /\ Rollback(a)
       ELSE /\ app' = [app EXCEPT ![a].pc = "alloc"]
            /\ UNCHANGED <<rows, counter, locker, begun, answers>>
    /\ UNCHANGED <<bootVars, tailing, closed>>

\* A plausible error: the cursor comes from a sequence, without a row lock.
AllocateNoLock(a) ==
    /\ app[a].pc = "alloc"
    /\ app' = [app EXCEPT ![a].pc = "insert", ![a].next = counter + 1]
    /\ counter' = counter + 1
    /\ UNCHANGED <<rows, locker, begun, answers, bootVars, tailing, closed>>

\* The increment waits for the counter row and keeps it locked.
Allocate(a) ==
    /\ app[a].pc = "alloc" /\ locker = None
    /\ locker' = a
    /\ app' = [app EXCEPT ![a].pc = "insert", ![a].next = counter + 1]
    /\ UNCHANGED <<rows, counter, begun, answers, bootVars, tailing, closed>>

\* A plausible error: the insert does not stop at a stored dedup key.
InsertAnyway(a) ==
    /\ app[a].pc = "insert"
    /\ app' = [app EXCEPT ![a].pc = "supersede"]
    /\ UNCHANGED <<rows, counter, locker, begun, answers, bootVars, tailing, closed>>

\* ON CONFLICT DO NOTHING: a key stored meanwhile rolls the append back; the
\* unique index makes the insert wait for an uncommitted row with its key.
Insert(a) ==
    LET t == app[a] IN
    /\ t.pc = "insert"
    /\ t.key # None => \A b \in Appender \ {a} :
          ~ (app[b].key = t.key /\ app[b].pc \in {"supersede", "commit"})
    /\ IF t.key # None /\ Stored(t.key) # {}
       THEN /\ app' = [app EXCEPT ![a].pc = "reread"]
            /\ Rollback(a)
       ELSE /\ app' = [app EXCEPT ![a].pc = "supersede"]
            /\ UNCHANGED <<rows, counter, locker, begun>>
    /\ UNCHANGED <<answers, bootVars, tailing, closed>>

\* The winner of the race is read outside the transaction; an Expire may
\* have removed it or the pool be closed, and the call then fails.
Reread(a) ==
    LET t == app[a] IN
    /\ t.pc = "reread"
    /\ IF ~ closed /\ Stored(t.key) # {}
       THEN \E r \in Stored(t.key) : Answer(t.key, r.cursor)
       ELSE UNCHANGED answers
    /\ app' = [app EXCEPT ![a] = Idle]
    /\ UNCHANGED <<rows, counter, locker, begun, bootVars, tailing, closed>>

\* The live superseded rows are tombstoned, and locked until the commit.
Supersede(a) ==
    LET t == app[a] IN
    /\ t.pc = "supersede"
    /\ app' = [app EXCEPT ![a].pc = "commit",
                          ![a].locked = { r.cursor : r \in
                              { q \in rows : q.cursor \in t.supersedes /\ ~ q.deleted } }]
    /\ UNCHANGED <<rows, counter, locker, begun, answers, bootVars, tailing, closed>>

\* The commit; acked is FALSE when its answer is lost on the way back.
Commit(a, acked) ==
    LET t == app[a] IN
    /\ t.pc = "commit"
    /\ rows' = { [r EXCEPT !.deleted = @ \/ r.cursor \in t.locked] : r \in rows }
               \cup { [cursor |-> t.next, key |-> t.key, ts |-> t.ts, deleted |-> FALSE] }
    /\ counter' = Max({counter, t.next})
    /\ locker' = IF locker = a THEN None ELSE locker
    /\ IF acked THEN Answer(t.key, t.next) ELSE UNCHANGED answers
    /\ app' = [app EXCEPT ![a] = Idle]
    /\ UNCHANGED <<begun, bootVars, tailing, closed>>

\* Any statement may fail, the caller may give up, the process may crash.
Abort(a) ==
    /\ app[a].pc # "idle"
    /\ app' = [app EXCEPT ![a] = Idle]
    /\ Rollback(a)
    /\ UNCHANGED <<answers, bootVars, tailing, closed>>

-----------------------------------------------------------------------------
(* Expire: one statement that picks the oldest rows of the window and      *)
(* tombstones or deletes them; it waits for rows an open transaction holds.*)

PgOldest(S, n) == { r \in S : Cardinality({ q \in S : q.cursor <= r.cursor }) <= n }

Expire(action, beforeCursor, beforeTime, maxRows) ==
    /\ Traffic /\ ~ closed
    /\ beforeCursor > 0 \/ beforeTime > 0      \* ErrExpireWindowRequired
    /\ LET window == { r \in rows : /\ beforeCursor > 0 => r.cursor < beforeCursor
                                    /\ beforeTime > 0 => r.ts < beforeTime
                                    /\ action = "soft" => ~ r.deleted }
           ids    == { r.cursor : r \in PgOldest(window, maxRows) }
       IN  /\ \A a \in Appender : app[a].locked \cap ids = {}
           /\ IF action = "soft"
              THEN /\ rows' = { [r EXCEPT !.deleted = @ \/ r.cursor \in ids] : r \in rows }
                   /\ UNCHANGED answers
              ELSE /\ rows' = { r \in rows : r.cursor \notin ids }
                   /\ answers' = [k \in DedupKey |-> answers[k] \ ids]
    /\ UNCHANGED <<counter, locker, begun, app, bootVars, tailing, closed>>

-----------------------------------------------------------------------------
(* Tail: replay or jump to the head, then poll.                            *)

\* Streaming stops early when yield fails, the caller leaves or the
\* connection breaks; the rows before that point were delivered.
Stream(t, S, all) ==
    \E n \in 0 .. Cardinality(S) :
        /\ all => n = Cardinality(S)
        /\ LET sent == PgOldest(S, n)
           IN  tailing' = [tailing EXCEPT
                 ![t].got  = @ \cup { r.cursor : r \in sent },
                 ![t].last = Max({@} \cup { r.cursor : r \in sent }),
                 ![t].pc   = IF all THEN "live" ELSE "ended"]

\* Without the history the tail starts at the highest cursor stored,
\* tombstones included.
TailHead(t, after) ==
    LET head == Max({0} \cup { r.cursor : r \in rows })
        from == IF head > 0 THEN head ELSE after
    IN  tailing' = [tailing EXCEPT ![t] = [pc |-> "live", start |-> from, last |-> from,
                                     got |-> {}]]

TailOpen(t, after, historical) ==
    /\ Traffic /\ tailing[t].pc = "off"
    /\ IF closed THEN tailing' = [tailing EXCEPT ![t].pc = "ended"]
       ELSE IF historical
            THEN tailing' = [tailing EXCEPT ![t] = [NoTail EXCEPT !.pc = "history",
                                              !.start = after, !.last = after]]
            ELSE TailHead(t, after)
    /\ UNCHANGED <<bootVars, pgLogVars, closed>>

\* A plausible error: the call stays after the replay but never polls.
TailPollOnce(t) ==
    /\ tailing[t].pc = "history"
    /\ IF closed THEN tailing' = [tailing EXCEPT ![t].pc = "ended"]
       ELSE Stream(t, RangeRows(AfterCursor(tailing[t].last)), TRUE)
    /\ UNCHANGED <<bootVars, pgLogVars, closed>>

\* The replay and every poll are the same Range after the last cursor sent.
TailPoll(t) ==
    /\ tailing[t].pc \in {"history", "live"}
    /\ IF closed THEN tailing' = [tailing EXCEPT ![t].pc = "ended"]
       ELSE Stream(t, RangeRows(AfterCursor(tailing[t].last)), TRUE)
    /\ UNCHANGED <<bootVars, pgLogVars, closed>>

TailStops(t) ==
    /\ tailing[t].pc \in {"history", "live"}
    /\ IF closed THEN tailing' = [tailing EXCEPT ![t].pc = "ended"]
       ELSE Stream(t, RangeRows(AfterCursor(tailing[t].last)), FALSE)
    /\ UNCHANGED <<bootVars, pgLogVars, closed>>

\* Close is idempotent; statements on the closed pool fail.
PgClose ==
    /\ Traffic /\ ~ closed
    /\ closed' = TRUE
    /\ UNCHANGED <<bootVars, pgLogVars, tailing>>

-----------------------------------------------------------------------------
PgNext ==
    \/ \E p \in Replica : CheckApplied(p) \/ ApplyMigration(p) \/ StartFails(p)
    \/ \E a \in Appender :
          \/ \E k \in DedupKey \cup {None} : \E S \in {{}, {1}} : AppendBegin(a, k, S)
          \/ FastPath(a) \/ Allocate(a) \/ Insert(a) \/ Reread(a) \/ Supersede(a)
          \/ Commit(a, TRUE) \/ Commit(a, FALSE) \/ Abort(a)
    \/ \E action \in {"soft", "hard"} : Expire(action, 3, 0, 1) \/ Expire(action, 0, 2, 1)
    \/ \E t \in Tailer :
          \/ \E c \in {0, 1}, h \in BOOLEAN : TailOpen(t, c, h)
          \/ TailPoll(t) \/ TailStops(t)
    \/ PgClose

\* The ticker of every Tail fires again and again.
PgSpec == PgInit /\ [][PgNext]_pgVars /\ \A t \in Tailer : WF_pgVars(TailPoll(t))

-----------------------------------------------------------------------------
\* What the schema, the transactions and the tails can hold.
PgTypeOK ==
    /\ applied \subseteq 1 .. Migration
    /\ rows \subseteq Row /\ counter \in Nat /\ begun \in 0 .. MaxBegin
    /\ locker \in Appender \cup {None}
    /\ \A a \in Appender : app[a].key \in DedupKey \cup {None} /\ app[a].next \in Nat
    /\ \A t \in Tailer : tailing[t].pc \in {"off", "history", "live", "ended"}
    /\ closed \in BOOLEAN

\* A tail skips no live event: whatever live row lies between its start and
\* the last cursor it sent was sent (Append takes cursors in commit order,
\* Tail polls by cursor).
TailMissesNothing ==
    \A t \in Tailer : \A r \in rows :
        (~ r.deleted /\ tailing[t].start < r.cursor /\ r.cursor <= tailing[t].last)
            => r.cursor \in tailing[t].got

\* Appends with one dedup key answer with one event, and that event is still
\* stored, whatever races, retries after lost answers and sweeps happen
\* (Append's fast path, ON CONFLICT and re-read).
DedupReplays ==
    \A k \in DedupKey :
        /\ Cardinality(answers[k]) <= 1
        /\ answers[k] \subseteq { r.cursor : r \in Stored(k) }

\* A running tail is sent every event committed after its start that stays
\* live (Tail's poll loop).
TailCatchesUp ==
    \A t \in Tailer, c \in 1 .. MaxBegin :
        (/\ tailing[t].pc = "live" /\ tailing[t].start < c
         /\ \E r \in rows : r.cursor = c /\ ~ r.deleted)
        ~> (\/ c \in tailing[t].got \/ tailing[t].pc = "ended"
            \/ \A r \in rows : r.cursor = c => r.deleted)
=============================================================================
