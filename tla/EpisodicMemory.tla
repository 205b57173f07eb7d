--------------------------- MODULE EpisodicMemory ---------------------------
(***************************************************************************)
(* One namespace of the in-memory episodic driver                          *)
(* (src/internal/episodic/drivers/memory): the event log with its id and   *)
(* dedup indexes, the retention sweeps that rewrite it, and the live       *)
(* tailers fed through bounded channels.                                   *)
(*                                                                         *)
(* Append, Expire, Close, the registration of a tailer and its detachment  *)
(* are critical sections of d.mu.  A tailer then replays its snapshot of   *)
(* the history and drains its channel without the lock, one event a step.  *)
(*                                                                         *)
(* Each event gets a fresh id together with a fresh cursor, so the cursor  *)
(* stands for the id.  Timestamps are taken under the lock and do not      *)
(* decrease, so a before_time window is some before_cursor window.         *)
(***************************************************************************)
EXTENDS Naturals, Sequences, FiniteSets

CONSTANTS DedupKeys,   \* idempotency keys clients use
          NoKey,       \* the empty dedup key
          Tails,       \* the Tail calls of a behaviour
          AfterCursors,\* the after_cursor arguments of Tail
          RowLimits,   \* the max_rows arguments of Expire
          Buffer,      \* subscriberBufferSize
          MaxEvents    \* bound: events appended in a behaviour

ASSUME EpisodicMemoryAssumption ==
  /\ NoKey \notin DedupKeys
  /\ AfterCursors \subseteq Nat
  /\ RowLimits \subseteq Nat
  /\ Buffer \in Nat \ {0}
  /\ MaxEvents \in Nat

VARIABLES open,        \* ~d.closed
          events,      \* s.events, oldest first
          lastCursor,  \* s.lastCursor
          byID,        \* s.byID: id -> index in events
          dedupToID,   \* s.dedupToID: key -> id
          listed,      \* s.subscribers
          tail         \* Tail call -> its subscriber and its progress

vars == <<open, events, lastCursor, byID, dedupToID, listed, tail>>
logVars == <<events, lastCursor, byID, dedupToID>>

Cursor == 1..MaxEvents
Event  == [cursor : Cursor, key : DedupKeys \cup {NoKey}, deleted : BOOLEAN]

\* history: cursors still to be replayed; ch, lagged: what the channels ch and
\* err hold; closes: how often the channels were closed; head: lastCursor at
\* registration; got: live cursors yielded so far; replayed: history yielded.
NewTail == [pc |-> "ready", history |-> <<>>, ch |-> <<>>, lagged |-> FALSE,
            closes |-> 0, head |-> 0, got |-> <<>>, replayed |-> <<>>]
Ended   == {"refused", "quit", "errLagged", "nil"}

Init ==
  /\ open = TRUE
  /\ events = <<>>
  /\ lastCursor = 0
  /\ byID = [c \in {} |-> 0]
  /\ dedupToID = [k \in {} |-> 0]
  /\ listed = {}
  /\ tail = [t \in Tails |-> NewTail]

----------------------------------------------------------------------------
(* Append                                                                  *)

\* A dedup key already claimed: the stored event is returned, nothing changes.
AppendReplay(key) ==
  /\ open
  /\ key \in DOMAIN dedupToID
  /\ UNCHANGED vars

\* The fan-out of one event to the registered tailers: a full channel means
\* the tailer is closed with an error pending and dropped from the list.
HasRoom(t) == Len(tail[t].ch) < Buffer

\* A plausible error: a full channel loses the event, its tailer stays.
FanOutDropping(c) ==
  /\ tail' = [t \in Tails |->
       IF t \notin listed \/ ~HasRoom(t) THEN tail[t]
       ELSE [tail[t] EXCEPT !.ch = Append(@, c)]]
  /\ UNCHANGED listed

FanOut(c) ==
  /\ tail' = [t \in Tails |->
       CASE t \notin listed -> tail[t]
         [] t \in listed /\ HasRoom(t) -> [tail[t] EXCEPT !.ch = Append(@, c)]
         [] OTHER -> [tail[t] EXCEPT !.lagged = TRUE, !.closes = @ + 1]]
  /\ listed' = {t \in listed : HasRoom(t)}

\* A plausible error: the next cursor is derived from the length of the log.
CursorFromLength == Len(events) + 1

NextCursor == lastCursor + 1

\* A new event: cursor, indexes, tombstones on what it supersedes, fan-out.
AppendNew(key, supersedes) ==
  LET c == NextCursor
  IN /\ open
     /\ lastCursor < MaxEvents
     /\ key \notin DOMAIN dedupToID
     /\ lastCursor' = c
     /\ events' = Append([i \in DOMAIN events |->
                            IF events[i].cursor \in supersedes
                            THEN [events[i] EXCEPT !.deleted = TRUE] ELSE events[i]],
                         [cursor |-> c, key |-> key, deleted |-> FALSE])
     /\ byID' = [x \in DOMAIN byID \cup {c} |->
                   IF x = c THEN Len(events) + 1 ELSE byID[x]]
     /\ dedupToID' = [k \in DOMAIN dedupToID \cup ({key} \ {NoKey}) |->
                        IF k = key THEN c ELSE dedupToID[k]]
     /\ FanOut(c)
     /\ UNCHANGED open

----------------------------------------------------------------------------
(* Expire                                                                  *)

\* The numbers of a finite set in increasing order, and the events of a log at
\* a set of indices, in their order.
InOrder(I) ==
  CHOOSE f \in [1..Cardinality(I) -> I] :
    \A m, n \in 1..Cardinality(I) : m < n => f[m] < f[n]

EventsAt(I) == [n \in 1..Cardinality(I) |-> events[InOrder(I)[n]]]

\* The oldest maxRows indices among those in I.
Oldest(I, maxRows) == {i \in I : Cardinality({j \in I : j < i}) < maxRows}

InWindow(before) == {i \in DOMAIN events : events[i].cursor < before}

\* ExpireSoftDelete: tombstone the oldest live events of the window.
ExpireSoft(before, maxRows) ==
  LET hit == Oldest({i \in InWindow(before) : ~events[i].deleted}, maxRows)
  IN /\ events' = [i \in DOMAIN events |->
                     IF i \in hit THEN [events[i] EXCEPT !.deleted = TRUE] ELSE events[i]]
     /\ UNCHANGED <<open, lastCursor, byID, dedupToID, listed, tail>>

\* A plausible error: the log is rewritten, the indexes are not rebuilt.
ExpireHardNoReindex(before, maxRows) ==
  LET drop == Oldest(InWindow(before), maxRows)
  IN /\ drop # {}
     /\ events' = EventsAt(DOMAIN events \ drop)
     /\ UNCHANGED <<open, lastCursor, byID, dedupToID, listed, tail>>

\* ExpireHardDelete: remove the oldest events of the window, live or not,
\* then rebuild byID and forget the dedup keys of events that are gone.
ExpireHard(before, maxRows) ==
  LET drop == Oldest(InWindow(before), maxRows)
      kept == EventsAt(DOMAIN events \ drop)
      ids  == {kept[i].cursor : i \in DOMAIN kept}
  IN /\ drop # {}
     /\ events' = kept
     /\ byID' = [c \in ids |-> CHOOSE i \in DOMAIN kept : kept[i].cursor = c]
     /\ dedupToID' = [k \in {k \in DOMAIN dedupToID : dedupToID[k] \in ids} |->
                        dedupToID[k]]
     /\ UNCHANGED <<open, lastCursor, listed, tail>>

----------------------------------------------------------------------------
(* Tail                                                                    *)

\* The snapshot of the history and the registration are one critical section.
TailStart(t, after, historical) ==
  LET past == EventsAt({i \in DOMAIN events : historical /\ events[i].cursor > after})
  IN /\ tail[t].pc = "ready"
     /\ open
     /\ tail' = [tail EXCEPT ![t] =
          [NewTail EXCEPT !.pc = "tailing",
                          !.head = lastCursor,
                          !.history = [n \in DOMAIN past |-> past[n].cursor]]]
     /\ listed' = listed \cup {t}
     /\ UNCHANGED <<open, logVars>>

TailRefused(t) ==
  /\ tail[t].pc = "ready"
  /\ ~open
  /\ tail' = [tail EXCEPT ![t].pc = "refused"]
  /\ UNCHANGED <<open, logVars, listed>>

\* yield of the next historical event.
TailReplay(t) ==
  /\ tail[t].pc = "tailing"
  /\ tail[t].history # <<>>
  /\ tail' = [tail EXCEPT ![t].history = Tail(@),
                          ![t].replayed = Append(@, Head(tail[t].history))]
  /\ UNCHANGED <<open, logVars, listed>>

\* The live loop: an event from the channel is yielded.
TailDeliver(t) ==
  /\ tail[t].pc = "tailing"
  /\ tail[t].history = <<>>
  /\ tail[t].ch # <<>>
  /\ tail' = [tail EXCEPT ![t].ch = Tail(@),
                          ![t].got = Append(@, Head(tail[t].ch))]
  /\ UNCHANGED <<open, logVars, listed>>

\* The live loop: the channels are closed.  err yields the pending lag error
\* or, after Close, nil; ch yields "closed" once it is drained, and then Tail
\* returns nil.  The select takes any case that is ready.
TailSeesClosed(t) ==
  /\ tail[t].pc = "tailing"
  /\ tail[t].history = <<>>
  /\ tail[t].closes > 0
  /\ \/ tail' = [tail EXCEPT ![t].pc = IF tail[t].lagged THEN "errLagged" ELSE "nil"]
     \/ tail[t].ch = <<>> /\ tail' = [tail EXCEPT ![t].pc = "nil"]
  /\ UNCHANGED <<open, logVars, listed>>

\* A plausible error: the subscriber is closed again if it is closed already.
DetachAlways(t) ==
  /\ tail[t].pc = "tailing"
  /\ tail' = [tail EXCEPT ![t].pc = "quit", ![t].closes = @ + 1]
  /\ listed' = listed \ {t}
  /\ UNCHANGED <<open, logVars>>

\* The context ends or yield fails: detachSubscriber, then return.
TailQuit(t) ==
  /\ tail[t].pc = "tailing"
  /\ tail' = [tail EXCEPT ![t].pc = "quit",
                          ![t].closes = IF @ = 0 THEN 1 ELSE @]
  /\ listed' = listed \ {t}
  /\ UNCHANGED <<open, logVars>>

\* A plausible error: Close forgets the tailers without closing their channels.
CloseSilently ==
  /\ open
  /\ open' = FALSE
  /\ listed' = {}
  /\ UNCHANGED <<logVars, tail>>

\* Driver.Close: every registered tailer is closed.
Close ==
  /\ open
  /\ open' = FALSE
  /\ tail' = [t \in Tails |->
       IF t \in listed THEN [tail[t] EXCEPT !.closes = @ + 1] ELSE tail[t]]
  /\ listed' = {}
  /\ UNCHANGED logVars

----------------------------------------------------------------------------
TailStep(t) == TailReplay(t) \/ TailDeliver(t) \/ TailSeesClosed(t)

Next ==
  \/ \E key \in DedupKeys : AppendReplay(key)
  \/ \E key \in DedupKeys \cup {NoKey}, supersedes \in SUBSET (1..lastCursor) :
       AppendNew(key, supersedes)
  \/ \E before \in 2..(MaxEvents + 1), maxRows \in RowLimits :
       ExpireSoft(before, maxRows) \/ ExpireHard(before, maxRows)
  \/ \E t \in Tails :
       \/ \E after \in AfterCursors, historical \in BOOLEAN :
            TailStart(t, after, historical)
       \/ TailRefused(t) \/ TailStep(t) \/ TailQuit(t)
  \/ Close

Spec == Init /\ [][Next]_vars

\* A tailer whose yield returns keeps running; nobody has to append or close.
FairSpec == Spec /\ \A t \in Tails : WF_vars(TailStep(t))

----------------------------------------------------------------------------
(* Properties                                                              *)

\* Every variable keeps its type; the tailers listed are the open ones, and
\* an error is pending only on a closed one.
TypeOK ==
  /\ open \in BOOLEAN
  /\ events \in Seq(Event)
  /\ lastCursor \in 0..MaxEvents
  /\ listed \subseteq Tails
  /\ \A t \in listed : tail[t].closes = 0
  /\ \A t \in Tails :
       /\ tail[t].pc \in {"ready", "tailing"} \cup Ended
       /\ Len(tail[t].ch) <= Buffer
       /\ tail[t].lagged => tail[t].closes > 0

\* The live events a tailer has yielded or has in its channel, in order.
LiveFeed(t) == tail[t].got \o tail[t].ch

\* A registered tailer misses nothing: what it has yielded and what waits in
\* its channel are exactly the events appended since it registered, in cursor
\* order, none twice, although the log is rewritten by Expire meanwhile.
TailerMissesNothing ==
  \A t \in listed :
    LiveFeed(t) = [i \in 1..(lastCursor - tail[t].head) |-> tail[t].head + i]

\* A tailer that was detached has a gap-free prefix of those events, and its
\* history never overlaps them: a client resuming after the last cursor it
\* saw neither loses nor repeats an event.
DetachedFeedIsPrefix ==
  \A t \in Tails :
    LET seen == tail[t].replayed \o tail[t].history \o LiveFeed(t)
    IN /\ \A i \in 1..Len(LiveFeed(t)) : LiveFeed(t)[i] = tail[t].head + i
       /\ \A i, j \in 1..Len(seen) : i < j => seen[i] < seen[j]

\* The channels of a tailer are closed at most once, whichever of lag, Close,
\* cancellation and a failing yield meet (a second close would panic).
ChannelsClosedOnce == \A t \in Tails : tail[t].closes <= 1

\* byID finds exactly the retained events where they are, and a claimed dedup
\* key leads to the one retained event that carries it, so a retried Append
\* returns that event and a key never has two events.
IndexesAgree ==
  /\ DOMAIN byID = {events[i].cursor : i \in DOMAIN events}
  /\ \A i \in DOMAIN events :
       /\ byID[events[i].cursor] = i
       /\ events[i].key # NoKey =>
            events[i].key \in DOMAIN dedupToID /\ dedupToID[events[i].key] = events[i].cursor
  /\ \A k \in DOMAIN dedupToID :
       dedupToID[k] \in DOMAIN byID /\ events[byID[dedupToID[k]]].key = k

\* After Close every Tail returns.
TailsEndAfterClose ==
  \A t \in Tails : (~open /\ tail[t].pc = "tailing") ~> tail[t].pc \in Ended

\* The code does not have this property (see the README).
\* memory.go: "slow tailers whose buffer fills up are detached with an error":
\* a tailer whose channel overflowed does not return nil.
LaggedTailReturnsError ==
  \A t \in Tails : tail[t].lagged => tail[t].pc # "nil"
=============================================================================
