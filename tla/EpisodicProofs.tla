--------------------------- MODULE EpisodicProofs ---------------------------
(***************************************************************************)
(* The two drivers of the episodic block.                                  *)
(*                                                                         *)
(* The in-memory log, for any number of tailers, any dedup keys and any    *)
(* buffer: a registered tailer misses no event, a detached one has a       *)
(* gap-free prefix, channels are closed once, and the id and dedup indexes *)
(* survive every rewrite of the log.                                       *)
(*                                                                         *)
(* The PostgreSQL log, for any number of replicas, appenders, tailers,     *)
(* dedup keys and transactions: a tail that polls by cursor skips no live  *)
(* event, because cursors become visible in their order, and every append  *)
(* of one dedup key answers with the one event that is stored.             *)
(***************************************************************************)
EXTENDS EpisodicMemory, EpisodicPostgres, FiniteSetTheorems, SequenceTheorems, TLAPS

----------------------------------------------------------------------------
(* The memory driver.                                                      *)

Subscriber == [pc : {"ready", "tailing"} \cup Ended, history : Seq(Nat), ch : Seq(Nat),
               lagged : BOOLEAN, closes : Nat, head : Nat, got : Seq(Nat),
               replayed : Seq(Nat)]

\* The variables' full types.
Types == TypeOK /\ tail \in [Tails -> Subscriber]

\* The log is in cursor order and holds no cursor not yet given out.
LogInv ==
  /\ \A i \in DOMAIN events : events[i].cursor <= lastCursor
  /\ \A i, j \in DOMAIN events : i < j => events[i].cursor < events[j].cursor

\* The live cursors of a tailer follow one another from its head, up to the
\* last one given out as long as it is registered.
FeedInv ==
  \A t \in Tails :
    /\ \A i \in 1..Len(LiveFeed(t)) : LiveFeed(t)[i] = tail[t].head + i
    /\ t \in listed => lastCursor = tail[t].head + Len(LiveFeed(t))

\* The history of a tailer, replayed or not, lies before its head, in order.
Past(t) == tail[t].replayed \o tail[t].history
PastInv ==
  \A t \in Tails :
    /\ \A i \in 1..Len(Past(t)) : Past(t)[i] <= tail[t].head
    /\ \A i, j \in 1..Len(Past(t)) : i < j => Past(t)[i] < Past(t)[j]

----------------------------------------------------------------------------
(* Facts about the operators.                                              *)

\* Every non-empty set of naturals has a least element.
LEMMA LeastNatural ==
  ASSUME NEW T \in SUBSET Nat, T # {}
  PROVE  \E x \in T : \A y \in T : x <= y
<1> DEFINE R == {ss \in Nat \X Nat : ss[1] < ss[2]}
<1>1. IsWellFoundedOn(R, Nat)
  BY NatLessThanWellFounded DEF OpToRel
<1>2. PICK x \in T : \A y \in T : ~ (<<y, x>> \in R)
  BY <1>1, WFMin
<1>3. ASSUME NEW y \in T PROVE x <= y
  <2>1. y \in Nat /\ x \in Nat /\ ~ (y < x)
    BY <1>2
  <2> QED BY <2>1
<1> QED
  BY <1>3

\* f lists the n elements of I in increasing order.
Increasing(f, n, I) ==
  f \in [1..n -> I] /\ \A i, j \in 1..n : i < j => f[i] < f[j]

\* Every finite set of naturals can be listed in increasing order.
LEMMA OrderExists ==
  ASSUME NEW S \in SUBSET Nat, IsFiniteSet(S)
  PROVE  \E f \in [1..Cardinality(S) -> S] :
           \A m, n \in 1..Cardinality(S) : m < n => f[m] < f[n]
<1> DEFINE Bad == {n \in Nat : \E I \in SUBSET S :
                     /\ IsFiniteSet(I) /\ Cardinality(I) = n
                     /\ ~ \E f : Increasing(f, n, I)}
<1>0. Cardinality(S) \in Nat
  BY FS_CardinalityType
<1>1. ASSUME NEW b \in Bad PROVE FALSE
  <2>1. PICK n \in Bad : \A m \in Bad : n <= m
    <3>1. Bad \in SUBSET Nat /\ Bad # {}
      BY <1>1
    <3> HIDE DEF Bad
    <3> QED BY <3>1, LeastNatural
  <2>2. PICK I \in SUBSET S : /\ IsFiniteSet(I) /\ Cardinality(I) = n
                              /\ ~ \E f : Increasing(f, n, I)
    OBVIOUS
  <2>3. n \in Nat /\ n # 0
    <3>1. ASSUME n = 0 PROVE FALSE
      <4>1. 1..n = {}
        BY <3>1
      <4>2. Increasing([i \in 1..n |-> 0], n, I)
        BY <4>1 DEF Increasing
      <4> QED BY <2>2, <4>2
    <3> QED BY <3>1
  <2>4. I # {} /\ I \in SUBSET Nat
    BY <2>2, <2>3, FS_EmptySet
  <2>5. PICK x \in I : \A y \in I : x <= y
    BY <2>4, LeastNatural
  <2>6. IsFiniteSet(I \ {x}) /\ Cardinality(I \ {x}) = n - 1
    BY <2>2, FS_RemoveElement
  <2>7. PICK g : Increasing(g, n - 1, I \ {x})
    <3>1. n - 1 \in Nat /\ ~ (n <= n - 1)
      BY <2>3
    <3> QED BY <2>1, <2>6, <3>1
  <2> DEFINE f == [i \in 1..n |-> IF i = 1 THEN x ELSE g[i - 1]]
  <2>8. \A i \in 1..n : i # 1 => i - 1 \in 1..(n - 1)
    BY <2>3
  <2>9. f \in [1..n -> I]
    BY <2>7, <2>8 DEF Increasing
  <2>10. \A i, j \in 1..n : i < j => f[i] < f[j]
    <3> SUFFICES ASSUME NEW i \in 1..n, NEW j \in 1..n, i < j PROVE f[i] < f[j]
      OBVIOUS
    <3>1. j # 1 /\ j - 1 \in 1..(n - 1) /\ g[j - 1] \in I \ {x}
      BY <2>7, <2>8 DEF Increasing
    <3>2. CASE i = 1
      <4>1. x <= g[j - 1] /\ x # g[j - 1] /\ x \in Nat /\ g[j - 1] \in Nat
        BY <2>4, <2>5, <3>1
      <4> QED BY <3>1, <3>2, <4>1
    <3>3. CASE i # 1
      <4>1. i - 1 \in 1..(n - 1) /\ i - 1 < j - 1
        BY <2>8, <3>3
      <4> QED BY <2>7, <3>1, <3>3, <4>1 DEF Increasing
    <3> QED BY <3>2, <3>3
  <2> HIDE DEF f
  <2>11. Increasing(f, n, I)
    BY <2>9, <2>10 DEF Increasing
  <2> QED BY <2>2, <2>11
<1>2. \E f : Increasing(f, Cardinality(S), S)
  BY <1>0, <1>1
<1> QED
  BY <1>2 DEF Increasing

\* InOrder lists the elements of a finite set, all of them, in increasing order.
LEMMA InOrderLists ==
  ASSUME NEW I \in SUBSET Nat, IsFiniteSet(I)
  PROVE  /\ Cardinality(I) \in Nat
         /\ InOrder(I) \in [1..Cardinality(I) -> I]
         /\ \A m, n \in 1..Cardinality(I) : m < n => InOrder(I)[m] < InOrder(I)[n]
         /\ \A i \in I : \E n \in 1..Cardinality(I) : InOrder(I)[n] = i
<1> DEFINE f == InOrder(I)
           n == Cardinality(I)
<1>1. n \in Nat
  BY FS_CardinalityType
<1>2. f \in [1..n -> I] /\ \A i, j \in 1..n : i < j => f[i] < f[j]
  BY OrderExists DEF InOrder
<1> HIDE DEF f
<1>3. \A i, j \in 1..n : f[i] = f[j] => i = j
  <2>1. \A i \in 1..n : f[i] \in Nat
    BY <1>2
  <2> QED BY <1>1, <1>2, <2>1
<1>4. ASSUME NEW i \in I, \A m \in 1..n : f[m] # i PROVE FALSE
  <2>1. f \in [1..n -> I \ {i}]
    BY <1>2, <1>4
  <2>2. IsFiniteSet(I \ {i}) /\ Cardinality(I \ {i}) = n - 1
    BY FS_RemoveElement
  <2>3. IsFiniteSet(1..n) /\ Cardinality(1..n) = n
    BY <1>1, FS_Interval
  <2> HIDE DEF n
  <2>4. \E x, y \in 1..n : x # y /\ f[x] = f[y]
    <3> DEFINE A == 1..n
               B == I \ {i}
    <3>1. IsFiniteSet(A) /\ IsFiniteSet(B) /\ Cardinality(B) < Cardinality(A) /\ f \in [A -> B]
      BY <1>1, <2>1, <2>2, <2>3
    <3> HIDE DEF A, B
    <3>2. \E x, y \in A : x # y /\ f[x] = f[y]
      BY <3>1, FS_PigeonHole
    <3> QED BY <3>2 DEF A
  <2> QED BY <1>3, <2>4
<1> QED
  BY <1>1, <1>2, <1>4 DEF f

\* The events of the log at some of its indices are a log in the same order.
LEMMA EventsAtIsLog ==
  ASSUME TypeOK, NEW I \in SUBSET DOMAIN events
  PROVE  /\ EventsAt(I) \in Seq(Event)
         /\ \A n \in DOMAIN EventsAt(I) : \E i \in I : EventsAt(I)[n] = events[i]
         /\ \A m, n \in DOMAIN EventsAt(I) : m < n =>
              \E i, j \in I : i < j /\ EventsAt(I)[m] = events[i] /\ EventsAt(I)[n] = events[j]
         /\ \A i \in I : \E n \in DOMAIN EventsAt(I) : EventsAt(I)[n] = events[i]
<1> DEFINE n == Cardinality(I)
           f == InOrder(I)
<1>1. events \in Seq(Event) /\ DOMAIN events = 1..Len(events) /\ Len(events) \in Nat
  BY DEF TypeOK
<1>2. IsFiniteSet(I) /\ I \in SUBSET Nat
  <2>1. IsFiniteSet(1..Len(events))
    BY <1>1, FS_Interval
  <2>2. IsFiniteSet(DOMAIN events)
    BY <1>1, <2>1
  <2> QED BY <1>1, <2>2, FS_Subset
<1>3. /\ n \in Nat /\ f \in [1..n -> I]
      /\ \A i, j \in 1..n : i < j => f[i] < f[j]
      /\ \A i \in I : \E m \in 1..n : f[m] = i
  BY <1>2, InOrderLists
<1>4. EventsAt(I) = [m \in 1..n |-> events[f[m]]]
  BY DEF EventsAt
<1> HIDE DEF n, f
<1>5. \A i \in I : events[i] \in Event
  BY <1>1
<1>6. EventsAt(I) \in [1..n -> Event]
  BY <1>3, <1>4, <1>5
<1>7. EventsAt(I) \in Seq(Event) /\ DOMAIN EventsAt(I) = 1..n
  BY <1>3, <1>6, SeqDef
<1> QED
  BY <1>3, <1>4, <1>7

\* The log with the events at some indices tombstoned.
Tombstoned(I) ==
  [i \in DOMAIN events |-> IF i \in I THEN [events[i] EXCEPT !.deleted = TRUE] ELSE events[i]]

LEMMA TombstonedIsLog ==
  ASSUME TypeOK, NEW I
  PROVE  /\ Tombstoned(I) \in Seq(Event) /\ Len(Tombstoned(I)) = Len(events)
         /\ DOMAIN Tombstoned(I) = DOMAIN events
         /\ \A i \in DOMAIN events : /\ Tombstoned(I)[i].cursor = events[i].cursor
                                     /\ Tombstoned(I)[i].key = events[i].key
<1>1. events \in Seq(Event) /\ DOMAIN events = 1..Len(events) /\ Len(events) \in Nat
  BY DEF TypeOK
<1>2. ASSUME NEW i \in DOMAIN events
      PROVE  /\ [events[i] EXCEPT !.deleted = TRUE] \in Event
             /\ [events[i] EXCEPT !.deleted = TRUE].cursor = events[i].cursor
             /\ [events[i] EXCEPT !.deleted = TRUE].key = events[i].key
  <2>1. events[i] \in Event
    BY <1>1
  <2> QED BY <2>1 DEF Event
<1>3. Tombstoned(I) \in [1..Len(events) -> Event]
  BY <1>1, <1>2 DEF Tombstoned
<1>4. Tombstoned(I) \in Seq(Event)
  BY <1>1, <1>3, SeqDef
<1>5. DOMAIN Tombstoned(I) = 1..Len(events) /\ Len(Tombstoned(I)) = Len(events)
  BY <1>1, <1>3, <1>4
<1> QED
  BY <1>1, <1>2, <1>4, <1>5 DEF Tombstoned

\* Concatenation of cursor sequences is associative.
LEMMA ThreeParts ==
  ASSUME NEW a \in Seq(Nat), NEW b \in Seq(Nat), NEW c \in Seq(Nat)
  PROVE  (a \o b) \o c = a \o (b \o c)
BY ConcatAssociative, SMTT(20)

\* Moving the first element of one sequence to the end of another keeps their
\* concatenation.
LEMMA MoveHead ==
  ASSUME NEW s \in Seq(Nat), NEW q \in Seq(Nat), q # <<>>
  PROVE  /\ Append(s, Head(q)) \in Seq(Nat) /\ Tail(q) \in Seq(Nat)
         /\ Append(s, Head(q)) \o Tail(q) = s \o q
<1>1. /\ Head(q) \in Nat /\ Tail(q) \in Seq(Nat) /\ q = <<Head(q)>> \o Tail(q)
      /\ <<Head(q)>> \in Seq(Nat)
  <2>1. Head(q) \in Nat /\ Tail(q) \in Seq(Nat)
    BY HeadTailProperties
  <2>2. <<Head(q)>> \in Seq(Nat)
    BY <2>1
  <2>3. Len(q) \in Nat \ {0} /\ Head(q) = q[1]
    BY LenProperties, EmptySeq
  <2>4. q = SubSeq(q, 1, Len(q)) /\ Tail(q) = SubSeq(q, 2, Len(q))
    BY SubSeqFull, TailIsSubSeq
  <2>5. 1 \in 1 .. Len(q) /\ Len(q) \in 1 .. Len(q) /\ 1 + 1 = 2
    BY <2>3
  <2>6. SubSeq(q, 1, Len(q)) = <<q[1]>> \o SubSeq(q, 1 + 1, Len(q))
    BY <2>5, SubSeqRecursiveFirst
  <2> QED BY <2>1, <2>2, <2>3, <2>4, <2>5, <2>6
<1>2. Append(s, Head(q)) = s \o <<Head(q)>>
  BY <1>1, AppendIsConcat
<1>3. (s \o <<Head(q)>>) \o Tail(q) = s \o (<<Head(q)>> \o Tail(q))
  <2> DEFINE h == <<Head(q)>>
             t == Tail(q)
  <2>1. h \in Seq(Nat) /\ t \in Seq(Nat)
    BY <1>1
  <2> HIDE DEF h, t
  <2>2. (s \o h) \o t = s \o (h \o t)
    BY <2>1, ThreeParts
  <2> QED BY <2>2 DEF h, t
<1> QED
  BY <1>1, <1>2, <1>3

LEMMA AppendToConcat ==
  ASSUME NEW s \in Seq(Nat), NEW q \in Seq(Nat), NEW c \in Nat
  PROVE  s \o Append(q, c) = Append(s \o q, c) /\ s \o q \in Seq(Nat)
<1>1. s \o q \in Seq(Nat) /\ <<c>> \in Seq(Nat)
  OBVIOUS
<1>2. Append(q, c) = q \o <<c>> /\ Append(s \o q, c) = (s \o q) \o <<c>>
  BY <1>1, AppendIsConcat
<1> QED
  BY <1>1, <1>2, ThreeParts

\* The stored events and the tailers have their types.
LEMMA EventTypes ==
  ASSUME TypeOK
  PROVE  \A i \in DOMAIN events : events[i] \in Event /\ events[i].cursor \in Nat
<1>1. \A i \in DOMAIN events : events[i] \in Event
  BY DEF TypeOK
<1>2. \A e \in Event : e.cursor \in Nat
  BY EpisodicMemoryAssumption DEF Event, Cursor
<1> QED
  BY <1>1, <1>2

LEMMA TailerTypes ==
  ASSUME Types
  PROVE  /\ listed \subseteq Tails
         /\ \A t \in Tails : /\ tail[t] \in Subscriber /\ tail[t].closes \in Nat
                             /\ t \in listed => tail[t].closes = 0
<1>1. listed \subseteq Tails /\ \A t \in listed : tail[t].closes = 0
  BY DEF Types, TypeOK
<1>2. \A t \in Tails : tail[t] \in Subscriber
  BY DEF Types
<1>3. \A s \in Subscriber : s.closes \in Nat
  BY DEF Subscriber
<1> QED
  BY <1>1, <1>2, <1>3

----------------------------------------------------------------------------
(* What the steps do.                                                      *)

\* An append adds one event at the end of the log, under the next cursor.
LEMMA AppendedLog ==
  ASSUME TypeOK, NEW key \in DedupKeys \cup {NoKey}, NEW supersedes,
         AppendNew(key, supersedes)
  PROVE  /\ events' \in Seq(Event)
         /\ DOMAIN events = 1..Len(events) /\ Len(events) \in Nat
         /\ DOMAIN events' = 1..Len(events) + 1
         /\ \A i \in DOMAIN events : /\ events'[i].cursor = events[i].cursor
                                     /\ events'[i].key = events[i].key
         /\ events'[Len(events) + 1].cursor = lastCursor + 1
         /\ events'[Len(events) + 1].key = key
         /\ lastCursor' = lastCursor + 1 /\ lastCursor \in Nat /\ lastCursor' \in 0..MaxEvents
<1> DEFINE I == {i \in DOMAIN events : events[i].cursor \in supersedes}
           new == [cursor |-> lastCursor + 1, key |-> key, deleted |-> FALSE]
<1>1. lastCursor \in 0..MaxEvents /\ lastCursor < MaxEvents /\ MaxEvents \in Nat
  BY EpisodicMemoryAssumption DEF AppendNew, TypeOK
<1>2. new \in Event /\ new.cursor = lastCursor + 1 /\ new.key = key
  BY <1>1 DEF Event, Cursor
<1>3. events' = Append(Tombstoned(I), new)
  BY DEF AppendNew, NextCursor, Tombstoned
<1>4. /\ Tombstoned(I) \in Seq(Event) /\ Len(Tombstoned(I)) = Len(events)
      /\ DOMAIN Tombstoned(I) = DOMAIN events
      /\ \A i \in DOMAIN events : /\ Tombstoned(I)[i].cursor = events[i].cursor
                                  /\ Tombstoned(I)[i].key = events[i].key
  BY TombstonedIsLog
<1>5. DOMAIN events = 1..Len(events) /\ Len(events) \in Nat
  BY DEF TypeOK
<1> HIDE DEF I, new
<1>6. /\ events' \in Seq(Event) /\ DOMAIN events' = 1..Len(events) + 1
      /\ \A i \in DOMAIN events : events'[i] = Tombstoned(I)[i]
      /\ events'[Len(events) + 1] = new
  BY <1>2, <1>3, <1>4, <1>5
<1>7. lastCursor' = lastCursor + 1 /\ lastCursor' \in 0..MaxEvents /\ lastCursor \in Nat
  BY <1>1 DEF AppendNew, NextCursor
<1> QED
  BY <1>2, <1>4, <1>5, <1>6, <1>7

\* The fan-out reaches every registered tailer, or detaches it.
LEMMA FanOutReaches ==
  ASSUME Types, NEW c \in Nat, FanOut(c), NEW t \in Tails
  PROVE  \/ t \notin listed /\ t \notin listed' /\ tail'[t] = tail[t]
         \/ /\ t \in listed /\ t \in listed' /\ HasRoom(t)
            /\ tail'[t] = [tail[t] EXCEPT !.ch = Append(@, c)]
         \/ /\ t \in listed /\ t \notin listed'
            /\ tail'[t] = [tail[t] EXCEPT !.lagged = TRUE, !.closes = @ + 1]
<1>1. CASE t \notin listed
  BY <1>1 DEF FanOut
<1>2. CASE t \in listed /\ HasRoom(t)
  BY <1>2 DEF FanOut
<1>3. CASE t \in listed /\ ~ HasRoom(t)
  BY <1>3 DEF FanOut
<1> QED
  BY <1>1, <1>2, <1>3

\* The progress of a registered tailer takes events from its history and its
\* channel to what it yielded; it changes neither sequence as a whole.
Progresses(t) ==
  /\ tail'[t] \in Subscriber
  /\ \A u \in Tails \ {t} : tail'[u] = tail[u]
  /\ DOMAIN tail' = Tails
  /\ LiveFeed(t)' = LiveFeed(t) /\ Past(t)' = Past(t)
  /\ tail'[t].head = tail[t].head /\ tail'[t].lagged = tail[t].lagged
  /\ Len(tail'[t].ch) <= Len(tail[t].ch)
  /\ \/ tail'[t].closes = tail[t].closes /\ listed' = listed
     \/ tail[t].closes = 0 /\ tail'[t].closes = 1 /\ listed' = listed \ {t}
     \/ tail[t].closes # 0 /\ tail'[t].closes = tail[t].closes /\ listed' = listed \ {t}
  /\ UNCHANGED <<open, logVars>>

LEMMA ProgressOfATail ==
  ASSUME Types, NEW t \in Tails, TailStep(t) \/ TailQuit(t) \/ TailRefused(t)
  PROVE  Progresses(t)
<1> DEFINE s == tail[t]
<1>1. tail \in [Tails -> Subscriber] /\ s \in Subscriber
  BY DEF Types
<1>2. /\ s.pc \in {"ready", "tailing"} \cup Ended /\ s.history \in Seq(Nat)
      /\ s.ch \in Seq(Nat) /\ s.lagged \in BOOLEAN /\ s.closes \in Nat
      /\ s.head \in Nat /\ s.got \in Seq(Nat) /\ s.replayed \in Seq(Nat)
  BY <1>1 DEF Subscriber
<1>3. CASE TailReplay(t)
  <2> DEFINE h == Tail(s.history)
             r == Append(s.replayed, Head(s.history))
             new == [s EXCEPT !.history = h, !.replayed = r]
  <2>1. h \in Seq(Nat) /\ r \in Seq(Nat) /\ r \o h = s.replayed \o s.history
    BY <1>2, <1>3, MoveHead DEF TailReplay
  <2>2. tail' = [tail EXCEPT ![t] = new]
    BY <1>1, <1>3 DEF TailReplay
  <2> HIDE DEF h, r
  <2>3. /\ new \in Subscriber /\ new.history = h /\ new.replayed = r /\ new.ch = s.ch
        /\ new.got = s.got /\ new.closes = s.closes /\ new.lagged = s.lagged
        /\ new.head = s.head
    BY <1>1, <2>1 DEF Subscriber
  <2> HIDE DEF new
  <2>4. tail'[t] = new /\ DOMAIN tail' = Tails /\ \A u \in Tails \ {t} : tail'[u] = tail[u]
    BY <1>1, <2>2
  <2>5. Past(t)' = Past(t) /\ LiveFeed(t)' = LiveFeed(t)
    BY <2>1, <2>3, <2>4 DEF Past, LiveFeed
  <2>6. UNCHANGED <<open, logVars, listed>> /\ Len(new.ch) <= Len(s.ch)
    BY <1>2, <1>3, <2>3 DEF TailReplay
  <2> QED BY <2>3, <2>4, <2>5, <2>6 DEF Progresses
<1>4. CASE TailDeliver(t)
  <2> DEFINE c == Tail(s.ch)
             g == Append(s.got, Head(s.ch))
             new == [s EXCEPT !.ch = c, !.got = g]
  <2>1. c \in Seq(Nat) /\ g \in Seq(Nat) /\ g \o c = s.got \o s.ch
    BY <1>2, <1>4, MoveHead DEF TailDeliver
  <2>2. tail' = [tail EXCEPT ![t] = new]
    BY <1>1, <1>4 DEF TailDeliver
  <2>3. Len(c) <= Len(s.ch)
    BY <1>2, <1>4 DEF TailDeliver
  <2> HIDE DEF c, g
  <2>4. /\ new \in Subscriber /\ new.history = s.history /\ new.replayed = s.replayed
        /\ new.ch = c /\ new.got = g /\ new.closes = s.closes /\ new.lagged = s.lagged
        /\ new.head = s.head
    BY <1>1, <2>1 DEF Subscriber
  <2> HIDE DEF new
  <2>5. tail'[t] = new /\ DOMAIN tail' = Tails /\ \A u \in Tails \ {t} : tail'[u] = tail[u]
    BY <1>1, <2>2
  <2>6. Past(t)' = Past(t) /\ LiveFeed(t)' = LiveFeed(t)
    BY <2>1, <2>4, <2>5 DEF Past, LiveFeed
  <2>7. UNCHANGED <<open, logVars, listed>>
    BY <1>4 DEF TailDeliver
  <2> QED BY <2>3, <2>4, <2>5, <2>6, <2>7 DEF Progresses
<1>5. CASE TailSeesClosed(t) \/ TailRefused(t)
  <2>1. PICK p \in Ended : tail' = [tail EXCEPT ![t].pc = p]
    BY <1>5 DEF TailSeesClosed, TailRefused, Ended
  <2> DEFINE new == [s EXCEPT !.pc = p]
  <2>2. tail' = [tail EXCEPT ![t] = new]
    BY <1>1, <2>1
  <2>3. /\ new \in Subscriber /\ new.history = s.history /\ new.replayed = s.replayed
        /\ new.ch = s.ch /\ new.got = s.got /\ new.closes = s.closes
        /\ new.lagged = s.lagged /\ new.head = s.head
    BY <1>1 DEF Subscriber
  <2> HIDE DEF new
  <2>4. tail'[t] = new /\ DOMAIN tail' = Tails /\ \A u \in Tails \ {t} : tail'[u] = tail[u]
    BY <1>1, <2>2
  <2>5. Past(t)' = Past(t) /\ LiveFeed(t)' = LiveFeed(t)
    BY <2>3, <2>4 DEF Past, LiveFeed
  <2>6. UNCHANGED <<open, logVars, listed>> /\ Len(new.ch) <= Len(s.ch)
    BY <1>2, <1>5, <2>3 DEF TailSeesClosed, TailRefused
  <2> QED BY <2>3, <2>4, <2>5, <2>6 DEF Progresses
<1>6. CASE TailQuit(t)
  <2> DEFINE n == IF s.closes = 0 THEN 1 ELSE s.closes
             new == [s EXCEPT !.pc = "quit", !.closes = n]
  <2>1. tail' = [tail EXCEPT ![t] = new]
    BY <1>1, <1>6 DEF TailQuit
  <2>2. n \in Nat
    BY <1>2
  <2>3. /\ new \in Subscriber /\ new.history = s.history /\ new.replayed = s.replayed
        /\ new.ch = s.ch /\ new.got = s.got /\ new.closes = n
        /\ new.lagged = s.lagged /\ new.head = s.head
    BY <1>1, <2>2 DEF Subscriber, Ended
  <2> HIDE DEF new
  <2>4. tail'[t] = new /\ DOMAIN tail' = Tails /\ \A u \in Tails \ {t} : tail'[u] = tail[u]
    BY <1>1, <2>1
  <2>5. Past(t)' = Past(t) /\ LiveFeed(t)' = LiveFeed(t)
    BY <2>3, <2>4 DEF Past, LiveFeed
  <2>6. UNCHANGED <<open, logVars>> /\ listed' = listed \ {t} /\ Len(new.ch) <= Len(s.ch)
    BY <1>2, <1>6, <2>3 DEF TailQuit
  <2> QED BY <2>3, <2>4, <2>5, <2>6 DEF Progresses
<1> QED
  BY <1>3, <1>4, <1>5, <1>6 DEF TailStep

\* A new tailer has the history up to its head and an empty channel.
Starts(t) ==
  /\ tail'[t] \in Subscriber
  /\ \A u \in Tails \ {t} : tail'[u] = tail[u]
  /\ DOMAIN tail' = Tails
  /\ LiveFeed(t)' = <<>> /\ tail'[t].ch = <<>>
  /\ tail'[t].head = lastCursor /\ tail'[t].lagged = FALSE /\ tail'[t].closes = 0
  /\ \A i \in 1..Len(Past(t)') : Past(t)'[i] <= lastCursor
  /\ \A i, j \in 1..Len(Past(t)') : i < j => Past(t)'[i] < Past(t)'[j]
  /\ listed' = listed \cup {t}
  /\ UNCHANGED <<open, logVars>>

LEMMA StartOfATail ==
  ASSUME Types, LogInv, NEW t \in Tails, NEW after, NEW historical,
         TailStart(t, after, historical)
  PROVE  Starts(t)
<1> DEFINE I == {i \in DOMAIN events : historical /\ events[i].cursor > after}
           past == EventsAt(I)
           h == [n \in DOMAIN past |-> past[n].cursor]
           new == [NewTail EXCEPT !.pc = "tailing", !.head = lastCursor, !.history = h]
<1>1. /\ tail \in [Tails -> Subscriber] /\ lastCursor \in Nat
      /\ \A i \in DOMAIN events : events[i] \in Event
  BY EpisodicMemoryAssumption DEF Types, TypeOK
<1>2. tail' = [tail EXCEPT ![t] = new] /\ listed' = listed \cup {t}
      /\ UNCHANGED <<open, logVars>>
  BY DEF TailStart
<1> HIDE DEF I
<1>3. /\ past \in Seq(Event)
      /\ \A n \in DOMAIN past : \E i \in DOMAIN events : past[n] = events[i]
      /\ \A m, n \in DOMAIN past : m < n =>
           \E i, j \in DOMAIN events : i < j /\ past[m] = events[i] /\ past[n] = events[j]
  <2>1. I \in SUBSET DOMAIN events
    BY DEF I
  <2> QED BY <2>1, EventsAtIsLog DEF Types
<1> HIDE DEF past
<1>4. \A n \in DOMAIN past : past[n].cursor \in Nat /\ past[n].cursor <= lastCursor
  <2>1. \A i \in DOMAIN events : events[i].cursor \in Nat
    BY <1>1, EpisodicMemoryAssumption DEF Event, Cursor
  <2> QED BY <1>3, <2>1 DEF LogInv
<1>5. \A m, n \in DOMAIN past : m < n => past[m].cursor < past[n].cursor
  BY <1>3 DEF LogInv
<1>6. DOMAIN past = 1..Len(past) /\ Len(past) \in Nat
  BY <1>3
<1>7. h \in Seq(Nat) /\ DOMAIN h = DOMAIN past /\ Len(h) = Len(past)
      /\ \A n \in DOMAIN past : h[n] = past[n].cursor
  <2>1. h \in [1..Len(past) -> Nat]
    BY <1>4, <1>6
  <2>2. h \in Seq(Nat)
    BY <1>6, <2>1, SeqDef
  <2> QED BY <1>6, <2>1, <2>2
<1> HIDE DEF h
<1>8. <<>> \in Seq(Nat)
  OBVIOUS
<1>9. /\ new \in Subscriber /\ new.history = h /\ new.replayed = <<>> /\ new.ch = <<>>
      /\ new.got = <<>> /\ new.closes = 0 /\ new.lagged = FALSE /\ new.head = lastCursor
  BY <1>1, <1>7, <1>8 DEF Subscriber, NewTail
<1> HIDE DEF new
<1>10. tail'[t] = new /\ DOMAIN tail' = Tails /\ \A u \in Tails \ {t} : tail'[u] = tail[u]
  BY <1>1, <1>2
<1>11. LiveFeed(t)' = <<>> /\ Past(t)' = h
  <2>1. <<>> \o <<>> = <<>> /\ <<>> \o h = h
    BY <1>7, <1>8, ConcatEmptySeq
  <2> QED BY <1>9, <1>10, <2>1 DEF LiveFeed, Past
<1>12. /\ \A i \in 1..Len(h) : h[i] <= lastCursor
       /\ \A i, j \in 1..Len(h) : i < j => h[i] < h[j]
  BY <1>4, <1>5, <1>6, <1>7
<1> QED
  BY <1>2, <1>9, <1>10, <1>11, <1>12 DEF Starts

----------------------------------------------------------------------------
(* Types, and the order of the log.                                        *)

\* No operation, and no step of a tailer, leaves the types.
LEMMA TypesStep ==
  ASSUME Types, LogInv, [Next]_vars
  PROVE  Types'
<1> USE EpisodicMemoryAssumption
<1>1. CASE UNCHANGED vars
  BY <1>1 DEF vars, Types, TypeOK
<1>2. ASSUME NEW key \in DedupKeys, AppendReplay(key) PROVE Types'
  BY <1>2 DEF AppendReplay, vars, Types, TypeOK
<1>3. ASSUME NEW key \in DedupKeys \cup {NoKey}, NEW supersedes, AppendNew(key, supersedes)
      PROVE  Types'
  <2> DEFINE c == lastCursor + 1
  <2>1. events' \in Seq(Event) /\ lastCursor' \in 0..MaxEvents /\ c \in Nat
    BY <1>3, AppendedLog DEF Types
  <2>2. FanOut(c) /\ open' = open
    BY <1>3 DEF AppendNew, NextCursor
  <2> HIDE DEF c
  <2>3. ASSUME NEW t \in Tails
        PROVE  /\ tail'[t] \in Subscriber /\ Len(tail'[t].ch) <= Buffer
               /\ t \in listed' => tail'[t].closes = 0
               /\ tail'[t].lagged => tail'[t].closes > 0
    <3> DEFINE s == tail[t]
    <3>1. /\ s \in Subscriber /\ s.ch \in Seq(Nat) /\ s.closes \in Nat
          /\ s.lagged \in BOOLEAN /\ Len(s.ch) <= Buffer
          /\ t \in listed => s.closes = 0
          /\ s.lagged => s.closes > 0
      BY DEF Types, TypeOK, Subscriber
    <3>2. CASE t \notin listed /\ t \notin listed' /\ tail'[t] = tail[t]
      BY <3>1, <3>2
    <3>3. CASE /\ t \in listed /\ t \in listed' /\ HasRoom(t)
               /\ tail'[t] = [tail[t] EXCEPT !.ch = Append(@, c)]
      <4> DEFINE q == Append(s.ch, c)
      <4>1. q \in Seq(Nat) /\ Len(q) <= Buffer
        BY <2>1, <3>1, <3>3 DEF HasRoom
      <4> HIDE DEF q
      <4>2. tail'[t] = [s EXCEPT !.ch = q]
        BY <3>3 DEF q
      <4>3. tail'[t] \in Subscriber /\ tail'[t].ch = q
            /\ tail'[t].closes = s.closes /\ tail'[t].lagged = s.lagged
        BY <3>1, <4>1, <4>2 DEF Subscriber
      <4> QED BY <3>1, <3>3, <4>1, <4>3
    <3>4. CASE /\ t \in listed /\ t \notin listed'
               /\ tail'[t] = [tail[t] EXCEPT !.lagged = TRUE, !.closes = @ + 1]
      <4>1. s.closes + 1 \in Nat /\ s.closes + 1 > 0
        BY <3>1
      <4>2. tail'[t] \in Subscriber /\ tail'[t].ch = s.ch /\ tail'[t].closes = s.closes + 1
        BY <3>1, <3>4, <4>1 DEF Subscriber
      <4> QED BY <3>1, <3>4, <4>1, <4>2
    <3> QED BY <2>1, <2>2, <3>2, <3>3, <3>4, FanOutReaches
  <2>4. DOMAIN tail' = Tails /\ listed' \subseteq listed
    BY <2>2 DEF FanOut
  <2>5. tail' \in [Tails -> Subscriber]
    <3>1. tail' = [t \in Tails |-> tail'[t]]
      BY <2>2 DEF FanOut
    <3> QED BY <2>3, <3>1
  <2>6. \A t \in Tails : tail'[t].pc \in {"ready", "tailing"} \cup Ended
    BY <2>3 DEF Subscriber
  <2> QED BY <2>1, <2>2, <2>3, <2>4, <2>5, <2>6 DEF Types, TypeOK
<1>4. ASSUME NEW before, NEW maxRows, ExpireSoft(before, maxRows) PROVE Types'
  <2>1. PICK I : events' = Tombstoned(I)
    BY <1>4 DEF ExpireSoft, Tombstoned
  <2>2. events' \in Seq(Event)
    BY <2>1, TombstonedIsLog DEF Types
  <2> QED BY <1>4, <2>2 DEF ExpireSoft, Types, TypeOK
<1>5. ASSUME NEW before, NEW maxRows, ExpireHard(before, maxRows) PROVE Types'
  <2>1. PICK I \in SUBSET DOMAIN events : events' = EventsAt(I)
    BY <1>5 DEF ExpireHard
  <2>2. events' \in Seq(Event)
    BY <2>1, EventsAtIsLog DEF Types
  <2> QED BY <1>5, <2>2 DEF ExpireHard, Types, TypeOK
<1>6. ASSUME NEW t \in Tails, NEW after, NEW historical, TailStart(t, after, historical)
      PROVE  Types'
  <2>1. Starts(t)
    BY <1>6, StartOfATail
  <2>2. tail' \in [Tails -> Subscriber]
    <3>1. tail' = [tail EXCEPT ![t] = tail'[t]]
      BY <1>6 DEF TailStart, Types
    <3>2. tail'[t] \in Subscriber
      BY <2>1 DEF Starts
    <3> QED BY <3>1, <3>2 DEF Types
  <2>3. \A u \in Tails : tail'[u].pc \in {"ready", "tailing"} \cup Ended
    BY <2>2 DEF Subscriber
  <2>4. Len(tail'[t].ch) <= Buffer
    BY <2>1 DEF Starts
  <2>5. /\ listed' \subseteq Tails
        /\ \A u \in listed' : tail'[u].closes = 0
        /\ \A u \in Tails : /\ Len(tail'[u].ch) <= Buffer
                            /\ tail'[u].lagged => tail'[u].closes > 0
    BY <2>1, <2>4 DEF Starts, Types, TypeOK
  <2> QED BY <2>1, <2>2, <2>3, <2>5 DEF Starts, logVars, Types, TypeOK
<1>7. ASSUME NEW t \in Tails, TailStep(t) \/ TailQuit(t) \/ TailRefused(t) PROVE Types'
  <2>1. Progresses(t)
    BY <1>7, ProgressOfATail
  <2>2. tail' \in [Tails -> Subscriber]
    <3>1. tail' = [u \in Tails |-> tail'[u]]
      BY <1>7 DEF TailStep, TailReplay, TailDeliver, TailSeesClosed, TailQuit, TailRefused,
                  Types
    <3>2. \A u \in Tails : tail'[u] \in Subscriber
      BY <2>1 DEF Progresses, Types
    <3> QED BY <3>1, <3>2
  <2>3. \A u \in Tails : tail'[u].pc \in {"ready", "tailing"} \cup Ended
    BY <2>2 DEF Subscriber
  <2>4. /\ tail[t].closes \in Nat /\ tail'[t].closes \in Nat
        /\ Len(tail[t].ch) \in Nat /\ Len(tail'[t].ch) \in Nat
    <3>1. tail[t] \in Subscriber /\ tail'[t] \in Subscriber
      BY <2>2 DEF Types
    <3>2. tail[t].ch \in Seq(Nat) /\ tail'[t].ch \in Seq(Nat)
      BY <3>1 DEF Subscriber
    <3>3. tail[t].closes \in Nat /\ tail'[t].closes \in Nat
      BY <3>1 DEF Subscriber
    <3> QED BY <3>2, <3>3, LenProperties
  <2>5. /\ listed' \subseteq Tails
        /\ \A u \in listed' : tail'[u].closes = 0
        /\ \A u \in Tails : tail'[u].lagged => tail'[u].closes > 0
    BY <2>1, <2>4 DEF Progresses, Types, TypeOK
  <2>6. \A u \in Tails : Len(tail'[u].ch) <= Buffer
    BY <2>1, <2>4 DEF Progresses, Types, TypeOK
  <2> QED BY <2>1, <2>2, <2>3, <2>5, <2>6 DEF Progresses, logVars, Types, TypeOK
<1>8. CASE Close
  <2>1. /\ \A t \in Tails : tail'[t] = IF t \in listed
                                       THEN [tail[t] EXCEPT !.closes = @ + 1] ELSE tail[t]
        /\ tail' = [t \in Tails |-> tail'[t]]
    BY <1>8 DEF Close
  <2>2. ASSUME NEW t \in Tails
        PROVE  /\ tail'[t] \in Subscriber /\ tail'[t].ch = tail[t].ch
               /\ tail'[t].lagged => tail'[t].closes > 0
    <3>1. tail[t] \in Subscriber /\ tail[t].closes \in Nat
          /\ (tail[t].lagged => tail[t].closes > 0)
      BY DEF Types, TypeOK, Subscriber
    <3>2. tail[t].closes + 1 \in Nat /\ tail[t].closes + 1 > 0
      BY <3>1
    <3>3. CASE t \in listed
      <4>1. tail'[t] = [tail[t] EXCEPT !.closes = @ + 1]
        BY <2>1, <3>3
      <4> QED BY <3>1, <3>2, <4>1 DEF Subscriber
    <3>4. CASE t \notin listed
      BY <2>1, <3>1, <3>4
    <3> QED BY <3>3, <3>4
  <2>3. tail' \in [Tails -> Subscriber]
    BY <2>1, <2>2
  <2>4. \A u \in Tails : tail'[u].pc \in {"ready", "tailing"} \cup Ended
    BY <2>2 DEF Subscriber
  <2>5. open' = FALSE /\ listed' = {} /\ UNCHANGED logVars
    BY <1>8 DEF Close
  <2> QED BY <2>2, <2>3, <2>4, <2>5 DEF logVars, Types, TypeOK
<1> QED
  BY <1>1, <1>2, <1>3, <1>4, <1>5, <1>6, <1>7, <1>8 DEF Next

\* Appends extend the order, soft deletes keep the cursors and hard deletes
\* leave the rest of the log in its order.
LEMMA LogStep ==
  ASSUME Types, LogInv, [Next]_vars
  PROVE  LogInv'
<1>1. CASE UNCHANGED <<events, lastCursor>>
  BY <1>1 DEF LogInv
<1>2. ASSUME NEW key \in DedupKeys \cup {NoKey}, NEW supersedes, AppendNew(key, supersedes)
      PROVE  LogInv'
  <2>1. /\ DOMAIN events = 1..Len(events) /\ Len(events) \in Nat
        /\ DOMAIN events' = 1..Len(events) + 1
        /\ \A i \in DOMAIN events : events'[i].cursor = events[i].cursor
        /\ events'[Len(events) + 1].cursor = lastCursor + 1
        /\ lastCursor' = lastCursor + 1 /\ lastCursor \in Nat
    BY <1>2, AppendedLog DEF Types
  <2>2. \A i \in DOMAIN events : events[i].cursor \in Nat
    BY EventTypes DEF Types
  <2>3. \A i \in DOMAIN events' : i \in DOMAIN events \/ i = Len(events) + 1
    BY <2>1
  <2>4. \A i \in DOMAIN events' : events'[i].cursor <= lastCursor'
    BY <2>1, <2>2, <2>3 DEF LogInv
  <2>5. ASSUME NEW i \in DOMAIN events', NEW j \in DOMAIN events', i < j
        PROVE  events'[i].cursor < events'[j].cursor
    <3>1. i \in DOMAIN events
      BY <2>1, <2>5
    <3>2. CASE j \in DOMAIN events
      BY <2>1, <2>5, <3>1, <3>2 DEF LogInv
    <3>3. CASE j = Len(events) + 1
      BY <2>1, <2>2, <3>1, <3>3 DEF LogInv
    <3> QED BY <2>3, <3>2, <3>3
  <2> QED BY <2>4, <2>5 DEF LogInv
<1>3. ASSUME NEW before, NEW maxRows, ExpireSoft(before, maxRows) PROVE LogInv'
  <2>1. PICK I : events' = Tombstoned(I)
    BY <1>3 DEF ExpireSoft, Tombstoned
  <2>2. DOMAIN events' = DOMAIN events /\ lastCursor' = lastCursor
        /\ \A i \in DOMAIN events : events'[i].cursor = events[i].cursor
    BY <1>3, <2>1, TombstonedIsLog DEF ExpireSoft, Types
  <2> QED BY <2>2 DEF LogInv
<1>4. ASSUME NEW before, NEW maxRows, ExpireHard(before, maxRows) PROVE LogInv'
  <2>1. PICK I \in SUBSET DOMAIN events : events' = EventsAt(I)
    BY <1>4 DEF ExpireHard
  <2>2. /\ \A n \in DOMAIN events' : \E i \in I : events'[n] = events[i]
        /\ \A m, n \in DOMAIN events' : m < n =>
             \E i, j \in I : i < j /\ events'[m] = events[i] /\ events'[n] = events[j]
    BY <2>1, EventsAtIsLog DEF Types
  <2>3. lastCursor' = lastCursor
    BY <1>4 DEF ExpireHard
  <2> QED BY <2>2, <2>3 DEF LogInv
<1> QED
  BY <1>1, <1>2, <1>3, <1>4
     DEF Next, AppendReplay, TailStart, TailRefused, TailStep, TailReplay, TailDeliver,
         TailSeesClosed, TailQuit, Close, logVars, vars

\* TypeOK as a theorem of the specification: the tailers listed are open, and
\* the log stays in cursor order, for any number of events and tailers.
THEOREM TypeCorrect == Spec => [](Types /\ LogInv)
<1> USE EpisodicMemoryAssumption
<1>1. Init => Types
  <2>1. NewTail \in Subscriber /\ Len(NewTail.ch) = 0 /\ NewTail.lagged = FALSE
    BY DEF NewTail, Subscriber
  <2>2. <<>> \in Seq(Event)
    OBVIOUS
  <2> SUFFICES ASSUME Init PROVE Types
    OBVIOUS
  <2>3. tail \in [Tails -> Subscriber] /\ \A t \in Tails : tail[t] = NewTail
    BY <2>1 DEF Init
  <2>4. \A t \in Tails : /\ tail[t].pc \in {"ready", "tailing"} \cup Ended
                         /\ Len(tail[t].ch) <= Buffer
                         /\ tail[t].lagged => tail[t].closes > 0
    BY <2>1, <2>3 DEF Subscriber
  <2>5. open \in BOOLEAN /\ events \in Seq(Event) /\ lastCursor \in 0..MaxEvents /\ listed = {}
    BY <2>2 DEF Init
  <2> QED BY <2>3, <2>4, <2>5 DEF Types, TypeOK
<1>2. Init => LogInv
  BY DEF Init, LogInv
<1> QED
  BY <1>1, <1>2, TypesStep, LogStep, PTL DEF Spec

----------------------------------------------------------------------------
(* Tailers.                                                                *)

\* A send on a full channel and Close close the channels of listed tailers
\* only, and a tailer that quits closes them unless they are closed.
LEMMA CloseStep ==
  ASSUME Types, LogInv, ChannelsClosedOnce, [Next]_vars
  PROVE  ChannelsClosedOnce'
<1>1. CASE UNCHANGED tail
  BY <1>1 DEF ChannelsClosedOnce
<1>2. ASSUME NEW key \in DedupKeys \cup {NoKey}, NEW supersedes, AppendNew(key, supersedes)
      PROVE  ChannelsClosedOnce'
  <2>0. lastCursor \in Nat
    BY <1>2, AppendedLog DEF Types
  <2>1. FanOut(lastCursor + 1) /\ lastCursor + 1 \in Nat
    BY <1>2, <2>0 DEF AppendNew, NextCursor
  <2>2. ASSUME NEW t \in Tails PROVE tail'[t].closes <= 1
    <3>1. tail[t] \in Subscriber /\ tail[t].closes <= 1 /\ (t \in listed => tail[t].closes = 0)
      BY TailerTypes DEF ChannelsClosedOnce
    <3>2. CASE tail'[t] = tail[t]
      BY <3>1, <3>2
    <3>3. CASE tail'[t] = [tail[t] EXCEPT !.ch = Append(@, lastCursor + 1)]
      BY <3>1, <3>3 DEF Subscriber
    <3>4. CASE t \in listed /\ tail'[t] = [tail[t] EXCEPT !.lagged = TRUE, !.closes = @ + 1]
      BY <3>1, <3>4 DEF Subscriber
    <3> QED BY <2>1, <3>2, <3>3, <3>4, FanOutReaches
  <2> QED BY <2>2 DEF ChannelsClosedOnce
<1>3. ASSUME NEW t \in Tails, NEW after, NEW historical, TailStart(t, after, historical)
      PROVE  ChannelsClosedOnce'
  <2>1. tail'[t].closes = 0 /\ \A u \in Tails \ {t} : tail'[u] = tail[u]
    BY <1>3, StartOfATail DEF Starts
  <2> QED BY <2>1 DEF ChannelsClosedOnce
<1>4. ASSUME NEW t \in Tails, TailStep(t) \/ TailQuit(t) \/ TailRefused(t)
      PROVE  ChannelsClosedOnce'
  <2>1. tail'[t].closes \in {tail[t].closes, 1} /\ \A u \in Tails \ {t} : tail'[u] = tail[u]
    BY <1>4, ProgressOfATail DEF Progresses
  <2> QED BY <2>1 DEF ChannelsClosedOnce
<1>5. CASE Close
  <2>1. \A t \in Tails : tail'[t] = IF t \in listed
                                    THEN [tail[t] EXCEPT !.closes = @ + 1] ELSE tail[t]
    BY <1>5 DEF Close
  <2>2. listed \subseteq Tails
        /\ \A t \in Tails : tail[t] \in Subscriber /\ (t \in listed => tail[t].closes = 0)
    BY TailerTypes
  <2>3. ASSUME NEW t \in listed PROVE tail'[t].closes = 1
    <3>1. tail'[t] = [tail[t] EXCEPT !.closes = @ + 1] /\ tail[t].closes = 0
      BY <2>1, <2>2
    <3>2. tail[t] \in Subscriber
      BY <2>2
    <3> QED BY <3>1, <3>2 DEF Subscriber
  <2>4. \A t \in Tails \ listed : tail'[t] = tail[t]
    BY <2>1
  <2> QED BY <2>3, <2>4 DEF ChannelsClosedOnce
<1> QED
  BY <1>1, <1>2, <1>3, <1>4, <1>5
     DEF Next, AppendReplay, ExpireSoft, ExpireHard, vars

\* No channel is closed twice, whichever of lag, Close, cancellation and a
\* failing yield meet.
THEOREM ClosedOnce == Spec => []ChannelsClosedOnce
<1>1. Init => ChannelsClosedOnce
  BY DEF Init, NewTail, ChannelsClosedOnce
<1> QED
  BY <1>1, TypeCorrect, CloseStep, PTL DEF Spec

\* The registration and the fan-out share the log's lock, so what a tailer is
\* sent continues from its head without a gap; a full channel ends it.
LEMMA FeedStep ==
  ASSUME Types, LogInv, FeedInv, [Next]_vars
  PROVE  FeedInv'
<1>1. CASE UNCHANGED <<tail, listed, lastCursor>>
  BY <1>1 DEF FeedInv, LiveFeed
<1>2. ASSUME NEW key \in DedupKeys \cup {NoKey}, NEW supersedes, AppendNew(key, supersedes)
      PROVE  FeedInv'
  <2> DEFINE c == lastCursor + 1
  <2>0. lastCursor \in Nat /\ c \in Nat
    BY <1>2, AppendedLog DEF Types
  <2>1. FanOut(c) /\ lastCursor' = c
    BY <1>2 DEF AppendNew, NextCursor
  <2>2. ASSUME NEW t \in Tails
        PROVE  /\ \A i \in 1..Len(LiveFeed(t)') : LiveFeed(t)'[i] = tail'[t].head + i
               /\ t \in listed' => c = tail'[t].head + Len(LiveFeed(t)')
    <3> DEFINE s == tail[t]
               feed == s.got \o s.ch
    <3>1. /\ s \in Subscriber /\ s.got \in Seq(Nat) /\ s.ch \in Seq(Nat) /\ s.head \in Nat
          /\ feed \in Seq(Nat)
      BY DEF Types, Subscriber
    <3>2. /\ \A i \in 1..Len(feed) : feed[i] = s.head + i
          /\ t \in listed => lastCursor = s.head + Len(feed)
      BY DEF FeedInv, LiveFeed
    <3>3. CASE t \notin listed' /\ tail'[t] = s
      BY <3>2, <3>3 DEF LiveFeed
    <3>4. CASE t \in listed /\ tail'[t] = [s EXCEPT !.ch = Append(@, c)]
      <4>1. tail'[t].got = s.got /\ tail'[t].ch = Append(s.ch, c) /\ tail'[t].head = s.head
        BY <3>1, <3>4 DEF Subscriber
      <4>2. LiveFeed(t)' = s.got \o Append(s.ch, c)
        BY <4>1 DEF LiveFeed
      <4>3. s.got \o Append(s.ch, c) = Append(feed, c)
        <5> HIDE DEF c
        <5> QED BY <2>0, <3>1, AppendToConcat
      <4> HIDE DEF feed
      <4>4. Len(Append(feed, c)) = Len(feed) + 1 /\ Append(feed, c)[Len(feed) + 1] = c
            /\ \A i \in 1..Len(feed) : Append(feed, c)[i] = feed[i]
            /\ Len(feed) \in Nat
        BY <2>0, <3>1
      <4>5. c = s.head + (Len(feed) + 1)
        <5>1. lastCursor = s.head + Len(feed)
          BY <3>2, <3>4
        <5>2. s.head \in Nat /\ Len(feed) \in Nat
          BY <3>1, <4>4
        <5> QED BY <2>0, <5>1, <5>2
      <4>6. \A i \in 1..Len(feed) + 1 : Append(feed, c)[i] = s.head + i
        BY <3>2, <4>4, <4>5
      <4> QED BY <4>1, <4>2, <4>3, <4>4, <4>5, <4>6
    <3>5. CASE t \notin listed' /\ tail'[t] = [s EXCEPT !.lagged = TRUE, !.closes = @ + 1]
      <4>1. tail'[t].got = s.got /\ tail'[t].ch = s.ch /\ tail'[t].head = s.head
        BY <3>1, <3>5 DEF Subscriber
      <4> QED BY <3>2, <3>5, <4>1 DEF LiveFeed
    <3> HIDE DEF c
    <3> QED BY <2>0, <2>1, <3>3, <3>4, <3>5, FanOutReaches
  <2> QED BY <2>1, <2>2 DEF FeedInv
<1>3. ASSUME NEW t \in Tails, NEW after, NEW historical, TailStart(t, after, historical)
      PROVE  FeedInv'
  <2>1. Starts(t)
    BY <1>3, StartOfATail
  <2>2. lastCursor' = lastCursor /\ lastCursor \in Nat
    BY <2>1 DEF Starts, logVars, Types, TypeOK
  <2>3. ASSUME NEW u \in Tails \ {t} PROVE LiveFeed(u)' = LiveFeed(u)
    BY <2>1 DEF Starts, LiveFeed
  <2>4. Len(LiveFeed(t)') = 0
    BY <2>1 DEF Starts
  <2> QED BY <2>1, <2>2, <2>3, <2>4 DEF Starts, FeedInv
<1>4. ASSUME NEW t \in Tails, TailStep(t) \/ TailQuit(t) \/ TailRefused(t)
      PROVE  FeedInv'
  <2>1. Progresses(t)
    BY <1>4, ProgressOfATail
  <2>2. ASSUME NEW u \in Tails PROVE LiveFeed(u)' = LiveFeed(u) /\ tail'[u].head = tail[u].head
    BY <2>1 DEF Progresses, LiveFeed
  <2> QED BY <2>1, <2>2 DEF Progresses, logVars, FeedInv
<1>5. CASE Close
  <2>1. \A t \in Tails : tail'[t] = IF t \in listed
                                    THEN [tail[t] EXCEPT !.closes = @ + 1] ELSE tail[t]
    BY <1>5 DEF Close
  <2>2. \A t \in Tails : tail[t] \in Subscriber
    BY DEF Types
  <2>3. ASSUME NEW u \in Tails PROVE LiveFeed(u)' = LiveFeed(u) /\ tail'[u].head = tail[u].head
    BY <2>1, <2>2 DEF LiveFeed, Subscriber
  <2>4. listed' = {}
    BY <1>5 DEF Close
  <2> QED BY <2>3, <2>4 DEF FeedInv
<1> QED
  BY <1>1, <1>2, <1>3, <1>4, <1>5
     DEF Next, AppendReplay, ExpireSoft, ExpireHard, vars

\* A registered tailer misses nothing, and holds nothing twice, although the
\* log is rewritten by Expire and other tailers come and go meanwhile.
THEOREM TailersMissNothing == Spec => []TailerMissesNothing
<1>1. Init => FeedInv
  <2>1. ASSUME Init, NEW t \in Tails PROVE LiveFeed(t) = <<>> /\ t \notin listed
    <3>1. tail[t].got = <<>> /\ tail[t].ch = <<>> /\ listed = {}
      BY <2>1 DEF Init, NewTail
    <3>2. <<>> \o <<>> = <<>>
      BY ConcatEmptySeq
    <3> QED BY <3>1, <3>2 DEF LiveFeed
  <2> QED BY <2>1 DEF FeedInv
<1>2. Types /\ FeedInv => TailerMissesNothing
  <2> SUFFICES ASSUME Types, FeedInv, NEW t \in listed
               PROVE  LiveFeed(t) = [i \in 1..(lastCursor - tail[t].head) |-> tail[t].head + i]
    BY DEF TailerMissesNothing
  <2>1. t \in Tails /\ tail[t] \in Subscriber
    BY TailerTypes
  <2>2. LiveFeed(t) \in Seq(Nat) /\ tail[t].head \in Nat
    BY <2>1 DEF Subscriber, LiveFeed
  <2>3. /\ \A i \in 1..Len(LiveFeed(t)) : LiveFeed(t)[i] = tail[t].head + i
        /\ lastCursor = tail[t].head + Len(LiveFeed(t))
    BY <2>1 DEF FeedInv
  <2> DEFINE s == LiveFeed(t)
             n == lastCursor - tail[t].head
  <2>4. n = Len(s)
    BY <2>2, <2>3
  <2>5. s = [i \in 1..Len(s) |-> s[i]]
    BY <2>2
  <2> QED BY <2>3, <2>4, <2>5
<1> QED
  BY <1>1, <1>2, TypeCorrect, FeedStep, PTL DEF Spec

\* The history is a snapshot taken with the registration; replaying it, and
\* everything that happens to the log, leaves it as it was.
LEMMA PastStep ==
  ASSUME Types, LogInv, PastInv, [Next]_vars
  PROVE  PastInv'
<1>1. ASSUME \A t \in Tails : Past(t)' = Past(t) /\ tail'[t].head = tail[t].head
      PROVE  PastInv'
  BY <1>1 DEF PastInv
<1>2. CASE UNCHANGED tail
  BY <1>2 DEF PastInv, Past
<1>3. ASSUME NEW key \in DedupKeys \cup {NoKey}, NEW supersedes, AppendNew(key, supersedes)
      PROVE  PastInv'
  <2>1. lastCursor \in Nat
    BY <1>3, AppendedLog DEF Types
  <2>2. FanOut(lastCursor + 1) /\ lastCursor + 1 \in Nat
    BY <1>3, <2>1 DEF AppendNew, NextCursor
  <2>3. ASSUME NEW t \in Tails PROVE Past(t)' = Past(t) /\ tail'[t].head = tail[t].head
    <3>1. tail[t] \in Subscriber
      BY TailerTypes
    <3>2. \/ tail'[t] = tail[t]
          \/ tail'[t] = [tail[t] EXCEPT !.ch = Append(@, lastCursor + 1)]
          \/ tail'[t] = [tail[t] EXCEPT !.lagged = TRUE, !.closes = @ + 1]
      BY <2>2, FanOutReaches
    <3>3. /\ tail'[t].replayed = tail[t].replayed /\ tail'[t].history = tail[t].history
          /\ tail'[t].head = tail[t].head
      BY <3>1, <3>2 DEF Subscriber
    <3> QED BY <3>3 DEF Past
  <2> QED BY <1>1, <2>3
<1>4. ASSUME NEW t \in Tails, NEW after, NEW historical, TailStart(t, after, historical)
      PROVE  PastInv'
  <2>1. Starts(t)
    BY <1>4, StartOfATail
  <2>2. ASSUME NEW u \in Tails \ {t} PROVE Past(u)' = Past(u) /\ tail'[u].head = tail[u].head
    BY <2>1 DEF Starts, Past
  <2> QED BY <2>1, <2>2 DEF Starts, PastInv
<1>5. ASSUME NEW t \in Tails, TailStep(t) \/ TailQuit(t) \/ TailRefused(t)
      PROVE  PastInv'
  <2>1. Progresses(t)
    BY <1>5, ProgressOfATail
  <2>2. ASSUME NEW u \in Tails PROVE Past(u)' = Past(u) /\ tail'[u].head = tail[u].head
    BY <2>1 DEF Progresses, Past
  <2> QED BY <1>1, <2>2
<1>6. CASE Close
  <2>1. ASSUME NEW u \in Tails PROVE Past(u)' = Past(u) /\ tail'[u].head = tail[u].head
    <3>1. tail[u] \in Subscriber
      BY TailerTypes
    <3>2. tail'[u] = IF u \in listed THEN [tail[u] EXCEPT !.closes = @ + 1] ELSE tail[u]
      BY <1>6 DEF Close
    <3>3. /\ tail'[u].replayed = tail[u].replayed /\ tail'[u].history = tail[u].history
          /\ tail'[u].head = tail[u].head
      BY <3>1, <3>2 DEF Subscriber
    <3> QED BY <3>3 DEF Past
  <2> QED BY <1>1, <2>1
<1> QED
  BY <1>2, <1>3, <1>4, <1>5, <1>6 DEF Next, AppendReplay, ExpireSoft, ExpireHard, vars

\* What a tailer was given, history and live, is in cursor order without gaps
\* in the live part, so a client may resume after the last cursor it saw.
THEOREM FeedIsPrefix == Spec => []DetachedFeedIsPrefix
<1>1. Init => PastInv /\ FeedInv
  <2>1. ASSUME Init, NEW t \in Tails
        PROVE  Past(t) = <<>> /\ LiveFeed(t) = <<>> /\ t \notin listed
    <3>1. /\ tail[t].got = <<>> /\ tail[t].ch = <<>> /\ listed = {}
          /\ tail[t].replayed = <<>> /\ tail[t].history = <<>>
      BY <2>1 DEF Init, NewTail
    <3>2. <<>> \o <<>> = <<>>
      BY ConcatEmptySeq
    <3> QED BY <3>1, <3>2 DEF LiveFeed, Past
  <2> QED BY <2>1 DEF FeedInv, PastInv
<1>2. Types /\ PastInv /\ FeedInv => DetachedFeedIsPrefix
  <2> SUFFICES ASSUME Types, PastInv, FeedInv, NEW t \in Tails
               PROVE  LET seen == tail[t].replayed \o tail[t].history \o LiveFeed(t)
                      IN /\ \A i \in 1..Len(LiveFeed(t)) : LiveFeed(t)[i] = tail[t].head + i
                         /\ \A i, j \in 1..Len(seen) : i < j => seen[i] < seen[j]
    BY DEF DetachedFeedIsPrefix
  <2> DEFINE p == Past(t)
             l == LiveFeed(t)
             h == tail[t].head
  <2>1. tail[t] \in Subscriber
    BY TailerTypes
  <2>2. p \in Seq(Nat) /\ l \in Seq(Nat) /\ h \in Nat
    BY <2>1 DEF Subscriber, LiveFeed, Past
  <2>3. /\ \A i \in 1..Len(p) : p[i] <= h
        /\ \A i, j \in 1..Len(p) : i < j => p[i] < p[j]
        /\ \A i \in 1..Len(l) : l[i] = h + i
    BY DEF PastInv, FeedInv
  <2>4. tail[t].replayed \o tail[t].history \o LiveFeed(t) = p \o l
    BY DEF Past
  <2> HIDE DEF p, l, h
  <2> DEFINE q == p \o l
  <2>5. /\ Len(q) = Len(p) + Len(l) /\ Len(p) \in Nat /\ Len(l) \in Nat
        /\ \A i \in 1..Len(p) + Len(l) : q[i] = IF i <= Len(p) THEN p[i] ELSE l[i - Len(p)]
    BY <2>2, ConcatProperties
  <2> HIDE DEF q
  <2>6. ASSUME NEW i \in 1..Len(q), NEW j \in 1..Len(q), i < j PROVE q[i] < q[j]
    <3>1. i \in Nat /\ j \in Nat
      BY <2>5
    <3>2. CASE j <= Len(p)
      <4>1. i \in 1..Len(p) /\ j \in 1..Len(p) /\ q[i] = p[i] /\ q[j] = p[j]
        BY <2>5, <2>6, <3>2
      <4> QED BY <2>3, <2>6, <4>1
    <3>3. CASE i <= Len(p) /\ ~ (j <= Len(p))
      <4>1. i \in 1..Len(p) /\ j - Len(p) \in 1..Len(l) /\ q[i] = p[i] /\ q[j] = l[j - Len(p)]
        BY <2>5, <3>1, <3>3
      <4>2. p[i] <= h /\ l[j - Len(p)] = h + (j - Len(p))
        BY <2>3, <4>1
      <4>3. p[i] \in Nat
        BY <2>2, <4>1, ElementOfSeq
      <4>4. j - Len(p) \in Nat \ {0}
        BY <2>5, <3>1, <3>3
      <4>5. p[i] < h + (j - Len(p))
        BY <2>2, <4>2, <4>3, <4>4
      <4> QED BY <4>1, <4>2, <4>5
    <3>4. CASE ~ (i <= Len(p)) /\ ~ (j <= Len(p))
      <4>1. /\ i - Len(p) \in 1..Len(l) /\ j - Len(p) \in 1..Len(l)
            /\ q[i] = l[i - Len(p)] /\ q[j] = l[j - Len(p)]
        BY <2>5, <3>1, <3>4
      <4>2. l[i - Len(p)] = h + (i - Len(p)) /\ l[j - Len(p)] = h + (j - Len(p))
        BY <2>3, <4>1
      <4> QED BY <2>2, <2>5, <2>6, <3>1, <4>1, <4>2
    <3> QED BY <2>5, <2>6, <3>1, <3>2, <3>3, <3>4
  <2> QED BY <2>3, <2>4, <2>6 DEF l, h, q
<1> QED
  BY <1>1, <1>2, TypeCorrect, FeedStep, PastStep, PTL DEF Spec

----------------------------------------------------------------------------
(* Indexes.                                                                *)

\* An append claims its key and its place, a soft delete moves nothing, and a
\* hard delete rebuilds byID and forgets the keys of events that are gone.
LEMMA IndexStep ==
  ASSUME Types, LogInv, IndexesAgree, [Next]_vars
  PROVE  IndexesAgree'
<1>0. \A i \in DOMAIN events : events[i].cursor \in Nat
  BY EventTypes DEF Types
<1>1. CASE UNCHANGED <<events, byID, dedupToID>>
  BY <1>1 DEF IndexesAgree
<1>2. ASSUME NEW key \in DedupKeys \cup {NoKey}, NEW supersedes, AppendNew(key, supersedes)
      PROVE  IndexesAgree'
  <2> DEFINE c == lastCursor + 1
             n == Len(events) + 1
  <2>1. /\ DOMAIN events = 1..Len(events) /\ Len(events) \in Nat
        /\ DOMAIN events' = 1..n
        /\ \A i \in DOMAIN events : /\ events'[i].cursor = events[i].cursor
                                    /\ events'[i].key = events[i].key
        /\ events'[n].cursor = c /\ events'[n].key = key
        /\ lastCursor \in Nat
    BY <1>2, AppendedLog DEF Types
  <2>2. /\ key \notin DOMAIN dedupToID
        /\ byID' = [x \in DOMAIN byID \cup {c} |-> IF x = c THEN n ELSE byID[x]]
        /\ dedupToID' = [k \in DOMAIN dedupToID \cup ({key} \ {NoKey}) |->
                           IF k = key THEN c ELSE dedupToID[k]]
    BY <1>2 DEF AppendNew, NextCursor
  <2>3. DOMAIN events' = DOMAIN events \cup {n} /\ n \notin DOMAIN events
    BY <2>1
  <2>4. \A i \in DOMAIN events : events[i].cursor # c
    BY <1>0, <2>1 DEF LogInv
  <2> HIDE DEF c, n
  <2>5. DOMAIN byID' = DOMAIN byID \cup {c} /\ byID'[c] = n
        /\ \A x \in DOMAIN byID : x # c => byID'[x] = byID[x]
    BY <2>2
  <2>6. DOMAIN dedupToID' = DOMAIN dedupToID \cup ({key} \ {NoKey})
        /\ (key # NoKey => dedupToID'[key] = c)
        /\ \A k \in DOMAIN dedupToID : dedupToID'[k] = dedupToID[k]
    BY <2>2
  <2>7. c \notin DOMAIN byID
    BY <2>4 DEF IndexesAgree
  <2>8. DOMAIN byID' = {events'[i].cursor : i \in DOMAIN events'}
    <3>1. \A x \in DOMAIN byID : \E i \in DOMAIN events : x = events[i].cursor
      BY DEF IndexesAgree
    <3>2. \A i \in DOMAIN events : events[i].cursor \in DOMAIN byID
      BY DEF IndexesAgree
    <3>3. ASSUME NEW x \in DOMAIN byID' PROVE \E i \in DOMAIN events' : x = events'[i].cursor
      <4>1. CASE x = c
        BY <2>1, <2>3, <4>1
      <4>2. CASE x \in DOMAIN byID
        <5>1. PICK i \in DOMAIN events : x = events[i].cursor
          BY <3>1, <4>2
        <5>2. i \in DOMAIN events' /\ events'[i].cursor = events[i].cursor
          BY <2>1, <2>3
        <5> QED BY <5>1, <5>2
      <4> QED BY <2>5, <4>1, <4>2
    <3>4. ASSUME NEW i \in DOMAIN events' PROVE events'[i].cursor \in DOMAIN byID'
      <4>1. CASE i = n
        BY <2>1, <2>5, <4>1
      <4>2. CASE i \in DOMAIN events
        BY <2>1, <2>5, <3>2, <4>2
      <4> QED BY <2>3, <4>1, <4>2
    <3> QED BY <3>3, <3>4
  <2>9. ASSUME NEW i \in DOMAIN events'
        PROVE  /\ byID'[events'[i].cursor] = i
               /\ events'[i].key # NoKey => /\ events'[i].key \in DOMAIN dedupToID'
                                            /\ dedupToID'[events'[i].key] = events'[i].cursor
    <3>1. CASE i = n
      BY <2>1, <2>5, <2>6, <3>1
    <3>2. CASE i \in DOMAIN events
      <4>1. /\ events[i].cursor \in DOMAIN byID /\ byID[events[i].cursor] = i
            /\ events[i].key # NoKey => /\ events[i].key \in DOMAIN dedupToID
                                        /\ dedupToID[events[i].key] = events[i].cursor
        BY <3>2 DEF IndexesAgree
      <4> QED BY <2>1, <2>4, <2>5, <2>6, <3>2, <4>1
    <3> QED BY <2>3, <3>1, <3>2
  <2>10. ASSUME NEW k \in DOMAIN dedupToID'
         PROVE  dedupToID'[k] \in DOMAIN byID' /\ events'[byID'[dedupToID'[k]]].key = k
    <3>1. CASE k \in DOMAIN dedupToID
      <4>1. dedupToID[k] \in DOMAIN byID /\ events[byID[dedupToID[k]]].key = k
        BY <3>1 DEF IndexesAgree
      <4>2. byID[dedupToID[k]] \in DOMAIN events
        BY <4>1 DEF IndexesAgree
      <4> QED BY <2>1, <2>5, <2>6, <2>7, <3>1, <4>1, <4>2
    <3>2. CASE k = key /\ key # NoKey
      BY <2>1, <2>5, <2>6, <3>2
    <3> QED BY <2>6, <3>1, <3>2
  <2> QED BY <2>8, <2>9, <2>10 DEF IndexesAgree
<1>3. ASSUME NEW before, NEW maxRows, ExpireSoft(before, maxRows) PROVE IndexesAgree'
  <2>1. PICK I : events' = Tombstoned(I)
    BY <1>3 DEF ExpireSoft, Tombstoned
  <2>2. /\ DOMAIN events' = DOMAIN events
        /\ \A i \in DOMAIN events : /\ events'[i].cursor = events[i].cursor
                                    /\ events'[i].key = events[i].key
    BY <2>1, TombstonedIsLog DEF Types
  <2>3. UNCHANGED <<byID, dedupToID>>
    BY <1>3 DEF ExpireSoft
  <2>4. {events'[i].cursor : i \in DOMAIN events'} = {events[i].cursor : i \in DOMAIN events}
    BY <2>2
  <2>5. \A k \in DOMAIN dedupToID : byID[dedupToID[k]] \in DOMAIN events
    BY DEF IndexesAgree
  <2> QED BY <2>2, <2>3, <2>4, <2>5 DEF IndexesAgree
<1>4. ASSUME NEW before, NEW maxRows, ExpireHard(before, maxRows) PROVE IndexesAgree'
  <2> DEFINE I == DOMAIN events \ Oldest(InWindow(before), maxRows)
             kept == EventsAt(I)
             ids == {kept[i].cursor : i \in DOMAIN kept}
  <2>1. /\ events' = kept
        /\ byID' = [x \in ids |-> CHOOSE i \in DOMAIN kept : kept[i].cursor = x]
        /\ dedupToID' = [k \in {k \in DOMAIN dedupToID : dedupToID[k] \in ids} |-> dedupToID[k]]
    BY <1>4 DEF ExpireHard
  <2> HIDE DEF I
  <2>2. /\ \A n \in DOMAIN kept : \E i \in DOMAIN events : kept[n] = events[i]
        /\ kept \in Seq(Event)
    <3>1. I \in SUBSET DOMAIN events
      BY DEF I
    <3> QED BY <3>1, EventsAtIsLog DEF Types
  <2>3. LogInv'
    BY LogStep
  <2>4. \A i, j \in DOMAIN kept : i < j => kept[i].cursor < kept[j].cursor
    BY <2>1, <2>3 DEF LogInv
  <2> HIDE DEF kept
  <2>5. \A i \in DOMAIN kept : i \in Nat /\ kept[i].cursor \in Nat
    BY <1>0, <2>2
  <2>6. \A i, j \in DOMAIN kept : kept[i].cursor = kept[j].cursor => i = j
    BY <2>4, <2>5
  <2>7. \A i \in DOMAIN kept : byID'[kept[i].cursor] = i
    BY <2>1, <2>6
  <2>8. DOMAIN byID' = ids
    BY <2>1
  <2>9. ASSUME NEW i \in DOMAIN kept, kept[i].key # NoKey
        PROVE  kept[i].key \in DOMAIN dedupToID' /\ dedupToID'[kept[i].key] = kept[i].cursor
    <3>1. PICK j \in DOMAIN events : kept[i] = events[j]
      BY <2>2
    <3>2. kept[i].key \in DOMAIN dedupToID /\ dedupToID[kept[i].key] = kept[i].cursor
      BY <2>9, <3>1 DEF IndexesAgree
    <3> QED BY <2>1, <3>2
  <2>10. ASSUME NEW k \in DOMAIN dedupToID'
         PROVE  dedupToID'[k] \in ids /\ kept[byID'[dedupToID'[k]]].key = k
    <3>1. k \in DOMAIN dedupToID /\ dedupToID[k] \in ids /\ dedupToID'[k] = dedupToID[k]
      BY <2>1
    <3>2. PICK i \in DOMAIN kept : dedupToID[k] = kept[i].cursor
      BY <3>1
    <3>3. PICK j \in DOMAIN events : kept[i] = events[j]
      BY <2>2
    <3>4. events[byID[dedupToID[k]]].key = k /\ byID[events[j].cursor] = j
      BY <3>1 DEF IndexesAgree
    <3>5. kept[i].key = k
      BY <3>2, <3>3, <3>4
    <3> QED BY <2>7, <3>1, <3>2, <3>5
  <2>11. DOMAIN byID' = {events'[i].cursor : i \in DOMAIN events'}
    BY <2>1, <2>8
  <2>12. \A i \in DOMAIN events' :
           /\ byID'[events'[i].cursor] = i
           /\ events'[i].key # NoKey => /\ events'[i].key \in DOMAIN dedupToID'
                                        /\ dedupToID'[events'[i].key] = events'[i].cursor
    <3> HIDE DEF ids
    <3>1. events' = kept
      BY <2>1
    <3> QED BY <2>7, <2>9, <3>1
  <2>13. \A k \in DOMAIN dedupToID' :
           dedupToID'[k] \in DOMAIN byID' /\ events'[byID'[dedupToID'[k]]].key = k
    <3> HIDE DEF ids
    <3>1. events' = kept
      BY <2>1
    <3> QED BY <2>8, <2>10, <3>1
  <2> QED BY <2>11, <2>12, <2>13 DEF IndexesAgree
<1> QED
  BY <1>1, <1>2, <1>3, <1>4
     DEF Next, AppendReplay, TailStart, TailRefused, TailStep, TailReplay, TailDeliver,
         TailSeesClosed, TailQuit, Close, logVars, vars

\* After any mix of appends, supersedes and expiries, byID finds the retained
\* events where they are and a claimed dedup key leads to its one event.
THEOREM IndexesHold == Spec => []IndexesAgree
<1>1. Init => IndexesAgree
  BY DEF Init, IndexesAgree
<1> QED
  BY <1>1, TypeCorrect, IndexStep, PTL DEF Spec

----------------------------------------------------------------------------
(* The PostgreSQL driver.                                                  *)

Session  == [pc : {"idle", "lookup", "alloc", "insert", "reread", "supersede", "commit"},
             key : DedupKey \cup {None}, supersedes : SUBSET Nat, ts : Nat,
             next : Nat, locked : SUBSET Nat]
TailCall == [pc : {"off", "history", "live", "ended"}, start : Nat, last : Nat,
             got : SUBSET Nat]
Starting == [pc : {"check", "apply", "up"}, version : Nat \ {0}]

\* The variables' full types; a replica applies only migrations there are.
PgTypes ==
  /\ PgTypeOK
  /\ replica \in [Replica -> Starting]
  /\ \A p \in Replica : replica[p].pc = "apply" => replica[p].version <= Migration
  /\ app \in [Appender -> Session]
  /\ tailing \in [Tailer -> TailCall]
  /\ answers \in [DedupKey -> SUBSET Nat]

\* A cursor names one row, no committed cursor exceeds the counter, and an
\* append that has taken a cursor still holds the counter row.
CursorInv ==
  /\ \A r \in rows : r.cursor <= counter
  /\ \A r, q \in rows : r.cursor = q.cursor => r = q
  /\ \A a \in Appender : app[a].pc \in {"insert", "supersede", "commit"} =>
       locker = a /\ app[a].next = counter + 1

\* A dedup key names one row, none while an insert of it is not committed,
\* and every answer given for it is the cursor of that row.
KeyInv ==
  /\ \A r, q \in rows : r.key # None /\ r.key = q.key => r = q
  /\ \A a \in Appender : app[a].pc \in {"supersede", "commit"} /\ app[a].key # None =>
       Stored(app[a].key) = {}
  /\ \A k \in DedupKey : answers[k] \subseteq { r.cursor : r \in Stored(k) }

\* A tail has sent nothing yet, or only cursors that are committed.
TailInv ==
  \A t \in Tailer : tailing[t].last = tailing[t].start \/ tailing[t].last <= counter

----------------------------------------------------------------------------
(* Facts about the operators.                                              *)

\* Max is the greatest element of a non-empty bounded set.
LEMMA MaxIsGreatest ==
  ASSUME NEW S \in SUBSET Nat, S # {}, NEW b \in Nat, \A x \in S : x <= b
  PROVE  Max(S) \in S /\ \A y \in S : y <= Max(S)
<1> DEFINE T == {n \in Nat : \E x \in S : n = b - x}
<1>1. T # {}
  <2>1. PICK x \in S : TRUE
    OBVIOUS
  <2>2. b - x \in Nat
    OBVIOUS
  <2> QED BY <2>1, <2>2
<1>2. T \in SUBSET Nat
  OBVIOUS
<1> HIDE DEF T
<1>3. PICK n \in T : \A m \in T : n <= m
  BY <1>1, <1>2, LeastNatural
<1>4. PICK x \in S : n = b - x
  BY DEF T
<1>5. \A y \in S : x >= y
  <2> TAKE y \in S
  <2>1. b - y \in T
    BY DEF T
  <2>2. n <= b - y
    BY <1>3, <2>1
  <2> QED BY <1>4, <2>2
<1> QED
  BY <1>5 DEF Max

\* A row that a statement tombstones keeps its cursor and its key.
RowsTombstoned(S, L) == { [r EXCEPT !.deleted = @ \/ r.cursor \in L] : r \in S }

LEMMA TombstonedRows ==
  ASSUME NEW S \in SUBSET Row, NEW L
  PROVE  /\ RowsTombstoned(S, L) \subseteq Row
         /\ \A s \in RowsTombstoned(S, L) : \E r \in S :
              /\ s = [r EXCEPT !.deleted = @ \/ r.cursor \in L]
              /\ s.cursor = r.cursor /\ s.key = r.key
              /\ ~ s.deleted => ~ r.deleted
         /\ \A r \in S : \E s \in RowsTombstoned(S, L) : s.cursor = r.cursor /\ s.key = r.key
<1> DEFINE New(r) == [r EXCEPT !.deleted = @ \/ r.cursor \in L]
<1>1. ASSUME NEW r \in S
      PROVE  /\ New(r) \in Row
             /\ New(r).cursor = r.cursor /\ New(r).key = r.key
             /\ ~ New(r).deleted => ~ r.deleted
  <2>1. r \in Row
    OBVIOUS
  <2>2. (r.deleted \/ r.cursor \in L) \in BOOLEAN
    OBVIOUS
  <2> QED BY <2>1, <2>2 DEF Row
<1>2. RowsTombstoned(S, L) = { New(r) : r \in S }
  BY DEF RowsTombstoned
<1> HIDE DEF New
<1>3. \A s \in RowsTombstoned(S, L) : \E r \in S :
        s = New(r) /\ s.cursor = r.cursor /\ s.key = r.key /\ (~ s.deleted => ~ r.deleted)
  BY <1>1, <1>2
<1>4. \A r \in S : \E s \in RowsTombstoned(S, L) : s.cursor = r.cursor /\ s.key = r.key
  BY <1>1, <1>2
<1>5. RowsTombstoned(S, L) \subseteq Row
  BY <1>1, <1>2
<1> QED
  BY <1>3, <1>4, <1>5 DEF New

\* What the polls of Tail select: the live rows after a cursor.
LEMMA RowsAfter ==
  ASSUME PgTypeOK, NEW c \in Nat
  PROVE  RangeRows(AfterCursor(c)) = { r \in rows : ~ r.deleted /\ r.cursor > c }
<1>1. \A r \in rows : r.cursor \in Nat /\ r.cursor > 0
  BY DEF PgTypeOK, Row
<1>2. RangeRows(AfterCursor(c)) =
        { r \in rows : /\ FALSE \/ ~ r.deleted
                       /\ c > 0 => r.cursor > c
                       /\ 0 > 0 => r.cursor < 0
                       /\ 0 > 0 => r.ts > 0
                       /\ 0 > 0 => r.ts < 0
                       /\ r \in rows }
  BY DEF RangeRows, AfterCursor
<1> QED
  BY <1>1, <1>2

\* Cursors are distinct and bounded, so the log is finite.
LEMMA RowsFinite ==
  ASSUME PgTypes, CursorInv
  PROVE  IsFiniteSet(rows)
<1> DEFINE f == [r \in rows |-> r.cursor]
<1>1. counter \in Nat /\ \A r \in rows : r.cursor \in 1..counter
  BY DEF PgTypes, PgTypeOK, Row, CursorInv
<1>2. f \in Injection(rows, 1..counter)
  BY <1>1 DEF Injection, IsInjective, CursorInv
<1>3. IsFiniteSet(1..counter)
  BY <1>1, FS_Interval
<1> HIDE DEF f
<1> QED
  BY <1>2, <1>3, FS_Injection

\* A poll sends the rows sent: with a row every live row between the last
\* cursor and it; the last cursor becomes the greatest one sent, if any.
Sends(t, all, sent, last) ==
  /\ tailing' = [tailing EXCEPT ![t].got  = @ \cup { r.cursor : r \in sent },
                          ![t].last = last,
                          ![t].pc   = IF all THEN "live" ELSE "ended"]
  /\ last \in {tailing[t].last} \cup { r.cursor : r \in sent }
  /\ \A r \in sent : r.cursor <= last
  /\ \A r \in rows, q \in sent :
       ~ r.deleted /\ tailing[t].last < r.cursor /\ r.cursor <= q.cursor => r \in sent

\* Whether a poll runs to its end or is cut short, it sends a prefix of what
\* it selected.
LEMMA StreamSends ==
  ASSUME PgTypes, CursorInv, NEW t \in Tailer, NEW all \in BOOLEAN,
         Stream(t, RangeRows(AfterCursor(tailing[t].last)), all)
  PROVE  \E sent \in SUBSET rows, last \in Nat : Sends(t, all, sent, last)
<1> DEFINE from == tailing[t].last
           S == { r \in rows : ~ r.deleted /\ r.cursor > from }
           Upto(r) == { q \in S : q.cursor <= r.cursor }
<1>1. /\ from \in Nat /\ counter \in Nat
      /\ \A r \in rows : r.cursor \in Nat /\ r.cursor <= counter
  BY DEF PgTypes, PgTypeOK, TailCall, Row, CursorInv
<1>2. RangeRows(AfterCursor(from)) = S
  BY <1>1, RowsAfter DEF PgTypes
<1>3. IsFiniteSet(S)
  BY RowsFinite, FS_Subset
<1>4. PICK n \in 0 .. Cardinality(S) :
        LET sent == PgOldest(S, n)
        IN  tailing' = [tailing EXCEPT
              ![t].got  = @ \cup { r.cursor : r \in sent },
              ![t].last = Max({@} \cup { r.cursor : r \in sent }),
              ![t].pc   = IF all THEN "live" ELSE "ended"]
  BY <1>2 DEF Stream
<1> DEFINE sent == PgOldest(S, n)
           C == {from} \cup { r.cursor : r \in sent }
<1>5. sent = { r \in S : Cardinality(Upto(r)) <= n }
  BY DEF PgOldest
<1>6. sent \in SUBSET rows /\ n \in Nat
  <2>1. n \in Nat
    BY <1>3, FS_CardinalityType
  <2>2. sent \subseteq S /\ S \subseteq rows
    BY <1>5
  <2> HIDE DEF sent, S
  <2> QED BY <2>1, <2>2
<1>7. ASSUME NEW r \in rows, NEW q \in sent,
             ~ r.deleted, from < r.cursor, r.cursor <= q.cursor
      PROVE  r \in sent
  <2>1. r \in S /\ q \in S /\ q \in rows
    BY <1>1, <1>5, <1>7
  <2>2. Upto(r) \subseteq Upto(q) /\ IsFiniteSet(Upto(q))
    <3>1. \A p \in S : p.cursor \in Nat
      BY <1>1
    <3>2. Upto(r) \subseteq Upto(q)
      BY <1>7, <2>1, <3>1
    <3> QED BY <1>3, <3>2, FS_Subset
  <2> HIDE DEF Upto
  <2>3. Cardinality(Upto(r)) <= Cardinality(Upto(q))
        /\ Cardinality(Upto(q)) \in Nat /\ Cardinality(Upto(r)) \in Nat
    BY <2>2, FS_Subset, FS_CardinalityType
  <2>4. Cardinality(Upto(q)) <= n
    BY <1>5
  <2>5. Cardinality(Upto(r)) <= n
    BY <1>6, <2>3, <2>4
  <2> QED BY <1>5, <2>1, <2>5
<1> HIDE DEF sent, S
<1>8. Max(C) \in C /\ \A c \in C : c <= Max(C)
  <2>1. C \in SUBSET Nat /\ C # {}
    BY <1>1, <1>6
  <2>2. from + counter \in Nat /\ \A c \in C : c <= from + counter
    BY <1>1, <1>6
  <2> HIDE DEF C
  <2> QED BY <2>1, <2>2, MaxIsGreatest
<1>9. Max(C) \in Nat
  BY <1>1, <1>6, <1>8
<1>10. \A r \in sent : r.cursor <= Max(C)
  BY <1>8
<1>11. tailing' = [tailing EXCEPT ![t].got  = @ \cup { r.cursor : r \in sent },
                            ![t].last = Max(C),
                            ![t].pc   = IF all THEN "live" ELSE "ended"]
  BY <1>4 DEF sent
<1> HIDE DEF C
<1>12. Max(C) \in {from} \cup { r.cursor : r \in sent }
  BY <1>8 DEF C
<1> QED
  BY <1>6, <1>7, <1>9, <1>10, <1>11, <1>12 DEF Sends

----------------------------------------------------------------------------
\* An answer is one more cursor for its key, if there is a key.
LEMMA AnswerTypes ==
  ASSUME answers \in [DedupKey -> SUBSET Nat],
         NEW k \in DedupKey \cup {None}, NEW c \in Nat, Answer(k, c)
  PROVE  answers' \in [DedupKey -> SUBSET Nat]
BY DEF Answer

\* No statement, crash, poll or start-up step leaves the types.
LEMMA PgTypesStep ==
  ASSUME PgTypes, CursorInv, [PgNext]_pgVars
  PROVE  PgTypes'
<1> USE EpisodicPostgresAssumption
<1>0. /\ \A r \in rows : r.cursor \in Nat /\ r.cursor > 0
      /\ counter \in Nat /\ begun \in Nat
      /\ \A a \in Appender : /\ app[a] \in Session
                             /\ app[a].key \in DedupKey \cup {None}
                             /\ app[a].ts \in Nat /\ app[a].next \in Nat
  <2>1. \A r \in rows : r \in Row
    BY DEF PgTypes, PgTypeOK
  <2>2. \A a \in Appender : app[a] \in Session
    BY DEF PgTypes
  <2>3. counter \in Nat /\ begun \in Nat
    BY DEF PgTypes, PgTypeOK
  <2> QED BY <2>1, <2>2, <2>3 DEF Row, Session
<1>1. ASSUME NEW p \in Replica, CheckApplied(p) \/ ApplyMigration(p) \/ StartFails(p)
      PROVE  PgTypes'
  <2>1. UNCHANGED <<pgLogVars, tailing, closed>>
    BY <1>1 DEF CheckApplied, ApplyMigration, StartFails
  <2>2. replica[p] \in Starting /\ Start \in Starting
    BY DEF PgTypes, Start, Starting
  <2>3. replica' \in [Replica -> Starting]
    BY <1>1, <2>2 DEF CheckApplied, ApplyMigration, StartFails, PgTypes, Starting
  <2>4. applied' \subseteq 1 .. Migration
    BY <1>1, <2>2 DEF CheckApplied, ApplyMigration, StartFails, PgTypes, PgTypeOK, Starting
  <2>5. ASSUME NEW q \in Replica, replica'[q].pc = "apply"
        PROVE  replica'[q].version <= Migration
    <3>1. CASE q # p
      <4>1. replica'[q] = replica[q]
        BY <1>1, <3>1 DEF CheckApplied, ApplyMigration, StartFails, PgTypes
      <4> QED BY <2>5, <4>1 DEF PgTypes
    <3>2. CASE q = p
      <4>1. CheckApplied(p) /\ replica'[p] = [replica[p] EXCEPT !.pc = "apply"]
            /\ ~ (replica[p].version > Migration)
        BY <1>1, <2>2, <2>5, <3>2
           DEF CheckApplied, ApplyMigration, StartFails, PgTypes, Starting, Start
      <4> QED BY <2>2, <3>2, <4>1 DEF Starting
    <3> QED BY <3>1, <3>2
  <2> QED BY <2>1, <2>3, <2>4, <2>5 DEF PgTypes, PgTypeOK, pgLogVars
<1>2. ASSUME UNCHANGED <<bootVars, rows, counter, tailing, closed>>,
             begun' \in 0 .. MaxBegin, locker' \in Appender \cup {None},
             app' \in [Appender -> Session], answers' \in [DedupKey -> SUBSET Nat]
      PROVE  PgTypes'
  <2>1. \A a \in Appender : app'[a].key \in DedupKey \cup {None} /\ app'[a].next \in Nat
    BY <1>2 DEF Session
  <2> QED BY <1>2, <2>1 DEF PgTypes, PgTypeOK, bootVars
<1>3. Idle \in Session
  BY DEF Idle, Session
<1>4. ASSUME NEW a \in Appender, NEW k \in DedupKey \cup {None}, NEW S \in {{}, {1}},
             AppendBegin(a, k, S)
      PROVE  PgTypes'
  <2>1. [Idle EXCEPT !.pc = "lookup", !.key = k, !.supersedes = S, !.ts = begun + 1]
          \in Session
    <3>1. S \in SUBSET Nat /\ begun + 1 \in Nat
      BY <1>0
    <3> QED BY <3>1 DEF Idle, Session
  <2>2. app' \in [Appender -> Session]
    BY <1>4, <2>1 DEF AppendBegin, PgTypes
  <2>3. begun' \in 0 .. MaxBegin
    BY <1>0, <1>4 DEF AppendBegin
  <2> QED BY <1>2, <1>4, <2>2, <2>3 DEF AppendBegin, PgTypes, PgTypeOK
<1>5. ASSUME NEW a \in Appender,
             FastPath(a) \/ Allocate(a) \/ Insert(a) \/ Reread(a) \/ Supersede(a) \/ Abort(a)
      PROVE  PgTypes'
  <2>1. UNCHANGED <<bootVars, rows, counter, begun, tailing, closed>>
    BY <1>5 DEF FastPath, Allocate, Insert, Reread, Supersede, Abort, Rollback
  <2>2. locker' \in Appender \cup {None}
    BY <1>5 DEF FastPath, Allocate, Insert, Reread, Supersede, Abort, Rollback,
                PgTypes, PgTypeOK
  <2>3. app' \in [Appender -> Session]
    <3>1. CASE FastPath(a) \/ Reread(a) \/ Abort(a) \/ Insert(a)
      BY <1>0, <1>3, <3>1 DEF FastPath, Reread, Abort, Insert, PgTypes, Session
    <3>2. CASE Allocate(a)
      <4>1. [app[a] EXCEPT !.pc = "insert", !.next = counter + 1] \in Session
        <5>1. app[a] \in Session /\ counter + 1 \in Nat
          BY <1>0
        <5> QED BY <5>1 DEF Session
      <4>2. app' = [app EXCEPT ![a] = [app[a] EXCEPT !.pc = "insert", !.next = counter + 1]]
        BY <3>2 DEF Allocate
      <4>3. app \in [Appender -> Session]
        BY DEF PgTypes
      <4> QED BY <4>1, <4>2, <4>3
    <3>3. CASE Supersede(a)
      <4> DEFINE L == { r.cursor : r \in { q \in rows : q.cursor \in app[a].supersedes
                                                        /\ ~ q.deleted } }
      <4>1. L \in SUBSET Nat
        BY <1>0
      <4>2. app' = [app EXCEPT ![a] = [app[a] EXCEPT !.pc = "commit", !.locked = L]]
        BY <3>3 DEF Supersede
      <4> HIDE DEF L
      <4>3. [app[a] EXCEPT !.pc = "commit", !.locked = L] \in Session
        BY <1>0, <4>1 DEF Session
      <4>4. app \in [Appender -> Session]
        BY DEF PgTypes
      <4> QED BY <4>2, <4>3, <4>4
    <3> QED BY <1>5, <3>1, <3>2, <3>3
  <2>4. answers' \in [DedupKey -> SUBSET Nat]
    <3>1. \A r \in Stored(app[a].key) : r.cursor \in Nat
      BY <1>0 DEF Stored
    <3>2. CASE \E r \in Stored(app[a].key) : Answer(app[a].key, r.cursor)
      BY <1>0, <3>1, <3>2, AnswerTypes DEF PgTypes
    <3>3. CASE UNCHANGED answers
      BY <3>3 DEF PgTypes
    <3> QED BY <1>5, <3>2, <3>3
            DEF FastPath, Allocate, Insert, Reread, Supersede, Abort
  <2>5. begun' \in 0 .. MaxBegin
    BY <2>1 DEF PgTypes, PgTypeOK
  <2> QED BY <1>2, <2>1, <2>2, <2>3, <2>4, <2>5
<1>6. ASSUME NEW a \in Appender, NEW acked \in BOOLEAN, Commit(a, acked)
      PROVE  PgTypes'
  <2>1. rows' = RowsTombstoned(rows, app[a].locked)
                \cup { [cursor |-> app[a].next, key |-> app[a].key, ts |-> app[a].ts,
                        deleted |-> FALSE] }
    BY <1>6 DEF Commit, RowsTombstoned
  <2>2. app[a].next = counter + 1
    BY <1>6 DEF Commit, CursorInv
  <2>3. [cursor |-> app[a].next, key |-> app[a].key, ts |-> app[a].ts, deleted |-> FALSE]
          \in Row
    BY <1>0, <2>2 DEF Row
  <2>4. rows \in SUBSET Row
    BY DEF PgTypes, PgTypeOK
  <2>5. rows' \subseteq Row
    BY <2>1, <2>3, <2>4, TombstonedRows
  <2>6. counter' \in Nat
    <3>1. counter' = Max({counter, app[a].next})
      BY <1>6 DEF Commit
    <3>2. Max({counter, app[a].next}) \in {counter, app[a].next}
      <4>1. /\ {counter, counter + 1} \in SUBSET Nat /\ {counter, counter + 1} # {}
            /\ counter + 1 \in Nat /\ \A x \in {counter, counter + 1} : x <= counter + 1
        BY <1>0
      <4> QED BY <2>2, <4>1, MaxIsGreatest
    <3> QED BY <1>0, <3>1, <3>2
  <2>7. app' \in [Appender -> Session]
    BY <1>3, <1>6 DEF Commit, PgTypes
  <2>8. answers' \in [DedupKey -> SUBSET Nat]
    BY <1>0, <1>6, AnswerTypes DEF Commit, PgTypes
  <2>9. \A b \in Appender : app'[b].key \in DedupKey \cup {None} /\ app'[b].next \in Nat
    BY <2>7 DEF Session
  <2>10. UNCHANGED <<bootVars, begun, tailing, closed>> /\ locker' \in Appender \cup {None}
    BY <1>6 DEF Commit, PgTypes, PgTypeOK
  <2> QED BY <2>5, <2>6, <2>7, <2>8, <2>9, <2>10 DEF PgTypes, PgTypeOK, bootVars
<1>7. ASSUME NEW action \in {"soft", "hard"}, NEW bc \in Nat, NEW bt \in Nat,
             NEW n \in Nat, Expire(action, bc, bt, n)
      PROVE  PgTypes'
  <2>1. PICK ids : \/ rows' = RowsTombstoned(rows, ids) /\ UNCHANGED answers
                   \/ /\ rows' = { r \in rows : r.cursor \notin ids }
                      /\ answers' = [k \in DedupKey |-> answers[k] \ ids]
    BY <1>7 DEF Expire, RowsTombstoned
  <2>2. rows \in SUBSET Row
    BY DEF PgTypes, PgTypeOK
  <2>3. rows' \subseteq Row
    <3>1. RowsTombstoned(rows, ids) \subseteq Row
      BY <2>2, TombstonedRows
    <3>2. { r \in rows : r.cursor \notin ids } \subseteq Row
      BY <2>2
    <3> QED BY <2>1, <3>1, <3>2
  <2>4. answers' \in [DedupKey -> SUBSET Nat]
    BY <2>1 DEF PgTypes
  <2>5. UNCHANGED <<counter, locker, begun, app, bootVars, tailing, closed>>
    BY <1>7 DEF Expire
  <2> QED BY <2>3, <2>4, <2>5 DEF PgTypes, PgTypeOK, bootVars
<1>8. ASSUME UNCHANGED <<bootVars, pgLogVars, closed>>, tailing' \in [Tailer -> TailCall]
      PROVE  PgTypes'
  <2>1. \A t \in Tailer : tailing'[t].pc \in {"off", "history", "live", "ended"}
    BY <1>8 DEF TailCall
  <2> QED BY <1>8, <2>1 DEF PgTypes, PgTypeOK, bootVars, pgLogVars
<1>9. ASSUME NEW t \in Tailer, NEW c \in {0, 1}, NEW h \in BOOLEAN, TailOpen(t, c, h)
      PROVE  PgTypes'
  <2> DEFINE cursors == {0} \cup { r.cursor : r \in rows }
  <2>1. Max(cursors) \in Nat
    <3>1. cursors \in SUBSET Nat /\ cursors # {} /\ \A x \in cursors : x <= counter
      BY <1>0 DEF CursorInv
    <3> HIDE DEF cursors
    <3> QED BY <1>0, <3>1, MaxIsGreatest
  <2>2. tailing[t] \in TailCall
    BY DEF PgTypes
  <2>3. CASE closed
    BY <1>8, <1>9, <2>2, <2>3 DEF TailOpen, PgTypes, TailCall
  <2>4. CASE ~ closed /\ h
    <3>1. [NoTail EXCEPT !.pc = "history", !.start = c, !.last = c] \in TailCall
      <4>1. c \in Nat
        OBVIOUS
      <4> QED BY <4>1 DEF NoTail, TailCall
    <3> QED BY <1>8, <1>9, <2>4, <3>1 DEF TailOpen, PgTypes
  <2>5. CASE ~ closed /\ ~ h
    <3> DEFINE from == IF Max(cursors) > 0 THEN Max(cursors) ELSE c
    <3>1. tailing' = [tailing EXCEPT ![t] = [pc |-> "live", start |-> from, last |-> from,
                                       got |-> {}]]
      BY <1>9, <2>5 DEF TailOpen, TailHead
    <3>2. from \in Nat
      BY <2>1
    <3> HIDE DEF from
    <3>3. [pc |-> "live", start |-> from, last |-> from, got |-> {}] \in TailCall
      BY <3>2 DEF TailCall
    <3> QED BY <1>8, <1>9, <3>1, <3>3 DEF TailOpen, PgTypes
  <2> QED BY <2>3, <2>4, <2>5
<1>10. ASSUME NEW t \in Tailer, TailPoll(t) \/ TailStops(t)
       PROVE  PgTypes'
  <2>1. tailing[t] \in TailCall
    BY DEF PgTypes
  <2>2. CASE closed
    <3>1. tailing' = [tailing EXCEPT ![t] = [tailing[t] EXCEPT !.pc = "ended"]]
      BY <1>10, <2>2 DEF TailPoll, TailStops
    <3>2. [tailing[t] EXCEPT !.pc = "ended"] \in TailCall
      BY <2>1 DEF TailCall
    <3>3. tailing' \in [Tailer -> TailCall]
      BY <3>1, <3>2 DEF PgTypes
    <3> QED BY <1>8, <1>10, <3>3 DEF TailPoll, TailStops
  <2>3. CASE ~ closed
    <3>1. PICK all \in BOOLEAN : Stream(t, RangeRows(AfterCursor(tailing[t].last)), all)
      BY <1>10, <2>3 DEF TailPoll, TailStops
    <3>2. PICK sent \in SUBSET rows, last \in Nat : Sends(t, all, sent, last)
      BY <3>1, StreamSends
    <3> DEFINE got == tailing[t].got \cup { r.cursor : r \in sent }
               pc  == IF all THEN "live" ELSE "ended"
    <3>3. tailing' = [tailing EXCEPT ![t] = [tailing[t] EXCEPT !.got = got, !.last = last, !.pc = pc]]
      BY <3>2 DEF Sends
    <3>4. got \in SUBSET Nat /\ pc \in {"off", "history", "live", "ended"}
      BY <1>0, <2>1 DEF TailCall
    <3> HIDE DEF got, pc
    <3>5. [tailing[t] EXCEPT !.got = got, !.last = last, !.pc = pc] \in TailCall
      BY <2>1, <3>4 DEF TailCall
    <3>6. tailing' \in [Tailer -> TailCall]
      BY <3>3, <3>5 DEF PgTypes
    <3> QED BY <1>8, <1>10, <3>6 DEF TailPoll, TailStops
  <2> QED BY <2>2, <2>3
<1>11. CASE PgClose
  BY <1>11 DEF PgClose, PgTypes, PgTypeOK, bootVars, pgLogVars
<1>12. CASE UNCHANGED pgVars
  BY <1>12 DEF pgVars, PgTypes, PgTypeOK, bootVars, pgLogVars
<1> QED
  BY <1>1, <1>4, <1>5, <1>6, <1>7, <1>9, <1>10, <1>11, <1>12 DEF PgNext

----------------------------------------------------------------------------
\* What a commit does to the table: the rows tombstoned keep their cursors
\* and keys (old), and one row comes in, with the cursor after the highest.
Adds(a, new, old) ==
  /\ rows' = old \cup {new}
  /\ new.cursor = counter + 1 /\ new.key = app[a].key
  /\ \A s \in old : \E r \in rows :
       s.cursor = r.cursor /\ s.key = r.key /\ (~ s.deleted => ~ r.deleted)
  /\ \A r \in rows : \E s \in old : s.cursor = r.cursor /\ s.key = r.key
  /\ \A s, q \in old : s.cursor = q.cursor => s = q

\* The commit releases the counter row it holds and raises the counter by one.
LEMMA CommitAdds ==
  ASSUME PgTypes, CursorInv, NEW a \in Appender, NEW acked \in BOOLEAN, Commit(a, acked)
  PROVE  /\ locker = a /\ counter' = counter + 1
         /\ \E new \in Row, old \in SUBSET Row : Adds(a, new, old)
<1> DEFINE L   == app[a].locked
           new == [cursor |-> app[a].next, key |-> app[a].key, ts |-> app[a].ts,
                   deleted |-> FALSE]
           old == RowsTombstoned(rows, L)
<1>1. rows' = old \cup {new}
  BY DEF Commit, RowsTombstoned
<1>2. locker = a /\ app[a].next = counter + 1 /\ counter \in Nat
  BY DEF Commit, CursorInv, PgTypes, PgTypeOK
<1>3. counter' = counter + 1
  <2>1. counter' = Max({counter, counter + 1})
    BY <1>2 DEF Commit
  <2>2. /\ {counter, counter + 1} \in SUBSET Nat /\ {counter, counter + 1} # {}
        /\ counter + 1 \in Nat /\ \A x \in {counter, counter + 1} : x <= counter + 1
    BY <1>2
  <2>3. \A y \in {counter, counter + 1} : y <= Max({counter, counter + 1})
        /\ Max({counter, counter + 1}) \in {counter, counter + 1}
    BY <2>2, MaxIsGreatest
  <2> QED BY <1>2, <2>1, <2>3
<1>4. new \in Row /\ new.cursor = counter + 1 /\ new.key = app[a].key
  <2>1. app[a] \in Session
    BY DEF PgTypes
  <2> QED BY <1>2, <2>1 DEF Row, Session
<1>5. rows \in SUBSET Row
  BY DEF PgTypes, PgTypeOK
<1>6. /\ old \in SUBSET Row
      /\ \A s \in old : \E r \in rows :
           /\ s = [r EXCEPT !.deleted = @ \/ r.cursor \in L]
           /\ s.cursor = r.cursor /\ s.key = r.key /\ (~ s.deleted => ~ r.deleted)
      /\ \A r \in rows : \E s \in old : s.cursor = r.cursor /\ s.key = r.key
  BY <1>5, TombstonedRows
<1> HIDE DEF old, new, L
<1>7. ASSUME NEW s \in old, NEW q \in old, s.cursor = q.cursor PROVE s = q
  <2>1. PICK r \in rows : s = [r EXCEPT !.deleted = @ \/ r.cursor \in L]
                          /\ s.cursor = r.cursor
    BY <1>6
  <2>2. PICK p \in rows : q = [p EXCEPT !.deleted = @ \/ p.cursor \in L]
                          /\ q.cursor = p.cursor
    BY <1>6
  <2>3. r = p
    BY <1>7, <2>1, <2>2 DEF CursorInv
  <2> QED BY <2>1, <2>2, <2>3
<1> QED
  BY <1>1, <1>2, <1>3, <1>4, <1>6, <1>7 DEF Adds

\* What an Expire does to the table and the answers: it tombstones rows, which
\* keep their cursors and keys, or it removes rows and forgets their cursors.
LEMMA ExpireKeeps ==
  ASSUME PgTypes, CursorInv, NEW action \in {"soft", "hard"}, NEW bc \in Nat,
         NEW bt \in Nat, NEW n \in Nat, Expire(action, bc, bt, n)
  PROVE  /\ rows' \in SUBSET Row
         /\ \A s \in rows' : \E r \in rows :
              s.cursor = r.cursor /\ s.key = r.key /\ (~ s.deleted => ~ r.deleted)
         /\ \A s, q \in rows' : s.cursor = q.cursor => s = q
         /\ \A k \in DedupKey : \A c \in answers'[k] :
              /\ c \in answers[k]
              /\ \A r \in rows : r.cursor = c =>
                   \E s \in rows' : s.cursor = c /\ s.key = r.key
<1>1. rows \in SUBSET Row /\ answers \in [DedupKey -> SUBSET Nat]
  BY DEF PgTypes, PgTypeOK
<1>2. PICK ids : \/ rows' = RowsTombstoned(rows, ids) /\ UNCHANGED answers
                 \/ /\ rows' = { r \in rows : r.cursor \notin ids }
                    /\ answers' = [k \in DedupKey |-> answers[k] \ ids]
  BY DEF Expire, RowsTombstoned
<1>3. CASE rows' = RowsTombstoned(rows, ids) /\ UNCHANGED answers
  <2> DEFINE old == RowsTombstoned(rows, ids)
  <2>0. /\ old \in SUBSET Row
        /\ \A s \in old : \E r \in rows :
             /\ s = [r EXCEPT !.deleted = @ \/ r.cursor \in ids]
             /\ s.cursor = r.cursor /\ s.key = r.key /\ (~ s.deleted => ~ r.deleted)
        /\ \A r \in rows : \E s \in old : s.cursor = r.cursor /\ s.key = r.key
    <3>1. /\ old \subseteq Row
          /\ \A r \in rows : \E s \in old : s.cursor = r.cursor /\ s.key = r.key
      BY <1>1, TombstonedRows
    <3>2. ASSUME NEW s \in old
          PROVE  \E r \in rows :
                   /\ s = [r EXCEPT !.deleted = @ \/ r.cursor \in ids]
                   /\ s.cursor = r.cursor /\ s.key = r.key /\ (~ s.deleted => ~ r.deleted)
      BY <1>1, <3>2, TombstonedRows
    <3> QED BY <3>1, <3>2
  <2> HIDE DEF old
  <2>1. /\ rows' \in SUBSET Row
        /\ \A s \in rows' : \E r \in rows :
             /\ s = [r EXCEPT !.deleted = @ \/ r.cursor \in ids]
             /\ s.cursor = r.cursor /\ s.key = r.key /\ (~ s.deleted => ~ r.deleted)
        /\ \A r \in rows : \E s \in rows' : s.cursor = r.cursor /\ s.key = r.key
    <3>1. rows' = old
      BY <1>3 DEF old
    <3> QED BY <2>0, <3>1
  <2>2. ASSUME NEW s \in rows', NEW q \in rows', s.cursor = q.cursor PROVE s = q
    <3>1. PICK r \in rows : s = [r EXCEPT !.deleted = @ \/ r.cursor \in ids]
                            /\ s.cursor = r.cursor
      BY <2>1
    <3>2. PICK p \in rows : q = [p EXCEPT !.deleted = @ \/ p.cursor \in ids]
                            /\ q.cursor = p.cursor
      BY <2>1
    <3>3. r = p
      BY <2>2, <3>1, <3>2 DEF CursorInv
    <3> QED BY <3>1, <3>2, <3>3
  <2> QED BY <1>3, <2>1, <2>2
<1>4. CASE /\ rows' = { r \in rows : r.cursor \notin ids }
           /\ answers' = [k \in DedupKey |-> answers[k] \ ids]
  BY <1>1, <1>4 DEF CursorInv
<1> QED
  BY <1>2, <1>3, <1>4

----------------------------------------------------------------------------
\* Steps of one appender before its commit.
Statement(a) ==
  \/ \E k \in DedupKey \cup {None}, S \in {{}, {1}} : AppendBegin(a, k, S)
  \/ FastPath(a) \/ Allocate(a) \/ Insert(a) \/ Reread(a) \/ Supersede(a) \/ Abort(a)

\* A statement before the commit changes no committed row, and the
\* transaction of no other session.
LEMMA StatementLocal ==
  ASSUME PgTypes, NEW a \in Appender, Statement(a)
  PROVE  /\ UNCHANGED <<rows, counter, tailing>>
         /\ \A b \in Appender \ {a} : app'[b] = app[b] /\ (locker = b => locker' = b)
<1>1. UNCHANGED <<rows, counter, tailing>>
  BY DEF Statement, AppendBegin, FastPath, Allocate, Insert, Reread, Supersede,
         Abort, Rollback
<1>2. ASSUME NEW b \in Appender \ {a} PROVE app'[b] = app[b]
  BY DEF Statement, AppendBegin, FastPath, Allocate, Insert, Reread, Supersede,
         Abort, PgTypes
<1>3. ASSUME NEW b \in Appender \ {a}, locker = b PROVE locker' = b
  <2>1. b # None
    BY EpisodicPostgresAssumption
  <2> QED BY <1>3, <2>1
          DEF Statement, AppendBegin, FastPath, Allocate, Insert, Reread, Supersede,
              Abort, Rollback
<1> QED
  BY <1>1, <1>2, <1>3

\* Cursors are taken under the lock of the counter row and committed in order.
LEMMA CursorStep ==
  ASSUME PgTypes, CursorInv, [PgNext]_pgVars
  PROVE  CursorInv'
<1>0. counter \in Nat
  BY DEF PgTypes, PgTypeOK
<1>1. CASE UNCHANGED pgLogVars
  BY <1>1 DEF pgLogVars, CursorInv
<1>2. ASSUME NEW a \in Appender, Statement(a) PROVE CursorInv'
  <2>1. /\ UNCHANGED <<rows, counter>>
        /\ \A b \in Appender \ {a} : app'[b] = app[b] /\ (locker = b => locker' = b)
    BY <1>2, StatementLocal
  <2>2. app'[a].pc \in {"insert", "supersede", "commit"} =>
          locker' = a /\ app'[a].next = counter + 1
    <3>1. app[a] \in Session /\ app \in [Appender -> Session]
      BY DEF PgTypes
    <3>2. CASE FastPath(a) \/ Reread(a) \/ Abort(a)
      <4>1. app' = [app EXCEPT ![a] = Idle] \/ app' = [app EXCEPT ![a].pc = "alloc"]
        BY <3>2 DEF FastPath, Reread, Abort
      <4>2. app'[a].pc \in {"idle", "alloc"}
        BY <3>1, <4>1 DEF Idle, Session
      <4> QED BY <4>2
    <3>5. ASSUME NEW k \in DedupKey \cup {None}, NEW S \in {{}, {1}}, AppendBegin(a, k, S)
          PROVE  app'[a].pc = "lookup"
      <4>1. app'[a] = [Idle EXCEPT !.pc = "lookup", !.key = k, !.supersedes = S,
                                   !.ts = begun + 1]
        BY <3>1, <3>5 DEF AppendBegin
      <4> QED BY <4>1 DEF Idle
    <3>3. CASE Allocate(a)
      BY <3>1, <3>3 DEF Allocate, Session
    <3>4. CASE Insert(a) \/ Supersede(a)
      <4>1. app[a].pc \in {"insert", "supersede"}
        BY <3>4 DEF Insert, Supersede
      <4>2. locker = a /\ app[a].next = counter + 1
        BY <4>1 DEF CursorInv
      <4>3. app'[a].pc = "reread" \/ (locker' = locker /\ app'[a].next = app[a].next)
        BY <3>1, <3>4 DEF Insert, Supersede, Session
      <4> QED BY <4>2, <4>3
    <3> QED BY <1>2, <3>2, <3>3, <3>4, <3>5 DEF Statement
  <2> QED BY <2>1, <2>2 DEF CursorInv
<1>3. ASSUME NEW a \in Appender, NEW acked \in BOOLEAN, Commit(a, acked)
      PROVE  CursorInv'
  <2>1. locker = a /\ counter' = counter + 1
    BY <1>3, CommitAdds
  <2>0. PICK new \in Row, old \in SUBSET Row : Adds(a, new, old)
    BY <1>3, CommitAdds
  <2>2. /\ rows' = old \cup {new} /\ new.cursor = counter + 1
        /\ \A s \in old : \E r \in rows : s.cursor = r.cursor
        /\ \A s, q \in old : s.cursor = q.cursor => s = q
    BY <2>0 DEF Adds
  <2>3. \A s \in old : s.cursor \in Nat /\ s.cursor <= counter
    BY <2>2 DEF CursorInv, Row
  <2>4. \A r \in rows' : r.cursor <= counter'
    BY <1>0, <2>1, <2>2, <2>3
  <2>5. \A r, q \in rows' : r.cursor = q.cursor => r = q
    BY <1>0, <2>2, <2>3
  <2>6. \A b \in Appender : app'[b].pc \notin {"insert", "supersede", "commit"}
    <3>1. app'[a] = Idle /\ \A b \in Appender \ {a} : app'[b] = app[b]
      BY <1>3 DEF Commit, PgTypes
    <3>2. \A b \in Appender \ {a} : app[b].pc \notin {"insert", "supersede", "commit"}
      BY <2>1 DEF CursorInv
    <3> QED BY <3>1, <3>2 DEF Idle
  <2> QED BY <2>4, <2>5, <2>6 DEF CursorInv
<1>4. ASSUME NEW action \in {"soft", "hard"}, NEW bc \in Nat, NEW bt \in Nat,
             NEW n \in Nat, Expire(action, bc, bt, n)
      PROVE  CursorInv'
  <2>1. UNCHANGED <<counter, locker, app>>
    BY <1>4 DEF Expire
  <2>2. /\ \A s \in rows' : \E r \in rows : s.cursor = r.cursor
        /\ \A s, q \in rows' : s.cursor = q.cursor => s = q
    BY <1>4, ExpireKeeps
  <2> QED BY <2>1, <2>2 DEF CursorInv
<1>5. CASE \/ \E p \in Replica : CheckApplied(p) \/ ApplyMigration(p) \/ StartFails(p)
           \/ \E t \in Tailer : \/ \E c \in {0, 1}, h \in BOOLEAN : TailOpen(t, c, h)
                               \/ TailPoll(t) \/ TailStops(t)
           \/ PgClose \/ UNCHANGED pgVars
  BY <1>1, <1>5 DEF CheckApplied, ApplyMigration, StartFails, TailOpen, TailPoll,
                    TailStops, PgClose, pgVars
<1> QED
  BY <1>2, <1>3, <1>4, <1>5 DEF PgNext, Statement

\* The type invariant, with the cursors' order it needs.
THEOREM PgTypeCorrect == PgSpec => [](PgTypes /\ CursorInv)
<1>1. PgInit => PgTypes /\ CursorInv
  <2> SUFFICES ASSUME PgInit PROVE PgTypes /\ CursorInv
    OBVIOUS
  <2>1. Idle \in Session /\ NoTail \in TailCall /\ Start \in Starting
    BY DEF Idle, Session, NoTail, TailCall, Start, Starting
  <2>2. \A a \in Appender : app[a] = Idle
    BY DEF PgInit
  <2>3. \A t \in Tailer : tailing[t] = NoTail
    BY DEF PgInit
  <2>4. PgTypeOK
    <3>1. \A a \in Appender : app[a].key = None /\ app[a].next = 0
      BY <2>2 DEF Idle
    <3>2. \A t \in Tailer : tailing[t].pc = "off"
      BY <2>3 DEF NoTail
    <3>3. begun \in 0 .. MaxBegin
      BY EpisodicPostgresAssumption DEF PgInit
    <3>4. /\ rows \subseteq Row /\ counter \in Nat /\ locker \in Appender \cup {None}
          /\ applied \subseteq 1 .. Migration
      BY DEF PgInit
    <3>5. closed \in BOOLEAN
      BY DEF PgInit
    <3> QED BY <3>1, <3>2, <3>3, <3>4, <3>5 DEF PgTypeOK
  <2>5. \A p \in Replica : replica[p].pc # "apply"
    BY DEF PgInit, Start
  <2>6. PgTypes
    BY <2>1, <2>4, <2>5 DEF PgInit, PgTypes
  <2>7. CursorInv
    BY <2>2 DEF PgInit, CursorInv, Idle
  <2> QED BY <2>6, <2>7
<1>2. (PgTypes /\ CursorInv) /\ [PgNext]_pgVars => (PgTypes /\ CursorInv)'
  BY PgTypesStep, CursorStep
<1> QED
  BY <1>1, <1>2, PTL DEF PgSpec

----------------------------------------------------------------------------
\* A dedup key stays with the row of the append that stored it first.
LEMMA KeyStep ==
  ASSUME PgTypes, CursorInv, KeyInv, [PgNext]_pgVars
  PROVE  KeyInv'
<1> USE DEF Stored
<1>0. /\ None \notin DedupKey /\ answers \in [DedupKey -> SUBSET Nat]
      /\ app \in [Appender -> Session]
  BY EpisodicPostgresAssumption DEF PgTypes
<1>1. CASE UNCHANGED pgLogVars
  BY <1>1 DEF pgLogVars, KeyInv
<1>2. ASSUME NEW a \in Appender, Statement(a) PROVE KeyInv'
  <2>1. /\ UNCHANGED rows
        /\ \A b \in Appender \ {a} : app'[b] = app[b]
    BY <1>2, StatementLocal
  <2>2. app[a] \in Session
    BY <1>0
  <2>3. ASSUME app'[a].pc \in {"supersede", "commit"}, app'[a].key # None
        PROVE  Stored(app'[a].key) = {}
    <3>1. CASE app' = [app EXCEPT ![a] = Idle] \/ app' = [app EXCEPT ![a].pc = "alloc"]
               \/ app' = [app EXCEPT ![a].pc = "reread"]
      <4>1. app'[a].pc \in {"idle", "alloc", "reread"}
        BY <1>0, <2>2, <3>1 DEF Idle, Session
      <4> QED BY <2>3, <4>1
    <3>2. ASSUME NEW k \in DedupKey \cup {None}, NEW S \in {{}, {1}}, AppendBegin(a, k, S)
          PROVE  FALSE
      <4>1. app'[a] = [Idle EXCEPT !.pc = "lookup", !.key = k, !.supersedes = S,
                                   !.ts = begun + 1]
        BY <1>0, <3>2 DEF AppendBegin
      <4> QED BY <2>3, <4>1 DEF Idle
    <3>3. CASE Allocate(a)
      <4>1. app'[a].pc = "insert"
        BY <1>0, <2>2, <3>3 DEF Allocate, Session
      <4> QED BY <2>3, <4>1
    <3>4. CASE /\ app' = [app EXCEPT ![a].pc = "supersede"]
               /\ app[a].key = None \/ Stored(app[a].key) = {}
      <4>1. app'[a].key = app[a].key
        BY <1>0, <2>2, <3>4 DEF Session
      <4> QED BY <2>3, <3>4, <4>1
    <3>5. CASE Supersede(a)
      <4>1. app[a].pc = "supersede" /\ app'[a].key = app[a].key
        BY <1>0, <2>2, <3>5 DEF Supersede, Session
      <4> QED BY <2>3, <4>1 DEF KeyInv
    <3>6. CASE FastPath(a) \/ Reread(a) \/ Abort(a) \/ Insert(a)
      BY <3>1, <3>4, <3>6 DEF FastPath, Reread, Abort, Insert
    <3> QED BY <1>2, <3>2, <3>3, <3>5, <3>6 DEF Statement
  <2>4. ASSUME NEW k \in DedupKey, NEW c \in answers'[k]
        PROVE  c \in { r.cursor : r \in Stored(k) }
    <3>1. CASE UNCHANGED answers
      BY <3>1 DEF KeyInv
    <3>2. CASE \E r \in Stored(app[a].key) : Answer(app[a].key, r.cursor)
      <4>1. PICK r \in Stored(app[a].key) : Answer(app[a].key, r.cursor)
        BY <3>2
      <4>2. c \in answers[k] \/ (k = app[a].key /\ c = r.cursor)
        BY <1>0, <4>1 DEF Answer
      <4> QED BY <4>1, <4>2 DEF KeyInv
    <3> QED BY <1>2, <3>1, <3>2
            DEF Statement, AppendBegin, FastPath, Allocate, Insert, Reread, Supersede, Abort
  <2> QED BY <2>1, <2>3, <2>4 DEF KeyInv
<1>3. ASSUME NEW a \in Appender, NEW acked \in BOOLEAN, Commit(a, acked)
      PROVE  KeyInv'
  <2>0. PICK new \in Row, old \in SUBSET Row : Adds(a, new, old)
    BY <1>3, CommitAdds
  <2>1. /\ rows' = old \cup {new}
        /\ new.cursor = counter + 1 /\ new.key = app[a].key
        /\ \A s \in old : \E r \in rows : s.cursor = r.cursor /\ s.key = r.key
        /\ \A r \in rows : \E s \in old : s.cursor = r.cursor /\ s.key = r.key
        /\ \A s, q \in old : s.cursor = q.cursor => s = q
    BY <2>0 DEF Adds
  <2>2. \A s \in old : s.key # None => s.key # app[a].key
    <3>1. app[a].pc = "commit"
      BY <1>3 DEF Commit
    <3>2. app[a].key # None => \A r \in rows : r.key # app[a].key
      BY <3>1 DEF KeyInv
    <3> QED BY <2>1, <3>2
  <2>3. ASSUME NEW s \in old, NEW q \in old, s.key # None, s.key = q.key
        PROVE  s = q
    <3>1. PICK r \in rows : s.cursor = r.cursor /\ s.key = r.key
      BY <2>1
    <3>2. PICK p \in rows : q.cursor = p.cursor /\ q.key = p.key
      BY <2>1
    <3>3. r = p
      BY <2>3, <3>1, <3>2 DEF KeyInv
    <3> QED BY <2>1, <3>1, <3>2, <3>3
  <2>4. \A r, q \in rows' : r.key # None /\ r.key = q.key => r = q
    BY <2>1, <2>2, <2>3
  <2>5. \A b \in Appender : app'[b].pc \notin {"supersede", "commit"}
    <3>1. app'[a] = Idle /\ \A b \in Appender \ {a} : app'[b] = app[b]
      BY <1>0, <1>3 DEF Commit
    <3>2. locker = a
      BY <1>3, CommitAdds
    <3>3. \A b \in Appender \ {a} : app[b].pc \notin {"supersede", "commit"}
      BY <3>2 DEF CursorInv
    <3> QED BY <3>1, <3>3 DEF Idle
  <2>6. ASSUME NEW k \in DedupKey, NEW c \in answers'[k]
        PROVE  \E r \in rows' : r.key = k /\ c = r.cursor
    <3>1. app[a].next = counter + 1
      BY <1>3 DEF Commit, CursorInv
    <3>2. c \in answers[k] \/ (k = app[a].key /\ c = app[a].next)
      BY <1>0, <1>3 DEF Commit, Answer
    <3>3. CASE c \in answers[k]
      <4>1. PICK r \in rows : r.key = k /\ c = r.cursor
        BY <3>3 DEF KeyInv
      <4> QED BY <2>1, <4>1
    <3>4. CASE k = app[a].key /\ c = app[a].next
      BY <2>1, <3>1, <3>4
    <3> QED BY <3>2, <3>3, <3>4
  <2> QED BY <2>4, <2>5, <2>6 DEF KeyInv
<1>4. ASSUME NEW action \in {"soft", "hard"}, NEW bc \in Nat, NEW bt \in Nat,
             NEW n \in Nat, Expire(action, bc, bt, n)
      PROVE  KeyInv'
  <2>1. UNCHANGED app
    BY <1>4 DEF Expire
  <2>2. /\ \A s \in rows' : \E r \in rows : s.cursor = r.cursor /\ s.key = r.key
        /\ \A s, q \in rows' : s.cursor = q.cursor => s = q
        /\ \A k \in DedupKey : \A c \in answers'[k] :
             /\ c \in answers[k]
             /\ \A r \in rows : r.cursor = c =>
                  \E s \in rows' : s.cursor = c /\ s.key = r.key
    BY <1>4, ExpireKeeps
  <2>3. ASSUME NEW s \in rows', NEW q \in rows', s.key # None, s.key = q.key
        PROVE  s = q
    <3>1. PICK r \in rows : s.cursor = r.cursor /\ s.key = r.key
      BY <2>2
    <3>2. PICK p \in rows : q.cursor = p.cursor /\ q.key = p.key
      BY <2>2
    <3>3. r = p
      BY <2>3, <3>1, <3>2 DEF KeyInv
    <3> QED BY <2>2, <3>1, <3>2, <3>3
  <2>4. ASSUME NEW b \in Appender, app[b].pc \in {"supersede", "commit"}, app[b].key # None
        PROVE  \A s \in rows' : s.key # app[b].key
    BY <2>2, <2>4 DEF KeyInv
  <2>5. ASSUME NEW k \in DedupKey, NEW c \in answers'[k]
        PROVE  \E s \in rows' : s.key = k /\ c = s.cursor
    <3>1. PICK r \in rows : r.key = k /\ c = r.cursor
      BY <2>2 DEF KeyInv
    <3> QED BY <2>2, <3>1
  <2> QED BY <2>1, <2>3, <2>4, <2>5 DEF KeyInv
<1>5. CASE \/ \E p \in Replica : CheckApplied(p) \/ ApplyMigration(p) \/ StartFails(p)
           \/ \E t \in Tailer : \/ \E c \in {0, 1}, h \in BOOLEAN : TailOpen(t, c, h)
                               \/ TailPoll(t) \/ TailStops(t)
           \/ PgClose \/ UNCHANGED pgVars
  BY <1>1, <1>5 DEF CheckApplied, ApplyMigration, StartFails, TailOpen, TailPoll,
                    TailStops, PgClose, pgVars
<1> QED
  BY <1>2, <1>3, <1>4, <1>5 DEF PgNext, Statement

\* Appends with one dedup key, raced, retried or swept, answer with one event
\* that is stored: the fast path, ON CONFLICT and the re-read of Append.
THEOREM Deduplication == PgSpec => []DedupReplays
<1>1. PgInit => KeyInv
  <2> SUFFICES ASSUME PgInit PROVE KeyInv
    OBVIOUS
  <2>1. rows = {} /\ (\A a \in Appender : app[a].pc = "idle")
        /\ \A k \in DedupKey : answers[k] = {}
    BY DEF PgInit, Idle
  <2> QED BY <2>1 DEF KeyInv
<1>2. (PgTypes /\ CursorInv) /\ KeyInv /\ [PgNext]_pgVars => KeyInv'
  BY KeyStep
<1>3. KeyInv => DedupReplays
  <2> SUFFICES ASSUME KeyInv, NEW k \in DedupKey
               PROVE  /\ Cardinality(answers[k]) <= 1
                      /\ answers[k] \subseteq { r.cursor : r \in Stored(k) }
    BY DEF DedupReplays
  <2>1. answers[k] \subseteq { r.cursor : r \in Stored(k) }
    BY DEF KeyInv
  <2>2. \A c, d \in answers[k] : c = d
    <3>1. \A r, q \in Stored(k) : r = q
      BY EpisodicPostgresAssumption DEF KeyInv, Stored
    <3> QED BY <2>1, <3>1
  <2>3. answers[k] = {} \/ \E c : answers[k] = {c}
    BY <2>2
  <2>4. Cardinality(answers[k]) \in {0, 1}
    BY <2>3, FS_EmptySet, FS_Singleton
  <2> QED BY <2>1, <2>4
<1> QED
  BY <1>1, <1>2, <1>3, PgTypeCorrect, PTL DEF PgSpec

----------------------------------------------------------------------------
\* Whatever happens to the table: no tail moves in the same step, a row that
\* is live was live before, or has the next cursor.
LEMMA TableMoves ==
  ASSUME PgTypes, CursorInv, [PgNext]_pgVars, ~ UNCHANGED <<rows, counter>>
  PROVE  /\ UNCHANGED tailing
         /\ counter' \in {counter, counter + 1}
         /\ \A s \in rows' : ~ s.deleted =>
              \/ s.cursor = counter + 1
              \/ \E r \in rows : s.cursor = r.cursor /\ ~ r.deleted
<1>1. ASSUME NEW a \in Appender, NEW acked \in BOOLEAN, Commit(a, acked)
      PROVE  /\ UNCHANGED tailing
             /\ counter' \in {counter, counter + 1}
             /\ \A s \in rows' : ~ s.deleted =>
                  \/ s.cursor = counter + 1
                  \/ \E r \in rows : s.cursor = r.cursor /\ ~ r.deleted
  <2>1. UNCHANGED tailing
    BY <1>1 DEF Commit
  <2>2. counter' = counter + 1
    BY <1>1, CommitAdds
  <2>3. PICK new \in Row, old \in SUBSET Row : Adds(a, new, old)
    BY <1>1, CommitAdds
  <2> QED BY <2>1, <2>2, <2>3 DEF Adds
<1>2. ASSUME NEW action \in {"soft", "hard"}, NEW bc \in Nat, NEW bt \in Nat,
             NEW n \in Nat, Expire(action, bc, bt, n)
      PROVE  /\ UNCHANGED <<tailing, counter>>
             /\ \A s \in rows' : ~ s.deleted =>
                  \E r \in rows : s.cursor = r.cursor /\ ~ r.deleted
  <2>1. UNCHANGED <<tailing, counter>>
    BY <1>2 DEF Expire
  <2> QED BY <1>2, <2>1, ExpireKeeps
<1>3. ASSUME NEW a \in Appender, Statement(a) PROVE FALSE
  BY <1>3, StatementLocal
<1>4. CASE \/ \E p \in Replica : CheckApplied(p) \/ ApplyMigration(p) \/ StartFails(p)
           \/ \E t \in Tailer : \/ \E c \in {0, 1}, h \in BOOLEAN : TailOpen(t, c, h)
                               \/ TailPoll(t) \/ TailStops(t)
           \/ PgClose \/ UNCHANGED pgVars
  BY <1>4 DEF CheckApplied, ApplyMigration, StartFails, TailOpen, TailPoll,
              TailStops, PgClose, pgVars, pgLogVars
<1> QED
  BY <1>1, <1>2, <1>3, <1>4 DEF PgNext, Statement

\* What a step does to one tail while the table stands still: nothing that
\* matters, a start, or a poll.
LEMMA TailMoves ==
  ASSUME PgTypes, CursorInv, [PgNext]_pgVars, UNCHANGED <<rows, counter>>, NEW t \in Tailer
  PROVE  \/ /\ tailing'[t].start = tailing[t].start /\ tailing'[t].last = tailing[t].last
            /\ tailing'[t].got = tailing[t].got
         \/ tailing'[t].last = tailing'[t].start
         \/ \E all \in BOOLEAN, sent \in SUBSET rows, last \in Nat : Sends(t, all, sent, last)
<1>0. tailing \in [Tailer -> TailCall] /\ tailing[t] \in TailCall
  BY DEF PgTypes
<1>1. ASSUME NEW u \in Tailer, NEW c \in {0, 1}, NEW h \in BOOLEAN, TailOpen(u, c, h), u = t
      PROVE  \/ /\ tailing'[t].start = tailing[t].start /\ tailing'[t].last = tailing[t].last
                /\ tailing'[t].got = tailing[t].got
             \/ tailing'[t].last = tailing'[t].start
  <2>1. CASE closed
    BY <1>0, <1>1, <2>1 DEF TailOpen, TailCall
  <2>2. CASE ~ closed /\ h
    <3>1. tailing'[t] = [NoTail EXCEPT !.pc = "history", !.start = c, !.last = c]
      BY <1>0, <1>1, <2>2 DEF TailOpen
    <3> QED BY <3>1 DEF NoTail
  <2>3. CASE ~ closed /\ ~ h
    <3>1. \E from : tailing' = [tailing EXCEPT ![t] = [pc |-> "live", start |-> from, last |-> from,
                                                got |-> {}]]
      BY <1>1, <2>3 DEF TailOpen, TailHead
    <3> QED BY <1>0, <3>1
  <2> QED BY <2>1, <2>2, <2>3
<1>2. ASSUME NEW u \in Tailer, TailPoll(u) \/ TailStops(u), u = t
      PROVE  \/ /\ tailing'[t].start = tailing[t].start /\ tailing'[t].last = tailing[t].last
                /\ tailing'[t].got = tailing[t].got
             \/ \E all \in BOOLEAN, sent \in SUBSET rows, last \in Nat : Sends(t, all, sent, last)
  <2>1. CASE closed
    <3>1. tailing' = [tailing EXCEPT ![t].pc = "ended"]
      BY <1>2, <2>1 DEF TailPoll, TailStops
    <3> QED BY <1>0, <3>1 DEF TailCall
  <2>2. CASE ~ closed
    <3>1. PICK all \in BOOLEAN : Stream(t, RangeRows(AfterCursor(tailing[t].last)), all)
      BY <1>2, <2>2 DEF TailPoll, TailStops
    <3> QED BY <3>1, StreamSends
  <2> QED BY <2>1, <2>2
<1>3. ASSUME NEW u \in Tailer, u # t,
             \/ \E c \in {0, 1}, h \in BOOLEAN : TailOpen(u, c, h)
             \/ TailPoll(u) \/ TailStops(u)
      PROVE  tailing'[t] = tailing[t]
  BY <1>0, <1>3 DEF TailOpen, TailHead, TailPoll, TailStops, Stream
<1>4. ASSUME \/ \E p \in Replica : CheckApplied(p) \/ ApplyMigration(p) \/ StartFails(p)
             \/ \E a \in Appender : Statement(a)
             \/ \E a \in Appender, acked \in BOOLEAN : Commit(a, acked)
             \/ \E action \in {"soft", "hard"} :
                    Expire(action, 3, 0, 1) \/ Expire(action, 0, 2, 1)
             \/ PgClose \/ UNCHANGED pgVars
      PROVE  tailing'[t] = tailing[t]
  <2>1. \A a \in Appender : Statement(a) => UNCHANGED tailing
    BY StatementLocal
  <2> QED BY <1>4, <2>1
          DEF CheckApplied, ApplyMigration, StartFails, Commit, Expire, PgClose, pgVars
<1> QED
  BY <1>1, <1>2, <1>3, <1>4 DEF PgNext, Statement

\* A commit's cursor lies after everything any tail has sent, and a poll sends
\* every live row between its last cursor and the new one.
LEMMA TailCallStep ==
  ASSUME PgTypes, CursorInv, TailInv, TailMissesNothing, [PgNext]_pgVars
  PROVE  TailInv' /\ TailMissesNothing'
<1>0. /\ counter \in Nat
      /\ \A r \in rows : r.cursor \in Nat /\ r.cursor <= counter
      /\ tailing \in [Tailer -> TailCall]
  BY DEF PgTypes, PgTypeOK, Row, CursorInv
<1>1. ASSUME NEW t \in Tailer
      PROVE  tailing[t].start \in Nat /\ tailing[t].last \in Nat /\ tailing[t] \in TailCall
  BY <1>0 DEF TailCall
<1>2. CASE ~ UNCHANGED <<rows, counter>>
  <2>1. /\ UNCHANGED tailing
        /\ counter' \in {counter, counter + 1}
        /\ \A s \in rows' : ~ s.deleted =>
             \/ s.cursor = counter + 1
             \/ \E r \in rows : s.cursor = r.cursor /\ ~ r.deleted
    BY <1>2, TableMoves
  <2>2. TailInv'
    BY <1>0, <1>1, <2>1 DEF TailInv
  <2>3. ASSUME NEW t \in Tailer, NEW s \in rows', ~ s.deleted,
               tailing[t].start < s.cursor, s.cursor <= tailing[t].last
        PROVE  s.cursor \in tailing[t].got
    <3>1. CASE s.cursor = counter + 1
      BY <1>0, <1>1, <2>3, <3>1 DEF TailInv
    <3>2. CASE \E r \in rows : s.cursor = r.cursor /\ ~ r.deleted
      BY <2>3, <3>2 DEF TailMissesNothing
    <3> QED BY <2>1, <2>3, <3>1, <3>2
  <2> QED BY <2>1, <2>2, <2>3 DEF TailMissesNothing
<1>3. CASE UNCHANGED <<rows, counter>>
  <2> SUFFICES ASSUME NEW t \in Tailer
               PROVE  /\ tailing'[t].last = tailing'[t].start \/ tailing'[t].last <= counter
                      /\ \A r \in rows :
                           /\ ~ r.deleted /\ tailing'[t].start < r.cursor
                           /\ r.cursor <= tailing'[t].last
                           => r.cursor \in tailing'[t].got
    BY <1>3 DEF TailInv, TailMissesNothing
  <2>1. CASE /\ tailing'[t].start = tailing[t].start /\ tailing'[t].last = tailing[t].last
             /\ tailing'[t].got = tailing[t].got
    BY <2>1 DEF TailInv, TailMissesNothing
  <2>2. CASE tailing'[t].last = tailing'[t].start
    <3>1. ASSUME NEW r \in rows, tailing'[t].start < r.cursor, r.cursor <= tailing'[t].last
          PROVE  FALSE
      <4>1. tailing'[t].start \in Nat
        BY PgTypesStep DEF PgTypes, TailCall
      <4> QED BY <1>0, <2>2, <3>1, <4>1
    <3> QED BY <2>2, <3>1
  <2>3. CASE \E all \in BOOLEAN, sent \in SUBSET rows, last \in Nat :
               Sends(t, all, sent, last)
    <3>1. PICK all \in BOOLEAN, sent \in SUBSET rows, last \in Nat :
             Sends(t, all, sent, last)
      BY <2>3
    <3>2. /\ tailing'[t].start = tailing[t].start /\ tailing'[t].last = last
          /\ tailing'[t].got = tailing[t].got \cup { r.cursor : r \in sent }
      BY <1>0, <1>1, <3>1 DEF Sends, TailCall
    <3>3. /\ last \in {tailing[t].last} \cup { r.cursor : r \in sent }
          /\ \A r \in rows, q \in sent :
               ~ r.deleted /\ tailing[t].last < r.cursor /\ r.cursor <= q.cursor => r \in sent
          /\ \A r \in sent : r.cursor <= last
      BY <3>1 DEF Sends
    <3>4. last = tailing[t].start \/ last <= counter
      BY <1>0, <3>3 DEF TailInv
    <3>5. ASSUME NEW r \in rows, ~ r.deleted, tailing[t].start < r.cursor, r.cursor <= last
          PROVE  r.cursor \in tailing[t].got \cup { q.cursor : q \in sent }
      <4>1. CASE r.cursor <= tailing[t].last
        BY <3>5, <4>1 DEF TailMissesNothing
      <4>2. CASE tailing[t].last < r.cursor
        <5>1. last # tailing[t].last
          BY <1>0, <1>1, <3>5, <4>2
        <5>2. PICK q \in sent : last = q.cursor
          BY <3>3, <5>1
        <5> QED BY <3>3, <3>5, <4>2, <5>2
      <4> QED BY <1>0, <1>1, <4>1, <4>2
    <3> QED BY <3>2, <3>4, <3>5
  <2> QED BY <1>3, <2>1, <2>2, <2>3, TailMoves
<1> QED
  BY <1>2, <1>3

\* A tail skips no live event: Append commits cursors in their order, under
\* the lock of the counter row, and Tail polls by cursor.
THEOREM TailLosesNoEvent == PgSpec => []TailMissesNothing
<1>1. PgInit => TailInv /\ TailMissesNothing
  <2> SUFFICES ASSUME PgInit PROVE TailInv /\ TailMissesNothing
    OBVIOUS
  <2>1. rows = {} /\ \A t \in Tailer : tailing[t].last = tailing[t].start
    BY DEF PgInit, NoTail
  <2> QED BY <2>1 DEF TailInv, TailMissesNothing
<1>2. (PgTypes /\ CursorInv) /\ (TailInv /\ TailMissesNothing) /\ [PgNext]_pgVars
        => (TailInv /\ TailMissesNothing)'
  BY TailCallStep
<1> QED
  BY <1>1, <1>2, PgTypeCorrect, PTL DEF PgSpec
=============================================================================
