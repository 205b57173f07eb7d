--------------------------- MODULE SemanticProofs ---------------------------
(***************************************************************************)
(* The semantic block, for any records, requests, sessions and cache size: *)
(* every stored vector is that of its content, whatever the cache, the     *)
(* provider and the other sessions do, a conditional write replaces the    *)
(* version it was checked against, and a search answers with its tenant's  *)
(* records in the order their lanes call for.                              *)
(***************************************************************************)
EXTENDS Semantic, FiniteSetTheorems, SequenceTheorems, TLAPS

\* A session's state, and what is known of the vectors of its texts: an answer
\* is the text's vector, or missing and asked for.
Session(me) == \/ me \in {Idle} \cup EmbedCall \cup BatchCall \cup TxCall
               \/ me.pc \in {"lane", "fetch"}

Contented(me) == /\ me.call.recs # << >>
                 /\ \A i \in 1 .. Len(me.call.recs) : me.vecs[i] = me.call.recs[i].text

VectorsOf(me) ==
    /\ me \in EmbedCall =>
          /\ me.call.op = "upsert" => me.call.recs # << >>
          /\ me.texts = ToEmbed(me.call) /\ Len(me.out) <= Len(me.texts)
          /\ me.pc # "get" => Len(me.out) = Len(me.texts)
          /\ \A i \in 1 .. Len(me.out) :
                me.out[i] = me.texts[i] \/ (me.out[i] = None /\ me.texts[i] \in ToSet(me.miss))
          /\ me.pc = "put" => me.vecs = me.miss
          /\ me.pc \in {"embed", "put"} => me.miss # << >>
          /\ me.pc = "run" => me.miss = << >>
    /\ me \in BatchCall => Contented(me) /\ me.i <= Len(me.call.recs)
    /\ me \in TxCall =>
          /\ Contented(me)
          /\ \A k \in Keys : me.writes[k] # None => me.writes[k].vec = me.writes[k].text

SessInv == /\ DOMAIN sess = Sessions
           /\ \A s \in Sessions : Session(sess[s]) /\ VectorsOf(sess[s])

\* The stored records, and the memory driver's order of them.
StoreInv ==
    /\ driver \in Drivers /\ now \in Time
    /\ rows \in [Keys -> Row \cup {None}]
    /\ \A k \in Keys : rows[k] # None => rows[k].vec = rows[k].text
    /\ order \in Seq(Keys)
    /\ driver = "memory" => IsInjective(order) /\ ToSet(order) = { k \in Keys : rows[k] # None }

\* The cache maps texts to their vectors.
CacheInv ==
    /\ cache \in Seq([key : Text, vec : Text]) /\ Len(cache) <= CacheSize
    /\ \A i, j \in 1 .. Len(cache) : cache[i].key = cache[j].key => i = j
    /\ \A i \in 1 .. Len(cache) : cache[i].vec = cache[i].key

\* The mutex of the memory driver, and the row locks of Postgres.
LockInv ==
    /\ \A s, o \in Sessions : sess[s].pc = "batch" /\ sess[o].pc = "batch" => s = o
    /\ \A s \in Sessions : /\ sess[s].pc = "batch" => driver = "memory"
                           /\ sess[s].pc = "tx" => driver = "postgres"
                           /\ sess[s].pc = "tx" =>
                                 \A k \in Keys : sess[s].writes[k] # None => k \in sess[s].locks
    /\ \A s, o \in Sessions : sess[s].pc = "tx" /\ sess[o].pc = "tx" /\ s # o
                                 => sess[s].locks \cap sess[o].locks = {}

\* A batch's if_versions not yet used are those of the rows, but of a record
\* the batch has written itself; a transaction's last one is that of the row it
\* has locked.
Checked(me) ==
    /\ me.pc = "batch" =>
          \A j \in me.i .. Len(me.call.recs) :
             me.call.recs[j].ifv # None /\ (\A h \in 1 .. j - 1 : me.call.recs[h].id # me.call.recs[j].id)
                => me.call.recs[j].ifv = Version(rows[KeyOf(me.call, me.call.recs[j].id)])
    /\ me.pc = "tx" /\ me.step = "insert" /\ me.i <= Len(me.call.recs)
          /\ me.call.recs[me.i].ifv \notin {None, 0} =>
             /\ KeyOf(me.call, me.call.recs[me.i].id) \in me.locks
             /\ me.call.recs[me.i].ifv = Version(View(me, KeyOf(me.call, me.call.recs[me.i].id)))
    /\ me.pc = "tx" => \A w \in me.conds : w.checked = w.was \/ w.checked = 0

CheckedInv == \A s \in Sessions : Checked(sess[s])

Inv == StoreInv /\ CacheInv /\ SessInv /\ LockInv /\ CheckedInv /\ CASReplacesChecked

-----------------------------------------------------------------------------
(* Sequences: what a selection, a move and a cut leave.                    *)

\* The positions selected are numbered 1, 2, ... in their order.
LEMMA UptoInRange ==
    ASSUME NEW n \in Nat, NEW P \in SUBSET (1 .. n)
    PROVE  /\ IsFiniteSet(P) /\ Cardinality(P) \in Nat
           /\ \A i \in P : Upto(P, i) \in 1 .. Cardinality(P)
<1>1. IsFiniteSet(P) /\ Cardinality(P) \in Nat
  <2>1. IsFiniteSet(1 .. n)
    BY FS_Interval
  <2>2. IsFiniteSet(P)
    BY <2>1, FS_Subset
  <2> QED BY <2>2, FS_CardinalityType
<1>2. ASSUME NEW i \in P PROVE Upto(P, i) \in 1 .. Cardinality(P)
  <2> DEFINE H == { h \in P : h <= i }
  <2>1. IsFiniteSet(H) /\ Cardinality(H) <= Cardinality(P) /\ Cardinality(H) \in Nat
    BY <1>1, FS_Subset, FS_CardinalityType
  <2>2. i \in H
    OBVIOUS
  <2>3. Cardinality(H) # 0
    BY <2>1, <2>2, FS_EmptySet
  <2> QED BY <1>1, <2>1, <2>3 DEF Upto
<1> QED BY <1>1, <1>2

LEMMA UptoIncreases ==
    ASSUME NEW n \in Nat, NEW P \in SUBSET (1 .. n), NEW i \in P, NEW j \in P, i < j
    PROVE  Upto(P, i) < Upto(P, j)
<1> DEFINE G == { h \in P : h <= i }
           H == { h \in P : h <= j }
<1>1. IsFiniteSet(H) /\ Cardinality(H) \in Nat
  <2>1. IsFiniteSet(P)
    BY UptoInRange
  <2>2. H \in SUBSET P
    OBVIOUS
  <2>3. IsFiniteSet(H)
    BY <2>1, <2>2, FS_Subset
  <2> QED BY <2>3, FS_CardinalityType
<1>2. G \in SUBSET H /\ j \in H /\ j \notin G
  <2>1. \A h \in P : h \in Int
    OBVIOUS
  <2>2. \A h \in P : h <= i => h <= j
    BY <2>1
  <2>3. ~ (j <= i)
    BY <2>1
  <2>4. j <= j
    BY <2>1
  <2>5. \A h \in G : h \in H
    BY <2>2
  <2>6. j \in H /\ j \notin G
    BY <2>3, <2>4
  <2> QED BY <2>5, <2>6
<1>3. Cardinality(G) <= Cardinality(H) /\ Cardinality(G) # Cardinality(H)
  BY <1>1, <1>2, FS_Subset
<1>4. IsFiniteSet(G) /\ Cardinality(G) \in Nat
  BY <1>1, <1>2, FS_Subset, FS_CardinalityType
<1> QED BY <1>1, <1>3, <1>4 DEF Upto

LEMMA UptoNumbers ==
    ASSUME NEW n \in Nat, NEW P \in SUBSET (1 .. n)
    PROVE  /\ \A i, j \in P : Upto(P, i) = Upto(P, j) => i = j
           /\ \A j \in 1 .. Cardinality(P) : \E i \in P : Upto(P, i) = j
<1>0. /\ IsFiniteSet(P) /\ Cardinality(P) \in Nat
      /\ \A i \in P : Upto(P, i) \in 1 .. Cardinality(P)
  BY UptoInRange
<1>1. ASSUME NEW i \in P, NEW j \in P, Upto(P, i) = Upto(P, j) PROVE i = j
  <2>1. Upto(P, i) \in 1 .. Cardinality(P) /\ Upto(P, j) \in 1 .. Cardinality(P)
    BY <1>0
  <2>2. i \in Int /\ j \in Int
    OBVIOUS
  <2>3. ASSUME i < j PROVE FALSE
    <3>1. Upto(P, i) < Upto(P, j)
      BY <2>3, UptoIncreases
    <3> QED BY <2>1, <3>1, <1>1
  <2>4. ASSUME j < i PROVE FALSE
    <3>1. Upto(P, j) < Upto(P, i)
      BY <2>4, UptoIncreases
    <3> QED BY <2>1, <3>1, <1>1
  <2> QED BY <2>2, <2>3, <2>4
<1> DEFINE T == 1 .. Cardinality(P)
           f == [i \in P |-> Upto(P, i)]
<1>2. f \in Injection(P, T)
  <2>1. f \in [P -> T]
    BY <1>0
  <2>2. \A i, j \in DOMAIN f : f[i] = f[j] => i = j
    BY <1>1
  <2> QED BY <2>1, <2>2 DEF Injection, IsInjective
<1>3. IsFiniteSet(T) /\ Cardinality(T) = Cardinality(P)
  BY <1>0, FS_Interval
<1> HIDE DEF T, f
<1>4. f \in Surjection(P, T)
  BY <1>2, <1>3, FS_Injection
<1>5. \A j \in T : \E i \in P : f[i] = j
  BY <1>4 DEF Surjection
<1> USE DEF T, f
<1> QED BY <1>1, <1>5

LEMMA SelectionProperties ==
    ASSUME NEW S, NEW s \in Seq(S), NEW P \in SUBSET (1 .. Len(s))
    PROVE  /\ Selection(s, P) \in Seq(S) /\ Len(Selection(s, P)) = Cardinality(P)
           /\ \A i \in P : Selection(s, P)[Upto(P, i)] = s[i]
           /\ ToSet(Selection(s, P)) = { s[i] : i \in P }
           /\ IsInjective(s) => IsInjective(Selection(s, P))
<1> DEFINE at(j) == CHOOSE i \in P : Upto(P, i) = j
           n == Cardinality(P)
<1>1. Len(s) \in Nat /\ DOMAIN s = 1 .. Len(s) /\ \A i \in 1 .. Len(s) : s[i] \in S
  OBVIOUS
<1>2. n \in Nat /\ \A i \in P : Upto(P, i) \in 1 .. n
  BY <1>1, UptoInRange
<1>a. /\ \A i, j \in P : Upto(P, i) = Upto(P, j) => i = j
      /\ \A j \in 1 .. n : \E i \in P : Upto(P, i) = j
  BY <1>1, UptoNumbers
<1>3. \A j \in 1 .. n : at(j) \in P /\ Upto(P, at(j)) = j
  BY <1>a
<1>4. \A i \in P : at(Upto(P, i)) = i
  BY <1>2, <1>3, <1>a
<1> HIDE DEF at
<1>5. Selection(s, P) = [j \in 1 .. n |-> s[at(j)]]
  BY DEF Selection, at
<1> HIDE DEF n
<1>6. \A j \in 1 .. n : s[at(j)] \in S
  BY <1>1, <1>3
<1>7. Selection(s, P) \in Seq(S) /\ Len(Selection(s, P)) = n
  BY <1>2, <1>5, <1>6
<1>8. \A i \in P : Selection(s, P)[Upto(P, i)] = s[i]
  BY <1>2, <1>4, <1>5
<1>9. ToSet(Selection(s, P)) = { s[i] : i \in P }
  <2>1. ToSet(Selection(s, P)) = { s[at(j)] : j \in 1 .. n }
    BY <1>5 DEF ToSet
  <2>2. \A i \in P : Upto(P, i) \in 1 .. n /\ s[at(Upto(P, i))] = s[i]
    BY <1>2, <1>4
  <2> QED BY <1>3, <2>1, <2>2
<1>10. ASSUME IsInjective(s) PROVE IsInjective(Selection(s, P))
  <2>1. ASSUME NEW j \in 1 .. n, NEW l \in 1 .. n, s[at(j)] = s[at(l)] PROVE j = l
    <3>1. at(j) = at(l)
      BY <1>1, <1>3, <1>10, <2>1 DEF IsInjective
    <3> QED BY <1>3, <3>1
  <2> QED BY <1>5, <2>1 DEF IsInjective
<1> QED BY <1>7, <1>8, <1>9, <1>10 DEF n

LEMMA KeepProperties ==
    ASSUME NEW T, NEW s \in Seq(T), NEW S
    PROVE  /\ Keep(s, S) \in Seq(T)
           /\ ToSet(Keep(s, S)) = ToSet(s) \cap S
           /\ IsInjective(s) => IsInjective(Keep(s, S))
<1> DEFINE P == { i \in 1 .. Len(s) : s[i] \in S }
<1>1. P \in SUBSET (1 .. Len(s)) /\ Keep(s, S) = Selection(s, P)
  BY DEF Keep
<1>2. { s[i] : i \in P } = ToSet(s) \cap S
  BY DEF ToSet
<1> HIDE DEF P
<1> QED BY <1>1, <1>2, SelectionProperties

-----------------------------------------------------------------------------
(* Calls, records and rows.                                                *)

LEMMA CallTypes ==
    ASSUME NEW c \in Calls
    PROVE  /\ c.op \in {"upsert", "search", "delete", "expire"} /\ c.tenant \in Tenants
           /\ c.op = "upsert" => c \in Upserts /\ c.recs \in Seq(Record)
           /\ c.op = "search" => c.text \in Text
           /\ c.op = "delete" => c.id \in Ids
           /\ c.op = "expire" => c.max \in Nat
BY SemanticAssumption DEF Upserts

LEMMA KeyOfType ==
    ASSUME NEW c \in Calls, NEW id \in Ids
    PROVE  KeyOf(c, id) \in Keys
BY CallTypes DEF KeyOf, Keys

LEMMA KeysDiffer ==
    ASSUME NEW c, NEW id, NEW other, id # other
    PROVE  KeyOf(c, id) # KeyOf(c, other)
BY DEF KeyOf

LEMMA RecordTypes ==
    ASSUME NEW c \in Upserts, NEW i \in 1 .. Len(c.recs)
    PROVE  /\ c \in Calls /\ c.recs \in Seq(Record) /\ Len(c.recs) \in Nat
           /\ c.recs[i] \in Record /\ c.recs[i].meta \in Meta
           /\ c.recs[i].id \in Ids /\ c.recs[i].text \in Text /\ c.recs[i].ifv \in Nat \cup {None}
           /\ KeyOf(c, c.recs[i].id) \in Keys
           /\ Targets(c, c.recs[i]) \subseteq Keys
           /\ KeyOf(c, c.recs[i].id) \notin Targets(c, c.recs[i])
<1>1. c \in Calls /\ c.recs \in Seq(Record)
  BY CallTypes DEF Upserts
<1>2. c.recs[i] \in Record /\ Len(c.recs) \in Nat /\ i \in DOMAIN c.recs
  BY <1>1
<1>3. c.recs[i].id \in Ids /\ c.recs[i].sup \in SUBSET Ids /\ c.recs[i].text \in Text
      /\ c.recs[i].ifv \in Nat \cup {None}
  BY <1>2 DEF Record
<1>4. c.recs[i].meta \in Meta
  BY <1>2 DEF Meta
<1>5. KeyOf(c, c.recs[i].id) \in Keys
  BY <1>1, <1>3, KeyOfType
<1>6. Targets(c, c.recs[i]) \subseteq Keys
  BY <1>1, <1>3, KeyOfType DEF Targets
<1>7. KeyOf(c, c.recs[i].id) \notin Targets(c, c.recs[i])
  BY KeysDiffer DEF Targets
<1> QED BY <1>1, <1>2, <1>3, <1>4, <1>5, <1>6, <1>7

LEMMA RowTypes ==
    ASSUME NEW row \in Row
    PROVE  row # None /\ row.version \in Nat \ {0}
BY SemanticAssumption DEF Row

LEMMA VersionType ==
    ASSUME NEW row \in Row \cup {None}
    PROVE  /\ Version(row) \in Nat /\ (Version(row) = 0 <=> row = None)
BY RowTypes DEF Version

LEMMA StoredType ==
    ASSUME NEW r \in Record, r.meta \in Meta, NEW vec \in Text, NEW old \in Row \cup {None}, NEW at \in Time
    PROVE  /\ Stored(r, vec, old, at) \in Row
           /\ Stored(r, vec, old, at).vec = vec /\ Stored(r, vec, old, at).text = r.text
<1>1. Version(old) + 1 \in Nat \ {0}
  BY VersionType
<1>2. r.text \in Text
  BY DEF Record
<1>3. (IF driver = "postgres" /\ old # None THEN old.created ELSE at) \in Time
  BY DEF Row
<1>4. at \in Time /\ None \in Time \cup {None} /\ FALSE \in BOOLEAN
  OBVIOUS
<1> QED BY <1>1, <1>2, <1>3, <1>4 DEF Stored, Row

LEMMA SupersededType ==
    ASSUME NEW row \in Row \cup {None}, NEW at \in Time
    PROVE  /\ Superseded(row, at) \in Row \cup {None}
           /\ Superseded(row, at) = None <=> row = None
           /\ Version(Superseded(row, at)) = Version(row)
           /\ row # None => Superseded(row, at).vec = row.vec /\ Superseded(row, at).text = row.text
<1>1. CASE Superseded(row, at) = row
  BY <1>1
<1>2. CASE row # None /\ Superseded(row, at) = [row EXCEPT !.to = at]
  <2> DEFINE q == [row EXCEPT !.to = at]
  <2>1. q \in Row
    BY <1>2 DEF Row
  <2>2. q.vec = row.vec /\ q.text = row.text /\ q.version = row.version
    BY <1>2 DEF Row
  <2> HIDE DEF q
  <2>3. Superseded(row, at) = q
    BY <1>2 DEF q
  <2> QED BY <1>2, <2>1, <2>2, <2>3, RowTypes DEF Version
<1> QED BY <1>1, <1>2 DEF Superseded

LEMMA ExpiredType ==
    ASSUME NEW row \in Row, now \in Time, NEW c
    PROVE  /\ Expired(c, row) \in Row \cup {None}
           /\ Expired(c, row) # None =>
                 Expired(c, row).vec = row.vec /\ Expired(c, row).text = row.text
<1>1. CASE c.action = "invalidate"
  BY <1>1 DEF Expired, Row
<1>2. CASE c.action = "soft"
  BY <1>2 DEF Expired, Row
<1>3. CASE c.action # "invalidate" /\ c.action # "soft"
  BY <1>3 DEF Expired
<1> QED BY <1>1, <1>2, <1>3

-----------------------------------------------------------------------------
(* Sessions.                                                               *)

LEMMA SessionKinds ==
    ASSUME NEW me, Session(me)
    PROVE  /\ me.pc \in {"get", "embed", "put", "run"} => me \in EmbedCall
           /\ me.pc = "batch" => me \in BatchCall
           /\ me.pc = "tx" => me \in TxCall
           /\ me.pc \in {"idle", "get", "embed", "put", "run", "batch", "tx", "lane", "fetch"}
BY DEF Session, Idle, EmbedCall, BatchCall, TxCall

LEMMA KindsDiffer ==
    ASSUME NEW me
    PROVE  /\ me \in EmbedCall => me.pc \in {"get", "embed", "put", "run"}
           /\ me \in BatchCall => me.pc = "batch"
           /\ me \in TxCall => me.pc = "tx"
           /\ Idle.pc = "idle" /\ Session(Idle) /\ VectorsOf(Idle)
<1>1. Idle.pc = "idle" /\ Session(Idle)
  BY DEF Idle, Session
<1>2. me \in EmbedCall => me.pc \in {"get", "embed", "put", "run"}
  BY DEF EmbedCall
<1>3. /\ me \in BatchCall => me.pc = "batch"
      /\ me \in TxCall => me.pc = "tx"
  BY DEF BatchCall, TxCall
<1>4. Idle \notin EmbedCall /\ Idle \notin BatchCall /\ Idle \notin TxCall
  BY <1>1 DEF EmbedCall, BatchCall, TxCall
<1> QED BY <1>1, <1>2, <1>3, <1>4 DEF VectorsOf

\* A step of one session that holds no mutex and no lock afterwards, and leaves
\* the records alone.
LEMMA FreeStep ==
    ASSUME SessInv, LockInv, CheckedInv, CASReplacesChecked,
           NEW s \in Sessions, NEW v, sess' = [sess EXCEPT ![s] = v],
           Session(v), VectorsOf(v), v.pc \notin {"batch", "tx"},
           UNCHANGED <<driver, rows, replaced>>
    PROVE  SessInv' /\ LockInv' /\ CheckedInv' /\ CASReplacesChecked'
<1>1. /\ DOMAIN sess' = Sessions /\ sess'[s] = v
      /\ \A o \in Sessions \ {s} : sess'[o] = sess[o]
  BY DEF SessInv
<1>2. SessInv'
  BY <1>1 DEF SessInv
<1>3. LockInv'
  <2>1. \A o \in Sessions : sess'[o].pc \in {"batch", "tx"} => o # s /\ sess'[o] = sess[o]
    BY <1>1
  <2> QED BY <2>1 DEF LockInv
<1>4. CheckedInv'
  <2>1. ASSUME NEW o \in Sessions, o # s PROVE Checked(sess[o])'
    <3>1. sess'[o] = sess[o] /\ Checked(sess[o])
      BY <1>1, <2>1 DEF CheckedInv
    <3> QED BY <3>1 DEF Checked, View
  <2>2. Checked(sess[s])'
    BY <1>1 DEF Checked
  <2> QED BY <2>1, <2>2 DEF CheckedInv
<1>5. CASReplacesChecked'
  BY DEF CASReplacesChecked
<1> QED BY <1>2, <1>3, <1>4, <1>5

-----------------------------------------------------------------------------
(* Embedding.                                                              *)

LEMMA NeededRange ==
    ASSUME NEW c \in Upserts
    PROVE  /\ Needed(c) \in SUBSET (1 .. Len(c.recs)) /\ Len(c.recs) \in Nat
           /\ c \in Calls /\ c.recs \in Seq(Record)
BY CallTypes DEF Needed, Upserts

\* What an upsert has embedded is the text of every record that brings no
\* vector of its own, at the position the record's turn gives.
LEMMA ToEmbedTexts ==
    ASSUME NEW c \in Upserts
    PROVE  /\ ToEmbed(c) \in Seq(Text) /\ Len(ToEmbed(c)) = Cardinality(Needed(c))
           /\ \A i \in Needed(c) : /\ Upto(Needed(c), i) \in 1 .. Len(ToEmbed(c))
                                   /\ ToEmbed(c)[Upto(Needed(c), i)] = c.recs[i].text
<1> DEFINE t == [i \in 1 .. Len(c.recs) |-> c.recs[i].text]
           P == Needed(c)
<1>1. Len(c.recs) \in Nat /\ \A i \in 1 .. Len(c.recs) : c.recs[i].text \in Text
  BY NeededRange, RecordTypes
<1>2. t \in Seq(Text) /\ Len(t) = Len(c.recs)
  BY <1>1
<1>3. P \in SUBSET (1 .. Len(t))
  BY <1>2, NeededRange
<1>4. \A i \in P : t[i] = c.recs[i].text
  BY <1>2, <1>3
<1>5. ToEmbed(c) = Selection(t, P)
  BY DEF ToEmbed, Upserts
<1> HIDE DEF t, P
<1>6. \A i \in P : Upto(P, i) \in 1 .. Cardinality(P)
  BY <1>1, <1>2, <1>3, UptoInRange
<1>7. /\ Selection(t, P) \in Seq(Text) /\ Len(Selection(t, P)) = Cardinality(P)
      /\ \A i \in P : Selection(t, P)[Upto(P, i)] = t[i]
  BY <1>2, <1>3, SelectionProperties
<1> QED BY <1>4, <1>5, <1>6, <1>7 DEF P

LEMMA ToEmbedType ==
    ASSUME NEW c \in Calls
    PROVE  ToEmbed(c) \in Seq(Text)
<1>1. CASE c.op = "upsert"
  BY <1>1, ToEmbedTexts DEF Upserts
<1>2. CASE c.op = "search" /\ c.mode # "sparse"
  <2>1. c.text \in Text
    BY <1>2, CallTypes
  <2> QED BY <1>2, <2>1 DEF ToEmbed
<1>3. CASE c.op # "upsert" /\ ~ (c.op = "search" /\ c.mode # "sparse")
  BY <1>3 DEF ToEmbed
<1> QED BY <1>1, <1>2, <1>3

LEMMA BeginKeeps ==
    ASSUME Inv, NEW s \in Sessions, Begin(s)
    PROVE  Inv'
<1>1. PICK call \in Calls :
        /\ sess[s].pc = "idle" /\ now < MaxCalls /\ now' = now + 1
        /\ sess' = IF Refused(call) THEN sess
                   ELSE [sess EXCEPT ![s] =
                           [pc |-> "get", call |-> call, texts |-> ToEmbed(call),
                            out |-> << >>, miss |-> << >>, vecs |-> << >>]]
        /\ UNCHANGED <<driver, rows, order, cache, found, replaced>>
  BY DEF Begin
<1>2. StoreInv' /\ CacheInv'
  <2>1. now' \in Time
    BY <1>1, SemanticAssumption DEF Inv, StoreInv, Time
  <2> QED BY <1>1, <2>1 DEF Inv, StoreInv, CacheInv
<1>3. CASE Refused(call)
  <2>1. UNCHANGED <<driver, rows, replaced, sess>>
    BY <1>1, <1>3
  <2>2. SessInv' /\ LockInv'
    BY <2>1 DEF Inv, SessInv, LockInv
  <2>3. CheckedInv'
    <3>1. ASSUME NEW o \in Sessions PROVE Checked(sess[o])'
      <4>1. Checked(sess[o])
        BY DEF Inv, CheckedInv
      <4> QED BY <2>1, <4>1 DEF Checked, View
    <3> QED BY <3>1 DEF CheckedInv
  <2>4. CASReplacesChecked'
    BY <2>1 DEF Inv, CASReplacesChecked
  <2> QED BY <1>2, <2>2, <2>3, <2>4 DEF Inv
<1>4. CASE ~ Refused(call)
  <2> DEFINE v == [pc |-> "get", call |-> call, texts |-> ToEmbed(call),
                   out |-> << >>, miss |-> << >>, vecs |-> << >>]
  <2>1. v \in EmbedCall
    BY ToEmbedType DEF EmbedCall
  <2>2. call.op = "upsert" => call.recs # << >>
    BY <1>4 DEF Refused
  <2>3. Len(v.texts) \in Nat
    BY ToEmbedType
  <2>4. VectorsOf(v)
    <3>1. v \notin BatchCall /\ v \notin TxCall
      BY KindsDiffer
    <3> QED BY <2>2, <2>3, <3>1 DEF VectorsOf
  <2>5. Session(v) /\ v.pc = "get"
    BY <2>1 DEF Session
  <2> HIDE DEF v
  <2>6. sess' = [sess EXCEPT ![s] = v]
    BY <1>1, <1>4 DEF v
  <2>7. SessInv' /\ LockInv' /\ CheckedInv' /\ CASReplacesChecked'
    BY <1>1, <2>4, <2>5, <2>6, FreeStep DEF Inv
  <2> QED BY <1>2, <2>7 DEF Inv
<1> QED BY <1>3, <1>4

\* The cache knows each text at most once, so the entry found is the only one.
LEMMA CachedFinds ==
    ASSUME CacheInv, NEW t
    PROVE  /\ Cached(t) \in 0 .. Len(cache)
           /\ Cached(t) > 0 => cache[Cached(t)].key = t
           /\ Cached(t) = 0 => \A i \in 1 .. Len(cache) : cache[i].key # t
<1> DEFINE I == { i \in 1 .. Len(cache) : cache[i].key = t }
<1>1. Cached(t) = IF I # {} THEN CHOOSE x \in I : \A y \in I : x =< y ELSE 0
  BY DEF Cached, SelectInSeq, Min
<1>2. Len(cache) \in Nat
  BY DEF CacheInv
<1>3. CASE I = {}
  BY <1>1, <1>2, <1>3
<1>4. ASSUME NEW i \in I PROVE Cached(t) = i
  <2>1. i \in Int /\ \A y \in I : y = i
    BY DEF CacheInv
  <2>2. \A y \in I : i =< y
    BY <2>1
  <2> HIDE DEF I
  <2> QED BY <1>1, <2>1, <2>2
<1> QED BY <1>2, <1>3, <1>4

\* Moving an entry to the front permutes the list.
LEMMA MovedToFront ==
    ASSUME CacheInv, NEW i \in 1 .. Len(cache)
    PROVE  LET M == MoveToFront(i) IN
           /\ M \in Seq([key : Text, vec : Text]) /\ Len(M) = Len(cache)
           /\ M[1] = cache[i]
           /\ \A j \in 2 .. i : M[j] = cache[j - 1]
           /\ \A j \in i + 1 .. Len(cache) : M[j] = cache[j]
<1> DEFINE E == [key : Text, vec : Text]
           A == SubSeq(cache, 1, i - 1)
           B == SubSeq(cache, i + 1, Len(cache))
           n == Len(cache)
<1>0. cache \in Seq(E)
  BY DEF CacheInv
<1> HIDE DEF E
<1>1. cache \in Seq(E) /\ n \in Nat /\ cache[i] \in E
  BY <1>0
<1>2. A \in Seq(E) /\ Len(A) = i - 1 /\ \A j \in 1 .. i - 1 : A[j] = cache[j]
  BY <1>1, SubSeqProperties
<1>3. B \in Seq(E) /\ Len(B) = n - i /\ \A j \in 1 .. n - i : B[j] = cache[j + i]
  BY <1>1, SubSeqProperties
<1>4. MoveToFront(i) = <<cache[i]>> \o (A \o B)
  BY DEF MoveToFront, RemoveAt
<1> HIDE DEF A, B
<1>5. /\ A \o B \in Seq(E) /\ Len(A \o B) = n - 1
      /\ \A j \in 1 .. i - 1 : (A \o B)[j] = cache[j]
      /\ \A j \in i .. n - 1 : (A \o B)[j] = cache[j + 1]
  <2>1. A \o B \in Seq(E) /\ Len(A \o B) = n - 1
    <3>1. A \o B \in Seq(E) /\ Len(A \o B) = Len(A) + Len(B)
      BY <1>2, <1>3, ConcatProperties
    <3>2. (i - 1) + (n - i) = n - 1
      BY <1>1
    <3> QED BY <1>2, <1>3, <3>1, <3>2
  <2>2. ASSUME NEW j \in 1 .. i - 1 PROVE (A \o B)[j] = cache[j]
    BY <1>1, <1>2, <1>3
  <2>3. ASSUME NEW j \in i .. n - 1 PROVE (A \o B)[j] = cache[j + 1]
    <3>1. (A \o B)[j] = B[j - (i - 1)]
      BY <1>1, <1>2, <1>3
    <3>2. j - (i - 1) \in 1 .. n - i /\ (j - (i - 1)) + i = j + 1
      BY <1>1
    <3> QED BY <1>3, <3>1, <3>2
  <2> QED BY <2>1, <2>2, <2>3
<1> DEFINE R == A \o B
<1> HIDE DEF R
<1>6. R \in Seq(E) /\ Len(R) = n - 1 /\ MoveToFront(i) = <<cache[i]>> \o R
      /\ \A j \in 1 .. i - 1 : R[j] = cache[j]
  BY <1>4, <1>5 DEF R
<1>b. \A j \in i .. n - 1 : R[j] = cache[j + 1]
  BY <1>5 DEF R
<1> DEFINE M == <<cache[i]>> \o R
<1>7. M \in Seq(E) /\ Len(M) = n /\ M[1] = cache[i] /\ \A j \in 2 .. n : M[j] = R[j - 1]
  BY <1>1, <1>6
<1> HIDE DEF M
<1>8. \A j \in 2 .. i : M[j] = cache[j - 1]
  <2> TAKE j \in 2 .. i
  <2>1. j - 1 \in 1 .. i - 1 /\ j \in 2 .. n
    BY <1>1
  <2> QED BY <1>6, <1>7, <2>1
<1>9. ASSUME NEW j \in i + 1 .. n PROVE M[j] = cache[j]
  <2> DEFINE h == j - 1
  <2>1. h \in i .. n - 1 /\ j \in 2 .. n /\ h + 1 = j
    BY <1>1
  <2>2. M[j] = R[h]
    BY <1>7, <2>1
  <2> HIDE DEF h
  <2>3. R[h] = cache[h + 1]
    BY <1>b, <2>1
  <2> QED BY <2>1, <2>2, <2>3
<1>10. MoveToFront(i) = M
  BY <1>6 DEF M
<1> QED BY <1>7, <1>8, <1>9, <1>10 DEF E

LEMMA HitKeepsCache ==
    ASSUME CacheInv, NEW i \in 1 .. Len(cache), cache' = MoveToFront(i)
    PROVE  CacheInv'
<1> DEFINE n == Len(cache)
           from(j) == IF j = 1 THEN i ELSE IF j <= i THEN j - 1 ELSE j
<1>1. /\ cache' \in Seq([key : Text, vec : Text]) /\ Len(cache') = n /\ n \in Nat
      /\ \A j \in 1 .. n : from(j) \in 1 .. n
  BY MovedToFront DEF CacheInv
<1>2. \A j \in 1 .. n : cache'[j] = cache[from(j)]
  <2> TAKE j \in 1 .. n
  <2>1. CASE j = 1
    BY <2>1, MovedToFront
  <2>2. CASE j # 1 /\ j <= i
    <3>1. j \in 2 .. i
      BY <2>2
    <3> QED BY <2>2, <3>1, MovedToFront
  <2>3. CASE j # 1 /\ ~ (j <= i)
    <3>1. j \in i + 1 .. n
      BY <1>1, <2>3
    <3> QED BY <2>3, <3>1, MovedToFront
  <2> QED BY <2>1, <2>2, <2>3
<1>3. \A j, l \in 1 .. n : from(j) = from(l) => j = l
  OBVIOUS
<1> HIDE DEF n, from
<1>4. /\ \A a, b \in 1 .. n : cache[a].key = cache[b].key => a = b
      /\ \A a \in 1 .. n : cache[a].vec = cache[a].key
      /\ n <= CacheSize
  BY DEF CacheInv, n
<1>5. ASSUME NEW j \in 1 .. n, NEW l \in 1 .. n, cache'[j].key = cache'[l].key PROVE j = l
  <2>1. cache[from(j)].key = cache[from(l)].key
    BY <1>2, <1>5
  <2>2. from(j) = from(l)
    BY <1>1, <1>4, <2>1
  <2> QED BY <1>3, <2>2
<1>6. \A j \in 1 .. n : cache'[j].vec = cache'[j].key
  BY <1>1, <1>2, <1>4, SMTT(30)
<1> QED BY <1>1, <1>4, <1>5, <1>6 DEF CacheInv

LEMMA PutKeepsCache ==
    ASSUME CacheInv, NEW t \in Text, cache' = put(t, t)
    PROVE  CacheInv'
<1> DEFINE at == Cached(t)
           E == [key : Text, vec : Text]
<1>1. /\ at \in 0 .. Len(cache) /\ Len(cache) \in Nat /\ cache \in Seq(E)
      /\ at > 0 => cache[at].key = t /\ cache[at].vec = t
      /\ at = 0 => \A i \in 1 .. Len(cache) : cache[i].key # t
  BY CachedFinds DEF CacheInv
<1>2. CASE at > 0
  <2> DEFINE M == MoveToFront(at)
  <2>1. at \in 1 .. Len(cache)
    BY <1>1, <1>2
  <2>2. M \in Seq(E) /\ Len(M) = Len(cache) /\ M[1] = cache[at] /\ M[1] \in E
    <3>1. M \in Seq(E) /\ Len(M) = Len(cache) /\ M[1] = cache[at]
      BY <2>1, MovedToFront
    <3> HIDE DEF M, E
    <3> QED BY <1>1, <2>1, <3>1
  <2>3. M[1].vec = t
    BY <1>1, <1>2, <2>2
  <2>4. [M[1] EXCEPT !.vec = t] = M[1]
    BY <2>2, <2>3
  <2>5. cache' = [M EXCEPT ![1] = [M[1] EXCEPT !.vec = t]]
    BY <1>2 DEF put
  <2> HIDE DEF M, E
  <2>6. cache' = M
    BY <2>2, <2>4, <2>5
  <2> QED BY <2>1, <2>6, HitKeepsCache DEF M
<1>3. CASE at = 0
  <2> DEFINE e == [key |-> t, vec |-> t]
             R == <<e>> \o cache
             n == IF CacheSize < Len(R) THEN CacheSize ELSE Len(R)
  <2>1. e \in E /\ e.key = t /\ e.vec = t
    OBVIOUS
  <2> HIDE DEF e, E
  <2>2. /\ R \in Seq(E) /\ Len(R) = Len(cache) + 1 /\ R[1] = e
        /\ \A j \in 2 .. Len(R) : R[j] = cache[j - 1]
    BY <1>1, <2>1
  <2>3. cache' = Take(R, CacheSize)
    BY <1>1, <1>3 DEF put, e
  <2> HIDE DEF R
  <2>4. CacheSize \in Nat \ {0} /\ n \in 1 .. Len(R) /\ n <= CacheSize /\ Len(R) \in Nat
    BY <1>1, <2>2, SemanticAssumption
  <2>5. cache' \in Seq(E) /\ Len(cache') = n /\ \A j \in 1 .. n : cache'[j] = R[j]
    <3>1. CASE CacheSize < Len(R)
      <4>1. cache' = SubSeq(R, 1, CacheSize) /\ n = CacheSize
        BY <2>3, <2>4, <3>1 DEF Take
      <4>2. \A j \in 1 .. CacheSize : R[j] \in E
        BY <2>2, <2>4, <3>1
      <4> QED BY <2>4, <4>1, <4>2, SubSeqProperties
    <3>2. CASE ~ (CacheSize < Len(R))
      <4>1. cache' = R /\ n = Len(R)
        BY <2>3, <3>2 DEF Take
      <4> QED BY <2>2, <4>1
    <3> QED BY <3>1, <3>2
  <2> HIDE DEF n
  <2>6. \A j \in 2 .. n : R[j] = cache[j - 1] /\ j - 1 \in 1 .. Len(cache)
    BY <1>1, <2>2, <2>4
  <2>7. \A j \in 1 .. n : R[j].vec = R[j].key
    <3>1. ASSUME NEW j \in 2 .. n PROVE R[j].vec = R[j].key
      BY <2>6 DEF CacheInv
    <3> QED BY <2>1, <2>2, <2>4, <3>1
  <2>8. \A j \in 2 .. n : R[j].key # R[1].key
    BY <1>1, <1>3, <2>1, <2>2, <2>6
  <2>9. ASSUME NEW j \in 2 .. n, NEW l \in 2 .. n, R[j].key = R[l].key PROVE j = l
    <3>1. j - 1 = l - 1
      BY <2>6, <2>9 DEF CacheInv
    <3> QED BY <3>1
  <2>10. \A j, l \in 1 .. n : R[j].key = R[l].key => j = l
    BY <2>4, <2>8, <2>9
  <2>11. \A j, l \in 1 .. n : cache'[j].key = cache'[l].key => j = l
    BY <2>5, <2>10
  <2>12. \A j \in 1 .. n : cache'[j].vec = cache'[j].key
    BY <2>5, <2>7
  <2> QED BY <2>4, <2>5, <2>11, <2>12 DEF CacheInv, E
<1> QED BY <1>1, <1>2, <1>3

LEMMA EmbedStep ==
    ASSUME Inv, NEW s \in Sessions, NEW v \in EmbedCall, VectorsOf(v), sess' = [sess EXCEPT ![s] = v],
           CacheInv', UNCHANGED <<driver, rows, order, now, replaced>>
    PROVE  Inv'
<1>1. Session(v) /\ v.pc \notin {"batch", "tx"}
  BY KindsDiffer DEF Session
<1>2. SessInv' /\ LockInv' /\ CheckedInv' /\ CASReplacesChecked'
  BY <1>1, FreeStep DEF Inv
<1>3. StoreInv'
  BY DEF Inv, StoreInv
<1> QED BY <1>2, <1>3 DEF Inv

LEMMA EmbedCallTypes ==
    ASSUME NEW me \in EmbedCall
    PROVE  /\ me.call \in Calls /\ me.texts \in Seq(Text) /\ me.out \in Seq(Text \cup {None})
           /\ me.miss \in Seq(Text) /\ me.vecs \in Seq(Text)
           /\ Len(me.texts) \in Nat /\ Len(me.out) \in Nat /\ Len(me.miss) \in Nat
           /\ me \notin BatchCall /\ me \notin TxCall
<1>1. me.pc \in {"get", "embed", "put", "run"}
  BY DEF EmbedCall
<1>2. me \notin BatchCall /\ me \notin TxCall
  BY <1>1 DEF BatchCall, TxCall
<1> QED BY <1>2 DEF EmbedCall

Update(me, pc, out, miss, vecs) ==
    [me EXCEPT !.miss = miss, !.vecs = vecs, !.out = out, !.pc = pc]

LEMMA EmbedCallUpdate ==
    ASSUME NEW me \in EmbedCall, NEW pc, NEW out, NEW miss, NEW vecs
    PROVE  LET v == Update(me, pc, out, miss, vecs) IN
           /\ v.pc = pc /\ v.out = out /\ v.miss = miss /\ v.vecs = vecs
           /\ v.call = me.call /\ v.texts = me.texts
           /\ pc \in {"get", "embed", "put", "run"} /\ out \in Seq(Text \cup {None})
              /\ miss \in Seq(Text) /\ vecs \in Seq(Text) => v \in EmbedCall
<1> DEFINE w == [me EXCEPT !.miss = miss, !.vecs = vecs]
           v == [w EXCEPT !.out = out, !.pc = pc]
           Fields == {"pc", "call", "texts", "out", "miss", "vecs"}
<1>1. /\ w.miss = miss /\ w.vecs = vecs /\ w.out = me.out /\ w.pc = me.pc /\ w.call = me.call
      /\ w.texts = me.texts /\ w = [f \in Fields |-> w[f]]
  BY DEF EmbedCall
<1>2. v = Update(me, pc, out, miss, vecs)
  BY DEF Update
<1> HIDE DEF w
<1>3. /\ v.miss = miss /\ v.vecs = vecs /\ v.out = out /\ v.pc = pc /\ v.call = me.call
      /\ v.texts = me.texts
  BY <1>1
<1>4. v = [f \in Fields |-> v[f]]
  BY <1>1
<1> USE DEF w
<1>6. ASSUME pc \in {"get", "embed", "put", "run"}, out \in Seq(Text \cup {None}),
             miss \in Seq(Text), vecs \in Seq(Text)
      PROVE  v \in EmbedCall
  <2>1. w \in EmbedCall
    BY <1>6 DEF EmbedCall
  <2> HIDE DEF w
  <2> QED BY <1>6, <2>1 DEF EmbedCall
<1> HIDE DEF v, w
<1> QED BY <1>2, <1>3, <1>6

\* How a hit writes that update.
LEMMA HitUpdate ==
    ASSUME NEW me \in EmbedCall, NEW out
    PROVE  Update(me, me.pc, out, me.miss, me.vecs) = [me EXCEPT !.out = out]
BY DEF Update, EmbedCall

\* What an embedding session is known to have (VectorsOf, its first conjunct).
Embedding(me) ==
    /\ me.call.op = "upsert" => me.call.recs # << >>
    /\ me.texts = ToEmbed(me.call) /\ Len(me.out) <= Len(me.texts)
    /\ me.pc # "get" => Len(me.out) = Len(me.texts)
    /\ \A i \in 1 .. Len(me.out) :
          me.out[i] = me.texts[i] \/ (me.out[i] = None /\ me.texts[i] \in ToSet(me.miss))
    /\ me.pc = "put" => me.vecs = me.miss
    /\ me.pc \in {"embed", "put"} => me.miss # << >>
    /\ me.pc = "run" => me.miss = << >>

LEMMA EmbeddingIs ==
    ASSUME NEW me \in EmbedCall
    PROVE  VectorsOf(me) <=> Embedding(me)
BY EmbedCallTypes DEF VectorsOf, Embedding

LEMMA Embeds ==
    ASSUME Inv, NEW s \in Sessions, sess[s].pc \in {"get", "embed", "put", "run"}
    PROVE  sess[s] \in EmbedCall /\ Embedding(sess[s])
<1>1. Session(sess[s]) /\ VectorsOf(sess[s])
  BY DEF Inv, SessInv
<1> QED BY <1>1, SessionKinds, EmbeddingIs

LEMMA EmbedGetKeeps ==
    ASSUME Inv, NEW s \in Sessions, EmbedGet(s)
    PROVE  Inv'
<1> DEFINE me == sess[s]
           t == me.texts[Len(me.out) + 1]
           at == Cached(t)
           n == Len(me.out)
<1>1. /\ me.pc = "get" /\ Len(me.out) < Len(me.texts) /\ UNCHANGED <<driver, rows, order, now, replaced>>
      /\ at > 0 => /\ cache' = MoveToFront(at)
                   /\ sess' = [sess EXCEPT ![s].out = Append(@, cache[at].vec)]
      /\ ~ (at > 0) => /\ cache' = cache
                       /\ sess' = [sess EXCEPT ![s].out = Append(@, None),
                                     ![s].miss = IF t \in ToSet(@) THEN @ ELSE Append(@, t)]
  BY DEF EmbedGet
<1>2. me \in EmbedCall /\ Embedding(me)
  BY <1>1, Embeds
<1>3. /\ me.texts \in Seq(Text) /\ me.out \in Seq(Text \cup {None}) /\ me.miss \in Seq(Text)
      /\ me.vecs \in Seq(Text) /\ n \in Nat /\ Len(me.texts) \in Nat
  BY <1>2, EmbedCallTypes
<1>4. t \in Text
  BY <1>1, <1>3
<1> HIDE DEF me, t, n, at
<1>5. ASSUME NEW x \in Text \cup {None}, NEW miss \in Seq(Text), ToSet(me.miss) \subseteq ToSet(miss),
             x = t \/ (x = None /\ t \in ToSet(miss)),
             NEW v, v = Update(me, me.pc, Append(me.out, x), miss, me.vecs)
      PROVE  v \in EmbedCall /\ VectorsOf(v)
  <2> DEFINE out == Append(me.out, x)
  <2>1. /\ out \in Seq(Text \cup {None}) /\ Len(out) = n + 1 /\ out[n + 1] = x
        /\ \A i \in 1 .. n : out[i] = me.out[i]
    BY <1>3, AppendProperties DEF n
  <2> HIDE DEF out
  <2>2. /\ v \in EmbedCall /\ v.pc = "get" /\ v.out = out /\ v.miss = miss /\ v.vecs = me.vecs
        /\ v.call = me.call /\ v.texts = me.texts
    <3>1. v = Update(me, "get", out, miss, me.vecs)
      BY <1>1, <1>5 DEF out
    <3> QED BY <1>2, <1>3, <1>5, <2>1, <3>1, EmbedCallUpdate, SMTT(30)
  <2>3. ASSUME NEW i \in 1 .. Len(out)
        PROVE  out[i] = me.texts[i] \/ (out[i] = None /\ me.texts[i] \in ToSet(miss))
    <3>1. CASE i \in 1 .. n
      <4>1. me.out[i] = me.texts[i] \/ (me.out[i] = None /\ me.texts[i] \in ToSet(me.miss))
        BY <1>2, <3>1 DEF Embedding, n
      <4> QED BY <1>5, <2>1, <3>1, <4>1
    <3>2. CASE i = n + 1
      BY <1>5, <2>1, <3>2 DEF t, n
    <3> QED BY <1>3, <2>1, <3>1, <3>2
  <2>4. Len(out) <= Len(me.texts)
    BY <1>1, <1>3, <2>1 DEF n
  <2>5. Embedding(v)
    BY <1>2, <2>2, <2>3, <2>4 DEF Embedding
  <2> QED BY <2>2, <2>5, EmbeddingIs
<1>6. CASE at > 0
  <2> DEFINE v == Update(me, me.pc, Append(me.out, cache[at].vec), me.miss, me.vecs)
  <2>1. at \in 1 .. Len(cache) /\ cache[at].key = t
    BY <1>6, CachedFinds DEF Inv, CacheInv, at
  <2>2. cache[at].vec = t
    BY <2>1 DEF Inv, CacheInv
  <2>3. v \in EmbedCall /\ VectorsOf(v)
    BY <1>3, <1>4, <1>5, <2>2
  <2>4. sess' = [sess EXCEPT ![s] = v]
    <3>1. v = [me EXCEPT !.out = Append(me.out, cache[at].vec)]
      BY <1>2, HitUpdate
    <3> QED BY <1>1, <1>6, <3>1 DEF me
  <2>5. CacheInv'
    BY <1>1, <1>6, <2>1, HitKeepsCache DEF Inv
  <2> HIDE DEF v
  <2> QED BY <1>1, <2>3, <2>4, <2>5, EmbedStep
<1>7. CASE ~ (at > 0)
  <2> DEFINE miss == IF t \in ToSet(me.miss) THEN me.miss ELSE Append(me.miss, t)
             v == Update(me, me.pc, Append(me.out, None), miss, me.vecs)
  <2>1. miss \in Seq(Text) /\ ToSet(me.miss) \subseteq ToSet(miss) /\ t \in ToSet(miss)
    <3>1. CASE t \in ToSet(me.miss)
      BY <1>3, <3>1
    <3>2. CASE t \notin ToSet(me.miss)
      <4>1. miss = Append(me.miss, t)
        BY <3>2
      <4> HIDE DEF miss
      <4>2. /\ miss \in Seq(Text) /\ Len(miss) = Len(me.miss) + 1 /\ miss[Len(me.miss) + 1] = t
            /\ \A i \in 1 .. Len(me.miss) : miss[i] = me.miss[i]
        BY <1>3, <1>4, <4>1, AppendProperties
      <4>3. DOMAIN miss = 1 .. Len(miss) /\ DOMAIN me.miss = 1 .. Len(me.miss) /\ Len(me.miss) \in Nat
        BY <1>3, <4>2
      <4>4. ToSet(me.miss) \subseteq ToSet(miss)
        BY <4>2, <4>3 DEF ToSet
      <4>5. t \in ToSet(miss)
        BY <4>2, <4>3 DEF ToSet
      <4> QED BY <4>2, <4>4, <4>5
    <3> QED BY <3>1, <3>2
  <2>2. sess' = [sess EXCEPT ![s] = v]
    <3>1. v = [me EXCEPT !.out = Append(me.out, None), !.miss = miss]
      <4> DEFINE out == Append(me.out, None)
      <4> HIDE DEF miss, out
      <4>1. Update(me, me.pc, out, miss, me.vecs) = [me EXCEPT !.out = out, !.miss = miss]
        BY <1>2 DEF Update, EmbedCall
      <4> QED BY <4>1 DEF out
    <3> QED BY <1>1, <1>7, <3>1 DEF me
  <2> HIDE DEF miss
  <2>3. v \in EmbedCall /\ VectorsOf(v)
    BY <1>5, <2>1
  <2>4. CacheInv'
    BY <1>1, <1>7 DEF Inv, CacheInv
  <2> HIDE DEF v
  <2> QED BY <1>1, <2>2, <2>3, <2>4, EmbedStep
<1> QED BY <1>6, <1>7

LEMMA EmbedHitKeeps ==
    ASSUME Inv, NEW s \in Sessions, EmbedHit(s)
    PROVE  Inv'
<1> DEFINE me == sess[s]
           pc == IF me.miss = << >> THEN "run" ELSE "embed"
           v  == [me EXCEPT !.pc = pc]
<1>1. /\ me.pc = "get" /\ Len(me.out) = Len(me.texts)
      /\ UNCHANGED <<driver, rows, order, cache, now, replaced>> /\ sess' = [sess EXCEPT ![s] = v]
  BY DEF EmbedHit
<1>2. me \in EmbedCall /\ Embedding(me)
  BY <1>1, Embeds
<1>3. /\ v \in EmbedCall /\ v.pc = pc /\ v.out = me.out /\ v.miss = me.miss /\ v.vecs = me.vecs
      /\ v.call = me.call /\ v.texts = me.texts
  BY <1>2 DEF EmbedCall
<1>4. CacheInv'
  BY <1>1 DEF Inv, CacheInv
<1>5. (pc = "run" <=> me.miss = << >>) /\ pc \in {"run", "embed"}
  OBVIOUS
<1> HIDE DEF me, pc, v
<1>6. Embedding(v)
  BY <1>1, <1>2, <1>3, <1>5 DEF Embedding
<1> QED BY <1>1, <1>3, <1>4, <1>6, EmbeddingIs, EmbedStep

LEMMA EmbedFailsKeeps ==
    ASSUME Inv, NEW s \in Sessions, EmbedFails(s) \/ Reject(s)
    PROVE  Inv'
<1>1. sess' = [sess EXCEPT ![s] = Idle] /\ UNCHANGED <<driver, rows, order, cache, now, replaced>>
  BY DEF EmbedFails, Reject
<1>2. StoreInv' /\ CacheInv'
  BY <1>1 DEF Inv, StoreInv, CacheInv
<1> QED BY <1>1, <1>2, FreeStep, KindsDiffer DEF Inv

\* The answers come back in the order of the questions, whatever order the
\* provider gave them in: each carries its index.
LEMMA PlaceInverts ==
    ASSUME NEW miss \in Seq(Text), NEW p \in Bijection(1 .. Len(miss), 1 .. Len(miss))
    PROVE  Place([i \in 1 .. Len(p) |-> [index |-> p[i], vec |-> miss[p[i]]]]) = miss
<1> DEFINE n == Len(miss)
           items == [i \in 1 .. Len(p) |-> [index |-> p[i], vec |-> miss[p[i]]]]
<1>1. n \in Nat /\ p \in [1 .. n -> 1 .. n] /\ \A j \in 1 .. n : \E i \in 1 .. n : p[i] = j
  BY DEF Bijection, Injection, Surjection
<1>2. Len(p) = n
  BY <1>1
<1>3. items = [i \in 1 .. n |-> [index |-> p[i], vec |-> miss[p[i]]]]
  BY <1>2
<1> HIDE DEF items
<1>4. DOMAIN items = 1 .. n /\ Len(items) = n
  BY <1>1, <1>3
<1>5. ASSUME NEW j \in 1 .. n
      PROVE  (CHOOSE it \in ToSet(items) : it.index = j).vec = miss[j]
  <2>1. PICK i \in 1 .. n : p[i] = j
    BY <1>1
  <2>2. items[i] \in ToSet(items) /\ items[i].index = j
    BY <1>3, <1>4, <2>1 DEF ToSet
  <2>3. \A it \in ToSet(items) : it.index = j => it.vec = miss[j]
    BY <1>3, <1>4 DEF ToSet
  <2> QED BY <2>2, <2>3
<1>6. Place(items) = [j \in 1 .. n |-> miss[j]]
  BY <1>4, <1>5 DEF Place
<1> QED BY <1>6 DEF items

LEMMA EmbedInnerKeeps ==
    ASSUME Inv, NEW s \in Sessions, EmbedInner(s)
    PROVE  Inv'
<1> DEFINE me == sess[s]
           v  == [me EXCEPT !.pc = "put", !.vecs = me.miss]
<1>1. me.pc = "embed" /\ UNCHANGED <<driver, rows, order, cache, now, replaced>>
  BY DEF EmbedInner
<1>2. me \in EmbedCall /\ Embedding(me) /\ me.miss \in Seq(Text)
  BY <1>1, Embeds, EmbedCallTypes
<1>3. PICK p \in Bijection(1 .. Len(me.miss), 1 .. Len(me.miss)) :
        sess' = [sess EXCEPT ![s].pc = "put",
                   ![s].vecs = Place([i \in 1 .. Len(p) |-> [index |-> p[i], vec |-> me.miss[p[i]]]])]
  BY DEF EmbedInner
<1>4. Place([i \in 1 .. Len(p) |-> [index |-> p[i], vec |-> me.miss[p[i]]]]) = me.miss
  BY <1>2, PlaceInverts
<1>5. sess' = [sess EXCEPT ![s] = v]
  BY <1>3, <1>4
<1>6. /\ v \in EmbedCall /\ v.pc = "put" /\ v.out = me.out /\ v.miss = me.miss /\ v.vecs = me.miss
      /\ v.call = me.call /\ v.texts = me.texts
  BY <1>2 DEF EmbedCall
<1>7. CacheInv'
  BY <1>1 DEF Inv, CacheInv
<1> HIDE DEF me, v
<1>8. Embedding(v)
  BY <1>1, <1>2, <1>6 DEF Embedding
<1> QED BY <1>1, <1>5, <1>6, <1>7, <1>8, EmbeddingIs, EmbedStep

LEMMA EmbedPutKeeps ==
    ASSUME Inv, NEW s \in Sessions, EmbedPut(s)
    PROVE  Inv'
<1> DEFINE me == sess[s]
           t  == Head(me.miss)
           v0 == Head(me.vecs)
           out == [i \in DOMAIN me.out |-> IF me.out[i] = None /\ me.texts[i] = t THEN v0 ELSE me.out[i]]
           pc == IF Len(me.miss) = 1 THEN "run" ELSE "put"
           v  == Update(me, pc, out, Tail(me.miss), Tail(me.vecs))
<1>1. /\ me.pc = "put" /\ cache' = put(t, v0) /\ UNCHANGED <<driver, rows, order, now, replaced>>
      /\ sess' = [sess EXCEPT ![s].miss = Tail(me.miss), ![s].vecs = Tail(me.vecs), ![s].out = out, ![s].pc = pc]
  BY DEF EmbedPut
<1>2. me \in EmbedCall /\ Embedding(me)
  BY <1>1, Embeds
<1>3. me.vecs = me.miss /\ me.miss # << >> /\ Len(me.out) = Len(me.texts)
  BY <1>1, <1>2 DEF Embedding
<1>4. me.miss \in Seq(Text) /\ me.out \in Seq(Text \cup {None}) /\ Len(me.out) \in Nat /\ Len(me.miss) \in Nat
  BY <1>2, EmbedCallTypes
<1>5. sess' = [sess EXCEPT ![s] = v]
  <2>1. v = [me EXCEPT !.miss = Tail(me.miss), !.vecs = Tail(me.vecs), !.out = out, !.pc = pc]
    BY DEF Update
  <2> HIDE DEF v, out, pc
  <2> QED BY <1>1, <2>1
<1>6. /\ t \in Text /\ v0 = t /\ Tail(me.miss) \in Seq(Text) /\ Len(Tail(me.miss)) = Len(me.miss) - 1
      /\ \A i \in 1 .. Len(Tail(me.miss)) : Tail(me.miss)[i] = me.miss[i + 1]
  BY <1>3, <1>4, HeadTailProperties
<1>7. CacheInv'
  BY <1>1, <1>6, PutKeepsCache DEF Inv
<1>8. \A x \in ToSet(me.miss) : x = t \/ x \in ToSet(Tail(me.miss))
  <2>1. ASSUME NEW i \in 1 .. Len(me.miss), i # 1 PROVE me.miss[i] \in ToSet(Tail(me.miss))
    <3>1. i - 1 \in 1 .. Len(Tail(me.miss)) /\ (i - 1) + 1 = i
      BY <1>4, <1>6, <2>1
    <3>2. Tail(me.miss)[i - 1] = me.miss[i]
      BY <1>6, <3>1
    <3>3. i - 1 \in DOMAIN Tail(me.miss)
      BY <1>6, <3>1
    <3> QED BY <3>2, <3>3 DEF ToSet
  <2>2. me.miss[1] = t
    BY <1>3, <1>4
  <2>3. DOMAIN me.miss = 1 .. Len(me.miss)
    BY <1>4
  <2> QED BY <2>1, <2>2, <2>3 DEF ToSet
<1>9. DOMAIN me.out = 1 .. Len(me.out) /\ \A i \in 1 .. Len(me.out) : me.out[i] \in Text \cup {None}
  BY <1>4
<1>10. out \in Seq(Text \cup {None}) /\ Len(out) = Len(me.out)
  <2>1. \A i \in 1 .. Len(me.out) : (IF me.out[i] = None /\ me.texts[i] = t THEN v0 ELSE me.out[i]) \in Text \cup {None}
    BY <1>6, <1>9
  <2> QED BY <1>4, <1>9, <2>1
<1>11. \A i \in 1 .. Len(out) : out[i] = me.texts[i] \/ (out[i] = None /\ me.texts[i] \in ToSet(Tail(me.miss)))
  <2> TAKE i \in 1 .. Len(out)
  <2>1. i \in 1 .. Len(me.out)
    BY <1>10
  <2>2. me.out[i] = me.texts[i] \/ (me.out[i] = None /\ me.texts[i] \in ToSet(me.miss))
    BY <1>2, <2>1 DEF Embedding
  <2>3. out[i] = IF me.out[i] = None /\ me.texts[i] = t THEN t ELSE me.out[i]
    BY <1>6, <1>9, <2>1
  <2> QED BY <1>8, <2>2, <2>3
<1>12. (pc = "run" => Tail(me.miss) = << >>) /\ (pc = "put" => Tail(me.miss) # << >>) /\ pc \in {"run", "put"}
  <2>1. Len(me.miss) # 0
    BY <1>3, <1>4, EmptySeq
  <2>2. Tail(me.miss) = << >> <=> Len(Tail(me.miss)) = 0
    BY <1>6, EmptySeq
  <2> QED BY <1>4, <1>6, <2>1, <2>2
<1>13. /\ v \in EmbedCall /\ v.pc = pc /\ v.out = out /\ v.miss = Tail(me.miss) /\ v.vecs = Tail(me.miss)
       /\ v.call = me.call /\ v.texts = me.texts
  <2>1. pc \in {"get", "embed", "put", "run"} /\ Tail(me.vecs) \in Seq(Text) /\ Tail(me.vecs) = Tail(me.miss)
    BY <1>3, <1>6
  <2> HIDE DEF me, pc, out
  <2>2. /\ v.pc = pc /\ v.out = out /\ v.miss = Tail(me.miss) /\ v.vecs = Tail(me.vecs)
        /\ v.call = me.call /\ v.texts = me.texts
    BY <1>2, EmbedCallUpdate
  <2>3. v \in EmbedCall
    BY <1>2, <1>6, <1>10, <2>1, EmbedCallUpdate
  <2> QED BY <2>1, <2>2, <2>3
<1> HIDE DEF me, v, out, pc
<1>14. Embedding(v)
  BY <1>2, <1>3, <1>10, <1>11, <1>12, <1>13 DEF Embedding
<1> QED BY <1>1, <1>5, <1>7, <1>13, <1>14, EmbeddingIs, EmbedStep

-----------------------------------------------------------------------------
(* Searches, and what is rolled back.                                      *)

LEMMA QuietStep ==
    ASSUME Inv, NEW s \in Sessions, NEW v, v = Idle \/ v.pc \in {"lane", "fetch"},
           sess' = [sess EXCEPT ![s] = v], UNCHANGED <<driver, rows, order, cache, now, replaced>>
    PROVE  Inv'
<1>1. Session(v) /\ VectorsOf(v) /\ v.pc \notin {"batch", "tx"}
  <2>1. CASE v = Idle
    BY <2>1, KindsDiffer
  <2>2. CASE v.pc \in {"lane", "fetch"}
    <3>1. v \notin EmbedCall /\ v \notin BatchCall /\ v \notin TxCall
      BY <2>2, KindsDiffer
    <3> QED BY <2>2, <3>1 DEF Session, VectorsOf
  <2> QED BY <2>1, <2>2
<1>2. SessInv' /\ LockInv' /\ CheckedInv' /\ CASReplacesChecked'
  BY <1>1, FreeStep DEF Inv
<1>3. StoreInv' /\ CacheInv'
  BY DEF Inv, StoreInv, CacheInv
<1> QED BY <1>2, <1>3 DEF Inv

LEMMA SearchesKeep ==
    ASSUME Inv, NEW s \in Sessions,
           SearchDense(s) \/ MemoryRank(s) \/ PgDenseIDs(s) \/ PgSparseLane(s) \/ Materialize(s) \/ PgFails(s)
    PROVE  Inv'
<1>1. CASE SearchDense(s)
  <2>1. sess' = [sess EXCEPT ![s] = Idle] /\ UNCHANGED <<driver, rows, order, cache, now, replaced>>
    BY <1>1 DEF SearchDense
  <2> QED BY <2>1, QuietStep
<1>2. CASE MemoryRank(s)
  <2>1. sess' = [sess EXCEPT ![s] = Idle] /\ UNCHANGED <<driver, rows, order, cache, now, replaced>>
    BY <1>2 DEF MemoryRank
  <2> QED BY <2>1, QuietStep
<1>3. CASE PgDenseIDs(s)
  <2> DEFINE v == [pc |-> "lane", call |-> sess[s].call,
                   dense |-> DenseLane(sess[s].call, Candidates(sess[s].call))]
  <2>1. sess' = [sess EXCEPT ![s] = v] /\ UNCHANGED <<driver, rows, order, cache, now, replaced>>
    BY <1>3 DEF PgDenseIDs
  <2>2. v.pc = "lane"
    OBVIOUS
  <2> HIDE DEF v
  <2> QED BY <2>1, <2>2, QuietStep
<1>4. CASE PgSparseLane(s)
  <2>1. PICK dense, sparse, fused :
          /\ sess' = [sess EXCEPT ![s] = [pc |-> "fetch", call |-> sess[s].call, dense |-> dense,
                                          sparse |-> sparse, fused |-> fused]]
          /\ UNCHANGED <<driver, rows, order, cache, now, replaced>>
    BY <1>4 DEF PgSparseLane
  <2> DEFINE v == [pc |-> "fetch", call |-> sess[s].call, dense |-> dense,
                   sparse |-> sparse, fused |-> fused]
  <2>2. v.pc = "fetch"
    OBVIOUS
  <2>3. sess' = [sess EXCEPT ![s] = v]
    BY <2>1
  <2> HIDE DEF v
  <2> QED BY <2>1, <2>2, <2>3, QuietStep
<1>5. CASE Materialize(s)
  <2>1. sess' = [sess EXCEPT ![s] = Idle] /\ UNCHANGED <<driver, rows, order, cache, now, replaced>>
    BY <1>5 DEF Materialize
  <2> QED BY <2>1, QuietStep
<1>6. CASE PgFails(s)
  <2>1. sess' = [sess EXCEPT ![s] = Idle] /\ UNCHANGED <<driver, rows, order, cache, now, replaced>>
    BY <1>6 DEF PgFails
  <2> QED BY <2>1, QuietStep
<1> QED BY <1>1, <1>2, <1>3, <1>4, <1>5, <1>6

-----------------------------------------------------------------------------
(* Delete and Expire.                                                      *)

\* A single statement that writes no row another transaction has locked.
LEMMA StatementStep ==
    ASSUME Inv, NEW s \in Sessions, sess[s].pc = "run", MutexFree,
           sess' = [sess EXCEPT ![s] = Idle], UNCHANGED <<driver, now, cache, replaced>>,
           \A k \in Keys : rows'[k] # rows[k] => ~ Locked(k, s), StoreInv'
    PROVE  Inv'
<1>1. /\ DOMAIN sess' = Sessions /\ sess'[s] = Idle
      /\ \A o \in Sessions \ {s} : sess'[o] = sess[o]
  BY DEF Inv, SessInv
<1>2. SessInv'
  BY <1>1, KindsDiffer DEF Inv, SessInv
<1>3. \A o \in Sessions : sess'[o].pc \in {"batch", "tx"} => o # s /\ sess'[o] = sess[o] /\ sess[o].pc = "tx"
  BY <1>1, KindsDiffer DEF MutexFree
<1>4. LockInv'
  BY <1>3 DEF Inv, LockInv
<1>5. CheckedInv'
  <2>1. ASSUME NEW o \in Sessions, o # s, sess[o].pc = "tx" PROVE Checked(sess[o])'
    <3> DEFINE me == sess[o]
               k == KeyOf(me.call, me.call.recs[me.i].id)
    <3>1. sess'[o] = me /\ Checked(me) /\ Session(me) /\ VectorsOf(me)
      BY <1>1, <2>1 DEF Inv, CheckedInv, SessInv
    <3>2. me \in TxCall
      BY <2>1, <3>1, SessionKinds
    <3>3. me.i <= Len(me.call.recs) => k \in Keys
      <4>1. me.call \in Upserts /\ me.i \in Nat \ {0}
        BY <3>2 DEF TxCall
      <4>2. Len(me.call.recs) \in Nat
        BY <4>1, NeededRange
      <4>3. me.i <= Len(me.call.recs) => me.i \in 1 .. Len(me.call.recs)
        BY <4>1, <4>2
      <4> QED BY <4>1, <4>3, RecordTypes
    <3>4. k \in me.locks /\ k \in Keys => rows'[k] = rows[k]
      BY <2>1 DEF Locked
    <3>5. k \in me.locks /\ k \in Keys => View(me, k)' = View(me, k)
      <4>1. me' = me /\ k' = k
        BY <3>1
      <4> HIDE DEF me, k
      <4>2. View(me, k)' = IF me.writes[k] = None THEN rows'[k] ELSE me.writes[k]
        BY <4>1 DEF View
      <4> QED BY <3>4, <4>2 DEF View
    <3>6. me.pc # "batch"
      BY <2>1
    <3>7. me.step = "insert" /\ me.i <= Len(me.call.recs) /\ me.call.recs[me.i].ifv \notin {None, 0} =>
            k \in me.locks /\ me.call.recs[me.i].ifv = Version(View(me, k))
      BY <2>1, <3>1 DEF Checked
    <3>8. \A w \in me.conds : w.checked = w.was \/ w.checked = 0
      BY <2>1, <3>1 DEF Checked
    <3>9. me.step = "insert" /\ me.i <= Len(me.call.recs) /\ me.call.recs[me.i].ifv \notin {None, 0} =>
            k \in me.locks /\ me.call.recs[me.i].ifv = Version(View(me, k)')
      BY <3>3, <3>5, <3>7
    <3> QED BY <3>1, <3>6, <3>8, <3>9 DEF Checked, View, Version
  <2>2. ASSUME NEW o \in Sessions, sess'[o].pc \notin {"batch", "tx"} PROVE Checked(sess[o])'
    BY <2>2 DEF Checked
  <2> QED BY <1>3, <2>1, <2>2 DEF CheckedInv
<1>6. CASReplacesChecked' /\ CacheInv'
  BY DEF Inv, CASReplacesChecked, CacheInv
<1> QED BY <1>2, <1>4, <1>5, <1>6 DEF Inv

LEMMA DeleteKeeps ==
    ASSUME Inv, NEW s \in Sessions, Delete(s)
    PROVE  Inv'
<1> DEFINE call == sess[s].call
           k == KeyOf(call, call.id)
           gone == IF rows[k] = None \/ call.hard THEN None ELSE [rows[k] EXCEPT !.deleted = TRUE]
<1>1. /\ sess[s].pc = "run" /\ call.op = "delete" /\ MutexFree /\ ~ Locked(k, s)
      /\ rows' = [rows EXCEPT ![k] = gone]
      /\ order' = IF call.hard THEN Keep(order, Keys \ {k}) ELSE order
      /\ sess' = [sess EXCEPT ![s] = Idle] /\ UNCHANGED <<driver, cache, now, found, replaced>>
  BY DEF Delete
<1>2. call \in Calls /\ k \in Keys
  BY <1>1, Embeds, EmbedCallTypes, CallTypes, KeyOfType
<1>3. rows \in [Keys -> Row \cup {None}] /\ rows[k] \in Row \cup {None} /\ order \in Seq(Keys)
  BY <1>2 DEF Inv, StoreInv
<1>4. /\ gone \in Row \cup {None}
      /\ gone # None => rows[k] # None /\ gone.vec = rows[k].vec /\ gone.text = rows[k].text
      /\ gone = None <=> (rows[k] = None \/ call.hard)
  <2>1. CASE rows[k] = None \/ call.hard
    BY <2>1
  <2>2. CASE ~ (rows[k] = None \/ call.hard)
    <3>1. rows[k] \in Row /\ gone = [rows[k] EXCEPT !.deleted = TRUE]
      BY <1>3, <2>2
    <3>2. gone \in Row /\ gone.vec = rows[k].vec /\ gone.text = rows[k].text
      BY <3>1 DEF Row
    <3> QED BY <2>2, <3>2, RowTypes
  <2> QED BY <2>1, <2>2
<1> HIDE DEF gone, k, call
<1>5. /\ rows' \in [Keys -> Row \cup {None}] /\ rows'[k] = gone
      /\ \A x \in Keys \ {k} : rows'[x] = rows[x]
  BY <1>1, <1>2, <1>3, <1>4
<1>6. \A x \in Keys : rows'[x] # None => rows'[x].vec = rows'[x].text
  BY <1>2, <1>4, <1>5 DEF Inv, StoreInv
<1>7. order' \in Seq(Keys)
  BY <1>1, <1>3, KeepProperties
<1>8. ASSUME driver = "memory"
      PROVE  IsInjective(order') /\ ToSet(order') = { x \in Keys : rows'[x] # None }
  <2>1. IsInjective(order) /\ ToSet(order) = { x \in Keys : rows[x] # None }
    BY <1>8 DEF Inv, StoreInv
  <2>2. CASE call.hard
    <3>1. order' = Keep(order, Keys \ {k})
      BY <1>1, <2>2
    <3>2. IsInjective(order') /\ ToSet(order') = ToSet(order) \cap (Keys \ {k})
      BY <1>3, <2>1, <3>1, KeepProperties
    <3>3. rows'[k] = None
      BY <1>4, <1>5, <2>2
    <3> QED BY <1>5, <2>1, <3>2, <3>3
  <2>3. CASE ~ call.hard
    <3>1. order' = order
      BY <1>1, <2>3
    <3>2. rows'[k] = None <=> rows[k] = None
      BY <1>4, <1>5, <2>3
    <3> QED BY <1>2, <1>5, <2>1, <3>1, <3>2
  <2> QED BY <2>2, <2>3
<1>9. StoreInv'
  BY <1>1, <1>5, <1>6, <1>7, <1>8 DEF Inv, StoreInv
<1>10. \A x \in Keys : rows'[x] # rows[x] => ~ Locked(x, s)
  BY <1>1, <1>5
<1> QED BY <1>1, <1>9, <1>10, StatementStep

LEMMA TakeSubset ==
    ASSUME NEW S, NEW q \in Seq(S), NEW n \in Nat
    PROVE  ToSet(Take(q, n)) \subseteq ToSet(q)
<1>1. CASE n > 0 /\ n < Len(q)
  <2>1. Take(q, n) = SubSeq(q, 1, n) /\ \A i \in 1 .. n : q[i] \in S
    BY <1>1 DEF Take
  <2>2. /\ SubSeq(q, 1, n) \in Seq(S) /\ Len(SubSeq(q, 1, n)) = n
        /\ \A i \in 1 .. n : SubSeq(q, 1, n)[i] = q[i]
    BY <1>1, <2>1, SubSeqProperties
  <2>3. DOMAIN SubSeq(q, 1, n) = 1 .. n /\ DOMAIN q = 1 .. Len(q) /\ Len(q) \in Nat
    BY <2>2
  <2>4. 1 .. n \subseteq 1 .. Len(q)
    BY <1>1, <2>3
  <2> QED BY <2>1, <2>2, <2>3, <2>4 DEF ToSet
<1>2. CASE ~ (n > 0 /\ n < Len(q))
  BY <1>2 DEF Take
<1> QED BY <1>1, <1>2

\* Whatever is expired was there.
LEMMA ExpireHits ==
    ASSUME Inv, NEW s \in Sessions, Expire(s)
    PROVE  \E hit \in SUBSET { k \in Keys : rows[k] # None } :
              /\ \A k \in hit : ~ Locked(k, s)
              /\ rows' = [k \in Keys |-> IF k \in hit THEN Expired(sess[s].call, rows[k]) ELSE rows[k]]
              /\ order' = Keep(order, { k \in Keys : rows'[k] # None })
<1> DEFINE call == sess[s].call
           match == { k \in Keys : k[1] = call.tenant /\ Expirable(call, rows[k]) }
           size  == IF call.max < Cardinality(match) THEN call.max ELSE Cardinality(match)
           first == ToSet(Take(Keep(order, match), call.max))
           picks == IF driver = "memory" THEN {first} ELSE kSubset(size, match)
<1>1. PICK hit \in picks :
        /\ \A k \in hit : ~ Locked(k, s)
        /\ rows' = [k \in Keys |-> IF k \in hit THEN Expired(call, rows[k]) ELSE rows[k]]
        /\ order' = Keep(order, { k \in Keys : rows'[k] # None })
  BY DEF Expire
<1>2. hit \subseteq match
  <2>1. call.max \in Nat
    <3>1. sess[s].pc = "run" /\ call.op = "expire"
      BY DEF Expire
    <3> QED BY <3>1, Embeds, EmbedCallTypes, CallTypes
  <2>2. CASE driver = "memory"
    <3>1. hit = first
      BY <2>2
    <3>2. Keep(order, match) \in Seq(Keys) /\ ToSet(Keep(order, match)) \subseteq match
      BY KeepProperties DEF Inv, StoreInv
    <3>3. first \subseteq ToSet(Keep(order, match))
      BY <2>1, <3>2, TakeSubset
    <3> QED BY <3>1, <3>2, <3>3
  <2>3. CASE driver # "memory"
    BY <2>3 DEF kSubset
  <2> QED BY <2>2, <2>3
<1>3. match \subseteq { k \in Keys : rows[k] # None }
  BY DEF Expirable
<1> HIDE DEF match, picks
<1> QED BY <1>1, <1>2, <1>3

LEMMA ExpireKeeps ==
    ASSUME Inv, NEW s \in Sessions, Expire(s)
    PROVE  Inv'
<1> DEFINE call == sess[s].call
<1>1. /\ sess[s].pc = "run" /\ MutexFree
      /\ sess' = [sess EXCEPT ![s] = Idle] /\ UNCHANGED <<driver, cache, now, found, replaced>>
  BY DEF Expire
<1>2. PICK hit \in SUBSET { k \in Keys : rows[k] # None } :
        /\ \A k \in hit : ~ Locked(k, s)
        /\ rows' = [k \in Keys |-> IF k \in hit THEN Expired(call, rows[k]) ELSE rows[k]]
        /\ order' = Keep(order, { k \in Keys : rows'[k] # None })
  BY ExpireHits
<1>3. rows \in [Keys -> Row \cup {None}] /\ order \in Seq(Keys) /\ now \in Time
  BY DEF Inv, StoreInv
<1>4. \A k \in hit : k \in Keys /\ rows[k] \in Row
  BY <1>2, <1>3
<1>5. ASSUME NEW k \in Keys
      PROVE  /\ rows'[k] \in Row \cup {None}
             /\ rows'[k] # None => rows[k] # None /\ rows'[k].vec = rows[k].vec /\ rows'[k].text = rows[k].text
  <2>1. CASE k \in hit
    <3>1. rows'[k] = Expired(call, rows[k]) /\ rows[k] \in Row
      BY <1>2, <1>4, <2>1
    <3> QED BY <1>3, <3>1, ExpiredType, RowTypes
  <2>2. CASE k \notin hit
    BY <1>2, <1>3, <2>2
  <2> QED BY <2>1, <2>2
<1>6. rows' \in [Keys -> Row \cup {None}] /\ \A k \in Keys : rows'[k] # None => rows'[k].vec = rows'[k].text
  <2>1. rows' = [k \in Keys |-> rows'[k]]
    BY <1>2
  <2>2. \A k \in Keys : rows[k] # None => rows[k].vec = rows[k].text
    BY DEF Inv, StoreInv
  <2> QED BY <1>5, <2>1, <2>2
<1>7. order' \in Seq(Keys)
  BY <1>2, <1>3, KeepProperties
<1>8. ASSUME driver = "memory"
      PROVE  IsInjective(order') /\ ToSet(order') = { k \in Keys : rows'[k] # None }
  <2>1. IsInjective(order) /\ ToSet(order) = { k \in Keys : rows[k] # None }
    BY <1>8 DEF Inv, StoreInv
  <2>2. IsInjective(order') /\ ToSet(order') = ToSet(order) \cap { k \in Keys : rows'[k] # None }
    BY <1>2, <1>3, <2>1, KeepProperties
  <2> QED BY <1>5, <2>1, <2>2
<1>9. StoreInv'
  BY <1>1, <1>6, <1>7, <1>8 DEF Inv, StoreInv
<1>10. \A k \in Keys : rows'[k] # rows[k] => ~ Locked(k, s)
  BY <1>2
<1> QED BY <1>1, <1>9, <1>10, StatementStep

-----------------------------------------------------------------------------
(* Upserts.                                                                *)

\* Once nothing is missing, every record of a batch has its own text's vector.
LEMMA BatchVectorsAreOfContent ==
    ASSUME NEW me \in EmbedCall, Embedding(me), me.pc = "run", me.call.op = "upsert"
    PROVE  /\ me.call \in Upserts /\ me.call.recs # << >>
           /\ BatchVectors(me) \in Seq(Text)
           /\ \A i \in 1 .. Len(me.call.recs) : BatchVectors(me)[i] = me.call.recs[i].text
<1> DEFINE c == me.call
<1>1. c \in Upserts /\ c.recs # << >> /\ Len(c.recs) \in Nat
  BY EmbedCallTypes, CallTypes, NeededRange DEF Embedding
<1>2. /\ me.texts = ToEmbed(c) /\ Len(me.out) = Len(me.texts) /\ me.miss = << >>
      /\ \A i \in 1 .. Len(me.out) : me.out[i] = me.texts[i]
  <2>1. ToSet(<< >>) = {}
    BY DEF ToSet
  <2> QED BY <2>1 DEF Embedding
<1>3. ASSUME NEW i \in 1 .. Len(c.recs) PROVE VectorOf(me, i) = c.recs[i].text
  <2>1. CASE c.recs[i].given
    BY <2>1 DEF VectorOf
  <2>2. CASE ~ c.recs[i].given
    <3>1. i \in Needed(c)
      BY <2>2 DEF Needed
    <3>2. Upto(Needed(c), i) \in 1 .. Len(me.out) /\ me.texts[Upto(Needed(c), i)] = c.recs[i].text
      BY <1>1, <1>2, <3>1, ToEmbedTexts
    <3>3. VectorOf(me, i) = me.out[Upto(Needed(c), i)]
      BY <2>2 DEF VectorOf
    <3> QED BY <1>2, <3>2, <3>3
  <2> QED BY <2>1, <2>2
<1>4. \A i \in 1 .. Len(c.recs) : VectorOf(me, i) \in Text
  BY <1>1, <1>3, RecordTypes
<1>5. BatchVectors(me) = [i \in 1 .. Len(c.recs) |-> VectorOf(me, i)]
  BY DEF BatchVectors
<1> HIDE DEF c
<1>6. BatchVectors(me) \in Seq(Text)
  BY <1>1, <1>4, <1>5
<1> QED BY <1>1, <1>3, <1>5, <1>6 DEF c

\* A step of one session that leaves the records alone.
LEMMA HolderStep ==
    ASSUME Inv, NEW s \in Sessions, NEW v, sess' = [sess EXCEPT ![s] = v],
           Session(v), VectorsOf(v), Checked(v), v.pc \in {"batch", "tx"},
           v.pc = "batch" => driver = "memory" /\ \A o \in Sessions \ {s} : sess[o].pc # "batch",
           v.pc = "tx" => /\ driver = "postgres"
                          /\ \A k \in Keys : v.writes[k] # None => k \in v.locks
                          /\ \A o \in Sessions \ {s} : sess[o].pc = "tx" => v.locks \cap sess[o].locks = {},
           UNCHANGED <<driver, rows, order, cache, now, replaced>>
    PROVE  Inv'
<1>1. /\ DOMAIN sess' = Sessions /\ sess'[s] = v
      /\ \A o \in Sessions \ {s} : sess'[o] = sess[o]
  BY DEF Inv, SessInv
<1>2. SessInv'
  BY <1>1 DEF Inv, SessInv
<1>3. LockInv'
  <2>1. LockInv /\ driver' = driver
    BY DEF Inv
  <2>2. /\ \A a, o \in Sessions : sess'[a].pc = "batch" /\ sess'[o].pc = "batch" => a = o
    BY <1>1, <2>1 DEF LockInv
  <2>3. ASSUME NEW o \in Sessions
        PROVE  /\ sess'[o].pc = "batch" => driver' = "memory"
               /\ sess'[o].pc = "tx" => driver' = "postgres"
               /\ sess'[o].pc = "tx" => \A k \in Keys : sess'[o].writes[k] # None => k \in sess'[o].locks
    BY <1>1, <2>1 DEF LockInv
  <2>4. ASSUME NEW a \in Sessions, NEW o \in Sessions, sess'[a].pc = "tx", sess'[o].pc = "tx", a # o
        PROVE  sess'[a].locks \cap sess'[o].locks = {}
    BY <1>1, <2>1, <2>4 DEF LockInv
  <2> QED BY <2>2, <2>3, <2>4 DEF LockInv
<1>4. CheckedInv'
  <2>1. ASSUME NEW o \in Sessions, o # s PROVE Checked(sess[o])'
    <3>1. sess'[o] = sess[o] /\ Checked(sess[o])
      BY <1>1, <2>1 DEF Inv, CheckedInv
    <3> QED BY <3>1, ZenonT(30) DEF Checked, View
  <2>2. Checked(sess[s])'
    BY <1>1 DEF Checked, View
  <2> QED BY <2>1, <2>2 DEF CheckedInv
<1>5. StoreInv' /\ CacheInv' /\ CASReplacesChecked'
  BY DEF Inv, StoreInv, CacheInv, CASReplacesChecked
<1> QED BY <1>2, <1>3, <1>4, <1>5 DEF Inv

LEMMA MemoryUpsertKeeps ==
    ASSUME Inv, NEW s \in Sessions, MemoryUpsert(s)
    PROVE  Inv'
<1> DEFINE me == sess[s]
           c == me.call
           passes == \A i \in 1 .. Len(c.recs) :
                        c.recs[i].ifv = None \/ c.recs[i].ifv = Version(rows[KeyOf(c, c.recs[i].id)])
           v == [pc |-> "batch", call |-> c, vecs |-> BatchVectors(me), i |-> 1]
<1>1. /\ me.pc = "run" /\ c.op = "upsert" /\ driver = "memory" /\ MutexFree
      /\ sess' = [sess EXCEPT ![s] = IF passes THEN v ELSE Idle]
      /\ UNCHANGED <<driver, rows, order, cache, now, found, replaced>>
  BY DEF MemoryUpsert, Ready
<1>2. me \in EmbedCall /\ Embedding(me)
  BY <1>1, Embeds
<1>3. /\ c \in Upserts /\ c.recs # << >> /\ BatchVectors(me) \in Seq(Text)
      /\ \A i \in 1 .. Len(c.recs) : BatchVectors(me)[i] = c.recs[i].text
  BY <1>1, <1>2, BatchVectorsAreOfContent
<1>4. CASE ~ passes
  BY <1>1, <1>4, QuietStep
<1>5. CASE passes
  <2>1. v.pc = "batch" /\ v.call = c /\ v.vecs = BatchVectors(me) /\ v.i = 1
    OBVIOUS
  <2>2. v \in BatchCall
    BY <1>3 DEF BatchCall
  <2>3. sess' = [sess EXCEPT ![s] = v]
    BY <1>1, <1>5
  <2> HIDE DEF v
  <2>4. 1 <= Len(c.recs)
    BY <1>3, NeededRange, EmptySeq
  <2>5. Session(v) /\ VectorsOf(v)
    <3>1. v \notin EmbedCall /\ v \notin TxCall
      BY <2>1, KindsDiffer
    <3> QED BY <1>3, <2>1, <2>2, <2>4, <3>1 DEF Session, VectorsOf, Contented
  <2>6. Checked(v)
    BY <1>5, <2>1 DEF Checked
  <2> QED BY <1>1, <2>1, <2>3, <2>5, <2>6, HolderStep DEF MutexFree
<1> QED BY <1>4, <1>5

LEMMA BatchFacts ==
    ASSUME Inv, NEW s \in Sessions, sess[s].pc = "batch"
    PROVE  /\ sess[s] \in BatchCall /\ Contented(sess[s]) /\ driver = "memory"
           /\ sess[s].call \in Upserts /\ sess[s].vecs \in Seq(Text)
           /\ sess[s].i \in 1 .. Len(sess[s].call.recs) /\ Len(sess[s].call.recs) \in Nat
           /\ sess[s].vecs[sess[s].i] = sess[s].call.recs[sess[s].i].text
           /\ Checked(sess[s])
           /\ \A o \in Sessions \ {s} : sess[o].pc \notin {"batch", "tx"}
<1>1. Session(sess[s]) /\ VectorsOf(sess[s]) /\ Checked(sess[s])
  BY DEF Inv, SessInv, CheckedInv
<1>2. sess[s] \in BatchCall
  BY <1>1, SessionKinds
<1>3. Contented(sess[s]) /\ sess[s].i <= Len(sess[s].call.recs)
  BY <1>1, <1>2 DEF VectorsOf
<1>4. sess[s].call \in Upserts /\ sess[s].vecs \in Seq(Text) /\ sess[s].i \in Nat \ {0}
  BY <1>2 DEF BatchCall
<1>5. driver = "memory" /\ \A o \in Sessions \ {s} : sess[o].pc \notin {"batch", "tx"}
  BY DEF Inv, LockInv
<1>6. Len(sess[s].call.recs) \in Nat
  BY <1>4, NeededRange
<1>7. sess[s].i \in 1 .. Len(sess[s].call.recs)
  BY <1>3, <1>4, <1>6
<1> QED BY <1>1, <1>2, <1>3, <1>4, <1>5, <1>6, <1>7 DEF Contented

LEMMA MemoryStoreKeeps ==
    ASSUME Inv, NEW s \in Sessions, MemoryStore(s)
    PROVE  Inv'
<1> DEFINE me == sess[s]
           c == me.call
           r == c.recs[me.i]
           k == KeyOf(c, r.id)
           new == Stored(r, me.vecs[me.i], rows[k], now)
           stored == [rows EXCEPT ![k] = new]
           w == Conditional(c, me.i, rows[k])
           v == IF me.i = Len(c.recs) THEN Idle ELSE [me EXCEPT !.i = @ + 1]
<1>1. /\ me.pc = "batch"
      /\ rows' = [x \in Keys |-> IF x \in Targets(c, r) THEN Superseded(stored[x], now) ELSE stored[x]]
      /\ order' = IF rows[k] = None THEN Append(order, k) ELSE order
      /\ replaced' = replaced \cup (IF r.ifv = None THEN {} ELSE {w})
      /\ sess' = [sess EXCEPT ![s] = v]
      /\ UNCHANGED <<driver, cache, now, found>>
  BY DEF MemoryStore
<1>2. /\ me \in BatchCall /\ Contented(me) /\ driver = "memory" /\ c \in Upserts /\ me.vecs \in Seq(Text)
      /\ me.i \in 1 .. Len(c.recs) /\ Len(c.recs) \in Nat /\ me.vecs[me.i] = r.text /\ Checked(me)
      /\ \A o \in Sessions \ {s} : sess[o].pc \notin {"batch", "tx"}
  BY <1>1, BatchFacts
<1>3. /\ r \in Record /\ r.meta \in Meta /\ r.text \in Text /\ r.ifv \in Nat \cup {None} /\ k \in Keys
      /\ Targets(c, r) \subseteq Keys /\ k \notin Targets(c, r)
  BY <1>2, RecordTypes
<1>4. /\ rows \in [Keys -> Row \cup {None}] /\ rows[k] \in Row \cup {None} /\ order \in Seq(Keys) /\ now \in Time
      /\ \A x \in Keys : rows[x] # None => rows[x].vec = rows[x].text
  BY <1>3 DEF Inv, StoreInv
<1>5. new \in Row /\ new # None /\ new.vec = new.text
  <2>1. new = Stored(r, r.text, rows[k], now)
    BY <1>2
  <2> HIDE DEF me, c, r, k, new
  <2>2. /\ Stored(r, r.text, rows[k], now) \in Row
        /\ Stored(r, r.text, rows[k], now).vec = r.text
        /\ Stored(r, r.text, rows[k], now).text = r.text
    BY <1>3, <1>4, StoredType, SMTT(30)
  <2> QED BY <2>1, <2>2, RowTypes
<1> HIDE DEF new
<1>6. /\ stored \in [Keys -> Row \cup {None}] /\ stored[k] = new
      /\ \A x \in Keys \ {k} : stored[x] = rows[x]
  BY <1>3, <1>4, <1>5
<1> HIDE DEF stored
<1>7. \A x \in Keys : stored[x] # None => stored[x].vec = stored[x].text
  BY <1>4, <1>5, <1>6
<1>8. ASSUME NEW x \in Keys
      PROVE  /\ rows'[x] \in Row \cup {None} /\ (rows'[x] = None <=> stored[x] = None)
             /\ Version(rows'[x]) = Version(stored[x])
             /\ rows'[x] # None => rows'[x].vec = rows'[x].text
  <2>1. stored[x] \in Row \cup {None}
    BY <1>6
  <2>2. CASE x \in Targets(c, r)
    <3>1. rows'[x] = Superseded(stored[x], now)
      BY <1>1, <2>2
    <3> QED BY <1>4, <1>7, <2>1, <3>1, SupersededType
  <2>3. CASE x \notin Targets(c, r)
    BY <1>1, <1>7, <2>1, <2>3
  <2> QED BY <2>2, <2>3
<1>9. rows' \in [Keys -> Row \cup {None}]
  <2>1. rows' = [x \in Keys |-> rows'[x]]
    BY <1>1
  <2> QED BY <1>8, <2>1
<1>10. \A x \in Keys : rows'[x] = None <=> (x # k /\ rows[x] = None)
  BY <1>3, <1>5, <1>6, <1>8
<1>11. order' \in Seq(Keys) /\ IsInjective(order') /\ ToSet(order') = { x \in Keys : rows'[x] # None }
  <2>1. IsInjective(order) /\ ToSet(order) = { x \in Keys : rows[x] # None }
    BY <1>2 DEF Inv, StoreInv
  <2>2. CASE rows[k] # None
    BY <1>1, <1>4, <1>10, <2>1, <2>2
  <2>3. CASE rows[k] = None
    <3> DEFINE n == Len(order)
    <3>1. order' = Append(order, k)
      BY <1>1, <2>3
    <3>2. /\ order' \in Seq(Keys) /\ Len(order') = n + 1 /\ order'[n + 1] = k /\ n \in Nat
          /\ \A i \in 1 .. n : order'[i] = order[i]
      <4>1. order \in Seq(Keys) /\ k \in Keys
        BY <1>3, <1>4
      <4> HIDE DEF k
      <4>2. /\ Append(order, k) \in Seq(Keys) /\ Len(Append(order, k)) = n + 1
            /\ \A i \in 1 .. n : Append(order, k)[i] = order[i]
            /\ Append(order, k)[n + 1] = k
        BY <4>1, AppendProperties
      <4>3. n \in Nat
        BY <4>1
      <4> HIDE DEF n
      <4> QED BY <3>1, <4>2, <4>3
    <3>3. DOMAIN order' = 1 .. n + 1 /\ DOMAIN order = 1 .. n
      BY <1>4, <3>2
    <3>4. \A i \in 1 .. n : order[i] # k
      BY <2>1, <2>3, <3>3 DEF ToSet
    <3>5. IsInjective(order')
      <4>1. ASSUME NEW a \in 1 .. n + 1, NEW b \in 1 .. n + 1, order'[a] = order'[b] PROVE a = b
        <5>1. CASE a \in 1 .. n /\ b \in 1 .. n
          BY <2>1, <3>2, <3>3, <4>1, <5>1 DEF IsInjective
        <5>2. CASE a \in 1 .. n /\ b = n + 1
          BY <3>2, <3>4, <4>1, <5>2
        <5>3. CASE a = n + 1 /\ b \in 1 .. n
          BY <3>2, <3>4, <4>1, <5>3
        <5> QED BY <3>2, <5>1, <5>2, <5>3
      <4> QED BY <3>3, <4>1 DEF IsInjective
    <3>6. ToSet(order') = ToSet(order) \cup {k}
      <4>1. 1 .. n + 1 = (1 .. n) \cup {n + 1}
        BY <3>2
      <4> QED BY <3>2, <3>3, <4>1 DEF ToSet
    <3> QED BY <1>3, <1>10, <2>1, <3>2, <3>5, <3>6
  <2> QED BY <2>2, <2>3
<1>12. StoreInv' /\ CacheInv'
  BY <1>1, <1>8, <1>9, <1>11 DEF Inv, StoreInv, CacheInv
<1>13. /\ DOMAIN sess' = Sessions /\ sess'[s] = v
       /\ \A o \in Sessions \ {s} : sess'[o] = sess[o]
  BY <1>1 DEF Inv, SessInv
<1>14. CASReplacesChecked'
  <2>1. ASSUME r.ifv # None PROVE w.checked = w.was \/ w.again
    <3>1. w.checked = r.ifv /\ w.was = Version(rows[k])
          /\ w.again = (\E h \in 1 .. me.i - 1 : c.recs[h].id = r.id)
      BY DEF Conditional
    <3>2. (\A h \in 1 .. me.i - 1 : c.recs[h].id # r.id) => r.ifv = Version(rows[k])
      <4>1. \A j \in me.i .. Len(c.recs) :
               c.recs[j].ifv # None /\ (\A h \in 1 .. j - 1 : c.recs[h].id # c.recs[j].id)
                  => c.recs[j].ifv = Version(rows[KeyOf(c, c.recs[j].id)])
        BY <1>1, <1>2 DEF Checked
      <4>2. me.i \in me.i .. Len(c.recs)
        BY <1>2
      <4> QED BY <2>1, <4>1, <4>2
    <3> QED BY <3>1, <3>2
  <2> QED BY <1>1, <1>2, <2>1 DEF Inv, CASReplacesChecked
<1>15. CASE me.i = Len(c.recs)
  <2>1. sess'[s] = Idle
    BY <1>13, <1>15
  <2>2. \A o \in Sessions : sess'[o].pc \notin {"batch", "tx"}
    BY <1>2, <1>13, <2>1, KindsDiffer
  <2>3. SessInv'
    BY <1>13, <2>1, KindsDiffer DEF Inv, SessInv
  <2>4. LockInv' /\ CheckedInv'
    BY <2>2 DEF LockInv, CheckedInv, Checked
  <2> QED BY <1>12, <1>14, <2>3, <2>4 DEF Inv
<1>16. CASE me.i # Len(c.recs)
  <2> DEFINE u == [me EXCEPT !.i = me.i + 1]
  <2>1. me.i + 1 \in 1 .. Len(c.recs) /\ me.i + 1 \in Nat \ {0}
    BY <1>2, <1>16, SMTT(30)
  <2>2. u \in BatchCall /\ u.pc = "batch" /\ u.i = me.i + 1 /\ u.call = c /\ u.vecs = me.vecs
    BY <1>2, <2>1 DEF BatchCall
  <2>3. sess'[s] = u
    BY <1>13, <1>16
  <2> HIDE DEF u
  <2>4. Session(u) /\ VectorsOf(u)
    <3>1. u \notin EmbedCall /\ u \notin TxCall
      BY <2>2, KindsDiffer
    <3> QED BY <1>2, <2>1, <2>2, <3>1 DEF Session, VectorsOf, Contented
  <2>5. SessInv'
    BY <1>13, <2>3, <2>4 DEF Inv, SessInv
  <2>6. LockInv'
    <3>1. /\ sess'[s].pc = "batch" /\ driver' = "memory"
          /\ \A o \in Sessions \ {s} : sess'[o].pc \notin {"batch", "tx"}
      BY <1>1, <1>2, <1>13, <2>2, <2>3
    <3> QED BY <3>1 DEF LockInv
  <2>7. Checked(sess[s])'
    <3>1. ASSUME NEW j \in me.i + 1 .. Len(c.recs), c.recs[j].ifv # None,
                 \A h \in 1 .. j - 1 : c.recs[h].id # c.recs[j].id
          PROVE  c.recs[j].ifv = Version(rows'[KeyOf(c, c.recs[j].id)])
      <4> DEFINE x == KeyOf(c, c.recs[j].id)
      <4>1. j \in me.i .. Len(c.recs) /\ j \in 1 .. Len(c.recs) /\ me.i \in 1 .. j - 1
        BY <1>2
      <4>2. c.recs[j].ifv = Version(rows[x])
        BY <1>1, <1>2, <3>1, <4>1 DEF Checked
      <4>3. x \in Keys /\ x # k
        BY <1>2, <3>1, <4>1, RecordTypes, KeysDiffer
      <4> QED BY <1>6, <1>8, <4>2, <4>3
    <3>2. \A j \in me.i + 1 .. Len(c.recs) :
             c.recs[j].ifv # None /\ (\A h \in 1 .. j - 1 : c.recs[h].id # c.recs[j].id)
                => c.recs[j].ifv = Version(rows'[KeyOf(c, c.recs[j].id)])
      BY <3>1
    <3> HIDE DEF me, c, r, k, w, v
    <3> QED BY <2>2, <2>3, <3>2 DEF Checked, Version
  <2>8. CheckedInv'
    <3>1. \A o \in Sessions \ {s} : Checked(sess[o])'
      BY <1>2, <1>13 DEF Checked
    <3> QED BY <2>7, <3>1 DEF CheckedInv
  <2> QED BY <1>12, <1>14, <2>5, <2>6, <2>8 DEF Inv
<1> QED BY <1>15, <1>16

\* What a transaction knows, and what it sees of a key.
LEMMA TxFacts ==
    ASSUME Inv, NEW s \in Sessions, sess[s].pc = "tx"
    PROVE  /\ sess[s] \in TxCall /\ Contented(sess[s]) /\ driver = "postgres" /\ Checked(sess[s])
           /\ sess[s].call \in Upserts /\ Len(sess[s].call.recs) \in Nat
           /\ sess[s].at \in Time /\ sess[s].i \in Nat \ {0} /\ sess[s].locks \in SUBSET Keys
           /\ sess[s].vecs \in Seq(Text) /\ sess[s].writes \in [Keys -> Row \cup {None}]
           /\ sess[s].conds \in SUBSET [checked : Nat, was : Nat, again : BOOLEAN]
           /\ \A k \in Keys : sess[s].writes[k] # None =>
                 k \in sess[s].locks /\ sess[s].writes[k].vec = sess[s].writes[k].text
           /\ \A o \in Sessions \ {s} : sess[o].pc = "tx" => sess[s].locks \cap sess[o].locks = {}
<1>1. Session(sess[s]) /\ VectorsOf(sess[s]) /\ Checked(sess[s])
  BY DEF Inv, SessInv, CheckedInv
<1>2. sess[s] \in TxCall
  BY <1>1, SessionKinds
<1>3. /\ Contented(sess[s])
      /\ \A k \in Keys : sess[s].writes[k] # None => sess[s].writes[k].vec = sess[s].writes[k].text
  BY <1>1, <1>2 DEF VectorsOf
<1>4. /\ sess[s].call \in Upserts /\ sess[s].at \in Time /\ sess[s].i \in Nat \ {0}
      /\ sess[s].locks \in SUBSET Keys /\ sess[s].vecs \in Seq(Text)
      /\ sess[s].writes \in [Keys -> Row \cup {None}]
      /\ sess[s].conds \in SUBSET [checked : Nat, was : Nat, again : BOOLEAN]
  BY <1>2 DEF TxCall
<1>5. /\ driver = "postgres"
      /\ \A k \in Keys : sess[s].writes[k] # None => k \in sess[s].locks
      /\ \A o \in Sessions \ {s} : sess[o].pc = "tx" => sess[s].locks \cap sess[o].locks = {}
  BY DEF Inv, LockInv
<1>6. Len(sess[s].call.recs) \in Nat
  BY <1>4, NeededRange
<1> QED BY <1>1, <1>2, <1>3, <1>4, <1>5, <1>6

LEMMA ViewFacts ==
    ASSUME Inv, NEW s \in Sessions, sess[s].pc = "tx", NEW k \in Keys
    PROVE  /\ View(sess[s], k) \in Row \cup {None}
           /\ View(sess[s], k) # None => View(sess[s], k).vec = View(sess[s], k).text
<1>1. rows[k] \in Row \cup {None} /\ (rows[k] # None => rows[k].vec = rows[k].text)
  BY DEF Inv, StoreInv
<1>2. /\ sess[s].writes[k] \in Row \cup {None}
      /\ sess[s].writes[k] # None => sess[s].writes[k].vec = sess[s].writes[k].text
  BY TxFacts
<1> QED BY <1>1, <1>2 DEF View

LEMMA TxRecord ==
    ASSUME Inv, NEW s \in Sessions, sess[s].pc = "tx", sess[s].i <= Len(sess[s].call.recs)
    PROVE  LET c == sess[s].call  r == c.recs[sess[s].i] IN
           /\ sess[s].i \in 1 .. Len(c.recs)
           /\ r \in Record /\ r.meta \in Meta /\ r.text \in Text /\ r.ifv \in Nat \cup {None}
           /\ sess[s].vecs[sess[s].i] = r.text
           /\ KeyOf(c, r.id) \in Keys /\ Targets(c, r) \subseteq Keys
<1>1. sess[s].i \in 1 .. Len(sess[s].call.recs) /\ sess[s].call \in Upserts /\ Contented(sess[s])
  BY TxFacts
<1> QED BY <1>1, RecordTypes DEF Contented

\* The step of a transaction: what it needs to be one.
LEMMA TxStep ==
    ASSUME Inv, NEW s \in Sessions, sess[s].pc = "tx",
           NEW v \in TxCall, v.call = sess[s].call, v.vecs = sess[s].vecs, Checked(v),
           \A k \in Keys : v.writes[k] # None => k \in v.locks /\ v.writes[k].vec = v.writes[k].text,
           \A k \in v.locks \ sess[s].locks : ~ Locked(k, s),
           sess' = [sess EXCEPT ![s] = v], UNCHANGED <<driver, rows, order, cache, now, replaced>>
    PROVE  Inv'
<1>1. /\ Contented(sess[s]) /\ driver = "postgres"
      /\ \A o \in Sessions \ {s} : sess[o].pc = "tx" => sess[s].locks \cap sess[o].locks = {}
  BY TxFacts
<1>2. v.pc = "tx" /\ v \notin EmbedCall /\ v \notin BatchCall
  BY KindsDiffer
<1>3. Session(v) /\ VectorsOf(v)
  BY <1>1, <1>2 DEF Session, VectorsOf, Contented
<1>4. \A o \in Sessions \ {s} : sess[o].pc = "tx" => v.locks \cap sess[o].locks = {}
  <2>1. ASSUME NEW o \in Sessions \ {s}, sess[o].pc = "tx", NEW k \in v.locks, k \in sess[o].locks
        PROVE  FALSE
    <3>1. CASE k \in sess[s].locks
      BY <1>1, <2>1, <3>1
    <3>2. CASE k \notin sess[s].locks
      BY <2>1, <3>2 DEF Locked
    <3> QED BY <3>1, <3>2
  <2> QED BY <2>1
<1> QED BY <1>1, <1>2, <1>3, <1>4, HolderStep

LEMMA PgBeginKeeps ==
    ASSUME Inv, NEW s \in Sessions, PgBegin(s)
    PROVE  Inv'
<1> DEFINE me == sess[s]
           c == me.call
           none == [k \in Keys |-> None]
           v == [pc |-> "tx", call |-> c, at |-> now, i |-> 1, step |-> "cas", vecs |-> BatchVectors(me),
                 locks |-> {}, writes |-> none, conds |-> {}]
<1>1. /\ me.pc = "run" /\ c.op = "upsert" /\ driver = "postgres" /\ sess' = [sess EXCEPT ![s] = v]
      /\ UNCHANGED <<driver, rows, order, cache, now, found, replaced>>
  BY DEF PgBegin, Ready
<1>2. me \in EmbedCall /\ Embedding(me)
  BY <1>1, Embeds
<1>3. /\ c \in Upserts /\ c.recs # << >> /\ BatchVectors(me) \in Seq(Text)
      /\ \A i \in 1 .. Len(c.recs) : BatchVectors(me)[i] = c.recs[i].text
  BY <1>1, <1>2, BatchVectorsAreOfContent
<1>4. now \in Time /\ none \in [Keys -> Row \cup {None}]
  BY DEF Inv, StoreInv
<1>5. /\ v.pc = "tx" /\ v.call = c /\ v.vecs = BatchVectors(me) /\ v.step = "cas"
      /\ v.locks = {} /\ v.writes = none /\ v.conds = {}
  OBVIOUS
<1>6. v \in TxCall
  BY <1>3, <1>4 DEF TxCall
<1> HIDE DEF v
<1>7. Session(v) /\ VectorsOf(v)
  <2>1. v \notin EmbedCall /\ v \notin BatchCall
    BY <1>5, KindsDiffer
  <2> QED BY <1>3, <1>5, <1>6, <2>1 DEF Session, VectorsOf, Contented
<1>8. Checked(v)
  BY <1>5 DEF Checked
<1> QED BY <1>1, <1>5, <1>7, <1>8, HolderStep

LEMMA PgCasKeeps ==
    ASSUME Inv, NEW s \in Sessions, PgCas(s)
    PROVE  Inv'
<1> DEFINE me == sess[s]
           c == me.call
           r == c.recs[me.i]
           k == KeyOf(c, r.id)
           locks == IF View(me, k) = None THEN me.locks ELSE me.locks \cup {k}
<1>1. /\ me.pc = "tx" /\ me.i <= Len(c.recs) /\ me.step = "cas"
      /\ r.ifv = None \/ rows[k] = None \/ ~ Locked(k, s)
      /\ \/ r.ifv = None /\ sess' = [sess EXCEPT ![s].step = "insert"]
         \/ /\ r.ifv # None /\ r.ifv = Version(View(me, k))
            /\ sess' = [sess EXCEPT ![s].step = "insert", ![s].locks = locks]
         \/ sess' = [sess EXCEPT ![s] = Idle]
      /\ UNCHANGED <<driver, rows, order, cache, now, found, replaced>>
  BY DEF PgCas, InTx
<1>2. /\ me \in TxCall /\ Checked(me) /\ me.locks \in SUBSET Keys
      /\ \A x \in Keys : me.writes[x] # None => x \in me.locks /\ me.writes[x].vec = me.writes[x].text
  BY <1>1, TxFacts
<1>3. k \in Keys
  BY <1>1, TxRecord
<1>4. \A w \in me.conds : w.checked = w.was \/ w.checked = 0
  BY <1>1, <1>2 DEF Checked
<1>5. CASE sess' = [sess EXCEPT ![s] = Idle]
  BY <1>1, <1>5, QuietStep
<1>6. CASE r.ifv = None /\ sess' = [sess EXCEPT ![s].step = "insert"]
  <2> DEFINE v == [me EXCEPT !.step = "insert"]
  <2>1. /\ v \in TxCall /\ v.pc = "tx" /\ v.call = c /\ v.vecs = me.vecs /\ v.i = me.i
        /\ v.locks = me.locks /\ v.writes = me.writes /\ v.conds = me.conds
    BY <1>2 DEF TxCall
  <2>2. sess' = [sess EXCEPT ![s] = v]
    BY <1>6
  <2> HIDE DEF v
  <2>3. Checked(v)
    BY <1>4, <1>6, <2>1 DEF Checked
  <2> HIDE DEF me, c, r, k, locks
  <2> QED BY <1>1, <1>2, <2>1, <2>2, <2>3, TxStep, ZenonT(30) DEF me, c
<1>7. CASE /\ r.ifv # None /\ r.ifv = Version(View(me, k))
           /\ sess' = [sess EXCEPT ![s].step = "insert", ![s].locks = locks]
  <2> DEFINE v == [me EXCEPT !.step = "insert", !.locks = locks]
  <2>1. locks \in SUBSET Keys
    BY <1>2, <1>3
  <2> HIDE DEF locks
  <2>2. /\ v \in TxCall /\ v.pc = "tx" /\ v.call = c /\ v.vecs = me.vecs /\ v.i = me.i
        /\ v.locks = locks /\ v.writes = me.writes /\ v.conds = me.conds
    BY <1>2, <2>1 DEF TxCall
  <2>3. sess' = [sess EXCEPT ![s] = v]
    BY <1>7
  <2> HIDE DEF v
  <2>4. View(v, k) = View(me, k)
    BY <2>2 DEF View
  <2>5. r.ifv # 0 => k \in locks
    <3>1. View(me, k) \in Row \cup {None}
      BY <1>1, <1>3, ViewFacts
    <3>2. r.ifv # 0 => View(me, k) # None
      BY <1>7, <3>1, VersionType
    <3> QED BY <3>2 DEF locks
  <2>6. Checked(v)
    BY <1>4, <1>7, <2>2, <2>4, <2>5 DEF Checked
  <2>7. me.locks \subseteq locks /\ locks \ me.locks \subseteq {k}
    BY DEF locks
  <2>8. \A x \in locks \ me.locks : ~ Locked(x, s)
    <3>1. ASSUME k \in locks, k \notin me.locks PROVE ~ Locked(k, s)
      <4>1. View(me, k) # None /\ me.writes[k] = None
        BY <1>2, <1>3, <3>1 DEF locks
      <4>2. rows[k] # None
        BY <4>1 DEF View
      <4> QED BY <1>1, <1>7, <4>2
    <3> QED BY <2>7, <3>1
  <2>9. \A x \in Keys : v.writes[x] # None => x \in v.locks /\ v.writes[x].vec = v.writes[x].text
    BY <1>2, <2>2, <2>7
  <2> HIDE DEF c, r, k, locks
  <2> QED BY <1>1, <2>2, <2>3, <2>6, <2>8, <2>9, TxStep DEF c
<1> QED BY <1>1, <1>5, <1>6, <1>7

LEMMA PgInsertKeeps ==
    ASSUME Inv, NEW s \in Sessions, PgInsert(s)
    PROVE  Inv'
<1> DEFINE me == sess[s]
           c == me.call
           r == c.recs[me.i]
           k == KeyOf(c, r.id)
           old == View(me, k)
           row == Stored(r, me.vecs[me.i], old, me.at)
           w == Conditional(c, me.i, old)
           locks == me.locks \cup {k}
           writes == [me.writes EXCEPT ![k] = row]
           conds == IF r.ifv = None THEN me.conds ELSE me.conds \cup {w}
           u == [me EXCEPT !.step = "supersede", !.locks = locks]
           v == [u EXCEPT !.writes = writes, !.conds = conds]
<1>1. /\ me.pc = "tx" /\ me.i <= Len(c.recs) /\ me.step = "insert" /\ ~ Locked(k, s)
      /\ sess' = [sess EXCEPT ![s].step = "supersede", ![s].locks = @ \cup {k}, ![s].writes[k] = row,
                    ![s].conds = IF r.ifv = None THEN @ ELSE @ \cup {w}]
      /\ UNCHANGED <<driver, rows, order, cache, now, found, replaced>>
  BY DEF PgInsert, InTx
<1>2. /\ me \in TxCall /\ Checked(me) /\ me.locks \in SUBSET Keys /\ me.at \in Time
      /\ me.writes \in [Keys -> Row \cup {None}]
      /\ me.conds \in SUBSET [checked : Nat, was : Nat, again : BOOLEAN]
      /\ \A x \in Keys : me.writes[x] # None => x \in me.locks /\ me.writes[x].vec = me.writes[x].text
  BY <1>1, TxFacts
<1>3. /\ r \in Record /\ r.meta \in Meta /\ r.text \in Text /\ r.ifv \in Nat \cup {None}
      /\ me.vecs[me.i] = r.text /\ k \in Keys
  BY <1>1, TxRecord
<1>4. old \in Row \cup {None}
  BY <1>1, <1>3, ViewFacts
<1>5. row \in Row /\ row # None /\ row.vec = row.text
  <2>1. row = Stored(r, r.text, old, me.at)
    BY <1>3
  <2> HIDE DEF me, c, r, k, old, row
  <2>2. /\ Stored(r, r.text, old, me.at) \in Row
        /\ Stored(r, r.text, old, me.at).vec = r.text /\ Stored(r, r.text, old, me.at).text = r.text
    BY <1>2, <1>3, <1>4, StoredType
  <2> QED BY <2>1, <2>2, RowTypes
<1>6. writes \in [Keys -> Row \cup {None}] /\ writes[k] = row /\ \A x \in Keys \ {k} : writes[x] = me.writes[x]
  <2> HIDE DEF me, k, row
  <2> QED BY <1>2, <1>3, <1>5
<1>7. /\ conds \in SUBSET [checked : Nat, was : Nat, again : BOOLEAN]
      /\ \A x \in conds : x.checked = x.was \/ x.checked = 0
  <2>1. \A x \in me.conds : x.checked = x.was \/ x.checked = 0
    BY <1>1, <1>2 DEF Checked
  <2>2. ASSUME r.ifv # None
        PROVE  w \in [checked : Nat, was : Nat, again : BOOLEAN] /\ (w.checked = w.was \/ w.checked = 0)
    <3>1. w.checked = r.ifv /\ w.was = Version(old)
      BY DEF Conditional
    <3>2. r.ifv # 0 => r.ifv = Version(old)
      BY <1>1, <1>2, <2>2 DEF Checked
    <3>3. r.ifv \in Nat /\ Version(old) \in Nat
      BY <1>3, <1>4, <2>2, VersionType
    <3>4. w \in [checked : Nat, was : Nat, again : BOOLEAN]
      BY <3>3 DEF Conditional
    <3> QED BY <3>1, <3>2, <3>4
  <2> HIDE DEF w
  <2> QED BY <1>2, <2>1, <2>2
<1> HIDE DEF row, w, writes, conds
<1>8. locks \in SUBSET Keys
  BY <1>2, <1>3
<1> HIDE DEF locks
<1>9. u \in TxCall /\ u.call = c /\ u.vecs = me.vecs /\ u.i = me.i /\ u.locks = locks /\ u.step = "supersede"
  BY <1>2, <1>8 DEF TxCall
<1>10. sess' = [sess EXCEPT ![s] = v]
  <2>1. v = [me EXCEPT !.step = "supersede", !.locks = locks, !.writes = writes, !.conds = conds]
    OBVIOUS
  <2> HIDE DEF v
  <2> QED BY <1>1, <2>1, ZenonT(30) DEF locks, writes, conds
<1> HIDE DEF u
<1>11. /\ v \in TxCall /\ v.call = c /\ v.vecs = me.vecs /\ v.i = me.i /\ v.locks = locks
       /\ v.step = "supersede" /\ v.writes = writes /\ v.conds = conds
  BY <1>6, <1>7, <1>9 DEF TxCall
<1> HIDE DEF v
<1>12. Checked(v)
  <2>1. v.pc = "tx"
    BY <1>11, KindsDiffer
  <2> QED BY <1>7, <1>11, <2>1 DEF Checked
<1>13. \A x \in Keys : v.writes[x] # None => x \in v.locks /\ v.writes[x].vec = v.writes[x].text
  BY <1>2, <1>5, <1>6, <1>11 DEF locks
<1>14. \A x \in v.locks \ me.locks : ~ Locked(x, s)
  BY <1>1, <1>11 DEF locks
<1> HIDE DEF r, k, old
<1> QED BY <1>1, <1>10, <1>11, <1>12, <1>13, <1>14, TxStep

LEMMA PgSupersedeKeeps ==
    ASSUME Inv, NEW s \in Sessions, PgSupersede(s)
    PROVE  Inv'
<1> DEFINE me == sess[s]
           c == me.call
           r == c.recs[me.i]
           hit == { k \in Targets(c, r) : Superseded(View(me, k), me.at) # View(me, k) }
           locks == me.locks \cup hit
           writes == [k \in Keys |-> IF k \in hit THEN Superseded(View(me, k), me.at) ELSE me.writes[k]]
           u == [me EXCEPT !.i = me.i + 1, !.step = "cas"]
           v == [u EXCEPT !.locks = locks, !.writes = writes]
<1>1. /\ me.pc = "tx" /\ me.i <= Len(c.recs) /\ me.step = "supersede" /\ \A k \in hit : ~ Locked(k, s)
      /\ sess' = [sess EXCEPT ![s].i = @ + 1, ![s].step = "cas", ![s].locks = @ \cup hit,
                    ![s].writes = [k \in Keys |-> IF k \in hit THEN Superseded(View(me, k), me.at) ELSE @[k]]]
      /\ UNCHANGED <<driver, rows, order, cache, now, found, replaced>>
  BY DEF PgSupersede, InTx
<1>2. /\ me \in TxCall /\ Checked(me) /\ me.locks \in SUBSET Keys /\ me.at \in Time /\ me.i \in Nat \ {0}
      /\ me.writes \in [Keys -> Row \cup {None}]
      /\ \A x \in Keys : me.writes[x] # None => x \in me.locks /\ me.writes[x].vec = me.writes[x].text
  BY <1>1, TxFacts
<1>3. hit \subseteq Keys
  BY <1>1, TxRecord
<1>4. ASSUME NEW k \in hit
      PROVE  /\ Superseded(View(me, k), me.at) \in Row \cup {None}
             /\ Superseded(View(me, k), me.at) # None =>
                   Superseded(View(me, k), me.at).vec = Superseded(View(me, k), me.at).text
  <2>1. /\ View(me, k) \in Row \cup {None}
        /\ View(me, k) # None => View(me, k).vec = View(me, k).text
    BY <1>1, <1>3, ViewFacts
  <2> HIDE DEF hit
  <2> QED BY <1>2, <2>1, SupersededType
<1> HIDE DEF hit
<1>5. writes \in [Keys -> Row \cup {None}]
  BY <1>2, <1>4
<1>6. \A x \in Keys : writes[x] # None => x \in locks /\ writes[x].vec = writes[x].text
  BY <1>2, <1>4
<1>7. locks \in SUBSET Keys /\ me.i + 1 \in Nat \ {0}
  BY <1>2, <1>3
<1>8. sess' = [sess EXCEPT ![s] = v]
  <2>1. v = [me EXCEPT !.i = me.i + 1, !.step = "cas", !.locks = locks, !.writes = writes]
    OBVIOUS
  <2> HIDE DEF v
  <2> QED BY <1>1, <2>1 DEF locks, writes
<1> HIDE DEF writes, locks
<1>9. u \in TxCall /\ u.call = c /\ u.vecs = me.vecs /\ u.step = "cas" /\ u.conds = me.conds
  BY <1>2, <1>7 DEF TxCall
<1> HIDE DEF u
<1>10. /\ v \in TxCall /\ v.call = c /\ v.vecs = me.vecs /\ v.step = "cas" /\ v.conds = me.conds
       /\ v.locks = locks /\ v.writes = writes
  BY <1>5, <1>7, <1>9 DEF TxCall
<1> HIDE DEF v
<1>11. Checked(v)
  <2>1. v.pc = "tx"
    BY <1>10, KindsDiffer
  <2>2. \A w \in me.conds : w.checked = w.was \/ w.checked = 0
    BY <1>1, <1>2 DEF Checked
  <2> QED BY <1>10, <2>1, <2>2 DEF Checked
<1>12. \A x \in v.locks \ me.locks : ~ Locked(x, s)
  BY <1>1, <1>10 DEF locks
<1> HIDE DEF r
<1> QED BY <1>1, <1>6, <1>8, <1>10, <1>11, <1>12, TxStep

LEMMA PgCommitKeeps ==
    ASSUME Inv, NEW s \in Sessions, PgCommit(s)
    PROVE  Inv'
<1> DEFINE me == sess[s]
<1>1. /\ me.pc = "tx" /\ rows' = [k \in Keys |-> View(me, k)] /\ replaced' = replaced \cup me.conds
      /\ sess' = [sess EXCEPT ![s] = Idle] /\ UNCHANGED <<driver, order, cache, now, found>>
  BY DEF PgCommit
<1>2. /\ driver = "postgres" /\ Checked(me) /\ \A k \in Keys : me.writes[k] # None => k \in me.locks
      /\ \A o \in Sessions \ {s} : sess[o].pc = "tx" => me.locks \cap sess[o].locks = {}
  BY <1>1, TxFacts
<1>3. /\ DOMAIN sess' = Sessions /\ sess'[s] = Idle
      /\ \A o \in Sessions \ {s} : sess'[o] = sess[o]
  BY <1>1 DEF Inv, SessInv
<1>4. StoreInv' /\ CacheInv'
  <2>1. \A k \in Keys : /\ View(me, k) \in Row \cup {None}
                        /\ View(me, k) # None => View(me, k).vec = View(me, k).text
    BY <1>1, ViewFacts
  <2>2. rows' \in [Keys -> Row \cup {None}] /\ \A k \in Keys : rows'[k] # None => rows'[k].vec = rows'[k].text
    BY <1>1, <2>1
  <2> QED BY <1>1, <1>2, <2>2 DEF Inv, StoreInv, CacheInv
<1>5. SessInv'
  BY <1>3, KindsDiffer DEF Inv, SessInv
<1>6. \A o \in Sessions : sess'[o].pc \in {"batch", "tx"} => o # s /\ sess'[o] = sess[o] /\ sess[o].pc = "tx"
  <2>1. \A o \in Sessions : sess[o].pc # "batch"
    BY <1>2 DEF Inv, LockInv
  <2> QED BY <1>3, <2>1, KindsDiffer
<1>7. LockInv'
  BY <1>1, <1>6 DEF Inv, LockInv
<1>8. CheckedInv'
  <2>1. ASSUME NEW o \in Sessions, o # s, sess[o].pc = "tx" PROVE Checked(sess[o])'
    <3> DEFINE ot == sess[o]
               k == KeyOf(ot.call, ot.call.recs[ot.i].id)
    <3>1. sess'[o] = ot /\ Checked(ot)
      BY <1>3, <2>1 DEF Inv, CheckedInv
    <3>2. ot.i <= Len(ot.call.recs) => k \in Keys
      BY <2>1, TxRecord
    <3>3. k \in ot.locks /\ k \in Keys => rows'[k] = rows[k]
      BY <1>1, <1>2, <2>1 DEF View
    <3>4. k \in ot.locks /\ k \in Keys => View(ot, k)' = View(ot, k)
      BY <3>1, <3>3 DEF View
    <3>5. ot.step = "insert" /\ ot.i <= Len(ot.call.recs) /\ ot.call.recs[ot.i].ifv \notin {None, 0} =>
            k \in ot.locks /\ ot.call.recs[ot.i].ifv = Version(View(ot, k))
      BY <2>1, <3>1 DEF Checked
    <3>6. \A w \in ot.conds : w.checked = w.was \/ w.checked = 0
      BY <2>1, <3>1 DEF Checked
    <3>7. ot.step = "insert" /\ ot.i <= Len(ot.call.recs) /\ ot.call.recs[ot.i].ifv \notin {None, 0} =>
            k \in ot.locks /\ ot.call.recs[ot.i].ifv = Version(View(ot, k)')
      BY <3>2, <3>4, <3>5
    <3>8. ot.pc # "batch"
      BY <2>1
    <3> QED BY <3>1, <3>6, <3>7, <3>8 DEF Checked, View, Version
  <2>2. ASSUME NEW o \in Sessions, sess'[o].pc \notin {"batch", "tx"} PROVE Checked(sess[o])'
    BY <2>2 DEF Checked
  <2> QED BY <1>6, <2>1, <2>2 DEF CheckedInv
<1>9. CASReplacesChecked'
  <2>1. \A w \in me.conds : w.checked = w.was \/ w.checked = 0
    BY <1>1, <1>2 DEF Checked
  <2> QED BY <1>1, <1>2, <2>1 DEF Inv, CASReplacesChecked
<1> QED BY <1>4, <1>5, <1>7, <1>8, <1>9 DEF Inv

-----------------------------------------------------------------------------
(* Lists in an order: a ranking is one, and lists each of its records once.*)

\* B is a strict total order of S.
Orders(B, S) ==
    /\ \A a \in S : <<a, a>> \notin B
    /\ \A a, b \in S : a # b => <<a, b>> \in B \/ <<b, a>> \in B
    /\ \A a, b, c \in S : <<a, b>> \in B /\ <<b, c>> \in B => <<a, c>> \in B

Before(S, B, a) == { b \in S : <<b, a>> \in B }

LEMMA BeforeGrows ==
    ASSUME NEW S, IsFiniteSet(S), NEW B, Orders(B, S)
    PROVE  /\ \A a \in S : Cardinality(Before(S, B, a)) \in 0 .. Cardinality(S) - 1
           /\ \A a, b \in S : <<a, b>> \in B => Cardinality(Before(S, B, a)) < Cardinality(Before(S, B, b))
<1>1. ASSUME NEW a \in S
      PROVE  /\ IsFiniteSet(Before(S, B, a)) /\ Cardinality(Before(S, B, a)) \in Nat
             /\ Cardinality(Before(S, B, a)) < Cardinality(S) /\ Cardinality(S) \in Nat
  <2>1. Before(S, B, a) \subseteq S /\ a \notin Before(S, B, a)
    BY DEF Before, Orders
  <2>2. Before(S, B, a) # S
    BY <2>1
  <2> QED BY <2>1, <2>2, FS_Subset, FS_CardinalityType
<1>2. ASSUME NEW a \in S, NEW b \in S, <<a, b>> \in B
      PROVE  Cardinality(Before(S, B, a)) < Cardinality(Before(S, B, b))
  <2>1. Before(S, B, a) \subseteq Before(S, B, b)
    BY <1>2 DEF Before, Orders
  <2>2. a \in Before(S, B, b) /\ a \notin Before(S, B, a)
    BY <1>2 DEF Before, Orders
  <2>3. Before(S, B, a) # Before(S, B, b)
    BY <2>2
  <2>4. IsFiniteSet(Before(S, B, b)) /\ Cardinality(Before(S, B, b)) \in Nat
        /\ Cardinality(Before(S, B, a)) \in Nat
    BY <1>1
  <2> QED BY <2>1, <2>3, <2>4, FS_Subset
<1> QED BY <1>1, <1>2

LEMMA Listing ==
    ASSUME NEW S, IsFiniteSet(S), NEW B, Orders(B, S)
    PROVE  /\ Listed(S, B) \in Seq(S) /\ Len(Listed(S, B)) = Cardinality(S)
           /\ ToSet(Listed(S, B)) = S /\ IsInjective(Listed(S, B))
           /\ \A i, j \in 1 .. Cardinality(S) : i < j => <<Listed(S, B)[i], Listed(S, B)[j]>> \in B
<1> DEFINE n == Cardinality(S)
           at(a) == Cardinality(Before(S, B, a)) + 1
           el(j) == CHOOSE a \in S : Cardinality({ b \in S : <<b, a>> \in B }) = j - 1
<1>1. n \in Nat
  BY FS_CardinalityType
<1>2. /\ \A a \in S : at(a) \in 1 .. n
      /\ \A a, b \in S : <<a, b>> \in B => at(a) < at(b)
  <2>1. \A a \in S : Cardinality(Before(S, B, a)) \in 0 .. n - 1
    BY BeforeGrows
  <2>2. \A a, b \in S : <<a, b>> \in B => Cardinality(Before(S, B, a)) < Cardinality(Before(S, B, b))
    BY BeforeGrows
  <2> QED BY <1>1, <2>1, <2>2
<1>3. Listed(S, B) = [j \in 1 .. n |-> el(j)]
  BY DEF Listed
<1>4. \A a \in S : Cardinality({ b \in S : <<b, a>> \in B }) = at(a) - 1
  <2>1. \A a \in S : Cardinality(Before(S, B, a)) \in Nat
    BY <1>1, BeforeGrows
  <2>2. \A a \in S : Cardinality(Before(S, B, a)) = at(a) - 1
    BY <2>1
  <2> HIDE DEF at
  <2> QED BY <2>2 DEF Before
<1>5. \A j \in 1 .. n : \A a \in S : at(a) = j <=> Cardinality({ b \in S : <<b, a>> \in B }) = j - 1
  BY <1>1, <1>2, <1>4
<1> HIDE DEF at, n
<1>6. \A a, b \in S : at(a) = at(b) => a = b
  <2>1. \A a, b \in S : a # b => at(a) < at(b) \/ at(b) < at(a)
    BY <1>2 DEF Orders
  <2> QED BY <1>2, <2>1
<1>7. \A j \in 1 .. n : \E a \in S : at(a) = j
  <2> DEFINE T == 1 .. n
             f == [a \in S |-> at(a)]
  <2>1. f \in Injection(S, T)
    <3>1. f \in [S -> T]
      BY <1>2
    <3>2. \A a, b \in DOMAIN f : f[a] = f[b] => a = b
      BY <1>6
    <3> QED BY <3>1, <3>2 DEF Injection, IsInjective
  <2>2. IsFiniteSet(T) /\ Cardinality(T) = Cardinality(S)
    BY <1>1, FS_Interval DEF n
  <2> HIDE DEF T, f
  <2>3. f \in Surjection(S, T)
    BY <2>1, <2>2, FS_Injection
  <2>4. \A j \in T : \E a \in S : f[a] = j
    BY <2>3 DEF Surjection
  <2> USE DEF T, f
  <2> QED BY <2>4
<1>8. \A j \in 1 .. n : el(j) \in S /\ at(el(j)) = j
  <2> SUFFICES ASSUME NEW j \in 1 .. n PROVE el(j) \in S /\ at(el(j)) = j
    OBVIOUS
  <2>1. \E a \in S : Cardinality({ b \in S : <<b, a>> \in B }) = j - 1
    BY <1>5, <1>7
  <2>2. el(j) \in S /\ Cardinality({ b \in S : <<b, el(j)>> \in B }) = j - 1
    BY <2>1
  <2> HIDE DEF el
  <2> QED BY <1>5, <2>2
<1> HIDE DEF el
<1>9. Listed(S, B) \in Seq(S) /\ Len(Listed(S, B)) = n
  BY <1>1, <1>3, <1>8
<1>10. ToSet(Listed(S, B)) = S
  <2>1. ToSet(Listed(S, B)) = { el(j) : j \in 1 .. n }
    BY <1>3 DEF ToSet
  <2>2. \A a \in S : at(a) \in 1 .. n /\ el(at(a)) = a
    BY <1>2, <1>6, <1>8
  <2> QED BY <1>8, <2>1, <2>2
<1>11. IsInjective(Listed(S, B))
  <2>1. \A i, j \in 1 .. n : el(i) = el(j) => i = j
    BY <1>8
  <2> QED BY <1>3, <2>1 DEF IsInjective
<1>12. ASSUME NEW i \in 1 .. n, NEW j \in 1 .. n, i < j PROVE <<el(i), el(j)>> \in B
  <2>1. el(i) \in S /\ el(j) \in S /\ at(el(i)) = i /\ at(el(j)) = j
    BY <1>8
  <2>2. el(i) # el(j)
    BY <1>12, <2>1
  <2>3. <<el(j), el(i)>> \in B => j < i
    BY <1>2, <2>1
  <2> QED BY <1>1, <1>12, <2>1, <2>2, <2>3 DEF Orders
<1> QED BY <1>3, <1>9, <1>10, <1>11, <1>12 DEF n

-----------------------------------------------------------------------------
(* The three orders.                                                       *)

LEMMA ByKeyOrders ==
    ASSUME NEW S, S \subseteq Int, NEW key \in [S -> Int]
    PROVE  Orders(ByKey(S, key), S)
<1>1. \A a, b \in S : <<a, b>> \in ByKey(S, key) <=> key[a] < key[b] \/ (key[a] = key[b] /\ a < b)
  BY DEF ByKey
<1>2. \A a \in S : a \in Int /\ key[a] \in Int
  OBVIOUS
<1> QED BY <1>1, <1>2 DEF Orders

\* Fractions with positive denominators.
Fraction == Nat \X (Nat \ {0})

LEMMA ProductsCompare ==
    ASSUME NEW a \in Int, NEW b \in Int, NEW c \in Int, c > 0
    PROVE  (a * c < b * c) <=> (a < b)
<1>1. a < b => a * c < b * c
  OBVIOUS
<1>2. a >= b => a * c >= b * c
  OBVIOUS
<1> QED BY <1>1, <1>2

LEMMA GreaterIsOrder ==
    ASSUME NEW x \in Fraction, NEW y \in Fraction, NEW z \in Fraction
    PROVE  /\ ~ (Greater(x, y) /\ Greater(y, x))
           /\ Greater(x, y) /\ ~ Greater(z, y) => Greater(x, z)
           /\ ~ Greater(y, x) /\ Greater(y, z) => Greater(x, z)
           /\ ~ Greater(y, x) /\ ~ Greater(z, y) => ~ Greater(z, x)
<1> DEFINE a == x[1]  b == x[2]  c == y[1]  d == y[2]  e == z[1]  f == z[2]
<1>1. /\ a \in Nat /\ c \in Nat /\ e \in Nat /\ b \in Nat /\ d \in Nat /\ f \in Nat
      /\ b > 0 /\ d > 0 /\ f > 0
  BY DEF Fraction
<1>2. /\ Greater(x, y) <=> c * b < a * d
      /\ Greater(y, x) <=> a * d < c * b
      /\ Greater(y, z) <=> e * d < c * f
      /\ Greater(z, y) <=> c * f < e * d
      /\ Greater(x, z) <=> e * b < a * f
      /\ Greater(z, x) <=> a * f < e * b
  BY <1>1 DEF Greater
<1> HIDE DEF a, b, c, d, e, f
<1> DEFINE p == a * d * f  q == c * b * f  r == e * b * d
<1>3. /\ a * d \in Int /\ c * b \in Int /\ e * d \in Int /\ c * f \in Int /\ e * b \in Int /\ a * f \in Int
      /\ p \in Int /\ q \in Int /\ r \in Int
  BY <1>1
<1>4. (c * b < a * d <=> q < p) /\ (a * d < c * b <=> p < q)
  BY <1>1, <1>3, ProductsCompare
<1>5. (e * d < c * f <=> r < q) /\ (c * f < e * d <=> q < r)
  <2>1. (e * d) * b = r /\ (c * f) * b = q
    BY <1>1
  <2> QED BY <1>1, <1>3, <2>1, ProductsCompare
<1>6. (e * b < a * f <=> r < p) /\ (a * f < e * b <=> p < r)
  <2>1. (e * b) * d = r /\ (a * f) * d = p
    BY <1>1
  <2> QED BY <1>1, <1>3, <2>1, ProductsCompare
<1> HIDE DEF p, q, r
<1> QED BY <1>2, <1>3, <1>4, <1>5, <1>6

LEMMA Products ==
    ASSUME NEW a \in Nat, NEW b \in Nat
    PROVE  a * b \in Nat /\ (a > 0 /\ b > 0 => a * b > 0)
OBVIOUS

\* A greater share of one lane and no smaller one of the other make a greater
\* score.
LEMMA PlusGreater ==
    ASSUME NEW x \in Fraction, NEW y \in Fraction, NEW u \in Fraction, NEW v \in Fraction,
           Greater(x, y), ~ Greater(v, u)
    PROVE  Greater(Plus(x, u), Plus(y, v)) /\ Greater(Plus(u, x), Plus(v, y))
<1> DEFINE a == x[1]  b == x[2]  c == y[1]  d == y[2]
           e == u[1]  f == u[2]  g == v[1]  h == v[2]
<1>1. /\ a \in Nat /\ c \in Nat /\ e \in Nat /\ g \in Nat
      /\ b \in Nat /\ d \in Nat /\ f \in Nat /\ h \in Nat /\ b > 0 /\ d > 0 /\ f > 0 /\ h > 0
  BY DEF Fraction
<1>2. c * b < a * d /\ ~ (e * h < g * f)
  BY <1>1 DEF Greater
<1>3. /\ Plus(x, u) = <<a * f + e * b, b * f>> /\ Plus(y, v) = <<c * h + g * d, d * h>>
      /\ Plus(u, x) = <<e * b + a * f, f * b>> /\ Plus(v, y) = <<g * d + c * h, h * d>>
  BY DEF Plus
<1> HIDE DEF a, b, c, d, e, f, g, h
<1>4. f * h \in Nat /\ f * h > 0 /\ b * d \in Nat /\ b * d > 0
  BY <1>1
<1>5. (c * b) * (f * h) < (a * d) * (f * h)
  BY <1>1, <1>2, <1>4, ProductsCompare
<1>6. (g * f) * (b * d) <= (e * h) * (b * d)
  <2>1. g * f \in Int /\ e * h \in Int /\ (g * f) * (b * d) \in Int /\ (e * h) * (b * d) \in Int
    BY <1>1, <1>4
  <2> QED BY <1>2, <1>4, <2>1, ProductsCompare
<1>7. (c * h + g * d) * (b * f) = (c * b) * (f * h) + (g * f) * (b * d)
  BY <1>1
<1>8. (a * f + e * b) * (d * h) = (a * d) * (f * h) + (e * h) * (b * d)
  BY <1>1
<1>9. (c * h + g * d) * (b * f) < (a * f + e * b) * (d * h)
  <2>1. /\ (c * b) * (f * h) \in Int /\ (a * d) * (f * h) \in Int
        /\ (g * f) * (b * d) \in Int /\ (e * h) * (b * d) \in Int
    BY <1>1
  <2> QED BY <1>5, <1>6, <1>7, <1>8, <2>1
<1>10. (g * d + c * h) * (f * b) < (e * b + a * f) * (h * d)
  <2>1. /\ g * d + c * h = c * h + g * d /\ f * b = b * f
        /\ e * b + a * f = a * f + e * b /\ h * d = d * h
    BY <1>1
  <2> QED BY <1>9, <2>1
<1> QED BY <1>3, <1>9, <1>10, <1>1 DEF Greater

LEMMA RankType ==
    ASSUME NEW lane \in Seq(Int), NEW id
    PROVE  RankIn(lane, id) \in Nat /\ (RankIn(lane, id) > 0 <=> id \in ToSet(lane))
<1>1. DOMAIN lane = 1 .. Len(lane) /\ Len(lane) \in Nat
  OBVIOUS
<1>2. CASE id \in ToSet(lane)
  <2>1. \E i \in DOMAIN lane : lane[i] = id
    BY <1>2 DEF ToSet
  <2>2. (CHOOSE i \in DOMAIN lane : lane[i] = id) \in DOMAIN lane
    BY <2>1
  <2> QED BY <1>1, <1>2, <2>2 DEF RankIn
<1>3. CASE id \notin ToSet(lane)
  BY <1>3 DEF RankIn
<1> QED BY <1>2, <1>3

LEMMA RankOf ==
    ASSUME NEW lane, IsInjective(lane), NEW i \in DOMAIN lane
    PROVE  RankIn(lane, lane[i]) = i
<1>1. lane[i] \in ToSet(lane)
  BY DEF ToSet
<1>2. \A j \in DOMAIN lane : lane[j] = lane[i] => j = i
  BY DEF IsInjective
<1> QED BY <1>1, <1>2 DEF RankIn

\* Being ahead in a lane is worth more than being behind, or absent.
LEMMA Shares ==
    ASSUME NEW lane \in Seq(Int), NEW a, NEW b
    PROVE  /\ Share(lane, a) \in Fraction
           /\ RankIn(lane, a) > 0 /\ (RankIn(lane, b) = 0 \/ RankIn(lane, a) < RankIn(lane, b))
                 => Greater(Share(lane, a), Share(lane, b))
           /\ RankIn(lane, a) = 0 /\ RankIn(lane, b) = 0 => Share(lane, a) = Share(lane, b)
<1>1. RankIn(lane, a) \in Nat /\ RankIn(lane, b) \in Nat
  BY RankType
<1> DEFINE r == RankIn(lane, a)
           t == RankIn(lane, b)
<1>2. /\ Share(lane, a) = IF r = 0 THEN <<0, 1>> ELSE <<1, 60 + r>>
      /\ Share(lane, b) = IF t = 0 THEN <<0, 1>> ELSE <<1, 60 + t>>
  BY DEF Share, rrfK
<1> HIDE DEF r, t
<1>3. Share(lane, a) \in Fraction
  BY <1>1, <1>2 DEF Fraction, r
<1>4. ASSUME r > 0, t = 0 \/ r < t PROVE Greater(Share(lane, a), Share(lane, b))
  <2>1. Share(lane, a) = <<1, 60 + r>>
    BY <1>1, <1>2, <1>4 DEF r
  <2>2. CASE t = 0
    BY <1>1, <1>2, <2>1, <2>2 DEF Greater, r
  <2>3. CASE r < t
    <3>1. Share(lane, b) = <<1, 60 + t>>
      BY <1>1, <1>2, <2>3 DEF r, t
    <3> QED BY <1>1, <2>1, <2>3, <3>1 DEF Greater, r, t
  <2> QED BY <1>4, <2>2, <2>3
<1>5. r = 0 /\ t = 0 => Share(lane, a) = Share(lane, b)
  BY <1>2
<1> QED BY <1>3, <1>4, <1>5 DEF r, t

LEMMA ScoreType ==
    ASSUME NEW dense \in Seq(Int), NEW sparse \in Seq(Int), NEW a
    PROVE  Score(dense, sparse, a) \in Fraction
<1>1. Share(dense, a) \in Fraction /\ Share(sparse, a) \in Fraction
  BY Shares
<1>2. ASSUME NEW x \in Fraction, NEW y \in Fraction PROVE Plus(x, y) \in Fraction
  <2>1. x[1] \in Nat /\ y[1] \in Nat /\ x[2] \in Nat /\ y[2] \in Nat /\ x[2] > 0 /\ y[2] > 0
    BY DEF Fraction
  <2>2. x[1] * y[2] + y[1] * x[2] \in Nat /\ x[2] * y[2] \in Nat /\ x[2] * y[2] > 0
    <3>1. x[1] * y[2] \in Nat /\ y[1] * x[2] \in Nat /\ x[2] * y[2] \in Nat /\ x[2] * y[2] > 0
      BY <2>1, Products
    <3> QED BY <3>1
  <2> QED BY <2>2 DEF Plus, Fraction
<1> QED BY <1>1, <1>2 DEF Score

LEMMA ByScoreOrders ==
    ASSUME NEW dense \in Seq(Int), NEW sparse \in Seq(Int), NEW S, S \subseteq Int
    PROVE  Orders(ByScore(dense, sparse, S), S)
<1> DEFINE f(a) == Score(dense, sparse, a)
           B == ByScore(dense, sparse, S)
<1>1. \A a, b \in S : <<a, b>> \in B <=> Greater(f(a), f(b)) \/ (~ Greater(f(b), f(a)) /\ a < b)
  BY DEF ByScore
<1>2. \A a \in S : a \in Int /\ f(a) \in Fraction
  BY ScoreType
<1> HIDE DEF f, B
<1>3. \A a \in S : <<a, a>> \notin B
  <2>1. \A a \in S : ~ Greater(f(a), f(a))
    BY <1>2, GreaterIsOrder
  <2> QED BY <1>1, <1>2, <2>1
<1>4. \A a, b \in S : a # b => <<a, b>> \in B \/ <<b, a>> \in B
  BY <1>1, <1>2
<1>5. ASSUME NEW a \in S, NEW b \in S, NEW c \in S, <<a, b>> \in B, <<b, c>> \in B
      PROVE  <<a, c>> \in B
  <2>1. /\ Greater(f(a), f(b)) /\ ~ Greater(f(c), f(b)) => Greater(f(a), f(c))
        /\ ~ Greater(f(b), f(a)) /\ Greater(f(b), f(c)) => Greater(f(a), f(c))
        /\ ~ Greater(f(b), f(a)) /\ ~ Greater(f(c), f(b)) => ~ Greater(f(c), f(a))
        /\ ~ (Greater(f(b), f(c)) /\ Greater(f(c), f(b)))
    BY <1>2, GreaterIsOrder
  <2>2. a < b /\ b < c => a < c
    BY <1>2
  <2> QED BY <1>1, <1>5, <2>1, <2>2
<1> QED BY <1>3, <1>4, <1>5 DEF Orders, B

-----------------------------------------------------------------------------
(* Lanes and their fusion.                                                 *)

Lane(l) == l \in Seq(Ids) /\ IsInjective(l)

LEMMA ElementsAreFinite ==
    ASSUME NEW T, NEW s \in Seq(T)
    PROVE  IsFiniteSet(ToSet(s)) /\ ToSet(s) \subseteq T
<1>1. Len(s) \in Nat /\ DOMAIN s = 1 .. Len(s) /\ \A i \in 1 .. Len(s) : s[i] \in T
  OBVIOUS
<1>2. s \in Surjection(1 .. Len(s), ToSet(s))
  <2>1. s \in [1 .. Len(s) -> ToSet(s)]
    BY <1>1 DEF ToSet
  <2> QED BY <1>1, <2>1 DEF Surjection, ToSet
<1>3. IsFiniteSet(1 .. Len(s))
  BY <1>1, FS_Interval
<1> QED BY <1>1, <1>2, <1>3, FS_Surjection DEF ToSet

LEMMA TakeProperties ==
    ASSUME NEW T, NEW s \in Seq(T), NEW k \in Nat \ {0}
    PROVE  /\ Take(s, k) \in Seq(T) /\ Len(Take(s, k)) = IF k < Len(s) THEN k ELSE Len(s)
           /\ \A i \in 1 .. Len(Take(s, k)) : Take(s, k)[i] = s[i]
           /\ IsInjective(s) => IsInjective(Take(s, k))
<1>1. Len(s) \in Nat /\ DOMAIN s = 1 .. Len(s)
  OBVIOUS
<1>2. CASE k < Len(s)
  <2>1. /\ SubSeq(s, 1, k) \in Seq(T) /\ Len(SubSeq(s, 1, k)) = k
        /\ \A i \in 1 .. k : SubSeq(s, 1, k)[i] = s[i]
    BY <1>1, <1>2
  <2>2. Take(s, k) = SubSeq(s, 1, k)
    BY <1>2 DEF Take
  <2>3. DOMAIN SubSeq(s, 1, k) = 1 .. k /\ 1 .. k \subseteq DOMAIN s
    BY <1>1, <1>2, <2>1
  <2> QED BY <1>2, <2>1, <2>2, <2>3 DEF IsInjective
<1>3. CASE ~ (k < Len(s))
  BY <1>1, <1>3 DEF Take
<1> QED BY <1>2, <1>3

LEMMA LaneIsLane ==
    ASSUME NEW S \in SUBSET Ids, IsFiniteSet(S), NEW B, Orders(B, S), NEW k \in Nat \ {0}
    PROVE  Lane(Take(Listed(S, B), k))
<1>1. Listed(S, B) \in Seq(S) /\ IsInjective(Listed(S, B))
  BY Listing
<1>2. Listed(S, B) \in Seq(Ids)
  BY <1>1, SeqMonotonic
<1> HIDE DEF Take
<1> QED BY <1>1, <1>2, TakeProperties DEF Lane

LEMMA FusionIsSound ==
    ASSUME NEW dense, NEW sparse, Lane(dense), Lane(sparse), NEW k \in Nat \ {0}
    PROVE  /\ Lane(RRFFuse(dense, sparse, k))
           /\ FusionRespects(dense, sparse, k, RRFFuse(dense, sparse, k))
<1> DEFINE all == ToSet(dense) \cup ToSet(sparse)
           B == ByScore(dense, sparse, all)
           L == Listed(all, B)
           n == Cardinality(all)
           res == Take(L, k)
           ahead(lane, a, b) == RankIn(lane, a) > 0 /\ (RankIn(lane, b) = 0 \/ RankIn(lane, a) < RankIn(lane, b))
           level(lane, a, b) == RankIn(lane, a) = 0 /\ RankIn(lane, b) = 0
           dominates(a, b)   == \/ ahead(dense, a, b) /\ (ahead(sparse, a, b) \/ level(sparse, a, b))
                                \/ level(dense, a, b) /\ ahead(sparse, a, b)
<1>1. RRFFuse(dense, sparse, k) = res
  BY DEF RRFFuse
<1>2. dense \in Seq(Ids) /\ sparse \in Seq(Ids) /\ dense \in Seq(Int) /\ sparse \in Seq(Int) /\ Ids \subseteq Int
  <2>1. dense \in Seq(Ids) /\ sparse \in Seq(Ids)
    BY DEF Lane
  <2>2. Ids \subseteq Int
    BY SemanticAssumption
  <2> QED BY <2>1, <2>2, SeqMonotonic
<1>3. IsFiniteSet(all) /\ all \in SUBSET Ids /\ all \subseteq Int
  <2>1. IsFiniteSet(ToSet(dense)) /\ ToSet(dense) \subseteq Ids
    BY <1>2, ElementsAreFinite
  <2>2. IsFiniteSet(ToSet(sparse)) /\ ToSet(sparse) \subseteq Ids
    BY <1>2, ElementsAreFinite
  <2> QED BY <1>2, <2>1, <2>2, FS_Union
<1> HIDE DEF all
<1>4. Orders(B, all)
  BY <1>2, <1>3, ByScoreOrders
<1>5. /\ L \in Seq(all) /\ Len(L) = n /\ ToSet(L) = all /\ IsInjective(L)
      /\ \A i, j \in 1 .. n : i < j => <<L[i], L[j]>> \in B
  <2> HIDE DEF B
  <2> QED BY <1>3, <1>4, Listing
<1>6. n \in Nat /\ DOMAIN L = 1 .. n
  BY <1>3, <1>5, FS_CardinalityType
<1>7. \A a, b \in all : <<a, b>> \in B <=>
         \/ Greater(Score(dense, sparse, a), Score(dense, sparse, b))
         \/ ~ Greater(Score(dense, sparse, b), Score(dense, sparse, a)) /\ a < b
  BY DEF ByScore
<1> HIDE DEF B, L, n
<1>8. /\ res \in Seq(all) /\ Len(res) = IF k < n THEN k ELSE n
      /\ \A i \in 1 .. Len(res) : res[i] = L[i]
      /\ IsInjective(res)
  BY <1>5, TakeProperties
<1> HIDE DEF res
<1>9. Lane(res) /\ res \in Seq(Int)
  <2>1. res \in Seq(Ids) /\ res \in Seq(Int)
    BY <1>3, <1>8, SeqMonotonic
  <2> QED BY <1>8, <2>1 DEF Lane
<1>10. ToSet(res) \subseteq all
  BY <1>8, ElementsAreFinite
<1>11. Len(res) = IF k < Cardinality(all) THEN k ELSE Cardinality(all)
  BY <1>8 DEF n
<1>12. ASSUME NEW a \in all, NEW b \in all, dominates(a, b), RankIn(res, b) > 0
       PROVE  RankIn(res, a) > 0 /\ RankIn(res, a) < RankIn(res, b)
  <2>1. Greater(Score(dense, sparse, a), Score(dense, sparse, b))
    <3> DEFINE x == Share(dense, a)  y == Share(dense, b)
               u == Share(sparse, a)  v == Share(sparse, b)
    <3>1. x \in Fraction /\ y \in Fraction /\ u \in Fraction /\ v \in Fraction
      BY <1>2, Shares
    <3>2. /\ ahead(dense, a, b) => Greater(x, y)
          /\ level(dense, a, b) => x = y
          /\ ahead(sparse, a, b) => Greater(u, v)
          /\ level(sparse, a, b) => u = v
      BY <1>2, Shares
    <3>3. \/ Greater(x, y) /\ (Greater(u, v) \/ u = v)
          \/ x = y /\ Greater(u, v)
      BY <1>12, <3>2
    <3> HIDE DEF x, y, u, v
    <3>4. \/ Greater(x, y) /\ ~ Greater(v, u)
          \/ ~ Greater(y, x) /\ Greater(u, v)
      BY <3>1, <3>3, GreaterIsOrder
    <3>5. Greater(Plus(x, u), Plus(y, v))
      BY <3>1, <3>4, PlusGreater
    <3> QED BY <3>5 DEF Score, x, y, u, v
  <2>2. ~ Greater(Score(dense, sparse, b), Score(dense, sparse, a))
    BY <1>2, <2>1, ScoreType, GreaterIsOrder
  <2>3. b \in ToSet(res)
    BY <1>9, <1>12, RankType
  <2>4. PICK j \in 1 .. Len(res) : res[j] = b
    BY <2>3, <1>9 DEF ToSet
  <2>5. PICK i \in 1 .. n : L[i] = a
    BY <1>5, <1>6 DEF ToSet
  <2>6. Len(res) \in Nat /\ j \in 1 .. n /\ L[j] = b /\ 1 .. Len(res) = DOMAIN res
    BY <1>6, <1>8, <2>4
  <2>7. i < j
    <3>1. i # j
      <4>1. CASE a = b
        BY <2>1, <2>2, <4>1
      <4>2. CASE a # b
        BY <2>5, <2>6, <4>2
      <4> QED BY <4>1, <4>2
    <3>2. ASSUME j < i PROVE FALSE
      <4>1. <<b, a>> \in B
        BY <1>5, <2>5, <2>6, <3>2
      <4> QED BY <1>7, <2>1, <2>2, <4>1
    <3> QED BY <1>6, <2>6, <3>1, <3>2
  <2>8. i \in 1 .. Len(res) /\ res[i] = a
    BY <1>6, <1>8, <2>4, <2>5, <2>6, <2>7
  <2>9. RankIn(res, b) = j /\ RankIn(res, a) = i
    BY <1>8, <2>4, <2>6, <2>8, RankOf
  <2> QED BY <2>6, <2>7, <2>8, <2>9
<1>13. FusionRespects(dense, sparse, k, res)
  BY <1>10, <1>11, <1>12 DEF FusionRespects, all
<1> QED BY <1>1, <1>9, <1>13

-----------------------------------------------------------------------------
(* What a search finds are the records of its tenant, in lanes.            *)

LEMMA SearchCall ==
    ASSUME NEW c \in Calls, c.op = "search"
    PROVE  /\ c.text \in Text /\ Text \subseteq Int /\ c.mode \in {"dense", "sparse", "hybrid"}
           /\ c.k \in Nat \ {0} /\ c.rerank \in Nat \ {0}
<1>1. c.text \in Text /\ c.mode \in {"dense", "sparse", "hybrid"} /\ {c.k, c.rerank} \subseteq Nat \ {0}
  BY SemanticAssumption
<1>2. Text \subseteq Int
  BY RankingAssumption DEF Text
<1> QED BY <1>1, <1>2

StoredKeys == { k \in Keys : rows[k] # None }

LEMMA CandidatesAreRecords ==
    ASSUME StoreInv, IsFiniteSet(StoredKeys), NEW c \in Calls
    PROVE  LET cands == Candidates(c) IN
           /\ DOMAIN cands \in SUBSET Ids /\ IsFiniteSet(DOMAIN cands)
           /\ cands \in [DOMAIN cands -> Row]
<1> DEFINE cands == Candidates(c)
           D == DOMAIN cands
           f == [i \in D |-> KeyOf(c, i)]
<1>1. \A i \in D : i \in Ids /\ rows[KeyOf(c, i)] # None
  BY DEF Candidates
<1>2. cands = [i \in D |-> rows[KeyOf(c, i)]]
  BY DEF Candidates
<1> HIDE DEF cands, D
<1>3. \A i \in D : KeyOf(c, i) \in Keys
  BY <1>1, KeyOfType
<1>4. \A i \in D : rows[KeyOf(c, i)] \in Row
  BY <1>1, <1>3 DEF StoreInv
<1>5. f \in Injection(D, StoredKeys)
  <2>1. f \in [D -> StoredKeys]
    BY <1>1, <1>3 DEF StoredKeys
  <2>2. \A i, j \in D : f[i] = f[j] => i = j
    BY KeysDiffer
  <2> QED BY <2>1, <2>2 DEF Injection, IsInjective
<1> HIDE DEF f
<1>6. IsFiniteSet(D)
  BY <1>5, FS_Injection
<1> QED BY <1>1, <1>2, <1>4, <1>6 DEF cands, D

LEMMA LanesOfRecords ==
    ASSUME NEW c \in Calls, c.op = "search", NEW D \in SUBSET Ids, IsFiniteSet(D),
           NEW cands \in [D -> Row], NEW k \in Nat \ {0}
    PROVE  Lane(DenseLane(c, cands)) /\ Lane(SparseLane(c, cands, k))
<1>1. /\ c.text \in Text /\ Text \subseteq Int /\ c.rerank \in Nat \ {0} /\ Ids \subseteq Int
  BY SearchCall, SemanticAssumption
<1>2. Vectors(cands) \in [D -> Text] /\ Contents(cands) \in [D -> Text]
  BY DEF Vectors, Contents, Row
<1>3. Lane(DenseLane(c, cands))
  <2> DEFINE v == Vectors(cands)
             key == [i \in D |-> distance(c.text, v[i])]
  <2>1. key \in [D -> Int]
    <3>1. \A i \in D : v[i] \in Int /\ c.text \in Int
      BY <1>1, <1>2
    <3> HIDE DEF v
    <3> QED BY <3>1 DEF distance
  <2>2. DOMAIN v = D
    BY <1>2
  <2>3. DenseLane(c, cands) = Take(Listed(D, ByKey(D, key)), c.rerank)
    BY <2>2 DEF DenseLane, denseLane
  <2> HIDE DEF key
  <2>4. Orders(ByKey(D, key), D)
    BY <1>1, <2>1, ByKeyOrders
  <2> QED BY <1>1, <2>3, <2>4, LaneIsLane
<1>4. ASSUME NEW M \in SUBSET D PROVE Lane(sparseLane(Contents(cands), M, c.text, k))
  <2> DEFINE t == Contents(cands)
             key == [i \in M |-> - TermOverlap(c.text, t[i])]
  <2>1. \A i \in M : TermOverlap(c.text, t[i]) \in Nat
    <3>1. ASSUME NEW i \in M PROVE TermOverlap(c.text, t[i]) \in Nat
      <4>1. IsFiniteSet(Terms[c.text])
        BY <1>1, RankingAssumption DEF Text
      <4>2. IsFiniteSet(Terms[c.text] \cap Terms[t[i]])
        BY <4>1, FS_Subset
      <4> QED BY <4>2, FS_CardinalityType DEF TermOverlap
    <3> QED BY <3>1
  <2>2. key \in [M -> Int]
    BY <2>1
  <2>3. sparseLane(t, M, c.text, k) = Take(Listed(M, ByKey(M, key)), k)
    BY DEF sparseLane
  <2> HIDE DEF key
  <2>4. M \in SUBSET Ids /\ M \subseteq Int /\ IsFiniteSet(M)
    BY <1>1, FS_Subset
  <2>5. Orders(ByKey(M, key), M)
    BY <2>2, <2>4, ByKeyOrders
  <2> QED BY <2>3, <2>4, <2>5, LaneIsLane
<1>5. Lane(SparseLane(c, cands, k))
  <2>1. anyTerm(Contents(cands), c.text) \in SUBSET D /\ allTerms(Contents(cands), c.text) \in SUBSET D
    BY <1>2 DEF anyTerm, allTerms
  <2> QED BY <1>4, <2>1 DEF SparseLane
<1> QED BY <1>3, <1>5

LEMMA DenseHitsAreLanes ==
    ASSUME StoreInv, IsFiniteSet(StoredKeys), NEW c \in Calls, c.op = "search", NEW lane \in DenseHits(c)
    PROVE  Lane(lane)
<1> DEFINE D == DOMAIN Candidates(c)
           n == Cardinality(D)
<1>1. D \in SUBSET Ids /\ IsFiniteSet(D) /\ n \in Nat
  BY CandidatesAreRecords, FS_CardinalityType
<1>2. DOMAIN Vectors(Candidates(c)) = D
  BY DEF Vectors
<1>3. PICK p \in SetToSeqs(D) : lane = Take(p, c.k)
  BY <1>2 DEF DenseHits
<1> HIDE DEF D
<1>4. p \in [1 .. n -> D] /\ \A i, j \in 1 .. n : i # j => p[i] # p[j]
  BY <1>3 DEF SetToSeqs
<1> HIDE DEF n
<1>5. p \in Seq(D) /\ IsInjective(p)
  BY <1>1, <1>4 DEF IsInjective
<1>6. p \in Seq(Ids) /\ c.k \in Nat \ {0}
  BY <1>1, <1>5, SeqMonotonic, SearchCall
<1> QED BY <1>3, <1>5, <1>6, TakeProperties DEF Lane

\* Hits that are a list's records, in its order, all of them or those in S.
LEMMA HitsAreRanked ==
    ASSUME NEW c \in Calls, NEW fused, Lane(fused)
    PROVE  LET all == [i \in DOMAIN fused |-> KeyOf(c, fused[i])] IN
           /\ all \in Seq(Keys) /\ Len(all) = Len(fused)
           /\ \A i \in 1 .. Len(all) : all[i][1] = c.tenant /\ RankIn(fused, all[i][2]) = i
<1> DEFINE all == [i \in DOMAIN fused |-> KeyOf(c, fused[i])]
           n == Len(fused)
<1>1. fused \in Seq(Ids) /\ IsInjective(fused) /\ n \in Nat /\ DOMAIN fused = 1 .. n
  BY DEF Lane
<1>2. Len(all) = n /\ all \in Seq(Keys)
  <2>1. \A i \in 1 .. n : KeyOf(c, fused[i]) \in Keys
    BY <1>1, KeyOfType
  <2> QED BY <1>1, <2>1
<1>3. \A i \in 1 .. n : all[i][1] = c.tenant /\ all[i][2] = fused[i]
  BY <1>1 DEF KeyOf
<1>4. \A i \in 1 .. n : RankIn(fused, fused[i]) = i
  BY <1>1, RankOf
<1> HIDE DEF all
<1> QED BY <1>2, <1>3, <1>4 DEF all

LEMMA KeptHitsAreRanked ==
    ASSUME NEW c \in Calls, NEW fused, Lane(fused), NEW S,
           NEW hits, hits = Keep([i \in DOMAIN fused |-> KeyOf(c, fused[i])], S)
    PROVE  /\ \A i \in 1 .. Len(hits) : hits[i][1] = c.tenant
           /\ \A i, j \in 1 .. Len(hits) : i < j => RankIn(fused, hits[i][2]) < RankIn(fused, hits[j][2])
<1> DEFINE all == [i \in DOMAIN fused |-> KeyOf(c, fused[i])]
           n == Len(fused)
           P == { i \in 1 .. n : all[i] \in S }
<1>0. n \in Nat
  BY DEF Lane
<1>1. /\ all \in Seq(Keys) /\ Len(all) = n
      /\ \A i \in 1 .. n : all[i][1] = c.tenant /\ RankIn(fused, all[i][2]) = i
  <2>1. /\ all \in Seq(Keys) /\ Len(all) = Len(fused)
        /\ \A i \in 1 .. Len(all) : all[i][1] = c.tenant /\ RankIn(fused, all[i][2]) = i
    BY HitsAreRanked
  <2> HIDE DEF all
  <2> QED BY <2>1
<1>2. P \in SUBSET (1 .. n) /\ hits = Selection(all, P)
  BY <1>1 DEF Keep
<1> HIDE DEF all, n, P
<1>3. /\ Len(hits) = Cardinality(P) /\ Cardinality(P) \in Nat
      /\ \A i \in P : hits[Upto(P, i)] = all[i]
  <2>1. P \in SUBSET (1 .. Len(all))
    BY <1>1, <1>2
  <2>2. Len(Selection(all, P)) = Cardinality(P) /\ \A i \in P : Selection(all, P)[Upto(P, i)] = all[i]
    BY <1>1, <2>1, SelectionProperties
  <2>3. Cardinality(P) \in Nat
    BY <1>0, <1>2, UptoInRange
  <2> QED BY <1>2, <2>2, <2>3
<1>4. ASSUME NEW a \in 1 .. Len(hits) PROVE \E i \in P : Upto(P, i) = a
  <2>1. \A j \in 1 .. Cardinality(P) : \E i \in P : Upto(P, i) = j
    BY <1>0, <1>2, UptoNumbers
  <2> QED BY <1>3, <2>1
<1>5. ASSUME NEW a \in 1 .. Len(hits) PROVE hits[a][1] = c.tenant
  <2>1. PICK i \in P : Upto(P, i) = a
    BY <1>4
  <2> QED BY <1>1, <1>2, <1>3, <2>1
<1>6. ASSUME NEW a \in 1 .. Len(hits), NEW b \in 1 .. Len(hits), a < b
      PROVE  RankIn(fused, hits[a][2]) < RankIn(fused, hits[b][2])
  <2>1. PICK i \in P : Upto(P, i) = a
    BY <1>4
  <2>2. PICK j \in P : Upto(P, j) = b
    BY <1>4
  <2>3. i \in 1 .. n /\ j \in 1 .. n
    BY <1>2
  <2>4. ~ (j <= i)
    <3>1. i # j
      BY <1>6, <2>1, <2>2
    <3>2. j < i => b < a
      BY <1>0, <1>2, <2>1, <2>2, UptoIncreases
    <3> QED BY <1>3, <1>6, <2>3, <3>1, <3>2
  <2>5. RankIn(fused, hits[a][2]) = i /\ RankIn(fused, hits[b][2]) = j
    BY <1>1, <1>3, <2>1, <2>2, <2>3
  <2> QED BY <1>0, <2>3, <2>4, <2>5
<1> QED BY <1>5, <1>6

-----------------------------------------------------------------------------
(* The invariant of the searches.                                          *)

\* The locks a transaction holds are finitely many; a search of several
\* statements carries what its earlier ones found.
Searching(me) ==
    /\ me.pc = "tx" => IsFiniteSet(me.locks)
    /\ me.pc \in {"lane", "fetch"} => me.call \in Calls /\ me.call.op = "search"
    /\ me.pc = "lane" => me.call.mode = "hybrid" /\ Lane(me.dense)
    /\ me.pc = "fetch" => /\ Lane(me.fused)
                          /\ me.call.mode = "hybrid" => FusionRespects(me.dense, me.sparse, me.call.k, me.fused)

SearchInv ==
    /\ IsFiniteSet(StoredKeys)
    /\ \A s \in Sessions : Searching(sess[s])
    /\ SearchIsSound

\* A step of one session, that may store records and may answer a search.
LEMMA SearchStep ==
    ASSUME SearchInv, NEW s \in Sessions, \A o \in Sessions \ {s} : sess'[o] = sess[o],
           Searching(sess'[s]), IsFiniteSet(StoredKeys'), SearchIsSound'
    PROVE  SearchInv'
<1>1. ASSUME NEW o \in Sessions PROVE Searching(sess'[o])
  BY DEF SearchInv
<1>2. (\A o \in Sessions : Searching(sess[o]))'
  BY <1>1 DEF Searching
<1> QED BY <1>2 DEF SearchInv

LEMMA FoundStays ==
    ASSUME SearchInv, found' = found
    PROVE  SearchIsSound'
BY DEF SearchInv, SearchIsSound

LEMMA StoredStay ==
    ASSUME SearchInv, rows' = rows
    PROVE  IsFiniteSet(StoredKeys')
<1>1. StoredKeys' = StoredKeys
  BY DEF StoredKeys
<1> QED BY <1>1 DEF SearchInv

\* A step outside searches that leaves a session free, embedding or storing.
LEMMA UnrelatedStep ==
    ASSUME Inv, SearchInv, NEW s \in Sessions, NEW v, sess' = [sess EXCEPT ![s] = v],
           v.pc \in {"idle", "get", "embed", "put", "run", "batch"},
           IsFiniteSet(StoredKeys'), found' = found
    PROVE  SearchInv'
<1>1. sess'[s] = v /\ \A o \in Sessions \ {s} : sess'[o] = sess[o]
  BY DEF Inv, SessInv
<1>2. Searching(v)
  BY DEF Searching
<1> QED BY <1>1, <1>2, FoundStays, SearchStep

LEMMA EmbeddingKeepsSearch ==
    ASSUME Inv, SearchInv, NEW s \in Sessions,
           EmbedGet(s) \/ EmbedHit(s) \/ EmbedInner(s) \/ EmbedFails(s) \/ EmbedPut(s) \/ Reject(s)
    PROVE  SearchInv'
<1> DEFINE me == sess[s]
<1>1. rows' = rows /\ found' = found /\ me \in EmbedCall
  <2>1. rows' = rows /\ found' = found /\ me.pc \in {"get", "embed", "put", "run"}
    BY DEF EmbedGet, EmbedHit, EmbedInner, EmbedFails, EmbedPut, Reject
  <2> QED BY <2>1, Embeds
<1>2. ASSUME NEW v, sess' = [sess EXCEPT ![s] = v],
             v.pc \in {"idle", "get", "embed", "put", "run"}
      PROVE  SearchInv'
  BY <1>1, <1>2, StoredStay, UnrelatedStep
<1>3. CASE EmbedGet(s)
  <2>1. me.pc = "get" /\ \E out, miss : sess' = [sess EXCEPT ![s].out = out, ![s].miss = miss]
    <3> DEFINE t  == me.texts[Len(me.out) + 1]
               at == Cached(t)
    <3>1. CASE at > 0
      <4>1. sess' = [sess EXCEPT ![s].out = Append(me.out, cache[at].vec)]
        BY <1>3, <3>1 DEF EmbedGet
      <4>2. [me EXCEPT !.out = Append(me.out, cache[at].vec)]
              = [me EXCEPT !.out = Append(me.out, cache[at].vec), !.miss = me.miss]
        BY <1>1 DEF EmbedCall
      <4>3. sess' = [sess EXCEPT ![s].out = Append(me.out, cache[at].vec), ![s].miss = me.miss]
        BY <4>1, <4>2
      <4> QED BY <1>3, <4>3 DEF EmbedGet
    <3>2. CASE ~ (at > 0)
      BY <1>3, <3>2 DEF EmbedGet
    <3> QED BY <3>1, <3>2
  <2>2. PICK out, miss : sess' = [sess EXCEPT ![s].out = out, ![s].miss = miss]
    BY <2>1
  <2> DEFINE v == [me EXCEPT !.out = out, !.miss = miss]
  <2>3. v.pc = "get"
    BY <1>1, <2>1 DEF EmbedCall
  <2>4. sess' = [sess EXCEPT ![s] = v]
    BY <2>2
  <2> HIDE DEF v
  <2> QED BY <1>2, <2>3, <2>4
<1>4. CASE EmbedHit(s)
  <2> DEFINE pc == IF me.miss = << >> THEN "run" ELSE "embed"
             v  == [me EXCEPT !.pc = pc]
  <2>1. sess' = [sess EXCEPT ![s] = v]
    BY <1>4 DEF EmbedHit
  <2>2. v.pc = pc
    BY <1>1 DEF EmbedCall
  <2> HIDE DEF v
  <2> QED BY <1>2, <2>1, <2>2
<1>5. CASE EmbedInner(s)
  <2>1. PICK vecs : sess' = [sess EXCEPT ![s].pc = "put", ![s].vecs = vecs]
    BY <1>5 DEF EmbedInner
  <2> DEFINE v == [me EXCEPT !.pc = "put", !.vecs = vecs]
  <2>2. v.pc = "put"
    BY <1>1 DEF EmbedCall
  <2>3. sess' = [sess EXCEPT ![s] = v]
    BY <2>1
  <2> HIDE DEF v
  <2> QED BY <1>2, <2>2, <2>3
<1>6. CASE EmbedFails(s) \/ Reject(s)
  <2>1. sess' = [sess EXCEPT ![s] = Idle] /\ Idle.pc = "idle"
    BY <1>6, KindsDiffer DEF EmbedFails, Reject
  <2> QED BY <1>2, <2>1
<1>7. CASE EmbedPut(s)
  <2> DEFINE pc == IF Len(me.miss) = 1 THEN "run" ELSE "put"
  <2>1. PICK miss, vecs, out :
          sess' = [sess EXCEPT ![s].miss = miss, ![s].vecs = vecs, ![s].out = out, ![s].pc = pc]
    BY <1>7 DEF EmbedPut
  <2> DEFINE v == Update(me, pc, out, miss, vecs)
  <2>2. v.pc = pc
    BY <1>1, EmbedCallUpdate
  <2>3. sess' = [sess EXCEPT ![s] = v]
    BY <2>1 DEF Update
  <2> HIDE DEF v
  <2> QED BY <1>2, <2>2, <2>3
<1> QED BY <1>3, <1>4, <1>5, <1>6, <1>7

LEMMA StoredGrow ==
    ASSUME SearchInv, NEW F, IsFiniteSet(F),
           \A k \in Keys : rows'[k] # None => rows[k] # None \/ k \in F
    PROVE  IsFiniteSet(StoredKeys')
<1>1. StoredKeys' \subseteq StoredKeys \cup F
  BY DEF StoredKeys
<1>2. IsFiniteSet(StoredKeys \cup F)
  BY FS_Union DEF SearchInv
<1> QED BY <1>1, <1>2, FS_Subset

LEMMA StoresKeepSearch ==
    ASSUME Inv, SearchInv, NEW s \in Sessions,
           Begin(s) \/ MemoryUpsert(s) \/ MemoryStore(s) \/ Delete(s) \/ Expire(s)
    PROVE  SearchInv'
<1> DEFINE me == sess[s]
<1>1. Idle.pc = "idle" /\ rows \in [Keys -> Row \cup {None}]
  BY KindsDiffer DEF Inv, StoreInv
<1>2. CASE Begin(s)
  <2>1. PICK call \in Calls :
          /\ sess' = IF Refused(call) THEN sess
                     ELSE [sess EXCEPT ![s] =
                             [pc |-> "get", call |-> call, texts |-> ToEmbed(call),
                              out |-> << >>, miss |-> << >>, vecs |-> << >>]]
          /\ rows' = rows /\ found' = found
    BY <1>2 DEF Begin
  <2>2. CASE Refused(call)
    <3>1. sess' = sess /\ Searching(sess'[s])
      BY <2>1, <2>2 DEF SearchInv
    <3> QED BY <2>1, <3>1, StoredStay, FoundStays, SearchStep
  <2>3. CASE ~ Refused(call)
    <3> DEFINE v == [pc |-> "get", call |-> call, texts |-> ToEmbed(call),
                     out |-> << >>, miss |-> << >>, vecs |-> << >>]
    <3>1. v.pc = "get" /\ sess' = [sess EXCEPT ![s] = v]
      BY <2>1, <2>3
    <3> HIDE DEF v
    <3> QED BY <2>1, <3>1, StoredStay, UnrelatedStep
  <2> QED BY <2>2, <2>3
<1>3. CASE MemoryUpsert(s)
  <2> DEFINE v == [pc |-> "batch", call |-> me.call, vecs |-> BatchVectors(me), i |-> 1]
  <2>1. /\ sess' = [sess EXCEPT ![s] = v] \/ sess' = [sess EXCEPT ![s] = Idle]
        /\ rows' = rows /\ found' = found
    BY <1>3 DEF MemoryUpsert
  <2>2. v.pc = "batch"
    OBVIOUS
  <2> HIDE DEF v
  <2> QED BY <1>1, <2>1, <2>2, StoredStay, UnrelatedStep
<1>4. CASE MemoryStore(s)
  <2> DEFINE r == me.call.recs[me.i]
             k == KeyOf(me.call, r.id)
             new == Stored(r, me.vecs[me.i], rows[k], now)
             stored == [rows EXCEPT ![k] = new]
             v == IF me.i = Len(me.call.recs) THEN Idle ELSE [me EXCEPT !.i = @ + 1]
  <2>1. /\ me.pc = "batch" /\ sess' = [sess EXCEPT ![s] = v] /\ found' = found
        /\ rows' = [x \in Keys |-> IF x \in Targets(me.call, r) THEN Superseded(stored[x], now)
                                  ELSE stored[x]]
    BY <1>4 DEF MemoryStore
  <2>2. v.pc \in {"idle", "batch"}
    <3>1. me \in BatchCall
      BY <2>1, BatchFacts
    <3>2. [me EXCEPT !.i = @ + 1].pc = "batch"
      BY <3>1 DEF BatchCall
    <3> QED BY <1>1, <3>2
  <2> HIDE DEF v, r, k, new
  <2>3. \A x \in Keys : x # k => stored[x] = rows[x]
    BY <1>1
  <2>4. \A x \in Keys : rows'[x] # None => rows[x] # None \/ x \in {k}
    <3>1. Superseded(None, now) = None
      BY DEF Superseded
    <3> QED BY <2>1, <2>3, <3>1
  <2>5. IsFiniteSet(StoredKeys')
    BY <2>4, FS_Singleton, StoredGrow
  <2> QED BY <2>1, <2>2, <2>5, UnrelatedStep
<1>5. CASE Delete(s) \/ Expire(s)
  <2>1. sess' = [sess EXCEPT ![s] = Idle] /\ found' = found
    BY <1>5 DEF Delete, Expire
  <2>2. \A k \in Keys : rows'[k] # None => rows[k] # None
    <3>1. CASE Delete(s)
      BY <1>1, <3>1 DEF Delete
    <3>2. CASE Expire(s)
      <4>1. PICK hit \in SUBSET { k \in Keys : rows[k] # None } :
              rows' = [k \in Keys |-> IF k \in hit THEN Expired(me.call, rows[k]) ELSE rows[k]]
        BY <3>2, ExpireHits
      <4> QED BY <4>1
    <3> QED BY <1>5, <3>1, <3>2
  <2>3. IsFiniteSet(StoredKeys')
    BY <2>2, FS_EmptySet, StoredGrow
  <2> QED BY <1>1, <2>1, <2>3, UnrelatedStep
<1> QED BY <1>2, <1>3, <1>4, <1>5

\* A search's call, and the answer of one that leaves the session free.
LEMMA RunningSearch ==
    ASSUME Inv, NEW s \in Sessions, sess[s].pc = "run", sess[s].call.op = "search"
    PROVE  sess[s].call \in Calls
BY Embeds, EmbedCallTypes

LEMMA AnswerStep ==
    ASSUME Inv, SearchInv, NEW s \in Sessions, sess' = [sess EXCEPT ![s] = Idle], rows' = rows,
           SearchIsSound'
    PROVE  SearchInv'
<1>1. sess'[s] = Idle /\ \A o \in Sessions \ {s} : sess'[o] = sess[o]
  BY DEF Inv, SessInv
<1>2. Searching(Idle)
  BY KindsDiffer DEF Searching
<1> QED BY <1>1, <1>2, StoredStay, SearchStep

LEMMA SearchDenseKeepsSearch ==
    ASSUME Inv, SearchInv, NEW s \in Sessions, SearchDense(s)
    PROVE  SearchInv'
<1> DEFINE call == sess[s].call
<1>1. /\ sess[s].pc = "run" /\ call.op = "search" /\ call.mode = "dense"
      /\ sess' = [sess EXCEPT ![s] = Idle] /\ rows' = rows
  BY DEF SearchDense
<1>2. PICK lane \in DenseHits(call) :
        found' = Found(call, lane, << >>, lane, [i \in DOMAIN lane |-> KeyOf(call, lane[i])])
  BY DEF SearchDense
<1>3. call \in Calls
  BY <1>1, RunningSearch
<1>4. Lane(lane)
  BY <1>1, <1>3, DenseHitsAreLanes DEF Inv, SearchInv
<1> DEFINE all == [i \in DOMAIN lane |-> KeyOf(call, lane[i])]
<1>5. /\ \A i \in 1 .. Len(all) : all[i][1] = call.tenant
      /\ \A i, j \in 1 .. Len(all) : i < j => RankIn(lane, all[i][2]) < RankIn(lane, all[j][2])
  <2>1. /\ Len(all) \in Nat
        /\ \A i \in 1 .. Len(all) : all[i][1] = call.tenant /\ RankIn(lane, all[i][2]) = i
    BY <1>3, <1>4, HitsAreRanked DEF Lane
  <2> HIDE DEF all
  <2> QED BY <2>1
<1>6. found'.mode = "dense" /\ found'.tenant = call.tenant /\ found'.fused = lane /\ found'.hits = all
  BY <1>1, <1>2 DEF Found
<1> HIDE DEF all
<1>7. SearchIsSound'
  BY <1>5, <1>6 DEF SearchIsSound
<1> QED BY <1>1, <1>7, AnswerStep

LEMMA MemoryRankKeepsSearch ==
    ASSUME Inv, SearchInv, NEW s \in Sessions, MemoryRank(s)
    PROVE  SearchInv'
<1> DEFINE call   == sess[s].call
           cands  == Candidates(call)
           hybrid == call.mode = "hybrid"
           dense  == IF hybrid THEN DenseLane(call, cands) ELSE << >>
           sparse == SparseLane(call, cands, IF hybrid THEN call.rerank ELSE call.k)
           fused  == IF hybrid THEN RRFFuse(dense, sparse, call.k) ELSE sparse
           all    == [i \in DOMAIN fused |-> KeyOf(call, fused[i])]
<1>1. /\ sess[s].pc = "run" /\ call.op = "search"
      /\ found' = Found(call, dense, sparse, fused, all)
      /\ sess' = [sess EXCEPT ![s] = Idle] /\ rows' = rows
  BY DEF MemoryRank, Ready
<1>2. call \in Calls
  BY <1>1, RunningSearch
<1>3. call.k \in Nat \ {0} /\ call.rerank \in Nat \ {0}
  BY <1>1, <1>2, SearchCall
<1>4. Lane(DenseLane(call, cands)) /\ Lane(sparse)
  <2>1. DOMAIN cands \in SUBSET Ids /\ IsFiniteSet(DOMAIN cands) /\ cands \in [DOMAIN cands -> Row]
    BY <1>2, CandidatesAreRecords DEF Inv, SearchInv
  <2> HIDE DEF cands
  <2> QED BY <1>1, <1>2, <1>3, <2>1, LanesOfRecords
<1>5. Lane(fused) /\ (hybrid => FusionRespects(dense, sparse, call.k, fused))
  BY <1>3, <1>4, FusionIsSound
<1>6. /\ found'.mode = call.mode /\ found'.tenant = call.tenant /\ found'.k = call.k
      /\ found'.dense = dense /\ found'.sparse = sparse /\ found'.fused = fused /\ found'.hits = all
  BY <1>1 DEF Found
<1> HIDE DEF dense, sparse, fused
<1>7. /\ \A i \in 1 .. Len(all) : all[i][1] = call.tenant
      /\ \A i, j \in 1 .. Len(all) : i < j => RankIn(fused, all[i][2]) < RankIn(fused, all[j][2])
  <2> HIDE DEF call
  <2>1. /\ all \in Seq(Keys)
        /\ \A i \in 1 .. Len(all) : all[i][1] = call.tenant /\ RankIn(fused, all[i][2]) = i
    BY <1>2, <1>5, HitsAreRanked
  <2> HIDE DEF all
  <2> QED BY <2>1
<1> HIDE DEF all
<1>8. SearchIsSound'
  BY <1>5, <1>6, <1>7 DEF SearchIsSound
<1> QED BY <1>1, <1>8, AnswerStep

LEMMA PgDenseIDsKeepsSearch ==
    ASSUME Inv, SearchInv, NEW s \in Sessions, PgDenseIDs(s)
    PROVE  SearchInv'
<1> DEFINE call == sess[s].call
           lane == DenseLane(call, Candidates(call))
           v    == [pc |-> "lane", call |-> call, dense |-> lane]
<1>1. /\ sess[s].pc = "run" /\ call.op = "search" /\ call.mode = "hybrid"
      /\ sess' = [sess EXCEPT ![s] = v] /\ rows' = rows /\ found' = found
  BY DEF PgDenseIDs, Ready
<1>2. call \in Calls
  BY <1>1, RunningSearch
<1>3. Lane(lane)
  <2> DEFINE cands == Candidates(call)
  <2>1. DOMAIN cands \in SUBSET Ids /\ IsFiniteSet(DOMAIN cands) /\ cands \in [DOMAIN cands -> Row]
    BY <1>2, CandidatesAreRecords DEF Inv, SearchInv
  <2>2. call.k \in Nat \ {0}
    BY <1>1, <1>2, SearchCall
  <2> HIDE DEF cands
  <2>3. Lane(DenseLane(call, cands))
    BY <1>1, <1>2, <2>1, <2>2, LanesOfRecords
  <2> QED BY <2>3 DEF cands
<1>4. v.pc = "lane" /\ v.call = call /\ v.dense = lane
  OBVIOUS
<1>5. sess'[s] = v /\ \A o \in Sessions \ {s} : sess'[o] = sess[o]
  BY <1>1 DEF Inv, SessInv
<1> HIDE DEF v, lane
<1>6. Searching(v)
  BY <1>1, <1>2, <1>3, <1>4 DEF Searching
<1> QED BY <1>1, <1>5, <1>6, StoredStay, FoundStays, SearchStep

LEMMA PgSparseLaneKeepsSearch ==
    ASSUME Inv, SearchInv, NEW s \in Sessions, PgSparseLane(s)
    PROVE  SearchInv'
<1> DEFINE call   == sess[s].call
           hybrid == call.mode = "hybrid"
           dense  == IF hybrid THEN sess[s].dense ELSE << >>
           cands  == Candidates(call)
           sparse == SparseLane(call, cands, IF hybrid THEN call.rerank ELSE call.k)
           fused  == IF hybrid THEN RRFFuse(dense, sparse, call.k) ELSE sparse
           v      == [pc |-> "fetch", call |-> call, dense |-> dense, sparse |-> sparse, fused |-> fused]
<1>1. /\ \/ sess[s].pc = "lane"
         \/ sess[s].pc = "run" /\ call.op = "search" /\ call.mode = "sparse"
      /\ sess' = [sess EXCEPT ![s] = v] /\ rows' = rows /\ found' = found
  BY DEF PgSparseLane, Ready
<1>2. call \in Calls /\ call.op = "search" /\ (hybrid => Lane(dense))
  <2>1. CASE sess[s].pc = "lane"
    BY <2>1 DEF SearchInv, Searching
  <2>2. CASE sess[s].pc = "run" /\ call.op = "search" /\ call.mode = "sparse"
    BY <2>2, RunningSearch
  <2> QED BY <1>1, <2>1, <2>2
<1>3. call.k \in Nat \ {0} /\ call.rerank \in Nat \ {0}
  BY <1>2, SearchCall
<1>4. Lane(sparse)
  <2>1. DOMAIN cands \in SUBSET Ids /\ IsFiniteSet(DOMAIN cands) /\ cands \in [DOMAIN cands -> Row]
    BY <1>2, CandidatesAreRecords DEF Inv, SearchInv
  <2> HIDE DEF cands
  <2> QED BY <1>2, <1>3, <2>1, LanesOfRecords
<1> HIDE DEF dense, sparse
<1>5. Lane(fused) /\ (hybrid => FusionRespects(dense, sparse, call.k, fused))
  BY <1>2, <1>3, <1>4, FusionIsSound
<1>6. v.pc = "fetch" /\ v.call = call /\ v.dense = dense /\ v.sparse = sparse /\ v.fused = fused
  OBVIOUS
<1>7. sess'[s] = v /\ \A o \in Sessions \ {s} : sess'[o] = sess[o]
  BY <1>1 DEF Inv, SessInv
<1> HIDE DEF v, fused
<1>8. Searching(v)
  BY <1>2, <1>5, <1>6 DEF Searching
<1> QED BY <1>1, <1>7, <1>8, StoredStay, FoundStays, SearchStep

LEMMA MaterializeKeepsSearch ==
    ASSUME Inv, SearchInv, NEW s \in Sessions, Materialize(s)
    PROVE  SearchInv'
<1> DEFINE me    == sess[s]
           call  == me.call
           fused == me.fused
           hits  == Keep([i \in DOMAIN fused |-> KeyOf(call, fused[i])], StoredKeys)
<1>1. /\ me.pc = "fetch" /\ sess' = [sess EXCEPT ![s] = Idle] /\ rows' = rows
      /\ found' = Found(call, me.dense, me.sparse, fused, hits)
  BY DEF Materialize, StoredKeys
<1>2. /\ call \in Calls /\ Lane(fused)
      /\ call.mode = "hybrid" => FusionRespects(me.dense, me.sparse, call.k, fused)
  BY <1>1 DEF SearchInv, Searching
<1>3. /\ \A i \in 1 .. Len(hits) : hits[i][1] = call.tenant
      /\ \A i, j \in 1 .. Len(hits) : i < j => RankIn(fused, hits[i][2]) < RankIn(fused, hits[j][2])
  <2> HIDE DEF call, fused
  <2> QED BY <1>2, KeptHitsAreRanked
<1> HIDE DEF hits
<1>4. /\ found'.mode = call.mode /\ found'.tenant = call.tenant /\ found'.k = call.k
      /\ found'.dense = me.dense /\ found'.sparse = me.sparse /\ found'.fused = fused /\ found'.hits = hits
  BY <1>1 DEF Found
<1>5. SearchIsSound'
  BY <1>2, <1>3, <1>4 DEF SearchIsSound
<1> QED BY <1>1, <1>5, AnswerStep

\* A transaction's statement locks finitely many more rows.
LEMMA TxKeepsSearch ==
    ASSUME Inv, SearchInv, NEW s \in Sessions,
           PgBegin(s) \/ PgCas(s) \/ PgInsert(s) \/ PgSupersede(s) \/ PgCommit(s) \/ PgFails(s)
    PROVE  SearchInv'
<1> DEFINE me == sess[s]
           r == me.call.recs[me.i]
           k == KeyOf(me.call, r.id)
<1>1. ASSUME sess' = [sess EXCEPT ![s] = Idle], found' = found, IsFiniteSet(StoredKeys')
      PROVE  SearchInv'
  BY <1>1, KindsDiffer, UnrelatedStep
<1>2. ASSUME NEW v, v.pc = "tx", IsFiniteSet(v.locks), sess' = [sess EXCEPT ![s] = v],
             rows' = rows, found' = found
      PROVE  SearchInv'
  <2>1. sess'[s] = v /\ \A o \in Sessions \ {s} : sess'[o] = sess[o]
    BY <1>2 DEF Inv, SessInv
  <2>2. Searching(v)
    BY <1>2 DEF Searching
  <2> QED BY <1>2, <2>1, <2>2, StoredStay, FoundStays, SearchStep
<1>3. me.pc = "tx" => me \in TxCall /\ IsFiniteSet(me.locks) /\ IsFiniteSet(me.locks \cup {k})
  <2>1. me.pc = "tx" => me \in TxCall /\ IsFiniteSet(me.locks)
    BY TxFacts DEF SearchInv, Searching
  <2> QED BY <2>1, FS_AddElement
<1>4. CASE PgBegin(s)
  <2> DEFINE v == [pc |-> "tx", call |-> me.call, at |-> now, i |-> 1, step |-> "cas",
                   vecs |-> BatchVectors(me), locks |-> {}, writes |-> [x \in Keys |-> None], conds |-> {}]
  <2>1. sess' = [sess EXCEPT ![s] = v] /\ rows' = rows /\ found' = found
    BY <1>4 DEF PgBegin
  <2>2. v.pc = "tx" /\ v.locks = {}
    OBVIOUS
  <2> HIDE DEF v
  <2> QED BY <1>2, <2>1, <2>2, FS_EmptySet
<1>5. CASE PgCas(s)
  <2>1. me.pc = "tx" /\ rows' = rows /\ found' = found
    BY <1>5 DEF PgCas, InTx
  <2>2. CASE sess' = [sess EXCEPT ![s] = Idle]
    BY <1>1, <2>1, <2>2, StoredStay
  <2>3. CASE sess' = [sess EXCEPT ![s].step = "insert"]
    <3> DEFINE v == [me EXCEPT !.step = "insert"]
    <3>1. v.pc = "tx" /\ v.locks = me.locks
      BY <1>3, <2>1 DEF TxCall
    <3>2. sess' = [sess EXCEPT ![s] = v]
      BY <2>3
    <3> HIDE DEF v
    <3> QED BY <1>2, <1>3, <2>1, <3>1, <3>2
  <2>4. CASE \E locks \in {me.locks, me.locks \cup {k}} :
               sess' = [sess EXCEPT ![s].step = "insert", ![s].locks = locks]
    <3>1. PICK locks \in {me.locks, me.locks \cup {k}} :
               sess' = [sess EXCEPT ![s].step = "insert", ![s].locks = locks]
      BY <2>4
    <3> DEFINE v == [me EXCEPT !.step = "insert", !.locks = locks]
    <3>2. v.pc = "tx" /\ v.locks = locks
      BY <1>3, <2>1 DEF TxCall
    <3>3. sess' = [sess EXCEPT ![s] = v]
      BY <3>1
    <3>4. IsFiniteSet(locks)
      BY <1>3, <2>1
    <3> HIDE DEF v
    <3> QED BY <1>2, <2>1, <3>2, <3>3, <3>4
  <2> QED BY <1>5, <2>2, <2>3, <2>4 DEF PgCas
<1>6. CASE PgInsert(s)
  <2>1. PICK row, conds :
          sess' = [sess EXCEPT ![s].step = "supersede", ![s].locks = @ \cup {k}, ![s].writes[k] = row,
                     ![s].conds = conds]
    BY <1>6 DEF PgInsert
  <2>2. me.pc = "tx" /\ rows' = rows /\ found' = found
    BY <1>6 DEF PgInsert, InTx
  <2> DEFINE locks == me.locks \cup {k}
             writes == [me.writes EXCEPT ![k] = row]
             u == [me EXCEPT !.step = "supersede", !.locks = locks]
             v == [u EXCEPT !.writes = writes, !.conds = conds]
  <2>3. sess' = [sess EXCEPT ![s] = v]
    <3>1. v = [me EXCEPT !.step = "supersede", !.locks = locks, !.writes = writes, !.conds = conds]
      OBVIOUS
    <3> HIDE DEF v
    <3> QED BY <2>1, <3>1, ZenonT(30)
  <2> HIDE DEF locks, writes
  <2>4. u.pc = "tx" /\ u.locks = locks
    BY <1>3, <2>2 DEF TxCall
  <2> HIDE DEF u
  <2>5. v.pc = "tx" /\ v.locks = locks
    BY <2>4
  <2> HIDE DEF v
  <2> QED BY <1>2, <1>3, <2>2, <2>3, <2>5 DEF locks
<1>7. CASE PgSupersede(s)
  <2> DEFINE hit == { x \in Targets(me.call, r) : Superseded(View(me, x), me.at) # View(me, x) }
             locks == me.locks \cup hit
  <2>1. me.pc = "tx" /\ rows' = rows /\ found' = found /\ hit \subseteq Keys
    <3>1. me.pc = "tx" /\ me.i <= Len(me.call.recs)
      BY <1>7 DEF PgSupersede, InTx
    <3> QED BY <1>7, <3>1, TxRecord DEF PgSupersede
  <2>2. PICK writes : sess' = [sess EXCEPT ![s].i = @ + 1, ![s].step = "cas", ![s].locks = @ \cup hit,
                                 ![s].writes = writes]
    BY <1>7 DEF PgSupersede
  <2> DEFINE u == [me EXCEPT !.i = me.i + 1, !.step = "cas"]
             v == [u EXCEPT !.locks = locks, !.writes = writes]
  <2>3. sess' = [sess EXCEPT ![s] = v]
    <3>1. v = [me EXCEPT !.i = me.i + 1, !.step = "cas", !.locks = locks, !.writes = writes]
      OBVIOUS
    <3> HIDE DEF v
    <3> QED BY <2>2, <3>1
  <2>4. IsFiniteSet(locks)
    <3>1. Superseded(None, me.at) = None
      BY DEF Superseded
    <3>2. \A x \in hit : rows[x] # None \/ me.writes[x] # None
      BY <3>1 DEF View
    <3>3. \A x \in hit : x \in StoredKeys \/ x \in me.locks
      BY <2>1, <3>2, TxFacts DEF StoredKeys
    <3>4. locks \subseteq StoredKeys \cup me.locks
      BY <3>3
    <3>5. IsFiniteSet(StoredKeys \cup me.locks)
      BY <1>3, <2>1, FS_Union DEF SearchInv
    <3> QED BY <3>4, <3>5, FS_Subset
  <2> HIDE DEF locks
  <2>5. u.pc = "tx"
    BY <1>3, <2>1 DEF TxCall
  <2>6. DOMAIN u = DOMAIN me /\ "locks" \in DOMAIN me
    BY <1>3, <2>1 DEF TxCall
  <2> HIDE DEF u
  <2>7. v.pc = "tx" /\ v.locks = locks
    BY <2>5, <2>6
  <2> HIDE DEF v
  <2> QED BY <1>2, <2>1, <2>3, <2>4, <2>7
<1>8. CASE PgCommit(s)
  <2>1. /\ me.pc = "tx" /\ sess' = [sess EXCEPT ![s] = Idle] /\ found' = found
        /\ rows' = [x \in Keys |-> View(me, x)]
    BY <1>8 DEF PgCommit
  <2>2. \A x \in Keys : rows'[x] # None => rows[x] # None \/ x \in me.locks
    BY <2>1, TxFacts DEF View
  <2>3. IsFiniteSet(StoredKeys')
    BY <1>3, <2>1, <2>2, StoredGrow
  <2> QED BY <1>1, <2>1, <2>3
<1>9. CASE PgFails(s)
  <2>1. sess' = [sess EXCEPT ![s] = Idle] /\ found' = found /\ rows' = rows
    BY <1>9 DEF PgFails
  <2> QED BY <1>1, <2>1, StoredStay
<1> QED BY <1>4, <1>5, <1>6, <1>7, <1>8, <1>9

-----------------------------------------------------------------------------
(* The theorems.                                                           *)

LEMMA InitInv == Init => Inv
<1> SUFFICES ASSUME Init PROVE Inv
  OBVIOUS
<1>1. StoreInv
  <2>1. 0 \in Time /\ ToSet(<< >>) = {} /\ IsInjective(<< >>)
    BY SemanticAssumption DEF Time, ToSet, IsInjective
  <2> QED BY <2>1 DEF Init, StoreInv
<1>2. CacheInv
  BY SemanticAssumption DEF Init, CacheInv
<1>3. SessInv
  BY KindsDiffer DEF Init, SessInv
<1>4. LockInv /\ CheckedInv
  <2>1. \A s \in Sessions : sess[s].pc = "idle"
    BY KindsDiffer DEF Init
  <2> QED BY <2>1 DEF LockInv, CheckedInv, Checked
<1>5. CASReplacesChecked
  BY DEF Init, CASReplacesChecked
<1> QED BY <1>1, <1>2, <1>3, <1>4, <1>5 DEF Inv

LEMMA NextInv == Inv /\ [Next]_vars => Inv'
<1> SUFFICES ASSUME Inv, [Next]_vars PROVE Inv'
  OBVIOUS
<1>1. CASE UNCHANGED vars
  <2>1. StoreInv' /\ CacheInv' /\ SessInv' /\ LockInv'
    BY <1>1 DEF Inv, vars, StoreInv, CacheInv, SessInv, LockInv
  <2>2. CheckedInv' /\ CASReplacesChecked'
    BY <1>1 DEF Inv, vars, CheckedInv, Checked, View, CASReplacesChecked
  <2> QED BY <2>1, <2>2 DEF Inv
<1>2. ASSUME NEW s \in Sessions,
             \/ Begin(s) \/ EmbedGet(s) \/ EmbedHit(s) \/ EmbedInner(s) \/ EmbedFails(s)
             \/ EmbedPut(s) \/ Reject(s)
      PROVE  Inv'
  BY <1>2, BeginKeeps, EmbedGetKeeps, EmbedHitKeeps, EmbedInnerKeeps, EmbedFailsKeeps, EmbedPutKeeps
<1>3. ASSUME NEW s \in Sessions, MemoryUpsert(s) \/ MemoryStore(s) \/ Delete(s) \/ Expire(s)
      PROVE  Inv'
  BY <1>3, MemoryUpsertKeeps, MemoryStoreKeeps, DeleteKeeps, ExpireKeeps
<1>4. ASSUME NEW s \in Sessions,
             SearchDense(s) \/ MemoryRank(s) \/ PgDenseIDs(s) \/ PgSparseLane(s) \/ Materialize(s) \/ PgFails(s)
      PROVE  Inv'
  BY <1>4, SearchesKeep
<1>5. ASSUME NEW s \in Sessions, PgBegin(s) \/ PgCas(s) \/ PgInsert(s) \/ PgSupersede(s) \/ PgCommit(s)
      PROVE  Inv'
  BY <1>5, PgBeginKeeps, PgCasKeeps, PgInsertKeeps, PgSupersedeKeeps, PgCommitKeeps
<1> QED BY <1>1, <1>2, <1>3, <1>4, <1>5 DEF Next

\* The conjunction of everything known of a reachable state is inductive.
THEOREM Invariance == Spec => []Inv
<1> QED BY InitInv, NextInv, PTL DEF Spec

\* The memory driver's order of insertion lists exactly the stored keys, each
\* once, through every upsert, delete and expiry; the cache never exceeds its
\* capacity nor lists a text twice (memory.Delete, memory.Expire, cache.put).
THEOREM TypeCorrect == Spec => []TypeOK
<1>1. Inv => TypeOK
  BY DEF Inv, StoreInv, CacheInv, SessInv, Session, TypeOK
<1> QED BY <1>1, Invariance, PTL

\* Every stored vector is that of its record's content and every cached one
\* that of its text, with any number of sessions, any order of the provider's
\* answers and any capacity of the cache (cachingEmbedder.Embed,
\* service.Upsert).
THEOREM VectorsAreOfContent == Spec => []VectorIsOfContent
<1>1. Inv => VectorIsOfContent
  BY DEF Inv, StoreInv, CacheInv, VectorIsOfContent
<1> QED BY <1>1, Invariance, PTL

\* A conditional write replaces the version it named, up to the two exceptions
\* stated with the property (memory.Upsert, postgres.Upsert).
THEOREM ConditionalWritesReplaceChecked == Spec => []CASReplacesChecked
<1>1. Inv => CASReplacesChecked
  BY DEF Inv
<1> QED BY <1>1, Invariance, PTL

LEMMA InitSearchInv == Init => SearchInv
<1> SUFFICES ASSUME Init PROVE SearchInv
  OBVIOUS
<1>1. IsFiniteSet(StoredKeys)
  <2>1. StoredKeys = {}
    BY DEF Init, StoredKeys
  <2> QED BY <2>1, FS_EmptySet
<1>2. \A s \in Sessions : Searching(sess[s])
  BY KindsDiffer DEF Init, Searching
<1>3. SearchIsSound
  BY DEF Init, NoSearch, SearchIsSound
<1> QED BY <1>1, <1>2, <1>3 DEF SearchInv

LEMMA NextSearchInv == Inv /\ SearchInv /\ [Next]_vars => SearchInv'
<1> SUFFICES ASSUME Inv, SearchInv, [Next]_vars PROVE SearchInv'
  OBVIOUS
<1>1. CASE UNCHANGED vars
  <2>1. sess' = sess /\ rows' = rows /\ found' = found
    BY <1>1 DEF vars
  <2>2. (\A s \in Sessions : Searching(sess[s]))'
    BY <2>1 DEF SearchInv, Searching
  <2> QED BY <2>1, <2>2, StoredStay, FoundStays DEF SearchInv
<1>2. ASSUME NEW s \in Sessions,
             EmbedGet(s) \/ EmbedHit(s) \/ EmbedInner(s) \/ EmbedFails(s) \/ EmbedPut(s) \/ Reject(s)
      PROVE  SearchInv'
  BY <1>2, EmbeddingKeepsSearch
<1>3. ASSUME NEW s \in Sessions,
             Begin(s) \/ MemoryUpsert(s) \/ MemoryStore(s) \/ Delete(s) \/ Expire(s)
      PROVE  SearchInv'
  BY <1>3, StoresKeepSearch
<1>4. ASSUME NEW s \in Sessions,
             SearchDense(s) \/ MemoryRank(s) \/ PgDenseIDs(s) \/ PgSparseLane(s) \/ Materialize(s)
      PROVE  SearchInv'
  BY <1>4, SearchDenseKeepsSearch, MemoryRankKeepsSearch, PgDenseIDsKeepsSearch, PgSparseLaneKeepsSearch,
     MaterializeKeepsSearch
<1>5. ASSUME NEW s \in Sessions,
             PgBegin(s) \/ PgCas(s) \/ PgInsert(s) \/ PgSupersede(s) \/ PgCommit(s) \/ PgFails(s)
      PROVE  SearchInv'
  BY <1>5, TxKeepsSearch
<1> QED BY <1>1, <1>2, <1>3, <1>4, <1>5 DEF Next

\* Every search, of any mode, in either driver and whatever the other sessions
\* do between its statements, answers with the tenant's own records in the
\* order of the fused list, and that list ranks first what both lanes rank
\* first (RRFFuse, rankHybrid, searchHybrid, materialize).
THEOREM SearchesAreSound == Spec => []SearchIsSound
<1>1. Spec => []SearchInv
  BY Invariance, InitSearchInv, NextSearchInv, PTL DEF Spec
<1>2. SearchInv => SearchIsSound
  BY DEF SearchInv
<1> QED BY <1>1, <1>2, PTL

=============================================================================
