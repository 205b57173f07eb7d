------------------------------ MODULE Ranking ------------------------------
(***************************************************************************)
(* The pure parts of the semantic block: metadata predicates               *)
(* (internal/semantic/predicates.go and the SQL they compile to), the      *)
(* lanes of a search and their fusion (hybrid.go, the two drivers).        *)
(*                                                                         *)
(* A lane is a sequence of ids, best first.  A text is a number, so that   *)
(* the distance of two vectors is the distance of their texts, with a set  *)
(* of terms.  A metadata value is [kind, n]: a plain decimal, a number in  *)
(* another notation ("1e3", "+5"), or a word.                              *)
(***************************************************************************)
EXTENDS Integers, FiniteSets, Sequences, SequencesExt

CONSTANTS
    Terms,      \* per text: its lower-case terms (Tokenize)
    None

ASSUME RankingAssumption ==
    DOMAIN Terms \subseteq Int /\ \A t \in DOMAIN Terms : IsFiniteSet(Terms[t])

-----------------------------------------------------------------------------
NumericOps == {"gt", "gte", "lt", "lte"}
IsNumeric(op) == op \in NumericOps

\* Exactly one value, at least one for "in", a number for numeric operators.
Validate(p) ==
    \/ p.op = "in" /\ p.values # << >>
    \/ p.op \in {"eq", "neq"} /\ Len(p.values) = 1
    \/ IsNumeric(p.op) /\ Len(p.values) = 1 /\ p.values[1].kind # "word"

Compare(op, a, b) ==
    CASE op = "gt" -> a > b [] op = "gte" -> a >= b [] op = "lt" -> a < b [] OTHER -> a <= b

\* A missing key never matches, nor does a stored word a numeric operator.
Matches(p, v) ==
    /\ v # None
    /\ CASE p.op = "eq"  -> v = p.values[1]
         [] p.op = "neq" -> v # p.values[1]
         [] p.op = "in"  -> \E i \in 1 .. Len(p.values) : v = p.values[i]
         [] OTHER        -> v.kind # "word" /\ Compare(p.op, v.n, p.values[1].n)

\* The SQL driver casts only what its pattern takes for a decimal.
predicateCond(p, v) == Matches(p, v) /\ (IsNumeric(p.op) => v.kind = "decimal")

-----------------------------------------------------------------------------
distance(q, t) == IF q < t THEN t - q ELSE q - t

TermOverlap(q, t) == Cardinality(Terms[q] \cap Terms[t])

Take(s, k) == IF k > 0 /\ k < Len(s) THEN SubSeq(s, 1, k) ELSE s

\* The elements of S as a sequence; B holds the pairs whose first comes first.
Listed(S, B) ==
    [n \in 1 .. Cardinality(S) |-> CHOOSE a \in S : Cardinality({ b \in S : <<b, a>> \in B }) = n - 1]

\* The smallest key first; ties are broken by the id.
ByKey(S, key) ==
    { p \in S \X S : \/ key[p[1]] < key[p[2]]
                     \/ key[p[1]] = key[p[2]] /\ p[1] < p[2] }

\* Candidates map an id to its text.
denseLane(cands, q, k) ==
    LET D == DOMAIN cands
    IN  Take(Listed(D, ByKey(D, [i \in D |-> distance(q, cands[i])])), k)

\* The texts the lane admits: one common term in memory, all terms of the
\* query in SQL.
anyTerm(cands, q)  == { i \in DOMAIN cands : TermOverlap(q, cands[i]) > 0 }
allTerms(cands, q) == { i \in DOMAIN cands : Terms[q] # {} /\ Terms[q] \subseteq Terms[cands[i]] }

sparseLane(cands, matching, q, k) ==
    Take(Listed(matching, ByKey(matching, [i \in matching |-> - TermOverlap(q, cands[i])])), k)

-----------------------------------------------------------------------------
(* Reciprocal Rank Fusion; scores are fractions <<numerator, denominator>>.*)

rrfK == 60

RankIn(lane, id) ==         \* from 1; 0 if absent
    IF id \in ToSet(lane) THEN CHOOSE i \in DOMAIN lane : lane[i] = id ELSE 0

Plus(a, b)    == <<a[1] * b[2] + b[1] * a[2], a[2] * b[2]>>
Greater(a, b) == a[1] * b[2] > b[1] * a[2]

Share(lane, id) == LET r == RankIn(lane, id) IN IF r = 0 THEN <<0, 1>> ELSE <<1, rrfK + r>>

Score(dense, sparse, id) == Plus(Share(dense, id), Share(sparse, id))

\* The greatest score first, then the smallest id.
ByScore(dense, sparse, S) ==
    { p \in S \X S : \/ Greater(Score(dense, sparse, p[1]), Score(dense, sparse, p[2]))
                     \/ ~ Greater(Score(dense, sparse, p[2]), Score(dense, sparse, p[1])) /\ p[1] < p[2] }

RRFFuse(dense, sparse, topK) ==
    LET all == ToSet(dense) \cup ToSet(sparse)
    IN  Take(Listed(all, ByScore(dense, sparse, all)), topK)

\* Being ranked no worse in both lanes and better in one means being listed
\* first, and the list is as long as topK allows (RRFFuse).
FusionRespects(dense, sparse, topK, result) ==
    LET all == ToSet(dense) \cup ToSet(sparse)
        ahead(lane, a, b) == RankIn(lane, a) > 0 /\ (RankIn(lane, b) = 0 \/ RankIn(lane, a) < RankIn(lane, b))
        level(lane, a, b) == RankIn(lane, a) = 0 /\ RankIn(lane, b) = 0
        dominates(a, b)   == \/ ahead(dense, a, b) /\ (ahead(sparse, a, b) \/ level(sparse, a, b))
                             \/ level(dense, a, b) /\ ahead(sparse, a, b)
    IN  /\ ToSet(result) \subseteq all
        /\ Len(result) = IF topK < Cardinality(all) THEN topK ELSE Cardinality(all)
        /\ \A a, b \in all : dominates(a, b) /\ RankIn(result, b) > 0
              => RankIn(result, a) > 0 /\ RankIn(result, a) < RankIn(result, b)
=============================================================================
