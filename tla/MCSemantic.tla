----------------------------- MODULE MCSemantic -----------------------------
EXTENDS Semantic

dec(n) == [kind |-> "decimal", n |-> n]
sci(n) == [kind |-> "other", n |-> n]

rec(id, text, meta, ifv, sup) ==
    [id |-> id, text |-> text, meta |-> meta, ifv |-> ifv, sup |-> sup, given |-> FALSE]

upsert(t, recs) == [op |-> "upsert", tenant |-> t, recs |-> recs]

search(t, mode, pred) ==
    [op |-> "search", tenant |-> t, mode |-> mode, text |-> 1, k |-> 2, rerank |-> 2,
     filter |-> None, pred |-> pred, after |-> None, asOf |-> None, all |-> FALSE]

MCTerms == <<{"x"}, {"x", "y"}, {"y"}>>

MCCalls ==
    { upsert("t", <<rec(1, 1, dec(1), None, {}), rec(2, 2, dec(1), None, {1})>>),
      upsert("t", <<rec(2, 3, sci(5), 1, {}), [rec(1, 3, None, None, {}) EXCEPT !.given = TRUE]>>),
      upsert("t", <<rec(2, 2, dec(1), 1, {}), rec(2, 3, dec(1), 1, {})>>),
      upsert("u", <<rec(1, 2, dec(2), None, {})>>),
      upsert("t", << >>),
      search("t", "hybrid", None),
      [search("t", "sparse", None) EXCEPT !.all = TRUE],
      search("t", "dense", [op |-> "gte", values |-> <<dec(1)>>]),
      [search("t", "dense", [op |-> "gt", values |-> << >>]) EXCEPT !.asOf = 1],
      [op |-> "delete", tenant |-> "t", id |-> 1, hard |-> TRUE],
      [op |-> "delete", tenant |-> "t", id |-> 2, hard |-> FALSE],
      [op |-> "expire", tenant |-> "t", filter |-> dec(1), action |-> "hard", max |-> 1],
      [op |-> "expire", tenant |-> "t", filter |-> None, action |-> "invalidate", max |-> 2] }
=============================================================================
