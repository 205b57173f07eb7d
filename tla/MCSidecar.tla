----------------------------- MODULE MCSidecar ------------------------------
(* Three configuration files: a first one, one that turns on encryption    *)
(* and a default-deny policy and adds a token key, and one whose           *)
(* policy is invalid.  Namespaces are "ab" and "ac" (kv, one database at   *)
(* first), "e" (episodic, in memory) and "s" (semantic, in the database).  *)
EXTENDS Sidecar

ab == <<"a", "b">>
ac == <<"a", "c">>
e  == <<"e">>

NoEmbedder == [provider |-> "", model |-> "", dimensions |-> 0, usable |-> TRUE]
NS(block, name, backend, encrypt) ==
    [block |-> block, name |-> name, backend |-> backend, encrypt |-> encrypt, embedder |-> NoEmbedder]
Sem == [NS("semantic", <<"s">>, "pg", FALSE) EXCEPT !.embedder =
            [provider |-> "fake", model |-> "", dimensions |-> 2, usable |-> TRUE]]

NoMax == [d \in Dimensions |-> 0]
AnyRule(name, effect) ==
    [name |-> name, effect |-> effect, tenants |-> {}, agents |-> {}, blocks |-> {}, namespaces |-> {},
     ops |-> {}, per |-> {}, rate |-> 0, burst |-> 0, max |-> NoMax]
LimitPuts == [AnyRule("puts", "rate_limit") EXCEPT !.ops = {[block |-> "*", verb |-> "put"]},
                  !.per = {"tenant"}, !.rate = 1, !.burst = 1]
CapScan   == [AnyRule("scan", "cap") EXCEPT !.blocks = {"kv"}, !.max.limit = 1]
DenyA     == [AnyRule("deny-a", "deny") EXCEPT !.namespaces = {[text |-> <<"a">>, star |-> TRUE]},
                  !.tenants = {"t2"}]
AllowAll  == [AnyRule("rest", "allow") EXCEPT !.blocks = {"kv", "admin"}]

First ==
    [readable |-> TRUE, tcp |-> "", uds |-> "sock", http |-> TRUE, tls |-> "none", level |-> "",
     auth |-> [verifier |-> "", keys |-> {"k1"}, alg |-> ""],
     backends |-> <<[name |-> "pg", driver |-> "postgres", usable |-> TRUE],
                    [name |-> "mem", driver |-> "memory", usable |-> TRUE]>>,
     namespaces |-> <<NS("kv", ab, "pg", FALSE), NS("kv", ac, "pg", FALSE),
                      NS("episodic", e, "mem", FALSE), Sem>>,
     encryption |-> [keys |-> << >>, plaintext |-> FALSE],
     policy |-> [default |-> "", rules |-> <<LimitPuts, CapScan>>], isolate |-> TRUE]
Second ==
    [First EXCEPT !.auth.keys = {"k1", "k2"}, !.level = "warn",
        !.namespaces = <<NS("kv", ab, "pg", TRUE), NS("kv", ac, "mem", FALSE), NS("episodic", e, "mem", TRUE)>>,
        !.encryption = [keys |-> <<[id |-> "new", env |-> "N", secret |-> [bytes |-> 32]],
                                   [id |-> "old", env |-> "O", secret |-> [bytes |-> 32]]>>, plaintext |-> TRUE],
        !.policy = [default |-> "deny", rules |-> <<DenyA, LimitPuts, AllowAll>>]]
BadPolicy == [Second EXCEPT !.policy.rules = <<AnyRule("", "allow")>>]

MCConfigs == <<First, Second, BadPolicy>>

Scope(tenant, blocks, verbs) ==
    [tenant |-> tenant, agent |-> "", ops |-> verbs,
     namespaces |-> {[text |-> <<b>>, star |-> TRUE] : b \in blocks}]
All == {[block |-> "*", verb |-> "*"]}
T1  == IssuePASETO("k1", Scope("t1", {"kv", "episodic"}, All), 1)
T1r == IssuePASETO("k2", Scope("t1", {"kv"}, All), 1)
T2  == IssuePASETO("k1", Scope("t2", {"kv"}, {[block |-> "*", verb |-> "scan"]}), 1)

Q(block, name, token, ns, via) ==
    [m |-> [block |-> block, name |-> name], token |-> token, namespace |-> ns, key |-> "k", via |-> via,
     fields |-> {"key", "type"}, cost |-> NoMax, forms |-> {"shaped", "text"}]
MCRequests ==
    <<Q("kv", "Put", T1, ab, "http"), Q("kv", "Get", T1, ab, "grpc"), Q("kv", "Scan", T2, ab, "grpc"),
      Q("episodic", "Tail", T1, e, "grpc"), Q("admin", "ListNamespaces", T1r, << >>, "grpc")>>

(* The file is the first one, or the second one until it is edited back to *)
(* the first; then there is no call but to kv, and time stands still.      *)
(* Calls run one at a time while the file is such a second one, or the     *)
(* invalid one, or while a stored value looks like an envelope.  Seconds   *)
(* pass between calls, and while calls wait for their limiter.             *)
FromSecond == disk.cfg = 2 - disk.edits
Bounds ==
    /\ FromSecond => now = 0 /\ (rpc[1].pc \in {"idle", "done"} \/ rpc[1].q \in 1 .. 3)
    /\ FromSecond \/ disk.cfg = 3 \/ (\E r \in store : r.value.body.form = "shaped") => rpc[2].pc = "idle"
SecondsBetween == now' # now => \A s \in Slots : rpc[s].pc \in {"idle", "done", "limit"}
MCSpec ==
    /\ Init /\ disk.cfg # 3
    /\ [][Next /\ Bounds' /\ SecondsBetween /\ (FromSecond => FromSecond')]_vars
    /\ Fairness

(* What an issuer signs, the verifier of a configuration accepts exactly   *)
(* when it has the key, for both kinds of token.                           *)
Auths == [verifier : {"paseto", "jwt"}, keys : {{"k1"}, {"k2"}, {"k1", "k2"}}, alg : {"HS256"}]
ASSUME TokensRoundTrip ==
    \A auth \in Auths, key \in {"k1", "k2"}, exp \in 0 .. 2, now_ \in 0 .. 2 :
        LET tok == IF auth.verifier = "jwt" THEN IssueJWT(key, Scope("t1", {"kv"}, All), exp)
                   ELSE IssuePASETO(key, Scope("t1", {"kv"}, All), exp)
        IN  Verify(auth, tok, now_) <=> key \in auth.keys /\ now_ < exp
=============================================================================
