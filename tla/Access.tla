------------------------------- MODULE Access -------------------------------
(***************************************************************************)
(* Who may do what: internal/auth (capabilities and their verifiers) and   *)
(* internal/policy (rules), as pure operators.                             *)
(*                                                                         *)
(* A name is a sequence of characters, a pattern [text, star] where star   *)
(* stands for one trailing "*".  An op is [block, verb].  A token carries  *)
(* its claims and the key that signed it.                                  *)
(***************************************************************************)
EXTENDS Integers, FiniteSets, Sequences, SequencesExt

CONSTANT None

-----------------------------------------------------------------------------
(* Capabilities.                                                           *)

\* "*" is the empty prefix with a star.
matchNamespace(p, name) == (~ p.star /\ p.text = name) \/ (p.star /\ IsPrefix(p.text, name))

\* Patterns match "block/name"; the block is the first element of the target.
PermitsNamespace(cap, block, name) ==
    \E p \in cap.namespaces : matchNamespace(p, <<block>> \o name)

\* A token lists a full op, a verb of any block, or everything.
PermitsOp(cap, op) ==
    \E a \in cap.ops : a \in {[block |-> "*", verb |-> "*"], [block |-> "*", verb |-> op.verb], op}

Expired(cap, now) == cap.exp # None /\ now >= cap.exp

\* A plausible error: the tenant is left out of the storage namespace.
QualifyNamespaceBare(tenant, name, isolate) == <<name>>

\* The tenant becomes part of the storage namespace.
QualifyNamespace(tenant, name, isolate) == IF isolate THEN <<tenant, name>> ELSE <<name>>

\* The semantic block stores the tenant in a column instead.
StorageTenant(tenant, isolate) == IF isolate THEN tenant ELSE ""

-----------------------------------------------------------------------------
(* Verifiers; auth is the configuration's auth section.                    *)

AllKeys(auth) == auth.keys \ {""}

NewPASETOVerifier(auth) == AllKeys(auth) # {} /\ "garbled" \notin AllKeys(auth)

\* HS256 has one secret from the environment, RS256 a rotation list.
NewJWTVerifier(auth) ==
    \/ auth.alg = "HS256" /\ Cardinality(AllKeys(auth)) = 1
    \/ auth.alg = "RS256" /\ AllKeys(auth) # {} /\ "garbled" \notin AllKeys(auth)

NewVerifier(auth) ==
    \/ auth.verifier = "paseto" /\ NewPASETOVerifier(auth)
    \/ auth.verifier = "jwt"    /\ NewJWTVerifier(auth)

\* Any of the rotation keys may have signed; issuer and expiry are required.
verifyPASETO(auth, tok, now) ==
    /\ tok.alg = "v4" /\ tok.key \in AllKeys(auth)
    /\ tok.issuer = "mindd" /\ tok.exp # None /\ now < tok.exp

\* The tenant, namespaces and ops claims must be there; an empty tenant passes.
tokenToCapability(tok) == tok.tenant # None /\ tok.namespaces # None /\ tok.ops # None

verifyJWT(auth, tok, now) ==
    /\ tok.alg = auth.alg /\ tok.key \in AllKeys(auth)
    /\ tok.issuer = "mindd" /\ tok.exp # None /\ now < tok.exp
    /\ tok.tenant \notin {None, ""}

Verify(auth, tok, now) ==
    IF auth.verifier = "paseto" THEN verifyPASETO(auth, tok, now) /\ tokenToCapability(tok)
    ELSE verifyJWT(auth, tok, now)

IssuePASETO(key, scope, exp) ==
    [alg |-> "v4", key |-> key, issuer |-> "mindd", exp |-> exp, tenant |-> scope.tenant,
     agent |-> scope.agent, namespaces |-> scope.namespaces, ops |-> scope.ops]

IssueJWT(key, scope, exp) == [IssuePASETO(key, scope, exp) EXCEPT !.alg = "HS256"]

-----------------------------------------------------------------------------
(* Policy rules.  An empty set in a rule's match matches everything.  A    *)
(* hook is what the interceptor knows of a call.                           *)

Dimensions == {"topK", "limit", "depth", "fanOut", "rerankK"}

anyOrEmpty(allowed, value) == allowed = {} \/ value \in allowed

anyGlobOrEmpty(patterns, name) == patterns = {} \/ \E p \in patterns : matchNamespace(p, name)

matchOp(allowed, op) == \E a \in allowed : a.block \in {"*", op.block} /\ a.verb = op.verb

ruleMatches(r, h) ==
    /\ anyOrEmpty(r.tenants, h.tenant)
    /\ anyOrEmpty(r.agents, h.agent)
    /\ anyOrEmpty(r.blocks, h.op.block)
    /\ anyGlobOrEmpty(r.namespaces, h.namespace)
    /\ (r.ops = {}) \/ matchOp(r.ops, h.op)

capExceeded(r, h) == \E d \in Dimensions : r.max[d] > 0 /\ h.cost[d] > r.max[d]

\* The rule's name and the chosen parts of the hook.
bucketKey(r, h) ==
    <<r.name,
      IF "tenant" \in r.per THEN h.tenant ELSE "",
      IF "agent" \in r.per THEN h.agent ELSE "",
      IF "namespace" \in r.per THEN <<h.op.block, h.namespace>> ELSE << >>,
      IF "op" \in r.per THEN <<h.op>> ELSE << >> >>

burst(r) == IF r.burst <= 0 THEN 1 ELSE r.burst

validRule(r) ==
    /\ r.name # ""
    /\ r.effect \in {"allow", "deny", "rate_limit", "cap"}
    /\ r.effect = "rate_limit" => r.rate > 0
    /\ r.effect = "cap" => \E d \in Dimensions : r.max[d] > 0

validSpec(spec) ==
    /\ spec.default \in {"", "allow", "deny"}
    /\ \A i \in 1 .. Len(spec.rules) : validRule(spec.rules[i])
    /\ \A i, j \in 1 .. Len(spec.rules) : spec.rules[i].name = spec.rules[j].name => i = j
=============================================================================
