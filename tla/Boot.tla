-------------------------------- MODULE Boot --------------------------------
(***************************************************************************)
(* What a configuration file amounts to: its defaults and validation       *)
(* (internal/config), the keyring (internal/encryption), the registries    *)
(* that cmd/mindd builds from it, and the envelopes in which the encrypted *)
(* drivers keep values (internal/kv and internal/episodic encrypted.go).   *)
(*                                                                         *)
(* A configuration is a record; a secret is what its environment variable  *)
(* holds; a driver is identified by its block and its backend (its         *)
(* namespace in the semantic block).                                       *)
(***************************************************************************)
EXTENDS Services

-----------------------------------------------------------------------------
(* internal/config.                                                        *)

Drivers == {"memory", "postgres", "fs", "s3"}

encryptableBlocks == {"kv", "episodic"}

\* The default listener makes an empty tcp address impossible.
applyDefaults(c) ==
    [c EXCEPT !.tcp = IF @ = "" THEN "default" ELSE @,
              !.level = IF @ = "" THEN "info" ELSE @,
              !.auth.verifier = IF @ = "" THEN "paseto" ELSE @]

Enabled(enc) == enc.keys # << >>

distinct(seq, f(_)) == \A i, j \in 1 .. Len(seq) : f(seq[i]) = f(seq[j]) => i = j

validEncryption(enc) ==
    IF ~ Enabled(enc) THEN ~ enc.plaintext
    ELSE /\ \A i \in 1 .. Len(enc.keys) : enc.keys[i].id # "" /\ enc.keys[i].env # ""
         /\ distinct(enc.keys, LAMBDA k : k.id)

validateSemanticEmbedder(ns) ==
    /\ ns.embedder.provider \in {"fake", "ollama", "openai"}
    /\ ns.embedder.provider # "fake" => ns.embedder.model # ""
    /\ ns.embedder.dimensions > 0

validAuth(auth) == \/ auth.verifier = "paseto" /\ AllKeys(auth) # {}
                   \/ auth.verifier = "jwt" /\ auth.alg # ""

validNamespace(c, ns) ==
    /\ ns.block \in {"kv", "episodic", "artifact", "lease", "graph", "semantic"}
    /\ ns.block = "semantic" => validateSemanticEmbedder(ns)
    /\ ns.name # << >>
    /\ \E i \in 1 .. Len(c.backends) : c.backends[i].name = ns.backend
    /\ ns.encrypt => ns.block \in encryptableBlocks /\ Enabled(c.encryption)

Validate(c) ==
    /\ c.tcp # "" \/ c.uds # ""
    /\ validAuth(c.auth)
    /\ \A i \in 1 .. Len(c.backends) : c.backends[i].name # "" /\ c.backends[i].driver \in Drivers
    /\ distinct(c.backends, LAMBDA b : b.name)
    /\ \A i \in 1 .. Len(c.namespaces) : validNamespace(c, c.namespaces[i])
    /\ distinct(c.namespaces, LAMBDA ns : <<ns.block, ns.name>>)
    /\ validEncryption(c.encryption)

\* An unreadable file, or an environment that does not decode, is a failure too.
Load(c) == c.readable /\ Validate(applyDefaults(c))

ParseLevel(c) == applyDefaults(c).level \in {"debug", "info", "warn", "error"}

buildPolicyEngine(policy) == (policy.default = "" /\ policy.rules = << >>) \/ validSpec(policy)

-----------------------------------------------------------------------------
(* Keyrings and envelopes.  A value is [body, key, aad]: key is the id of  *)
(* the key that sealed it, None for plain bytes.  A body [of, form] is     *)
(* bytes that tenant of wrote: none at all, bytes that look like an        *)
(* envelope (they begin like one and are as long), or other text.          *)

Forms == {"empty", "shaped", "text"}

plain(body) == [body |-> body, key |-> None, aad |-> << >>]

IsEmpty(v) == v.key = None /\ v.body.form = "empty"

DecodeSecret(s) == s.bytes = 32

NewKeyring(keys) == keys # << >> /\ distinct(keys, LAMBDA k : k.id)

buildKeyring(c) ==
    Enabled(c.encryption) =>
        /\ \A i \in 1 .. Len(c.encryption.keys) : DecodeSecret(c.encryption.keys[i].secret)
        /\ NewKeyring(c.encryption.keys)

KeyIds(enc) == {enc.keys[i].id : i \in 1 .. Len(enc.keys)}

\* The associated data binds a value to its block, storage namespace and key.
valueAAD(namespace, key) == <<"kv", namespace, key>>

payloadAAD(namespace) == <<"episodic", namespace>>

\* The first key is the active one.
Encrypt(enc, body, aad) == [body |-> body, key |-> enc.keys[1].id, aad |-> aad]

\* Only the version byte and the length are looked at.
IsEnvelope(v) == v.key # None \/ v.body.form = "shaped"

\* Bytes that only look like an envelope do not authenticate.
Decrypt(enc, v, aad) == v.key # None /\ v.key \in KeyIds(enc) /\ v.aad = aad

\* No bytes are stored as they are.
seal(enc, encrypt, body, aad) ==
    IF encrypt /\ body.form # "empty" THEN Encrypt(enc, body, aad) ELSE plain(body)

\* The values that pass the driver of an encrypted namespace untouched.
Untouched(enc, v) == IsEmpty(v) \/ (enc.plaintext /\ ~ IsEnvelope(v))

\* Whether a namespace can serve the value; a plain one serves any.
open(enc, encrypt, v, aad) == encrypt => Untouched(enc, v) \/ Decrypt(enc, v, aad)

\* What it serves when it can: a plain namespace serves an envelope's own bytes.
opened(enc, encrypt, v) == IF encrypt /\ ~ Untouched(enc, v) THEN plain(v.body) ELSE v

-----------------------------------------------------------------------------
(* Registries: [bound, owned], the namespaces a block resolves and, in the *)
(* order of binding, the drivers it must close.                            *)

NewRegistry == [bound |-> {}, owned |-> << >>]

Bind(reg, name, d) == [bound |-> reg.bound \union {name}, owned |-> Append(reg.owned, d)]

BindShared(reg, name, d) == [reg EXCEPT !.bound = @ \union {name}]

neededBackends(c, block) ==
    {c.namespaces[i].backend : i \in {j \in 1 .. Len(c.namespaces) : c.namespaces[j].block = block}}

findBackend(c, name) == LET i == SelectInSeq(c.backends, LAMBDA b : b.name = name) IN c.backends[i]

\* The drivers each block has.
blockDrivers ==
    [kv |-> {"memory", "postgres"}, episodic |-> {"memory", "postgres"}, semantic |-> {"memory", "postgres"},
     artifact |-> {"memory", "fs", "s3"}, lease |-> {"memory", "postgres"}, graph |-> {"memory", "postgres"}]

\* The options and the environment of a backend amount to its usable flag.
resolveDSN(b) == b.driver # "memory" => b.usable

supports(c, block, name) ==
    LET b == findBackend(c, name) IN b.driver \in blockDrivers[block] /\ resolveDSN(b)

\* Only memory always answers: a database, a store or a directory may not.
mayFail(c, block, name) == ~ supports(c, block, name) \/ findBackend(c, name).driver # "memory"

\* What a namespace is served by: in the semantic block a driver of its own,
\* in the others the driver of its backend.
servedBy(ns) == IF ns.block = "semantic" THEN <<ns.block, ns.name>> ELSE <<ns.block, ns.backend>>

\* The first namespace that uses a backend owns its driver.
bindNext(reg, ns) ==
    IF ns.block # "semantic" /\ Contains(reg.owned, servedBy(ns))
    THEN BindShared(reg, ns.name, servedBy(ns))
    ELSE Bind(reg, ns.name, servedBy(ns))

\* The namespaces of a block are bound in the file's order.
bindAll(c, block) ==
    LET r[i \in 0 .. Len(c.namespaces)] ==
            IF i = 0 THEN NewRegistry
            ELSE IF c.namespaces[i].block # block THEN r[i - 1]
            ELSE bindNext(r[i - 1], c.namespaces[i])
    IN  r[Len(c.namespaces)]

encryptEnabled(c, ns) == ns.encrypt => Enabled(c.encryption)

allEncryptEnabled(c, block) ==
    \A i \in 1 .. Len(c.namespaces) : c.namespaces[i].block = block => encryptEnabled(c, c.namespaces[i])

\* A driver per backend, then the namespaces.
buildRegistry(c, block) ==
    (\A name \in neededBackends(c, block) : supports(c, block, name)) /\ allEncryptEnabled(c, block)

buildKVRegistry(c)       == buildRegistry(c, "kv")
buildEpisodicRegistry(c) == buildRegistry(c, "episodic")
buildLeaseRegistry(c)    == buildRegistry(c, "lease")
buildGraphRegistry(c)    == buildRegistry(c, "graph")
buildArtifactRegistry(c) == buildRegistry(c, "artifact")

buildEmbedder(e) == e.provider = "openai" => e.usable

\* One driver, and one caching embedder, per namespace.
bindsSemantic(c, ns) == buildEmbedder(ns.embedder) /\ supports(c, "semantic", ns.backend)

semanticOf(c) == {i \in 1 .. Len(c.namespaces) : c.namespaces[i].block = "semantic"}

buildSemanticRegistry(c) == \A i \in semanticOf(c) : bindsSemantic(c, c.namespaces[i])

\* What a build that fails has opened and neither closes nor returns: the drivers of
\* the namespaces before the failing one, or of some backends, met in any order.
abandoned(c, block) ==
    IF block = "semantic"
    THEN {{servedBy(c.namespaces[j]) : j \in {k \in semanticOf(c) : k < i}} :
              i \in {k \in semanticOf(c) :
                       /\ ~ bindsSemantic(c, c.namespaces[k]) \/ mayFail(c, block, c.namespaces[k].backend)
                       /\ \A j \in semanticOf(c) : j < k => bindsSemantic(c, c.namespaces[j])}}
    ELSE {{<<block, name>> : name \in names} :
              names \in {some \in SUBSET {n \in neededBackends(c, block) : supports(c, block, n)} :
                           \/ \E n \in neededBackends(c, block) \ some : mayFail(c, block, n)
                           \/ some = neededBackends(c, block) /\ ~ allEncryptEnabled(c, block)}}
=============================================================================
