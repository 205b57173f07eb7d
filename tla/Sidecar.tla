------------------------------ MODULE Sidecar -------------------------------
(***************************************************************************)
(* The mindd process: boot stage by stage, RPCs through the interceptor    *)
(* chain into a block's driver, the hot reload on SIGHUP, graceful         *)
(* shutdown and restart (cmd/mindd, internal/server, internal/interceptor, *)
(* internal/policy, internal/admin and the blocks' services).              *)
(*                                                                         *)
(* The configuration file is one of Configs.  The drivers' own behaviour   *)
(* is in the other modules: here a driver is open or closed, kv and        *)
(* episodic ones keep sealed values, and any outcome its handler knows of  *)
(* may come out of the others.  Time is a count of seconds.                *)
(***************************************************************************)
EXTENDS Boot

CONSTANTS Configs,       \* the versions of the configuration file
          Requests,      \* sequence of the calls clients make
          MaxConcurrent, MaxCalls, MaxEdits, MaxTime, MaxStarts, MaxReloads

\* The fields every configuration has, whatever the file says.
ASSUME ConfigsAssumption ==
    /\ 1 \in DOMAIN Configs
    /\ \A i \in DOMAIN Configs :
          /\ {"tcp", "level", "auth", "policy"} \subseteq DOMAIN Configs[i]
          /\ {"verifier", "keys"} \subseteq DOMAIN Configs[i].auth
          /\ LET rules == Configs[i].policy.rules IN
             /\ rules \in Seq(Range(rules))
             /\ \A j \in DOMAIN rules : rules[j].rate \in Int /\ rules[j].burst \in Int
          /\ Configs[i].namespaces \in Seq(Range(Configs[i].namespaces))

ASSUME BoundsAssumption == {MaxConcurrent, MaxCalls, MaxEdits, MaxTime, MaxStarts, MaxReloads} \subseteq Nat

VARIABLES
    disk,      \* [cfg, edits]: the file, and how often it was edited
    proc,      \* [phase, stage, cfg, todo, closing, signal, forced, starts]
    reg,       \* block -> its registry
    live,      \* [verifier, engine, level]: configurations in force; engine is [cfg, n]
    reload,    \* [pc, cfg, hup]: the SIGHUP goroutine and its channel
    limiters,  \* sequence of [engine, rule, key, tokens]
    rpc,       \* slot -> call; its q is an index into Requests
    store,     \* set of [block, namespace, key, value] in the backends
    now,
    \* history
    closes,    \* driver -> how often it was closed in this run
    granted,   \* sequence of <<engine, rule, bucket key>> let through by a limiter
    seen,      \* [signalled, loaded]: edits at the last SIGHUP and at the last load
    calls

vars == <<disk, proc, reg, live, reload, limiters, rpc, store, now, closes, granted, seen, calls>>

Blocks == <<"kv", "episodic", "semantic", "artifact", "lease", "graph">>

\* Clients call the services there are.
ASSUME RequestsAssumption ==
    \A q \in 1 .. Len(Requests) :
        Requests[q].m.block \in Range(Blocks) \union {"admin", "health", "reflection"}

Stages == <<"config", "tracing", "metrics", "auth", "keyring">> \o Blocks
              \o <<"policy", "server", "tcp", "uds", "gateway">>

Slots == 1 .. MaxConcurrent

Idle == [pc |-> "idle"]

Cfg == Configs[proc.cfg]

Req(s) == Requests[rpc[s].q]

\* A slot keeps the answer of its last call until the next one takes it.
Free(s) == rpc[s].pc \in {"idle", "done"}

ConfigOf(b, name) == LET i == SelectInSeq(Cfg.namespaces, LAMBDA ns : ns.block = b /\ ns.name = name)
                     IN  Cfg.namespaces[i]

\* While it closes, todo are the registries left and closing the drivers taken from
\* the last one.
Stopped(starts) == [phase |-> "stopped", stage |-> 1, cfg |-> 1, todo |-> << >>, closing |-> << >>,
                    signal |-> FALSE, forced |-> FALSE, starts |-> starts]

NotLive == [verifier |-> 1, engine |-> [cfg |-> 1, n |-> 0], level |-> 1]

NoReload == [pc |-> "off", cfg |-> 1, hup |-> FALSE]

Init ==
    /\ disk \in [cfg : DOMAIN Configs, edits : {0}]
    /\ proc = Stopped(0)
    /\ reg = [b \in Range(Blocks) |-> NewRegistry]
    /\ live = NotLive
    /\ reload = NoReload
    /\ limiters = << >>
    /\ rpc = [s \in Slots |-> Idle]
    /\ store = {}
    /\ now = 0
    /\ closes = << >>
    /\ granted = << >>
    /\ seen = [signalled |-> 0, loaded |-> 0]
    /\ calls = 0

-----------------------------------------------------------------------------
(* The environment.                                                        *)

\* Boot reads the file when it starts, so edits made meanwhile wait until it is over.
EditConfig(c) ==
    /\ disk.edits < MaxEdits /\ c # disk.cfg /\ proc.phase \in {"stopped", "serving"}
    /\ disk' = [cfg |-> c, edits |-> disk.edits + 1]
    /\ UNCHANGED <<proc, reg, live, reload, limiters, rpc, store, now, closes, granted, seen, calls>>

\* Every second each limiter regains rate tokens, up to its burst.  Seconds before
\* there is a limiter are not counted.
Tick ==
    /\ now < MaxTime /\ proc.phase = "serving" /\ limiters # << >>
    /\ now' = now + 1
    /\ limiters' = [i \in 1 .. Len(limiters) |->
           LET l == limiters[i]
               b == burst(Configs[l.engine.cfg].policy.rules[l.rule])
               r == Configs[l.engine.cfg].policy.rules[l.rule].rate
           IN  [l EXCEPT !.tokens = IF @ + r > b THEN b ELSE @ + r]]
    /\ UNCHANGED <<disk, proc, reg, live, reload, rpc, store, closes, granted, seen, calls>>

-----------------------------------------------------------------------------
(* Boot.  main's run returns at the first stage that fails.                *)

\* A second run that follows no call is like a first one.
Start ==
    /\ proc.phase = "stopped" /\ proc.starts < MaxStarts
    /\ proc.starts > 0 => calls > 0
    /\ proc' = [Stopped(proc.starts + 1) EXCEPT !.phase = "boot", !.cfg = disk.cfg]
    /\ seen' = [signalled |-> disk.edits, loaded |-> disk.edits]
    /\ UNCHANGED <<disk, reg, live, reload, limiters, rpc, store, now, closes, granted, calls>>

buildServerTLS(c) == c.tls \in {"none", "ok"}

StageOk(c, st) ==
    CASE st = "config"   -> Load(c) /\ ParseLevel(c)
      [] st = "auth"     -> NewVerifier(applyDefaults(c).auth)
      [] st = "keyring"  -> buildKeyring(c)
      [] st = "kv"       -> buildKVRegistry(c)
      [] st = "episodic" -> buildEpisodicRegistry(c)
      [] st = "semantic" -> buildSemanticRegistry(c)
      [] st = "artifact" -> buildArtifactRegistry(c)
      [] st = "lease"    -> buildLeaseRegistry(c)
      [] st = "graph"    -> buildGraphRegistry(c)
      [] st = "policy"   -> buildPolicyEngine(c.policy)
      [] st = "tcp"      -> buildServerTLS(c)
      [] OTHER           -> TRUE

\* What a valid configuration can still meet: an exporter, an address in use, a
\* socket path, a backend that does not answer.
Fallible == {"tracing", "metrics", "tcp", "uds"} \union
    {b \in Range(Blocks) : \E name \in neededBackends(Cfg, b) : mayFail(Cfg, b, name)}

Opening(ds) == closes' = [d \in DOMAIN closes \union ds |-> IF d \in DOMAIN closes THEN closes[d] ELSE 0]

SetUp(st) ==
    /\ IF st \in Range(Blocks)
       THEN LET r == bindAll(Cfg, st) IN
            /\ reg' = [reg EXCEPT ![st] = r]
            /\ Opening(Range(r.owned))
       ELSE UNCHANGED <<reg, closes>>
    /\ live' = CASE st = "config" -> [live EXCEPT !.level = proc.cfg]
                 [] st = "auth"   -> [live EXCEPT !.verifier = proc.cfg]
                 [] st = "policy" -> [live EXCEPT !.engine = [cfg |-> proc.cfg, n |-> 0]]
                 [] OTHER         -> live

BootStage ==
    LET st == Stages[proc.stage] IN
    /\ proc.phase = "boot" /\ StageOk(Cfg, st)
    /\ SetUp(st)
    /\ IF proc.stage = Len(Stages)
       THEN /\ proc' = [proc EXCEPT !.phase = "serving"]
            /\ reload' = [reload EXCEPT !.pc = "wait", !.hup = FALSE]
       ELSE /\ proc' = [proc EXCEPT !.stage = @ + 1]
            /\ UNCHANGED reload
    /\ UNCHANGED <<disk, limiters, rpc, store, now, granted, seen, calls>>

\* The registries a failing stage closes itself, those built before it; the policy
\* stage forgets three.
explicit(st) ==
    CASE st \in Range(Blocks) -> Blocks
      [] st = "policy"        -> <<"kv", "episodic", "semantic">>
      [] OTHER                -> << >>

\* Deferred closes run afterwards, last registered first.  A build that fails returns
\* no registry, and what it opened nobody closes.
BootFails ==
    LET st == Stages[proc.stage] IN
    /\ proc.phase = "boot" /\ (st \in Fallible \/ ~ StageOk(Cfg, st))
    /\ IF st \in Range(Blocks) THEN \E ds \in abandoned(Cfg, st) : Opening(ds) ELSE UNCHANGED closes
    /\ proc' = [proc EXCEPT !.phase = "closing", !.todo = explicit(st) \o Reverse(Blocks)]
    /\ UNCHANGED <<disk, reg, live, reload, limiters, rpc, store, now, granted, seen, calls>>

-----------------------------------------------------------------------------
(* Shutdown.                                                               *)

\* Leaving the select.  A reload still under way is left out from here on: what it
\* would swap, calls could as well have met before the signal.
Drain ==
    /\ proc' = [proc EXCEPT !.phase = "draining", !.signal = TRUE]
    /\ reload' = NoReload
    /\ seen' = [signalled |-> 0, loaded |-> 0]

\* SIGTERM cancels the context that run selects on; a failed listener, metrics or
\* gateway server ends the select too and calls stop.
Signal ==
    /\ \/ /\ proc.phase = "serving" /\ ~ proc.signal
          /\ Drain
       \/ /\ proc.phase = "boot" /\ ~ proc.signal
          /\ proc' = [proc EXCEPT !.signal = TRUE]
          /\ UNCHANGED <<reload, seen>>
    /\ UNCHANGED <<disk, reg, live, limiters, rpc, store, now, closes, granted, calls>>

\* A signal that came during boot is noticed once the server is up.
Select ==
    /\ proc.phase = "serving" /\ proc.signal
    /\ Drain
    /\ UNCHANGED <<disk, reg, live, limiters, rpc, store, now, closes, granted, calls>>

\* A plausible error: the drivers are closed without waiting for GracefulStop.
GracefulStopNoWait ==
    /\ proc.phase = "draining"
    /\ proc' = [proc EXCEPT !.phase = "closing", !.todo = Reverse(Blocks)]
    /\ UNCHANGED <<disk, reg, live, reload, limiters, rpc, store, now, closes, granted, seen, calls>>

\* No call meets a limiter of a stopped server: they are forgotten here.
ServerGone == limiters' = << >> /\ granted' = << >>

\* GracefulStop returns when no call is left.
GracefulStop ==
    /\ proc.phase = "draining" /\ \A s \in Slots : Free(s)
    /\ proc' = [proc EXCEPT !.phase = "closing", !.todo = Reverse(Blocks)]
    /\ rpc' = [s \in Slots |-> Idle]
    /\ ServerGone
    /\ UNCHANGED <<disk, reg, live, reload, store, now, closes, seen, calls>>

\* A plausible error: Shutdown waits for GracefulStop only.
ShutdownTimeoutIgnored == FALSE /\ UNCHANGED vars

\* The timeout forces Stop, which cancels the calls but does not wait for their
\* handlers.  A call still on its way to a driver is left out from here on: it finds
\* its registry closed, or does what it would have done a little earlier.
ShutdownTimeout ==
    /\ proc.phase = "draining" /\ \E s \in Slots : ~ Free(s)
    /\ proc' = [proc EXCEPT !.phase = "closing", !.todo = Reverse(Blocks), !.forced = TRUE]
    /\ rpc' = [s \in Slots |-> IF rpc[s].pc = "driver" THEN rpc[s] ELSE Idle]
    /\ ServerGone
    /\ UNCHANGED <<disk, reg, live, reload, store, now, closes, seen, calls>>

\* The registries still to be closed that have a driver; closing another changes nothing.
Owning == {i \in 1 .. Len(proc.todo) : reg[proc.todo[i]].owned # << >>}

\* Registry.Close takes the driver list, and resolves nothing from then on.
CloseNext ==
    /\ proc.phase = "closing" /\ proc.closing = << >>
    /\ \E i \in Owning :
          /\ \A j \in Owning : i <= j
          /\ reg' = [reg EXCEPT ![proc.todo[i]] = NewRegistry]
          /\ proc' = [proc EXCEPT !.todo = SubSeq(@, i + 1, Len(@)), !.closing = reg[proc.todo[i]].owned]
    /\ UNCHANGED <<disk, live, reload, limiters, rpc, store, now, closes, granted, seen, calls>>

\* Then it closes the drivers one after the other.
Close ==
    /\ proc.phase = "closing" /\ proc.closing # << >>
    /\ closes' = [closes EXCEPT ![Head(proc.closing)] = @ + 1]
    /\ proc' = [proc EXCEPT !.closing = Tail(@)]
    /\ UNCHANGED <<disk, reg, live, reload, limiters, rpc, store, now, granted, seen, calls>>

\* Memory drivers take what they stored with them.
Surviving == {e \in store : e.durable}

Gone ==
    /\ proc' = Stopped(proc.starts)
    /\ rpc' = [s \in Slots |-> Idle]
    /\ reload' = NoReload
    /\ live' = NotLive
    /\ seen' = [signalled |-> 0, loaded |-> 0]
    /\ store' = Surviving
    /\ reg' = [b \in Range(Blocks) |-> NewRegistry]
    /\ limiters' = << >>
    /\ granted' = << >>
    /\ closes' = << >>

Exit ==
    /\ proc.phase = "closing" /\ proc.closing = << >> /\ Owning = {}
    /\ Gone
    /\ UNCHANGED <<disk, now, calls>>

\* The process is killed; during boot SIGHUP does that, its handler comes last.
Crash ==
    /\ proc.phase \in {"boot", "serving"} /\ proc.starts < MaxStarts
    /\ Gone
    /\ UNCHANGED <<disk, now, calls>>

-----------------------------------------------------------------------------
(* Reload.  The signal channel has room for one signal; one that finds it  *)
(* full is dropped.                                                        *)

\* A plausible error: an unbuffered channel, so a signal during a reload is lost.
HupUnbuffered ==
    /\ proc.phase = "serving" /\ live.engine.n < MaxReloads
    /\ reload' = [reload EXCEPT !.hup = reload.pc = "wait"]
    /\ seen' = [seen EXCEPT !.signalled = disk.edits]
    /\ UNCHANGED <<disk, proc, reg, live, limiters, rpc, store, now, closes, granted, calls>>

Hup ==
    /\ proc.phase = "serving" /\ live.engine.n < MaxReloads
    /\ reload' = [reload EXCEPT !.hup = TRUE]
    /\ seen' = [seen EXCEPT !.signalled = disk.edits]
    /\ UNCHANGED <<disk, proc, reg, live, limiters, rpc, store, now, closes, granted, calls>>

Reloadable(c) == Load(c) /\ NewVerifier(applyDefaults(c).auth) /\ buildPolicyEngine(c.policy) /\ ParseLevel(c)

\* A plausible error: the verifier is swapped before the rest is built.
ReloadLoadEager ==
    /\ reload.pc = "wait" /\ reload.hup
    /\ reload' = [pc |-> IF Reloadable(Configs[disk.cfg]) THEN "engine" ELSE "wait",
                  cfg |-> IF Reloadable(Configs[disk.cfg]) THEN disk.cfg ELSE 1, hup |-> FALSE]
    /\ live' = IF Load(Configs[disk.cfg]) THEN [live EXCEPT !.verifier = disk.cfg] ELSE live
    /\ seen' = [seen EXCEPT !.loaded = disk.edits]
    /\ UNCHANGED <<disk, proc, reg, limiters, rpc, store, now, closes, granted, calls>>

\* Everything is read and built before anything is swapped.
ReloadLoad ==
    /\ reload.pc = "wait" /\ reload.hup
    /\ reload' = [pc |-> IF Reloadable(Configs[disk.cfg]) THEN "verifier" ELSE "wait",
                  cfg |-> IF Reloadable(Configs[disk.cfg]) THEN disk.cfg ELSE 1, hup |-> FALSE]
    /\ seen' = [seen EXCEPT !.loaded = disk.edits]
    /\ UNCHANGED <<disk, proc, reg, live, limiters, rpc, store, now, closes, granted, calls>>

\* The swaps are one by one; a new engine starts with no buckets.  No call reads
\* the level, so it goes with the engine.
ReloadSwap ==
    /\ \/ /\ reload.pc = "verifier"
          /\ live' = [live EXCEPT !.verifier = reload.cfg]
          /\ reload' = [reload EXCEPT !.pc = "engine"]
       \/ /\ reload.pc = "engine"
          /\ live' = [live EXCEPT !.engine = [cfg |-> reload.cfg, n |-> @.n + 1], !.level = reload.cfg]
          /\ reload' = [reload EXCEPT !.pc = "wait", !.cfg = 1]
    /\ UNCHANGED <<disk, proc, reg, limiters, rpc, store, now, closes, granted, seen, calls>>

-----------------------------------------------------------------------------
(* Calls.                                                                  *)

CallVars == <<disk, proc, reg, live, reload, now, closes, seen>>

\* The listener is up from the tcp stage on, and stays up while a failed boot closes.
Accepting ==
    \/ proc.phase = "serving"
    \/ proc.phase = "boot" /\ Stages[proc.stage] \in {"uds", "gateway"}
    \/ proc.phase = "closing" /\ Stages[proc.stage] = "uds"

\* The gateway dials without TLS, and its connections close when the signal arrives.
GatewayUp == proc.phase = "serving" /\ Cfg.http /\ Cfg.tls = "none" /\ ~ proc.signal

\* Nobody receives an answer once the server was stopped by force.
Answer(s, r) == rpc' = [rpc EXCEPT ![s] = IF proc.forced THEN Idle ELSE r]

End(s, status) == Answer(s, [pc |-> "done", status |-> status])

\* Calls have no identity: a new one takes the first free slot.
Arrive(s, q) ==
    /\ calls < MaxCalls /\ Free(s) /\ Accepting
    /\ \A t \in 1 .. s - 1 : ~ Free(t)
    /\ Requests[q].via = "http" => GatewayUp /\ Routed(Requests[q].m)
    /\ rpc' = [rpc EXCEPT ![s] = [pc |-> "auth", q |-> q]]
    /\ calls' = calls + 1
    /\ UNCHANGED <<CallVars, limiters, store, granted>>

\* Health and reflection carry no capability and no policy.
authenticate(s) ==
    LET q == Req(s)
        auth == applyDefaults(Configs[live.verifier]).auth
        cap == q.token
    IN
    /\ rpc[s].pc = "auth"
    /\ IF isPublicMethod(q.m) THEN End(s, "OK")
       ELSE IF cap = None \/ ~ Verify(auth, cap, now) \/ Expired(cap, now) THEN End(s, "Unauthenticated")
       ELSE rpc' = [rpc EXCEPT ![s] = [pc |-> IF Streams(q.m) THEN "recv" ELSE "policy", q |-> rpc[s].q,
                                       verifier |-> live.verifier]]
    /\ UNCHANGED <<CallVars, limiters, store, granted, calls>>

\* The first message of a stream comes when the client sends it, or the client is gone.
RecvMsg(s) ==
    /\ rpc[s].pc = "recv"
    /\ \/ rpc' = [rpc EXCEPT ![s].pc = "policy"]
       \/ End(s, "Canceled")
    /\ UNCHANGED <<CallVars, limiters, store, granted, calls>>

\* The rule, from the i-th on, at which the evaluation stops or needs a limiter.
Decisive(rules, h, i) ==
    SelectInSubSeq(rules, i, Len(rules), LAMBDA r :
        /\ ruleMatches(r, h)
        /\ r.effect = "cap" => capExceeded(r, h))

\* A plausible error: a new limiter for every call.
limiterForFresh(e, j, key) ==
    /\ limiters' = Append(limiters, [engine |-> e, rule |-> j, key |-> key,
                                     tokens |-> burst(Configs[e.cfg].policy.rules[j])])

limiterFor(e, j, key) ==
    /\ limiters' = IF \E k \in 1 .. Len(limiters) : limiters[k].engine = e /\ limiters[k].key = key
                   THEN limiters
                   ELSE Append(limiters, [engine |-> e, rule |-> j, key |-> key,
                                          tokens |-> burst(Configs[e.cfg].policy.rules[j])])

\* The limiter a call holds is the last one made for its key.
Holding(ls, e, key) == SelectLastInSeq(ls, LAMBDA l : l.engine = e /\ l.key = key)

\* The call with the engine the holder has when its evaluation begins.
WithEngine(c) ==
    IF c.pc = "policy"
    THEN [pc |-> "rule", q |-> c.q, verifier |-> c.verifier, engine |-> live.engine, i |-> 1]
    ELSE c

\* The handler's checks; the registry is asked for the driver here.
Handle(s, c) ==
    LET q == Req(s)
        code == driverFor(q, q.token, reg[IF q.m.block = "admin" THEN "kv" ELSE q.m.block].bound)
    IN  IF code = "OK" THEN rpc' = [rpc EXCEPT ![s] = [c EXCEPT !.pc = "driver"]] ELSE End(s, code)

\* The engine is read once per call; the rules before the decisive one touch nothing shared.
evaluate(s) ==
    LET c == WithEngine(rpc[s])
        spec == Configs[c.engine.cfg].policy
        h == HookCtx(Req(s), Req(s).token)
        j == Decisive(spec.rules, h, c.i)
    IN
    /\ c.pc = "rule"
    /\ IF j # 0 /\ spec.rules[j].effect = "rate_limit"
       THEN /\ limiterFor(c.engine, j, bucketKey(spec.rules[j], h))
            /\ rpc' = [rpc EXCEPT ![s] = [c EXCEPT !.pc = "limit", !.i = j]]
       ELSE /\ UNCHANGED limiters
            /\ CASE j = 0 /\ spec.default = "deny"  -> End(s, policyCode(FALSE))
                 [] j # 0 /\ spec.rules[j].effect = "deny" -> End(s, policyCode(FALSE))
                 [] j # 0 /\ spec.rules[j].effect = "cap"  -> End(s, policyCode(TRUE))
                 [] OTHER                           -> Handle(s, c)
    /\ UNCHANGED <<CallVars, store, granted, calls>>

Allow(s) ==
    LET c == rpc[s]
        key == bucketKey(Configs[c.engine.cfg].policy.rules[c.i], HookCtx(Req(s), Req(s).token))
        k == Holding(limiters, c.engine, key)
    IN
    /\ c.pc = "limit"
    /\ IF limiters[k].tokens > 0
       THEN /\ limiters' = [limiters EXCEPT ![k].tokens = @ - 1]
            /\ granted' = Append(granted, <<c.engine, c.i, key>>)
            /\ rpc' = [rpc EXCEPT ![s].pc = "rule", ![s].i = @ + 1]
       ELSE /\ End(s, policyCode(TRUE))
            /\ UNCHANGED <<limiters, granted>>
    /\ UNCHANGED <<CallVars, store, calls>>

DriverOf(q) == servedBy(ConfigOf(q.m.block, q.namespace))

Closed(q) == q.m.block # "admin" /\ closes[DriverOf(q)] > 0

StorageNamespace(q) == QualifyNamespace(q.token.tenant, q.namespace, Cfg.isolate)

Encrypted(q) == ConfigOf(q.m.block, q.namespace).encrypt

aadOf(q, key) == IF q.m.block = "kv" THEN valueAAD(StorageNamespace(q), key) ELSE payloadAAD(StorageNamespace(q))

\* The rows of the call's storage namespace that it reads.
Rows(q) == {e \in store : /\ e.block = q.m.block /\ e.namespace = StorageNamespace(q)
                          /\ q.m.name \in {"Get", "Put"} => e.key = q.key}

backendOf(d) == findBackend(Cfg, IF d[1] = "semantic" THEN ConfigOf(d[1], d[2]).backend ELSE d[2])

\* The row a call stores; its bytes are of any form its client may send.
Written(q, form) ==
    [block |-> q.m.block, namespace |-> StorageNamespace(q), key |-> q.key,
     value |-> seal(Cfg.encryption, Encrypted(q), [of |-> q.token.tenant, form |-> form], aadOf(q, q.key)),
     durable |-> backendOf(DriverOf(q)).driver = "postgres"]

\* kv Put replaces a row, episodic Append adds one; both seal the value first.
Write(s) ==
    LET q == Req(s) IN
    /\ rpc[s].pc = "driver" /\ q.m.name \in {"Put", "Append"} /\ q.m.block \in encryptableBlocks
    /\ ~ Closed(q)
    /\ \E form \in q.forms :
           store' = (IF q.m.block = "kv" THEN store \ Rows(q) ELSE store) \union {Written(q, form)}
    /\ End(s, "OK")
    /\ UNCHANGED <<CallVars, limiters, granted, calls>>

\* One row that does not open fails the whole read.
Read(s) ==
    LET q == Req(s)
        shut == {e \in Rows(q) : ~ open(Cfg.encryption, Encrypted(q), e.value, aadOf(q, e.key))}
    IN
    /\ rpc[s].pc = "driver" /\ q.m.name \in {"Get", "Scan", "Range"} /\ q.m.block \in encryptableBlocks
    /\ ~ Closed(q)
    /\ Answer(s, [pc |-> "done", status |-> IF shut = {} THEN "OK" ELSE "Internal",
                  shut |-> shut, reader |-> q.token.tenant, encrypted |-> Encrypted(q),
                  result |-> IF shut # {} THEN {}
                             ELSE {opened(Cfg.encryption, Encrypted(q), e.value) : e \in Rows(q)}])
    /\ UNCHANGED <<CallVars, limiters, store, granted, calls>>

\* Counts are asked for under the configured name, not under the tenants' names.
NamespaceItems(b) == [name \in reg[b].bound |->
    Cardinality({e \in store : e.block = b /\ e.namespace = QualifyNamespace("", name, FALSE)})]

ListNamespaces(s) ==
    /\ rpc[s].pc = "driver" /\ Req(s).m.block = "admin"
    /\ Answer(s, [pc |-> "done", status |-> "OK", counts |-> [b \in Range(Blocks) |-> NamespaceItems(b)]])
    /\ UNCHANGED <<CallVars, limiters, store, granted, calls>>

\* Every other driver call: one of its known outcomes, an error, or a recovered panic.
\* A Tail ends only when its client leaves, the server stops it or its driver closes.
Other(s) ==
    LET q == Req(s) IN
    /\ rpc[s].pc = "driver"
    /\ q.m.name = "Tail" => proc.forced \/ Closed(q)
    /\ ~ (q.m.block = "admin" \/ (q.m.block \in encryptableBlocks /\ q.m.name \in {"Put", "Append", "Get", "Scan", "Range"}
                                  /\ ~ Closed(q)))
    /\ \E o \in DOMAIN methodToOp(q.m).answers \union {"ok", "error"} :
           /\ o = "ok" => ~ Closed(q)
           /\ End(s, answer(q.m, o))
    /\ UNCHANGED <<CallVars, limiters, store, granted, calls>>

Recovery(s) ==
    /\ rpc[s].pc = "driver"
    /\ End(s, "Internal")
    /\ UNCHANGED <<CallVars, limiters, store, granted, calls>>

CancelTail(s) ==
    /\ rpc[s].pc = "driver" /\ Req(s).m.name = "Tail"
    /\ End(s, answer(Req(s).m, "canceled"))
    /\ UNCHANGED <<CallVars, limiters, store, granted, calls>>

-----------------------------------------------------------------------------
ProcStep == BootStage \/ BootFails \/ Select \/ GracefulStop \/ ShutdownTimeout \/ CloseNext \/ Close \/ Exit

ReloadStep == ReloadLoad \/ ReloadSwap

CallStep(s) ==
    \/ authenticate(s) \/ RecvMsg(s) \/ evaluate(s) \/ Allow(s)
    \/ Write(s) \/ Read(s) \/ ListNamespaces(s) \/ Other(s) \/ Recovery(s) \/ CancelTail(s)

Next ==
    \/ \E c \in DOMAIN Configs : EditConfig(c)
    \/ Start \/ Tick \/ Signal \/ Crash \/ Hup
    \/ ProcStep
    \/ ReloadStep
    \/ \E s \in Slots : CallStep(s) \/ \E q \in 1 .. Len(Requests) : Arrive(s, q)

\* A call that may hold the lock of a registry (the counts of admin), or a connection
\* of the pool that is being closed.
Holds(s) ==
    /\ rpc[s].pc = "driver"
    /\ \/ Req(s).m.block = "admin"
       \/ /\ proc.closing # << >> /\ DriverOf(Req(s)) = Head(proc.closing)
          /\ backendOf(Head(proc.closing)).driver = "postgres"

\* Closing waits for such a call.
HeldUp == proc.phase = "closing" /\ \E s \in Slots : Holds(s)

\* The Go runtime schedules main, and the shutdown timer fires.  Clients and calls may
\* stand still for ever, except that Stop cancels the calls, with their statements:
\* Recovery stands for any end of a call that nobody hears of.
Fairness ==
    /\ WF_vars(ProcStep /\ ~ HeldUp)
    /\ \A s \in Slots : WF_vars(proc.forced /\ Recovery(s))

Spec == Init /\ [][Next]_vars /\ Fairness

-----------------------------------------------------------------------------
(* Properties.                                                             *)

\* The policy has an allow rule, or a default, that nothing stricter precedes.
Admitted(spec, h) ==
    LET n == Len(spec.rules)
        allows == {i \in 1 .. n : spec.rules[i].effect = "allow" /\ ruleMatches(spec.rules[i], h)}
        before == {i \in 1 .. n : ruleMatches(spec.rules[i], h) /\ \A a \in allows : i <= a}
    IN  /\ \A i \in before : /\ spec.rules[i].effect # "deny"
                             /\ spec.rules[i].effect = "cap" => ~ capExceeded(spec.rules[i], h)
        /\ allows # {} \/ spec.default # "deny"

\* A call that reached its driver was let in by one verifier and by one policy
\* that were in force during the call, judged on the namespace it really asks
\* for: no deny rule or exceeded cap comes before the first allow rule, streams
\* included.  Artifact uploads are left out: policy does not see their namespace.
ServedIsPermitted ==
    \A s \in Slots : rpc[s].pc = "driver" =>
        LET q == Req(s)
            h == [tenant |-> q.token.tenant, agent |-> q.token.agent, op |-> OpOf(q.m),
                  namespace |-> q.namespace, cost |-> q.cost]
        IN  /\ q.token.key \in AllKeys(Configs[rpc[s].verifier].auth)
            /\ q.m # [block |-> "artifact", name |-> "Put"] => Admitted(Configs[rpc[s].engine.cfg].policy, h)

\* However calls and reloads interleave, one engine lets through no more calls of
\* a bucket than its burst plus what the seconds since refilled.
RateLimitHolds ==
    \A k \in 1 .. Len(granted) :
        LET r == Configs[granted[k][1].cfg].policy.rules[granted[k][2]] IN
        Cardinality({i \in 1 .. Len(granted) : granted[i] = granted[k]}) <= burst(r) + now * r.rate

\* Between reloads the verifier, the engine and the log level come from one
\* configuration, and that one was valid as a whole.
ReloadIsWhole ==
    proc.phase = "serving" /\ reload.pc = "wait" =>
        /\ live.verifier = live.engine.cfg /\ live.engine.cfg = live.level
        /\ Reloadable(Configs[live.level])

\* A SIGHUP is never lost: once the reload goroutine rests, the file was read
\* at or after the last signal.
SignalledIsLoaded ==
    proc.phase = "serving" /\ reload.pc = "wait" /\ ~ reload.hup => seen.loaded >= seen.signalled

\* With tenant isolation a read returns what the reader's own tenant wrote, also
\* across restarts that change keys, encryption and isolation; what it returns is an
\* envelope only if the namespace is no longer encrypted.  A read fails to open a row
\* only if its key left the keyring, or it was never sealed and the migration flag is
\* off or its bytes look like an envelope.
ReadsRoundTrip ==
    \A s \in Slots : rpc[s].pc = "done" /\ "result" \in DOMAIN rpc[s] =>
        /\ \A v \in rpc[s].result :
               /\ Cfg.isolate => v.body.of = rpc[s].reader
               /\ v.key # None => ~ rpc[s].encrypted
        /\ \A e \in rpc[s].shut :
               IF e.value.key = None THEN ~ Cfg.encryption.plaintext \/ e.value.body.form = "shaped"
               ELSE e.value.key \notin KeyIds(Cfg.encryption)

\* A driver is closed at most once however boot or shutdown ends; when a run has
\* closed all it will, every driver is closed but those of a block whose own build
\* failed; and none is closed under a call that is using it unless the shutdown timed
\* out or boot failed with the listener already up.
ClosedOnceAfterCalls ==
    /\ \A d \in DOMAIN closes : closes[d] <= 1
    /\ proc.phase = "closing" /\ proc.closing = << >> /\ Owning = {} =>
           \A d \in DOMAIN closes : d[1] # Stages[proc.stage] => closes[d] = 1
    /\ \A s \in Slots : rpc[s].pc = "driver" /\ Closed(Req(s)) => proc.forced \/ proc.stage < Len(Stages)

\* After SIGTERM, at whatever moment, the process stops: open Tails do not hold it,
\* unless the boot had failed and a call that nothing cancels keeps its connection.
ShutdownCompletes == proc.signal ~> (proc.phase = "stopped" \/ [](HeldUp /\ ~ proc.forced))
=============================================================================
