--------------------------- MODULE SidecarProofs ----------------------------
(***************************************************************************)
(* The mindd process, for any configuration files and requests: a reload   *)
(* is neither lost nor half done, a call reaches its driver only past a    *)
(* verifier and a policy that were in force, a limiter grants no more than *)
(* its rate, every driver is closed once, not under a call, and a read     *)
(* answers with its own tenant's values.                                   *)
(***************************************************************************)
EXTENDS Sidecar, FiniteSetTheorems, SequenceTheorems, TLAPS

Phases == {"stopped", "boot", "serving", "draining", "closing"}

\* The records of the process and of its reload goroutine.
Types ==
    /\ disk \in [cfg : DOMAIN Configs, edits : Nat]
    /\ DOMAIN proc = {"phase", "stage", "cfg", "todo", "closing", "signal", "forced", "starts"}
    /\ proc.phase \in Phases /\ proc.stage \in 1 .. 16 /\ proc.cfg \in DOMAIN Configs
    /\ live \in [verifier : DOMAIN Configs, engine : [cfg : DOMAIN Configs, n : Nat],
                 level : DOMAIN Configs]
    /\ reload \in [pc : {"off", "wait", "verifier", "engine"}, cfg : DOMAIN Configs, hup : BOOLEAN]
    /\ seen \in [signalled : Nat, loaded : Nat]

\* The file was read at or after the last signal unless one is pending in the
\* channel; a signal came after the edits that it is about.
SeenInv ==
    /\ seen.signalled <= disk.edits
    /\ proc.phase = "boot" => seen.loaded >= seen.signalled
    /\ proc.phase = "serving" /\ ~ reload.hup => seen.loaded >= seen.signalled

\* Configuration i has a policy an engine can be built from.
PolicyOk(i) == buildPolicyEngine(Configs[i].policy)

\* What the stages of the boot left behind, and how far a reload has come.
WholeInv ==
    /\ proc.phase \in {"serving", "draining"} => proc.stage = 16
    /\ proc.phase = "boot" =>
         /\ proc.stage > 1 => /\ live.level = proc.cfg
                              /\ Load(Configs[proc.cfg]) /\ ParseLevel(Configs[proc.cfg])
         /\ proc.stage > 4 => /\ live.verifier = proc.cfg
                              /\ NewVerifier(applyDefaults(Configs[proc.cfg]).auth)
         /\ proc.stage > 12 => live.engine.cfg = proc.cfg
    /\ proc.phase # "stopped" /\ proc.stage > 12 => PolicyOk(live.engine.cfg)
    /\ reload.pc # "off" => proc.phase = "serving"
    /\ proc.phase = "serving" =>
         /\ ReloadIsWhole
         /\ reload.pc \in {"verifier", "engine"} => Reloadable(Configs[reload.cfg])
         /\ reload.pc = "engine" => live.verifier = reload.cfg

\* A rule ends the evaluation or asks a limiter; all rules before i let h on.
Stops(r, h) == ruleMatches(r, h) /\ (r.effect = "cap" => capExceeded(r, h))
LetOn(rules, h, i) == \A k \in 1 .. i - 1 : Stops(rules[k], h) => rules[k].effect = "rate_limit"

RulesOf(i) == Configs[i].policy.rules
HookOf(s)  == HookCtx(Req(s), Req(s).token)

\* A call past authentication carries the verifier that accepted its token; one
\* past policy the engine that judges it, and how far through its rules it is.
CallOk(s) ==
    LET c == rpc[s] IN
    /\ c.pc \in {"idle", "done", "auth", "recv", "policy", "rule", "limit", "driver"}
    /\ c.pc \in {"recv", "policy"} => DOMAIN c = {"pc", "q", "verifier"}
    /\ c.pc \in {"rule", "limit", "driver"} =>
         /\ DOMAIN c = {"pc", "q", "verifier", "engine", "i"}
         /\ c.engine \in [cfg : DOMAIN Configs, n : Nat] /\ PolicyOk(c.engine.cfg)
    /\ c.pc \in {"recv", "policy", "rule", "limit", "driver"} =>
         Req(s).token.key \in AllKeys(Configs[c.verifier].auth)
    /\ c.pc \in {"rule", "limit"} =>
         c.i \in Nat \ {0} /\ LetOn(RulesOf(c.engine.cfg), HookOf(s), c.i)
    /\ c.pc = "limit" =>
         c.i <= Len(RulesOf(c.engine.cfg)) /\ RulesOf(c.engine.cfg)[c.i].effect = "rate_limit"
    /\ c.pc = "driver" => Admitted(Configs[c.engine.cfg].policy, HookOf(s))

\* Calls are under way only once the listener is up.
CallInv ==
    /\ DOMAIN rpc = Slots
    /\ \A s \in Slots : CallOk(s)
    /\ (\E s \in Slots : ~ Free(s)) => proc.phase # "stopped" /\ proc.stage > 12

RuleOf(l)  == RulesOf(l.engine.cfg)[l.rule]
Bucket(l)  == <<l.engine, l.rule, l.key>>
IsSeq(seq) == seq \in Seq(Range(seq))

\* The places in a sequence of grants at which bucket b was granted.
Grants(seq, b) == { i \in 1 .. Len(seq) : seq[i] = b }

\* A limiter belongs to a rule of its engine, which its key names.
LimiterOk(l) ==
    /\ DOMAIN l = {"engine", "rule", "key", "tokens"}
    /\ l.engine \in [cfg : DOMAIN Configs, n : Nat] /\ PolicyOk(l.engine.cfg)
    /\ l.rule \in 1 .. Len(RulesOf(l.engine.cfg))
    /\ RuleOf(l).effect = "rate_limit" /\ l.key[1] = RuleOf(l).name

\* What a bucket granted and what it has left came from its burst and refills;
\* a bucket has one limiter, and no call was granted without one.
RateInv ==
    /\ now \in Nat /\ IsSeq(limiters) /\ IsSeq(granted)
    /\ \A k \in 1 .. Len(limiters) :
         /\ LimiterOk(limiters[k]) /\ limiters[k].tokens \in Nat
         /\ Cardinality(Grants(granted, Bucket(limiters[k]))) + limiters[k].tokens
              <= burst(RuleOf(limiters[k])) + now * RuleOf(limiters[k]).rate
    /\ \A j, k \in 1 .. Len(limiters) :
         limiters[j].engine = limiters[k].engine /\ limiters[j].key = limiters[k].key => j = k
    /\ \A i \in 1 .. Len(granted) : \E k \in 1 .. Len(limiters) : granted[i] = Bucket(limiters[k])

\* A call that waits for its limiter finds it.
KeyOf(s) == bucketKey(RulesOf(rpc[s].engine.cfg)[rpc[s].i], HookOf(s))
HoldInv ==
    \A s \in Slots : rpc[s].pc = "limit" =>
        \E k \in 1 .. Len(limiters) :
            limiters[k].engine = rpc[s].engine /\ limiters[k].key = KeyOf(s)

\* A registry of block b lists drivers of b only, each of them once.
RegistryOk(r, b) ==
    /\ DOMAIN r = {"bound", "owned"} /\ IsSeq(r.owned)
    /\ \A i, j \in 1 .. Len(r.owned) : r.owned[i] = r.owned[j] => i = j
    /\ \A d \in Range(r.owned) : d[1] = b

\* A registry of the first n namespaces of a configuration: a namespace it has
\* bound is one of the file's, and the driver of every namespace is owned.
BoundOk(r, c, b, n) ==
    /\ RegistryOk(r, b)
    /\ \A name \in r.bound : \E i \in 1 .. n : c.namespaces[i].block = b /\ c.namespaces[i].name = name
    /\ \A i \in 1 .. n : c.namespaces[i].block = b => servedBy(c.namespaces[i]) \in Range(r.owned)
    /\ \A d \in Range(r.owned) : \E i \in 1 .. n : c.namespaces[i].block = b /\ d = servedBy(c.namespaces[i])

Owned(b) == Range(reg[b].owned)

\* The block whose registry could not be built; what its build opened stays open.
Failed(b) == proc.phase = "closing" /\ b = Stages[proc.stage]

\* A driver is closed once if its registry has let go of it and its turn was there,
\* and otherwise not.
DriversInv ==
    /\ DOMAIN reg = Range(Blocks)
    /\ \A b \in Range(Blocks) : RegistryOk(reg[b], b) /\ Owned(b) \subseteq DOMAIN closes
    /\ IsSeq(proc.closing)
    /\ \A i, j \in 1 .. Len(proc.closing) : proc.closing[i] = proc.closing[j] => i = j
    /\ \A d \in Range(proc.closing) : d \in DOMAIN closes /\ d \notin Owned(d[1]) /\ ~ Failed(d[1])
    /\ \A d \in DOMAIN closes :
          /\ d[1] \in Range(Blocks)
          /\ closes[d] = IF d \in Owned(d[1]) \/ d \in Range(proc.closing) \/ Failed(d[1]) THEN 0 ELSE 1

\* Which registries are built: none of a stage to come, those of the configuration
\* while the process runs, and only some that are on the list when it closes them.
BuiltInv ==
    /\ proc.phase # "closing" => proc.closing = << >>
    /\ proc.phase = "stopped" => closes = << >> /\ \A b \in Range(Blocks) : reg[b] = NewRegistry
    /\ proc.phase = "boot" =>
          \A k \in proc.stage .. 16 : Stages[k] \in Range(Blocks) => reg[Stages[k]] = NewRegistry
    /\ proc.phase \in {"boot", "serving", "draining"} =>
          /\ \A d \in DOMAIN closes : d \in Owned(d[1])
          /\ \A b \in Range(Blocks) :
                reg[b] = NewRegistry \/ BoundOk(reg[b], Cfg, b, Len(Cfg.namespaces))
    /\ proc.phase = "closing" =>
          /\ proc.todo \in Seq(Range(Blocks))
          /\ \A b \in Range(Blocks) :
                /\ Owned(b) # {} => \E i \in 1 .. Len(proc.todo) : proc.todo[i] = b
                /\ Failed(b) => reg[b] = NewRegistry

\* The driver a request asks for under configuration c, as DriverOf under Cfg.
DriverIn(c, q) ==
    LET i == SelectInSeq(c.namespaces, LAMBDA ns : ns.block = q.m.block /\ ns.name = q.namespace)
    IN  servedBy(c.namespaces[i])

\* The driver that a call asks for is owned; the admin service asks for none.
UsesOwned(s) ==
    Req(s).m.block # "admin" => DriverIn(Cfg, Req(s)) \in Owned(Req(s).m.block)

\* A call in its driver uses one that is owned, until the process closes; then no
\* call is left, or it was cut off, or the boot had failed.
UseInv ==
    /\ \A s \in Slots : ~ Free(s) => rpc[s].q \in 1 .. Len(Requests)
    /\ \A s \in Slots : rpc[s].pc \notin {"idle", "done", "auth"} => ~ isPublicMethod(Req(s).m)
    /\ proc.phase \in {"boot", "serving", "draining"} =>
          \A s \in Slots : rpc[s].pc = "driver" => UsesOwned(s)
    /\ proc.phase = "closing" => proc.forced \/ proc.stage < 16 \/ \A s \in Slots : Free(s)

\* A row in a tenant's own namespace was written by that tenant, and a sealed one
\* is bound to its place.
RowOk(e) ==
    /\ Len(e.namespace) = 2 => e.namespace[1] = e.value.body.of
    /\ e.value.key # None =>
         e.value.aad = IF e.block = "kv" THEN valueAAD(e.namespace, e.key)
                       ELSE payloadAAD(e.namespace)

\* What a read under configuration c may answer.
ReadOk(c, r) ==
    r.pc = "done" /\ "result" \in DOMAIN r =>
        /\ \A v \in r.result :
               /\ c.isolate => v.body.of = r.reader
               /\ v.key # None => ~ r.encrypted
        /\ \A e \in r.shut :
               IF e.value.key = None THEN ~ c.encryption.plaintext \/ e.value.body.form = "shaped"
               ELSE e.value.key \notin KeyIds(c.encryption)

\* The rows and the answers are in order; no answer outlives its configuration.
ReadInv ==
    /\ \A e \in store : RowOk(e)
    /\ \A s \in Slots : ReadOk(Cfg, rpc[s])
    /\ proc.phase = "stopped" => \A s \in Slots : rpc[s] = Idle

----------------------------------------------------------------------------
(* The stages of the boot.                                                 *)

\* The stages in their order.
LEMMA StageOrder ==
  /\ Len(Stages) = 16
  /\ Stages[1] = "config" /\ Stages[2] = "tracing" /\ Stages[3] = "metrics"
  /\ Stages[4] = "auth" /\ Stages[5] = "keyring" /\ Stages[6] = "kv"
  /\ Stages[7] = "episodic" /\ Stages[8] = "semantic" /\ Stages[9] = "artifact"
  /\ Stages[10] = "lease" /\ Stages[11] = "graph" /\ Stages[12] = "policy"
  /\ Stages[13] = "server" /\ Stages[14] = "tcp" /\ Stages[15] = "uds"
  /\ Stages[16] = "gateway"
BY DEF Stages, Blocks

\* The process keeps its records in every step.
LEMMA TypesStep ==
  ASSUME Types, [Next]_vars
  PROVE  Types'
<1> USE DEF Types
<1>0. 1 \in DOMAIN Configs
  BY ConfigsAssumption
<1>1. ASSUME NEW c \in DOMAIN Configs, EditConfig(c) PROVE Types'
  BY <1>1 DEF EditConfig
<1>2. CASE Start
  BY <1>0, <1>2 DEF Start, Stopped, Phases
<1>3. CASE BootStage
  <2>1. live' \in [verifier : DOMAIN Configs, engine : [cfg : DOMAIN Configs, n : Nat],
                   level : DOMAIN Configs]
    <3> DEFINE st == Stages[proc.stage]
    <3>1. live' = CASE st = "config" -> [live EXCEPT !.level = proc.cfg]
                    [] st = "auth"   -> [live EXCEPT !.verifier = proc.cfg]
                    [] st = "policy" -> [live EXCEPT !.engine = [cfg |-> proc.cfg, n |-> 0]]
                    [] OTHER         -> live
      BY <1>3 DEF BootStage, SetUp
    <3> HIDE DEF st
    <3> QED BY <3>1
  <2>2. CASE proc.stage = Len(Stages)
    <3>1. /\ proc' = [proc EXCEPT !.phase = "serving"]
          /\ reload' = [reload EXCEPT !.pc = "wait", !.hup = FALSE]
          /\ UNCHANGED <<disk, seen>>
      BY <1>3, <2>2 DEF BootStage
    <3> QED BY <2>1, <3>1 DEF Phases
  <2>3. CASE proc.stage # Len(Stages)
    <3>1. /\ proc' = [proc EXCEPT !.stage = @ + 1]
          /\ UNCHANGED <<disk, reload, seen>>
      BY <1>3, <2>3 DEF BootStage
    <3>2. proc.stage \in 1 .. 16 /\ proc.stage # 16
      BY <2>3, StageOrder
    <3> QED BY <2>1, <3>1, <3>2
  <2> QED BY <2>2, <2>3
<1>4. CASE BootFails
  <2>1. PICK todo : proc' = [proc EXCEPT !.phase = "closing", !.todo = todo]
    BY <1>4 DEF BootFails
  <2> QED BY <1>4, <2>1 DEF BootFails, Phases
<1>5. CASE Signal \/ Select
  <2>1. CASE Drain
    BY <1>0, <1>5, <2>1 DEF Signal, Select, Drain, NoReload, Phases
  <2>2. CASE proc' = [proc EXCEPT !.signal = TRUE] /\ UNCHANGED <<reload, seen>>
    BY <1>5, <2>2 DEF Signal, Select
  <2> QED BY <1>5, <2>1, <2>2 DEF Signal, Select
<1>6. CASE GracefulStop \/ ShutdownTimeout
  <2>1. PICK todo, forced :
          proc' = [proc EXCEPT !.phase = "closing", !.todo = todo, !.forced = forced]
    <3>1. CASE GracefulStop
      <4>1. PICK todo : proc' = [proc EXCEPT !.phase = "closing", !.todo = todo]
        BY <3>1 DEF GracefulStop
      <4>2. proc' = [proc EXCEPT !.phase = "closing", !.todo = todo, !.forced = proc.forced]
        BY <4>1
      <4> QED BY <4>2
    <3>2. CASE ShutdownTimeout
      BY <3>2 DEF ShutdownTimeout
    <3> QED BY <1>6, <3>1, <3>2
  <2> QED BY <1>6, <2>1 DEF GracefulStop, ShutdownTimeout, Phases
<1>7. CASE CloseNext \/ Close
  <2>1. PICK todo, ds : proc' = [proc EXCEPT !.todo = todo, !.closing = ds]
    <3>1. CASE CloseNext
      BY <3>1 DEF CloseNext
    <3>2. CASE Close
      <4>1. proc' = [proc EXCEPT !.todo = proc.todo, !.closing = Tail(proc.closing)]
        BY <3>2 DEF Close
      <4> QED BY <4>1
    <3> QED BY <1>7, <3>1, <3>2
  <2> QED BY <1>7, <2>1 DEF CloseNext, Close
<1>8. CASE Gone /\ disk' = disk
  BY <1>0, <1>8 DEF Gone, Stopped, NoReload, NotLive, Phases
<1>9. CASE Hup
  BY <1>9 DEF Hup
<1>10. CASE ReloadLoad
  <2>1. PICK pc \in {"wait", "verifier"}, cfg \in {1, disk.cfg} :
          reload' = [pc |-> pc, cfg |-> cfg, hup |-> FALSE]
    BY <1>10 DEF ReloadLoad
  <2>2. seen' = [seen EXCEPT !.loaded = disk.edits] /\ UNCHANGED <<disk, proc, live>>
    BY <1>10 DEF ReloadLoad
  <2> QED BY <1>0, <2>1, <2>2
<1>11. CASE ReloadSwap
  <2>1. UNCHANGED <<disk, proc, seen>>
    BY <1>11 DEF ReloadSwap
  <2>2. CASE live' = [live EXCEPT !.verifier = reload.cfg]
             /\ reload' = [reload EXCEPT !.pc = "engine"]
    BY <2>1, <2>2
  <2>3. CASE /\ live' = [live EXCEPT !.engine = [cfg |-> reload.cfg, n |-> @.n + 1],
                                     !.level = reload.cfg]
             /\ reload' = [reload EXCEPT !.pc = "wait", !.cfg = 1]
    <3>1. live.engine.n + 1 \in Nat /\ reload.cfg \in DOMAIN Configs
      OBVIOUS
    <3>2. live' \in [verifier : DOMAIN Configs, engine : [cfg : DOMAIN Configs, n : Nat],
                     level : DOMAIN Configs]
      BY <2>3, <3>1
    <3> QED BY <1>0, <2>1, <2>3, <3>2
  <2> QED BY <1>11, <2>2, <2>3 DEF ReloadSwap
<1>12. CASE UNCHANGED <<disk, proc, live, reload, seen>>
  BY <1>12
<1>13. ASSUME NEW s \in Slots, CallStep(s) \/ \E q \in 1 .. Len(Requests) : Arrive(s, q)
       PROVE  UNCHANGED <<disk, proc, live, reload, seen>>
  BY <1>13 DEF CallStep, Arrive, authenticate, RecvMsg, evaluate, Allow, Write, Read,
     ListNamespaces, Other, Recovery, CancelTail, CallVars
<1> QED
  BY <1>1, <1>2, <1>3, <1>4, <1>5, <1>6, <1>7, <1>8, <1>9, <1>10, <1>11, <1>12, <1>13
     DEF Next, ProcStep, ReloadStep, Tick, Exit, Crash, vars

----------------------------------------------------------------------------
(* Reloads.                                                                *)

\* Calls leave the process, its configuration and its reload alone.
LEMMA CallsApart ==
  ASSUME NEW s \in Slots, CallStep(s) \/ \E q \in 1 .. Len(Requests) : Arrive(s, q)
  PROVE  UNCHANGED CallVars
BY DEF CallStep, Arrive, authenticate, RecvMsg, evaluate, Allow, Write, Read,
   ListNamespaces, Other, Recovery, CancelTail

\* A signal is remembered in the channel until the file is read after it.
LEMMA SeenStep ==
  ASSUME Types, SeenInv, [Next]_vars
  PROVE  SeenInv'
<1>0. /\ disk.edits \in Nat /\ seen.signalled \in Nat /\ seen.loaded \in Nat
      /\ DOMAIN seen = {"signalled", "loaded"} /\ DOMAIN reload = {"pc", "cfg", "hup"}
      /\ {"phase", "stage", "todo", "closing", "signal", "forced"} \subseteq DOMAIN proc
  BY DEF Types
<1> USE DEF SeenInv
<1>1. ASSUME NEW c, EditConfig(c) PROVE SeenInv'
  BY <1>0, <1>1 DEF EditConfig
<1>2. CASE Start
  BY <1>0, <1>2 DEF Start, Stopped
<1>3. CASE BootStage
  <2>1. UNCHANGED <<disk, seen>> /\ seen.loaded >= seen.signalled
    BY <1>3 DEF BootStage
  <2> QED BY <2>1
<1>4. CASE proc'.phase \notin {"boot", "serving"} /\ seen' = [signalled |-> 0, loaded |-> 0]
           /\ disk' = disk
  BY <1>0, <1>4
<1>5. CASE proc'.phase = "closing" /\ UNCHANGED <<disk, seen>>
  BY <1>5
<1>6. CASE Signal \/ Select
  <2>1. CASE Drain /\ disk' = disk
    BY <1>0, <1>4, <2>1 DEF Drain
  <2>2. CASE proc' = [proc EXCEPT !.signal = TRUE] /\ UNCHANGED <<disk, reload, seen>>
    BY <1>0, <2>2
  <2> QED BY <1>6, <2>1, <2>2 DEF Signal, Select
<1>7. CASE BootFails \/ GracefulStop \/ ShutdownTimeout \/ CloseNext \/ Close
  <2>1. proc'.phase = "closing"
    BY <1>0, <1>7 DEF BootFails, GracefulStop, ShutdownTimeout, CloseNext, Close
  <2> QED BY <1>5, <1>7, <2>1 DEF BootFails, GracefulStop, ShutdownTimeout, CloseNext, Close
<1>8. CASE Gone /\ disk' = disk
  BY <1>4, <1>8 DEF Gone, Stopped
<1>9. CASE Hup
  BY <1>0, <1>9 DEF Hup
<1>10. CASE ReloadLoad
  <2>1. reload'.hup = FALSE /\ seen'.loaded = disk.edits /\ seen'.signalled = seen.signalled
        /\ UNCHANGED <<disk, proc>>
    BY <1>0, <1>10 DEF ReloadLoad
  <2>2. proc.phase = "boot" => seen'.loaded >= seen.signalled
    BY <1>0, <2>1
  <2> QED BY <1>0, <2>1, <2>2
<1>11. CASE ReloadSwap
  BY <1>0, <1>11 DEF ReloadSwap
<1>12. CASE UNCHANGED <<disk, proc, reload, seen>>
  BY <1>12
<1> QED
  BY <1>1, <1>2, <1>3, <1>6, <1>7, <1>8, <1>9, <1>10, <1>11, <1>12, CallsApart
     DEF Next, ProcStep, ReloadStep, Tick, Exit, Crash, CallVars, vars

\* The process starts with its records in order.
LEMMA InitTypes == Init => Types /\ SeenInv /\ WholeInv
BY ConfigsAssumption, StageOrder
   DEF Init, Types, SeenInv, WholeInv, Stopped, NotLive, NoReload, Phases

\* However edits, signals and reloads interleave, no SIGHUP is lost: once the
\* reload goroutine rests the file was read after the last signal.
THEOREM SignalsHeeded == Spec => []SignalledIsLoaded
<1>1. SeenInv => SignalledIsLoaded
  BY DEF SeenInv, SignalledIsLoaded
<1> QED
  BY <1>1, InitTypes, TypesStep, SeenStep, PTL DEF Spec

\* A stage of the boot checks its part of the configuration before the next
\* one runs, and a reload checks all of it before it swaps the first part.
LEMMA WholeStep ==
  ASSUME Types, WholeInv, [Next]_vars
  PROVE  WholeInv'
<1>0. /\ proc.phase \in Phases /\ proc.stage \in 1 .. 16
      /\ {"phase", "stage", "cfg", "todo", "signal", "forced"} \subseteq DOMAIN proc
      /\ DOMAIN reload = {"pc", "cfg", "hup"} /\ DOMAIN live = {"verifier", "engine", "level"}
      /\ DOMAIN live.engine = {"cfg", "n"}
      /\ reload.pc \in {"off", "wait", "verifier", "engine"}
  BY DEF Types
<1>1. CASE UNCHANGED <<proc, live, reload>>
  BY <1>1 DEF WholeInv, ReloadIsWhole
<1>2. CASE Start
  <2>1. proc'.phase = "boot" /\ proc'.stage = 1 /\ reload' = reload /\ proc.phase = "stopped"
    BY <1>2 DEF Start, Stopped
  <2> QED BY <2>1 DEF WholeInv
<1>3. CASE BootStage
  <2> DEFINE st == Stages[proc.stage]
  <2>1. proc.phase = "boot" /\ StageOk(Cfg, st)
    BY <1>3 DEF BootStage
  <2>2. live' = CASE st = "config" -> [live EXCEPT !.level = proc.cfg]
                  [] st = "auth"   -> [live EXCEPT !.verifier = proc.cfg]
                  [] st = "policy" -> [live EXCEPT !.engine = [cfg |-> proc.cfg, n |-> 0]]
                  [] OTHER         -> live
    BY <1>3 DEF BootStage, SetUp
  <2>3. proc'.cfg = proc.cfg /\ IF proc.stage = 16
                                THEN proc'.phase = "serving" /\ proc'.stage = 16 /\ reload'.pc = "wait"
                                ELSE proc'.phase = "boot" /\ proc'.stage = proc.stage + 1
                                     /\ reload' = reload
    <3>1. Len(Stages) = 16
      BY StageOrder
    <3>2. DOMAIN proc = {"phase", "stage", "cfg", "todo", "closing", "signal", "forced", "starts"}
      BY DEF Types
    <3>3. "pc" \in DOMAIN reload
      BY DEF Types
    <3>4. CASE proc.stage = 16
      <4>1. proc' = [proc EXCEPT !.phase = "serving"]
            /\ reload' = [reload EXCEPT !.pc = "wait", !.hup = FALSE]
        BY <1>3, <3>1, <3>4 DEF BootStage
      <4> QED BY <3>2, <3>3, <3>4, <4>1
    <3>5. CASE proc.stage # 16
      <4>1. proc' = [proc EXCEPT !.stage = @ + 1] /\ reload' = reload
        BY <1>3, <3>1, <3>5 DEF BootStage
      <4>2. proc.phase = "boot"
        BY <1>3 DEF BootStage
      <4> QED BY <3>2, <3>5, <4>1, <4>2
    <3> QED BY <3>4, <3>5
  <2>4. /\ st = "config" <=> proc.stage = 1
        /\ st = "auth"   <=> proc.stage = 4
        /\ st = "policy" <=> proc.stage = 12
    BY <1>0, StageOrder
  <2> HIDE DEF st
  <2>5. /\ live'.level = IF proc.stage = 1 THEN proc.cfg ELSE live.level
        /\ live'.verifier = IF proc.stage = 4 THEN proc.cfg ELSE live.verifier
        /\ live'.engine.cfg = IF proc.stage = 12 THEN proc.cfg ELSE live.engine.cfg
    BY <1>0, <2>2, <2>4
  <2>6. /\ proc.stage = 1  => Load(Configs[proc.cfg]) /\ ParseLevel(Configs[proc.cfg])
        /\ proc.stage = 4  => NewVerifier(applyDefaults(Configs[proc.cfg]).auth)
        /\ proc.stage = 12 => PolicyOk(proc.cfg)
    BY <2>1, <2>4 DEF StageOk, Cfg, PolicyOk
  <2>7. /\ proc.stage >= 1  => live'.level = proc.cfg
                               /\ Load(Configs[proc.cfg]) /\ ParseLevel(Configs[proc.cfg])
        /\ proc.stage >= 4  => live'.verifier = proc.cfg
                               /\ NewVerifier(applyDefaults(Configs[proc.cfg]).auth)
        /\ proc.stage >= 12 => live'.engine.cfg = proc.cfg /\ PolicyOk(proc.cfg)
    BY <1>0, <2>1, <2>5, <2>6 DEF WholeInv
  <2>8. CASE proc.stage = 16
    <3>1. Reloadable(Configs[proc.cfg])
      BY <2>7, <2>8 DEF Reloadable, PolicyOk
    <3> QED BY <2>3, <2>7, <2>8, <3>1 DEF WholeInv, ReloadIsWhole
  <2>9. CASE proc.stage # 16
    <3>1. proc'.phase = "boot" /\ proc'.stage = proc.stage + 1 /\ reload' = reload
      BY <2>3, <2>9
    <3> QED BY <1>0, <2>1, <2>3, <2>7, <3>1 DEF WholeInv
  <2> QED BY <2>8, <2>9
<1>4. CASE proc'.phase \in {"draining", "closing"} /\ proc'.stage = proc.stage
           /\ live' = live /\ reload'.pc = "off" /\ proc.phase # "stopped"
           /\ (proc'.phase = "draining" => proc.stage = 16)
  BY <1>4 DEF WholeInv
<1>5. CASE Signal \/ Select
  <2>1. CASE proc.phase = "serving" /\ Drain
    BY <1>0, <1>4, <1>5, <2>1 DEF Signal, Select, Drain, NoReload, WholeInv
  <2>2. CASE proc' = [proc EXCEPT !.signal = TRUE] /\ UNCHANGED reload
    <3>1. live' = live
      BY <1>5 DEF Signal, Select
    <3> QED BY <1>0, <2>2, <3>1 DEF WholeInv, ReloadIsWhole
  <2> QED BY <1>5, <2>1, <2>2 DEF Signal, Select
<1>6. CASE BootFails \/ GracefulStop \/ ShutdownTimeout \/ CloseNext \/ Close
  <2>1. proc'.phase = "closing" /\ proc'.stage = proc.stage /\ UNCHANGED <<live, reload>>
        /\ proc.phase \in {"boot", "draining", "closing"}
    BY <1>0, <1>6 DEF BootFails, GracefulStop, ShutdownTimeout, CloseNext, Close
  <2>2. reload.pc = "off"
    BY <2>1 DEF WholeInv
  <2> QED BY <1>4, <2>1, <2>2
<1>7. CASE Gone
  <2>1. proc'.phase = "stopped" /\ reload'.pc = "off"
    BY <1>7 DEF Gone, Stopped, NoReload
  <2> QED BY <2>1 DEF WholeInv
<1>8. CASE Hup
  <2>1. UNCHANGED <<proc, live>> /\ reload'.pc = reload.pc /\ reload'.cfg = reload.cfg
    BY <1>0, <1>8 DEF Hup
  <2> QED BY <2>1 DEF WholeInv, ReloadIsWhole
<1>9. CASE ReloadLoad
  <2>1. UNCHANGED <<proc, live>> /\ reload.pc = "wait"
    BY <1>9 DEF ReloadLoad
  <2>2. \/ Reloadable(Configs[disk.cfg]) /\ reload'.pc = "verifier" /\ reload'.cfg = disk.cfg
        \/ reload'.pc = "wait"
    BY <1>9 DEF ReloadLoad
  <2> QED BY <2>1, <2>2 DEF WholeInv, ReloadIsWhole
<1>10. CASE ReloadSwap
  <2>1. proc' = proc /\ proc.phase = "serving"
    BY <1>10 DEF ReloadSwap, WholeInv
  <2>2. \/ /\ reload.pc = "verifier"
           /\ live'.verifier = reload.cfg /\ live'.engine = live.engine
           /\ reload'.pc = "engine" /\ reload'.cfg = reload.cfg
        \/ /\ reload.pc = "engine"
           /\ live'.verifier = live.verifier /\ live'.engine.cfg = reload.cfg
           /\ live'.level = reload.cfg /\ reload'.pc = "wait"
    <3>1. CASE reload.pc = "verifier"
      BY <1>0, <1>10, <3>1 DEF ReloadSwap
    <3>2. CASE reload.pc = "engine"
      <4> DEFINE n == live.engine.n + 1
      <4>1. /\ live' = [live EXCEPT !.engine = [cfg |-> reload.cfg, n |-> n], !.level = reload.cfg]
            /\ reload' = [reload EXCEPT !.pc = "wait", !.cfg = 1]
        BY <1>10, <3>2 DEF ReloadSwap
      <4> HIDE DEF n
      <4> QED BY <1>0, <3>2, <4>1
    <3> QED BY <1>10, <3>1, <3>2 DEF ReloadSwap
  <2>3. Reloadable(Configs[reload.cfg]) => PolicyOk(reload.cfg)
    BY DEF Reloadable, PolicyOk
  <2> QED BY <2>1, <2>2, <2>3 DEF WholeInv, ReloadIsWhole
<1> QED
  BY <1>1, <1>2, <1>3, <1>5, <1>6, <1>7, <1>8, <1>9, <1>10, CallsApart
     DEF Next, ProcStep, ReloadStep, Tick, Exit, Crash, EditConfig, CallVars, vars

\* Between reloads verifier, engine and log level come from one configuration,
\* which was valid as a whole, whenever signals, edits and failed reloads come.
THEOREM ReloadsWhole == Spec => []ReloadIsWhole
<1>1. WholeInv => ReloadIsWhole
  BY DEF WholeInv, ReloadIsWhole
<1> QED
  BY <1>1, InitTypes, TypesStep, WholeStep, PTL DEF Spec

----------------------------------------------------------------------------
(* Calls.                                                                  *)

\* Every non-empty set of naturals has a least element.
LEMMA LeastNatural ==
  ASSUME NEW T \in SUBSET Nat, T # {}
  PROVE  \E x \in T : \A y \in T : x <= y
<1> DEFINE R == {ss \in Nat \X Nat : ss[1] < ss[2]}
<1>1. IsWellFoundedOn(R, Nat)
  BY NatLessThanWellFounded DEF OpToRel
<1>2. PICK x \in T : \A y \in T : ~ (<<y, x>> \in R)
  BY <1>1, WFMin
<1>3. ASSUME NEW y \in T PROVE x <= y
  <2>1. y \in Nat /\ x \in Nat /\ ~ (y < x)
    BY <1>2
  <2> QED BY <2>1
<1> QED
  BY <1>3

\* The defaults add no token key.
LEMMA DefaultsKeepKeys ==
  ASSUME NEW i \in DOMAIN Configs
  PROVE  AllKeys(applyDefaults(Configs[i]).auth) = AllKeys(Configs[i].auth)
<1>1. {"tcp", "level", "auth", "policy"} \subseteq DOMAIN Configs[i]
      /\ {"verifier", "keys"} \subseteq DOMAIN Configs[i].auth
  BY ConfigsAssumption
<1> DEFINE c == Configs[i]
<1> HIDE DEF c
<1>2. ASSUME {"tcp", "level", "auth", "policy"} \subseteq DOMAIN c,
             {"verifier", "keys"} \subseteq DOMAIN c.auth
      PROVE  applyDefaults(c).auth.keys = c.auth.keys
  BY <1>2 DEF applyDefaults
<1> QED
  BY <1>1, <1>2 DEF AllKeys, c

\* Every configuration has a sequence of rules with whole rates.
LEMMA RulesSeq ==
  ASSUME NEW i \in DOMAIN Configs
  PROVE  /\ Len(RulesOf(i)) \in Nat /\ DOMAIN RulesOf(i) = 1 .. Len(RulesOf(i))
         /\ \A j \in 1 .. Len(RulesOf(i)) : RulesOf(i)[j].rate \in Int /\ RulesOf(i)[j].burst \in Int
BY ConfigsAssumption DEF RulesOf

\* The decisive rule is the first one, from i on, that stops the call.
LEMMA DecisiveFirst ==
  ASSUME NEW rules, Len(rules) \in Nat, NEW h, NEW i \in Nat \ {0}
  PROVE  LET j == Decisive(rules, h, i)
         IN  \/ j = 0 /\ \A k \in i .. Len(rules) : ~ Stops(rules[k], h)
             \/ /\ j \in i .. Len(rules) /\ Stops(rules[j], h)
                /\ \A k \in i .. j - 1 : ~ Stops(rules[k], h)
<1> DEFINE I == { k \in i .. Len(rules) : Stops(rules[k], h) }
<1>1. Decisive(rules, h, i) = IF I # {} THEN Min(I) ELSE 0
  BY DEF Decisive, SelectInSubSeq, Stops
<1>2. CASE I = {}
  BY <1>1, <1>2
<1>3. CASE I # {}
  <2>1. PICK x \in I : \A y \in I : x <= y
    <3>1. I \in SUBSET Nat /\ I # {}
      BY <1>3
    <3> HIDE DEF I
    <3> QED BY <3>1, LeastNatural
  <2>2. Min(I) \in I /\ \A y \in I : Min(I) <= y
    BY <2>1 DEF Min
  <2> DEFINE j == Min(I)
  <2> HIDE DEF j
  <2>3. j \in i .. Len(rules) /\ Stops(rules[j], h) /\ \A y \in I : j <= y
    BY <2>2 DEF j
  <2>4. ASSUME NEW k \in i .. j - 1, Stops(rules[k], h) PROVE FALSE
    <3>1. k \in I /\ ~ (j <= k)
      BY <2>3, <2>4
    <3> QED BY <2>3, <3>1
  <2> QED BY <1>1, <1>3, <2>3, <2>4 DEF j
<1> QED
  BY <1>2, <1>3

\* A call that no rule before the decisive one stops is admitted unless that
\* rule is a deny, a cap or a limit, or there is none and the default is deny.
LEMMA AdmittedAfter ==
  ASSUME NEW cfg \in DOMAIN Configs, PolicyOk(cfg), NEW h, NEW j,
         \/ /\ j = 0 /\ Configs[cfg].policy.default # "deny"
            /\ LetOn(RulesOf(cfg), h, Len(RulesOf(cfg)) + 1)
         \/ /\ j \in 1 .. Len(RulesOf(cfg)) /\ Stops(RulesOf(cfg)[j], h)
            /\ RulesOf(cfg)[j].effect \notin {"deny", "cap", "rate_limit"}
            /\ LetOn(RulesOf(cfg), h, j)
  PROVE  Admitted(Configs[cfg].policy, h)
<1> DEFINE rules == RulesOf(cfg)
           n == Len(rules)
           allows == {i \in 1 .. n : rules[i].effect = "allow" /\ ruleMatches(rules[i], h)}
           before == {i \in 1 .. n : ruleMatches(rules[i], h) /\ \A a \in allows : i <= a}
<1>1. n \in Nat
  BY RulesSeq
<1>2. Admitted(Configs[cfg].policy, h) <=>
        /\ \A i \in before : /\ rules[i].effect # "deny"
                             /\ rules[i].effect = "cap" => ~ capExceeded(rules[i], h)
        /\ allows # {} \/ Configs[cfg].policy.default # "deny"
  BY DEF Admitted, RulesOf
<1>3. \A i \in 1 .. n : rules[i].effect \in {"allow", "deny", "rate_limit", "cap"}
  <2>1. CASE rules = << >>
    <3>1. Len(rules) = 0
      BY <2>1
    <3> QED BY <3>1
  <2>2. CASE validSpec(Configs[cfg].policy)
    BY <2>2 DEF validSpec, validRule, RulesOf
  <2> QED BY <2>1, <2>2 DEF PolicyOk, buildPolicyEngine, RulesOf
<1> HIDE DEF rules
<1>4. CASE j = 0
  <2>1. \A i \in 1 .. n : Stops(rules[i], h) => rules[i].effect = "rate_limit"
    BY <1>1, <1>4 DEF LetOn, rules
  <2>2. \A i \in 1 .. n : ruleMatches(rules[i], h) =>
          /\ rules[i].effect # "deny"
          /\ rules[i].effect = "cap" => ~ capExceeded(rules[i], h)
    BY <2>1 DEF Stops
  <2> QED BY <1>1, <1>2, <1>4, <2>2
<1>5. CASE j # 0
  <2>1. j \in 1 .. n /\ Stops(rules[j], h) /\ rules[j].effect = "allow"
    BY <1>3, <1>5 DEF rules
  <2>2. j \in allows
    BY <2>1 DEF Stops
  <2>3. \A i \in 1 .. j - 1 : Stops(rules[i], h) => rules[i].effect = "rate_limit"
    BY <1>5 DEF LetOn, rules
  <2>4. ASSUME NEW i \in before
        PROVE  /\ rules[i].effect # "deny"
               /\ rules[i].effect = "cap" => ~ capExceeded(rules[i], h)
    <3>1. ruleMatches(rules[i], h) /\ i <= j /\ i \in 1 .. n
      BY <2>2, <2>4
    <3>2. CASE i = j
      BY <2>1, <3>2
    <3>3. CASE i # j
      <4>1. i \in 1 .. j - 1
        BY <1>1, <2>1, <3>1, <3>3
      <4> QED BY <2>3, <3>1, <4>1 DEF Stops
    <3> QED BY <3>2, <3>3
  <2> QED BY <1>2, <2>2, <2>4
<1> QED
  BY <1>4, <1>5

\* An answered call needs nothing more.
LEMMA AnsweredOk ==
  ASSUME NEW s \in Slots, DOMAIN rpc = Slots, NEW r, Answer(s, r), r.pc = "done"
  PROVE  CallOk(s)' /\ rpc' = [rpc EXCEPT ![s] = rpc'[s]]
<1>1. rpc'[s].pc \in {"idle", "done"} /\ rpc' = [rpc EXCEPT ![s] = rpc'[s]]
  BY DEF Answer, Idle
<1> QED
  BY <1>1 DEF CallOk

\* The engine a call is judged by was built when the evaluation began.
LEMMA EngineOk ==
  ASSUME Types, WholeInv, CallInv, NEW s \in Slots, WithEngine(rpc[s]).pc = "rule"
  PROVE  LET c == WithEngine(rpc[s]) IN
         /\ DOMAIN c = {"pc", "q", "verifier", "engine", "i"}
         /\ c.q = rpc[s].q /\ c.engine \in [cfg : DOMAIN Configs, n : Nat]
         /\ PolicyOk(c.engine.cfg)
         /\ Req(s).token.key \in AllKeys(Configs[c.verifier].auth)
         /\ c.i \in Nat \ {0} /\ LetOn(RulesOf(c.engine.cfg), HookOf(s), c.i)
         /\ ~ Free(s)
<1>1. CallOk(s)
  BY DEF CallInv
<1>2. CASE rpc[s].pc = "policy"
  <2>1. WithEngine(rpc[s]) = [pc |-> "rule", q |-> rpc[s].q, verifier |-> rpc[s].verifier,
                              engine |-> live.engine, i |-> 1]
    BY <1>2 DEF WithEngine
  <2>2. ~ Free(s)
    BY <1>2 DEF Free
  <2>3. PolicyOk(live.engine.cfg) /\ live.engine \in [cfg : DOMAIN Configs, n : Nat]
    BY <2>2 DEF CallInv, WholeInv, Types
  <2>4. LetOn(RulesOf(live.engine.cfg), HookOf(s), 1)
    BY DEF LetOn
  <2>5. Req(s).token.key \in AllKeys(Configs[rpc[s].verifier].auth)
    BY <1>1, <1>2 DEF CallOk
  <2> QED BY <2>1, <2>2, <2>3, <2>4, <2>5
<1>3. CASE rpc[s].pc # "policy"
  <2>1. WithEngine(rpc[s]) = rpc[s] /\ rpc[s].pc = "rule"
    BY <1>3 DEF WithEngine
  <2> QED BY <1>1, <2>1 DEF CallOk, Free
<1> QED
  BY <1>2, <1>3

\* Each step of a call carries its verifier, its engine and what the engine has
\* let pass so far on to the next; only an admitted call reaches its driver.
LEMMA CallStepOk ==
  ASSUME Types, WholeInv, CallInv, NEW s \in Slots, CallStep(s)
  PROVE  CallOk(s)' /\ rpc' = [rpc EXCEPT ![s] = rpc'[s]] /\ ~ Free(s)
<1>0. DOMAIN rpc = Slots /\ CallOk(s)
  BY DEF CallInv
<1>1. ASSUME NEW st, End(s, st) PROVE CallOk(s)' /\ rpc' = [rpc EXCEPT ![s] = rpc'[s]]
  BY <1>0, <1>1, AnsweredOk DEF End
<1>2. CASE authenticate(s)
  <2>1. rpc[s].pc = "auth" /\ ~ Free(s)
    BY <1>2 DEF authenticate, Free
  <2>2. CASE \E st : End(s, st)
    BY <1>1, <2>1, <2>2
  <2>3. CASE ~ \E st : End(s, st)
    <3> DEFINE auth == applyDefaults(Configs[live.verifier]).auth
               pc == IF Streams(Req(s).m) THEN "recv" ELSE "policy"
               r == [pc |-> pc, q |-> rpc[s].q, verifier |-> live.verifier]
    <3>1. Verify(auth, Req(s).token, now) /\ rpc' = [rpc EXCEPT ![s] = r]
      BY <1>2, <2>3 DEF authenticate
    <3>2. Req(s).token.key \in AllKeys(auth)
      BY <3>1 DEF Verify, verifyPASETO, verifyJWT
    <3>3. live.verifier \in DOMAIN Configs
      BY DEF Types
    <3>4. Req(s).token.key \in AllKeys(Configs[live.verifier].auth)
      BY <3>2, <3>3, DefaultsKeepKeys
    <3>5. rpc'[s] = r /\ rpc' = [rpc EXCEPT ![s] = rpc'[s]]
      BY <1>0, <3>1
    <3>6. /\ r.pc \in {"recv", "policy"} /\ DOMAIN r = {"pc", "q", "verifier"}
          /\ r.q = rpc[s].q /\ r.verifier = live.verifier
      OBVIOUS
    <3> HIDE DEF r
    <3>7. Req(s)' = Req(s)
      BY <3>5, <3>6 DEF Req
    <3>8. CallOk(s)'
      BY <3>4, <3>5, <3>6, <3>7 DEF CallOk
    <3> QED BY <2>1, <3>5, <3>8
  <2> QED BY <2>2, <2>3
<1>3. CASE RecvMsg(s)
  <2>1. rpc[s].pc = "recv" /\ ~ Free(s)
    BY <1>3 DEF RecvMsg, Free
  <2>2. CASE \E st : End(s, st)
    BY <1>1, <2>1, <2>2
  <2>3. CASE rpc' = [rpc EXCEPT ![s].pc = "policy"]
    <3>1. /\ rpc'[s] = [rpc[s] EXCEPT !.pc = "policy"]
          /\ rpc' = [rpc EXCEPT ![s] = rpc'[s]]
      BY <1>0, <2>3
    <3>2. DOMAIN rpc[s] = {"pc", "q", "verifier"}
      BY <1>0, <2>1 DEF CallOk
    <3>3. /\ rpc'[s].pc = "policy" /\ DOMAIN rpc'[s] = {"pc", "q", "verifier"}
          /\ rpc'[s].q = rpc[s].q /\ rpc'[s].verifier = rpc[s].verifier
      BY <3>1, <3>2
    <3>4. Req(s).token.key \in AllKeys(Configs[rpc[s].verifier].auth)
      BY <1>0, <2>1 DEF CallOk
    <3> QED BY <2>1, <3>1, <3>3, <3>4 DEF CallOk, Req
  <2> QED BY <1>3, <2>2, <2>3 DEF RecvMsg
<1>4. CASE evaluate(s)
  <2> DEFINE c == WithEngine(rpc[s])
             rules == RulesOf(c.engine.cfg)
             h == HookOf(s)
             j == Decisive(rules, h, c.i)
  <2>1. c.pc = "rule"
    BY <1>4 DEF evaluate
  <2>2. /\ DOMAIN c = {"pc", "q", "verifier", "engine", "i"}
        /\ c.q = rpc[s].q /\ c.engine \in [cfg : DOMAIN Configs, n : Nat]
        /\ PolicyOk(c.engine.cfg)
        /\ Req(s).token.key \in AllKeys(Configs[c.verifier].auth)
        /\ c.i \in Nat \ {0} /\ LetOn(rules, h, c.i) /\ ~ Free(s)
    BY <2>1, EngineOk
  <2>3. CASE \E st : End(s, st)
    BY <1>1, <2>2, <2>3
  <2>4. \/ /\ j # 0 /\ rules[j].effect = "rate_limit"
           /\ rpc' = [rpc EXCEPT ![s] = [c EXCEPT !.pc = "limit", !.i = j]]
        \/ /\ ~ (j # 0 /\ rules[j].effect = "rate_limit")
           /\ \/ \E st : End(s, st)
              \/ /\ ~ (j = 0 /\ Configs[c.engine.cfg].policy.default = "deny")
                 /\ ~ (j # 0 /\ rules[j].effect = "deny")
                 /\ ~ (j # 0 /\ rules[j].effect = "cap")
                 /\ rpc' = [rpc EXCEPT ![s] = [c EXCEPT !.pc = "driver"]]
    BY <1>4 DEF evaluate, Handle, RulesOf, HookOf
  <2>5. c.engine.cfg \in DOMAIN Configs
    BY <2>2
  <2>6. Len(rules) \in Nat
    BY <2>5, RulesSeq
  <2>7. \/ j = 0 /\ \A k \in c.i .. Len(rules) : ~ Stops(rules[k], h)
        \/ /\ j \in c.i .. Len(rules) /\ Stops(rules[j], h)
           /\ \A k \in c.i .. j - 1 : ~ Stops(rules[k], h)
    BY <2>2, <2>6, DecisiveFirst
  <2> DEFINE i == c.i
  <2>8. i \in Nat \ {0} /\ \A k \in 1 .. i - 1 : Stops(rules[k], h) => rules[k].effect = "rate_limit"
    BY <2>2 DEF LetOn
  <2>9. IF j = 0 THEN LetOn(rules, h, Len(rules) + 1)
        ELSE j \in 1 .. Len(rules) /\ Stops(rules[j], h) /\ LetOn(rules, h, j)
    <3> HIDE DEF rules, h, j, i
    <3>1. CASE j = 0
      <4>1. \A k \in i .. Len(rules) : ~ Stops(rules[k], h)
        BY <2>7, <2>8, <3>1 DEF i
      <4>2. ASSUME NEW k \in 1 .. Len(rules) + 1 - 1, Stops(rules[k], h)
            PROVE  rules[k].effect = "rate_limit"
        <5>1. k \in 1 .. i - 1
          BY <2>6, <2>8, <4>1, <4>2
        <5> QED BY <2>8, <4>2, <5>1
      <4> QED BY <3>1, <4>2 DEF LetOn
    <3>2. CASE j # 0
      <4>1. /\ j \in i .. Len(rules) /\ Stops(rules[j], h)
            /\ \A k \in i .. j - 1 : ~ Stops(rules[k], h)
        BY <2>7, <3>2 DEF i
      <4>2. ASSUME NEW k \in 1 .. j - 1, Stops(rules[k], h)
            PROVE  rules[k].effect = "rate_limit"
        <5>1. k \in 1 .. i - 1
          BY <2>6, <2>8, <4>1, <4>2
        <5> QED BY <2>8, <4>2, <5>1
      <4>3. j \in 1 .. Len(rules)
        BY <2>6, <2>8, <4>1
      <4> QED BY <3>2, <4>1, <4>2, <4>3 DEF LetOn
    <3> QED BY <3>1, <3>2
  <2> DEFINE cfg == c.engine.cfg
  <2>10. ASSUME NEW r, DOMAIN r = DOMAIN c, r.q = c.q, r.engine = c.engine, r.verifier = c.verifier,
                rpc' = [rpc EXCEPT ![s] = r],
                \/ /\ r.pc = "limit" /\ r.i \in 1 .. Len(rules) /\ LetOn(rules, h, r.i)
                   /\ rules[r.i].effect = "rate_limit"
                \/ r.pc = "driver" /\ Admitted(Configs[cfg].policy, h)
         PROVE  CallOk(s)' /\ rpc' = [rpc EXCEPT ![s] = rpc'[s]] /\ ~ Free(s)
    <3>1. rpc'[s] = r
      BY <1>0, <2>10
    <3>2. Req(s)' = Req(s) /\ HookOf(s)' = h
      BY <2>2, <2>10, <3>1 DEF Req, HookOf
    <3> HIDE DEF rules, h, c
    <3>3. CallOk(s)'
      BY <2>2, <2>6, <2>10, <3>1, <3>2 DEF CallOk, rules
    <3> QED BY <2>2, <2>10, <3>1, <3>3
  <2>11. CASE /\ j # 0 /\ rules[j].effect = "rate_limit"
              /\ rpc' = [rpc EXCEPT ![s] = [c EXCEPT !.pc = "limit", !.i = j]]
    <3> DEFINE r == [c EXCEPT !.pc = "limit", !.i = j]
    <3>1. /\ DOMAIN r = DOMAIN c /\ r.q = c.q /\ r.engine = c.engine /\ r.verifier = c.verifier
          /\ r.pc = "limit" /\ r.i = j
      <4> HIDE DEF c, j
      <4> QED BY <2>2
    <3> HIDE DEF r, j, rules, h
    <3>2. rpc' = [rpc EXCEPT ![s] = r]
      BY <2>11 DEF r
    <3> QED BY <2>9, <2>10, <2>11, <3>1, <3>2
  <2>12. CASE /\ ~ (j # 0 /\ rules[j].effect = "rate_limit")
              /\ ~ (j = 0 /\ Configs[c.engine.cfg].policy.default = "deny")
              /\ ~ (j # 0 /\ rules[j].effect = "deny")
              /\ ~ (j # 0 /\ rules[j].effect = "cap")
              /\ rpc' = [rpc EXCEPT ![s] = [c EXCEPT !.pc = "driver"]]
    <3> DEFINE r == [c EXCEPT !.pc = "driver"]
    <3>1. /\ DOMAIN r = DOMAIN c /\ r.q = c.q /\ r.engine = c.engine /\ r.verifier = c.verifier
          /\ r.pc = "driver"
      <4> HIDE DEF c
      <4> QED BY <2>2
    <3> HIDE DEF r, j, h
    <3>2. Admitted(Configs[cfg].policy, h)
      <4>1. cfg \in DOMAIN Configs /\ PolicyOk(cfg) /\ rules = RulesOf(cfg)
        BY <2>2, <2>5
      <4> HIDE DEF cfg, rules
      <4>2. \/ /\ j = 0 /\ Configs[cfg].policy.default # "deny"
               /\ LetOn(RulesOf(cfg), h, Len(RulesOf(cfg)) + 1)
            \/ /\ j \in 1 .. Len(RulesOf(cfg)) /\ Stops(RulesOf(cfg)[j], h)
               /\ RulesOf(cfg)[j].effect \notin {"deny", "cap", "rate_limit"}
               /\ LetOn(RulesOf(cfg), h, j)
        BY <2>9, <2>12, <4>1 DEF cfg
      <4> QED BY <4>1, <4>2, AdmittedAfter
    <3> HIDE DEF rules
    <3>3. rpc' = [rpc EXCEPT ![s] = r]
      BY <2>12 DEF r
    <3> QED BY <2>10, <3>1, <3>2, <3>3
  <2> QED BY <2>3, <2>4, <2>11, <2>12
<1>5. CASE Allow(s)
  <2> DEFINE c == rpc[s]
             rules == RulesOf(c.engine.cfg)
             h == HookOf(s)
             r == [c EXCEPT !.pc = "rule", !.i = @ + 1]
  <2>1. c.pc = "limit" /\ ~ Free(s)
    BY <1>5 DEF Allow, Free
  <2>2. CASE \E st : End(s, st)
    BY <1>1, <2>1, <2>2
  <2>3. CASE rpc' = [rpc EXCEPT ![s].pc = "rule", ![s].i = @ + 1]
    <3>1. rpc'[s] = r /\ rpc' = [rpc EXCEPT ![s] = rpc'[s]]
      BY <1>0, <2>3
    <3>2. /\ DOMAIN c = {"pc", "q", "verifier", "engine", "i"}
          /\ c.engine \in [cfg : DOMAIN Configs, n : Nat] /\ PolicyOk(c.engine.cfg)
          /\ Req(s).token.key \in AllKeys(Configs[c.verifier].auth)
          /\ c.i \in Nat \ {0} /\ LetOn(rules, h, c.i)
          /\ rules[c.i].effect = "rate_limit"
      BY <1>0, <2>1 DEF CallOk
    <3>3. /\ r.pc = "rule" /\ DOMAIN r = {"pc", "q", "verifier", "engine", "i"} /\ r.q = c.q
          /\ r.verifier = c.verifier /\ r.engine = c.engine /\ r.i = c.i + 1
      <4> HIDE DEF c
      <4> QED BY <3>2
    <3> HIDE DEF r
    <3>4. Req(s)' = Req(s) /\ HookOf(s)' = h
      BY <3>1, <3>3 DEF Req, HookOf
    <3> HIDE DEF rules, h
    <3>5. c.i + 1 \in Nat \ {0} /\ LetOn(rules, h, c.i + 1)
      <4> DEFINE m == c.i
      <4>1. m \in Nat \ {0} /\ rules[m].effect = "rate_limit"
            /\ \A k \in 1 .. m - 1 : Stops(rules[k], h) => rules[k].effect = "rate_limit"
        BY <3>2 DEF LetOn
      <4> HIDE DEF m
      <4>2. ASSUME NEW k \in 1 .. m + 1 - 1, Stops(rules[k], h)
            PROVE  rules[k].effect = "rate_limit"
        <5>1. k \in 1 .. m - 1 \/ k = m
          BY <4>1
        <5> QED BY <4>1, <4>2, <5>1
      <4>3. m + 1 \in Nat \ {0}
        BY <4>1
      <4>4. LetOn(rules, h, m + 1)
        BY <4>1, <4>2 DEF LetOn
      <4> QED BY <4>3, <4>4 DEF m
    <3> HIDE DEF c
    <3>6. CallOk(s)'
      BY <3>1, <3>2, <3>3, <3>4, <3>5 DEF CallOk, rules
    <3> QED BY <2>1, <3>1, <3>6
  <2> QED BY <1>5, <2>2, <2>3 DEF Allow
<1>6. CASE Write(s) \/ Read(s) \/ ListNamespaces(s) \/ Other(s) \/ Recovery(s) \/ CancelTail(s)
  <2>1. rpc[s].pc = "driver" /\ ~ Free(s)
    BY <1>6 DEF Write, Read, ListNamespaces, Other, Recovery, CancelTail, Free
  <2>2. \E r : r.pc = "done" /\ Answer(s, r)
    BY <1>6 DEF Write, Read, ListNamespaces, Other, Recovery, CancelTail, End
  <2> QED BY <1>0, <2>1, <2>2, AnsweredOk
<1> QED
  BY <1>2, <1>3, <1>4, <1>5, <1>6 DEF CallStep

\* Calls come only while the listener is up, and none outlives its process.
LEMMA CallsStep ==
  ASSUME Types, WholeInv, CallInv, [Next]_vars
  PROVE  CallInv'
<1>0. /\ DOMAIN rpc = Slots /\ \A s \in Slots : CallOk(s)
      /\ proc.phase \in Phases /\ proc.stage \in 1 .. 16
      /\ {"phase", "stage", "cfg", "todo", "signal", "forced"} \subseteq DOMAIN proc
  BY DEF CallInv, Types
<1>1. ASSUME rpc' = rpc, (\E s \in Slots : ~ Free(s)) => proc'.phase # "stopped" /\ proc'.stage > 12
      PROVE  CallInv'
  BY <1>0, <1>1 DEF CallInv, CallOk, Free, Req, HookOf
<1>2. ASSUME NEW I \in SUBSET Slots, rpc' = [s \in Slots |-> IF s \in I THEN Idle ELSE rpc[s]],
             (\E s \in Slots \ I : ~ Free(s)) => proc'.phase # "stopped" /\ proc'.stage > 12
      PROVE  CallInv'
  <2>1. ASSUME NEW s \in Slots PROVE CallOk(s)'
    <3>1. CASE s \in I
      BY <1>2, <3>1 DEF CallOk, Idle
    <3>2. CASE s \notin I
      <4>1. rpc'[s] = rpc[s] /\ CallOk(s)
        BY <1>0, <1>2, <3>2
      <4> QED BY <4>1 DEF CallOk, Req, HookOf
    <3> QED BY <3>1, <3>2
  <2>2. ASSUME NEW s \in Slots, ~ Free(s)' PROVE s \notin I /\ ~ Free(s)
    BY <1>2, <2>2 DEF Free, Idle
  <2>3. DOMAIN rpc' = Slots
    BY <1>2
  <2> QED BY <1>2, <2>1, <2>2, <2>3 DEF CallInv
<1>3. ASSUME NEW s \in Slots, rpc' = [rpc EXCEPT ![s] = rpc'[s]], CallOk(s)',
             proc'.phase # "stopped" /\ proc'.stage > 12
      PROVE  CallInv'
  <2>1. ASSUME NEW t \in Slots PROVE CallOk(t)'
    <3>1. CASE t = s
      BY <1>3, <3>1
    <3>2. CASE t # s
      <4>1. rpc'[t] = rpc[t] /\ CallOk(t)
        BY <1>0, <1>3, <3>2
      <4> QED BY <4>1 DEF CallOk, Req, HookOf
    <3> QED BY <3>1, <3>2
  <2>2. DOMAIN rpc' = Slots
    BY <1>0, <1>3
  <2> QED BY <1>3, <2>1, <2>2 DEF CallInv
<1>4. CASE Start
  BY <1>1, <1>4 DEF Start, CallInv
<1>5. CASE BootStage
  <2>1. rpc' = rpc /\ proc'.phase \in {"boot", "serving"} /\ proc'.stage >= proc.stage
    BY <1>0, <1>5 DEF BootStage
  <2>2. proc'.stage \in Int
    BY TypesStep DEF Types
  <2> QED BY <1>0, <1>1, <2>1, <2>2 DEF CallInv
<1>6. CASE rpc' = rpc /\ proc'.stage = proc.stage /\ proc'.phase # "stopped"
  BY <1>1, <1>6 DEF CallInv
<1>7. CASE BootFails \/ Signal \/ Select \/ CloseNext \/ Close
  <2>1. rpc' = rpc /\ proc'.stage = proc.stage /\ proc'.phase \in {"boot", "draining", "closing"}
    BY <1>0, <1>7 DEF BootFails, Signal, Select, Drain, CloseNext, Close
  <2> QED BY <1>6, <2>1
<1>8. CASE GracefulStop
  BY <1>2, <1>8 DEF GracefulStop
<1>9. CASE ShutdownTimeout
  <2> DEFINE I == { s \in Slots : rpc[s].pc # "driver" }
  <2>1. rpc' = [s \in Slots |-> IF s \in I THEN Idle ELSE rpc[s]]
    BY <1>9 DEF ShutdownTimeout
  <2>2. proc'.phase = "closing" /\ proc'.stage = proc.stage /\ proc.phase = "draining"
    BY <1>0, <1>9 DEF ShutdownTimeout
  <2>3. proc'.stage > 12
    BY <2>2 DEF WholeInv
  <2> QED BY <1>2, <2>1, <2>2, <2>3
<1>10. CASE Gone
  BY <1>2, <1>10 DEF Gone
<1>11. CASE UNCHANGED <<rpc, proc>>
  BY <1>1, <1>11 DEF CallInv
<1>12. ASSUME NEW s \in Slots, CallStep(s) PROVE CallInv'
  <2>1. CallOk(s)' /\ rpc' = [rpc EXCEPT ![s] = rpc'[s]] /\ ~ Free(s)
    BY <1>12, CallStepOk
  <2>2. proc' = proc
    BY <1>12, CallsApart DEF CallVars
  <2> QED BY <1>3, <2>1, <2>2 DEF CallInv
<1>13. ASSUME NEW s \in Slots, NEW q, Arrive(s, q) PROVE CallInv'
  <2>1. rpc' = [rpc EXCEPT ![s] = [pc |-> "auth", q |-> q]] /\ proc' = proc /\ Accepting
    BY <1>13 DEF Arrive, CallVars
  <2>2. rpc'[s] = [pc |-> "auth", q |-> q] /\ rpc' = [rpc EXCEPT ![s] = rpc'[s]]
    BY <1>0, <2>1
  <2>3. CallOk(s)'
    BY <2>2 DEF CallOk
  <2>4. proc.phase # "stopped" /\ proc.stage > 12
    BY <1>0, <2>1, StageOrder DEF Accepting, WholeInv
  <2> QED BY <1>3, <2>1, <2>2, <2>3, <2>4
<1> QED
  BY <1>4, <1>5, <1>7, <1>8, <1>9, <1>10, <1>11, <1>12, <1>13
     DEF Next, ProcStep, ReloadStep, Tick, Exit, Crash, EditConfig, Hup, ReloadLoad, ReloadSwap, vars

\* Nothing is under way at the start.
LEMMA InitCalls == Init => CallInv
BY DEF Init, CallInv, CallOk, Idle, Free

\* However calls, swaps of verifier and engine, boots and shutdowns interleave,
\* a call in its driver was accepted by one verifier and admitted by the rules
\* of one engine that was in force during the call.
THEOREM CallsPermitted == Spec => []ServedIsPermitted
<1>1. CallInv => ServedIsPermitted
  BY DEF CallInv, CallOk, ServedIsPermitted, HookOf, HookCtx, namespaceFromRequest
<1> QED
  BY <1>1, InitTypes, InitCalls, TypesStep, WholeStep, CallsStep, PTL DEF Spec

----------------------------------------------------------------------------
(* Limiters.                                                               *)

\* Appending to a sequence keeps what it had.
LEMMA AppendKeeps ==
  ASSUME NEW seq, IsSeq(seq), NEW x
  PROVE  /\ IsSeq(Append(seq, x)) /\ Len(seq) \in Nat /\ Len(Append(seq, x)) = Len(seq) + 1
         /\ \A i \in 1 .. Len(seq) : Append(seq, x)[i] = seq[i]
         /\ Append(seq, x)[Len(seq) + 1] = x
<1>1. seq \in Seq(Range(seq))
  BY DEF IsSeq
<1> DEFINE S == Range(seq) \cup {x}
           t == Append(seq, x)
<1>2. seq \in Seq(S) /\ x \in S
  BY <1>1
<1> HIDE DEF S
<1>3. /\ t \in Seq(S) /\ Len(seq) \in Nat /\ Len(t) = Len(seq) + 1
      /\ \A i \in 1 .. Len(seq) : t[i] = seq[i]
      /\ t[Len(seq) + 1] = x
  BY <1>2
<1> HIDE DEF t
<1>4. t \in Seq(Range(t))
  BY <1>3 DEF Range
<1> QED
  BY <1>3, <1>4 DEF IsSeq, t

\* The grants of a bucket are finitely many, and one grant makes one more.
LEMMA GrantCount ==
  ASSUME NEW seq, IsSeq(seq), NEW b, NEW x
  PROVE  /\ IsFiniteSet(Grants(seq, b)) /\ Cardinality(Grants(seq, b)) \in Nat
         /\ Cardinality(Grants(Append(seq, x), b))
              = Cardinality(Grants(seq, b)) + IF x = b THEN 1 ELSE 0
<1> DEFINE n == Len(seq)
           t == Append(seq, x)
           A == Grants(seq, b)
           B == Grants(t, b)
<1>1. /\ n \in Nat /\ Len(t) = n + 1
      /\ \A i \in 1 .. n : t[i] = seq[i]
      /\ t[n + 1] = x
  BY AppendKeeps
<1> HIDE DEF t
<1>2. A = { i \in 1 .. n : seq[i] = b } /\ B = { i \in 1 .. n + 1 : t[i] = b }
  BY <1>1 DEF Grants
<1> HIDE DEF n, A, B
<1>3. B = (IF x = b THEN A \cup {n + 1} ELSE A) /\ n + 1 \notin A /\ A \subseteq 1 .. n
  BY <1>1, <1>2
<1>4. IsFiniteSet(A)
  <2>1. IsFiniteSet(1 .. n)
    BY <1>1, FS_Interval
  <2> QED BY <1>3, <2>1, FS_Subset
<1>5. Cardinality(A) \in Nat /\ Cardinality(A \cup {n + 1}) = Cardinality(A) + 1
  BY <1>3, <1>4, FS_AddElement, FS_CardinalityType
<1> QED
  BY <1>3, <1>4, <1>5 DEF A, B, t

\* A rate limit of an engine that was built has a rate, and a burst.
LEMMA RateOfRule ==
  ASSUME NEW cfg \in DOMAIN Configs, PolicyOk(cfg), NEW j \in 1 .. Len(RulesOf(cfg)),
         RulesOf(cfg)[j].effect = "rate_limit"
  PROVE  /\ RulesOf(cfg)[j].rate \in Nat \ {0} /\ burst(RulesOf(cfg)[j]) \in Nat \ {0}
         /\ \A k \in 1 .. Len(RulesOf(cfg)) : RulesOf(cfg)[k].name = RulesOf(cfg)[j].name => k = j
<1>1. RulesOf(cfg)[j].rate \in Int /\ RulesOf(cfg)[j].burst \in Int
  BY RulesSeq
<1>2. RulesOf(cfg) # << >>
  <2>1. ASSUME RulesOf(cfg) = << >> PROVE FALSE
    <3>1. Len(RulesOf(cfg)) = 0
      BY <2>1
    <3> QED BY <3>1
  <2> QED BY <2>1
<1>3. validSpec(Configs[cfg].policy)
  BY <1>2 DEF PolicyOk, buildPolicyEngine, RulesOf
<1>4. /\ RulesOf(cfg)[j].rate > 0
      /\ \A i, k \in 1 .. Len(RulesOf(cfg)) : RulesOf(cfg)[i].name = RulesOf(cfg)[k].name => i = k
  BY <1>3 DEF validSpec, validRule, RulesOf
<1>5. burst(RulesOf(cfg)[j]) \in Nat \ {0}
  BY <1>1 DEF burst
<1> QED
  BY <1>1, <1>4, <1>5

\* A limiter is found by its engine and its key.
LEMMA HoldingFinds ==
  ASSUME RateInv, NEW k \in 1 .. Len(limiters)
  PROVE  Holding(limiters, limiters[k].engine, limiters[k].key) = k
<1> DEFINE I == { i \in 1 .. Len(limiters) :
                    limiters[i].engine = limiters[k].engine /\ limiters[i].key = limiters[k].key }
<1>1. I = {k}
  BY DEF RateInv
<1>2. Holding(limiters, limiters[k].engine, limiters[k].key) = IF I # {} THEN Max(I) ELSE 0
  BY DEF Holding, SelectLastInSeq
<1> HIDE DEF I
<1>3. Len(limiters) \in Nat
  BY DEF RateInv, IsSeq
<1>4. Max({k}) = k
  BY <1>3 DEF Max
<1> QED
  BY <1>1, <1>2, <1>4

\* A limit call's limiter is that of the rule it stands at.
LEMMA LimiterOfRule ==
  ASSUME NEW l, LimiterOk(l), NEW j \in 1 .. Len(RulesOf(l.engine.cfg)), NEW h,
         l.key = bucketKey(RulesOf(l.engine.cfg)[j], h)
  PROVE  l.rule = j
<1> DEFINE rules == RulesOf(l.engine.cfg)
<1>1. l.key[1] = rules[l.rule].name /\ l.rule \in 1 .. Len(rules) /\ rules[l.rule].effect = "rate_limit"
      /\ l.engine.cfg \in DOMAIN Configs /\ PolicyOk(l.engine.cfg)
  BY DEF LimiterOk, RuleOf
<1>2. l.key[1] = rules[j].name
  <2> DEFINE r == rules[j]
             a == IF "tenant" \in r.per THEN h.tenant ELSE ""
             b == IF "agent" \in r.per THEN h.agent ELSE ""
             c == IF "namespace" \in r.per THEN <<h.op.block, h.namespace>> ELSE << >>
             d == IF "op" \in r.per THEN <<h.op>> ELSE << >>
  <2>1. l.key = <<r.name, a, b, c, d>>
    BY DEF bucketKey
  <2> HIDE DEF r, a, b, c, d
  <2>2. l.key[1] = r.name
    BY <2>1
  <2> QED BY <2>2 DEF r
<1> QED
  BY <1>1, <1>2, RateOfRule

\* A refill adds at most the rate.
LEMMA RefillBound ==
  ASSUME NEW count \in Nat, NEW tokens \in Nat, NEW b \in Nat \ {0}, NEW r \in Nat \ {0},
         NEW t \in Nat, count + tokens <= b + t * r
  PROVE  LET left == IF tokens + r > b THEN b ELSE tokens + r
         IN  left \in Nat /\ count + left <= b + (t + 1) * r
<1>1. (t + 1) * r = t * r + r /\ t * r \in Nat
  OBVIOUS
<1> DEFINE m == t * r
<1>2. m \in Nat /\ count + tokens <= b + m
  BY <1>1
<1> HIDE DEF m
<1>3. LET left == IF tokens + r > b THEN b ELSE tokens + r
      IN  left \in Nat /\ count + left <= b + (m + r)
  BY <1>2
<1> QED
  BY <1>1, <1>3 DEF m

\* A limiter of engine e exists for the bucket key.
Made(e, key) == \E k \in 1 .. Len(limiters) : limiters[k].engine = e /\ limiters[k].key = key

\* A call that asks a limiter for the first time makes it, with a full bucket
\* that has granted nothing.
LEMMA LimiterForStep ==
  ASSUME RateInv, UNCHANGED <<now, granted>>, NEW e, NEW j, NEW h, NEW key,
         e \in [cfg : DOMAIN Configs, n : Nat], PolicyOk(e.cfg),
         j \in 1 .. Len(RulesOf(e.cfg)), RulesOf(e.cfg)[j].effect = "rate_limit",
         key = bucketKey(RulesOf(e.cfg)[j], h), limiterFor(e, j, key)
  PROVE  /\ RateInv'
         /\ \A k \in 1 .. Len(limiters) : k \in 1 .. Len(limiters') /\ limiters'[k] = limiters[k]
         /\ Made(e, key)'
<1> DEFINE new == [engine |-> e, rule |-> j, key |-> key, tokens |-> burst(RulesOf(e.cfg)[j])]
           there == \E k \in 1 .. Len(limiters) : limiters[k].engine = e /\ limiters[k].key = key
<1>1. limiters' = IF there THEN limiters ELSE Append(limiters, new)
  BY DEF limiterFor, RulesOf
<1>2. CASE there
  <2>1. limiters' = limiters
    BY <1>1, <1>2
  <2>2. RateInv'
    BY <2>1 DEF RateInv
  <2>3. Made(e, key)'
    BY <1>2, <2>1 DEF Made
  <2> QED BY <2>1, <2>2, <2>3
<1>3. CASE ~ there
  <2> DEFINE r == RulesOf(e.cfg)[j]
             L == Len(limiters)
  <2>1. key[1] = r.name
    <3> DEFINE a == IF "tenant" \in r.per THEN h.tenant ELSE ""
               b == IF "agent" \in r.per THEN h.agent ELSE ""
               c == IF "namespace" \in r.per THEN <<h.op.block, h.namespace>> ELSE << >>
               d == IF "op" \in r.per THEN <<h.op>> ELSE << >>
    <3>1. key = <<r.name, a, b, c, d>>
      BY DEF bucketKey
    <3> HIDE DEF r, a, b, c, d
    <3>2. key[1] = r.name
      BY <3>1
    <3> QED BY <3>2
  <2>2. /\ DOMAIN new = {"engine", "rule", "key", "tokens"} /\ new.engine = e /\ new.rule = j
        /\ new.key = key /\ new.tokens = burst(r)
    OBVIOUS
  <2> HIDE DEF new
  <2>3. IsSeq(limiters) /\ limiters' = Append(limiters, new)
    BY <1>1, <1>3 DEF RateInv
  <2>4. /\ IsSeq(limiters') /\ L \in Nat /\ Len(limiters') = L + 1
        /\ \A k \in 1 .. L : limiters'[k] = limiters[k]
        /\ limiters'[L + 1] = new
    BY <2>3, AppendKeeps
  <2>5. r.rate \in Nat \ {0} /\ burst(r) \in Nat \ {0}
    BY RateOfRule
  <2>6. LimiterOk(new) /\ RuleOf(new) = r /\ new.tokens \in Nat
    BY <2>1, <2>2, <2>5 DEF LimiterOk, RuleOf
  <2>7. Grants(granted, Bucket(new)) = {}
    <3>1. ASSUME NEW i \in 1 .. Len(granted), granted[i] = Bucket(new) PROVE FALSE
      <4>1. PICK k \in 1 .. L : granted[i] = Bucket(limiters[k])
        BY DEF RateInv
      <4>2. limiters[k].engine = e /\ limiters[k].key = key
        BY <2>2, <3>1, <4>1 DEF Bucket
      <4> QED BY <1>3, <4>2
    <3> QED BY <3>1 DEF Grants
  <2>8. Cardinality(Grants(granted, Bucket(new))) + new.tokens <= burst(RuleOf(new)) + now * RuleOf(new).rate
    <3> DEFINE m == now * r.rate
               b == burst(r)
    <3>1. m \in Nat /\ b \in Nat
      BY <2>5 DEF RateInv
    <3>2. Cardinality(Grants(granted, Bucket(new))) = 0
      BY <2>7, FS_EmptySet
    <3> HIDE DEF m, b
    <3>3. 0 + b <= b + m
      BY <3>1
    <3> QED BY <2>2, <2>6, <3>2, <3>3 DEF m, b
  <2> HIDE DEF r, L
  <2>9. \A k \in 1 .. L + 1 : k \in 1 .. L \/ k = L + 1
    BY <2>4
  <2>10. ASSUME NEW k \in 1 .. L + 1
         PROVE  /\ LimiterOk(limiters'[k]) /\ limiters'[k].tokens \in Nat
                /\ Cardinality(Grants(granted, Bucket(limiters'[k]))) + limiters'[k].tokens
                     <= burst(RuleOf(limiters'[k])) + now * RuleOf(limiters'[k]).rate
    <3>1. CASE k \in 1 .. L
      BY <2>4, <3>1 DEF RateInv, L
    <3>2. CASE k = L + 1
      BY <2>4, <2>6, <2>8, <3>2
    <3> QED BY <2>9, <3>1, <3>2
  <2>11. ASSUME NEW i \in 1 .. L + 1, NEW k \in 1 .. L + 1,
                limiters'[i].engine = limiters'[k].engine, limiters'[i].key = limiters'[k].key
         PROVE  i = k
    <3>1. \A m \in 1 .. L : ~ (limiters[m].engine = e /\ limiters[m].key = key)
      BY <1>3 DEF L
    <3>2. CASE i \in 1 .. L /\ k \in 1 .. L
      BY <2>4, <2>11, <3>2 DEF RateInv, L
    <3>3. CASE i = L + 1 \/ k = L + 1
      BY <2>2, <2>4, <2>9, <2>11, <3>1, <3>3
    <3> QED BY <2>9, <3>2, <3>3
  <2>12. \A i \in 1 .. Len(granted) : \E k \in 1 .. L + 1 : granted[i] = Bucket(limiters'[k])
    <3>1. ASSUME NEW i \in 1 .. Len(granted)
          PROVE  \E k \in 1 .. L + 1 : granted[i] = Bucket(limiters'[k])
      <4>1. PICK k \in 1 .. L : granted[i] = Bucket(limiters[k])
        BY DEF RateInv, L
      <4>2. k \in 1 .. L + 1 /\ limiters'[k] = limiters[k]
        BY <2>4
      <4> QED BY <4>1, <4>2
    <3> QED BY <3>1
  <2>13. now \in Nat /\ IsSeq(granted)
    BY DEF RateInv
  <2>14. RateInv'
    <3>1. \A k \in 1 .. Len(limiters') :
             /\ LimiterOk(limiters[k])' /\ limiters'[k].tokens \in Nat
             /\ Cardinality(Grants(granted, Bucket(limiters'[k]))) + limiters'[k].tokens
                  <= burst(RuleOf(limiters[k]))' + now * RuleOf(limiters'[k]).rate
      BY <2>4, <2>10 DEF LimiterOk, RuleOf, RulesOf, PolicyOk
    <3>2. /\ now' \in Nat /\ IsSeq(limiters)' /\ IsSeq(granted)'
          /\ now' = now /\ granted' = granted
      BY <1>1, <2>4, <2>13 DEF IsSeq
    <3>3. \A i, k \in 1 .. Len(limiters') :
             limiters'[i].engine = limiters'[k].engine
             /\ limiters'[i].key = limiters'[k].key => i = k
      BY <2>4, <2>11
    <3>4. \A i \in 1 .. Len(granted') : \E k \in 1 .. Len(limiters') :
             granted'[i] = Bucket(limiters[k])'
      BY <2>4, <2>12, <3>2 DEF Bucket
    <3> QED BY <3>1, <3>2, <3>3, <3>4, ZenonT(30) DEF RateInv, Bucket, RuleOf, RulesOf
  <2>15. L + 1 \in 1 .. L + 1 /\ \A k \in 1 .. L : k \in 1 .. L + 1
    BY <2>4
  <2>16. Made(e, key)'
    BY <2>2, <2>4, <2>15 DEF Made
  <2> QED BY <2>4, <2>14, <2>15, <2>16 DEF L
<1> QED
  BY <1>2, <1>3

\* A granted call costs its limiter one token.
LEMMA GrantStep ==
  ASSUME RateInv, NEW k \in 1 .. Len(limiters), limiters[k].tokens > 0,
         limiters' = [limiters EXCEPT ![k].tokens = @ - 1],
         granted' = Append(granted, Bucket(limiters[k])), now' = now
  PROVE  /\ RateInv'
         /\ \A i \in 1 .. Len(limiters) :
              /\ i \in 1 .. Len(limiters')
              /\ limiters'[i].engine = limiters[i].engine /\ limiters'[i].key = limiters[i].key
<1> DEFINE L == Len(limiters)
           new == [limiters[k] EXCEPT !.tokens = @ - 1]
           x == Bucket(limiters[k])
<1>1. /\ now \in Nat /\ limiters \in Seq(Range(limiters)) /\ IsSeq(granted) /\ L \in Nat
      /\ DOMAIN limiters = 1 .. L
      /\ \A i \in 1 .. L : LimiterOk(limiters[i]) /\ limiters[i].tokens \in Nat
      /\ \A i \in 1 .. L : DOMAIN limiters[i] = {"engine", "rule", "key", "tokens"}
  BY DEF RateInv, IsSeq, LimiterOk
<1>2. /\ DOMAIN limiters' = 1 .. L /\ limiters'[k] = new
      /\ \A i \in 1 .. L : i # k => limiters'[i] = limiters[i]
  BY <1>1
<1>3. /\ DOMAIN new = {"engine", "rule", "key", "tokens"} /\ new.engine = limiters[k].engine
      /\ new.rule = limiters[k].rule /\ new.key = limiters[k].key
      /\ new.tokens = limiters[k].tokens - 1 /\ new.tokens \in Nat
  BY <1>1
<1>4. limiters' \in Seq(Range(limiters')) /\ Len(limiters') = L
  <2> DEFINE S == Range(limiters')
  <2>1. limiters' = [i \in 1 .. L |-> limiters'[i]] /\ L \in Nat
    BY <1>1
  <2>2. \A i \in 1 .. L : limiters'[i] \in S
    BY <1>2 DEF Range
  <2> HIDE DEF S, L, new
  <2>3. limiters' \in [1 .. L -> S]
    BY <2>1, <2>2
  <2>4. limiters' \in Seq(S)
    BY <2>1, <2>3, SeqDef
  <2>5. DOMAIN limiters' = 1 .. L
    BY <2>3
  <2>6. Len(limiters') = L
    BY <2>1, <2>4, <2>5, LenProperties
  <2> QED BY <2>4, <2>6 DEF S
<1> HIDE DEF new
<1>5. \A i \in 1 .. L : /\ limiters'[i].engine = limiters[i].engine
                        /\ limiters'[i].key = limiters[i].key
                        /\ limiters'[i].rule = limiters[i].rule
                        /\ DOMAIN limiters'[i] = DOMAIN limiters[i]
  BY <1>1, <1>2, <1>3
<1>6. \A i \in 1 .. L : Bucket(limiters'[i]) = Bucket(limiters[i])
                        /\ RuleOf(limiters'[i]) = RuleOf(limiters[i]) /\ LimiterOk(limiters'[i])
  <2>1. ASSUME NEW i \in 1 .. L
        PROVE  /\ Bucket(limiters'[i]) = Bucket(limiters[i])
               /\ RuleOf(limiters'[i]) = RuleOf(limiters[i])
    BY <1>5 DEF Bucket, RuleOf
  <2>2. ASSUME NEW i \in 1 .. L PROVE LimiterOk(limiters'[i])
    <3>1. RuleOf(limiters'[i]) = RuleOf(limiters[i]) /\ limiters'[i].key = limiters[i].key
      BY <1>5, <2>1
    <3>2. LimiterOk(limiters[i])
      BY <1>1
    <3> QED BY <1>5, <3>1, <3>2 DEF LimiterOk
  <2> QED BY <2>1, <2>2
<1>7. ASSUME NEW i \in 1 .. L
      PROVE  /\ limiters'[i].tokens \in Nat
             /\ Cardinality(Grants(granted', Bucket(limiters[i]))) + limiters'[i].tokens
                  <= burst(RuleOf(limiters[i])) + now * RuleOf(limiters[i]).rate
  <2> DEFINE b == Bucket(limiters[i])
             n == Cardinality(Grants(granted, b))
             m == Cardinality(Grants(granted', b))
             max == burst(RuleOf(limiters[i])) + now * RuleOf(limiters[i]).rate
  <2>1. n \in Nat /\ m = n + IF x = b THEN 1 ELSE 0
    BY <1>1, GrantCount
  <2>2. max \in Int /\ n + limiters[i].tokens <= max
    <3> DEFINE r == RuleOf(limiters[i])
    <3>1. r.rate \in Nat /\ burst(r) \in Nat
      BY <1>1, RateOfRule DEF LimiterOk, RuleOf
    <3> HIDE DEF r
    <3>2. burst(r) + now * r.rate \in Int
      BY <1>1, <3>1
    <3> QED BY <3>2 DEF RateInv, r
  <2>3. CASE i = k
    <3> HIDE DEF n, m, max
    <3>1. m = n + 1 /\ limiters'[i].tokens = limiters[i].tokens - 1 /\ limiters'[i].tokens \in Nat
      BY <1>2, <1>3, <2>1, <2>3
    <3> QED BY <1>1, <2>1, <2>2, <3>1 DEF m, max
  <2>4. CASE i # k
    <3>1. x # b
      BY <2>4 DEF RateInv, Bucket
    <3> HIDE DEF n, m, max, x, b
    <3>2. m = n /\ limiters'[i].tokens = limiters[i].tokens
      BY <1>2, <2>1, <2>4, <3>1
    <3> QED BY <1>1, <2>2, <3>2 DEF m, max, b
  <2> QED BY <2>3, <2>4
<1>8. ASSUME NEW i \in 1 .. Len(granted') PROVE \E m \in 1 .. L : granted'[i] = Bucket(limiters'[m])
  <2>1. i \in 1 .. Len(granted) \/ granted'[i] = x
    BY <1>1, AppendKeeps
  <2>2. CASE i \in 1 .. Len(granted)
    <3>1. granted'[i] = granted[i]
      BY <1>1, <2>2, AppendKeeps
    <3>2. PICK m \in 1 .. L : granted[i] = Bucket(limiters[m])
      BY <2>2 DEF RateInv
    <3> QED BY <1>6, <3>1, <3>2
  <2>3. CASE granted'[i] = x
    BY <1>6, <2>3
  <2> QED BY <2>1, <2>2, <2>3
<1>9. IsSeq(granted')
  BY <1>1, AppendKeeps
<1>10. \A i, m \in 1 .. L : limiters'[i].engine = limiters'[m].engine
                            /\ limiters'[i].key = limiters'[m].key => i = m
  BY <1>5 DEF RateInv
<1> HIDE DEF L, x
<1>11. ASSUME NEW i \in 1 .. L
       PROVE  /\ LimiterOk(limiters'[i]) /\ limiters'[i].tokens \in Nat
              /\ Cardinality(Grants(granted', Bucket(limiters'[i]))) + limiters'[i].tokens
                   <= burst(RuleOf(limiters'[i])) + now * RuleOf(limiters'[i]).rate
  BY <1>6, <1>7
<1>12. RateInv'
  BY <1>1, <1>4, <1>8, <1>9, <1>10, <1>11, ZenonT(30)
     DEF RateInv, IsSeq, LimiterOk, RuleOf, Bucket, RulesOf, PolicyOk
<1> QED
  BY <1>4, <1>5, <1>12 DEF L

\* A second refills every limiter by its rate, up to its burst.
LEMMA RefillStep ==
  ASSUME RateInv, Tick
  PROVE  /\ RateInv'
         /\ \A i \in 1 .. Len(limiters) :
              /\ i \in 1 .. Len(limiters')
              /\ limiters'[i].engine = limiters[i].engine /\ limiters'[i].key = limiters[i].key
<1> DEFINE L == Len(limiters)
           left(l) == IF l.tokens + RuleOf(l).rate > burst(RuleOf(l)) THEN burst(RuleOf(l))
                      ELSE l.tokens + RuleOf(l).rate
           new(l) == [l EXCEPT !.tokens = left(l)]
<1>1. /\ now \in Nat /\ IsSeq(granted) /\ L \in Nat
      /\ \A i \in 1 .. L : LimiterOk(limiters[i]) /\ limiters[i].tokens \in Nat
      /\ \A i \in 1 .. L : DOMAIN limiters[i] = {"engine", "rule", "key", "tokens"}
  BY DEF RateInv, IsSeq, LimiterOk
<1>2. /\ limiters' = [i \in 1 .. L |-> new(limiters[i])]
      /\ now' = now + 1 /\ granted' = granted
  BY DEF Tick, RuleOf, RulesOf
<1>3. ASSUME NEW i \in 1 .. L
      PROVE  /\ limiters'[i].engine = limiters[i].engine /\ limiters'[i].key = limiters[i].key
             /\ limiters'[i].rule = limiters[i].rule
             /\ DOMAIN limiters'[i] = DOMAIN limiters[i]
             /\ limiters'[i].tokens = left(limiters[i])
  <2>1. limiters'[i] = new(limiters[i])
    BY <1>2
  <2> HIDE DEF left
  <2> QED BY <1>1, <2>1
<1>4. limiters' \in Seq(Range(limiters')) /\ Len(limiters') = L
  <2> DEFINE S == Range(limiters')
  <2>1. limiters' = [i \in 1 .. L |-> limiters'[i]] /\ DOMAIN limiters' = 1 .. L
    BY <1>2
  <2>2. \A i \in 1 .. L : limiters'[i] \in S
    BY <2>1 DEF Range
  <2>3. L \in Nat
    BY <1>1
  <2> HIDE DEF S, L, new
  <2>4. limiters' \in [1 .. L -> S]
    BY <2>1, <2>2
  <2>5. limiters' \in Seq(S)
    BY <2>3, <2>4, SeqDef
  <2>6. Len(limiters') = L
    BY <2>1, <2>3, <2>5, LenProperties
  <2> QED BY <2>5, <2>6 DEF S
<1> HIDE DEF new
<1>5. \A i \in 1 .. L : Bucket(limiters'[i]) = Bucket(limiters[i])
                        /\ RuleOf(limiters'[i]) = RuleOf(limiters[i]) /\ LimiterOk(limiters'[i])
  <2> HIDE DEF left
  <2> QED BY <1>1, <1>3 DEF Bucket, RuleOf, LimiterOk
<1>6. ASSUME NEW i \in 1 .. L
      PROVE  /\ limiters'[i].tokens \in Nat
             /\ Cardinality(Grants(granted, Bucket(limiters[i]))) + limiters'[i].tokens
                  <= burst(RuleOf(limiters[i])) + (now + 1) * RuleOf(limiters[i]).rate
  <2> DEFINE n == Cardinality(Grants(granted, Bucket(limiters[i])))
             r == RuleOf(limiters[i]).rate
             b == burst(RuleOf(limiters[i]))
             t == limiters[i].tokens
  <2>1. n \in Nat
    BY <1>1, GrantCount
  <2>2. r \in Nat \ {0} /\ b \in Nat \ {0}
    BY <1>1, RateOfRule DEF LimiterOk, RuleOf
  <2>3. t \in Nat /\ n + t <= b + now * r
    BY DEF RateInv
  <2>4. limiters'[i].tokens = IF t + r > b THEN b ELSE t + r
    BY <1>3
  <2> HIDE DEF n, r, b, t
  <2>5. limiters'[i].tokens \in Nat /\ n + limiters'[i].tokens <= b + (now + 1) * r
    BY <1>1, <2>1, <2>2, <2>3, <2>4, RefillBound
  <2> QED BY <2>5 DEF n, r, b
<1> HIDE DEF left
<1>7. ASSUME NEW i \in 1 .. Len(granted) PROVE \E m \in 1 .. L : granted[i] = Bucket(limiters'[m])
  <2>1. PICK m \in 1 .. L : granted[i] = Bucket(limiters[m])
    BY DEF RateInv
  <2> QED BY <1>5, <2>1
<1>8. \A i, m \in 1 .. L : limiters'[i].engine = limiters'[m].engine
                           /\ limiters'[i].key = limiters'[m].key => i = m
  BY <1>3 DEF RateInv
<1> HIDE DEF L
<1>9. ASSUME NEW i \in 1 .. L
      PROVE  /\ LimiterOk(limiters'[i]) /\ limiters'[i].tokens \in Nat
             /\ Cardinality(Grants(granted, Bucket(limiters'[i]))) + limiters'[i].tokens
                  <= burst(RuleOf(limiters'[i])) + now' * RuleOf(limiters'[i]).rate
  BY <1>2, <1>5, <1>6
<1>10. RateInv'
  <2>1. now' \in Nat /\ Len(granted') = Len(granted) /\ IsSeq(granted') /\ IsSeq(limiters')
    BY <1>1, <1>2, <1>4 DEF IsSeq
  <2>2. ASSUME NEW i \in 1 .. Len(granted') PROVE \E m \in 1 .. L : granted'[i] = Bucket(limiters'[m])
    BY <1>2, <1>7
  <2> QED BY <1>2, <1>4, <1>8, <1>9, <2>1, <2>2 DEF RateInv
<1> QED
  BY <1>3, <1>4, <1>10 DEF L

\* A waiting call keeps its limiter, and a call that begins to wait has made it.
LEMMA RateStep ==
  ASSUME Types, WholeInv, CallInv, RateInv, HoldInv, [Next]_vars
  PROVE  RateInv' /\ HoldInv'
<1>0. DOMAIN rpc = Slots
  BY DEF CallInv
<1>1. ASSUME \A i \in 1 .. Len(limiters) :
               /\ i \in 1 .. Len(limiters')
               /\ limiters'[i].engine = limiters[i].engine /\ limiters'[i].key = limiters[i].key,
             \A t \in Slots : \/ rpc'[t] = rpc[t]
                              \/ rpc'[t].pc # "limit"
                              \/ \E k \in 1 .. Len(limiters') :
                                   limiters'[k].engine = rpc'[t].engine /\ limiters'[k].key = KeyOf(t)'
      PROVE  HoldInv'
  <2>1. ASSUME NEW t \in Slots, rpc'[t].pc = "limit", rpc'[t] = rpc[t]
        PROVE  \E k \in 1 .. Len(limiters') :
                 limiters'[k].engine = rpc'[t].engine /\ limiters'[k].key = KeyOf(t)'
    <3>1. KeyOf(t)' = KeyOf(t)
      BY <2>1 DEF KeyOf, HookOf, Req
    <3>2. PICK k \in 1 .. Len(limiters) : limiters[k].engine = rpc[t].engine /\ limiters[k].key = KeyOf(t)
      BY <2>1 DEF HoldInv
    <3> QED BY <1>1, <2>1, <3>1, <3>2
  <2> QED BY <1>1, <2>1 DEF HoldInv
<1>2. ASSUME UNCHANGED <<now, limiters, granted>>,
             \A t \in Slots : rpc'[t] = rpc[t] \/ rpc'[t].pc # "limit"
      PROVE  RateInv' /\ HoldInv'
  <2>1. RateInv'
    BY <1>2 DEF RateInv
  <2> QED BY <1>1, <1>2, <2>1
<1>3. CASE UNCHANGED <<now, limiters, granted, rpc>>
  BY <1>2, <1>3
<1>4. CASE limiters' = << >> /\ granted' = << >> /\ now' = now /\ \A t \in Slots : rpc'[t].pc # "limit"
  <2>2. Len(<< >>) = 0 /\ << >> \in Seq(Range(<< >>))
    OBVIOUS
  <2>3. RateInv'
    BY <1>4, <2>2 DEF RateInv, IsSeq
  <2> QED BY <1>4, <2>3 DEF HoldInv
<1>5. CASE GracefulStop \/ ShutdownTimeout \/ (Gone /\ now' = now)
  <2>1. limiters' = << >> /\ granted' = << >> /\ now' = now
    BY <1>5 DEF GracefulStop, ShutdownTimeout, ServerGone, Gone
  <2>2. \A t \in Slots : rpc'[t].pc = "driver" \/ rpc'[t] = Idle
    BY <1>5 DEF GracefulStop, ShutdownTimeout, Gone
  <2> QED BY <1>4, <2>1, <2>2 DEF Idle
<1>6. CASE Tick
  <2>1. rpc' = rpc
    BY <1>6 DEF Tick
  <2> QED BY <1>1, <1>6, <2>1, RefillStep
<1>7. ASSUME NEW s \in Slots, rpc' = [rpc EXCEPT ![s] = rpc'[s]],
             UNCHANGED <<now, limiters, granted>>, rpc'[s].pc # "limit"
      PROVE  RateInv' /\ HoldInv'
  BY <1>0, <1>2, <1>7
<1>8. ASSUME NEW s \in Slots, CallStep(s) PROVE RateInv' /\ HoldInv'
  <2>1. CallOk(s)' /\ rpc' = [rpc EXCEPT ![s] = rpc'[s]] /\ now' = now /\ CallOk(s)
    BY <1>8, CallStepOk, CallsApart DEF CallVars, CallInv
  <2>2. ASSUME NEW st, End(s, st) PROVE rpc'[s].pc # "limit"
    <3>1. rpc'[s] = IF proc.forced THEN Idle ELSE [pc |-> "done", status |-> st]
      BY <1>0, <2>2 DEF End, Answer
    <3> QED BY <3>1 DEF Idle
  <2>3. CASE authenticate(s) \/ RecvMsg(s)
    <3>1. rpc'[s].pc # "limit" /\ UNCHANGED <<limiters, granted>>
      <4>1. CASE authenticate(s)
        <5>1. \/ \E st : End(s, st)
              \/ rpc' = [rpc EXCEPT ![s] = [pc |-> IF Streams(Req(s).m) THEN "recv" ELSE "policy",
                                            q |-> rpc[s].q, verifier |-> live.verifier]]
          BY <4>1 DEF authenticate
        <5> QED BY <1>0, <2>2, <4>1, <5>1 DEF authenticate
      <4>2. CASE RecvMsg(s)
        <5>1. rpc[s].pc = "recv" /\ DOMAIN rpc[s] = {"pc", "q", "verifier"}
          BY <2>1, <4>2 DEF CallOk, RecvMsg
        <5> QED BY <1>0, <2>2, <4>2, <5>1 DEF RecvMsg
      <4> QED BY <2>3, <4>1, <4>2
    <3> QED BY <1>7, <2>1, <3>1
  <2>4. CASE evaluate(s)
    <3> DEFINE c == WithEngine(rpc[s])
               j == Decisive(RulesOf(c.engine.cfg), HookOf(s), c.i)
    <3>1. /\ DOMAIN c = {"pc", "q", "verifier", "engine", "i"} /\ c.q = rpc[s].q
          /\ UNCHANGED <<now, granted>>
      BY <2>1, <2>4, EngineOk DEF evaluate
    <3>2. \/ /\ limiterFor(c.engine, j, bucketKey(RulesOf(c.engine.cfg)[j], HookOf(s)))
             /\ rpc' = [rpc EXCEPT ![s] = [c EXCEPT !.pc = "limit", !.i = j]]
          \/ /\ UNCHANGED limiters
             /\ \/ \E st : End(s, st)
                \/ rpc' = [rpc EXCEPT ![s] = [c EXCEPT !.pc = "driver"]]
      BY <2>4 DEF evaluate, Handle, RulesOf, HookOf
    <3>3. CASE /\ limiterFor(c.engine, j, bucketKey(RulesOf(c.engine.cfg)[j], HookOf(s)))
               /\ rpc' = [rpc EXCEPT ![s] = [c EXCEPT !.pc = "limit", !.i = j]]
      <4> DEFINE e == c.engine
                 h == HookOf(s)
      <4>1. /\ rpc'[s].pc = "limit" /\ rpc'[s].q = rpc[s].q
            /\ rpc'[s].engine = e /\ rpc'[s].i = j
        <5>1. rpc'[s] = [c EXCEPT !.pc = "limit", !.i = j]
          BY <1>0, <3>3
        <5> HIDE DEF c, j
        <5> QED BY <3>1, <5>1
      <4>2. limiterFor(e, j, bucketKey(RulesOf(e.cfg)[j], h))
        BY <3>3
      <4> HIDE DEF e, j, c
      <4>3. HookOf(s)' = h
        BY <4>1 DEF HookOf, Req
      <4>4. /\ e \in [cfg : DOMAIN Configs, n : Nat] /\ PolicyOk(e.cfg)
            /\ j \in Nat \ {0} /\ j <= Len(RulesOf(e.cfg)) /\ RulesOf(e.cfg)[j].effect = "rate_limit"
        BY <2>1, <4>1 DEF CallOk
      <4>5. j \in 1 .. Len(RulesOf(e.cfg))
        BY <4>4, RulesSeq
      <4>6. /\ RateInv'
            /\ \A k \in 1 .. Len(limiters) : k \in 1 .. Len(limiters') /\ limiters'[k] = limiters[k]
            /\ \E k \in 1 .. Len(limiters') :
                 limiters'[k].engine = e /\ limiters'[k].key = bucketKey(RulesOf(e.cfg)[j], h)
        <5> HIDE DEF h
        <5>1. PICK e1, j1, h1, key : e1 = e /\ j1 = j /\ h1 = h /\ key = bucketKey(RulesOf(e.cfg)[j], h)
          OBVIOUS
        <5>2. /\ e1 \in [cfg : DOMAIN Configs, n : Nat] /\ PolicyOk(e1.cfg)
              /\ j1 \in 1 .. Len(RulesOf(e1.cfg)) /\ RulesOf(e1.cfg)[j1].effect = "rate_limit"
              /\ UNCHANGED <<now, granted>>
          BY <2>1, <3>1, <4>4, <4>5, <5>1
        <5>3. key = bucketKey(RulesOf(e1.cfg)[j1], h1) /\ limiterFor(e1, j1, key)
          BY <4>2, <5>1
        <5>4. /\ RateInv'
              /\ \A k \in 1 .. Len(limiters) : k \in 1 .. Len(limiters') /\ limiters'[k] = limiters[k]
              /\ Made(e1, key)'
          BY <5>2, <5>3, LimiterForStep
        <5> QED BY <5>1, <5>4 DEF Made
      <4>7. KeyOf(s)' = bucketKey(RulesOf(e.cfg)[j], h)
        BY <4>1, <4>3 DEF KeyOf
      <4>8. \A t \in Slots : t # s => rpc'[t] = rpc[t]
        BY <1>0, <2>1
      <4> QED BY <1>1, <4>1, <4>6, <4>7, <4>8
    <3>4. CASE UNCHANGED limiters /\ \E st : End(s, st)
      BY <1>7, <2>1, <2>2, <3>1, <3>4
    <3>5. CASE UNCHANGED limiters /\ rpc' = [rpc EXCEPT ![s] = [c EXCEPT !.pc = "driver"]]
      <4>1. rpc'[s].pc = "driver"
        <5>1. rpc'[s] = [c EXCEPT !.pc = "driver"]
          BY <1>0, <3>5
        <5> HIDE DEF c
        <5> QED BY <3>1, <5>1
      <4> QED BY <1>7, <2>1, <3>1, <3>5, <4>1
    <3> QED BY <3>2, <3>3, <3>4, <3>5
  <2>5. CASE Allow(s)
    <3> DEFINE c == rpc[s]
               key == KeyOf(s)
               k == Holding(limiters, c.engine, key)
    <3>1. c.pc = "limit" /\ now' = now
      BY <2>1, <2>5 DEF Allow
    <3>2. \/ /\ limiters[k].tokens > 0
             /\ limiters' = [limiters EXCEPT ![k].tokens = @ - 1]
             /\ granted' = Append(granted, <<c.engine, c.i, key>>)
             /\ rpc' = [rpc EXCEPT ![s].pc = "rule", ![s].i = @ + 1]
          \/ UNCHANGED <<limiters, granted>> /\ \E st : End(s, st)
      BY <2>5 DEF Allow, KeyOf, RulesOf, HookOf
    <3>3. CASE UNCHANGED <<limiters, granted>> /\ \E st : End(s, st)
      BY <1>7, <2>1, <2>2, <3>3
    <3>4. CASE /\ limiters[k].tokens > 0
               /\ limiters' = [limiters EXCEPT ![k].tokens = @ - 1]
               /\ granted' = Append(granted, <<c.engine, c.i, key>>)
               /\ rpc' = [rpc EXCEPT ![s].pc = "rule", ![s].i = @ + 1]
      <4>1. PICK m \in 1 .. Len(limiters) : limiters[m].engine = c.engine /\ limiters[m].key = key
        BY <3>1 DEF HoldInv
      <4>2. k = m
        BY <4>1, HoldingFinds
      <4>3. LimiterOk(limiters[m])
        BY DEF RateInv
      <4>4. /\ DOMAIN c = {"pc", "q", "verifier", "engine", "i"} /\ c.engine \in [cfg : DOMAIN Configs, n : Nat]
            /\ c.i \in Nat \ {0} /\ c.i <= Len(RulesOf(c.engine.cfg))
        BY <2>1, <3>1 DEF CallOk
      <4>5. c.i \in 1 .. Len(RulesOf(c.engine.cfg))
        BY <4>4, RulesSeq
      <4>6. limiters[m].rule = c.i
        BY <4>1, <4>3, <4>5, LimiterOfRule DEF KeyOf
      <4>7. Bucket(limiters[m]) = <<c.engine, c.i, key>>
        BY <4>1, <4>6 DEF Bucket
      <4> HIDE DEF k, key
      <4>8. /\ RateInv'
            /\ \A i \in 1 .. Len(limiters) :
                 /\ i \in 1 .. Len(limiters')
                 /\ limiters'[i].engine = limiters[i].engine /\ limiters'[i].key = limiters[i].key
        BY <3>1, <3>4, <4>2, <4>7, GrantStep
      <4>9. rpc'[s].pc = "rule"
        <5>1. rpc'[s] = [c EXCEPT !.pc = "rule", !.i = @ + 1]
          BY <1>0, <3>4
        <5> HIDE DEF c
        <5> QED BY <4>4, <5>1
      <4>10. \A t \in Slots : t # s => rpc'[t] = rpc[t]
        BY <1>0, <2>1
      <4> QED BY <1>1, <4>8, <4>9, <4>10
    <3> QED BY <3>2, <3>3, <3>4
  <2>6. CASE Write(s) \/ Read(s) \/ ListNamespaces(s) \/ Other(s) \/ Recovery(s) \/ CancelTail(s)
    <3>1. \E r : r.pc = "done" /\ Answer(s, r)
      BY <2>6 DEF Write, Read, ListNamespaces, Other, Recovery, CancelTail, End
    <3>2. rpc'[s].pc # "limit"
      BY <1>0, <3>1 DEF Answer, Idle
    <3> QED BY <1>7, <2>1, <2>6, <3>2 DEF Write, Read, ListNamespaces, Other, Recovery, CancelTail
  <2> QED BY <1>8, <2>3, <2>4, <2>5, <2>6 DEF CallStep
<1>9. ASSUME NEW s \in Slots, NEW q, Arrive(s, q) PROVE RateInv' /\ HoldInv'
  <2>1. rpc' = [rpc EXCEPT ![s] = [pc |-> "auth", q |-> q]] /\ UNCHANGED <<now, limiters, granted>>
    BY <1>9 DEF Arrive, CallVars
  <2> QED BY <1>0, <1>7, <2>1
<1> QED
  BY <1>3, <1>4, <1>5, <1>6, <1>8, <1>9
     DEF Next, ProcStep, ReloadStep, EditConfig, Start, Signal, Select, Crash, Hup, BootStage,
         BootFails, CloseNext, Close, Exit, ReloadLoad, ReloadSwap, vars

\* There is no limiter and no grant at the start.
LEMMA InitRates == Init => RateInv /\ HoldInv
<1>1. Len(<< >>) = 0 /\ << >> \in Seq(Range(<< >>))
  OBVIOUS
<1> QED
  BY <1>1 DEF Init, RateInv, HoldInv, IsSeq, Idle

\* However calls, refills and reloads interleave, one engine lets through no
\* more calls of a bucket than its burst and what the seconds refilled.
THEOREM RateLimited == Spec => []RateLimitHolds
<1>1. ASSUME RateInv PROVE RateLimitHolds
  <2>1. ASSUME NEW k \in 1 .. Len(granted)
        PROVE  LET r == Configs[granted[k][1].cfg].policy.rules[granted[k][2]] IN
               Cardinality({i \in 1 .. Len(granted) : granted[i] = granted[k]}) <= burst(r) + now * r.rate
    <3>1. PICK m \in 1 .. Len(limiters) : granted[k] = Bucket(limiters[m])
      BY <1>1 DEF RateInv
    <3> DEFINE l == limiters[m]
               n == Cardinality(Grants(granted, Bucket(l)))
               most == burst(RuleOf(l)) + now * RuleOf(l).rate
    <3>2. /\ LimiterOk(l) /\ l.tokens \in Nat /\ n + l.tokens <= most
          /\ now \in Nat /\ IsSeq(granted)
      BY <1>1 DEF RateInv
    <3>3. n \in Nat
      BY <3>2, GrantCount
    <3>4. most \in Int
      <4> DEFINE r == RuleOf(l)
      <4>1. r.rate \in Nat /\ burst(r) \in Nat
        BY <3>2, RateOfRule DEF LimiterOk, RuleOf
      <4> HIDE DEF r
      <4>2. burst(r) + now * r.rate \in Int
        BY <3>2, <4>1
      <4> QED BY <4>2 DEF r
    <3>5. /\ granted[k][1] = l.engine /\ granted[k][2] = l.rule
          /\ {i \in 1 .. Len(granted) : granted[i] = granted[k]} = Grants(granted, Bucket(l))
      BY <3>1 DEF Bucket, Grants
    <3>6. n <= most
      <4> HIDE DEF n, most, l
      <4> QED BY <3>2, <3>3, <3>4
    <3> QED BY <3>5, <3>6 DEF RuleOf, RulesOf
  <2> QED BY <2>1 DEF RateLimitHolds
<1> QED
  BY <1>1, InitTypes, InitCalls, InitRates, TypesStep, WholeStep, CallsStep, RateStep, PTL DEF Spec

----------------------------------------------------------------------------
(* Drivers.                                                                *)

\* The blocks.
LEMMA BlockStages ==
  /\ Range(Blocks) = {"kv", "episodic", "semantic", "artifact", "lease", "graph"}
  /\ \A k \in 1 .. 16 : Stages[k] \in Range(Blocks) => k \in 6 .. 11
  /\ \A j, k \in 1 .. 16 : Stages[j] \in Range(Blocks) /\ Stages[j] = Stages[k] => j = k
<1>1. Range(Blocks) = {"kv", "episodic", "semantic", "artifact", "lease", "graph"}
  <2>1. DOMAIN Blocks = {1, 2, 3, 4, 5, 6}
    BY DEF Blocks
  <2> QED BY <2>1 DEF Range, Blocks
<1>2. ASSUME NEW k \in 1 .. 16, Stages[k] \in Range(Blocks)
      PROVE  \/ k = 6 /\ Stages[k] = "kv"
             \/ k = 7 /\ Stages[k] = "episodic"
             \/ k = 8 /\ Stages[k] = "semantic"
             \/ k = 9 /\ Stages[k] = "artifact"
             \/ k = 10 /\ Stages[k] = "lease"
             \/ k = 11 /\ Stages[k] = "graph"
  <2>1. Stages[k] \notin {"config", "tracing", "metrics", "auth", "keyring"}
    BY <1>1, <1>2
  <2>2. k \notin {1, 2, 3, 4, 5}
    BY <2>1, StageOrder
  <2>3. Stages[k] \notin {"policy", "server", "tcp", "uds", "gateway"}
    BY <1>1, <1>2
  <2>4. k \notin {12, 13, 14, 15, 16}
    BY <2>3, StageOrder
  <2>5. k = 6 \/ k = 7 \/ k = 8 \/ k = 9 \/ k = 10 \/ k = 11
    BY <2>2, <2>4
  <2> QED BY <2>5, StageOrder
<1>3. ASSUME NEW j \in 1 .. 16, NEW k \in 1 .. 16, Stages[j] \in Range(Blocks), Stages[j] = Stages[k]
      PROVE  j = k
  BY <1>2, <1>3
<1>4. ASSUME NEW k \in 1 .. 16, Stages[k] \in Range(Blocks) PROVE k \in 6 .. 11
  BY <1>2, <1>4
<1> QED
  BY <1>1, <1>3, <1>4

\* Appending to a sequence adds the element to its range.
LEMMA AppendRange ==
  ASSUME NEW seq, IsSeq(seq), NEW x
  PROVE  Range(Append(seq, x)) = Range(seq) \cup {x}
<1> DEFINE t == Append(seq, x)
           n == Len(seq)
<1>1. /\ IsSeq(t) /\ n \in Nat /\ Len(t) = n + 1
      /\ \A i \in 1 .. n : t[i] = seq[i]
      /\ t[n + 1] = x
  BY AppendKeeps
<1> HIDE DEF t
<1>2. DOMAIN t = 1 .. n + 1 /\ DOMAIN seq = 1 .. n
  BY <1>1 DEF IsSeq
<1>3. 1 .. n + 1 = (1 .. n) \cup {n + 1}
  BY <1>1
<1> QED
  BY <1>1, <1>2, <1>3 DEF Range, t

\* A registry that is not built owns nothing.
LEMMA NewOwnsNothing ==
  ASSUME NEW b
  PROVE  RegistryOk(NewRegistry, b) /\ Range(NewRegistry.owned) = {} /\ NewRegistry.bound = {}
<1>1. << >> \in Seq(Range(<< >>)) /\ Len(<< >>) = 0 /\ Range(<< >>) = {}
  BY DEF Range
<1> QED
  BY <1>1 DEF RegistryOk, NewRegistry, IsSeq

\* No two of the first n namespaces of a configuration are the same.
NoneTwice(c, n) ==
    \A i, j \in 1 .. n :
        c.namespaces[i].block = c.namespaces[j].block
            /\ c.namespaces[i].name = c.namespaces[j].name => i = j

\* Binding the next namespace keeps a registry's list free of repetitions, since
\* the name, or the test of the backend, is new.
LEMMA BindNextOk ==
  ASSUME NEW c, NEW b, NEW n \in Nat \ {0}, NEW r, BoundOk(r, c, b, n - 1),
         c.namespaces[n].block = b, NoneTwice(c, n)
  PROVE  BoundOk(bindNext(r, c.namespaces[n]), c, b, n)
<1> DEFINE ns == c.namespaces[n]
           d == servedBy(ns)
           t == Append(r.owned, d)
<1>1. /\ RegistryOk(r, b) /\ IsSeq(r.owned) /\ Len(r.owned) \in Nat /\ DOMAIN r.owned = 1 .. Len(r.owned)
      /\ DOMAIN r = {"bound", "owned"}
  BY DEF BoundOk, RegistryOk, IsSeq
<1>2. n \in 1 .. n /\ \A i \in 1 .. n : i \in 1 .. n - 1 \/ i = n
  OBVIOUS
<1>3. 1 .. n - 1 \subseteq 1 .. n
  OBVIOUS
<1>4. d[1] = b
  BY DEF servedBy
<1>5. Contains(r.owned, d) <=> d \in Range(r.owned)
  BY <1>1 DEF Contains, Range
<1>6. CASE ns.block # "semantic" /\ Contains(r.owned, d)
  <2> DEFINE q == [r EXCEPT !.bound = @ \union {ns.name}]
  <2>1. bindNext(r, ns) = q
    BY <1>6 DEF bindNext, BindShared
  <2>2. DOMAIN q = {"bound", "owned"} /\ q.owned = r.owned /\ q.bound = r.bound \union {ns.name}
    BY <1>1
  <2> HIDE DEF q
  <2>3. RegistryOk(q, b)
    BY <1>1, <2>2 DEF RegistryOk
  <2>4. BoundOk(q, c, b, n)
    BY <1>2, <1>3, <1>5, <1>6, <2>2, <2>3 DEF BoundOk
  <2> QED BY <2>1, <2>4
<1>7. CASE ~ (ns.block # "semantic" /\ Contains(r.owned, d))
  <2> DEFINE q == [bound |-> r.bound \union {ns.name}, owned |-> t]
  <2>1. bindNext(r, ns) = q
    BY <1>7 DEF bindNext, Bind
  <2>2. DOMAIN q = {"bound", "owned"} /\ q.owned = t /\ q.bound = r.bound \union {ns.name}
    OBVIOUS
  <2>3. d \notin Range(r.owned)
    <3>1. CASE ns.block # "semantic"
      BY <1>5, <1>7, <3>1
    <3>2. CASE ns.block = "semantic"
      <4>1. SUFFICES ASSUME d \in Range(r.owned) PROVE FALSE
        OBVIOUS
      <4>2. PICK i \in 1 .. n - 1 : c.namespaces[i].block = b /\ d = servedBy(c.namespaces[i])
        BY <4>1 DEF BoundOk
      <4>3. c.namespaces[i].name = ns.name
        BY <3>2, <4>2 DEF servedBy
      <4>4. i \in 1 .. n /\ i # n
        BY <1>3
      <4> QED BY <1>2, <4>2, <4>3, <4>4 DEF NoneTwice
    <3> QED BY <3>1, <3>2
  <2>4. /\ IsSeq(t) /\ Len(t) = Len(r.owned) + 1
        /\ \A i \in 1 .. Len(r.owned) : t[i] = r.owned[i]
        /\ t[Len(r.owned) + 1] = d
    BY <1>1, AppendKeeps
  <2>5. Range(t) = Range(r.owned) \cup {d}
    BY <1>1, AppendRange
  <2> HIDE DEF q, t, d
  <2>6. \A i \in 1 .. Len(r.owned) : r.owned[i] \in Range(r.owned)
    BY <1>1 DEF Range
  <2>7. ASSUME NEW i \in 1 .. Len(t), NEW j \in 1 .. Len(t), t[i] = t[j] PROVE i = j
    <3>1. /\ i \in 1 .. Len(r.owned) \/ i = Len(r.owned) + 1
          /\ j \in 1 .. Len(r.owned) \/ j = Len(r.owned) + 1
      BY <1>1, <2>4
    <3> QED BY <1>1, <2>3, <2>4, <2>6, <2>7, <3>1 DEF RegistryOk
  <2>8. RegistryOk(q, b)
    BY <1>1, <1>4, <2>2, <2>4, <2>5, <2>7 DEF RegistryOk
  <2>9. BoundOk(q, c, b, n)
    BY <1>2, <1>3, <2>2, <2>5, <2>8 DEF BoundOk, d
  <2> QED BY <2>1, <2>9
<1> QED
  BY <1>6, <1>7

\* A solution of the recursion over the first n namespaces.
Registries(f, c, b, n) ==
    f = [i \in 0 .. n |-> IF i = 0 THEN NewRegistry
                          ELSE IF c.namespaces[i].block # b THEN f[i - 1]
                          ELSE bindNext(f[i - 1], c.namespaces[i])]

\* The recursion over the namespaces has a solution.
LEMMA RegistriesExist ==
  ASSUME NEW c, NEW b, NEW n \in Nat
  PROVE  \E f : Registries(f, c, b, n)
<1> DEFINE Step(r, i) == IF c.namespaces[i].block # b THEN r ELSE bindNext(r, c.namespaces[i])
           Bad == { m \in Nat : ~ \E f : Registries(f, c, b, m) }
<1>0. ASSUME NEW f, NEW m
      PROVE  Registries(f, c, b, m) <=>
               f = [i \in 0 .. m |-> IF i = 0 THEN NewRegistry ELSE Step(f[i - 1], i)]
  BY DEF Registries
<1> HIDE DEF Step
<1>1. ASSUME NEW x \in Bad PROVE FALSE
  <2>1. PICK m \in Bad : \A k \in Bad : m <= k
    <3>1. Bad \in SUBSET Nat /\ Bad # {}
      BY <1>1
    <3> HIDE DEF Bad
    <3> QED BY <3>1, LeastNatural
  <2>2. m \in Nat /\ ~ \E f : Registries(f, c, b, m)
    OBVIOUS
  <2>3. CASE m = 0
    <3> DEFINE f == [i \in 0 .. 0 |-> NewRegistry]
    <3>1. f = [i \in 0 .. 0 |-> IF i = 0 THEN NewRegistry ELSE Step(f[i - 1], i)]
      OBVIOUS
    <3> HIDE DEF f
    <3>2. Registries(f, c, b, 0)
      BY <1>0, <3>1
    <3> QED BY <2>2, <2>3, <3>2
  <2>4. CASE m # 0
    <3>1. m - 1 \in Nat /\ ~ (m <= m - 1)
      BY <2>2, <2>4
    <3>2. PICK g : Registries(g, c, b, m - 1)
      BY <2>1, <3>1
    <3>3. g = [i \in 0 .. m - 1 |-> IF i = 0 THEN NewRegistry ELSE Step(g[i - 1], i)]
      BY <1>0, <3>2
    <3> DEFINE f == [i \in 0 .. m |-> IF i = m THEN Step(g[m - 1], m) ELSE g[i]]
    <3>4. ASSUME NEW i \in 0 .. m
          PROVE  f[i] = IF i = 0 THEN NewRegistry ELSE Step(f[i - 1], i)
      <4>1. CASE i = m
        <5>1. i # 0 /\ i - 1 \in 0 .. m /\ i - 1 # m
          BY <2>2, <2>4, <4>1
        <5>2. f[i - 1] = g[i - 1]
          BY <5>1
        <5> QED BY <4>1, <5>1, <5>2
      <4>2. CASE i = 0
        <5>1. g[0] = NewRegistry /\ 0 \in 0 .. m /\ 0 # m
          BY <2>2, <2>4, <3>1, <3>3
        <5> QED BY <4>2, <5>1
      <4>3. CASE i # 0 /\ i # m
        <5>1. i \in 0 .. m - 1 /\ i - 1 \in 0 .. m /\ i - 1 # m
          BY <2>2, <4>3
        <5>2. g[i] = Step(g[i - 1], i)
          BY <3>3, <4>3, <5>1
        <5>3. f[i] = g[i] /\ f[i - 1] = g[i - 1]
          BY <4>3, <5>1
        <5> QED BY <4>3, <5>2, <5>3
      <4> QED BY <4>1, <4>2, <4>3
    <3>5. DOMAIN f = 0 .. m /\ f = [i \in 0 .. m |-> f[i]]
      OBVIOUS
    <3> HIDE DEF f
    <3>6. f = [i \in 0 .. m |-> IF i = 0 THEN NewRegistry ELSE Step(f[i - 1], i)]
      BY <3>4, <3>5
    <3>7. Registries(f, c, b, m)
      BY <1>0, <3>6
    <3> QED BY <2>2, <3>7
  <2> QED BY <2>3, <2>4
<1> QED
  BY <1>1

\* A block's registry has bound the block's namespaces, each to a driver it owns.
LEMMA BindAllOk ==
  ASSUME NEW c, Len(c.namespaces) \in Nat, NEW b,
         NoneTwice(c, Len(c.namespaces))
  PROVE  BoundOk(bindAll(c, b), c, b, Len(c.namespaces))
<1> DEFINE n == Len(c.namespaces)
           f == CHOOSE g : Registries(g, c, b, n)
           Bad == { m \in Nat : m <= n /\ ~ BoundOk(f[m], c, b, m) }
<1>1. n \in Nat
  OBVIOUS
<1>2. bindAll(c, b) = f[n]
  BY DEF bindAll, Registries
<1>3. Registries(f, c, b, n)
  BY <1>1, RegistriesExist
<1> HIDE DEF f
<1>4. /\ f[0] = NewRegistry
      /\ \A i \in 1 .. n : f[i] = IF c.namespaces[i].block # b THEN f[i - 1]
                                   ELSE bindNext(f[i - 1], c.namespaces[i])
  <2>1. 0 \in 0 .. n /\ \A i \in 1 .. n : i \in 0 .. n /\ i # 0
    BY <1>1
  <2> DEFINE After(i) == IF i = 0 THEN NewRegistry
                         ELSE IF c.namespaces[i].block # b THEN f[i - 1]
                         ELSE bindNext(f[i - 1], c.namespaces[i])
  <2>2. f = [i \in 0 .. n |-> After(i)]
    BY <1>3 DEF Registries
  <2>3. \A i \in 0 .. n : f[i] = After(i)
    <3> HIDE DEF After
    <3> QED BY <2>2
  <2> QED BY <2>1, <2>3
<1>5. ASSUME NEW x \in Bad PROVE FALSE
  <2>1. PICK m \in Bad : \A k \in Bad : m <= k
    <3>1. Bad \in SUBSET Nat /\ Bad # {}
      BY <1>5
    <3> HIDE DEF Bad
    <3> QED BY <3>1, LeastNatural
  <2>2. m \in Nat /\ m <= n /\ ~ BoundOk(f[m], c, b, m)
    OBVIOUS
  <2>3. m # 0
    <3>1. 1 .. 0 = {}
      OBVIOUS
    <3>2. BoundOk(NewRegistry, c, b, 0)
      BY <3>1, NewOwnsNothing DEF BoundOk
    <3> QED BY <1>4, <2>2, <3>2
  <2>4. m - 1 \in Nat /\ m - 1 <= n /\ ~ (m <= m - 1) /\ m \in 1 .. n /\ m \in Nat \ {0}
    BY <1>1, <2>2, <2>3
  <2>5. BoundOk(f[m - 1], c, b, m - 1)
    BY <2>1, <2>4
  <2>6. 1 .. m \subseteq 1 .. n /\ \A i \in 1 .. m : i \in 1 .. m - 1 \/ i = m
    BY <1>1, <2>4
  <2>7. CASE c.namespaces[m].block # b
    <3>1. f[m] = f[m - 1]
      BY <1>4, <2>4, <2>7
    <3>2. 1 .. m - 1 \subseteq 1 .. m
      BY <2>4
    <3>3. BoundOk(f[m - 1], c, b, m)
      BY <2>5, <2>6, <2>7, <3>2 DEF BoundOk
    <3> QED BY <2>2, <3>1, <3>3
  <2>8. CASE c.namespaces[m].block = b
    <3>1. f[m] = bindNext(f[m - 1], c.namespaces[m])
      BY <1>4, <2>4, <2>8
    <3>2. NoneTwice(c, m)
      BY <2>6 DEF NoneTwice
    <3>3. BoundOk(bindNext(f[m - 1], c.namespaces[m]), c, b, m)
      BY <2>4, <2>5, <2>8, <3>2, BindNextOk
    <3> QED BY <2>2, <3>1, <3>3
  <2> QED BY <2>7, <2>8
<1> QED
  BY <1>1, <1>2, <1>5

\* In a configuration that loads no namespace is listed twice.
LEMMA LoadedDistinct ==
  ASSUME NEW k \in DOMAIN Configs, Load(Configs[k])
  PROVE  /\ Len(Configs[k].namespaces) \in Nat
         /\ NoneTwice(Configs[k], Len(Configs[k].namespaces))
<1>1. Configs[k].namespaces \in Seq(Range(Configs[k].namespaces))
  BY ConfigsAssumption
<1>2. Len(Configs[k].namespaces) \in Nat
  BY <1>1
<1> DEFINE c == Configs[k]
<1>3. Load(c)
  OBVIOUS
<1> HIDE DEF c
<1>4. applyDefaults(c).namespaces = c.namespaces
  BY DEF applyDefaults
<1>5. distinct(applyDefaults(c).namespaces, LAMBDA ns : <<ns.block, ns.name>>)
  BY <1>3 DEF Load, Validate
<1>6. \A i, j \in 1 .. Len(c.namespaces) :
        <<c.namespaces[i].block, c.namespaces[i].name>> = <<c.namespaces[j].block, c.namespaces[j].name>>
          => i = j
  BY <1>4, <1>5 DEF distinct
<1>7. ASSUME NEW i \in 1 .. Len(c.namespaces), NEW j \in 1 .. Len(c.namespaces),
             c.namespaces[i].block = c.namespaces[j].block,
             c.namespaces[i].name = c.namespaces[j].name
      PROVE  i = j
  <2>1. <<c.namespaces[i].block, c.namespaces[i].name>> = <<c.namespaces[j].block, c.namespaces[j].name>>
    BY <1>7
  <2> QED BY <1>6, <2>1
<1>8. NoneTwice(c, Len(c.namespaces))
  BY <1>7 DEF NoneTwice
<1> QED
  BY <1>2, <1>8 DEF c

\* A list of blocks that leaves none out.
Listed(todo) ==
    /\ todo \in Seq(Range(Blocks))
    /\ \A b \in Range(Blocks) : \E i \in 1 .. Len(todo) : todo[i] = b

\* Every block is on the list that a shutdown, or a failed boot, closes.
LEMMA TodoOk ==
  /\ Listed(Reverse(Blocks))
  /\ \A st : Listed(explicit(st) \o Reverse(Blocks))
<1> DEFINE R == Range(Blocks)
           back == Reverse(Blocks)
<1>1. R = {"kv", "episodic", "semantic", "artifact", "lease", "graph"}
  BY BlockStages
<1>2. Blocks \in Seq(R) /\ << >> \in Seq(R) /\ <<"kv", "episodic", "semantic">> \in Seq(R)
  BY <1>1 DEF Blocks
<1>3. Len(Blocks) = 6
  BY DEF Blocks
<1>4. back = [i \in 1 .. 6 |-> Blocks[6 - i + 1]]
  BY <1>3 DEF Reverse
<1> HIDE DEF R, back
<1>5. back \in Seq(R) /\ Len(back) = 6
  <2>1. ASSUME NEW i \in 1 .. 6 PROVE Blocks[6 - i + 1] \in R
    <3>1. 6 - i + 1 \in 1 .. 6
      OBVIOUS
    <3> QED BY <1>2, <1>3, <3>1, ElementOfSeq
  <2>2. back \in [1 .. 6 -> R]
    BY <1>4, <2>1
  <2>3. back \in Seq(R)
    <3>1. 6 \in Nat
      OBVIOUS
    <3>2. back \in UNION {[1 .. n -> R] : n \in Nat}
      BY <2>2, <3>1
    <3> QED BY <3>2, SeqDef
  <2>4. DOMAIN back = 1 .. 6 /\ Len(back) \in Nat /\ DOMAIN back = 1 .. Len(back)
    BY <1>4, <2>3, LenProperties
  <2>5. Len(back) = 6
    BY <2>4
  <2> QED BY <2>3, <2>5
<1>6. ASSUME NEW b \in R PROVE \E i \in 1 .. 6 : back[i] = b
  <2>1. PICK j \in 1 .. 6 : Blocks[j] = b
    BY <1>2, <1>3 DEF Range, R
  <2>2. 7 - j \in 1 .. 6 /\ 6 - (7 - j) + 1 = j
    OBVIOUS
  <2> QED BY <1>4, <2>1, <2>2
<1>7. ASSUME NEW f \in Seq(R) PROVE Listed(f \o back)
  <2>1. /\ f \o back \in Seq(R) /\ Len(f \o back) = Len(f) + 6 /\ Len(f) \in Nat
        /\ \A i \in 1 .. Len(f) + 6 :
             (f \o back)[i] = IF i <= Len(f) THEN f[i] ELSE back[i - Len(f)]
    <3>1. Len(f) \in Nat /\ back \in Seq(R) /\ Len(back) = 6
      BY <1>5
    <3>2. /\ f \o back \in Seq(R) /\ Len(f \o back) = Len(f) + Len(back)
          /\ \A i \in 1 .. Len(f) + Len(back) :
               (f \o back)[i] = IF i <= Len(f) THEN f[i] ELSE back[i - Len(f)]
      BY <3>1, ConcatProperties
    <3> QED BY <3>1, <3>2
  <2>2. ASSUME NEW i \in 1 .. 6
        PROVE  Len(f) + i \in 1 .. Len(f) + 6 /\ (f \o back)[Len(f) + i] = back[i]
    <3>1. Len(f) + i \in 1 .. Len(f) + 6 /\ ~ (Len(f) + i <= Len(f)) /\ Len(f) + i - Len(f) = i
      BY <2>1
    <3> QED BY <2>1, <3>1
  <2>3. ASSUME NEW b \in R PROVE \E i \in 1 .. Len(f \o back) : (f \o back)[i] = b
    <3>1. PICK i \in 1 .. 6 : back[i] = b
      BY <1>6
    <3> QED BY <2>1, <2>2, <3>1
  <2> QED BY <2>1, <2>3 DEF Listed, R
<1>8. \A st : explicit(st) \in {Blocks, <<"kv", "episodic", "semantic">>, << >>}
  BY DEF explicit
<1>9. Listed(back)
  BY <1>5, <1>6 DEF Listed, R
<1>10. ASSUME NEW f \in {Blocks, <<"kv", "episodic", "semantic">>, << >>} PROVE f \in Seq(R)
  BY <1>2
<1> QED
  BY <1>7, <1>8, <1>9, <1>10 DEF back

\* A sequence is empty if nothing is in its range.
LEMMA EmptyRange ==
  ASSUME NEW seq, IsSeq(seq)
  PROVE  Range(seq) = {} <=> seq = << >>
<1>1. Range(<< >>) = {}
  BY DEF Range
<1>2. ASSUME seq # << >> PROVE Range(seq) # {}
  <2>1. Len(seq) \in Nat \ {0} /\ DOMAIN seq = 1 .. Len(seq)
    BY <1>2, EmptySeq DEF IsSeq
  <2>2. 1 \in DOMAIN seq
    BY <2>1
  <2> QED BY <2>2 DEF Range
<1> QED
  BY <1>1, <1>2

\* No driver is waiting to be closed while the list is empty.
LEMMA NoneClosing == IsSeq(<< >>) /\ Range(<< >>) = {} /\ Len(<< >>) = 0
BY DEF IsSeq, Range

\* A stage that builds a registry finds its block without one, and opens drivers
\* that the process has not had before.
LEMMA BuildStep ==
  ASSUME Types, WholeInv, DriversInv, BuiltInv, BootStage
  PROVE  DriversInv' /\ BuiltInv'
<1>0. /\ proc.phase = "boot" /\ proc.stage \in 1 .. 16
      /\ {"phase", "stage", "cfg", "closing"} \subseteq DOMAIN proc
  BY DEF BootStage, Types
<1>1. /\ proc'.cfg = proc.cfg /\ proc'.phase \in {"boot", "serving"}
      /\ proc'.phase = "boot" => proc'.stage = proc.stage + 1
      /\ proc.closing = << >> /\ proc'.closing = << >>
      /\ \A b : ~ Failed(b) /\ ~ Failed(b)'
  BY <1>0, StageOrder DEF BootStage, BuiltInv, Failed
<1>2. Cfg' = Cfg
  BY <1>1 DEF Cfg
<1>3. CASE UNCHANGED <<reg, closes>>
  <2>1. DriversInv'
    BY <1>1, <1>3 DEF DriversInv, Owned
  <2>2. \A k \in proc.stage + 1 .. 16 : k \in proc.stage .. 16
    BY <1>0
  <2>3. BuiltInv'
    BY <1>0, <1>1, <1>2, <1>3, <2>2 DEF BuiltInv, Owned
  <2> QED BY <2>1, <2>3
<1>4. CASE Stages[proc.stage] \in Range(Blocks)
  <2> DEFINE st == Stages[proc.stage]
             r == bindAll(Cfg, st)
             n == Len(Cfg.namespaces)
  <2>1. /\ reg' = [reg EXCEPT ![st] = r]
        /\ closes' = [d \in DOMAIN closes \cup Range(r.owned) |->
                        IF d \in DOMAIN closes THEN closes[d] ELSE 0]
    BY <1>4 DEF BootStage, SetUp, Opening
  <2>2. proc.stage \in 6 .. 11
    BY <1>0, <1>4, BlockStages
  <2>3. Load(Cfg) /\ proc.cfg \in DOMAIN Configs
    BY <1>0, <2>2 DEF WholeInv, Cfg, Types
  <2>4. BoundOk(r, Cfg, st, n)
    BY <2>3, LoadedDistinct, BindAllOk DEF Cfg
  <2>5. reg[st] = NewRegistry /\ Range(reg[st].owned) = {}
    <3>1. proc.stage \in proc.stage .. 16
      BY <1>0
    <3> QED BY <1>0, <1>4, <3>1, NewOwnsNothing DEF BuiltInv
  <2> HIDE DEF r, st
  <2>6. RegistryOk(r, st)
    BY <2>4 DEF BoundOk
  <2>7. /\ DOMAIN reg = Range(Blocks) /\ st \in Range(Blocks)
        /\ \A b \in Range(Blocks) : RegistryOk(reg[b], b) /\ Range(reg[b].owned) \subseteq DOMAIN closes
        /\ \A d \in DOMAIN closes : d[1] \in Range(Blocks) /\ d \in Range(reg[d[1]].owned)
        /\ \A d \in DOMAIN closes : closes[d] = 0
    BY <1>0, <1>1, <1>4 DEF DriversInv, BuiltInv, Owned, st
  <2>8. /\ DOMAIN reg' = Range(Blocks) /\ reg'[st] = r
        /\ \A b \in Range(Blocks) : b # st => reg'[b] = reg[b]
    BY <2>1, <2>7
  <2>9. /\ DOMAIN closes' = DOMAIN closes \cup Range(r.owned)
        /\ \A d \in DOMAIN closes : closes'[d] = 0 /\ d[1] # st
        /\ \A d \in Range(r.owned) : closes'[d] = 0 /\ d[1] = st
    <3>2. \A d \in DOMAIN closes : d[1] # st
      BY <2>5, <2>7
    <3>3. \A d \in Range(r.owned) : d[1] = st
      BY <2>6 DEF RegistryOk
    <3> QED BY <2>1, <2>7, <3>2, <3>3
  <2>10. \A d \in DOMAIN closes' : d[1] \in Range(Blocks) /\ d \in Range(reg'[d[1]].owned)
    BY <2>7, <2>8, <2>9
  <2>11. ASSUME NEW b \in Range(Blocks)
         PROVE  RegistryOk(reg'[b], b) /\ Range(reg'[b].owned) \subseteq DOMAIN closes'
    BY <2>6, <2>7, <2>8, <2>9
  <2>12. DriversInv'
    BY <1>1, <2>8, <2>9, <2>10, <2>11, NoneClosing DEF DriversInv, Owned
  <2>13. ASSUME NEW k \in proc.stage + 1 .. 16, Stages[k] \in Range(Blocks)
         PROVE  reg'[Stages[k]] = NewRegistry
    <3>1. k \in proc.stage .. 16 /\ k \in 1 .. 16 /\ k # proc.stage
      BY <1>0
    <3>2. Stages[k] # st
      BY <1>0, <1>4, <2>13, <3>1, BlockStages DEF st
    <3> QED BY <1>0, <2>8, <2>13, <3>1, <3>2 DEF BuiltInv
  <2>14. ASSUME NEW b \in Range(Blocks)
         PROVE  reg'[b] = NewRegistry \/ BoundOk(reg'[b], Cfg, b, n)
    BY <1>0, <2>4, <2>8 DEF BuiltInv
  <2>15. BuiltInv'
    BY <1>1, <1>2, <2>10, <2>13, <2>14 DEF BuiltInv, Owned
  <2> QED BY <2>12, <2>15
<1>5. Stages[proc.stage] \notin Range(Blocks) => UNCHANGED <<reg, closes>>
  BY DEF BootStage, SetUp
<1> QED
  BY <1>3, <1>4, <1>5

\* Closing a registry takes its drivers from it, to be closed one by one.
LEMMA CloseStep ==
  ASSUME Types, DriversInv, BuiltInv, CloseNext
  PROVE  DriversInv' /\ BuiltInv'
<1>0. /\ proc.phase = "closing" /\ {"phase", "stage", "todo", "closing"} \subseteq DOMAIN proc
      /\ proc.closing = << >> /\ Range(proc.closing) = {}
  BY NoneClosing DEF CloseNext, Types
<1>a. PICK todo : todo = proc.todo
  OBVIOUS
<1>1. /\ todo \in Seq(Range(Blocks)) /\ Len(todo) \in Nat
      /\ \A b \in Range(Blocks) : Owned(b) # {} => \E i \in 1 .. Len(todo) : todo[i] = b
      /\ \A b \in Range(Blocks) : Failed(b) => reg[b] = NewRegistry
  BY <1>0, <1>a DEF BuiltInv
<1>2. /\ DOMAIN reg = Range(Blocks)
      /\ \A b \in Range(Blocks) : RegistryOk(reg[b], b) /\ Owned(b) \subseteq DOMAIN closes
      /\ \A d \in DOMAIN closes :
            d[1] \in Range(Blocks) /\ closes[d] = IF d \in Owned(d[1]) \/ Failed(d[1]) THEN 0 ELSE 1
  BY <1>0 DEF DriversInv
<1>3. PICK i \in Owning :
        /\ \A j \in Owning : i <= j
        /\ reg' = [reg EXCEPT ![todo[i]] = NewRegistry]
        /\ proc' = [proc EXCEPT !.todo = SubSeq(todo, i + 1, Len(todo)), !.closing = reg[todo[i]].owned]
        /\ closes' = closes
  BY <1>a DEF CloseNext
<1>4. i \in 1 .. Len(todo) /\ todo[i] \in Range(Blocks) /\ reg[todo[i]].owned # << >>
  <2>1. i \in 1 .. Len(todo) /\ reg[todo[i]].owned # << >>
    BY <1>a DEF Owning
  <2> QED BY <1>1, <2>1, ElementOfSeq
<1>b. PICK b : b = todo[i]
  OBVIOUS
<1>c. PICK seq : seq = reg[b].owned
  OBVIOUS
<1>6. /\ proc'.phase = "closing" /\ proc'.todo = SubSeq(todo, i + 1, Len(todo))
      /\ proc'.closing = seq /\ \A c : Failed(c)' = Failed(c)
  BY <1>0, <1>3, <1>b, <1>c DEF Failed
<1>7. /\ DOMAIN reg' = Range(Blocks) /\ reg'[b] = NewRegistry /\ Owned(b)' = {}
      /\ \A c \in Range(Blocks) : c # b => reg'[c] = reg[c] /\ Owned(c)' = Owned(c)
  BY <1>2, <1>3, <1>4, <1>b, NewOwnsNothing DEF Owned
<1>8. /\ IsSeq(seq) /\ Range(seq) = Owned(b)
      /\ \A j, k \in 1 .. Len(seq) : seq[j] = seq[k] => j = k
      /\ \A d \in Range(seq) : d[1] = b
  BY <1>2, <1>4, <1>b, <1>c DEF RegistryOk, Owned
<1>9. ~ Failed(b)
  BY <1>1, <1>4, <1>b DEF NewRegistry
<1>10. ASSUME NEW d \in DOMAIN closes
       PROVE  /\ d[1] \in Range(Blocks)
              /\ closes'[d] = IF d \in Owned(d[1])' \/ d \in Range(seq) \/ Failed(d[1])' THEN 0 ELSE 1
  <2>1. d[1] \in Range(Blocks) /\ closes'[d] = IF d \in Owned(d[1]) \/ Failed(d[1]) THEN 0 ELSE 1
    BY <1>2, <1>3
  <2>3. CASE d[1] = b
    <3>1. d \notin Owned(d[1])'
      BY <1>7, <2>3
    <3> QED BY <1>6, <1>8, <2>1, <2>3, <3>1
  <2>4. CASE d[1] # b
    <3>1. Owned(d[1])' = Owned(d[1])
      BY <1>7, <2>1, <2>4
    <3>2. d \notin Range(seq)
      BY <1>8, <2>4
    <3> QED BY <1>6, <2>1, <3>1, <3>2
  <2> QED BY <2>3, <2>4
<1>11. ASSUME NEW d \in Range(seq) PROVE d \in DOMAIN closes /\ d \notin Owned(d[1])' /\ ~ Failed(d[1])'
  BY <1>2, <1>4, <1>6, <1>7, <1>8, <1>9, <1>b
<1>12. ASSUME NEW c \in Range(Blocks)
       PROVE  RegistryOk(reg'[c], c) /\ Owned(c)' \subseteq DOMAIN closes
  BY <1>2, <1>7, NewOwnsNothing
<1>13. DriversInv'
  BY <1>3, <1>6, <1>7, <1>8, <1>10, <1>11, <1>12 DEF DriversInv
<1>14. ASSUME NEW c \in Range(Blocks), Owned(c)' # {}
       PROVE  \E j \in 1 .. Len(proc'.todo) : proc'.todo[j] = c
  <2>1. c # b /\ Owned(c) # {}
    BY <1>7, <1>14
  <2>2. PICK j \in 1 .. Len(todo) : todo[j] = c
    BY <1>1, <2>1
  <2>3. reg[c].owned # << >>
    BY <1>2, <2>1, EmptyRange DEF Owned, RegistryOk
  <2>4. i <= j /\ i # j
    BY <1>3, <1>a, <1>b, <2>1, <2>2, <2>3 DEF Owning
  <2>5. i \in Nat /\ j \in Nat /\ j - i \in 1 .. Len(todo) - i /\ i + (j - i) = j
    BY <1>1, <1>4, <2>2, <2>4
  <2>6. /\ Len(SubSeq(todo, i + 1, Len(todo))) = Len(todo) - i
        /\ \A k \in 1 .. Len(todo) - i : SubSeq(todo, i + 1, Len(todo))[k] = todo[i + k]
    <3>1. i + 1 \in 1 .. Len(todo) + 1 /\ Len(todo) \in i .. Len(todo)
      BY <1>1, <1>4
    <3> QED BY <1>1, <1>4, <3>1
  <2> QED BY <1>6, <2>2, <2>5, <2>6
<1>15. proc'.todo \in Seq(Range(Blocks))
  BY <1>1, <1>4, <1>6
<1>16. \A c \in Range(Blocks) : Failed(c)' => reg'[c] = NewRegistry
  BY <1>1, <1>6, <1>7
<1>17. BuiltInv'
  BY <1>6, <1>14, <1>15, <1>16 DEF BuiltInv
<1> QED
  BY <1>13, <1>17

\* The first element of a sequence without repetitions is not in the rest.
LEMMA HeadApart ==
  ASSUME NEW seq, IsSeq(seq), seq # << >>,
         \A i, j \in 1 .. Len(seq) : seq[i] = seq[j] => i = j
  PROVE  /\ IsSeq(Tail(seq)) /\ Head(seq) \in Range(seq)
         /\ Range(Tail(seq)) = Range(seq) \ {Head(seq)}
         /\ \A i, j \in 1 .. Len(Tail(seq)) : Tail(seq)[i] = Tail(seq)[j] => i = j
<1> DEFINE n == Len(seq)
           rest == Tail(seq)
<1>1. /\ n \in Nat \ {0} /\ DOMAIN seq = 1 .. n /\ Head(seq) = seq[1]
      /\ rest \in Seq(Range(seq)) /\ Len(rest) = n - 1
      /\ \A i \in 1 .. n - 1 : rest[i] = seq[i + 1]
  BY EmptySeq, HeadTailProperties DEF IsSeq
<1>a. \A i, j \in 1 .. n : seq[i] = seq[j] => i = j
  OBVIOUS
<1> HIDE DEF rest, n
<1>2. DOMAIN rest = 1 .. n - 1 /\ rest \in [1 .. n - 1 -> Range(seq)]
  BY <1>1, LenProperties
<1>3. rest \in Seq(Range(rest))
  <2>1. rest \in [1 .. n - 1 -> Range(rest)]
    <3>1. \A i \in 1 .. n - 1 : rest[i] \in Range(rest)
      BY <1>2 DEF Range
    <3> QED BY <1>1, <1>2, <3>1
  <2>2. n - 1 \in Nat
    BY <1>1
  <2>3. rest \in UNION {[1 .. k -> Range(rest)] : k \in Nat}
    BY <2>1, <2>2
  <2> QED BY <2>3, SeqDef
<1>4. ASSUME NEW d PROVE d \in Range(rest) <=> d \in Range(seq) /\ d # Head(seq)
  <2>1. ASSUME d \in Range(rest) PROVE d \in Range(seq) /\ d # Head(seq)
    <3>1. PICK i \in 1 .. n - 1 : d = seq[i + 1]
      BY <1>1, <1>2, <2>1 DEF Range
    <3>2. i + 1 \in 1 .. n /\ 1 \in 1 .. n /\ i + 1 # 1
      BY <1>1
    <3> QED BY <1>a, <1>1, <3>1, <3>2 DEF Range
  <2>2. ASSUME d \in Range(seq), d # Head(seq) PROVE d \in Range(rest)
    <3>1. PICK j \in 1 .. n : d = seq[j]
      BY <1>1, <2>2 DEF Range
    <3>2. j - 1 \in 1 .. n - 1 /\ j - 1 + 1 = j
      BY <1>1, <2>2, <3>1
    <3>3. rest[j - 1] = d
      BY <1>1, <3>1, <3>2
    <3> QED BY <1>2, <3>2, <3>3 DEF Range
  <2> QED BY <2>1, <2>2
<1>5. ASSUME NEW i \in 1 .. Len(rest), NEW j \in 1 .. Len(rest), rest[i] = rest[j] PROVE i = j
  <2>1. i + 1 \in 1 .. n /\ j + 1 \in 1 .. n /\ seq[i + 1] = seq[j + 1]
    BY <1>1, <1>5
  <2>2. i \in Nat /\ j \in Nat /\ i + 1 = j + 1
    BY <1>a, <1>5, <2>1
  <2> QED BY <2>2
<1>6. Head(seq) \in Range(seq)
  BY <1>1 DEF Range
<1> QED
  BY <1>3, <1>4, <1>5, <1>6 DEF IsSeq, rest, n

\* The next driver is closed once, and no other.
LEMMA CloseDriver ==
  ASSUME Types, DriversInv, BuiltInv, Close
  PROVE  DriversInv' /\ BuiltInv'
<1>1. PICK seq : seq = proc.closing
  OBVIOUS
<1> DEFINE d0 == Head(seq)
<1>2. /\ proc.phase = "closing" /\ seq # << >> /\ IsSeq(seq) /\ reg' = reg
      /\ closes' = [closes EXCEPT ![d0] = @ + 1]
      /\ proc' = [proc EXCEPT !.closing = Tail(seq)]
      /\ {"phase", "stage", "todo", "closing"} \subseteq DOMAIN proc
      /\ \A i, j \in 1 .. Len(seq) : seq[i] = seq[j] => i = j
  BY <1>1 DEF Close, DriversInv, Types
<1>3. /\ proc'.closing = Tail(seq) /\ proc'.phase = "closing" /\ proc'.todo = proc.todo
      /\ \A b : Failed(b)' = Failed(b) /\ Owned(b)' = Owned(b)
  BY <1>2 DEF Failed, Owned
<1>4. /\ IsSeq(Tail(seq)) /\ d0 \in Range(seq) /\ Range(Tail(seq)) = Range(seq) \ {d0}
      /\ \A i, j \in 1 .. Len(Tail(seq)) : Tail(seq)[i] = Tail(seq)[j] => i = j
  BY <1>2, HeadApart
<1> HIDE DEF d0
<1>5. /\ \A d \in Range(seq) : d \in DOMAIN closes /\ d \notin Owned(d[1]) /\ ~ Failed(d[1])
      /\ \A d \in DOMAIN closes :
            /\ d[1] \in Range(Blocks)
            /\ closes[d] = IF d \in Owned(d[1]) \/ d \in Range(seq) \/ Failed(d[1]) THEN 0 ELSE 1
  BY <1>1 DEF DriversInv
<1>6. ASSUME NEW d \in DOMAIN closes
      PROVE  /\ d[1] \in Range(Blocks)
             /\ closes'[d] = IF d \in Owned(d[1]) \/ d \in Range(Tail(seq)) \/ Failed(d[1]) THEN 0 ELSE 1
  <2>1. CASE d = d0
    <3>1. closes[d] = 0 /\ d \notin Owned(d[1]) /\ ~ Failed(d[1]) /\ d \notin Range(Tail(seq))
      BY <1>4, <1>5, <2>1
    <3>2. closes'[d] = 1
      BY <1>2, <2>1, <3>1
    <3> QED BY <1>5, <3>1, <3>2
  <2>2. CASE d # d0
    <3>1. closes'[d] = closes[d] /\ (d \in Range(Tail(seq)) <=> d \in Range(seq))
      BY <1>2, <1>4, <2>2
    <3> QED BY <1>5, <3>1
  <2> QED BY <2>1, <2>2
<1>7. DOMAIN closes' = DOMAIN closes
  BY <1>2
<1>8. \A b \in Range(Blocks) : RegistryOk(reg'[b], b) /\ Owned(b) \subseteq DOMAIN closes
  BY <1>2 DEF DriversInv
<1>9. DriversInv'
  BY <1>2, <1>3, <1>4, <1>5, <1>6, <1>7, <1>8 DEF DriversInv
<1>10. BuiltInv'
  BY <1>2, <1>3 DEF BuiltInv
<1> QED
  BY <1>9, <1>10

\* What a failing build leaves open are drivers of its own block.
LEMMA AbandonedOfBlock ==
  ASSUME NEW c, NEW b, NEW ds \in abandoned(c, b), NEW d \in ds
  PROVE  d[1] = b
<1>1. CASE b = "semantic"
  <2>1. PICK i : ds = {servedBy(c.namespaces[j]) : j \in {k \in semanticOf(c) : k < i}}
    BY <1>1 DEF abandoned
  <2>2. PICK j \in semanticOf(c) : d = servedBy(c.namespaces[j])
    BY <2>1
  <2>3. c.namespaces[j].block = "semantic"
    BY DEF semanticOf
  <2> QED BY <1>1, <2>2, <2>3 DEF servedBy
<1>2. CASE b # "semantic"
  <2>1. PICK names : ds = {<<b, name>> : name \in names}
    BY <1>2 DEF abandoned
  <2> QED BY <2>1
<1> QED
  BY <1>1, <1>2

\* When a build fails its block has no registry and no driver of an earlier build;
\* when another stage does, no driver is lost.
LEMMA FailStep ==
  ASSUME Types, DriversInv, BuiltInv, BootFails
  PROVE  DriversInv' /\ BuiltInv'
<1> DEFINE st == Stages[proc.stage]
<1>0. /\ proc.phase = "boot" /\ proc.stage \in 1 .. 16 /\ proc.closing = << >> /\ reg' = reg
      /\ {"phase", "stage", "todo", "closing"} \subseteq DOMAIN proc
  BY DEF BootFails, Types, BuiltInv
<1>1. /\ proc'.phase = "closing" /\ proc'.stage = proc.stage /\ proc'.closing = << >>
      /\ Listed(proc'.todo)
  BY <1>0, TodoOk DEF BootFails
<1> HIDE DEF st
<1>2. /\ \A b : ~ Failed(b) /\ Owned(b)' = Owned(b) /\ (Failed(b)' <=> b = st)
  BY <1>0, <1>1 DEF Failed, Owned, st
<1>3. /\ DOMAIN reg = Range(Blocks)
      /\ \A b \in Range(Blocks) : RegistryOk(reg[b], b) /\ Owned(b) \subseteq DOMAIN closes
      /\ \A d \in DOMAIN closes : d[1] \in Range(Blocks) /\ d \in Owned(d[1]) /\ closes[d] = 0
      /\ st \in Range(Blocks) => reg[st] = NewRegistry /\ Owned(st) = {}
  <2>1. proc.stage \in proc.stage .. 16
    BY <1>0
  <2> QED BY <1>0, <1>2, <2>1, NewOwnsNothing DEF DriversInv, BuiltInv, Owned, st
<1>4. /\ DOMAIN closes \subseteq DOMAIN closes'
      /\ \A d \in DOMAIN closes' :
            d[1] \in Range(Blocks) /\ closes'[d] = 0 /\ (d \in Owned(d[1]) \/ d[1] = st)
  <2>1. CASE st \in Range(Blocks)
    <3>1. PICK ds \in abandoned(Cfg, st) : Opening(ds)
      BY <2>1 DEF BootFails, st
    <3>2. closes' = [d \in DOMAIN closes \cup ds |-> IF d \in DOMAIN closes THEN closes[d] ELSE 0]
      BY <3>1 DEF Opening
    <3>3. \A d \in ds : d[1] = st
      BY <3>1, AbandonedOfBlock
    <3> QED BY <1>3, <2>1, <3>2, <3>3
  <2>2. CASE st \notin Range(Blocks)
    <3>1. closes' = closes
      BY <2>2 DEF BootFails, st
    <3> QED BY <1>3, <3>1
  <2> QED BY <2>1, <2>2
<1>5. ASSUME NEW d \in DOMAIN closes'
      PROVE  closes'[d] = IF d \in Owned(d[1])' \/ d \in {} \/ Failed(d[1])' THEN 0 ELSE 1
  BY <1>2, <1>4
<1>6. DriversInv'
  BY <1>0, <1>1, <1>2, <1>3, <1>4, <1>5, NoneClosing DEF DriversInv
<1>7. BuiltInv'
  BY <1>0, <1>1, <1>2, <1>3 DEF BuiltInv, Listed
<1> QED
  BY <1>6, <1>7

\* Drivers are opened and closed only while the process boots and closes.
LEMMA DriversStep ==
  ASSUME Types, WholeInv, DriversInv, BuiltInv, [Next]_vars
  PROVE  DriversInv' /\ BuiltInv'
<1>0. {"phase", "stage", "cfg", "todo", "closing", "signal", "forced"} \subseteq DOMAIN proc
  BY DEF Types
<1>1. CASE UNCHANGED <<proc, reg, closes>>
  BY <1>1 DEF DriversInv, BuiltInv, Owned, Cfg, Failed
<1>2. ASSUME UNCHANGED <<reg, closes>>, proc'.closing = proc.closing,
             \A b \in Range(Blocks) : Failed(b)' = Failed(b)
      PROVE  DriversInv'
  <2>1. ASSUME NEW d \in Range(proc.closing) PROVE d[1] \in Range(Blocks)
    BY DEF DriversInv
  <2>2. \A b : Owned(b)' = Owned(b)
    BY <1>2 DEF Owned
  <2> QED BY <1>2, <2>1, <2>2 DEF DriversInv
<1>3. ASSUME reg' = [b \in Range(Blocks) |-> NewRegistry], closes' = << >>, proc'.phase = "stopped",
             proc'.closing = << >>
      PROVE  DriversInv' /\ BuiltInv'
  <2>1. \A b \in Range(Blocks) : reg'[b] = NewRegistry /\ Owned(b)' = {}
    BY <1>3, NewOwnsNothing DEF Owned
  <2>2. \A b \in Range(Blocks) : RegistryOk(reg'[b], b)
    BY <2>1, NewOwnsNothing
  <2>3. DOMAIN closes' = {}
    BY <1>3
  <2>4. DriversInv'
    BY <1>3, <2>1, <2>2, <2>3, NoneClosing DEF DriversInv
  <2>5. BuiltInv'
    BY <1>3, <2>1 DEF BuiltInv
  <2> QED BY <2>4, <2>5
<1>4. CASE Start
  <2>1. /\ proc.phase = "stopped" /\ proc'.phase = "boot" /\ UNCHANGED <<reg, closes>>
        /\ proc'.closing = << >> /\ proc.closing = << >> /\ closes = << >>
    BY <1>4 DEF Start, Stopped, BuiltInv
  <2>2. \A b \in Range(Blocks) : reg'[b] = NewRegistry
    BY <2>1 DEF BuiltInv
  <2>3. DOMAIN closes' = {}
    BY <2>1
  <2>4. DriversInv'
    BY <1>2, <2>1 DEF Failed
  <2>5. BuiltInv'
    BY <2>1, <2>2, <2>3 DEF BuiltInv
  <2> QED BY <2>4, <2>5
<1>5. CASE BootStage
  BY <1>5, BuildStep
<1>6. CASE GracefulStop \/ ShutdownTimeout
  <2>1. /\ UNCHANGED <<reg, closes>> /\ proc.phase = "draining" /\ proc'.phase = "closing"
        /\ proc'.closing = proc.closing /\ proc'.stage = proc.stage /\ Listed(proc'.todo)
    BY <1>0, <1>6, TodoOk DEF GracefulStop, ShutdownTimeout
  <2>2. proc'.stage = 16
    BY <2>1 DEF WholeInv
  <2>3. \A b \in Range(Blocks) : ~ Failed(b)' /\ ~ Failed(b)
    BY <2>1, <2>2, StageOrder, BlockStages DEF Failed
  <2>4. BuiltInv'
    BY <2>1, <2>3 DEF BuiltInv, Listed
  <2>5. \A b \in Range(Blocks) : Failed(b)' = Failed(b)
    BY <2>3 DEF Failed
  <2> QED BY <1>2, <2>1, <2>4, <2>5
<1>7. CASE Signal \/ Select
  <2>1. /\ UNCHANGED <<reg, closes>> /\ proc'.cfg = proc.cfg /\ proc'.stage = proc.stage
        /\ proc'.closing = proc.closing
        /\ \/ proc.phase = "serving" /\ proc'.phase = "draining"
           \/ proc.phase = "boot" /\ proc'.phase = "boot"
    BY <1>0, <1>7 DEF Signal, Select, Drain
  <2>2. BuiltInv'
    BY <2>1 DEF BuiltInv, Owned, Cfg
  <2> QED BY <1>2, <2>1, <2>2 DEF Failed
<1>8. CASE CloseNext
  BY <1>8, CloseStep
<1>9. CASE Exit \/ Crash
  BY <1>3, <1>9 DEF Exit, Crash, Gone, Stopped
<1>10. CASE Close
  BY <1>10, CloseDriver
<1>11. CASE BootFails
  BY <1>11, FailStep
<1> QED
  BY <1>1, <1>4, <1>5, <1>6, <1>7, <1>8, <1>9, <1>10, <1>11, CallsApart
     DEF Next, ProcStep, ReloadStep, Tick, Hup, ReloadLoad, ReloadSwap, EditConfig, CallVars, vars

\* The driver of a namespace that the registry of its block has bound is owned.
LEMMA BoundIsServed ==
  ASSUME Len(Cfg.namespaces) \in Nat, NEW b, NEW r, BoundOk(r, Cfg, b, Len(Cfg.namespaces)),
         NEW q, q.m.block = b, q.namespace \in r.bound
  PROVE  DriverIn(Cfg, q) \in Range(r.owned)
<1> DEFINE n == Len(Cfg.namespaces)
           I == {i \in 1 .. n : Cfg.namespaces[i].block = q.m.block
                                 /\ Cfg.namespaces[i].name = q.namespace}
<1>1. PICK x \in I : \A y \in I : x <= y
  <2>1. I \in SUBSET Nat /\ I # {}
    BY DEF BoundOk
  <2> HIDE DEF I
  <2> QED BY <2>1, LeastNatural
<1>2. Min(I) \in I
  BY <1>1 DEF Min
<1>3. DriverIn(Cfg, q) = servedBy(Cfg.namespaces[Min(I)])
  BY <1>1 DEF DriverIn, SelectInSeq
<1> DEFINE k == Min(I)
<1>4. k \in 1 .. n /\ Cfg.namespaces[k].block = b
  BY <1>2
<1> HIDE DEF k
<1>5. servedBy(Cfg.namespaces[k]) \in Range(r.owned)
  BY <1>4 DEF BoundOk
<1> QED
  BY <1>3, <1>5 DEF k

\* A call goes on with its request or ends; a handler admits it to a namespace
\* that is bound.
LEMMA CallKeepsRequest ==
  ASSUME Types, WholeInv, CallInv, NEW s \in Slots, CallStep(s)
  PROVE  \/ rpc'[s].pc \in {"idle", "done"}
         \/ /\ ~ Free(s) /\ rpc'[s].q = rpc[s].q /\ rpc'[s].pc # "auth"
            /\ rpc[s].pc = "auth" => ~ isPublicMethod(Req(s).m)
            /\ rpc'[s].pc = "driver" /\ Req(s).m.block # "admin" =>
                  Req(s).namespace \in reg[Req(s).m.block].bound
<1>0. DOMAIN rpc = Slots /\ CallOk(s) /\ ~ Free(s)
  BY CallStepOk DEF CallInv
<1>1. ASSUME NEW r, Answer(s, r), r.pc = "done"
      PROVE  rpc'[s].pc \in {"idle", "done"}
  BY <1>0, <1>1 DEF Answer, Idle
<1>2. ASSUME NEW st, End(s, st)
      PROVE  rpc'[s].pc \in {"idle", "done"}
  BY <1>1, <1>2 DEF End
<1>3. CASE authenticate(s)
  <2>1. CASE \E st : End(s, st)
    BY <1>2, <2>1
  <2>2. CASE ~ \E st : End(s, st)
    <3>1. /\ ~ isPublicMethod(Req(s).m)
          /\ rpc' = [rpc EXCEPT ![s] = [pc |-> IF Streams(Req(s).m) THEN "recv" ELSE "policy",
                                        q |-> rpc[s].q, verifier |-> live.verifier]]
      BY <1>3, <2>2 DEF authenticate
    <3>2. rpc'[s].q = rpc[s].q /\ rpc'[s].pc \in {"recv", "policy"}
      BY <1>0, <3>1
    <3> QED BY <1>0, <3>1, <3>2
  <2> QED BY <2>1, <2>2
<1>4. CASE RecvMsg(s)
  <2>1. rpc[s].pc = "recv" /\ DOMAIN rpc[s] = {"pc", "q", "verifier"}
    BY <1>0, <1>4 DEF RecvMsg, CallOk
  <2>2. CASE rpc' = [rpc EXCEPT ![s].pc = "policy"]
    <3>1. rpc'[s] = [rpc[s] EXCEPT !.pc = "policy"]
      BY <1>0, <2>2
    <3>2. rpc'[s].q = rpc[s].q /\ rpc'[s].pc = "policy"
      BY <2>1, <3>1
    <3> QED BY <1>0, <2>1, <3>2
  <2> QED BY <1>2, <1>4, <2>2 DEF RecvMsg
<1>5. CASE evaluate(s)
  <2> DEFINE c == WithEngine(rpc[s])
  <2>1. c.pc = "rule"
    BY <1>5 DEF evaluate
  <2>2. DOMAIN c = {"pc", "q", "verifier", "engine", "i"} /\ c.q = rpc[s].q
    BY <2>1, EngineOk
  <2>3. rpc[s].pc # "auth"
    BY <2>1 DEF WithEngine
  <2>4. \/ \E st : End(s, st)
        \/ \E j : rpc' = [rpc EXCEPT ![s] = [c EXCEPT !.pc = "limit", !.i = j]]
        \/ Handle(s, c)
    BY <1>5 DEF evaluate
  <2>5. CASE \E j : rpc' = [rpc EXCEPT ![s] = [c EXCEPT !.pc = "limit", !.i = j]]
    <3>1. PICK j : rpc' = [rpc EXCEPT ![s] = [c EXCEPT !.pc = "limit", !.i = j]]
      BY <2>5
    <3> HIDE DEF c
    <3>2. rpc'[s].q = c.q /\ rpc'[s].pc = "limit"
      BY <1>0, <2>2, <3>1
    <3> QED BY <1>0, <2>2, <2>3, <3>2
  <2>6. CASE Handle(s, c)
    <3> DEFINE q == Req(s)
               b == IF q.m.block = "admin" THEN "kv" ELSE q.m.block
    <3>1. CASE driverFor(q, q.token, reg[b].bound) # "OK"
      BY <1>2, <2>6, <3>1 DEF Handle
    <3>2. CASE driverFor(q, q.token, reg[b].bound) = "OK"
      <4>1. rpc' = [rpc EXCEPT ![s] = [c EXCEPT !.pc = "driver"]]
        BY <2>6, <3>2 DEF Handle
      <4>2. q.m.block # "admin" => q.namespace \in reg[b].bound
        BY <3>2 DEF driverFor
      <4> HIDE DEF c, q
      <4>3. rpc'[s].q = c.q /\ rpc'[s].pc = "driver"
        BY <1>0, <2>2, <4>1
      <4> QED BY <1>0, <2>2, <2>3, <4>2, <4>3 DEF q
    <3> QED BY <3>1, <3>2
  <2> QED BY <1>2, <2>4, <2>5, <2>6
<1>6. CASE Allow(s)
  <2>1. rpc[s].pc = "limit" /\ DOMAIN rpc[s] = {"pc", "q", "verifier", "engine", "i"}
    BY <1>0, <1>6 DEF Allow, CallOk
  <2>2. CASE rpc' = [rpc EXCEPT ![s].pc = "rule", ![s].i = @ + 1]
    <3>1. rpc'[s] = [rpc[s] EXCEPT !.pc = "rule", !.i = @ + 1]
      BY <1>0, <2>2
    <3>2. rpc'[s].q = rpc[s].q /\ rpc'[s].pc = "rule"
      BY <2>1, <3>1
    <3> QED BY <1>0, <2>1, <3>2
  <2> QED BY <1>2, <1>6, <2>2 DEF Allow
<1>7. CASE Write(s) \/ Read(s) \/ ListNamespaces(s) \/ Other(s) \/ Recovery(s) \/ CancelTail(s)
  <2>1. \E r : r.pc = "done" /\ Answer(s, r)
    BY <1>7 DEF Write, Read, ListNamespaces, Other, Recovery, CancelTail, End
  <2> QED BY <1>1, <2>1
<1> QED
  BY <1>3, <1>4, <1>5, <1>6, <1>7 DEF CallStep

\* A call is handed a driver only while its registry is built, and the registry
\* gives drivers up only when it is closed.
LEMMA UseStep ==
  ASSUME Types, WholeInv, CallInv, DriversInv, BuiltInv, UseInv, [Next]_vars
  PROVE  UseInv'
<1>0. /\ DOMAIN rpc = Slots /\ proc.phase \in Phases /\ proc.stage \in 1 .. 16
      /\ {"phase", "stage", "cfg", "todo", "signal", "forced"} \subseteq DOMAIN proc
      /\ (\E s \in Slots : ~ Free(s)) => proc.phase # "stopped" /\ proc.stage > 12
  BY DEF CallInv, Types
\* The calls that are left alone keep their drivers if the registries do.
<1>1. ASSUME rpc' = rpc, proc'.cfg = proc.cfg, proc'.phase # "stopped",
             proc'.phase \in {"boot", "serving", "draining"} =>
                 reg' = reg /\ proc.phase \in {"boot", "serving", "draining"},
             proc'.phase = "closing" => proc'.forced \/ proc'.stage < 16 \/ \A s \in Slots : Free(s)
      PROVE  UseInv'
  <2>1. \A s \in Slots : Req(s)' = Req(s) /\ Free(s)' = Free(s)
    BY <1>1 DEF Req, Free
  <2>2. reg' = reg => \A s \in Slots : UsesOwned(s)' = UsesOwned(s)
    BY <1>1 DEF UsesOwned, Owned, Cfg, Req
  <2> QED BY <1>1, <2>1, <2>2 DEF UseInv
<1>2. ASSUME \A s \in Slots : Free(s)' PROVE UseInv'
  BY <1>2 DEF UseInv, Free
<1>3. CASE \A s \in Slots : rpc'[s] = Idle
  BY <1>2, <1>3 DEF Free, Idle
<1>4. CASE Start
  <2>1. rpc' = rpc /\ \A s \in Slots : Free(s)
    BY <1>0, <1>4 DEF Start
  <2> QED BY <1>2, <2>1 DEF Free
<1>5. CASE BootStage
  <2>1. rpc' = rpc /\ proc'.cfg = proc.cfg /\ proc.phase = "boot" /\ proc'.phase \in {"boot", "serving"}
    BY <1>0, <1>5 DEF BootStage
  <2>2. CASE \A s \in Slots : Free(s)
    BY <1>2, <2>1, <2>2 DEF Free
  <2>3. CASE \E s \in Slots : ~ Free(s)
    <3>1. Stages[proc.stage] \notin Range(Blocks)
      <4>1. proc.stage > 12
        BY <1>0, <2>3
      <4>2. proc.stage \notin 6 .. 11
        BY <1>0, <4>1
      <4> QED BY <1>0, <4>2, BlockStages
    <3>2. reg' = reg
      BY <1>5, <3>1 DEF BootStage, SetUp
    <3> QED BY <1>1, <2>1, <3>2
  <2> QED BY <2>2, <2>3
<1>6. CASE BootFails
  <2>1. rpc' = rpc /\ proc'.cfg = proc.cfg /\ proc'.phase = "closing" /\ proc'.stage = proc.stage
    BY <1>0, <1>6 DEF BootFails
  <2>2. proc.stage # 16
    <3>1. ASSUME proc.stage = 16 PROVE FALSE
      <4>1. Stages[proc.stage] = "gateway"
        BY <3>1, StageOrder
      <4>2. "gateway" \in Fallible \/ ~ StageOk(Cfg, "gateway")
        BY <1>6, <4>1 DEF BootFails
      <4>3. "gateway" \notin Range(Blocks)
        BY BlockStages
      <4> QED BY <4>2, <4>3 DEF Fallible, StageOk
    <3> QED BY <3>1
  <2>3. proc'.stage < 16
    BY <1>0, <2>1, <2>2
  <2> QED BY <1>1, <2>1, <2>3
<1>7. CASE Signal \/ Select
  <2>1. /\ rpc' = rpc /\ reg' = reg /\ proc'.cfg = proc.cfg
        /\ proc.phase \in {"boot", "serving"} /\ proc'.phase \in {"boot", "draining"}
    BY <1>0, <1>7 DEF Signal, Select, Drain
  <2> QED BY <1>1, <2>1
<1>8. CASE GracefulStop
  BY <1>3, <1>8 DEF GracefulStop
<1>9. CASE ShutdownTimeout
  <2>1. /\ proc' = [proc EXCEPT !.phase = "closing", !.todo = Reverse(Blocks), !.forced = TRUE]
        /\ rpc' = [s \in Slots |-> IF rpc[s].pc = "driver" THEN rpc[s] ELSE Idle]
    BY <1>9 DEF ShutdownTimeout
  <2>2. proc'.phase = "closing" /\ proc'.forced
    BY <1>0, <2>1
  <2>3. ASSUME NEW s \in Slots
        PROVE  \/ rpc'[s] = rpc[s] /\ Req(s)' = Req(s) /\ Free(s)' = Free(s)
               \/ rpc'[s] = Idle
    BY <2>1 DEF Req, Free
  <2>4. ASSUME NEW s \in Slots, rpc'[s] = Idle
        PROVE  Free(s)' /\ rpc'[s].pc = "idle"
    BY <2>4 DEF Free, Idle
  <2> QED BY <2>2, <2>3, <2>4 DEF UseInv
<1>10. CASE CloseNext \/ Close
  <2>1. /\ rpc' = rpc /\ proc'.cfg = proc.cfg /\ proc.phase = "closing" /\ proc'.phase = "closing"
        /\ proc'.forced = proc.forced /\ proc'.stage = proc.stage
    BY <1>0, <1>10 DEF CloseNext, Close
  <2> QED BY <1>1, <2>1 DEF UseInv
<1>11. CASE Gone
  BY <1>3, <1>11 DEF Gone
<1>12. CASE UNCHANGED <<rpc, proc, reg>>
  <2>1. CASE proc.phase = "stopped"
    <3>1. \A s \in Slots : Free(s)'
      BY <1>0, <1>12, <2>1 DEF Free
    <3> QED BY <1>2, <3>1
  <2>2. CASE proc.phase # "stopped"
    BY <1>0, <1>1, <1>12, <2>2 DEF UseInv, Phases
  <2> QED BY <2>1, <2>2
<1>13. ASSUME NEW s \in Slots, UNCHANGED <<proc, reg>>, rpc' = [rpc EXCEPT ![s] = rpc'[s]],
              ~ Free(s)' =>
                 /\ rpc'[s].q \in 1 .. Len(Requests)
                 /\ rpc'[s].pc # "auth" => ~ isPublicMethod(Req(s).m)'
                 /\ proc.phase = "closing" => proc.forced \/ proc.stage < 16
                 /\ proc.phase \in {"boot", "serving", "draining"} /\ rpc'[s].pc = "driver" =>
                        UsesOwned(s)'
       PROVE  UseInv'
  <2>1. ASSUME NEW t \in Slots, t # s
        PROVE  rpc'[t] = rpc[t] /\ Req(t)' = Req(t) /\ Free(t)' = Free(t) /\ UsesOwned(t)' = UsesOwned(t)
    <3>1. rpc'[t] = rpc[t]
      BY <1>0, <1>13, <2>1
    <3> QED BY <1>13, <3>1 DEF Req, Free, UsesOwned, Cfg, Owned
  <2>2. rpc'[s].pc \notin {"idle", "done"} => ~ Free(s)'
    BY DEF Free
  <2>3. proc' = proc
    BY <1>13
  <2>4. (\A t \in Slots : ~ Free(t) => rpc[t].q \in 1 .. Len(Requests))'
    BY <1>13, <2>1 DEF UseInv
  <2>5. (\A t \in Slots : rpc[t].pc \notin {"idle", "done", "auth"} => ~ isPublicMethod(Req(t).m))'
    BY <1>13, <2>1, <2>2 DEF UseInv
  <2>6. (proc.phase \in {"boot", "serving", "draining"} =>
           \A t \in Slots : rpc[t].pc = "driver" => UsesOwned(t))'
    BY <1>13, <2>1, <2>2, <2>3 DEF UseInv
  <2>7. (proc.phase = "closing" => proc.forced \/ proc.stage < 16 \/ \A t \in Slots : Free(t))'
    BY <1>13, <2>1, <2>3 DEF UseInv
  <2> QED BY <2>4, <2>5, <2>6, <2>7 DEF UseInv
<1>14. ASSUME NEW s \in Slots, CallStep(s) PROVE UseInv'
  <2>1. UNCHANGED <<proc, reg>>
    BY <1>14, CallsApart DEF CallVars
  <2>2. rpc' = [rpc EXCEPT ![s] = rpc'[s]] /\ ~ Free(s)
    BY <1>14, CallStepOk
  <2>3. ASSUME ~ Free(s)'
        PROVE  /\ rpc'[s].q = rpc[s].q /\ rpc'[s].pc # "auth" /\ Req(s)' = Req(s)
               /\ ~ isPublicMethod(Req(s).m)
               /\ rpc'[s].pc = "driver" /\ Req(s).m.block # "admin" =>
                     Req(s).namespace \in reg[Req(s).m.block].bound
    <3>1. rpc'[s].pc \notin {"idle", "done"}
      BY <2>3 DEF Free
    <3>2. /\ rpc'[s].q = rpc[s].q /\ rpc'[s].pc # "auth"
          /\ rpc[s].pc = "auth" => ~ isPublicMethod(Req(s).m)
          /\ rpc'[s].pc = "driver" /\ Req(s).m.block # "admin" =>
                Req(s).namespace \in reg[Req(s).m.block].bound
      BY <1>14, <3>1, CallKeepsRequest
    <3>3. ~ isPublicMethod(Req(s).m)
      BY <2>2, <3>2 DEF UseInv, Free
    <3>4. Req(s)' = Req(s)
      BY <3>2 DEF Req
    <3> QED BY <3>2, <3>3, <3>4
  <2>4. rpc[s].q \in 1 .. Len(Requests) /\ (proc.phase = "closing" => proc.forced \/ proc.stage < 16)
    BY <2>2 DEF UseInv
  <2>5. ASSUME ~ Free(s)', proc.phase \in {"boot", "serving", "draining"}, rpc'[s].pc = "driver"
        PROVE  UsesOwned(s)'
    <3> DEFINE b == Req(s).m.block
               name == Req(s).namespace
    <3>1. CASE b = "admin"
      BY <2>3, <2>5, <3>1 DEF UsesOwned
    <3>2. CASE b # "admin"
      <4>1. b \in Range(Blocks)
        BY <2>3, <2>4, <2>5, <3>2, RequestsAssumption DEF isPublicMethod, Req
      <4>2. name \in reg[b].bound
        BY <2>3, <2>5, <3>2
      <4>3. BoundOk(reg[b], Cfg, b, Len(Cfg.namespaces))
        BY <2>5, <4>1, <4>2, NewOwnsNothing DEF BuiltInv
      <4>4. Len(Cfg.namespaces) \in Nat
        <5>1. proc.cfg \in DOMAIN Configs
          BY DEF Types
        <5>2. Cfg.namespaces \in Seq(Range(Cfg.namespaces))
          BY <5>1, ConfigsAssumption DEF Cfg
        <5> QED BY <5>2, LenProperties
      <4>5. DriverIn(Cfg, Req(s)) \in Range(reg[b].owned)
        BY <4>2, <4>3, <4>4, BoundIsServed
      <4>6. Cfg' = Cfg /\ reg' = reg /\ Req(s)' = Req(s)
        BY <2>1, <2>3, <2>5 DEF Cfg
      <4> QED BY <4>5, <4>6 DEF UsesOwned, Owned
    <3> QED BY <3>1, <3>2
  <2> QED BY <1>13, <2>1, <2>2, <2>3, <2>4, <2>5
<1>15. ASSUME NEW s \in Slots, NEW q \in 1 .. Len(Requests), Arrive(s, q) PROVE UseInv'
  <2>1. UNCHANGED <<proc, reg>> /\ Accepting /\ rpc' = [rpc EXCEPT ![s] = [pc |-> "auth", q |-> q]]
    BY <1>15 DEF Arrive, CallVars
  <2>2. rpc'[s].q = q /\ rpc'[s].pc = "auth" /\ rpc' = [rpc EXCEPT ![s] = rpc'[s]]
    BY <1>0, <2>1
  <2>3. proc.phase = "closing" => proc.stage < 16
    <3>1. ASSUME proc.phase = "closing", proc.stage = 16 PROVE FALSE
      BY <2>1, <3>1, StageOrder DEF Accepting
    <3> QED BY <1>0, <3>1
  <2> QED BY <1>13, <2>1, <2>2, <2>3
<1> QED
  BY <1>4, <1>5, <1>6, <1>7, <1>8, <1>9, <1>10, <1>11, <1>12, <1>14, <1>15
     DEF Next, ProcStep, ReloadStep, Tick, Hup, ReloadLoad, ReloadSwap, EditConfig, Exit, Crash, vars

\* Nothing is open when the machine starts.
LEMMA InitDrivers == Init => DriversInv /\ BuiltInv /\ UseInv
<1> SUFFICES ASSUME Init PROVE DriversInv /\ BuiltInv /\ UseInv
  OBVIOUS
<1>1. /\ DOMAIN reg = Range(Blocks) /\ \A b \in Range(Blocks) : reg[b] = NewRegistry
      /\ closes = << >> /\ DOMAIN closes = {} /\ proc.phase = "stopped" /\ proc.closing = << >>
      /\ \A s \in Slots : rpc[s].pc = "idle"
  BY DEF Init, Stopped, Idle
<1>2. DriversInv
  BY <1>1, NewOwnsNothing, NoneClosing DEF DriversInv, Owned
<1>3. BuiltInv
  BY <1>1 DEF BuiltInv
<1>4. UseInv
  BY <1>1 DEF UseInv, Free
<1> QED
  BY <1>2, <1>3, <1>4

\* However a boot or a shutdown ends, no driver is closed twice, all are closed in the
\* end but those of a block whose own registry could not be built, and none under a
\* call that uses it unless the shutdown timed out or the boot had failed.
THEOREM DriversClosedOnce == Spec => []ClosedOnceAfterCalls
<1>1. Types /\ CallInv /\ DriversInv /\ BuiltInv /\ UseInv => ClosedOnceAfterCalls
  <2> SUFFICES ASSUME Types, CallInv, DriversInv, BuiltInv, UseInv PROVE ClosedOnceAfterCalls
    OBVIOUS
  <2>1. \A d \in DOMAIN closes : closes[d] <= 1
    BY DEF DriversInv
  <2>2. ASSUME proc.phase = "closing", proc.closing = << >>, Owning = {},
               NEW d \in DOMAIN closes, d[1] # Stages[proc.stage]
        PROVE  closes[d] = 1
    <3>1. d[1] \in Range(Blocks) /\ ~ Failed(d[1])
      BY <2>2 DEF DriversInv, Failed
    <3>2. Owned(d[1]) = {}
      <4>1. ASSUME Owned(d[1]) # {} PROVE FALSE
        <5>1. PICK i \in 1 .. Len(proc.todo) : proc.todo[i] = d[1]
          BY <2>2, <3>1, <4>1 DEF BuiltInv
        <5>2. reg[d[1]].owned # << >>
          BY <3>1, <4>1, EmptyRange DEF DriversInv, RegistryOk, Owned
        <5> QED BY <2>2, <5>1, <5>2 DEF Owning
      <4> QED BY <4>1
    <3>3. d \notin Range(proc.closing)
      BY <2>2, NoneClosing
    <3> QED BY <3>1, <3>2, <3>3 DEF DriversInv
  <2>3. ASSUME NEW s \in Slots, rpc[s].pc = "driver", Closed(Req(s))
        PROVE  proc.forced \/ proc.stage < Len(Stages)
    <3>1. ~ Free(s) /\ proc.phase # "stopped" /\ proc.phase \in Phases
      BY <2>3 DEF Free, CallInv, Types
    <3>2. CASE proc.phase = "closing"
      BY <3>1, <3>2, StageOrder DEF UseInv
    <3>3. CASE proc.phase \in {"boot", "serving", "draining"}
      <4> DEFINE b == Req(s).m.block
                 d == DriverOf(Req(s))
      <4>1. b # "admin" /\ closes[d] > 0 /\ d \in Owned(b)
        BY <2>3, <3>3 DEF UseInv, UsesOwned, Closed, DriverOf, ConfigOf, DriverIn
      <4>2. b \in Range(Blocks)
        <5>1. rpc[s].q \in 1 .. Len(Requests) /\ ~ isPublicMethod(Req(s).m)
          BY <2>3, <3>1 DEF UseInv
        <5> QED BY <4>1, <5>1, RequestsAssumption DEF isPublicMethod, Req
      <4> HIDE DEF b, d
      <4>3. RegistryOk(reg[b], b) /\ d \in DOMAIN closes
        BY <4>1, <4>2 DEF DriversInv
      <4>4. d[1] = b
        BY <4>1, <4>3 DEF RegistryOk, Owned
      <4>5. closes[d] = 0
        BY <4>1, <4>3, <4>4 DEF DriversInv
      <4> QED BY <4>1, <4>5
    <3> QED BY <3>1, <3>2, <3>3 DEF Phases
  <2> QED BY <2>1, <2>2, <2>3 DEF ClosedOnceAfterCalls
<1> QED
  BY <1>1, InitTypes, InitCalls, InitDrivers, TypesStep, WholeStep, CallsStep, DriversStep, UseStep,
     PTL DEF Spec

----------------------------------------------------------------------------
(* Reads.                                                                  *)

\* A Put or an Append seals its value for the place it stores it at.
LEMMA WrittenOk ==
  ASSUME NEW q, NEW form
  PROVE  RowOk(Written(q, form))
<1> DEFINE v == seal(Cfg.encryption, Encrypted(q), [of |-> q.token.tenant, form |-> form], aadOf(q, q.key))
           e == Written(q, form)
<1>1. v.body.of = q.token.tenant /\ (v.key # None => v.aad = aadOf(q, q.key))
  BY DEF seal, Encrypt, plain
<1> HIDE DEF v
<1>2. /\ e.block = q.m.block /\ e.namespace = StorageNamespace(q) /\ e.key = q.key
      /\ e.value = v
  BY DEF Written, v
<1> HIDE DEF e
<1>3. StorageNamespace(q) \in {<<q.token.tenant, q.namespace>>, <<q.namespace>>}
  BY DEF StorageNamespace, QualifyNamespace
<1>4. Len(e.namespace) = 2 => e.namespace[1] = e.value.body.of
  BY <1>1, <1>2, <1>3
<1>5. RowOk(e)
  BY <1>1, <1>2, <1>4 DEF RowOk, aadOf
<1> QED
  BY <1>5 DEF e

\* What a namespace serves has the body that was stored, and is an envelope only if
\* the namespace is plain.
LEMMA OpenedOk ==
  ASSUME NEW enc, NEW encrypt, NEW v
  PROVE  LET w == opened(enc, encrypt, v) IN w.body = v.body /\ (w.key # None => ~ encrypt)
BY DEF opened, plain, Untouched, IsEmpty, IsEnvelope

\* Rows of the call's namespace are the reader's own if it is isolated, and one
\* that does not open has no key in the ring, or was never sealed.
LEMMA ReadAnswers ==
  ASSUME NEW q, q.m.block \in encryptableBlocks, \A e \in store : RowOk(e), NEW r,
         LET shut == {e \in Rows(q) : ~ open(Cfg.encryption, Encrypted(q), e.value, aadOf(q, e.key))}
         IN  /\ r.shut = shut /\ r.reader = q.token.tenant /\ r.encrypted = Encrypted(q)
             /\ r.result = IF shut # {} THEN {}
                           ELSE {opened(Cfg.encryption, Encrypted(q), e.value) : e \in Rows(q)}
  PROVE  ReadOk(Cfg, r)
<1>1. ASSUME Cfg.isolate, NEW e \in Rows(q) PROVE e.value.body.of = q.token.tenant
  <2>1. RowOk(e) /\ e.namespace = <<q.token.tenant, q.namespace>>
    BY <1>1 DEF Rows, StorageNamespace, QualifyNamespace
  <2> QED BY <2>1 DEF RowOk
<1>2. ASSUME NEW v \in r.result
      PROVE  (Cfg.isolate => v.body.of = r.reader) /\ (v.key # None => ~ r.encrypted)
  <2>1. PICK e \in Rows(q) : v = opened(Cfg.encryption, Encrypted(q), e.value)
    OBVIOUS
  <2>2. v.body = e.value.body /\ (v.key # None => ~ Encrypted(q))
    BY <2>1, OpenedOk
  <2> QED BY <1>1, <2>2
<1>3. ASSUME NEW e \in r.shut
      PROVE  IF e.value.key = None THEN ~ Cfg.encryption.plaintext \/ e.value.body.form = "shaped"
             ELSE e.value.key \notin KeyIds(Cfg.encryption)
  <2>1. /\ RowOk(e) /\ e.namespace = StorageNamespace(q) /\ e.block = q.m.block
        /\ ~ open(Cfg.encryption, Encrypted(q), e.value, aadOf(q, e.key))
    BY <1>3 DEF Rows
  <2>2. e.value.key # None => e.value.aad = aadOf(q, e.key)
    BY <2>1 DEF RowOk, aadOf
  <2> QED BY <2>1, <2>2 DEF open, Untouched, IsEnvelope, Decrypt
<1> QED
  BY <1>2, <1>3 DEF ReadOk

\* Calls that read no rows end with a bare status, or go on.
LEMMA OthersReadNothing ==
  ASSUME Types, WholeInv, CallInv, NEW s \in Slots, CallStep(s), ~ Write(s), ~ Read(s)
  PROVE  ListNamespaces(s) \/ (\E st : End(s, st)) \/ rpc'[s].pc # "done"
<1>0. DOMAIN rpc = Slots /\ CallOk(s)
  BY CallStepOk DEF CallInv
<1>1. CASE authenticate(s)
  <2>1. CASE \E st : End(s, st)
    BY <2>1
  <2>2. CASE ~ \E st : End(s, st)
    <3>1. rpc' = [rpc EXCEPT ![s] = [pc |-> IF Streams(Req(s).m) THEN "recv" ELSE "policy",
                                     q |-> rpc[s].q, verifier |-> live.verifier]]
      BY <1>1, <2>2 DEF authenticate
    <3>2. rpc'[s].pc \in {"recv", "policy"}
      BY <1>0, <3>1
    <3> QED BY <3>2
  <2> QED BY <2>1, <2>2
<1>2. CASE RecvMsg(s)
  <2>1. "pc" \in DOMAIN rpc[s]
    BY <1>0, <1>2 DEF RecvMsg, CallOk
  <2>2. CASE rpc' = [rpc EXCEPT ![s].pc = "policy"]
    <3>1. rpc'[s].pc = "policy"
      BY <1>0, <2>1, <2>2
    <3> QED BY <3>1
  <2>3. CASE End(s, "Canceled")
    BY <2>3
  <2> QED BY <1>2, <2>2, <2>3 DEF RecvMsg
<1>3. CASE evaluate(s)
  <2> DEFINE c == WithEngine(rpc[s])
  <2>1. "pc" \in DOMAIN c /\ "i" \in DOMAIN c
    BY <1>3, EngineOk DEF evaluate
  <2>2. \/ \E st : End(s, st)
        \/ \E j : rpc' = [rpc EXCEPT ![s] = [c EXCEPT !.pc = "limit", !.i = j]]
        \/ rpc' = [rpc EXCEPT ![s] = [c EXCEPT !.pc = "driver"]]
    BY <1>3 DEF evaluate, Handle
  <2> HIDE DEF c
  <2>3. CASE \E j : rpc' = [rpc EXCEPT ![s] = [c EXCEPT !.pc = "limit", !.i = j]]
    <3>1. rpc'[s].pc = "limit"
      BY <1>0, <2>1, <2>3
    <3> QED BY <3>1
  <2>4. CASE rpc' = [rpc EXCEPT ![s] = [c EXCEPT !.pc = "driver"]]
    <3>1. rpc'[s].pc = "driver"
      BY <1>0, <2>1, <2>4
    <3> QED BY <3>1
  <2> QED BY <2>2, <2>3, <2>4
<1>4. CASE Allow(s)
  <2>1. "pc" \in DOMAIN rpc[s]
    BY <1>0, <1>4 DEF Allow, CallOk
  <2>2. CASE rpc' = [rpc EXCEPT ![s].pc = "rule", ![s].i = @ + 1]
    <3>1. rpc'[s] = [rpc[s] EXCEPT !.pc = "rule", !.i = @ + 1]
      BY <1>0, <2>2
    <3>2. rpc'[s].pc = "rule"
      BY <2>1, <3>1
    <3> QED BY <3>2
  <2>3. CASE End(s, policyCode(TRUE))
    BY <2>3
  <2> QED BY <1>4, <2>2, <2>3 DEF Allow
<1>5. CASE Other(s) \/ Recovery(s) \/ CancelTail(s)
  BY <1>5 DEF Other, Recovery, CancelTail
<1> QED
  BY <1>1, <1>2, <1>3, <1>4, <1>5 DEF CallStep

\* Rows are written as they will be read, and answers go with their process.
LEMMA ReadStep ==
  ASSUME Types, WholeInv, CallInv, ReadInv, [Next]_vars
  PROVE  ReadInv'
<1>0. /\ DOMAIN rpc = Slots /\ proc.phase \in Phases
      /\ {"phase", "stage", "cfg", "todo", "signal", "forced"} \subseteq DOMAIN proc
  BY DEF CallInv, Types
<1>1. ASSUME store' = store, proc'.cfg = proc.cfg, proc'.phase # "stopped",
             \A s \in Slots : rpc'[s] \in {rpc[s], Idle}
      PROVE  ReadInv'
  <2>1. Cfg' = Cfg
    BY <1>1 DEF Cfg
  <2>2. ReadOk(Cfg, Idle)
    BY DEF ReadOk, Idle
  <2>3. \A s \in Slots : ReadOk(Cfg, rpc'[s])
    BY <1>1, <2>2 DEF ReadInv
  <2> QED BY <1>1, <2>1, <2>3 DEF ReadInv
<1>2. ASSUME store' \subseteq store, \A s \in Slots : rpc'[s] = Idle
      PROVE  ReadInv'
  <2>1. \A s \in Slots : ReadOk(Cfg', rpc'[s])
    BY <1>2 DEF ReadOk, Idle
  <2> QED BY <1>2, <2>1 DEF ReadInv
<1>3. CASE Start
  BY <1>2, <1>3 DEF Start, ReadInv
<1>4. CASE BootStage
  <2>1. store' = store /\ rpc' = rpc /\ proc'.cfg = proc.cfg /\ proc'.phase # "stopped"
    BY <1>0, <1>4 DEF BootStage
  <2> QED BY <1>1, <2>1
<1>5. CASE BootFails \/ Signal \/ Select \/ CloseNext \/ Close
  <2>1. /\ store' = store /\ rpc' = rpc /\ proc'.cfg = proc.cfg
        /\ proc'.phase \in {"boot", "draining", "closing"}
    BY <1>0, <1>5 DEF BootFails, Signal, Select, Drain, CloseNext, Close
  <2> QED BY <1>1, <2>1
<1>6. CASE GracefulStop \/ ShutdownTimeout
  <2>1. store' = store /\ proc'.cfg = proc.cfg /\ proc'.phase = "closing"
    BY <1>0, <1>6 DEF GracefulStop, ShutdownTimeout
  <2>2. \A s \in Slots : rpc'[s] \in {rpc[s], Idle}
    BY <1>6 DEF GracefulStop, ShutdownTimeout
  <2> QED BY <1>1, <2>1, <2>2
<1>7. CASE Gone
  BY <1>2, <1>7 DEF Gone, Surviving
<1>8. CASE UNCHANGED <<store, proc, rpc>>
  BY <1>8 DEF ReadInv, Cfg
<1>9. ASSUME NEW s \in Slots, proc' = proc, proc.phase # "stopped",
             rpc' = [rpc EXCEPT ![s] = rpc'[s]], ReadOk(Cfg, rpc'[s]),
             \A e \in store' : RowOk(e)
      PROVE  ReadInv'
  <2>1. Cfg' = Cfg
    BY <1>9 DEF Cfg
  <2>2. ASSUME NEW t \in Slots PROVE ReadOk(Cfg, rpc'[t])
    <3>1. CASE t = s
      BY <1>9, <3>1
    <3>2. CASE t # s
      <4>1. rpc'[t] = rpc[t]
        BY <1>0, <1>9, <3>2
      <4> QED BY <4>1 DEF ReadInv
    <3> QED BY <3>1, <3>2
  <2> QED BY <1>9, <2>1, <2>2 DEF ReadInv
<1>10. ASSUME NEW s \in Slots, CallStep(s) PROVE ReadInv'
  <2>1. /\ proc' = proc /\ rpc' = [rpc EXCEPT ![s] = rpc'[s]] /\ proc.phase # "stopped"
    BY <1>10, CallStepOk, CallsApart DEF CallInv, CallVars
  <2>2. ASSUME ReadOk(Cfg, rpc'[s]), store' = store PROVE ReadInv'
    BY <1>9, <2>1, <2>2 DEF ReadInv
  <2>3. ASSUME NEW r, Answer(s, r), r.pc # "done" \/ "result" \notin DOMAIN r
        PROVE  ReadOk(Cfg, rpc'[s])
    <3>1. rpc'[s] \in {Idle, r}
      BY <1>0, <2>3 DEF Answer
    <3> QED BY <2>3, <3>1 DEF ReadOk, Idle
  <2>4. CASE Write(s)
    <3>1. ReadOk(Cfg, rpc'[s])
      BY <2>3, <2>4 DEF Write, End
    <3>2. \A e \in store' : RowOk(e)
      <4>1. PICK form : store' \subseteq store \cup {Written(Req(s), form)}
        BY <2>4 DEF Write
      <4> QED BY <4>1, WrittenOk DEF ReadInv
    <3> QED BY <1>9, <2>1, <3>1, <3>2
  <2>5. CASE Read(s)
    <3> DEFINE q == Req(s)
               shut == {e \in Rows(q) : ~ open(Cfg.encryption, Encrypted(q), e.value, aadOf(q, e.key))}
               r == [pc |-> "done", status |-> IF shut = {} THEN "OK" ELSE "Internal",
                     shut |-> shut, reader |-> q.token.tenant, encrypted |-> Encrypted(q),
                     result |-> IF shut # {} THEN {}
                                ELSE {opened(Cfg.encryption, Encrypted(q), e.value) : e \in Rows(q)}]
    <3>1. q.m.block \in encryptableBlocks /\ Answer(s, r) /\ store' = store
      BY <2>5 DEF Read, CallVars
    <3>2. /\ r.shut = shut /\ r.reader = q.token.tenant /\ r.encrypted = Encrypted(q)
          /\ r.result = IF shut # {} THEN {}
                        ELSE {opened(Cfg.encryption, Encrypted(q), e.value) : e \in Rows(q)}
      OBVIOUS
    <3> HIDE DEF r
    <3>3. ReadOk(Cfg, r)
      BY <3>1, <3>2, ReadAnswers DEF ReadInv
    <3>4. rpc'[s] \in {Idle, r}
      BY <1>0, <3>1 DEF Answer
    <3>5. ReadOk(Cfg, Idle)
      BY DEF ReadOk, Idle
    <3> QED BY <2>2, <3>1, <3>3, <3>4, <3>5
  <2>6. CASE ~ Write(s) /\ ~ Read(s)
    <3>1. store' = store
      BY <1>10, <2>6 DEF CallStep, authenticate, RecvMsg, evaluate, Allow, ListNamespaces, Other,
         Recovery, CancelTail, CallVars
    <3>2. rpc'[s].pc # "done" \/ \E r : Answer(s, r) /\ "result" \notin DOMAIN r
      <4>1. CASE ListNamespaces(s)
        BY <4>1 DEF ListNamespaces
      <4>2. CASE \E st : End(s, st)
        BY <4>2 DEF End
      <4>3. CASE rpc'[s].pc # "done"
        BY <4>3
      <4>4. \/ ListNamespaces(s)
            \/ \E st : End(s, st)
            \/ rpc'[s].pc # "done"
        BY <1>10, <2>6, OthersReadNothing
      <4> QED BY <4>1, <4>2, <4>3, <4>4
    <3>3. ReadOk(Cfg, rpc'[s])
      BY <2>3, <3>2 DEF ReadOk
    <3> QED BY <2>2, <3>1, <3>3
  <2> QED BY <2>4, <2>5, <2>6
<1>11. ASSUME NEW s \in Slots, NEW q \in 1 .. Len(Requests), Arrive(s, q) PROVE ReadInv'
  <2>1. /\ proc' = proc /\ store' = store /\ Accepting
        /\ rpc' = [rpc EXCEPT ![s] = [pc |-> "auth", q |-> q]]
    BY <1>11 DEF Arrive, CallVars
  <2>2. rpc'[s].pc = "auth" /\ rpc' = [rpc EXCEPT ![s] = rpc'[s]]
    BY <1>0, <2>1
  <2>3. proc.phase # "stopped"
    BY <2>1 DEF Accepting
  <2>4. ReadOk(Cfg, rpc'[s])
    BY <2>2 DEF ReadOk
  <2> QED BY <1>9, <2>1, <2>2, <2>3, <2>4 DEF ReadInv
<1> QED
  BY <1>3, <1>4, <1>5, <1>6, <1>7, <1>8, <1>10, <1>11
     DEF Next, ProcStep, ReloadStep, Tick, Hup, ReloadLoad, ReloadSwap, EditConfig, Exit, Crash, vars

\* Whatever keys, encryption and isolation a restart brings, an isolated read returns
\* its own tenant's values, an encrypted namespace none that is still sealed, and a
\* read fails only on a row whose key is gone, or on one never sealed, without the
\* migration flag or shaped like an envelope.
THEOREM ValuesRoundTrip == Spec => []ReadsRoundTrip
<1>1. Init => ReadInv
  BY DEF Init, ReadInv, ReadOk, Idle
<1>2. ReadInv => ReadsRoundTrip
  BY DEF ReadInv, ReadOk, ReadsRoundTrip
<1> QED
  BY <1>1, <1>2, InitTypes, InitCalls, TypesStep, WholeStep, CallsStep, ReadStep, PTL DEF Spec
=============================================================================
