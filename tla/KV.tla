--------------------------------- MODULE KV ---------------------------------
(***************************************************************************)
(* What the models of the two KV drivers share: a clock, the ttls of Puts  *)
(* and the if_version argument (src/internal/kv).                          *)
(***************************************************************************)
EXTENDS Integers, FiniteSets

CONSTANTS TTLs,      \* ttl of a Put, 0 = no expiry
          MaxClock   \* bound: the clock stops here

ASSUME KVAssumption == TTLs \subseteq Nat /\ MaxClock \in Nat \ {0}

VARIABLE clock       \* d.now() of the memory driver, now() of the database

Any == -1            \* IfVersion = nil
=============================================================================
