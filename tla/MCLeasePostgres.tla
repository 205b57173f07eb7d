-------------------------- MODULE MCLeasePostgres --------------------------
(* Three callers, of one sidecar or of several, compete for one row: one   *)
(* that fails fast and two that wait, with a long and a short ttl.         *)
EXTENDS LeasePostgres, TLC

CONSTANTS c1, c2, c3, k1

Asking(ttl, wait) == [key |-> k1, ttl |-> ttl, wait |-> wait]

MCInit ==
  /\ Init
  /\ req = (c1 :> Asking(2, 0) @@ c2 :> Asking(1, 2) @@ c3 :> Asking(2, 3))

MCSpec == MCInit /\ [][Next]_vars /\ Fairness
=============================================================================
