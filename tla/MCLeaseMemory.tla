--------------------------- MODULE MCLeaseMemory ---------------------------
(* Three Acquire calls with every choice of key, ttl and wait.             *)
EXTENDS LeaseMemory
=============================================================================
