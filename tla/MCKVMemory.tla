----------------------------- MODULE MCKVMemory -----------------------------
(* Two keys, two overlapping Gets and a capacity of one.                   *)
EXTENDS KVMemory
=============================================================================
