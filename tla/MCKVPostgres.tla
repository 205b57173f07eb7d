---------------------------- MODULE MCKVPostgres ----------------------------
(* Three writers of one key with every choice of arguments.                *)
EXTENDS KVPostgres

MCExpects == {Any, 0, 1}
=============================================================================
