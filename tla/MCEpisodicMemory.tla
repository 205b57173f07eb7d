-------------------------- MODULE MCEpisodicMemory --------------------------
(* Two tailers with a buffer of one event.                                 *)
EXTENDS EpisodicMemory
=============================================================================
