------------------------ MODULE MCEpisodicPostgres ------------------------
\* Two appenders, one tailer, one dedup key and three transactions.
EXTENDS EpisodicPostgres
===========================================================================
