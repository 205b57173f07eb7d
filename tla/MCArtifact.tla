----------------------------- MODULE MCArtifact -----------------------------
(* Two uploads of up to one chunk, one reader, one Delete and one crash.    *)
(* Of the ids, 1 stands for "ab" and 2 for "ab.json": the metadata file of  *)
(* the first is the data file of the second.                                *)
EXTENDS Artifact

CONSTANTS u1, u2

JsonOf == [i \in Id |-> IF i = 1 THEN 2 ELSE 10 + i]
TmpOf  == [i \in Id |-> 20 + i]

\* Bounds on the clients.  The second upload begins after the first, with a
\* well-formed id.  An id 2 there is only with the fs driver, where ids share
\* files, and not for both uploads.  A reader asks for an id that has readable metadata; List is
\* called when both uploads have ended.  A run has a Delete or a crash, or a
\* crash during the Delete.
Bounds ==
    /\ up'[u2].pc # "idle" => up'[u1].pc # "idle" /\ up'[u2].id \notin {0, None}
    /\ { u \in Upload : up'[u].id = 2 } \in IF driver = "fs" THEN {{}, {u1}, {u2}} ELSE {{}}
    /\ \A r \in Reader : rd[r].pc = "idle" =>
          /\ rd'[r].pc # "failed"
          /\ rd'[r].pc = "listed" => \A u \in Upload : Ended(u)
    /\ crashes' = 1 /\ deletes' = 1 => deletes = 1 /\ (crashes = 1 \/ del.pc # "idle")

MCSpec ==
    /\ Init /\ [][Next /\ Bounds]_vars
    /\ \A u \in Upload : WF_vars(Pump(u)) /\ WF_vars(Handler(u))
=============================================================================
