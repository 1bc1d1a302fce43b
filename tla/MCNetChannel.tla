---------------------------- MODULE MCNetChannel ----------------------------
(***************************************************************************)
(* Bounds of NetChannel for TLC: the client sends two messages after       *)
(* SyncConnect and one after the other ways to connect.                    *)
(***************************************************************************)
EXTENDS NetChannel

ClientSends ==
    [mode \in Modes |-> [e \in Ends |-> IF e = "server" THEN 0
                                       ELSE IF mode = "sync" THEN 2 ELSE 1]]
============================================================================
