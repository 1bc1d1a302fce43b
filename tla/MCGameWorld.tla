---------------------------- MODULE MCGameWorld ----------------------------
(***************************************************************************)
(* GameWorld on a connection that sends two messages, the first for a      *)
(* session in UNLOGIN only and the second for any state, as in the table   *)
(* of WorldMsgDispatcher, and others that send none: they come, are closed *)
(* and are shut down.                                                      *)
(***************************************************************************)
EXTENDS GameWorld

CONSTANT Talker

TableNeeds ==
    [c \in Conns |-> IF c = Talker THEN <<"UNLOGIN", "IGNORE">> ELSE << >>]
============================================================================
