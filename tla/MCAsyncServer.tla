--------------------------- MODULE MCAsyncServer ---------------------------
(***************************************************************************)
(* AsyncServer with one connection in use, which sends a message and is    *)
(* sent two, and another one that competes with it for a place.            *)
(***************************************************************************)
EXTENDS AsyncServer

CONSTANT Talker

OneFromTalker == [c \in Conns |-> IF c = Talker THEN 1 ELSE 0]
TwoToTalker   == [c \in Conns |-> IF c = Talker THEN 2 ELSE 0]
============================================================================
