----------------------------- MODULE MCKnetRpc -----------------------------
(* Two services of KnetRpc; a key is the pair that the code concatenates. *)
EXTENDS KnetRpc

MCKeyOf(s, n) == <<s, n>>
============================================================================
