----------------------------- MODULE MCPayPage -----------------------------
(* PayPage on a small instance: one buyer, whom nobody referred.           *)
EXTENDS PayPage

CONSTANT bob

Alone == {bob}
BobByNobody == [u \in Alone |-> NoUser]
=============================================================================
