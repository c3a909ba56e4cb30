----------------------------- MODULE MCBilling -----------------------------
(* Billing on small instances: two users, bob referred by ann, or bob      *)
(* alone with credit given by an administrator.                            *)
EXTENDS Billing, TLC

CONSTANTS ann, bob

Pair == {ann, bob}
BobByAnn == [u \in Pair |-> IF u = bob THEN ann ELSE NoUser]

Alone == {bob}
BobByNobody == [u \in Alone |-> NoUser]

Symmetry == Permutations(Invoices)
=============================================================================
