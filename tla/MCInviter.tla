----------------------------- MODULE MCInviter -----------------------------
(* Inviter on sources that share their members. *)
EXTENDS Inviter

\* Every source has all the users.
Shared == [s \in Sources |-> Users]

=============================================================================
