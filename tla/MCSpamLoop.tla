----------------------------- MODULE MCSpamLoop -----------------------------
(* SpamLoop on small instances: model values for the identities, and the   *)
(* symmetry of those that no action tells apart.                           *)
EXTENDS SpamLoop, TLC

Symmetry == Permutations(Tasks) \cup Permutations(Chats)
              \cup Permutations(Objs) \cup Permutations(Requests)
=============================================================================
