----------------------------- MODULE MCDeployer -----------------------------
(* Deployer on a server where the default port may be taken. *)
EXTENDS Deployer, TLC

Symmetry == Permutations(Tasks)

=============================================================================
