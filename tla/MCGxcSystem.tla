----------------------------- MODULE MCGxcSystem -----------------------------
(* Values of the constants of GxcSystem for the model checker.            *)
EXTENDS GxcSystem, TLC

CONSTANTS gxc, reg, vault, ann, bob, Nick1, Nick2

(* Transactions of one account, and of the system with another.             *)
OneOrWithSystem == {{a} : a \in Names} \cup {{gxc, a} : a \in Names}

HolderSymmetry == Permutations({ann, bob}) \cup Permutations({Nick1, Nick2})

=============================================================================
