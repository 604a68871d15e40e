---------------------------- MODULE MCMSQueue ----------------------------
(* Instances of MSQueue for TLC. *)
EXTENDS MSQueue, TLC

Symmetry == Permutations(Node) \cup Permutations(Producer \ {Consumer})
              \cup Permutations(Intr)
=============================================================================
