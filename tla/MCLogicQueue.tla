---------------------------- MODULE MCLogicQueue ----------------------------
(* Instances of LogicQueue for TLC.                                        *)
EXTENDS LogicQueue, TLC

Symmetry == Permutations(Producer)
=============================================================================
