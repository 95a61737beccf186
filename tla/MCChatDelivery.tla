--------------------------- MODULE MCChatDelivery ---------------------------
(* Instances of ChatDelivery for TLC.                                      *)
EXTENDS ChatDelivery, TLC

Symmetry == Permutations(Session) \cup Permutations(Name)
=============================================================================
