------------------------- MODULE MCSessionLifecycle -------------------------
(* Instances of SessionLifecycle for TLC.                                  *)
EXTENDS SessionLifecycle, TLC

\* every client may log into every account, also one after the other
AnyAccount == [s \in Session |-> Uid]

\* every client has one account, a second one is shared by all others
OneAccount ==
  LET loner == CHOOSE s \in Session : TRUE
      own   == CHOOSE u \in Uid : TRUE
      other == CHOOSE u \in Uid : Cardinality(Uid) > 1 => u # own
  IN  [s \in Session |-> {IF s = loner THEN own ELSE other}]

Symmetry == Permutations(Session)
=============================================================================
