----------------------------- MODULE MCFailover -----------------------------
(***************************************************************************)
(* Instances of Failover for TLC.                                          *)
(***************************************************************************)
EXTENDS Failover

Long == [cn |-> "a", sans |-> <<"a", "b">>]
Short == [cn |-> "a", sans |-> <<"a">>]

OneSpec == {Short}
TwoSpecs == {Short, Long}
=============================================================================
