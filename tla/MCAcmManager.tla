---------------------------- MODULE MCAcmManager ----------------------------
(***************************************************************************)
(* Instances of AcmManager for TLC.                                        *)
(***************************************************************************)
EXTENDS LifecycleRefinement

\* A specification that lists its common name among the alternative names,
\* and the same with one more name.
Short == [cn |-> "a", sans |-> <<"a">>]
Long == [cn |-> "a", sans |-> <<"a", "b">>]
CnOnly == [cn |-> "a", sans |-> <<>>]

OneSpec == {Short}
TwoSpecs == {Short, Long}
CnOnlySpec == {CnOnly}
=============================================================================
