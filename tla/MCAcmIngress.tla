---------------------------- MODULE MCAcmIngress ----------------------------
(***************************************************************************)
(* Instances of AcmIngress for TLC.                                        *)
(***************************************************************************)
EXTENDS AcmIngress

\* Certificates for host a, and for hosts a and b.
Short == [cn |-> "a", sans |-> <<"a">>]
Long == [cn |-> "a", sans |-> <<"a", "b">>]

OneSpec == {Short}
TwoSpecs == {Short, Long}

Letters == <<"a", "b">>

Tls(hosts) == [secret |-> FALSE, hosts |-> hosts]
Secret(hosts) == [secret |-> TRUE, hosts |-> hosts]

\* Enabled by annotation, for host a; host b has its own secret.
Enabled == [enable |-> "Yes", scheme |-> "", class |-> "nginx",
            tls |-> {Tls({"a"}), Secret({"b"})}]

\* Detected by class and scheme, for hosts a and b.
Detected == [enable |-> "maybe", scheme |-> "internet-facing", class |-> "alb",
             tls |-> {Tls({"a"}), Tls({"b"})}]

\* The same, but switched off.
Disabled == [Detected EXCEPT !.enable = "No"]

OneIngress == {Enabled}
TwoIngresses == {Enabled, Detected}
ThreeIngresses == {Enabled, Detected, Disabled}
=============================================================================
