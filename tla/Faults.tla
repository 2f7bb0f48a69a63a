------------------------------- MODULE Faults -------------------------------
(***************************************************************************)
(* The budget of things that may go wrong.  A remote call either fails     *)
(* before it takes effect (site "x") or takes effect and loses its answer  *)
(* (site "xLost"); a process may crash (site "crash"); the lease may       *)
(* change hands (site "failover"); somebody may delete an ACM certificate  *)
(* behind the controller's back (site "outside").                          *)
(***************************************************************************)
EXTENDS Naturals

CONSTANTS
    FaultSites,     \* the sites at which faults may strike in a model
    MaxFaults       \* bound on the number of faults of a behaviour

ASSUME MaxFaultsNat == MaxFaults \in Nat

VARIABLE
    faults          \* the number of faults so far

\* A fault strikes at the given site.
Fault(site) ==
    /\ site \in FaultSites
    /\ faults < MaxFaults
    /\ faults' = faults + 1

NoFault == UNCHANGED faults
=============================================================================
