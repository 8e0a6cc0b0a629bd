---------------------------- MODULE MCDeployment ----------------------------
(***************************************************************************)
(* Small instances of Deployment for TLC.                                  *)
(***************************************************************************)
EXTENDS Deployment

CONSTANTS r1, r2, r3    \* releases

OneSchema == [r \in Releases |-> 1]

AllPhases == Phases

\* The phases after which a resumed transaction does not look at the service again.
ServiceTrusted == {"health_verified", "committing", "definition_removed"}

ServiceRechecked == Phases \ ServiceTrusted
=============================================================================
