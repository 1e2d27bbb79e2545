---- MODULE MCLifecycle ----
(***************************************************************************)
(* Instances of Lifecycle: a and b share a driver, c brings a new one.     *)
(***************************************************************************)
EXTENDS Lifecycle

CONSTANTS a, b, c, old, new

TwoDrivers == [r \in Releases |-> IF r = c THEN new ELSE old]

\* LifecyclePhaseDocument of src/install.rs has no word for three phases that
\* the controller saves.
HelperPhases == Phases \ LaterPhases

\* The helper as it is, and one that knows every phase.
BothHelpers == {HelperPhases, Phases}
HelperAsWritten == {HelperPhases}
====
