----------------------------- MODULE MCTelemetry -----------------------------
(***************************************************************************)
(* Instances of Telemetry for TLC.  Requests and projections are           *)
(* interchangeable.                                                        *)
(***************************************************************************)
EXTENDS Telemetry, TLC

Symmetry == Permutations(Requests) \cup Permutations(Projectors)

=============================================================================
