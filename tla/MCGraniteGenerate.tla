-------------------------- MODULE MCGraniteGenerate --------------------------
(* A small instance of GraniteGenerate for TLC. *)
EXTENDS GraniteGenerate, TLC

CONSTANTS plain, s1, s2

\* Bodies weigh nothing here: InferenceQueue's own runs are about bytes.
MCBytes == plain :> 0 @@ s1 :> 0 @@ s2 :> 0

=============================================================================
