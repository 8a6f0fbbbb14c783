-------------------------- MODULE MCInferenceQueue --------------------------
(* A small instance of InferenceQueue for TLC. *)
EXTENDS InferenceQueue, TLC

CONSTANTS r1, r2, r3, r4

\* r2 and r3 fill MaxQueuedBytes together; the others leave room.
MCBytes == r1 :> 1 @@ r2 :> 2 @@ r3 :> 2 @@ r4 :> 1

=============================================================================
