--------------------------- MODULE MCEventStream ---------------------------
(* EventStream on a small instance for TLC.                                *)
EXTENDS EventStream, TLC

\* Processes, keys and bodies are interchangeable (safety only).
Symmetry == Permutations(Proc) \cup Permutations(Key) \cup Permutations(Body)
=============================================================================
