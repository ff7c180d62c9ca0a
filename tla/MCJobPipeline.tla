---------------------------- MODULE MCJobPipeline ----------------------------
(* Finite instances of JobPipeline: workers and clients are interchangeable. *)
EXTENDS JobPipeline, TLC

Interchangeable == Permutations(Workers) \cup Permutations(Clients)
=============================================================================
