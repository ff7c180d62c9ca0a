----------------------------- MODULE MCTileCache -----------------------------
(* Finite instances of TileCache: workers and calls are interchangeable.   *)
EXTENDS TileCache, TLC

\* MinIO or the file storage, with two workers, and the file storage with one: there no
\* tile is ever rewritten.
SomeDeployments ==
  {[atomic |-> TRUE, workers |-> 2], [atomic |-> FALSE, workers |-> 2], [atomic |-> FALSE, workers |-> 1]}

Interchangeable == Permutations(Workers) \cup Permutations(Calls)
=============================================================================
