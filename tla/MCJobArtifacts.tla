--------------------------- MODULE MCJobArtifacts ---------------------------
(* Finite instances of JobArtifacts: chains are interchangeable.           *)
EXTENDS JobArtifacts, TLC

SiteOnly == <<"site">>
TwoTiles == <<"a", "b">>

Interchangeable == Permutations(Runners)
=============================================================================
