-------------------------- MODULE MCConstraintZones --------------------------
(* Finite instances of ConstraintZones.                                    *)
EXTENDS ConstraintZones, TLC

CONSTANTS n1, n2

\* One zone twice in a file, two zones in either order, a calculated zone before an
\* official one, a file that is refused after its first feature.
SomeFiles == {<<n1>>, <<n1, n1>>, <<n1, n2>>, <<n2, n1>>, <<NoNumber, n1>>, <<n2, Invalid>>}

Interchangeable == Permutations(Loaders)
=============================================================================
