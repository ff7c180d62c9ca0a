-------------------------------- MODULE MCRows --------------------------------
(***************************************************************************)
(* Finite instances of ConstraintZones and Accounts in one run, as MCOffice  *)
(* has those of others: they share nothing, so the run checks each while    *)
(* the other stays in an initial state.                                     *)
(***************************************************************************)
EXTENDS MCConstraintZones, Accounts

VARIABLE part   \* the one that moves

rowsVars == <<zonesVars, vars, part>>

\* An administrator has every right.
SomeRights == {NewUser, [admin |-> TRUE, closed |-> TRUE]}

RowsInit ==
  /\ part \in {"zones", "accounts"}
  /\ ZonesInit
  /\ Init /\ (part # "accounts" => users = <<>>)

RowsNext ==
  /\ \/ part = "zones" /\ ZonesNext /\ UNCHANGED vars
     \/ part = "accounts" /\ Next /\ UNCHANGED zonesVars
  /\ UNCHANGED part

RowsSpec == RowsInit /\ [][RowsNext]_rowsVars

\* Users and threads are interchangeable.
Exchanges == Permutations(Procs) \cup Permutations(Users)
=============================================================================
