------------------------------- MODULE MCOffice -------------------------------
(***************************************************************************)
(* Finite instances of Dashboard, TuRegistry, Deliveries and Rules in one    *)
(* run.  They share nothing, so a behaviour of all is their behaviours side  *)
(* by side: the run checks each, while the others stay in an initial state.  *)
(***************************************************************************)
EXTENDS MCRules, Dashboard, TuRegistry, Deliveries

VARIABLE part   \* the one that moves

officeVars == <<pageVars, registryVars, vars, rulesVars, part>>

OfficeInit ==
  /\ part \in {"page", "registry", "reports", "rules"}
  /\ PageInit
  /\ RegistryInit /\ (part # "registry" => directory = {})
  /\ Init /\ (part # "reports" => owner = [j \in Jobs |-> NoUser])
  /\ RulesInit

OfficeNext ==
  /\ \/ part = "page" /\ PageNext /\ UNCHANGED <<registryVars, vars, rulesVars>>
     \/ part = "registry" /\ RegistryNext /\ UNCHANGED <<pageVars, vars, rulesVars>>
     \/ part = "reports" /\ Next /\ UNCHANGED <<pageVars, registryVars, rulesVars>>
     \/ part = "rules" /\ RulesNext /\ UNCHANGED <<pageVars, registryVars, vars>>
  /\ UNCHANGED part

OfficeSpec ==
  /\ OfficeInit /\ [][OfficeNext]_officeVars
  /\ part = "page" => PageFairness
  /\ part = "reports" => ReportFairness
=============================================================================
