--------------------------- MODULE MCResultsView ---------------------------
(***************************************************************************)
(* A page that is driven by the shell and its user, or by a test of its    *)
(* scope: the initial state chooses.                                       *)
(***************************************************************************)
EXTENDS ResultsView, MCScopeQuery

VARIABLE driver

DrivenInit == driver \in {"shell", "test"} /\ ViewInit

DrivenByShell == driver = "shell" /\ Next /\ UNCHANGED <<driver, callVars>>
DrivenByTest == driver = "test" /\ ViewNext /\ UNCHANGED driver

DrivenSpec == DrivenInit /\ [][DrivenByShell \/ DrivenByTest]_<<driver, viewVars>>
=============================================================================
