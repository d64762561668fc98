----------------------------- MODULE MCServices -----------------------------
(***************************************************************************)
(* What the pages share: the registry of scopes with the favourites and    *)
(* the overview, and the location with the setting of one page that uses   *)
(* it beside a page that only takes tokens.  The initial state chooses     *)
(* which of the two takes steps.                                           *)
(***************************************************************************)
EXTENDS MCRegistry, LocationSettings

VARIABLE component \* the one that takes steps

MCSettings == <<"internal.location">>

ServicesInit ==
  /\ component \in {"registry", "location"} /\ Init /\ LocatedInit
  /\ component # "location" => ~dotFile

OnlyRegistry == component = "registry" /\ Next /\ UNCHANGED <<component, locatedVars>>
OnlyLocation == component = "location" /\ LocatedNext /\ UNCHANGED <<component, vars>>

ServicesNext == OnlyRegistry \/ OnlyLocation
ServicesSpec == ServicesInit /\ [][ServicesNext]_<<component, vars, locatedVars>>
=============================================================================
