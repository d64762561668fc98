-------------------------- MODULE MCSearchPipeline --------------------------
(* SearchPipeline on small instances.                                      *)
EXTENDS SearchPipeline

MCDetails ==
  {[outcome |-> "OK", info |-> {}],
   [outcome |-> "OK", info |-> {"NoInternet", "Unknown"}],
   [outcome |-> "Cancelled", info |-> {}]}

MCFewDetails == {[outcome |-> "OK", info |-> {}], [outcome |-> "Cancelled", info |-> {}]}
MCErrorDetails == {[outcome |-> "OK", info |-> {}], [outcome |-> "Error", info |-> {}]}
=============================================================================
