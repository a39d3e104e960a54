------------------------------- MODULE MCEps --------------------------------
(* Values for the constants of Eps: two loads at the start and two more to *)
(* switch on; with one more a load has to go, with two both of the first. *)
EXTENDS Eps

L(name, power, priority) ==
  [name |-> name, power |-> power, priority |-> priority, active |-> TRUE]

MCLoads == <<L("life_support", 1, 1), L("payload", 3, 3)>>
MCNames == {"life_support", "payload", "heater", "pump"}
MCPanelIds == {-1, 0, 1}
==============================================================================
