--------------------------- MODULE MCAlertMachine ---------------------------
(* Values for the constants of AlertMachine: the rules SeedDefaultRules gives *)
(* a hub: one global rule that waits two ticks.                               *)
EXTENDS AlertMachine

MCDefaultRules ==
  <<[host |-> AnyHost, metric |-> "cpu", threshold |-> 0, dur |-> 2]>>
=============================================================================
