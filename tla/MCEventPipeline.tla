--------------------------- MODULE MCEventPipeline ---------------------------
(* The environments EventPipeline is checked in. *)
EXTENDS EventPipeline

Calm == [deliveries |-> 2, expiries |-> 0, edits |-> 0, evictions |-> 0,
         faults |-> 0, refusals |-> 0, exits |-> 0, reruns |-> 0, salvages |-> 0]

(* Redelivery around an expired claim and the end of the process; a replay *)
(* while webhooks are edited and the cache is evicted; a replay and a      *)
(* fault; a replay and the end of the process; dead letters that are       *)
(* replayed twice; endpoints that refuse while webhooks are edited.        *)
PipelineScenarios ==
  {[Calm EXCEPT !.deliveries = 3, !.expiries = 1, !.exits = 1],
   [Calm EXCEPT !.deliveries = 1, !.evictions = 1, !.edits = 1, !.reruns = 1],
   [Calm EXCEPT !.faults = 1, !.reruns = 1],
   [Calm EXCEPT !.deliveries = 1, !.exits = 2, !.reruns = 1, !.refusals = 1],
   [Calm EXCEPT !.deliveries = 1, !.refusals = 3, !.faults = 2, !.salvages = 2, !.exits = 1],
   [Calm EXCEPT !.refusals = 1, !.evictions = 1, !.edits = 1]}

(* Nothing fails but an endpoint. *)
RefusingEndpoint == {[Calm EXCEPT !.deliveries = 1, !.refusals = 2, !.salvages = 1]}
=============================================================================
