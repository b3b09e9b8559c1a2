---------------------------- MODULE MCEvalRunner ----------------------------
(* Small instance of EvalRunner for TLC. *)
EXTENDS EvalRunner

(* A task that should be solved and one that should not. *)
MCSuite == <<"solved", "gave_up">>

MCSingle == <<"either">>

NoBudget == [max_cost_usd |-> None, max_total_tokens |-> None, max_calls |-> None]

(* A cap of zero on the command line; an experiment whose cost cap the     *)
(* command line lifts, and whose cap on calls it does not; a cost cap from *)
(* the experiment alone; and no cap at all.                                *)
MCRequests ==
  {[experiment |-> NoBudget, max_cost_usd |-> 0],
   [experiment |-> [NoBudget EXCEPT !.max_cost_usd = 1, !.max_calls = 2], max_cost_usd |-> 9],
   [experiment |-> [NoBudget EXCEPT !.max_cost_usd = 3], max_cost_usd |-> None],
   [experiment |-> NoBudget, max_cost_usd |-> None]}

MCBills ==
  {[cost |-> 2, tokens |-> 1, priced |-> TRUE],
   [cost |-> 0, tokens |-> 1, priced |-> FALSE]}
=============================================================================
