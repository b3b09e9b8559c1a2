---------------------------- MODULE MCOracleLoop ----------------------------
(* Small instance of OracleLoop for TLC. *)
EXTENDS OracleLoop

(* A cost cap that the second dear call crosses, and no cap at all. *)
MCBudgets ==
  {[max_cost_usd |-> c, max_total_tokens |-> None, max_calls |-> None] : c \in {3, None}}

MCBills ==
  {[cost |-> 2, tokens |-> 1, priced |-> TRUE],
   [cost |-> 0, tokens |-> 1, priced |-> FALSE]}
=============================================================================
