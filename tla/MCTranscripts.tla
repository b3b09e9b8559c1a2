--------------------------- MODULE MCTranscripts ---------------------------
(***************************************************************************)
(* Small instance of Transcripts: two obligations, with a file each or, as *)
(* with two scenarios of one name, with one file.                          *)
(***************************************************************************)
EXTENDS Transcripts

(* A cost cap that the second dear call crosses; and a cap on calls, under *)
(* which a call without a price is accepted.                               *)
MCBudgets ==
  {[max_cost_usd |-> 3, max_total_tokens |-> None, max_calls |-> None],
   [max_cost_usd |-> None, max_total_tokens |-> None, max_calls |-> 3]}

MCBills ==
  {[cost |-> 2, tokens |-> 1, priced |-> TRUE],
   [cost |-> 0, tokens |-> 1, priced |-> FALSE]}

MCNaming == {<<"s#0", "s#1">>, <<"a/b#0", "a_b#0">>}

MCFileOf ==
  [n \in {"s#0", "s#1", "a/b#0", "a_b#0"} |->
     IF n \in {"s#0", "s#1"} THEN n ELSE "a_b#0"]

=============================================================================
