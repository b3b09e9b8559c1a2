------------------------------- MODULE Budget -------------------------------
(***************************************************************************)
(* The arithmetic of kalinov.llm.budget: what a budget caps, what a guard  *)
(* has counted, when ensure_not_exceeded raises and what record does.      *)
(* There are no variables here: BudgetGuard shares one guard between       *)
(* callers, the other modules thread a guard through the calls they make.  *)
(*                                                                         *)
(* Money is counted in whole units (the code uses Decimal, so sums are     *)
(* exact); a refusal's message is abstracted to the fact of the refusal.   *)
(***************************************************************************)
EXTENDS Optional

(* None is a cap the user did not set. *)
Cap == Nat \cup {None}

(* The caps of one command: each of the three is optional. *)
BudgetType == [max_cost_usd : Cap, max_total_tokens : Cap, max_calls : Cap]

(* What the guard has counted, and whether its sticky refusal is set. *)
GuardType == [spent : Nat, tokens : Nat, calls : Nat, tripped : BOOLEAN]

(* A completed provider call as estimate_cost prices it: a model without a *)
(* pricing entry has pricing_source "unknown" and a total of zero.         *)
BillType == {b \in [cost : Nat, tokens : Nat, priced : BOOLEAN] :
                ~b.priced => b.cost = 0}

NewGuard == [spent |-> 0, tokens |-> 0, calls |-> 0, tripped |-> FALSE]

(* Mutant: the latch of an unaccountable call is not consulted. *)
EnsureIgnoringLatch(budget, guard) ==
  /\ budget.max_cost_usd # None => guard.spent <= budget.max_cost_usd
  /\ budget.max_total_tokens # None => guard.tokens <= budget.max_total_tokens
  /\ budget.max_calls # None => guard.calls < budget.max_calls

(* Mutant: no check before the call, only record checks afterwards. *)
EnsureIgnoringCost(budget, guard) ==
  /\ ~guard.tripped
  /\ budget.max_total_tokens # None => guard.tokens <= budget.max_total_tokens
  /\ budget.max_calls # None => guard.calls < budget.max_calls

(* Mutant: the last call allowed is one too many. *)
EnsureOneCallMore(budget, guard) ==
  /\ ~guard.tripped
  /\ budget.max_cost_usd # None => guard.spent <= budget.max_cost_usd
  /\ budget.max_total_tokens # None => guard.tokens <= budget.max_total_tokens
  /\ budget.max_calls # None => guard.calls <= budget.max_calls

(* ensure_not_exceeded returns. Spending and tokens may sit exactly at     *)
(* their caps; the number of calls may not.                                *)
EnsureNotExceeded(budget, guard) ==
  /\ ~guard.tripped
  /\ budget.max_cost_usd # None => guard.spent <= budget.max_cost_usd
  /\ budget.max_total_tokens # None => guard.tokens <= budget.max_total_tokens
  /\ budget.max_calls # None => guard.calls < budget.max_calls

(* record refuses an unpriced call when a cost cap is set, instead of      *)
(* adding the zero estimate_cost returned for it.                          *)
Unaccountable(budget, bill) == budget.max_cost_usd # None /\ ~bill.priced

(* The guard after record: latched by an unaccountable call, which is not  *)
(* counted; any other call is counted before the caps are compared.        *)
Recorded(budget, guard, bill) ==
  IF Unaccountable(budget, bill)
  THEN [guard EXCEPT !.tripped = TRUE]
  ELSE [guard EXCEPT !.spent = @ + bill.cost,
                     !.tokens = @ + bill.tokens,
                     !.calls = @ + 1]

(* record returns instead of raising BudgetExceededError. *)
RecordReturns(budget, guard, bill) ==
  LET g == Recorded(budget, guard, bill)
  IN  /\ ~Unaccountable(budget, bill)
      /\ budget.max_cost_usd # None => g.spent <= budget.max_cost_usd
      /\ budget.max_total_tokens # None => g.tokens <= budget.max_total_tokens
      /\ budget.max_calls # None => g.calls <= budget.max_calls

(* Mutant: the exception carries no cost. *)
AttemptedNothing(budget, bill) == 0

(* What the caller learns it spent when record raises: attempted_cost_usd, *)
(* which is left None (and summed as zero) for an unaccountable call.      *)
AttemptedCost(budget, bill) ==
  IF Unaccountable(budget, bill) THEN 0 ELSE bill.cost
=============================================================================
