------------------------------ MODULE Spending ------------------------------
(***************************************************************************)
(* What a command line and a tool call of the server have in common about  *)
(* money: the caps they may be given, and the bills of their calls.        *)
(***************************************************************************)
EXTENDS Budget

CONSTANTS
  Caps,                (* max_cost_usd of requests and of the server *)
  Bills,               (* what a provider call may turn out to cost *)
  MaxBill              (* the dearest of them *)

ASSUME SpendingAssumption ==
  /\ Caps \subseteq Cap
  /\ Bills \subseteq BillType
  /\ MaxBill \in Nat /\ \A bill \in Bills : bill.cost <= MaxBill

(* Budget(max_cost_usd=cap): solve and the tools cap nothing else. *)
Only(cap) == [max_cost_usd |-> cap, max_total_tokens |-> None, max_calls |-> None]
=============================================================================
