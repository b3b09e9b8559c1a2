----------------------------- MODULE BudgetGuard -----------------------------
(***************************************************************************)
(* One kalinov.llm.budget.BudgetGuard shared by several callers.           *)
(*                                                                         *)
(* The guard's lock makes ensure_not_exceeded and record atomic, and it is *)
(* NOT held in between: a caller checks, makes its provider call with the  *)
(* lock released, and records the bill later, so other callers check and   *)
(* record in the gap. The commands of this repository call the guard from  *)
(* one thread (one caller); the class is documented as thread-safe, and    *)
(* every property below is stated for any number of callers.               *)
(***************************************************************************)
EXTENDS Budget, FiniteSets

CONSTANTS
  Callers,             (* threads that share the guard *)
  Attempts,            (* bound: how many calls one caller asks for *)
  Budgets,             (* the budgets a command may be started with *)
  Bills,               (* what a provider call may turn out to cost *)
  MaxBill              (* the most one call costs *)

ASSUME BudgetGuardAssumption ==
  /\ IsFiniteSet(Callers)
  /\ Callers # {}
  /\ Attempts \in Nat
  /\ Budgets \subseteq BudgetType
  /\ Bills \subseteq BillType
  /\ MaxBill \in Nat
  /\ \A b \in Bills : b.cost <= MaxBill

VARIABLES
  budget,              (* BudgetGuard._budget, fixed at construction *)
  guard,               (* _spent, _tokens, _calls, _tripped_reason *)
  pc,                  (* per caller: "idle", or "admitted" to the provider *)
  asks,                (* per caller: calls it has still to ask for *)
  told,                (* what the callers were told they spent, summed *)
  unpriced,            (* history: calls made that the guard did not count *)
  raised               (* history: some record raised BudgetExceededError *)

guard_vars == <<budget, guard, pc, asks, told, unpriced, raised>>

N == Cardinality(Callers)

Admitted == {c \in Callers : pc[c] = "admitted"}

GuardTypeOK ==
  /\ budget \in Budgets
  /\ guard \in GuardType
  /\ pc \in [Callers -> {"idle", "admitted"}]
  /\ asks \in [Callers -> 0 .. Attempts]
  /\ told \in Nat
  /\ unpriced \in Nat
  /\ raised \in BOOLEAN

GuardInit ==
  /\ budget \in Budgets
  /\ guard = NewGuard
  /\ pc = [c \in Callers |-> "idle"]
  /\ asks = [c \in Callers |-> Attempts]
  /\ told = 0
  /\ unpriced = 0
  /\ raised = FALSE

-----------------------------------------------------------------------------
(* ensure_not_exceeded returns: the caller goes on to the provider. *)
Admit(c) ==
  /\ pc[c] = "idle"
  /\ asks[c] > 0
  /\ EnsureNotExceeded(budget, guard)
  /\ pc' = [pc EXCEPT ![c] = "admitted"]
  /\ UNCHANGED <<budget, guard, asks, told, unpriced, raised>>

(* ensure_not_exceeded raises: this request is over, the caller's next one *)
(* (the next obligation, task or matrix configuration) will ask again.     *)
Refuse(c) ==
  /\ pc[c] = "idle"
  /\ asks[c] > 0
  /\ ~EnsureNotExceeded(budget, guard)
  /\ asks' = [asks EXCEPT ![c] = @ - 1]
  /\ UNCHANGED <<budget, guard, pc, told, unpriced, raised>>

(* The provider answered: record counts the bill or latches the refusal,   *)
(* and the caller adds to its own total the call's cost, or, when record   *)
(* raises, the attempted cost the exception carries.                       *)
RecordBill(c, bill) ==
  /\ pc[c] = "admitted"
  /\ guard' = Recorded(budget, guard, bill)
  /\ told' = told + IF RecordReturns(budget, guard, bill)
                    THEN bill.cost
                    ELSE AttemptedCost(budget, bill)
  /\ unpriced' = unpriced + IF Unaccountable(budget, bill) THEN 1 ELSE 0
  /\ raised' = (raised \/ ~RecordReturns(budget, guard, bill))
  /\ pc' = [pc EXCEPT ![c] = "idle"]
  /\ asks' = [asks EXCEPT ![c] = @ - 1]
  /\ UNCHANGED budget

(* Mutant: a failed call gives back a call that was never counted. *)
ProviderRefunds(c) ==
  /\ pc[c] = "admitted"
  /\ guard' = [guard EXCEPT !.calls = @ - 1]
  /\ pc' = [pc EXCEPT ![c] = "idle"]
  /\ asks' = [asks EXCEPT ![c] = @ - 1]
  /\ UNCHANGED <<budget, told, unpriced, raised>>

(* The provider raised: nothing is recorded. *)
ProviderFails(c) ==
  /\ pc[c] = "admitted"
  /\ pc' = [pc EXCEPT ![c] = "idle"]
  /\ asks' = [asks EXCEPT ![c] = @ - 1]
  /\ UNCHANGED <<budget, guard, told, unpriced, raised>>

Caller(c) ==
  \/ Admit(c)
  \/ Refuse(c)
  \/ \E bill \in Bills : RecordBill(c, bill)
  \/ ProviderFails(c)

(* Every caller has asked for all its calls. *)
Finished == \A c \in Callers : asks[c] = 0

GuardNext == (\E c \in Callers : Caller(c)) \/ (Finished /\ UNCHANGED guard_vars)

GuardSpec == GuardInit /\ [][GuardNext]_guard_vars
-----------------------------------------------------------------------------
(* Spending passes the cost cap by at most one call per caller: the calls  *)
(* that were already under way when the cap was crossed. With the single   *)
(* caller of the shipped commands that is the one call that crosses it.    *)
(* And at most one call per caller reaches the provider with a model that  *)
(* has no price: the latch stops all the later ones, although none of      *)
(* these calls shows in the counters.                                      *)
CostOvershootBounded ==
  budget.max_cost_usd # None =>
    /\ guard.spent <= budget.max_cost_usd + MaxBill * N
    /\ unpriced <= N

(* The number of counted calls passes max_calls by at most N - 1: a single *)
(* caller never makes one call too many.                                   *)
CallsBounded ==
  budget.max_calls # None => guard.calls <= budget.max_calls + N - 1

(* The callers' own totals add up to what the guard counted: the call that *)
(* crosses a cap is neither dropped from a summary nor added twice.        *)
BooksBalance == told = guard.spent

(* Once some caller has seen record raise, ensure_not_exceeded refuses     *)
(* every caller, whichever of the four reasons record raised for.          *)
RaisedRefuses == raised => ~EnsureNotExceeded(budget, guard)

(* The guard is a gate that closes once and for all (see AdmissionGate):   *)
(* open while ensure_not_exceeded returns, with the admitted callers       *)
(* inside.                                                                 *)
Gate == INSTANCE AdmissionGate
          WITH open <- EnsureNotExceeded(budget, guard), inside <- Admitted

ImplementsGate == Gate!Spec
=============================================================================
