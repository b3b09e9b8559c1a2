-------------------------------- MODULE Eval --------------------------------
(***************************************************************************)
(* The two halves of kalinov eval: the plan of a matrix and the tables of  *)
(* its report (EvalPlan), and the money and the failures of running one    *)
(* (EvalRunner). They share nothing but the matrix's length: a behaviour   *)
(* is of one half, and the other half keeps still.                         *)
(***************************************************************************)
EXTENDS EvalRunner, EvalPlan

VARIABLE half          (* "runner" or "plan" *)

HalvesInit == Init /\ PlanInit /\ half \in {"runner", "plan"}

HalvesNext ==
  \/ half = "runner" /\ Next /\ UNCHANGED <<half, plan>>
  \/ half = "plan" /\ PlanNext /\ UNCHANGED <<half, vars>>

HalvesSpec == HalvesInit /\ [][HalvesNext]_<<half, vars, plan>>

-----------------------------------------------------------------------------
(* Both halves keep their types. *)
HalvesTypeOK == TypeOK /\ PlanTypeOK

(* A cap holds for the whole matrix, and no task leaves its guard behind   *)
(* for whatever the process does next, however the task ended.             *)
CapHolds == CapHoldsAcrossMatrix /\ GuardUninstalled

(* Manifests, rows and exit code tell all there is: every task of every    *)
(* configuration is in the report, whatever became of the tasks before it, *)
(* the money adds up, and every judge of a task says the same.             *)
ReportTellsAll == MoneyReported /\ ReportComplete /\ TaskVerdictsAgree

(* What runs is what was asked for: every combination, as often as it is   *)
(* written, and each flag for itself (matrix.py 33-57, cli_impl.py 45-104). *)
PlanIsAsked == EveryCombinationRuns /\ FlagsMeanThemselves

(* A cell of report.md is about its own task and configuration, and a      *)
(* comparison lists a task exactly when its outcomes differ (report.py     *)
(* 191-214, compare.py 32-47).                                             *)
TablesTell == CellsAreOwn /\ ComparisonTells
=============================================================================
