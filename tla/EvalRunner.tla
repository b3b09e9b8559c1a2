----------------------------- MODULE EvalRunner -----------------------------
(***************************************************************************)
(* kalinov eval: every configuration of a matrix runs every task of a      *)
(* suite (kalinov.eval.cli_impl._eval_async, kalinov.eval.runner), one     *)
(* after the other, under one budget guard.                                *)
(*                                                                         *)
(* An obligation is what ObligationContract promises of the oracle loop:   *)
(* some rounds, each free or paid, and one outcome. Task results live in   *)
(* memory until the report is written after the last configuration; a      *)
(* finished task leaves its run's manifest.json on disk.                   *)
(***************************************************************************)
EXTENDS Budget, FiniteSets, Sequences

CONSTANTS
  Suite,               (* per task, what TaskExpected says *)
  Configs,             (* how many configurations the matrix expands to *)
  MaxObligations,      (* bound: obligations of the whole command *)
  MaxRounds,           (* max_repair_attempts + 1 *)
  Requests,            (* what the command line and its experiment file ask *)
  Bills,               (* what a provider call may turn out to cost *)
  MaxBill              (* the most one call costs *)

Expected == {"solved", "gave_up", "either"}

ASSUME EvalAssumption ==
  /\ Suite \in Seq(Expected)
  /\ Configs \in Nat
  /\ MaxObligations \in Nat
  /\ MaxRounds \in Nat \ {0}
  /\ Requests \subseteq [experiment : BudgetType, max_cost_usd : Cap]
  /\ Bills \subseteq BillType
  /\ MaxBill \in Nat
  /\ \A b \in Bills : b.cost <= MaxBill

VARIABLES
  pc,                  (* "config", "task", "spec", "obligation", "round",
                          "done", or "failed": the command raised *)
  asked,               (* the request the command was started with *)
  guard,               (* shared_guard of _eval_async *)
  installed,           (* the context variable holds the guard *)
  outcomes,            (* kinds of this task's outcomes *)
  todo,                (* obligations of this task still to run, ... *)
  extracted,           (* ... and all of them *)
  rounds,              (* rounds of the obligation under way *)
  cost,                (* total_cost of the obligation under way *)
  sum_usd,             (* total of this task's outcomes *)
  task_results,        (* of this configuration *)
  results,             (* of the configurations before it *)
  hard_failure,
  manifests,           (* manifest.json of every finished task, in order *)
  report,              (* None, or the results written out at the end *)
  billed,              (* history: USD charged by the providers *)
  counted              (* history: calls that have a price the guard can use *)

vars == <<pc, asked, guard, installed, outcomes, todo, extracted, rounds, cost, sum_usd,
          task_results, results, hard_failure, manifests, report, billed, counted>>

command == <<task_results, results, hard_failure, manifests, report>>
task == <<outcomes, todo, extracted, sum_usd>>
obligation == <<rounds, cost>>
money == <<guard, billed, counted>>

(* --max-cost-usd overrides the cost cap of the experiment file, and only  *)
(* that one; without a file there are no other caps.                       *)
budget ==
  [asked.experiment EXCEPT !.max_cost_usd =
     IF asked.max_cost_usd # None THEN asked.max_cost_usd ELSE @]

ErrorKinds == {"llm_error", "budget_exceeded", "prover_error"}

Count(kind, kinds) == Cardinality({i \in DOMAIN kinds : kinds[i] = kind})

(* f[1] + ... + f[n] *)
SumTo(f, n) ==
  LET sum[k \in 0 .. n] == IF k = 0 THEN 0 ELSE sum[k - 1] + f[k]
  IN  sum[n]

Costs(rows) == [i \in DOMAIN rows |-> rows[i].total_cost_usd]
Totals(rows) == [i \in DOMAIN rows |-> rows[i].obligations_total]
Solved(rows) == [i \in DOMAIN rows |-> rows[i].obligations_solved]

CostOf(rows) == SumTo(Costs(rows), Len(rows))

Init ==
  /\ pc = "config"
  /\ asked \in Requests
  /\ guard = NewGuard
  /\ installed = FALSE
  /\ outcomes = <<>> /\ todo = 0 /\ extracted = 0
  /\ rounds = 0 /\ cost = 0 /\ sum_usd = 0
  /\ task_results = <<>> /\ results = <<>>
  /\ hard_failure = FALSE
  /\ manifests = <<>>
  /\ report = None
  /\ billed = 0 /\ counted = 0

-----------------------------------------------------------------------------
(* Mutant: one solved obligation is enough. *)
MatchesAny(expected, kinds) ==
  \/ expected = "either"
  \/ kinds = <<>>
  \/ expected = "solved" /\ \E i \in DOMAIN kinds : kinds[i] = "solved"
  \/ expected = "gave_up" /\ 2 * Count("gave_up", kinds) > Len(kinds)

(* _outcomes_match_expected: what the suite file says of the task. *)
Matches(expected, kinds) ==
  \/ expected = "either"
  \/ kinds = <<>>
  \/ expected = "solved" /\ \A i \in DOMAIN kinds : kinds[i] = "solved"
  \/ expected = "gave_up" /\ 2 * Count("gave_up", kinds) > Len(kinds)

(* _categorize_task: the column of the report the task is counted in. *)
Categorize(tr) ==
  IF \E i \in DOMAIN tr.outcomes : tr.outcomes[i] \in ErrorKinds THEN "errored"
  ELSE IF \A i \in DOMAIN tr.outcomes : tr.outcomes[i] = "solved" THEN "solved"
  ELSE "gave_up"

(* The row of the report a configuration's task results add up to. *)
Aggregate(trs) ==
  LET Tasks(column) == Cardinality({i \in DOMAIN trs : Categorize(trs[i]) = column})
  IN  [tasks_total |-> Len(trs), tasks_solved |-> Tasks("solved"),
       tasks_gave_up |-> Tasks("gave_up"), tasks_errored |-> Tasks("errored"),
       obligations_total |-> SumTo(Totals(trs), Len(trs)),
       obligations_solved |-> SumTo(Solved(trs), Len(trs)),
       total_cost_usd |-> CostOf(trs)]

(* Mutant: every configuration gets a guard of its own. *)
ConfigureAfresh ==
  /\ pc = "config" /\ Len(results) < Configs
  /\ pc' = "task"
  /\ task_results' = <<>>
  /\ guard' = NewGuard
  /\ UNCHANGED <<asked, installed, results, hard_failure, manifests, report,
                 task, obligation, billed, counted>>

(* The next configuration has a provider, a prover and a client. *)
Configure ==
  /\ pc = "config" /\ Len(results) < Configs
  /\ pc' = "task"
  /\ task_results' = <<>>
  /\ UNCHANGED <<asked, installed, results, hard_failure, manifests, report,
                 task, obligation, money>>

(* An unknown provider, no Lean toolchain, no API key in the environment:  *)
(* found out only when the configuration's turn comes.                     *)
ConfigFails ==
  /\ pc = "config" /\ Len(results) < Configs
  /\ pc' = "failed"
  /\ UNCHANGED <<asked, installed, command, task, obligation, money>>

(* start_run and set_budget_guard for the next task. *)
StartTask ==
  /\ pc = "task" /\ Len(task_results) < Len(Suite)
  /\ pc' = "spec"
  /\ installed' = TRUE
  /\ outcomes' = <<>> /\ todo' = 0 /\ extracted' = 0 /\ sum_usd' = 0
  /\ UNCHANGED <<asked, command, obligation, money>>

Obligations == SumTo(Totals(manifests), Len(manifests))

(* The feature file was read, parsed, interpreted, and n obligations found. *)
PrepareSpec(n) ==
  /\ pc = "spec" /\ Obligations + n <= MaxObligations
  /\ pc' = "obligation"
  /\ todo' = n /\ extracted' = n
  /\ UNCHANGED <<asked, installed, outcomes, sum_usd, command, obligation, money>>

(* A read, decode, Gherkin or prover error of the task's own file becomes  *)
(* a synthetic outcome, and the suite goes on.                             *)
SpecError ==
  /\ pc = "spec"
  /\ pc' = "obligation"
  /\ outcomes' = <<"prover_error">>
  /\ UNCHANGED <<asked, installed, todo, extracted, sum_usd, command, obligation, money>>

(* Any other exception out of the parser: an Examples block without a      *)
(* table is accepted by gherkin-official and has no tableHeader to index.  *)
SpecRaises ==
  /\ pc = "spec"
  /\ pc' = "failed"
  /\ installed' = FALSE
  /\ UNCHANGED <<asked, command, task, obligation, money>>

BeginObligation ==
  /\ pc = "obligation" /\ todo > 0
  /\ pc' = "round"
  /\ rounds' = 0 /\ cost' = 0
  /\ UNCHANGED <<asked, installed, command, task, money>>

(* Mutant: the call that crosses a cap is left out of the outcome. *)
OutcomeWithoutLast(kind, total) ==
  /\ pc' = "obligation"
  /\ outcomes' = Append(outcomes, kind)
  /\ todo' = todo - 1
  /\ sum_usd' = sum_usd + cost
  /\ rounds' = 0 /\ cost' = 0
  /\ UNCHANGED <<asked, installed, extracted, command>>

(* oracle_loop.run returned: the outcome joins the task's. *)
Outcome(kind, total) ==
  /\ pc' = "obligation"
  /\ outcomes' = Append(outcomes, kind)
  /\ todo' = todo - 1
  /\ sum_usd' = sum_usd + total
  /\ rounds' = 0 /\ cost' = 0
  /\ UNCHANGED <<asked, installed, extracted, command>>

(* Mutant: cached rounds do not count. *)
FreeRoundUnbounded ==
  /\ pc = "round" /\ rounds <= MaxRounds
  /\ rounds' = rounds + 1
  /\ UNCHANGED <<pc, asked, installed, cost, command, task, money>>

(* A proposal served from the cache. *)
FreeRound ==
  /\ pc = "round" /\ rounds < MaxRounds
  /\ rounds' = rounds + 1
  /\ UNCHANGED <<pc, asked, installed, cost, command, task, money>>

(* A paid proposal, or the paid call whose record raises. *)
PaidRound(bill) ==
  /\ pc = "round" /\ rounds < MaxRounds
  /\ EnsureNotExceeded(budget, guard)
  /\ guard' = Recorded(budget, guard, bill)
  /\ billed' = billed + bill.cost
  /\ counted' = counted + IF Unaccountable(budget, bill) THEN 0 ELSE 1
  /\ IF RecordReturns(budget, guard, bill)
     THEN /\ rounds' = rounds + 1
          /\ cost' = cost + bill.cost
          /\ UNCHANGED <<pc, asked, installed, command, task>>
     ELSE Outcome("budget_exceeded", cost + AttemptedCost(budget, bill))

(* The guard refuses the next proposal, at no cost. *)
RefusedRound ==
  /\ pc = "round" /\ rounds < MaxRounds
  /\ ~EnsureNotExceeded(budget, guard)
  /\ Outcome("budget_exceeded", cost)
  /\ UNCHANGED money

(* The provider fails. *)
FailedRound ==
  /\ pc = "round" /\ rounds < MaxRounds
  /\ Outcome("llm_error", cost)
  /\ UNCHANGED money

(* A proposal's verdict ends the obligation. *)
EndRounds(kind) ==
  /\ pc = "round" /\ rounds > 0
  /\ kind = "gave_up" => rounds = MaxRounds
  /\ Outcome(kind, cost)
  /\ UNCHANGED money

(* Mutant: the guard is only taken down when the task succeeds. *)
RoundRaisesInstalled ==
  /\ pc = "round"
  /\ pc' = "failed"
  /\ UNCHANGED <<asked, installed, command, task, obligation, money>>

(* An exception that the loop does not turn into an outcome. *)
RoundRaises ==
  /\ pc = "round"
  /\ pc' = "failed"
  /\ installed' = FALSE
  /\ UNCHANGED <<asked, command, task, obligation, money>>

Manifest ==
  [config |-> Len(results) + 1, task |-> Len(task_results) + 1,
   obligations_total |-> extracted, obligations_solved |-> Count("solved", outcomes),
   total_cost_usd |-> sum_usd]

TaskResult ==
  [expected |-> Suite[Len(task_results) + 1],
   outcomes |-> outcomes,
   obligations_total |-> Len(outcomes), obligations_solved |-> Count("solved", outcomes),
   total_cost_usd |-> sum_usd,
   matched_expected |-> Matches(Suite[Len(task_results) + 1], outcomes)]

(* The task is over: manifest on disk, guard down, result in memory. *)
EndTask ==
  /\ pc = "obligation" /\ todo = 0
  /\ pc' = "task"
  /\ manifests' = Append(manifests, Manifest)
  /\ installed' = FALSE
  /\ task_results' = Append(task_results, TaskResult)
  /\ UNCHANGED <<asked, results, hard_failure, report, task, obligation, money>>

(* Mutant: a configuration stops at its first error. *)
EndConfigOnError ==
  /\ pc = "task"
  /\ \/ Len(task_results) = Len(Suite)
     \/ \E i \in DOMAIN task_results : Categorize(task_results[i]) = "errored"
  /\ pc' = "config"
  /\ results' = Append(results, task_results)
  /\ hard_failure' = (hard_failure \/
       \E i \in DOMAIN task_results : \E j \in DOMAIN task_results[i].outcomes :
         task_results[i].outcomes[j] \in ErrorKinds)
  /\ UNCHANGED <<asked, installed, task_results, manifests, report, task, obligation, money>>

(* Mutant: only provider and budget errors count as a hard failure. *)
EndConfigIgnoringSpecs ==
  /\ pc = "task" /\ Len(task_results) = Len(Suite)
  /\ pc' = "config"
  /\ results' = Append(results, task_results)
  /\ hard_failure' = (hard_failure \/
       \E i \in DOMAIN task_results : \E j \in DOMAIN task_results[i].outcomes :
         task_results[i].outcomes[j] \in ErrorKinds \ {"prover_error"})
  /\ UNCHANGED <<asked, installed, task_results, manifests, report, task, obligation, money>>

(* The suite is over for this configuration. *)
EndConfig ==
  /\ pc = "task" /\ Len(task_results) = Len(Suite)
  /\ pc' = "config"
  /\ results' = Append(results, task_results)
  /\ hard_failure' = (hard_failure \/
       \E i \in DOMAIN task_results : \E j \in DOMAIN task_results[i].outcomes :
         task_results[i].outcomes[j] \in ErrorKinds)
  /\ UNCHANGED <<asked, installed, task_results, manifests, report, task, obligation, money>>

(* write_report, once, at the very end. *)
WriteReport ==
  /\ pc = "config" /\ Len(results) = Configs
  /\ pc' = "done"
  /\ report' = [c \in DOMAIN results |->
                  [metrics |-> Aggregate(results[c]), task_results |-> results[c]]]
  /\ UNCHANGED <<asked, installed, task_results, results, hard_failure, manifests,
                 task, obligation, money>>

Next ==
  \/ Configure \/ ConfigFails
  \/ StartTask \/ (\E n \in 0 .. MaxObligations : PrepareSpec(n)) \/ SpecError \/ SpecRaises
  \/ BeginObligation
  \/ FreeRound \/ (\E bill \in Bills : PaidRound(bill)) \/ RefusedRound \/ FailedRound
  \/ (\E kind \in {"solved", "gave_up", "prover_error"} : EndRounds(kind)) \/ RoundRaises
  \/ EndTask \/ EndConfig \/ WriteReport

Spec == Init /\ [][Next]_vars

-----------------------------------------------------------------------------
Kinds == ErrorKinds \cup {"solved", "gave_up"}

TypeOK ==
  /\ pc \in {"config", "task", "spec", "obligation", "round", "done", "failed"}
  /\ asked \in Requests
  /\ guard \in GuardType
  /\ installed \in BOOLEAN
  /\ outcomes \in Seq(Kinds)
  /\ todo \in 0 .. MaxObligations /\ extracted \in 0 .. MaxObligations
  /\ rounds \in 0 .. MaxRounds
  /\ {cost, sum_usd, billed, counted} \subseteq Nat
  /\ hard_failure \in BOOLEAN

(* A cap holds for the whole matrix: however many configurations, tasks,   *)
(* obligations and repairs there are, spending passes the cap on the       *)
(* command line (or else the experiment's) by less than the one call that  *)
(* crosses it, and no counted call passes the experiment's max_calls,      *)
(* which the command line does not lift.                                   *)
CapHoldsAcrossMatrix ==
  /\ asked.max_cost_usd # None => billed <= asked.max_cost_usd + MaxBill
  /\ asked.max_cost_usd = None /\ asked.experiment.max_cost_usd # None =>
       billed <= asked.experiment.max_cost_usd + MaxBill
  /\ asked.experiment.max_calls # None => counted <= asked.experiment.max_calls

(* Until the command fails, the manifests on disk and the task under way   *)
(* add up to what the providers charged, and so do the report's rows.      *)
MoneyReported ==
  /\ pc \in {"config", "task", "spec", "done"} => CostOf(manifests) = billed
  /\ pc \in {"obligation", "round"} => CostOf(manifests) + sum_usd + cost = billed
  /\ pc = "done" =>
       SumTo([c \in DOMAIN report |-> report[c].metrics.total_cost_usd], Len(report)) = billed

(* A report has every task of every configuration, whatever became of the  *)
(* tasks before it.                                                        *)
ReportComplete ==
  report # None =>
    /\ Len(report) = Configs
    /\ \A c \in DOMAIN report :
         LET trs == report[c].task_results
         IN  [t \in DOMAIN trs |-> trs[t].expected] = Suite

(* The places that judge a task agree. A task is in the "solved" column    *)
(* exactly if it does not lower the success rate, and a task that was      *)
(* expected to be solved matched exactly if it is in that column. A row's  *)
(* columns add up, and it shows a full success rate exactly if all tasks   *)
(* are solved. The exit code tells exactly that some row has an error.     *)
TaskVerdictsAgree ==
  /\ \A i \in DOMAIN task_results :
       LET tr == task_results[i]
           solved == Categorize(tr) = "solved"
       IN  /\ solved <=> tr.obligations_solved = tr.obligations_total
           /\ tr.expected = "solved" => (tr.matched_expected <=> solved)
           /\ (tr.expected = "gave_up" /\ tr.matched_expected /\ tr.outcomes # <<>>) => ~solved
  /\ report # None =>
       /\ \A c \in DOMAIN report :
            LET m == report[c].metrics
            IN  /\ m.tasks_solved + m.tasks_gave_up + m.tasks_errored = m.tasks_total
                /\ m.tasks_solved = m.tasks_total <=> m.obligations_solved = m.obligations_total
       /\ hard_failure <=> \E c \in DOMAIN report : report[c].metrics.tasks_errored > 0

(* No task leaves its guard behind for whatever the process does next,     *)
(* however the task ended.                                                 *)
GuardUninstalled == pc \in {"config", "task", "done", "failed"} => ~installed

(* eval/runner.py: per-task spec preparation errors must not abort the     *)
(* whole suite.                                                            *)
SpecErrorsContained == [][pc = "spec" => pc' # "failed"]_vars
=============================================================================
