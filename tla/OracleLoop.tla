----------------------------- MODULE OracleLoop -----------------------------
(***************************************************************************)
(* kalinov.oracle.loop.OracleLoop: propose a proof, verify it, repair it,  *)
(* for one obligation after another, as the solve command and the eval     *)
(* runner drive it.                                                        *)
(*                                                                         *)
(* One process works through runs (a RunContext: one solve command, or one *)
(* task of an eval) and their obligations. The guard lives as long as the  *)
(* command; the ids of the last LLM, compile and check rows are globals of *)
(* the process and outlive every run: the loop reads them after a call to  *)
(* join its own line to that call's row, whether or not the call left one. *)
(*                                                                         *)
(* complete() is one step here, with the ways it can end; its own steps    *)
(* are module CompletionPipeline. A row's id is the run, obligation and    *)
(* iteration that wrote it; an artifact is the iteration that proposed it. *)
(***************************************************************************)
EXTENDS Budget, Sequences

CONSTANTS
  MaxRepair,           (* OracleConfig.max_repair_attempts *)
  Budgets,             (* the budgets a command may be started with *)
  Bills,               (* what a provider call may turn out to cost *)
  MaxRuns,             (* bound: runs of the process *)
  MaxObligations       (* bound: obligations of one run *)

ASSUME OracleAssumption ==
  /\ None # "ok"
  /\ MaxRepair \in Nat
  /\ Budgets \subseteq BudgetType
  /\ Bills \subseteq BillType
  /\ MaxRuns \in Nat \ {0}
  /\ MaxObligations \in Nat

VARIABLES
  run,                 (* the active run *)
  count,               (* obligations begun in it *)
  last,                (* the ids of the last llm, compile and check rows *)
  budget,              (* the command's budget ... *)
  guard,               (* ... and its guard *)
  loop,                (* the locals of _run_sync *)
  lines,               (* this obligation's lines of oracle_loop.jsonl *)
  attempts,            (* OracleOutcome.attempts *)
  reported             (* USD of the command's outcomes so far *)

vars == <<run, count, last, budget, guard, loop, lines, attempts, reported>>

NewLoop ==
  [pc |-> "ready",     (* "ready" between obligations, "propose", "compile",
                          "check", or "aborted" *)
   iter |-> 0,
   artifact |-> None,  (* previous_artifact *)
   diag |-> None,      (* where last_diagnostic_text came from *)
   llm |-> None,       (* llm_id *)
   compile |-> None,   (* compile_join *)
   cost |-> None,      (* cost_usd of this iteration; None for a cache hit *)
   total |-> 0,        (* total_cost *)
   kind |-> "none",    (* how the obligation ended *)
   final |-> None]     (* final_artifact *)

Init ==
  /\ run = 1
  /\ count = 0
  /\ last = [llm |-> None, compile |-> None, check |-> None]
  /\ budget \in Budgets
  /\ guard = NewGuard
  /\ loop = NewLoop
  /\ lines = <<>>
  /\ attempts = <<>>
  /\ reported = 0

At(pc) == loop.pc = pc

(* The id of a row written now. *)
Id == <<run, count, loop.iter>>

Usd(cost) == IF cost = None THEN 0 ELSE cost

Line(outcome, llm, prover, cost) ==
  [iter |-> loop.iter, outcome |-> outcome, llm |-> llm, prover |-> prover, cost |-> cost]

(* An attempt of this iteration: the verdict of check, None without one. *)
Attempt(verdict) == [artifact |-> loop.artifact, check_result |-> verdict]

(* return OracleOutcome(...), with the caller adding up the total. *)
Return(kind, final, total) ==
  /\ loop' = [loop EXCEPT !.pc = "ready", !.kind = kind, !.final = final, !.total = total]
  /\ reported' = reported + total

-----------------------------------------------------------------------------
(* The caller takes the next obligation of the run. *)
Begin ==
  /\ At("ready")
  /\ count < MaxObligations
  /\ count' = count + 1
  /\ loop' = [NewLoop EXCEPT !.pc = "propose"]
  /\ lines' = <<>>
  /\ attempts' = <<>>
  /\ UNCHANGED <<run, last, budget, guard, reported>>

(* Mutant: the last id is read before the call. *)
ProposedEarlyId(cost) ==
  /\ last' = [last EXCEPT !.llm = Id]
  /\ loop' = [loop EXCEPT !.pc = "compile", !.artifact = loop.iter, !.llm = last.llm,
                          !.cost = cost, !.total = @ + Usd(cost)]
  /\ UNCHANGED <<run, count, budget, lines, attempts, reported>>

(* complete() returned: the body becomes this iteration's artifact. *)
Proposed(cost) ==
  /\ last' = [last EXCEPT !.llm = Id]
  /\ loop' = [loop EXCEPT !.pc = "compile", !.artifact = loop.iter, !.llm = Id,
                          !.cost = cost, !.total = @ + Usd(cost)]
  /\ UNCHANGED <<run, count, budget, lines, attempts, reported>>

(* Mutant: the call that crosses the cap is left out of the total. *)
NotProposedUncounted(kind, ids, cost) ==
  /\ last' = ids
  /\ lines' = Append(lines, Line("error", ids.llm, None, cost))
  /\ Return(kind, loop.artifact, loop.total)
  /\ UNCHANGED <<run, count, budget, attempts>>

(* Mutant: an error forgets the artifact of the round before. *)
NotProposedNoArtifact(kind, ids, cost) ==
  /\ last' = ids
  /\ lines' = Append(lines, Line("error", ids.llm, None, cost))
  /\ Return(kind, None, loop.total + Usd(cost))
  /\ UNCHANGED <<run, count, budget, attempts>>

(* complete() raised: an error line with the last LLM id there is, and the *)
(* attempted cost; the best artifact so far is the final one.              *)
NotProposed(kind, ids, cost) ==
  /\ last' = ids
  /\ lines' = Append(lines, Line("error", ids.llm, None, cost))
  /\ Return(kind, loop.artifact, loop.total + Usd(cost))
  /\ UNCHANGED <<run, count, budget, attempts>>

(* Served from the cache: a row, no cost, the guard is not asked. *)
CompleteHit ==
  /\ At("propose")
  /\ Proposed(None)
  /\ UNCHANGED guard

(* A paid answer, which the guard accepts or refuses once it is paid. *)
CompletePaid(bill) ==
  /\ At("propose")
  /\ EnsureNotExceeded(budget, guard)
  /\ guard' = Recorded(budget, guard, bill)
  /\ IF RecordReturns(budget, guard, bill)
     THEN Proposed(bill.cost)
     ELSE NotProposed("budget_exceeded", [last EXCEPT !.llm = Id],
                      IF Unaccountable(budget, bill) THEN None
                      ELSE AttemptedCost(budget, bill))

(* The guard refuses before the provider is called: no row. *)
CompleteRefused ==
  /\ At("propose")
  /\ ~EnsureNotExceeded(budget, guard)
  /\ NotProposed("budget_exceeded", last, None)
  /\ UNCHANGED guard

(* The provider failed, or a read_only cache missed: a row without a cost. *)
CompleteFails ==
  /\ At("propose")
  /\ NotProposed("llm_error", [last EXCEPT !.llm = Id], None)
  /\ UNCHANGED guard

(* complete() raised anything else (a torn cache file, an answer without   *)
(* choices): nothing up to the command catches it.                         *)
CompleteAborts ==
  /\ At("propose")
  /\ loop' = [loop EXCEPT !.pc = "aborted"]
  /\ UNCHANGED <<run, count, last, budget, guard, lines, attempts, reported>>

(* Mutant: one round more than max_repair_attempts + 1. *)
RepairOnceMore(op) ==
  IF loop.iter > MaxRepair
  THEN Return("gave_up", loop.artifact, loop.total)
  ELSE /\ loop' = [loop EXCEPT !.pc = "propose", !.iter = @ + 1, !.diag = <<loop.iter, op>>]
       /\ UNCHANGED reported

(* Mutant: max_repair_attempts counts the first proposal too. *)
RepairOnceLess(op) ==
  IF loop.iter + 1 >= MaxRepair
  THEN Return("gave_up", loop.artifact, loop.total)
  ELSE /\ loop' = [loop EXCEPT !.pc = "propose", !.iter = @ + 1, !.diag = <<loop.iter, op>>]
       /\ UNCHANGED reported

(* Mutant: only a failed check renews the diagnostics. *)
RepairOldDiagnostics(op) ==
  IF loop.iter >= MaxRepair
  THEN Return("gave_up", loop.artifact, loop.total)
  ELSE /\ loop' = [loop EXCEPT !.pc = "propose", !.iter = @ + 1,
                               !.diag = IF op = "check" THEN <<loop.iter, op>> ELSE @]
       /\ UNCHANGED reported

(* The iteration failed with diagnostics from op: another round with them, *)
(* unless this was the last one.                                           *)
Repair(op) ==
  IF loop.iter >= MaxRepair
  THEN Return("gave_up", loop.artifact, loop.total)
  ELSE /\ loop' = [loop EXCEPT !.pc = "propose", !.iter = @ + 1, !.diag = <<loop.iter, op>>]
       /\ UNCHANGED reported

(* prover.compile raised: a LeanProver has then left no row, and the line  *)
(* gets the id of whatever compile row came last.                          *)
CompileRaises ==
  /\ At("compile")
  /\ lines' = Append(lines, Line("error", loop.llm, last.compile, loop.cost))
  /\ attempts' = Append(attempts, Attempt(None))
  /\ Return("prover_error", loop.artifact, loop.total)
  /\ UNCHANGED <<run, count, last, budget, guard>>

CompileFails ==
  /\ At("compile")
  /\ last' = [last EXCEPT !.compile = Id]
  /\ lines' = Append(lines, Line("compile_fail", loop.llm, Id, loop.cost))
  /\ attempts' = Append(attempts, Attempt(None))
  /\ Repair("compile")
  /\ UNCHANGED <<run, count, budget, guard>>

CompileOk ==
  /\ At("compile")
  /\ last' = [last EXCEPT !.compile = Id]
  /\ loop' = [loop EXCEPT !.pc = "check", !.compile = Id]
  /\ UNCHANGED <<run, count, budget, guard, lines, attempts, reported>>

(* Mutant: a raising check is tried again. *)
CheckRaisesRetried ==
  /\ At("check")
  /\ loop' = [loop EXCEPT !.pc = "compile"]
  /\ UNCHANGED <<run, count, last, budget, guard, lines, attempts, reported>>

(* prover.check raised, without a row: check_join or prover_join_id. *)
CheckRaises ==
  /\ At("check")
  /\ lines' = Append(lines, Line("error", loop.llm,
                                 IF last.check # None THEN last.check ELSE loop.compile,
                                 loop.cost))
  /\ attempts' = Append(attempts, Attempt(None))
  /\ Return("prover_error", loop.artifact, loop.total)
  /\ UNCHANGED <<run, count, last, budget, guard>>

CheckFails ==
  /\ At("check")
  /\ last' = [last EXCEPT !.check = Id]
  /\ lines' = Append(lines, Line("check_fail", loop.llm, Id, loop.cost))
  /\ attempts' = Append(attempts, Attempt("fail"))
  /\ Repair("check")
  /\ UNCHANGED <<run, count, budget, guard>>

CheckOk ==
  /\ At("check")
  /\ last' = [last EXCEPT !.check = Id]
  /\ lines' = Append(lines, Line("ok", loop.llm, Id, loop.cost))
  /\ attempts' = Append(attempts, Attempt("ok"))
  /\ Return("solved", loop.artifact, loop.total)
  /\ UNCHANGED <<run, count, budget, guard>>

(* A new run directory in the same process: the next task of an eval keeps *)
(* the command's guard; an MCP server's next tool call starts afresh.      *)
NewRun ==
  /\ run < MaxRuns
  /\ run' = run + 1
  /\ count' = 0
  /\ loop' = NewLoop
  /\ lines' = <<>>
  /\ attempts' = <<>>
  /\ UNCHANGED last

NextTask ==
  /\ At("ready")
  /\ NewRun
  /\ UNCHANGED <<budget, guard, reported>>

NextCommand ==
  /\ At("ready") \/ At("aborted")
  /\ NewRun
  /\ budget' \in Budgets
  /\ guard' = NewGuard
  /\ reported' = 0

-----------------------------------------------------------------------------
(* The steps of _run_sync. *)
Run ==
  \/ CompleteHit \/ (\E bill \in Bills : CompletePaid(bill))
  \/ CompleteRefused \/ CompleteFails \/ CompleteAborts
  \/ CompileRaises \/ CompileFails \/ CompileOk
  \/ CheckRaises \/ CheckFails \/ CheckOk

Next == Begin \/ Run \/ NextTask \/ NextCommand

Spec == Init /\ [][Next]_vars

(* Provider calls, compiles and checks all have timeouts, so a begun       *)
(* obligation goes on; nobody owes it another obligation or run.           *)
FairSpec == Spec /\ WF_vars(Run)
-----------------------------------------------------------------------------
Ids == (1 .. MaxRuns) \X (1 .. MaxObligations) \X (0 .. MaxRepair)

Kinds == {"solved", "gave_up", "budget_exceeded", "prover_error", "llm_error"}

TypeOK ==
  /\ run \in 0 .. MaxRuns
  /\ count \in 0 .. MaxObligations
  /\ \A op \in {"llm", "compile", "check"} : last[op] \in Ids \cup {None}
  /\ budget \in Budgets
  /\ guard \in GuardType
  /\ loop.pc \in {"ready", "propose", "compile", "check", "aborted"}
  /\ loop.iter \in 0 .. MaxRepair
  /\ loop.artifact \in (0 .. MaxRepair) \cup {None}
  /\ loop.kind \in Kinds \cup {"none"}
  /\ loop.total \in Nat
  /\ reported \in Nat

Working == loop.pc \in {"propose", "compile", "check"}
Ended == At("ready") /\ loop.kind # "none"

(* The trace of a finished obligation explains its outcome: one line per   *)
(* iteration, in order; the last line is "ok" exactly for "solved" and     *)
(* "error" exactly for the three error kinds; every line before it is a    *)
(* failed verdict, and "gave_up" has used up all MaxRepair + 1 of them.    *)
OutcomeMatchesTrace ==
  Ended =>
    LET n == Len(lines)
    IN  /\ n \in 1 .. MaxRepair + 1
        /\ \A i \in 1 .. n : lines[i].iter = i - 1
        /\ \A i \in 1 .. n - 1 : lines[i].outcome \in {"compile_fail", "check_fail"}
        /\ lines[n].outcome = "ok" <=> loop.kind = "solved"
        /\ lines[n].outcome = "error" <=> loop.kind \notin {"solved", "gave_up"}
        /\ loop.kind = "gave_up" => n = MaxRepair + 1

(* The final artifact of "solved" is the one whose check said ok, and no   *)
(* other attempt's did; an artifact that only compiled never counts, and   *)
(* an LLM error after a repair still reports the artifact before it.       *)
FinalArtifactIsLatest ==
  Ended =>
    /\ \A i \in DOMAIN attempts :
         (attempts[i].check_result = "ok") <=>
           (loop.kind = "solved" /\ loop.final = attempts[i].artifact)
    /\ loop.final = IF attempts = <<>> THEN None ELSE attempts[Len(attempts)].artifact

(* Every repair prompt is about the attempt just before it, with the       *)
(* diagnostics of the verdict that attempt got.                            *)
RepairsFollowLatest ==
  (At("propose") /\ loop.iter > 0) =>
    /\ loop.artifact = loop.iter - 1
    /\ loop.diag = <<loop.iter - 1,
                     IF lines[loop.iter].outcome = "compile_fail" THEN "compile" ELSE "check">>

(* The three records of an obligation agree: its outcome, its lines and    *)
(* attempts, and the prompts of its repairs.                               *)
TraceExplainsOutcome == OutcomeMatchesTrace /\ FinalArtifactIsLatest /\ RepairsFollowLatest

SumOfCosts(ls) ==
  LET sum[n \in 0 .. Len(ls)] == IF n = 0 THEN 0 ELSE sum[n - 1] + Usd(ls[n].cost)
  IN  sum[Len(ls)]

(* What the outcomes report and what the guard counted are the same money, *)
(* at every step, over all the obligations and tasks of the command, and   *)
(* the lines of an obligation add up to its outcome's total.               *)
TotalIsBilled ==
  /\ reported + (IF Working \/ At("aborted") THEN loop.total ELSE 0) = guard.spent
  /\ Ended => loop.total = SumOfCosts(lines)

(* A verdict's line carries the ids of its own LLM call and of its own     *)
(* compile or check call, never those of a neighbour.                      *)
VerdictsJoinOwnCalls ==
  \A i \in DOMAIN lines :
    lines[i].outcome # "error" =>
      lines[i].llm = <<run, count, i - 1>> /\ lines[i].prover = <<run, count, i - 1>>

(* OracleLoop.run keeps its contract, whichever run and command it is in. *)
Contract == INSTANCE ObligationContract WITH
  MaxRounds <- MaxRepair + 1,
  state <- IF Working THEN "trying" ELSE IF At("aborted") THEN "aborted"
           ELSE IF loop.kind = "none" THEN "idle" ELSE loop.kind,
  proposals <- Len(attempts) + IF loop.pc \in {"compile", "check"} THEN 1 ELSE 0,
  verdicts <- Len(attempts),
  total <- loop.total

ImplementsContract == Contract!Spec

(* A begun obligation ends. *)
ObligationsEnd == Working ~> ~Working

-----------------------------------------------------------------------------
(* tests/test_oracle_telemetry.py: a line's ids are found among the rows   *)
(* of its own run.                                                         *)
LinesJoinOwnRun ==
  \A i \in DOMAIN lines :
    /\ lines[i].llm # None => lines[i].llm[1] = run
    /\ lines[i].prover # None => lines[i].prover[1] = run
=============================================================================
