---------------------------- MODULE SolveCommand ----------------------------
(***************************************************************************)
(* kalinov solve (cli._solve_async) and the MCP server's solve tool        *)
(* (mcp.tools.tool_solve): both run cli_core.run_solve_programmatic, file  *)
(* after file and obligation after obligation, under one guard per         *)
(* command. The command line is one command of one process; the server     *)
(* answers one call after another (nothing in a call awaits I/O).          *)
(*                                                                         *)
(* One round of OracleLoop is a step here; what becomes of its artifact is *)
(* module OracleLoop. An answer is an exit code of the command line or the *)
(* ok of a SolveResponse; "raised" is an exception nobody catches.         *)
(***************************************************************************)
EXTENDS Spending, Sequences

CONSTANTS
  MaxFiles,            (* bound: files of a command line *)
  MaxObligations,      (* bound: obligations of a command *)
  MaxRounds,           (* max_repair_attempts + 1 *)
  MaxCommands          (* bound: solve calls of a server *)

(* manifest.json *)
ManifestType == [total_cost_usd : Nat, obligations_total : Nat, obligations_solved : Nat]

ASSUME SolveAssumption ==
  /\ {MaxFiles, MaxObligations, MaxRounds, MaxCommands} \subseteq Nat
  /\ None \notin ManifestType \union {"0", "1", "ok"}

VARIABLES
  pc,                  (* "idle", "start", "file", "obligation" or "round" *)
  server,              (* FALSE: the command line *)
  default_cap,         (* MCPServerConfig.default_max_cost_usd *)
  request,             (* [cap, files] of the command under way *)
  left,                (* commands still to come *)
  budget, guard,       (* of this command ... *)
  installed,           (* ... and whether the context variable holds it *)
  files,               (* files still to read *)
  todo,                (* obligations of this file still to solve *)
  loop,                (* rounds and cost of the obligation under way *)
  tally,               (* parse_failed, obligations_total, solved, sum_usd *)
  outcome_rows,        (* SolveProgrammaticResult.outcomes *)
  manifest,            (* manifest.json of the run, None if there is none *)
  answer,              (* how the last command ended *)
  seen,                (* history: files of it whose obligations were found *)
  billed               (* USD the providers charged this command *)

vars == <<pc, server, default_cap, request, left, budget, guard, installed, files,
          todo, loop, tally, outcome_rows, manifest, answer, seen, billed>>

asked == <<server, default_cap, request, left>>
money == <<budget, guard, installed, billed>>
made == <<tally, outcome_rows, seen>>
ended == <<manifest, answer>>

NewTally == [parse_failed |-> FALSE, obligations_total |-> 0, solved |-> 0, sum_usd |-> 0]

NewRounds == [rounds |-> 0, cost |-> 0]

Init ==
  /\ pc = "idle"
  /\ server \in BOOLEAN
  /\ default_cap \in IF server THEN Caps ELSE {None}
  /\ request = [cap |-> None, files |-> 0]
  /\ left = IF server THEN MaxCommands ELSE 1
  /\ budget = Only(None) /\ guard = NewGuard /\ installed = FALSE
  /\ files = 0 /\ todo = 0
  /\ loop = NewRounds
  /\ tally = NewTally /\ outcome_rows = <<>>
  /\ manifest = None /\ answer = None
  /\ seen = 0 /\ billed = 0

-----------------------------------------------------------------------------
(* A command line, or a call of the tool, which names one file. *)
Ask(cap, n) ==
  /\ pc = "idle" /\ left > 0
  /\ server => n = 1
  /\ pc' = "start"
  /\ request' = [cap |-> cap, files |-> n]
  /\ left' = left - 1
  /\ files' = n /\ todo' = 0
  /\ loop' = NewRounds
  /\ tally' = NewTally /\ outcome_rows' = <<>>
  /\ manifest' = None /\ answer' = None
  /\ seen' = 0 /\ billed' = 0
  /\ UNCHANGED <<server, default_cap, budget, guard, installed>>

End(how) ==
  /\ pc' = "idle"
  /\ answer' = how
  /\ UNCHANGED <<asked, files, todo, loop, made>>

(* A path that is no file, a cache mode without a directory, a broken or   *)
(* unknown provider configuration; a toolchain or a client that is not     *)
(* there is told apart only on the command line.                           *)
NotStarted ==
  /\ pc = "start"
  /\ \E code \in {"2", "3"} : End(IF server THEN "error" ELSE code)
  /\ UNCHANGED <<money, manifest>>

(* --max-cost-usd is no decimal: nobody catches InvalidOperation. *)
CapUnreadable ==
  /\ pc = "start"
  /\ End("raised")
  /\ UNCHANGED <<money, manifest>>

(* Mutant: a cap of zero counts as none. *)
EffectiveCapTruthy ==
  IF server /\ request.cap \in {None, 0} THEN default_cap
  ELSE IF request.cap = 0 THEN None ELSE request.cap

(* The request's own cap comes before the server's. *)
EffectiveCap == IF server /\ request.cap = None THEN default_cap ELSE request.cap

(* start_run, and a new guard if there is a cap. *)
StartRun ==
  /\ pc = "start"
  /\ pc' = "file"
  /\ budget' = Only(EffectiveCap)
  /\ guard' = NewGuard
  /\ installed' = (EffectiveCap # None)
  /\ UNCHANGED <<asked, files, todo, loop, made, ended, billed>>

(* Mutant: the file is passed over. *)
FileFailsQuietly ==
  /\ pc = "file" /\ files > 0
  /\ files' = files - 1
  /\ UNCHANGED <<pc, asked, money, todo, loop, made, ended>>

(* The file cannot be read, decoded or parsed, or the prover refuses it:   *)
(* the next one.                                                           *)
FileFails ==
  /\ pc = "file" /\ files > 0
  /\ files' = files - 1
  /\ tally' = [tally EXCEPT !.parse_failed = TRUE]
  /\ UNCHANGED <<pc, asked, money, todo, loop, outcome_rows, seen, ended>>

FileRead(n) ==
  /\ pc = "file" /\ files > 0
  /\ tally.obligations_total + n <= MaxObligations
  /\ pc' = "obligation"
  /\ files' = files - 1
  /\ todo' = n
  /\ seen' = seen + 1
  /\ UNCHANGED <<asked, money, loop, tally, outcome_rows, ended>>

(* Any other exception, of the parser, the interpreters or complete(),     *)
(* passes the finally that takes the guard down; there is no manifest.     *)
Raises ==
  /\ (pc = "file" /\ files > 0) \/ pc = "round"
  /\ installed' = FALSE
  /\ End("raised")
  /\ UNCHANGED <<budget, guard, billed, manifest>>

BeginObligation ==
  /\ pc = "obligation" /\ todo > 0
  /\ pc' = "round"
  /\ loop' = NewRounds
  /\ tally' = [tally EXCEPT !.obligations_total = @ + 1]
  /\ UNCHANGED <<asked, money, files, todo, outcome_rows, seen, ended>>

(* loop.run returned. *)
Outcome(kind, cost) ==
  /\ pc' = "obligation"
  /\ todo' = todo - 1
  /\ loop' = NewRounds
  /\ tally' = [tally EXCEPT !.sum_usd = @ + cost,
                            !.solved = @ + IF kind = "solved" THEN 1 ELSE 0]
  /\ outcome_rows' = Append(outcome_rows, [kind |-> kind, total_cost_usd |-> cost])
  /\ UNCHANGED seen

NextRound(cost) ==
  /\ loop' = [rounds |-> loop.rounds + 1, cost |-> loop.cost + cost]
  /\ UNCHANGED <<pc, todo, made>>

Proposing == pc = "round" /\ loop.rounds < MaxRounds

(* Mutant: cached rounds do not count. *)
FreeRoundUnbounded ==
  /\ pc = "round" /\ loop.rounds <= MaxRounds
  /\ NextRound(0)
  /\ UNCHANGED <<asked, money, files, ended>>

(* A proposal served from the cache: no money spent, no guard asked. *)
FreeRound ==
  /\ Proposing
  /\ NextRound(0)
  /\ UNCHANGED <<asked, money, files, ended>>

(* Mutant: the call whose record raises is left out of the outcome. *)
PaidRoundUncounted(bill) ==
  /\ Proposing
  /\ EnsureNotExceeded(budget, guard)
  /\ billed' = billed + bill.cost
  /\ guard' = IF installed THEN Recorded(budget, guard, bill) ELSE guard
  /\ IF RecordReturns(budget, guard, bill) THEN NextRound(bill.cost)
     ELSE Outcome("budget_exceeded", loop.cost)
  /\ UNCHANGED <<asked, budget, installed, files, ended>>

(* A paid proposal, or the paid call whose record raises; without a cap    *)
(* there is no guard to ask.                                               *)
PaidRound(bill) ==
  /\ Proposing
  /\ EnsureNotExceeded(budget, guard)
  /\ billed' = billed + bill.cost
  /\ guard' = IF installed THEN Recorded(budget, guard, bill) ELSE guard
  /\ IF RecordReturns(budget, guard, bill) THEN NextRound(bill.cost)
     ELSE Outcome("budget_exceeded", loop.cost + AttemptedCost(budget, bill))
  /\ UNCHANGED <<asked, budget, installed, files, ended>>

RefusedRound ==
  /\ Proposing
  /\ ~EnsureNotExceeded(budget, guard)
  /\ Outcome("budget_exceeded", loop.cost)
  /\ UNCHANGED <<asked, money, files, ended>>

FailedRound ==
  /\ Proposing
  /\ Outcome("llm_error", loop.cost)
  /\ UNCHANGED <<asked, money, files, ended>>

(* A verdict on the proposal ends the obligation. *)
EndRounds(kind) ==
  /\ pc = "round" /\ loop.rounds > 0
  /\ kind = "gave_up" => loop.rounds = MaxRounds
  /\ Outcome(kind, loop.cost)
  /\ UNCHANGED <<asked, money, files, ended>>

FileDone ==
  /\ pc = "obligation" /\ todo = 0
  /\ pc' = "file"
  /\ UNCHANGED <<asked, money, files, todo, loop, made, ended>>

(* solve_exit_code, or SolveResponse.ok. *)
Answer ==
  IF server THEN "ok"
  ELSE IF tally.parse_failed THEN "2"
  ELSE IF tally.solved < tally.obligations_total THEN "1" ELSE "0"

(* After the last file: the guard is taken down, manifest.json written. *)
Finish ==
  /\ pc = "file" /\ files = 0
  /\ manifest' = [total_cost_usd |-> tally.sum_usd,
                  obligations_total |-> tally.obligations_total,
                  obligations_solved |-> tally.solved]
  /\ installed' = FALSE
  /\ End(Answer)
  /\ UNCHANGED <<budget, guard, billed>>

(* The manifest cannot be written. *)
ManifestRaises ==
  /\ pc = "file" /\ files = 0
  /\ installed' = FALSE
  /\ End("raised")
  /\ UNCHANGED <<budget, guard, billed, manifest>>

Next ==
  \/ \E cap \in Caps, n \in 1 .. MaxFiles : Ask(cap, n)
  \/ NotStarted \/ CapUnreadable \/ StartRun
  \/ FileFails \/ (\E n \in 0 .. MaxObligations : FileRead(n)) \/ Raises
  \/ BeginObligation
  \/ FreeRound \/ (\E bill \in Bills : PaidRound(bill)) \/ RefusedRound \/ FailedRound
  \/ \E kind \in {"solved", "gave_up", "prover_error"} : EndRounds(kind)
  \/ FileDone \/ Finish \/ ManifestRaises

Spec == Init /\ [][Next]_vars
-----------------------------------------------------------------------------
TypeOK ==
  /\ pc \in {"idle", "start", "file", "obligation", "round"}
  /\ budget \in {Only(cap) : cap \in Caps \cup {None}}
  /\ guard \in GuardType
  /\ installed \in BOOLEAN
  /\ files \in 0 .. MaxFiles
  /\ todo \in 0 .. MaxObligations
  /\ seen \in 0 .. MaxFiles
  /\ loop.rounds \in 0 .. MaxRounds
  /\ tally.solved <= tally.obligations_total
  /\ tally.obligations_total <= MaxObligations
  /\ Len(outcome_rows) \in {tally.obligations_total, tally.obligations_total - 1}

(* What the user was promised to pay at most: the cap of the request, or   *)
(* the server's default, "per-call override via tool args".                *)
Promised == IF request.cap # None \/ ~server THEN request.cap ELSE default_cap

(* A cap, be it zero, holds for a whole command, over all its files and    *)
(* obligations, up to the one call that crosses it; and for each command   *)
(* anew: no guard is left behind for the next tool call, nor is one that   *)
(* an earlier call has filled in its way.                                  *)
CapHoldsPerCommand ==
  /\ Promised # None => billed <= Promised + MaxBill
  /\ pc \in {"file", "obligation", "round"} =>
       /\ installed <=> Promised # None
       /\ installed => guard.spent = billed
  /\ pc \in {"idle", "start"} => ~installed

SumUsd(outcomes) ==
  LET sum[n \in 0 .. Len(outcomes)] ==
        IF n = 0 THEN 0 ELSE sum[n - 1] + outcomes[n].total_cost_usd
  IN sum[Len(outcomes)]

(* What a command paid is in its outcomes at every step, and in its        *)
(* manifest unless it ended in an exception: a file that cannot be read    *)
(* between files that were paid for does not cost the user the summary.    *)
SpendingReported ==
  /\ pc \in {"file", "obligation", "round"} => tally.sum_usd + loop.cost = billed
  /\ tally.sum_usd = SumUsd(outcome_rows)
  /\ (pc = "idle" /\ answer \in {"0", "1", "ok"}) => manifest # None
  /\ manifest # None => manifest.total_cost_usd = billed

(* Exit code 0 says that every file was read and every obligation solved,  *)
(* 1 that all were read and one was not solved, 2 that one was not read.   *)
ExitCodeTellsAll ==
  (pc = "idle" /\ manifest # None /\ ~server) =>
    LET all == \A i \in DOMAIN outcome_rows : outcome_rows[i].kind = "solved"
    IN  /\ (answer = "0") <=> (all /\ seen = request.files)
        /\ (answer = "1") <=> (~all /\ seen = request.files)
=============================================================================
