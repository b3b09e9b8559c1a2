# kalinov-bridge in TLA+

kalinov-bridge drives language models against Lean proof obligations: it reads
Gherkin files, extracts obligations, asks a model for a proof, compiles and
checks the answer, asks again with the diagnostics, and keeps an account of
what was paid. The provers and providers are somebody else's. What this code
owns, and what is modelled here, is the control around them: who may still
spend, what is cached, what is written where and in which order, what a
failure takes with it, and when everything ends.

Paths below are relative to the repository's `src/kalinov/`.

## 1. The system

| Component | State | Operations | Talks to |
|---|---|---|---|
| Budget guard (`llm/budget.py`) | spent, tokens, calls, sticky refusal; a lock | `ensure_not_exceeded`, `record` | called by the pipeline before and after a paid call |
| Completion pipeline (`llm/pipeline.py`, `retrying.py`, `telemetry.py`) | none of its own | `run_completion`: lookup, pre-flight, attempts, row, cache write, record | cache, guard, adapter, `llm_calls.jsonl` |
| Response cache (`llm/cache.py`) | a directory of JSON files, one per key | `key_for`, `get`, `set`; off, read_write, read_only | shared by every process pointed at the directory |
| Provider adapters (`llm/providers/`) | an SDK client | `complete`: vendor errors to `LLMError`, vendor counts to token buckets | pipeline |
| Pricing (`cost/`) | a table loaded from `pricing.yaml` | `row_for`, `estimate_cost` | pipeline |
| Oracle loop (`oracle/`) | locals of one obligation; one telemetry line per iteration; transcripts | propose, compile, check, repair, give up | LLM client, prover, and the ids of their last rows |
| Provers (`provers/`) | Lean: temporary files; process-wide ids of the last rows | `compile`, `check`, `extract_obligations` | `lake`, `prover_calls.jsonl` |
| Eval runner (`eval/`) | results in memory, a manifest per task, a report at the end | matrix x suite x obligations under one guard | oracle loop, run context |
| Eval plan (`eval/matrix.py`, `experiment.py`, `report.py`, `compare.py`) | none | flags and experiment file to a matrix, labels, tables, comparison | eval runner |
| Run context and telemetry (`telemetry/`, `llm/run_report.py`) | the active run, one per task; a directory per run | `start_run`, `append_jsonl_record`, manifests, the cost report | every component that writes a row |
| Commands (`cli_core.py`) | locals of one command | solve, check | all of the above |
| MCP server (`mcp/`) | its configuration | solve, check, eval, mine and cost_report as tasks of one event loop; `runs/` as resources | commands, run context |
| ForTheL bridge (`bridges/`) | none | `translate_step` by subprocess | check command |
| Front end (`gherkin/`, `interpreters/`) | none | parse, classify steps | commands |
| Mining (`mining/`) | feature files in a shared output directory | fetch, extract, emit | arXiv, run context |
| Demo (`kalinov_bridge/`) | a scratch Lean file it must restore | `run_demo_cycle` | `lake build` |

What makes it hard: a bill is only known after it has been incurred, so a cap
can only be enforced between calls; a call that crosses it was still paid, and
its cost has to reach four places (row, cache, outcome, guard) although an
exception is already on its way; the ids that join telemetry streams are
globals of the process that outlive calls, obligations and runs; the cache is
shared by processes that know nothing of each other and may die while writing;
requests of one server overlap, and a context variable is all that keeps their
rows apart; reports are read while others write; and a long paid command can
lose everything it holds in memory to one late exception. `PROJECT.json` lists
these as hazards, each at its line.

## 2. The modules

| Module | What it models |
|---|---|
| `Optional` | `None`, what the code has where there is nothing |
| `Budget` | the guard's arithmetic as operators: when a check passes, what `record` does to the counters |
| `AdmissionGate` | abstract: a gate that lets callers in while open and closes once and for all |
| `BudgetGuard` | one guard shared by any number of callers |
| `BudgetGuardProofs` | its theorems |
| `Providers` | operators: what each adapter makes of a failure and of the tokens a vendor reports, the pricing table, the price of an answer |
| `CommonProofs` | the theorems about `Providers`, and the lemmas that the other proofs share: induction over the naturals and over finite sets, sums, `FlattenSeq`, the guard's operators |
| `CompletionPipeline` | `run_completion` in several processes over one cache directory, with crashes and later commands |
| `CompletionPipelineProofs` | its theorems |
| `ObligationContract` | abstract: what the oracle loop promises of one obligation |
| `OracleLoop` | `_run_sync`, branch by branch, over the obligations of several runs of one process |
| `Transcripts` | the transcript files of the loop, over `OracleLoop` |
| `TranscriptsProofs` | the theorems about both |
| `EvalPlan` | from the command line and an experiment file to labelled configurations, and the tables that are keyed by them |
| `EvalRunner` | a whole `kalinov eval`: matrix, suite, manifests, results, report, exit code |
| `Eval` | the two halves side by side, and what they promise together |
| `EvalProofs` | the theorems about both |
| `Spending` | the caps and bills that a command line and a tool call have in common |
| `SolveCommand` | a whole `kalinov solve`, and the solve calls of an MCP server: caps, files, manifest, exit code |
| `McpServer` | the server's five tools as overlapping tasks, each with its guard, its run and its answer |
| `RunReport` | operators: rows of `llm_calls.jsonl` added up, alone and by group |
| `CostReport` | commands that write run directories while a cost report walks over them |
| `Mining` | overlapping calls of `mine`, from the gate to the exit |
| `Commands` | `SolveCommand`, `McpServer`, `CostReport` and `Mining` side by side, and what they promise together |
| `CommandsProofs` | the theorems about the four |
| `FrontEnd` | operators: scenarios and tags of a document, the interpreter chain, what each prover extracts |
| `CheckCommand` | a whole `kalinov check`: files, the ForTheL bridge, the prover, summary and exit code |
| `MathTex` | the scan of a step's text for math, character by character |
| `CheckCommandProofs` | the theorems about `CheckCommand`, with induction over the document, and about `MathTex`, with induction over the text |
| `LeanWorkspace` | `LeanProver.compile` and `check` of any number of processes in one Lake workspace |
| `DemoCycle` | `kalinov-bridge run-demo`, any number of invocations over one scratch file |
| `SharedFilesProofs` | the theorems about `LeanWorkspace` and `DemoCycle` |
| `MC...` | small instances for TLC |

`Eval`, `Commands`, `MCCheck` and `MCSharing` put components side by side that
share no variable, and a behaviour is of one of them (variable `half` or
`part`): one run of TLC then checks all of them, each in its whole state space.
Where a subject (money, labels, files) concerns several components, a property
of such a run is the conjunction of what they promise about it.

`Budget` is the shared vocabulary: `BudgetGuard`, `CompletionPipeline`,
`OracleLoop` and `EvalRunner` extend it, `SolveCommand` and `McpServer` by way
of `Spending`, and thread a guard (`GuardType`) through the calls they make.
`Providers` extends it too, and `CompletionPipeline` extends `Providers`;
`CostReport` extends `RunReport`, `Transcripts` extends `OracleLoop`; the
modules above take a bill as given, from a set that covers what `Providers` can
produce. Each layer sees the one below at the grain it needs:
`CompletionPipeline` runs the steps of one `complete()`; `OracleLoop` takes
`complete()` as one step with the ways it can end; `EvalRunner` and
`SolveCommand` take an obligation as the rounds and the outcome that
`ObligationContract` allows. `CheckCommand` extends `FrontEnd`; its calls of
the prover are single steps, whose inside is `LeanWorkspace`; whether a step
has math is its input, and `MathTex` says how that is found. In `McpServer` a
call is the money it spends and where its rows go; what its tool does otherwise
is in `SolveCommand`, `CheckCommand`, `EvalRunner`, `Mining` and `CostReport`.

Operators whose comment begins with "Mutant" are plausible bugs. Each is put in
place of the definition it precedes to confirm that a property would notice.
`PROJECT.json` names one for each property; where a property has several
conjuncts, most of the others have a mutant of their own in the module they are
about.

### How state corresponds to the code

* **BudgetGuard.** `guard` is `_spent`, `_tokens`, `_calls` and
  `_tripped_reason # None`. `Admit`/`Refuse` are `ensure_not_exceeded`
  returning or raising; `RecordBill(c, bill)` is `record`, whose bill
  `estimate_cost` computed. The lock makes each of the two atomic; the provider
  call between them holds no lock. `told` sums what the callers add to their
  totals; `unpriced` and `raised` are history.
* **CompletionPipeline.** `proc[p]` is the command in process `p`: where it is
  in `run_completion`, its guard, the USD in its rows (`logged`), the USD its
  provider charged as far as the table knows (`billed`) and the tokens it
  counted, each once (`used`). An answer is the model id the vendor resolved
  and its counts; `BillFor` makes the bill of them. A failure is a status, a
  timeout or a text; the adapter's `LLMError` decides whether it is retried.
  `disk` holds the cache files: absent, torn (empty or partial, so `json.loads`
  raises), or whole. `write_text` is two steps (open truncates, then the
  content), because another process can look or die in between. `contended` is
  history: the answers that two commands missed at once. A cache read
  that raises, and an answer the adapter cannot read, are exceptions no caller
  catches: the command is over.
* **OracleLoop.** `loop` is the locals of `_run_sync`, `lines` its telemetry
  lines, `attempts` the attempts of the outcome, `last` the process-wide ids of
  the last llm, compile and check rows. A row's id is (run, obligation,
  iteration), so that an id shows where it came from. `NextTask` is eval's next
  task (new run, same guard), `NextCommand` another command in the same process
  (an MCP server).
* **Transcripts.** `transcript_buf` is the list of messages of the obligation
  under way, `files` what `save_transcript_json` left in the run's directory.
  `File` is the name after slashes have been replaced, so that two obligations
  may share one. Emptying a file and writing it are two steps; either can fail
  and takes the command with it (`SaveFails`).
* **Providers.** `Counts` are the numbers of a vendor's response. The vendors
  nest them differently (`CachedWithinPrompt`, `ThinkingWithinCompletion`); the
  `...Usage` operators are the four adapters' arithmetic, the `...Error` ones
  their exception handlers. `Catalogue` is the table as loaded, with the
  defaults of a row; `BillFor` the estimate under the resolved id and then
  under the alias.
* **EvalRunner.** `asked` is what the command line and its experiment file say,
  `budget` the merge of the two; `results`, `task_results`, `outcomes` are the
  lists the code holds in memory; `manifests` and `report` are what is on disk;
  `installed` is the context variable of `budget_context.py`; `billed` and
  `counted` are history. `Matches`, `Categorize` and `hard_failure'` are the
  three functions that judge a task, translated from three files, and
  `Aggregate` the report's row.

* **SolveCommand.** `tally`, `outcome_rows`, `files` and `todo` are the locals
  of `run_solve_programmatic`; `loop` is the round count and cost of the
  obligation under way; `request` is what the user or the tool call asked for,
  `default_cap` the server's configuration. `server = FALSE` is the command
  line: one command, then the process ends. `seen` and `billed` are history.
* **EvalPlan.** `args` and `experiment` are the two inputs; `matrix` the
  `ConfigMatrix`, `pending` the combinations its four nested loops have yet to
  reach, `stage` where the command is, `seen` and `configs` the locals of
  `expand`. A label is the record of what `_make_label` prints and the number a
  repeated one ends in.
* **McpServer.** `turn` is the task the event loop runs; only `mine` gives it
  away before it answers (`Await`). `current[t]` and `guards[t]` are the two
  context variables as task `t` sees them. `llm_rows[r]` is the money in the
  rows of run `r`, which is named after the request that started it. `ToolCap`
  is the cap a tool installs, `ToolStarts` and `ToolRefused` the gate of a paid
  tool, `FileUnreadable` a feature file that is not there, `Complete` its answer.
* **CostReport.** `stage[r]`, `rows[r]`, `torn[r]`, `manifests[r]` are a run
  directory and the command that owns it (`BeginRun` to `CloseManifest`). A
  line is written whole or, when the disk refuses part of it, cut short for
  good. `report` is where the reader is (`AskReport` to `AnswerReport`);
  `pending` are the directories it listed and has yet to read, `got` what it
  read; `since` is history.
* **Mining.** `call[c]` is the locals of `mine` and its caller, `log[r]` a
  run's `mining.jsonl`, `feature_files` the output directory. `MiningRun` is the
  run a record goes to. A file is named after the texts in it, opened (emptied)
  and written in two steps, and read back. Two calls with the same sentences
  have the same file: the later writer replaces the attribution of the earlier
  one, or, if its file was open before the other wrote, only the beginning of
  the text (`WrittenOver`: how much of the end is left depends on lengths that
  are not modelled, so any number of scenarios may be). A write that stops
  half-way is taken as one that did not begin.
* **MathTex.** `pos` and `out` are the loop of `_scan_text_fragments`; a
  fragment is the range of positions it takes. What is asked of a text is an
  operator on it (`FragmentAt`), and `Round` is one round of the loop for a
  closing dollar, of which `CloseDollar` takes as many as the text has
  characters: each round moves on until it stops.
* **FrontEnd, CheckCommand.** A document is the tree of scenarios and rules
  with their tags; a step says whether it has math and whether it is ForTheL.
  `docs` holds, per file gone through, whether it could be read, its scenarios
  and what the chain made of their steps; `walk` and
  `rest` are the two loops of `run_check_programmatic` over a file; `skip` its
  set of names; `which` the path the ForTheL interpreter cached when it first
  looked. Naproche may be uninstalled while the command runs.
* **LeanWorkspace.** `disk` is the file of each body (the code names it after a
  hash of the body, so one body is one file); `proc[p]` is the call a process
  is in. Opening, writing, Lean's reading and unlinking are four steps. A
  process that opens a file anew truncates it; one whose file was unlinked goes
  on writing into nothing (`orphan`). `crowded`, `returned`, `mismatched` and
  `left` are history.
* **DemoCycle.** A text is its number of `by sorry` holes; `run[r]` the locals
  of `run_demo_cycle`, `artifacts[r]` its directory, `scratch` the tracked
  file, whose writes are again two steps each.

Money is in whole units (the code sums `Decimal`s exactly). A cap, a price or a
cost that is not there is `None`.

## 3. The runs

| Run | Instance | What it shows |
|---|---|---|
| `completion` | 2 processes + 1 later command, 2 self-hosted servers with one model and prompt, a billing vendor whose answer has a price or none, 2 attempts, a throttled and a timed-out failure, 2 requests per command, all cache modes (but not two writers from the start: the later command is the second one), fairness | rows, guard and charges agree, in money and in tokens; a cached answer belongs to the request; a paid answer is whole on disk even if `record` refused it, unless two commands missed it at once; a cache file at rest never changes (a whole one is never paid again, a torn one is never repaired); every request ends |
| `oracle` | 2 runs x 2 obligations, 2 repairs, a cap on cost and one on calls, priced and unpriced calls, names with a transcript each or one for both, fairness | outcome, lines, attempts, prompts, transcript and money agree; `OracleLoop` implements `ObligationContract`; obligations end |
| `eval` | `EvalRunner`: 2 configurations x 2 tasks (one to be solved, one to be given up), 3 obligations in all, 2 rounds; a cap of zero, an experiment's caps, an override of one of them, none. `EvalPlan`: every mix of six flags over 4 experiment files, and command lines with repeated providers | the caps asked for hold over the matrix; manifests, outcomes and report add up to the charges; the report is complete whatever failed; runner, report and exit code judge a task alike; no guard is left behind; every combination runs once, each flag that is looked at holds for all of them and none takes another along; labels are unique, tables and comparisons are about their own cells |
| `solve` | `SolveCommand`: a command line of 1 or 2 files, a server with 2 calls; 3 obligations, 2 rounds; caps none, zero, 3. `McpServer`: 2 requests of any tool, defaults none and 2. `CostReport`: 2 runs, 2 rows each, all groupings. `Mining`: 2 calls, 6 feeds, of which two have the same sentences from different papers. Fairness for the server and the report | the promised cap, zero included, holds for each command and call; manifest, answer, rows and cost report tell what was paid and by whom; a mining call's log is its own, and its file until another call finds the same sentences; the exit code tells what was achieved; requests and reports end |
| `check` | `CheckCommand`: 2 files out of 3 documents (both kinds of claims, a rule with tags, a bare Examples block), null and Lean prover, bridge on and off, Naproche there, missing or vanishing. `MathTex`: all texts of up to 5 of `$`, `\`, `(`, `)`, `x`, and 3 longer ones | each claim is judged once, by the right path; exit code and summary tell what happened; the scan loses nothing of a text and is its leftmost reading, up to the first formula that an escaped dollar closes |
| `sharing` | `BudgetGuard`: 3 callers, 3 requests each, every combination of set and unset caps, 4 bills (cheap, dear, free, unpriced). `LeanWorkspace`: 2 processes, 2 calls each, 2 bodies and the empty one. `DemoCycle`: 3 invocations, 2 holes | each cap is overshot by at most what was under way when it was crossed; callers' totals equal the guard's; the guard implements `AdmissionGate`. An undisturbed verdict is Lean's on the call's own text; no file is left behind; no result of Lean lacks its row or has two. The scratch file is put back after every failure; results are about the texts kept with them |
| `oracle_joins`, `eval_spec_errors`, `check_names`, `lean_verdicts` | small | what a doc, comment or test says and the code does not do (section 6) |
| `completion_rows`, `server_default` | those of `completion` and `solve` | two more of these, each of them the part of a promise that the property of the passing run leaves out: the attempts of `LedgersAgree`, the eval calls of `CapHoldsPerCall` |

Bounds. Every counter that grows is bounded by a named constant: `Attempts`,
`MaxRequests`, `MaxCommands`, `MaxRuns`, `MaxObligations`, `MaxRounds`,
`MaxFiles`, `MaxCalls`, `MaxRows`, `MaxText`, `Configs`. `MaxObligations` is
per run in `OracleLoop` and for the whole command in `EvalRunner` and
`SolveCommand`, where three is what a majority or a mixed outcome needs. They
are chosen so that the interesting case happens with something left over: a
third caller while two are under way, a dear call that crosses the cap as the
second one, a request and a command after the crossing, a second writer of a
file and a reader after both, a repair after a repair, an obligation after an
error, a configuration after a tripped one, a second process between the open
and the write of a first, a third run after two that overlapped. Callers,
processes of the workspace and demo runs are symmetric; symmetry is used only
in runs without liveness. What is proved below does not depend on these
numbers.

Deadlock is not checked in runs where the modelled command really finishes
(`CHECK_DEADLOCK FALSE`).

Fairness. `CompletionPipeline`: weak fairness of each process's own
`run_completion` steps, because SDK calls time out and file operations return;
nothing obliges a command to be started, to ask, or to crash. `OracleLoop`:
weak fairness of the steps of `_run_sync`, because provider calls, `lake env
lean` and `lake build` all have timeouts; a transcript that was opened is
written or fails. `McpServer`: weak fairness of each request's own steps, because
the event loop takes ready tasks in turn and the request to arXiv has a timeout
of its own; nothing obliges a request to be made. `CostReport`: weak fairness of
the reader, which walks over a list that was fixed when it began; commands are
under no obligation to go on. The other modules state safety only: their loops
are over finite lists that were fixed before they began.

## 4. What is proved

Eight modules hold theorems. `CommonProofs` is about operators; the other
seven are about whole components, and together they prove every invariant that a
passing run checks, the two refinements and the two action properties, for
every value of the constants that satisfies the component's assumptions. Each
goes along the same line: an inductive invariant (`IInv` where the module has
one) holds initially, every action keeps it (one lemma per action or group of
actions that move the same state), and it implies the properties. TLC checked
each inductive invariant on the small instance before it was proved.

**`BudgetGuardProofs`**, for any finite set of callers, any budgets, any bills,
from `BudgetGuardAssumption` (bills have a largest cost `MaxBill`, callers are
a finite non-empty set) and `NoneAssumption`. That spending stays below
`cap + MaxBill * N` (`N` callers) needs to know how many callers, `K`, are past
the check. `IInv` says, each part trading an admitted caller for the one bill
it may still bring:

* `CostInv`: under a cost cap, `spent <= cap` or
  `spent + MaxBill * K <= cap + MaxBill * N`;
* `CallsInv`: under a call cap, `calls + K <= max_calls + N - 1`;
* `UnpricedInv`: under a cost cap, `unpriced + K <= N` once the refusal is
  latched, and `unpriced = 0` before.

`UnderWay` says that an admitted caller still has a call to finish, so that
`left` never becomes negative. `Refinement` follows from the closing being
permanent: `record` only ever adds to the counters or latches. `Sticky` says
that after one refusal of `record` the guard refuses for good.

**`SharedFilesProofs`** has two parts. Of the workspace, for any processes,
bodies and number of calls, from `WorkspaceAssumption` (Lean accepts the empty
file if a call may ask about it). `VerdictIsOwn` speaks of a call that has its
verdict; what makes it inductive is `OwnInv`, which follows an undisturbed call
from its write to its verdict: its file holds its body when Lean reads it, and
nobody has unlinked it. That needs `CrowdInv`: two processes in calls on one
body are both marked. `CleanInv` strengthens "nothing is left behind" to "every
file belongs to a call that has yet to unlink it", and `CountInv` keeps the
rows and the returns of each process in step.

Of the demo, for any runs and any number of holes, from `DemoAssumption`:
`DemoInv` has five parts beside the types. `CommittedInv` says that, while no
runs overlapped or died, the committed text is in the file or in the `original`
of the one active run, which will write it back; `OverlapInv` that active runs
which overlap are marked, so that this one is the only one; `TextsInv` and
`BuiltInv` carry the pair of texts from the read to the artifacts and the
build; `RaisingInv` says that a run which raised does not record.

**`CommonProofs`**, for every vendor, report and pricing table, from
`NoneAssumption`. `TokensCountedOnce` goes vendor by vendor: the buckets an
adapter fills sum to every token once, provided the vendor's nested counts do
not exceed what they are nested in (`Reported`). `AnswerIsBilled` adds the
table: the bill has the type that the guard's modules assume of `Bills`, and it
has a price whenever the table knows the model under either name.
`OnlyTransientRetried` says which failures are tried again. They hold of the
operators, in every state; no invariant is involved.

The same module has what the others share. Induction: every non-empty set of
naturals has a least member because `<` is well founded (`Least`), so a set
that is closed under successor is all of `Nat` (`Induction`), or of what is up
to a bound (`Climb`); so a recursive function over `0 .. n` exists when its
steps stay among its values (`Recursion`), and `FlattenSeq` puts its sequences
one after the other (`Flattened`). What holds of a subset of a finite set once
it holds of those with one element less holds of all (`BySize`); so a sum over
a set is the same in whatever order its fold goes (`SumsExist`, `FoldIsSum`),
and what is zero can be left out (`ZerosLeftOut`). And the guard's operators:
what `record` leaves in each counter (`RecordedFields`, `RecordedCounts`) and
that it latches exactly when a cap is passed (`RecordCloses`).

**`CompletionPipelineProofs`**, for any processes, requests, answers, pricing
table, budgets and crashes, from `PipelineAssumption` and `NoneAssumption`.
`CommandInv` follows the money of one command from the charge through the row
to the guard: `Books` says which of the three lags behind in which state, and by
which bill, `Rows` that a row is written exactly when there is an answer or a
result, `OwnAnswer` whose answer is in hand. `DiskInv` says of every whole cache
file that it answers each request of its key, and of every file under a writer's
hands who that writer is. Since two servers may share a key, `AnswersBelong`
needs `KeyTellsRequest`: whatever a key leaves out, no answer depends on.
`EntriesAreFinal`, an action property, follows from who can write at all
(`OnlyWritersWrite`). `PaidIsCached` is about a file long after its writer has
gone: that it is there follows from `Deposited` and `PaidThere`; that it is
whole, from `Uncontended`. This says of an answer that no two commands missed at
once that at most one process is on its way to the file, and that the file, once
paid for, is whole as soon as that one has passed it (`Settled`); a process sets
out only by missing the answer (`OnlyByAMiss`), which it cannot where a file is,
and a second one on the way makes the answer contended (`MoveContends`).

**`TranscriptsProofs`**, for any number of repairs, runs and obligations, any
budgets, prices and names, from `OracleAssumption`, `TranscriptsAssumption` and
`NoneAssumption`. `RecordsAgree` relates four records that are written at
different moments; what makes it inductive is how they grow together:
`TraceInv` has one line and one attempt for every iteration that is over,
`BufferInv` two messages for every iteration whose answer has come, `MoneyInv`
the guard's money as that of the lines, of the iteration under way and of the
obligations before. `Refinement` is the proof that the loop, with its
transcripts, implements `ObligationContract`: every step of the loop is a step
of the contract or a stutter.

**`EvalProofs`**, for any suite, any number of configurations, bills, command
lines and experiment files, from `EvalAssumption`, `EvalPlanAssumption` and
`NoneAssumption`. The runner: `BooksInv` says which sums agree in which state,
that the manifests and what is yet unwritten are what was billed, and that the
rows and what is yet unfiled are the manifests; `Tallied` and `Judged` keep
counts of solved obligations and verdicts of tasks together; `TasksInv`,
`ResultsInv` and `ReportInv` carry them to the report. The plan: no label comes
twice because every number a repeated label got is smaller than the number of
labels given, which is the number the next one would get (`SuffixInv`);
`ProductInv` says that the configurations so far and the combinations to come
are at all times the product of the matrix, and `Place` and `Placed`, which are
arithmetic, that this product has every choice of the four dimensions and
nothing else. The attempt to prove `FlagsMeanThemselves` showed that it had
forgotten an experiment without oracle settings, whose configurations start
from the default; it now says so. What it says of providers goes with
`--provider` (`ProvidersType`); a `--model` alone is looked at by nothing, which
section 6 lists.

**`CheckCommandProofs`**, for any documents, number of files, prover and
options, from `CheckAssumption`. Which claims a file owes is computed by
recursion over the document, so the module begins with what `Flattened` makes of
that: a walk has every place of the document and has it once (`WalkIs`), and extraction repeats
nothing (`ExtractIs`). The invariant then follows each place of the file under
way: `Bridged` is what the bridge leaves of a claim (nothing, one translated
verdict or one failure), `Settled` what `EachClaimOnce` asks of it in the end,
and `CheckInv` that the places the prover has passed are settled while those to
come are still as the bridge left them. `SkipInv` ties the names of the skip list
to the claims that have their verdict; with scenario names of their own
(`DistinctNames`) a skipped name is then the claim itself, and a claim that was
not skipped had no verdict, since Lean extracts only what the skip list
records. `ExitCodeTellsAll` failed to be proved for a command without files,
which `nargs="+"` (`cli.py:210`) rules out and `CheckAssumption` now says.

The same module proves `TextIsRead` of `MathTex` (`MathIsFound`), for texts of any
length and any characters, from `MathTexAssumption` (a text is a sequence of
strings). First what a text has at a place, without the scan: `FragmentIs` (one
fragment at most, which starts there and ends in the text), `EscapedHasNone`, and
`DollarCloses`, an induction over the rounds of the loop for a closing dollar.
`Looked` is what keeps that loop right: where it stands, an even number of
backslashes stands before it, and every dollar it has passed had an odd number.
Then the scan: `BehindInv` says that every place behind the cursor is read as the
leftmost reading has it and that the cursor never stands on a dollar that is
text, which is what makes it inductive; where an escaped dollar closes a display
formula the two part, so it is said up to there. `NothingLost` follows from where the
parts lie: one before, between and after the fragments (`PartsAre`), and what is
in no fragment in exactly one of them (`PartsMakeTheRest`); parts that lie one
above the other stay in order when they are joined (`FlatAscends`).

**`CommandsProofs`**, for any caps, bills, files, obligations, rounds, requests,
runs, rows, calls and feeds, from the assumptions of the four modules that
`Commands` puts together. Each part has an invariant of its own, and a step of one
leaves the others' alone, because they share no variable.

* `SolveInv`: `Paying` has the money of a command in the tally, in the rounds
  under way and in the guard, and under a cap below the cap and one bill more;
  `Counting` and `FilesTold` say what the tally's numbers and the exit code are
  made of; `Written` that a manifest is the tally of the command that has ended.
  The sum over outcomes is a recursive function, whose value grows by the last
  outcome (`CostsExist`).
* `ServerInv`: `Own` says of each request that its guard, its run and its rows
  have the money of its own calls and nothing else. Requests overlap in `Await`
  only; that a request waits while others run must not move its `Own`.
  `PaidInRuns` adds that a request without a run has paid nothing and that one
  for a report has none; so the rows of the runs there are add up to what all
  requests paid (`AllIsReported`), which makes `ReportFindsAll`, an action
  property, a theorem for any finite set of requests.
* `ReportInv`: what was read of a directory is the beginning of its file, and no
  less of it than there was when the report was asked for (`RunRead`); a manifest
  that was written is the sum of its rows (`RunTold`). The totals of longer rows
  are larger (`LongerAtMost`), also added up over directories
  (`MoreReadAtMost`), so a report lies between the books of two moments.
  That its groups add up to its total, whatever the key, is induction over the
  rows and over the groups (`MergeMoves`, `AggregateUnion`, `GroupsAddUp`).
* `MiningInv`: a call's log has its own rows, which add up to its claims
  (`CallRows`). `FileKept` says what is in a file: nothing, while a call writes it
  or since one failed to; or the claims of one of the calls that wrote it
  (`Writers`), with the end of another's behind them only if there are two. A
  call that is alone with its sentences is the only writer of its file, so the
  file has its claims for good; `Rewriting` is what must be the case where a
  call is told another number (`MayBeTold`).

Sums and walks are recursive functions or folds whose value no theorem of the
library gives. Three ways around are used: `Sound` and `IsSum` (`EvalProofs`,
`TranscriptsProofs`) say of a sum that its recursion has a solution and that all
solutions end alike, which one more row preserves; `Induction` and `Climb` are
induction proper, over a set instead of a predicate; and `Recursion` gives the
function itself. For the sake of the proofs the operators of `MathTex` take the
text they are about as a parameter, as the functions of the code do, and
`NothingLost` says what the stripped text is made of without a fold.

Only model-checked: every liveness property (`RequestsEnd`, the ends of
obligations, requests and reports), which rests on fairness and ENABLED, beyond
the prover; and the six runs that are meant to fail.

## 5. What is not modelled, and why

* Data that no control depends on: request payloads and the text of a response,
  prompt wording, the rendering of reports, argument parsing, YAML and schema
  validation, the medians of `eval/metrics.py`.
* `provers/lean/error_parser.py` and `toolchain.py`: the first reads Lean's text
  output line by line and keeps no state; the second looks for executables.
* The transport of the MCP server and its resources that return one file: I/O
  of the MCP library and of the file system.
* The pattern table of the mining extractor and the Atom format: which sentences
  are claims is an input of `Mining`.
* `LLMClient.count_tokens` and `stream`, and `translate_spec` of the ForTheL
  bridge: nothing in the program calls them.
* An append to a JSONL file that fails is the death of the command; what it
  leaves in the file is modelled in `CostReport` only.
* `asyncio` gives a turn away in `mine` only: `OracleLoop.run` does not await,
  so the obligations of a server's calls do not interleave.
* The rate limit of `ArxivSource` is per source, and every call makes its own,
  so it never waits (`mining/sources/arxiv.py:45`); there is no clock.

## 6. Where the code and its documents part

Shown by a run:

* **Lines join foreign calls** (`oracle_joins`). After a refusal that leaves no
  row the loop reads the id of an earlier call, possibly of another run. The
  telemetry test expects the id among the run's own rows. Verdict lines are not
  affected (`VerdictsJoinOwnCalls`).
* **A spec error can still abort a suite** (`eval_spec_errors`): an `Examples:`
  block without a table parses and then raises `KeyError`.
* **A claim can go unchecked** (`check_names`). The check command skips
  obligations by name; two scenarios of one name in a file share it, so a claim
  the bridge has answered hides the other, and the exit code is 0.
* **A proof can be accepted for an empty file** (`lean_verdicts`). Two processes
  that verify one body write one file; the second empties it while the first
  one's Lean is about to read it.
* **A retried attempt has no row** (`completion_rows`): `with_retries` runs
  inside the callable that is logged once (`llm/pipeline.py:116`), where
  `adr/0006-llm-abc-frozen.md` promises a row for every attempt. What was paid is
  in the rows all the same (`LedgersAgree`).
* **The default budget is solve's** (`server_default`). The MCP server's default
  (`mcp/runtime.py:31`, "for tools that invoke the LLM") is used by the solve tool
  only; the eval tool (`mcp/tools.py:200`) runs without a cap unless the request
  names one.

Seen while modelling, without a run of their own. The properties leave the first
three open, rather than take the code's side (`ReturnedIsLogged`,
`FlagsMeanThemselves`, `ScanIsLeftmost`):

* A call of the prover can leave no line: a language mismatch
  (`provers/lean/adapter.py:66`), and a `compile` or `check` that raises (no
  `lake`, an unwritable file), contrary to `adr/0004-prover-abc-frozen.md:32`.
* With `--config-file`, `--suite` and a `--model` without `--provider` change
  nothing (`eval/cli_impl.py:86`), where the help at `cli.py:312` says "CLI flags
  override when set."
* `interpreters/mathtex.py:114` calls `\$` literal, but the end of `$$ ... $$` is
  looked for without regard to backslashes (`interpreters/mathtex.py:59`).
* Transcripts are named after obligations (`oracle/telemetry.py:50`), so the
  later of two with one name, or with names that differ in a slash, overwrites
  the earlier, where `oracle/transcript.py:21` has a file per obligation. Names
  with a `#` are valid file names and refused by the resource that serves them
  (`mcp/resources.py:13`).
* An answer without choices (`llm/providers/openai_compat_client.py:116`) raises
  `IndexError` after it was charged and leaves no row either.
* Without Naproche on `PATH` no `SKIP FORTHEL` line is printed, as README.md
  says: the interpreter (`interpreters/forthel.py:86`) has already made the
  step "skipped", and the bridge never sees it.
* Tags of a Feature are not inherited by its scenarios, those of a Rule are
  (`gherkin/parser.py:171`); the comment in `tests/test_gherkin_parser.py:227`
  names both.
* Two overlapping `run-demo` can build each other's restored text
  (`kalinov_bridge/pipeline.py:74`) and keep the patched one as what was built.
* A self-hosted model priced under its alias is free when the server resolves
  another id: the wildcard row answers first (`cost/catalogue.py:41`), so the
  alias, which `llm/pipeline.py:137` consults for a model without a row, is
  never looked at. The table that ships has no such row.
* The check tool computes an exit code and drops it (`mcp/tools.py:188`): a file
  that could not be parsed is answered with `ok` and no results.
* `compare_runs` keys tasks by id (`eval/compare.py:30`) and nothing checks that
  a suite's ids are distinct; of two tasks with one id it sees the later. The
  tables are checked for suites with distinct ids.
* The url of a paper from before 2007 is rebuilt from the number alone
  (`mining/sources/arxiv.py:81`), which several archives share.
* After `\\` in prose a dollar still counts as escaped
  (`interpreters/mathtex.py:120`), inside `$ ... $` it does not.

## 7. Where to go on

Every component that owns state or decides control is modelled, and every
invariant and action property that a run checks is proved. What would be worth
adding, should the code move: a second cost report inside `McpServer` over the
rows of `CostReport` (today it adds up what the requests paid), the eval tool's
runs as the runs of `EvalRunner`, and the medians of `eval/metrics.py`, once a
decision depends on them.
