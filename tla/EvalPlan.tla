------------------------------ MODULE EvalPlan ------------------------------
(***************************************************************************)
(* What a kalinov eval runs and how its report is read: the command line   *)
(* and the experiment file become a matrix (eval/cli_impl.py,              *)
(* eval/experiment.py), the matrix a sequence of labelled configurations   *)
(* (eval/matrix.py), and the labels and task ids name the cells of         *)
(* report.md and of a comparison (eval/report.py, eval/compare.py).        *)
(*                                                                         *)
(* What running a configuration costs and how it fails is in EvalRunner;   *)
(* here it yields, per task, the kinds of its outcomes. A label is the     *)
(* record of what _make_label puts into the string, and the number a       *)
(* repeated one ends in (0: none).                                         *)
(***************************************************************************)
EXTENDS Budget, Integers, FiniteSets, Sequences, SequencesExt

CONSTANTS
  CommandLines,        (* arguments of kalinov eval, None for a flag not given;
                          suite is the task ids of the file it names *)
  Experiments,         (* contents of the file --config-file names *)
  SafeName(_),         (* a model's name with / and spaces as underscores *)
  Signatures,          (* what the outcomes of a task can be *)
  DefaultOracle        (* OracleConfig() *)

Given(flag, value) == IF flag # None THEN flag ELSE value

(* The model's part of a label. *)
ModelName(model) == SafeName(Given(model, "default_model"))

(* What argparse and load_experiment convert their input to. *)
OracleType == [max_repair_attempts : Int, max_tokens : Int, temperature : Int]

ProviderType ==
  {p \in [name : STRING, model : STRING \union {None}] : ModelName(p.model) \in STRING}

CommandLineType ==
  {a \in [config_file : BOOLEAN, suite : Seq(STRING), out : BOOLEAN,
           prover : STRING \union {None}, provider : Seq(STRING),
           model : STRING \union {None}, seed : Seq(Int),
           max_repair_attempts : Int \union {None}, max_tokens : Int \union {None},
           temperature : Int \union {None}] :
     ModelName(a.model) \in STRING}

ExperimentType ==
  [suite : Seq(STRING), out : BOOLEAN, provers : Seq(STRING), providers : Seq(ProviderType),
   seeds : Seq(Int), oracle_configs : Seq(OracleType)]

ASSUME EvalPlanAssumption ==
  /\ CommandLines \subseteq CommandLineType
  /\ Experiments \subseteq ExperimentType
  /\ DefaultOracle \in OracleType

VARIABLES
  args,                (* the command line *)
  experiment,          (* the experiment file, None without --config-file *)
  stage,               (* "read", "expand", "run", "done", "error" *)
  matrix,              (* ConfigMatrix *)
  pending,             (* combinations expand has not reached *)
  seen,                (* labels given so far *)
  configs,             (* EvalConfigs, in order *)
  suite,               (* task ids of the suite that is run *)
  run_results          (* RunResults, in order *)

plan == <<args, experiment, stage, matrix, pending, seen, configs, suite, run_results>>

NoMatrix == [provers |-> <<>>, providers |-> <<>>, seeds |-> <<>>, oracle_configs |-> <<>>]

PlanInit ==
  /\ args \in CommandLines
  /\ experiment \in IF args.config_file THEN Experiments ELSE {None}
  /\ stage = "read"
  /\ matrix = NoMatrix
  /\ pending = <<>> /\ seen = {} /\ configs = <<>>
  /\ suite \in IF args.config_file THEN {experiment.suite} ELSE {args.suite}
  /\ run_results = <<>>

-----------------------------------------------------------------------------
(* --model belongs to the --provider flags of the same command line. *)
ProvidersOf(a) == [i \in DOMAIN a.provider |-> [name |-> a.provider[i], model |-> a.model]]

(* Mutant: a flag replaces the whole oracle configuration. *)
OverrideAll(a, oc) ==
  [max_repair_attempts |-> Given(a.max_repair_attempts, DefaultOracle.max_repair_attempts),
   max_tokens |-> Given(a.max_tokens, DefaultOracle.max_tokens),
   temperature |-> Given(a.temperature, DefaultOracle.temperature)]

(* _apply_oracle_cli, for one configuration; without flags and with        *)
(* DefaultOracle also what _build_matrix_from_args makes.                  *)
Override(a, oc) ==
  [max_repair_attempts |-> Given(a.max_repair_attempts, oc.max_repair_attempts),
   max_tokens |-> Given(a.max_tokens, oc.max_tokens),
   temperature |-> Given(a.temperature, oc.temperature)]

(* _build_matrix_from_args *)
MatrixFromArgs(a) ==
  [provers |-> <<a.prover>>,
   providers |-> ProvidersOf(a),
   seeds |-> IF a.seed # <<>> THEN a.seed ELSE <<42>>,
   oracle_configs |-> <<Override(a, DefaultOracle)>>]

(* _merge_experiment_cli, the matrix of it. *)
Merged(e, a) ==
  LET oracles == IF e.oracle_configs # <<>> THEN e.oracle_configs ELSE <<DefaultOracle>> IN
  [provers |-> IF a.prover # None THEN <<a.prover>> ELSE e.provers,
   providers |-> IF a.provider # <<>> THEN ProvidersOf(a) ELSE e.providers,
   seeds |-> IF a.seed # <<>> THEN a.seed ELSE e.seeds,
   oracle_configs |-> [i \in DOMAIN oracles |-> Override(a, oracles[i])]]

(* The product in the order of the four nested loops of expand. *)
Combinations(m) ==
  LET P == Len(m.provers)
      V == Len(m.providers)
      S == Len(m.seeds)
      O == Len(m.oracle_configs)
  IN  [n \in 1..(P * V * S * O) |->
         [prover |-> m.provers[1 + ((n - 1) \div (V * S * O))],
          provider |-> m.providers[1 + (((n - 1) \div (S * O)) % V)],
          seed |-> m.seeds[1 + (((n - 1) \div O) % S)],
          oracle |-> m.oracle_configs[1 + ((n - 1) % O)]]]

(* load_experiment refuses a file without a suite that exists, without     *)
(* out, or with an empty list where a dimension should be; oracle_configs  *)
(* may be missing. The flags are only looked at afterwards.                *)
Loads(e) ==
  /\ e.suite # <<>> /\ e.out
  /\ e.providers # <<>> /\ e.provers # <<>> /\ e.seeds # <<>>

Refuse ==
  /\ stage = "read"
  /\ IF args.config_file THEN ~Loads(experiment)
     ELSE args.suite = <<>> \/ ~args.out \/ args.provider = <<>>
  /\ stage' = "error"
  /\ UNCHANGED <<args, experiment, matrix, pending, seen, configs, suite, run_results>>

ReadArgs ==
  /\ stage = "read" /\ ~args.config_file
  /\ args.suite # <<>> /\ args.out /\ args.provider # <<>>
  /\ stage' = "expand"
  /\ matrix' = MatrixFromArgs(args)
  /\ pending' = Combinations(matrix')
  /\ UNCHANGED <<args, experiment, seen, configs, suite, run_results>>

(* --suite is not looked at: the suite is the experiment file's. *)
ReadExperiment ==
  /\ stage = "read" /\ args.config_file /\ Loads(experiment)
  /\ stage' = "expand"
  /\ matrix' = Merged(experiment, args)
  /\ pending' = Combinations(matrix')
  /\ UNCHANGED <<args, experiment, seen, configs, suite, run_results>>

-----------------------------------------------------------------------------
(* _make_label: max_tokens and extras are not part of a label. *)
MakeLabel(c) ==
  [prover |-> c.prover, provider |-> c.provider.name,
   model |-> ModelName(c.provider.model),
   seed |-> c.seed, r |-> c.oracle.max_repair_attempts, t |-> c.oracle.temperature,
   suffix |-> 0]

(* Mutant: the second of two equal labels ends in 1, and so does the third. *)
UnusedOnce(label) == IF label \in seen THEN [label EXCEPT !.suffix = 1] ELSE label

(* A label that was given before ends in the number of labels given. *)
Unused(label) ==
  IF label \in seen THEN [label EXCEPT !.suffix = Cardinality(seen)] ELSE label

(* Mutant: a combination whose label was given before is taken for the     *)
(* same one.                                                               *)
ExpandOnce ==
  /\ stage = "expand" /\ pending # <<>>
  /\ pending' = Tail(pending)
  /\ LET label == MakeLabel(Head(pending)) IN
     IF label \in seen THEN UNCHANGED <<seen, configs>>
     ELSE /\ seen' = seen \union {label}
          /\ configs' = Append(configs, [label |-> label] @@ Head(pending))
  /\ UNCHANGED <<args, experiment, stage, matrix, suite, run_results>>

(* Mutant: the label is remembered as it was before it got its number. *)
ExpandBase ==
  /\ stage = "expand" /\ pending # <<>>
  /\ pending' = Tail(pending)
  /\ LET label == MakeLabel(Head(pending)) IN
     /\ seen' = seen \union {label}
     /\ configs' = Append(configs, [label |-> Unused(label)] @@ Head(pending))
  /\ UNCHANGED <<args, experiment, stage, matrix, suite, run_results>>

(* One turn of the innermost loop of ConfigMatrix.expand. *)
Expand ==
  /\ stage = "expand" /\ pending # <<>>
  /\ pending' = Tail(pending)
  /\ LET c == Head(pending)
         label == Unused(MakeLabel(c))
     IN  /\ seen' = seen \union {label}
         /\ configs' = Append(configs, [label |-> label, prover |-> c.prover,
              provider |-> c.provider, seed |-> c.seed, oracle |-> c.oracle])
  /\ UNCHANGED <<args, experiment, stage, matrix, suite, run_results>>

Expanded ==
  /\ stage = "expand" /\ pending = <<>>
  /\ stage' = "run"
  /\ UNCHANGED <<args, experiment, matrix, pending, seen, configs, suite, run_results>>

(* The next configuration runs the suite; a task's run is its place here.  *)
RunConfig ==
  /\ stage = "run" /\ Len(run_results) < Len(configs)
  /\ \E kinds \in [DOMAIN suite -> Signatures] :
       run_results' = Append(run_results,
         [label |-> configs[Len(run_results) + 1].label,
          task_results |-> [i \in DOMAIN suite |->
            [id |-> suite[i], kinds |-> kinds[i], run |-> <<Len(run_results) + 1, i>>]]])
  /\ UNCHANGED <<args, experiment, stage, matrix, pending, seen, configs, suite>>

(* An unknown provider, no toolchain, no key: EvalRunner's ConfigFails. *)
PlanFails ==
  /\ stage = "run" /\ Len(run_results) < Len(configs)
  /\ stage' = "error"
  /\ UNCHANGED <<args, experiment, matrix, pending, seen, configs, suite, run_results>>

PlanEnds ==
  /\ stage = "run" /\ Len(run_results) = Len(configs)
  /\ stage' = "done"
  /\ UNCHANGED <<args, experiment, matrix, pending, seen, configs, suite, run_results>>

PlanNext ==
  \/ Refuse \/ ReadArgs \/ ReadExperiment
  \/ Expand \/ Expanded
  \/ RunConfig \/ PlanFails \/ PlanEnds

PlanSpec == PlanInit /\ [][PlanNext]_plan

-----------------------------------------------------------------------------
(* A dictionary by key keeps the last of what it is given. *)
LastWith(rows, Matches(_)) ==
  LET last == {i \in DOMAIN rows : Matches(rows[i])}
  IN  IF last = {} THEN None ELSE rows[CHOOSE i \in last : \A j \in last : j <= i]

ByTask(result, id) == LastWith(result.task_results, LAMBDA tr : tr.id = id)

(* Mutant: columns are looked up by provider. *)
ByLabelProvider(label) == LastWith(run_results, LAMBDA r : r.label.provider = label.provider)

ByLabel(label) == LastWith(run_results, LAMBDA r : r.label = label)

(* render_markdown: the cell of the j-th column in the row of the i-th     *)
(* task, whose id is the first result's.                                   *)
Cell(i, j) == ByTask(ByLabel(run_results[j].label), run_results[1].task_results[i].id)

IdsOf(r) == {r.task_results[i].id : i \in DOMAIN r.task_results}

(* Mutant: outcomes are compared whatever their order. *)
ChangedUnordered(a, b) ==
  {id \in IdsOf(a) \union IdsOf(b) :
     \/ id \notin IdsOf(a) \intersect IdsOf(b)
     \/ ToSet(ByTask(a, id).kinds) # ToSet(ByTask(b, id).kinds)}

(* compare_runs: the tasks it lists. *)
Changed(a, b) ==
  {id \in IdsOf(a) \union IdsOf(b) :
     \/ id \notin IdsOf(a) \intersect IdsOf(b)
     \/ ByTask(a, id).kinds # ByTask(b, id).kinds}

-----------------------------------------------------------------------------
Labels == [prover : STRING \union {None}, provider : STRING, model : STRING,
           seed : Int, r : Int, t : Int, suffix : Nat]

(* The plan has its type: there are as many labels as configurations, and  *)
(* results only of configurations (matrix.py 33-57, cli_impl.py 161-175).  *)
PlanTypeOK ==
  /\ stage \in {"read", "expand", "run", "done", "error"}
  /\ seen \subseteq Labels
  /\ seen = {configs[i].label : i \in DOMAIN configs}
  /\ Len(run_results) <= Len(configs)
  /\ stage # "expand" => pending = <<>>

(* No two configurations have the same label, whatever the dimensions      *)
(* repeat and however names come out as one (matrix.py 40-44).             *)
LabelsUnique ==
  \A i, j \in DOMAIN configs : configs[i].label = configs[j].label => i = j

(* Every combination of the dimensions is a configuration, as often as it  *)
(* is written: no equal label makes one disappear (matrix.py 37-54).       *)
EveryCombinationRuns ==
  stage = "run" =>
    /\ Len(configs) = Len(matrix.provers) * Len(matrix.providers) * Len(matrix.seeds)
                        * Len(matrix.oracle_configs)
    /\ \A p \in ToSet(matrix.provers), v \in ToSet(matrix.providers),
          s \in ToSet(matrix.seeds), o \in ToSet(matrix.oracle_configs) :
         \E i \in DOMAIN configs :
           /\ configs[i].prover = p /\ configs[i].provider = v
           /\ configs[i].seed = s /\ configs[i].oracle = o

DistinctIds == \A i, j \in DOMAIN suite : suite[i] = suite[j] => i = j

(* Each cell of report.md is about the run of its own task under its own   *)
(* configuration (report.py 191-214).                                      *)
CellsAreOwn ==
  stage = "done" /\ DistinctIds =>
    \A i \in DOMAIN suite, j \in DOMAIN run_results : Cell(i, j).run = <<j, i>>

(* A flag that is given holds for every configuration, and one that is not *)
(* leaves the experiment's value: no flag takes another value along        *)
(* (cli_impl.py 45-104). A model is its provider's, so that --provider     *)
(* replaces both. A --model without one, and --suite, are looked at by     *)
(* nothing, though the help (cli.py 312) has flags override, and are left  *)
(* out here.                                                               *)
FlagsMeanThemselves ==
  args.config_file =>
    \A i \in DOMAIN configs :
      LET c == configs[i] IN
      /\ c.prover \in IF args.prover # None THEN {args.prover} ELSE ToSet(experiment.provers)
      /\ c.seed \in IF args.seed # <<>> THEN ToSet(args.seed) ELSE ToSet(experiment.seeds)
      /\ IF args.provider # <<>>
         THEN /\ c.provider.name \in ToSet(args.provider)
              /\ args.model # None => c.provider.model = args.model
         ELSE \E p \in ToSet(experiment.providers) :
                c.provider.name = p.name /\ (args.model = None => c.provider = p)
      /\ \E oc \in IF experiment.oracle_configs = <<>> THEN {DefaultOracle}
                   ELSE ToSet(experiment.oracle_configs) :
           /\ c.oracle.max_repair_attempts
                = Given(args.max_repair_attempts, oc.max_repair_attempts)
           /\ c.oracle.max_tokens = Given(args.max_tokens, oc.max_tokens)
           /\ c.oracle.temperature = Given(args.temperature, oc.temperature)

(* A comparison lists a task exactly when its outcomes differ in the two   *)
(* runs (compare.py 32-47).                                                *)
ComparisonTells ==
  stage = "done" /\ DistinctIds =>
    \A a, b \in DOMAIN run_results :
      Changed(run_results[a], run_results[b]) =
        {suite[i] : i \in {n \in DOMAIN suite :
           run_results[a].task_results[n].kinds # run_results[b].task_results[n].kinds}}
=============================================================================
