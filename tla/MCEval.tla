------------------------------- MODULE MCEval -------------------------------
(* Small instances of the two halves of Eval, for one run of TLC. *)
EXTENDS Eval, MCEvalRunner

(* Two models whose names come out as one in a label. *)
MCSafeName(m) == IF m = "org/m" THEN "org_m" ELSE m

Oracle(r, k, t) == [max_repair_attempts |-> r, max_tokens |-> k, temperature |-> t]

MCDefaultOracle == Oracle(3, 2048, 0)

(* Every mix of flags over an experiment file, and command lines without   *)
(* one that repeat providers.                                              *)
MCCommandLines ==
  [config_file : {TRUE}, suite : {<<"t3">>}, out : {FALSE}, prover : {None, "lean4"},
   provider : {<<>>, <<"b">>}, model : {None, "org_m"}, seed : {<<>>, <<7, 7>>},
   max_repair_attempts : {None, 1}, max_tokens : {None, 512}, temperature : {None}]
  \union
  [config_file : {FALSE}, suite : {<<>>, <<"t1", "t2">>}, out : BOOLEAN, prover : {None, "null"},
   provider : {<<>>, <<"a", "b", "a">>}, model : {None, "org/m"}, seed : {<<>>, <<1>>},
   max_repair_attempts : {None}, max_tokens : {None}, temperature : {None, 1}]

OneModel == <<[name |-> "a", model |-> None]>>
TwoModels == <<[name |-> "a", model |-> "org/m"], [name |-> "a", model |-> "org_m"]>>

ExperimentFile(tasks, providers, seeds, oracles) ==
  [suite |-> tasks, out |-> TRUE, provers |-> <<"null">>, providers |-> providers,
   seeds |-> seeds, oracle_configs |-> oracles]

(* Oracle configurations that differ only in what a label leaves out, one  *)
(* of them the default spelled out, two models of one label, and files     *)
(* that are refused.                                                       *)
MCExperiments ==
  {ExperimentFile(<<"t1", "t2">>, OneModel, <<1>>, <<Oracle(3, 100, 0), Oracle(3, 2048, 0)>>),
   ExperimentFile(<<"t1", "t2">>, TwoModels, <<1>>, <<>>),
   ExperimentFile(<<"t1">>, OneModel, <<>>, <<>>),
   ExperimentFile(<<>>, OneModel, <<1>>, <<>>)}

MCSignatures == {<<"solved", "gave_up">>, <<"gave_up", "solved">>}

(* The half that keeps still starts in one of its states only. *)
MCInit ==
  /\ HalvesInit
  /\ half = "plan" => asked = CHOOSE r \in Requests : TRUE
  /\ half = "runner" =>
       args = (CHOOSE a \in CommandLines : ~a.config_file) /\ experiment = None

MCSpec == MCInit /\ [][HalvesNext]_<<half, vars, plan>>
=============================================================================
