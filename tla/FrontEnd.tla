------------------------------ MODULE FrontEnd ------------------------------
(***************************************************************************)
(* From a Gherkin document to proof obligations: what gherkin/parser.py,   *)
(* the interpreter chain and Prover.extract_obligations compute, as        *)
(* operators. A document is what gherkin-official returns:                 *)
(*   doc      [tags, children]                                             *)
(*   child    [kind, tags, scenarios], kind "background", "scenario" (one  *)
(*            scenario, tags of its own) or "rule"                         *)
(*   scenario [name, tags, steps, bare], bare: an Examples block without a *)
(*            table                                                        *)
(*   step     [keyword, math, forthel]: has a math fragment, has ForTheL   *)
(* Tags are sets of lower-case names: order and repetition tell nothing.   *)
(***************************************************************************)
EXTENDS Naturals, Sequences, SequencesExt

StepType == [keyword : STRING, math : BOOLEAN, forthel : BOOLEAN]

ScenarioType == [name : STRING, tags : SUBSET STRING, steps : Seq(StepType), bare : BOOLEAN]

ChildType == [kind : {"background", "scenario", "rule"}, tags : SUBSET STRING,
          scenarios : Seq(ScenarioType)]

DocumentType == [tags : SUBSET STRING, children : Seq(ChildType)]

(* _flatten_rule_scenarios: the rule's tags go to each of its scenarios.   *)
FlattenRule(rule) ==
  [i \in DOMAIN rule.scenarios |-> [rule.scenarios[i] EXCEPT !.tags = @ \union rule.tags]]

(* _convert_feature: the scenarios of all children, in order. The tags of  *)
(* the feature stay with the feature.                                      *)
ScenariosOf(doc) ==
  FlattenSeq([i \in DOMAIN doc.children |->
    CASE doc.children[i].kind = "background" -> <<>>
      [] doc.children[i].kind = "scenario" -> doc.children[i].scenarios
      [] doc.children[i].kind = "rule" -> FlattenRule(doc.children[i])])

(* _convert_examples indexes the header that a bare Examples block lacks.  *)
ConversionRaises(doc) ==
  \E i \in DOMAIN doc.children :
    \E j \in DOMAIN doc.children[i].scenarios : doc.children[i].scenarios[j].bare

(* _math_kind_for_keyword *)
MathKind(keyword) ==
  CASE keyword = "given" -> "context"
    [] keyword = "when" -> "action"
    [] OTHER -> "claim"

(* Each interpreter returns its reading of a step, or nothing; naproche    *)
(* says whether ForTheL's own run of the binary came back.                 *)
MathTexReading(step) ==
  IF step.math THEN <<[by |-> "mathtex", kind |-> MathKind(step.keyword)]>> ELSE <<>>

ForTheLReading(step, naproche) ==
  IF step.forthel
  THEN <<[by |-> "forthel", kind |-> IF naproche THEN "claim" ELSE "skipped"]>>
  ELSE <<>>

RawReading == <<[by |-> "raw", kind |-> "raw"]>>

(* InterpreterChain.interpret: the first reading counts. *)
Interpret(step, naproche) ==
  Head(MathTexReading(step) \o ForTheLReading(step, naproche) \o RawReading)

(* The walk that pairs interpreted steps with the steps they came from.    *)
Walk(scenarios) ==
  FlattenSeq([i \in DOMAIN scenarios |->
    [j \in DOMAIN scenarios[i].steps |-> <<i, j>>]])

StepAt(scenarios, at) == scenarios[at[1]].steps[at[2]]

(* "<scenario>#<step>" *)
ObligationName(scenarios, at) == <<scenarios[at[1]].name, at[2]>>

LeanTagged(scenarios, at) == "lean" \in scenarios[at[1]].tags

(* The members of places, in the order of a walk. *)
Among(walk, places) ==
  FlattenSeq([n \in DOMAIN walk |-> IF walk[n] \in places THEN <<walk[n]>> ELSE <<>>])

(* extract_obligations of the two provers; read is the interpretation of   *)
(* each step. Their errors for walks of different lengths cannot happen:   *)
(* the caller built the steps with the same walk.                          *)
Claims(scenarios, read) == {at \in Range(Walk(scenarios)) : read[at].kind = "claim"}

NullExtract(scenarios, read) == Among(Walk(scenarios), Claims(scenarios, read))

LeanExtract(scenarios, read) ==
  Among(Walk(scenarios), {at \in Claims(scenarios, read) : LeanTagged(scenarios, at)})

Extract(prover, scenarios, read) ==
  IF prover = "lean4" THEN LeanExtract(scenarios, read) ELSE NullExtract(scenarios, read)
=============================================================================
