---------------------------- MODULE CheckCommand ----------------------------
(***************************************************************************)
(* kalinov check (cli._parse_files, cli_core.run_check_programmatic): file *)
(* after file, first the ForTheL claims through Naproche and the prover,   *)
(* then the obligations the prover extracts, without those the bridge has  *)
(* already answered.                                                       *)
(*                                                                         *)
(* A file's content is chosen when it is read, from Documents. A verdict   *)
(* of Lean is either; one of the null prover follows its mode.             *)
(***************************************************************************)
EXTENDS FrontEnd, Optional, Integers, FiniteSets

CONSTANTS
  Documents,           (* what a file may hold *)
  FileCount,           (* how many files the command is given *)
  FailAfter            (* --fail-after of the null prover *)

ASSUME CheckAssumption ==
  /\ Documents \subseteq DocumentType
  /\ FileCount \in Nat \ {0} /\ FailAfter \in Int
  /\ None \notin BOOLEAN /\ None \notin {"translated", "empty"}

VARIABLES
  pc,                  (* "start", "read", "interpret", "bridge", "check",
                          "done", or "raised": an exception escaped *)
  options,             (* [prover, mode, bridge] *)
  naproche,            (* the binary is on PATH *)
  which,               (* ForTheLInterpreter._which_cache, one per command *)
  docs,                (* per file gone through: whether it was readable, its
                          scenarios, and what the chain made of their steps *)
  walk,                (* ForTheL claims of this file still to translate *)
  skip,                (* skip_obligation_names *)
  rest,                (* extracted obligations still to check *)
  calls,               (* NullProver._call_count *)
  rows,                (* CheckProgrammaticResult.results *)
  totals,              (* total_ok, total_fail, total_obligations *)
  parse_failed,
  translations,        (* forthel_translations.jsonl *)
  exit                 (* the exit code *)

vars == <<pc, options, naproche, which, docs, walk, skip, rest, calls, rows, totals,
          parse_failed, translations, exit>>

file == <<walk, skip, rest>>
result == <<rows, totals, calls>>

Options ==
  [prover : {"null"}, mode : {"always_ok", "always_fail", "fail_after_n"}, bridge : {FALSE}]
    \union [prover : {"lean4"}, mode : {None}, bridge : BOOLEAN]

Init ==
  /\ pc = "start"
  /\ options \in Options
  /\ naproche \in BOOLEAN
  /\ which = None
  /\ docs = <<>>
  /\ walk = <<>> /\ skip = {} /\ rest = <<>>
  /\ calls = 0
  /\ rows = <<>>
  /\ totals = [ok |-> 0, fail |-> 0, obligations |-> 0]
  /\ parse_failed = FALSE
  /\ translations = <<>>
  /\ exit = None

Unreadable == [readable |-> FALSE, scenarios |-> <<>>, read |-> <<>>]

current == Len(docs)                 (* the file under way *)
scenarios == docs[current].scenarios
read == docs[current].read
NameOf(at) == ObligationName(scenarios, at)

-----------------------------------------------------------------------------
Exit(code) ==
  /\ exit' = code
  /\ UNCHANGED <<options, naproche, which, docs, file, result, parse_failed, translations>>

(* A path that is no file, or no Lean toolchain: nothing is run. *)
FileNotFound ==
  /\ pc = "start"
  /\ pc' = "done" /\ Exit(2)

NoToolchain ==
  /\ pc = "start" /\ options.prover = "lean4"
  /\ pc' = "done" /\ Exit(3)

Start ==
  /\ pc = "start"
  /\ pc' = "read"
  /\ UNCHANGED <<options, naproche, which, docs, file, result, parse_failed, translations, exit>>

(* Mutant: the file is passed over. *)
ReadFailsQuietly ==
  /\ pc = "read" /\ current < FileCount
  /\ docs' = Append(docs, Unreadable)
  /\ UNCHANGED <<pc, options, naproche, which, file, result, parse_failed, translations, exit>>

(* Gherkin syntax, undecodable bytes, or a file gone since it was found.   *)
ReadFails ==
  /\ pc = "read" /\ current < FileCount
  /\ docs' = Append(docs, Unreadable)
  /\ parse_failed' = TRUE
  /\ UNCHANGED <<pc, options, naproche, which, file, result, translations, exit>>

Read(doc) ==
  /\ pc = "read" /\ current < FileCount
  /\ ~ConversionRaises(doc)
  /\ docs' = Append(docs, [readable |-> TRUE, scenarios |-> ScenariosOf(doc), read |-> <<>>])
  /\ pc' = "interpret"
  /\ UNCHANGED <<options, naproche, which, file, result, parse_failed, translations, exit>>

(* The exception is none of those caught: the command ends in a traceback. *)
ReadRaises(doc) ==
  /\ pc = "read" /\ current < FileCount
  /\ ConversionRaises(doc)
  /\ pc' = "raised" /\ Exit(1)

(* The chain over all steps. Each ForTheL step runs Naproche if the binary *)
(* was found the first time it was looked for; ran is where it came back   *)
(* within its time.                                                        *)
InterpretFile(ran) ==
  LET forthel == {at \in Range(Walk(scenarios)) :
                    StepAt(scenarios, at).forthel /\ ~StepAt(scenarios, at).math}
      found == IF which = None /\ forthel # {} THEN naproche ELSE which
      answer == [at \in Range(Walk(scenarios)) |->
                   Interpret(StepAt(scenarios, at), at \in ran)]
  IN
  /\ pc = "interpret"
  /\ ran \subseteq forthel
  /\ ran # {} => found = TRUE /\ naproche
  /\ which' = found
  /\ docs' = [docs EXCEPT ![current].read = answer]
  /\ walk' = Among(Walk(scenarios), {at \in Range(Walk(scenarios)) :
               options.bridge /\ answer[at] = [by |-> "forthel", kind |-> "claim"]})
  /\ skip' = {}
  /\ pc' = "bridge"
  /\ UNCHANGED <<options, naproche, rest, result, parse_failed, translations, exit>>

(* Naproche's output is no text: neither the interpreter nor the bridge    *)
(* catches that.                                                           *)
InterpretRaises ==
  /\ pc = "interpret" /\ naproche /\ which # FALSE
  /\ \E at \in Range(Walk(scenarios)) :
       StepAt(scenarios, at).forthel /\ ~StepAt(scenarios, at).math
  /\ pc' = "raised" /\ Exit(1)

TranslateRaises ==
  /\ pc = "bridge" /\ walk # <<>> /\ naproche
  /\ pc' = "raised" /\ Exit(1)

-----------------------------------------------------------------------------
(* What the bridge does with the next ForTheL claim. *)

Skipping(at) == IF LeanTagged(scenarios, at) THEN skip \union {NameOf(at)} ELSE skip

Row(at, ok, body) == [file |-> current, at |-> at, ok |-> ok, body |-> body]

(* emit_ok and emit_fail. *)
Emit(at, ok, body) ==
  /\ rows' = Append(rows, Row(at, ok, body))
  /\ totals' = [totals EXCEPT !.ok = @ + IF ok THEN 1 ELSE 0,
                              !.fail = @ + IF ok THEN 0 ELSE 1,
                              !.obligations = @ + 1]

Translated(outcome) ==
  translations' = Append(translations, [file |-> current, at |-> Head(walk), outcome |-> outcome])

(* translate_step no longer finds the binary. *)
TranslateSkipped ==
  /\ pc = "bridge" /\ walk # <<>> /\ ~naproche
  /\ Translated("skipped")
  /\ walk' = Tail(walk)
  /\ UNCHANGED <<pc, options, naproche, which, docs, skip, rest, result, parse_failed, exit>>

(* Mutant: a claim that could not be translated goes on to the prover. *)
TranslateFailsForgotten ==
  /\ pc = "bridge" /\ walk # <<>> /\ naproche
  /\ Translated("failed")
  /\ rows' = Append(rows, Row(Head(walk), FALSE, None))
  /\ totals' = [totals EXCEPT !.fail = @ + 1]
  /\ walk' = Tail(walk)
  /\ UNCHANGED <<pc, options, naproche, which, docs, skip, rest, calls, parse_failed, exit>>

(* Naproche fails, says nothing, takes too long or cannot be run. *)
TranslateFails ==
  /\ pc = "bridge" /\ walk # <<>> /\ naproche
  /\ Translated("failed")
  /\ rows' = Append(rows, Row(Head(walk), FALSE, None))
  /\ totals' = [totals EXCEPT !.fail = @ + 1]
  /\ skip' = Skipping(Head(walk))
  /\ walk' = Tail(walk)
  /\ UNCHANGED <<pc, options, naproche, which, docs, rest, calls, parse_failed, exit>>

(* Lean text on stdout, which the prover then judges. *)
TranslateOk(ok) ==
  /\ pc = "bridge" /\ walk # <<>> /\ naproche
  /\ Translated("ok")
  /\ Emit(Head(walk), ok, "translated")
  /\ skip' = Skipping(Head(walk))
  /\ walk' = Tail(walk)
  /\ UNCHANGED <<pc, options, naproche, which, docs, rest, calls, parse_failed, exit>>

ExtractObligations ==
  /\ pc = "bridge" /\ walk = <<>>
  /\ rest' = Extract(options.prover, scenarios, read)
  /\ pc' = "check"
  /\ UNCHANGED <<options, naproche, which, docs, walk, skip, result, parse_failed, translations,
                 exit>>

-----------------------------------------------------------------------------
(* NullProver._eval_ok *)
NullOk ==
  CASE options.mode = "always_ok" -> TRUE
    [] options.mode = "always_fail" -> FALSE
    [] options.mode = "fail_after_n" -> calls < FailAfter

CheckSkipped ==
  /\ pc = "check" /\ rest # <<>>
  /\ NameOf(Head(rest)) \in skip
  /\ rest' = Tail(rest)
  /\ UNCHANGED <<pc, options, naproche, which, docs, walk, skip, result, parse_failed,
                 translations, exit>>

(* The obligation is checked with an empty body. *)
CheckObligation(ok) ==
  /\ pc = "check" /\ rest # <<>>
  /\ NameOf(Head(rest)) \notin skip
  /\ options.prover = "null" => ok = NullOk
  /\ Emit(Head(rest), ok, "empty")
  /\ calls' = calls + IF options.prover = "null" THEN 1 ELSE 0
  /\ rest' = Tail(rest)
  /\ UNCHANGED <<pc, options, naproche, which, docs, walk, skip, parse_failed, translations, exit>>

(* LeanProver.check cannot write its file or start lake: for an obligation *)
(* or for the text Naproche made of a claim.                               *)
CheckRaises ==
  /\ pc = "check" /\ rest # <<>>
  /\ NameOf(Head(rest)) \notin skip
  /\ options.prover = "lean4"
  /\ pc' = "raised" /\ Exit(1)

TranslatedCheckRaises ==
  /\ pc = "bridge" /\ walk # <<>> /\ naproche
  /\ Translated("ok")
  /\ pc' = "raised" /\ exit' = 1
  /\ UNCHANGED <<options, naproche, which, docs, file, result, parse_failed>>

NextFile ==
  /\ pc = "check" /\ rest = <<>>
  /\ pc' = "read"
  /\ UNCHANGED <<options, naproche, which, docs, file, result, parse_failed, translations, exit>>

(* Mutant: failures are looked at first. *)
ExitCodeFailFirst == IF totals.fail > 0 THEN 1 ELSE IF parse_failed THEN 2 ELSE 0

(* check_exit_code *)
ExitCode == IF parse_failed THEN 2 ELSE IF totals.fail > 0 THEN 1 ELSE 0

Finish ==
  /\ pc = "read" /\ current = FileCount
  /\ pc' = "done" /\ Exit(ExitCode)

(* The binary is uninstalled while the command runs. *)
NaprocheRemoved ==
  /\ naproche /\ exit = None
  /\ naproche' = FALSE
  /\ UNCHANGED <<pc, options, which, docs, file, result, parse_failed, translations, exit>>

Next ==
  \/ FileNotFound \/ NoToolchain \/ Start
  \/ ReadFails
  \/ \E doc \in Documents : Read(doc) \/ ReadRaises(doc)
  \/ pc = "interpret" /\ \E ran \in SUBSET Range(Walk(scenarios)) : InterpretFile(ran)
  \/ InterpretRaises \/ TranslateRaises
  \/ TranslateSkipped \/ TranslateFails
  \/ \E ok \in BOOLEAN : TranslateOk(ok) \/ CheckObligation(ok)
  \/ ExtractObligations \/ CheckSkipped
  \/ CheckRaises \/ TranslatedCheckRaises
  \/ NextFile \/ Finish
  \/ NaprocheRemoved

Spec == Init /\ [][Next]_vars

-----------------------------------------------------------------------------
TypeOK ==
  /\ pc \in {"start", "read", "interpret", "bridge", "check", "done", "raised"}
  /\ options \in Options
  /\ naproche \in BOOLEAN
  /\ which \in {None} \union BOOLEAN
  /\ current <= FileCount
  /\ \A i \in DOMAIN docs : ~docs[i].readable => parse_failed
  /\ Range(walk) \union Range(rest) \subseteq
       UNION {Range(Walk(docs[i].scenarios)) : i \in DOMAIN docs}
  /\ calls <= Len(rows)
  /\ totals.ok + totals.fail <= Len(rows)
  /\ parse_failed \in BOOLEAN
  /\ exit \in {None, 0, 1, 2, 3}
  /\ (exit = None) <=> pc \notin {"done", "raised"}

(* Every file was gone through: the command got past its own start. *)
Completed == pc = "done" /\ exit # 3 /\ current = FileCount

Readable == {i \in DOMAIN docs : docs[i].readable}

RowsOf(i, at) == {k \in DOMAIN rows : rows[k].file = i /\ rows[k].at = at}

Outcomes(i, at) ==
  {translations[k].outcome : k \in {j \in DOMAIN translations :
     translations[j].file = i /\ translations[j].at = at}}

(* The claims a file holds for this prover: what it extracts, and what the *)
(* bridge could translate.                                                 *)
Owed(i, at) ==
  \/ at \in Range(Extract(options.prover, docs[i].scenarios, docs[i].read))
  \/ Outcomes(i, at) \intersect {"ok", "failed"} # {}

DistinctNames(s) == \A a, b \in Range(Walk(s)) :
  ObligationName(s, a) = ObligationName(s, b) => a = b

(* CHANGELOG: ForTheL claims are deduped with extract_obligations. Where   *)
(* the scenarios of a file have names of their own, each claim gets one    *)
(* verdict, whichever of the two paths it takes, whatever the other files  *)
(* of the command hold; nothing else gets one; and a claim that Naproche   *)
(* translated or rejected is not judged on an empty body.                  *)
EachClaimOnce ==
  Completed => \A i \in Readable : DistinctNames(docs[i].scenarios) =>
    \A at \in Range(Walk(docs[i].scenarios)) :
      /\ Cardinality(RowsOf(i, at)) = IF Owed(i, at) THEN 1 ELSE 0
      /\ "ok" \in Outcomes(i, at) => \A k \in RowsOf(i, at) : rows[k].body = "translated"
      /\ "failed" \in Outcomes(i, at) => \A k \in RowsOf(i, at) : ~rows[k].ok

(* The exit code tells the whole command: 0 says that every file was read  *)
(* and every verdict was good, 1 that all were read and one was not, 2     *)
(* that one could not be read. A translation that failed is a verdict that *)
(* was not good; one that was skipped is none. The summary line counts     *)
(* what the rows say, except that a claim whose translation failed is a    *)
(* failure but no obligation.                                              *)
ExitCodeTellsAll ==
  /\ Completed =>
       /\ (exit = 2) <=> (Readable # 1..FileCount)
       /\ (exit = 0) <=> (Readable = 1..FileCount /\ \A k \in DOMAIN rows : rows[k].ok)
  /\ totals.ok + totals.fail = Len(rows)
  /\ totals.obligations + Cardinality({k \in DOMAIN rows : rows[k].body = None}) = Len(rows)
  /\ totals.ok = Cardinality({k \in DOMAIN rows : rows[k].ok})

-----------------------------------------------------------------------------
(* README: obligations are the claims of scenarios tagged @lean. But the   *)
(* skip list holds names, which scenarios of one file may share: a claim   *)
(* the bridge answered hides another one of that name.                     *)
LeanClaimsChecked ==
  Completed /\ options.prover = "lean4" =>
    \A i \in Readable : \A at \in Range(Walk(docs[i].scenarios)) :
      LeanTagged(docs[i].scenarios, at) /\ docs[i].read[at].kind = "claim"
        => RowsOf(i, at) # {}
=============================================================================
