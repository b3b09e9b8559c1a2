-------------------------- MODULE TranscriptsProofs -------------------------
(***************************************************************************)
(* Theorems about OracleLoop and Transcripts: for every number of repairs, *)
(* every budget and price, and every naming of the obligations, the four   *)
(* records of an obligation (its outcome, its lines, its prompts and its   *)
(* transcript) tell one story and the money in them is the guard's; and    *)
(* the loop keeps ObligationContract.                                      *)
(*                                                                         *)
(* The invariant says how the records grow together: one line and one      *)
(* attempt for every iteration that is over, two messages for every        *)
(* iteration whose answer has come.                                        *)
(***************************************************************************)
EXTENDS Transcripts, CommonProofs

IdOrNone == Ids \cup {None}
Iters == 0 .. MaxRepair

LastType == [llm : IdOrNone, compile : IdOrNone, check : IdOrNone]

LoopType ==
  [pc : {"ready", "propose", "compile", "check", "aborted"},
   iter : Iters, artifact : Iters \cup {None},
   diag : (Iters \X {"compile", "check"}) \cup {None},
   llm : IdOrNone, compile : IdOrNone, cost : Nat \cup {None}, total : Nat,
   kind : Kinds \cup {"none"}, final : Iters \cup {None}]

LineType ==
  [iter : Iters, outcome : {"ok", "compile_fail", "check_fail", "error"},
   llm : IdOrNone, prover : IdOrNone, cost : Nat \cup {None}]

AttemptType == [artifact : Iters \cup {None}, check_result : {"ok", "fail", None}]

Typed ==
  /\ run \in 1 .. MaxRuns /\ count \in 0 .. MaxObligations
  /\ last \in LastType /\ budget \in Budgets /\ guard \in GuardType
  /\ loop \in LoopType
  /\ lines \in Seq(LineType) /\ attempts \in Seq(AttemptType)
  /\ reported \in Nat

(* The call of this iteration that is not in a line yet. *)
Pending == IF loop.pc \in {"compile", "check"} THEN Usd(loop.cost) ELSE 0

(* The sum of the costs of lines is x, said without computing it: the      *)
(* recursion of SumOfCosts has a solution, and every solution ends in x.   *)
IsSum(f, ls) ==
  f = [n \in 0 .. Len(ls) |-> IF n = 0 THEN 0 ELSE f[n - 1] + Usd(ls[n].cost)]

SumIs(ls, x) == (\E f : IsSum(f, ls)) /\ (\A f : IsSum(f, ls) => f[Len(ls)] = x)

(* The money: in the lines, but for the call under way; and in the reports *)
(* of the command, but for the obligation under way.                       *)
MoneyInv ==
  /\ Pending <= loop.total
  /\ SumIs(lines, loop.total - Pending)
  /\ reported + (IF At("ready") THEN 0 ELSE loop.total) = guard.spent
  /\ At("ready") => loop.total <= reported

(* The lines and attempts are those of the iterations 0, 1, 2, ..., and a  *)
(* verdict's line has its own iteration's ids.                             *)
TraceInv ==
  /\ \A i \in 1 .. Len(lines) :
       /\ lines[i].iter = i - 1
       /\ lines[i].outcome # "error" =>
            lines[i].llm = <<run, count, i - 1>> /\ lines[i].prover = <<run, count, i - 1>>
  /\ \A i \in 1 .. Len(attempts) : attempts[i].artifact = i - 1

(* While the obligation is being worked on, every iteration before this    *)
(* one has failed, and left a line, an attempt and its diagnostics.        *)
WorkingInv ==
  Working =>
    /\ count >= 1
    /\ Len(lines) = loop.iter /\ Len(attempts) = loop.iter
    /\ \A i \in 1 .. Len(lines) : lines[i].outcome \in {"compile_fail", "check_fail"}
    /\ \A i \in 1 .. Len(attempts) : attempts[i].check_result # "ok"
    /\ At("propose") => loop.artifact = IF loop.iter = 0 THEN None ELSE loop.iter - 1
    /\ RepairsFollowLatest
    /\ ~At("propose") => loop.artifact = loop.iter /\ loop.llm = Id

(* When it has ended, a call that was refused or failed has left a line,   *)
(* and no attempt.                                                         *)
EndedInv ==
  Ended =>
    /\ OutcomeMatchesTrace /\ FinalArtifactIsLatest
    /\ Len(lines) = Len(attempts)
                      + IF loop.kind \in {"budget_exceeded", "llm_error"} THEN 1 ELSE 0

LoopInv == Typed /\ MoneyInv /\ TraceInv /\ WorkingInv /\ EndedInv

-----------------------------------------------------------------------------
(* By turns a prompt and an answer, of iteration 0, 1, 2, ... *)
Turns(messages) ==
  \A i \in Iters :
    /\ 2 * i + 1 <= Len(messages) => messages[2 * i + 1] = Prompt(i)
    /\ 2 * i + 2 <= Len(messages) => messages[2 * i + 2] = Answer(i)

Conversations == {m \in Seq(Messages) : Len(m) <= 2 * (MaxRepair + 1)}

BufferInv ==
  /\ transcript_buf \in Conversations /\ Turns(transcript_buf)
  /\ Working \/ Ended =>
       Len(transcript_buf) = Len(lines) + Len(attempts)
                               + IF loop.pc \in {"compile", "check"} THEN 2 ELSE 0

(* The file is being opened or written only when the obligation has ended, *)
(* and after that it holds the conversation.                               *)
FilesInv ==
  /\ saving \in {"no", "opening", "writing"}
  /\ files \in [DOMAIN files -> Conversations \cup {Torn}]
  /\ saving # "no" => Ended
  /\ saving = "writing" => File \in DOMAIN files
  /\ Ended /\ saving = "no" => File \in DOMAIN files /\ files[File] = transcript_buf

IInv == LoopInv /\ BufferInv /\ FilesInv

-----------------------------------------------------------------------------
(* Sequences that grow at their end. *)
LEMMA Appended ==
  ASSUME NEW T, NEW s \in Seq(T), NEW e \in T
  PROVE  /\ Append(s, e) \in Seq(T)
         /\ Len(s) \in Nat /\ Len(Append(s, e)) = Len(s) + 1
         /\ \A i \in 1 .. Len(s) : Append(s, e)[i] = s[i]
         /\ Append(s, e)[Len(s) + 1] = e
OBVIOUS

(* SumIs says what SumOfCosts is. *)
LEMMA SumIsSum ==
  ASSUME NEW ls, NEW x, SumIs(ls, x)
  PROVE  SumOfCosts(ls) = x
<1>1. SumOfCosts(ls) = (CHOOSE f : IsSum(f, ls))[Len(ls)]
  BY DEF SumOfCosts, IsSum
<1>2. IsSum(CHOOSE f : IsSum(f, ls), ls)
  BY Zenon DEF SumIs
<1> QED
  BY <1>1, <1>2 DEF SumIs

LEMMA SumOfNone == SumIs(<<>>, 0)
<1> DEFINE zero == [n \in 0 .. 0 |-> 0]
<1>1. Len(<<>>) = 0 /\ \A n \in 0 .. 0 : n = 0
  OBVIOUS
<1>2. IsSum(zero, <<>>)
  BY <1>1 DEF IsSum
<1>3. \A f : IsSum(f, <<>>) => f[0] = 0
  BY <1>1 DEF IsSum
<1> HIDE DEF zero
<1> QED
  BY <1>1, <1>2, <1>3 DEF SumIs

(* One more line adds its cost. *)
LEMMA SumGrows ==
  ASSUME NEW ls \in Seq(LineType), NEW l \in LineType, NEW x \in Nat, SumIs(ls, x)
  PROVE  SumIs(Append(ls, l), x + Usd(l.cost))
<1> DEFINE m == Append(ls, l)
<1>1. /\ Len(m) = Len(ls) + 1 /\ Len(ls) \in Nat
      /\ \A i \in 1 .. Len(ls) : m[i] = ls[i]
      /\ m[Len(ls) + 1] = l
  BY Appended
<1> HIDE DEF m
<1>2. \E f : IsSum(f, m)
  <2>1. PICK f : IsSum(f, ls)
    BY DEF SumIs
  <2>2. f[Len(ls)] = x
    BY <2>1 DEF SumIs
  <2>3. \A n \in 0 .. Len(ls) : f[n] = IF n = 0 THEN 0 ELSE f[n - 1] + Usd(ls[n].cost)
    BY <1>1, <2>1, Zenon DEF IsSum
  <2> DEFINE g == [n \in 0 .. Len(m) |-> IF n = Len(m) THEN x + Usd(l.cost) ELSE f[n]]
  <2>4. ASSUME NEW n \in 0 .. Len(m)
        PROVE  g[n] = IF n = 0 THEN 0 ELSE g[n - 1] + Usd(m[n].cost)
    <3>1. CASE n = Len(m)
      <4>1. n # 0 /\ n - 1 = Len(ls) /\ n - 1 \in 0 .. Len(m) /\ n - 1 # Len(m) /\ m[n] = l
        BY <1>1, <3>1
      <4> QED
        BY <2>2, <3>1, <4>1
    <3>2. CASE n # Len(m)
      <4>1. /\ n \in 0 .. Len(ls)
            /\ n # 0 => n - 1 \in 0 .. Len(m) /\ n - 1 # Len(m) /\ m[n] = ls[n]
        BY <1>1, <3>2
      <4> QED
        BY <2>3, <3>2, <4>1
    <3> QED
      BY <3>1, <3>2
  <2>5. g = [n \in 0 .. Len(m) |-> g[n]]
    OBVIOUS
  <2> HIDE DEF g
  <2> QED
    BY <2>4, <2>5 DEF IsSum
<1>3. ASSUME NEW g, IsSum(g, m)
      PROVE  g[Len(m)] = x + Usd(l.cost)
  <2> DEFINE f == [n \in 0 .. Len(ls) |-> g[n]]
  <2>1. \A n \in 0 .. Len(m) : g[n] = IF n = 0 THEN 0 ELSE g[n - 1] + Usd(m[n].cost)
    BY <1>3, Zenon DEF IsSum
  <2>2. \A n \in 0 .. Len(ls) : f[n] = IF n = 0 THEN 0 ELSE f[n - 1] + Usd(ls[n].cost)
    BY <1>1, <2>1
  <2>3. f = [n \in 0 .. Len(ls) |-> f[n]] /\ f[Len(ls)] = g[Len(ls)]
    BY <1>1
  <2> HIDE DEF f
  <2>4. f[Len(ls)] = x
    BY <2>2, <2>3 DEF IsSum, SumIs
  <2>5. Len(m) \in 0 .. Len(m) /\ Len(m) # 0 /\ Len(m) - 1 = Len(ls) /\ m[Len(m)] = l
    BY <1>1
  <2> QED
    BY <2>1, <2>3, <2>4, <2>5
<1> QED
  BY <1>1, <1>2, <1>3 DEF SumIs, m

-----------------------------------------------------------------------------
(* The fields of the loop and of what it writes. *)
LEMMA LoopFields ==
  ASSUME Typed
  PROVE  /\ loop.pc \in {"ready", "propose", "compile", "check", "aborted"}
         /\ loop.iter \in Iters /\ loop.iter \in Nat /\ loop.iter <= MaxRepair
         /\ loop.artifact \in Iters \cup {None} /\ loop.total \in Nat
         /\ loop.cost \in Nat \cup {None} /\ loop.llm \in IdOrNone
         /\ loop.compile \in IdOrNone /\ loop.kind \in Kinds \cup {"none"}
         /\ last.llm \in IdOrNone /\ last.compile \in IdOrNone /\ last.check \in IdOrNone
         /\ guard.spent \in Nat /\ reported \in Nat /\ Usd(loop.cost) \in Nat
         /\ Pending \in Nat /\ MaxRepair \in Nat /\ budget \in BudgetType
<1>1. /\ loop.pc \in {"ready", "propose", "compile", "check", "aborted"}
      /\ loop.iter \in Iters
      /\ loop.artifact \in Iters \cup {None} /\ loop.total \in Nat
      /\ loop.cost \in Nat \cup {None} /\ loop.llm \in IdOrNone
      /\ loop.compile \in IdOrNone /\ loop.kind \in Kinds \cup {"none"}
      /\ last.llm \in IdOrNone /\ last.compile \in IdOrNone /\ last.check \in IdOrNone
      /\ guard.spent \in Nat /\ reported \in Nat
  BY DEF Typed, LoopType, LastType, GuardType
<1>2. Usd(loop.cost) \in Nat
  BY <1>1 DEF Usd
<1>3. Pending \in Nat
  BY <1>2 DEF Pending
<1> QED
  BY <1>1, <1>2, <1>3, OracleAssumption DEF Iters, Typed

(* The id of a row written while an obligation is worked on. *)
LEMMA IdType ==
  ASSUME Typed, count >= 1
  PROVE  Id \in IdOrNone
BY OracleAssumption DEF Typed, Id, Ids, IdOrNone, Iters, LoopType

LEMMA InitLoop == Init => LoopInv
<1> SUFFICES ASSUME Init PROVE LoopInv
  OBVIOUS
<1>1. /\ loop.pc = "ready" /\ loop.kind = "none" /\ loop.total = 0 /\ lines = <<>>
      /\ attempts = <<>> /\ Len(lines) = 0 /\ Len(attempts) = 0
  BY DEF Init, NewLoop
<1>2. Typed
  <2>1. loop \in LoopType
    BY OracleAssumption DEF Init, NewLoop, LoopType, Iters, IdOrNone
  <2>2. last \in LastType /\ guard \in GuardType
    BY DEF Init, LastType, IdOrNone, NewGuard, GuardType
  <2> QED
    BY <2>1, <2>2, OracleAssumption DEF Init, Typed
<1>3. MoneyInv
  <2>1. guard.spent = 0 /\ reported = 0 /\ Pending = 0
    BY <1>1 DEF Init, NewGuard, Pending
  <2> QED
    BY <1>1, <2>1, SumOfNone DEF MoneyInv, At
<1> QED
  BY <1>1, <1>2, <1>3 DEF LoopInv, TraceInv, WorkingInv, EndedInv, Working, Ended

-----------------------------------------------------------------------------
(* Beginning an obligation, and a new run: the records start empty. *)
LEMMA BeginKeeps == LoopInv /\ Begin => LoopInv'
<1> SUFFICES ASSUME LoopInv, Begin PROVE LoopInv'
  OBVIOUS
<1>1. /\ loop'.pc = "propose" /\ loop'.iter = 0 /\ loop'.artifact = None /\ loop'.total = 0
      /\ lines' = <<>> /\ attempts' = <<>> /\ Len(lines') = 0 /\ Len(attempts') = 0
      /\ UNCHANGED <<run, last, budget, guard, reported>> /\ loop.pc = "ready"
  BY DEF Begin, NewLoop, At
<1>2. Typed'
  <2>1. loop' \in LoopType
    BY OracleAssumption DEF Begin, NewLoop, LoopType, Iters, IdOrNone
  <2>2. count' \in 0 .. MaxObligations /\ count' >= 1
    BY OracleAssumption DEF Begin, LoopInv, Typed
  <2> QED
    BY <1>1, <2>1, <2>2 DEF LoopInv, Typed
<1>3. MoneyInv'
  <2>1. reported = guard.spent /\ guard.spent \in Nat
    BY <1>1, LoopFields DEF LoopInv, MoneyInv, At
  <2>2. Pending' = 0
    BY <1>1 DEF Pending
  <2> QED
    BY <1>1, <2>1, <2>2, SumOfNone DEF MoneyInv, At
<1>4. WorkingInv'
  <2>1. count' >= 1
    BY DEF Begin, LoopInv, Typed
  <2> QED
    BY <1>1, <2>1 DEF WorkingInv, At, RepairsFollowLatest
<1> QED
  BY <1>1, <1>2, <1>3, <1>4 DEF LoopInv, TraceInv, EndedInv, Ended, At

LEMMA NewRunKeeps == LoopInv /\ (NextTask \/ NextCommand) => LoopInv'
<1> SUFFICES ASSUME LoopInv, NextTask \/ NextCommand PROVE LoopInv'
  OBVIOUS
<1>1. /\ loop' = NewLoop /\ loop'.pc = "ready" /\ loop'.kind = "none" /\ loop'.total = 0
      /\ lines' = <<>> /\ attempts' = <<>> /\ Len(lines') = 0 /\ Len(attempts') = 0
      /\ run' = run + 1 /\ run < MaxRuns /\ count' = 0 /\ last' = last
  BY DEF NextTask, NextCommand, NewRun, NewLoop
<1>2. /\ budget' \in Budgets /\ guard' \in GuardType /\ reported' = guard'.spent
      /\ reported' \in Nat
  <2>1. CASE NextTask
    BY <2>1, LoopFields DEF NextTask, At, LoopInv, MoneyInv, Typed
  <2>2. CASE NextCommand
    BY <2>2 DEF NextCommand, NewGuard, GuardType
  <2> QED
    BY <2>1, <2>2
<1>3. Typed'
  <2>1. loop' \in LoopType
    BY <1>1, OracleAssumption DEF NewLoop, LoopType, Iters, IdOrNone
  <2> QED
    BY <1>1, <1>2, <2>1, OracleAssumption DEF LoopInv, Typed
<1>4. MoneyInv'
  <2>1. Pending' = 0
    BY <1>1 DEF Pending
  <2> QED
    BY <1>1, <1>2, <2>1, SumOfNone DEF MoneyInv, At
<1> QED
  BY <1>1, <1>3, <1>4 DEF LoopInv, TraceInv, WorkingInv, EndedInv, Working, Ended, At

-----------------------------------------------------------------------------
(* complete() returned: the guard has counted what the iteration cost. *)
LEMMA ProposedKeeps ==
  ASSUME LoopInv, At("propose"), NEW cost \in Nat \cup {None}, Proposed(cost),
         guard' \in GuardType, guard'.spent = guard.spent + Usd(cost)
  PROVE  LoopInv'
<1>1. /\ loop'.pc = "compile" /\ loop'.iter = loop.iter /\ loop'.artifact = loop.iter
      /\ loop'.llm = Id /\ loop'.cost = cost /\ loop'.total = loop.total + Usd(cost)
      /\ loop'.kind = loop.kind
      /\ UNCHANGED <<run, count, budget, lines, attempts, reported>>
  BY DEF Proposed, LoopInv, Typed, LoopType
<1>2. /\ loop.pc = "propose" /\ Working /\ count >= 1 /\ Len(lines) = loop.iter
      /\ Len(attempts) = loop.iter /\ Id \in IdOrNone
  BY IdType DEF At, Working, LoopInv, WorkingInv
<1>3. Usd(cost) \in Nat /\ Pending = 0 /\ Pending' = Usd(cost)
  BY <1>1, <1>2 DEF Usd, Pending
<1>4. Typed'
  <2>1. loop' \in LoopType
    <3>1. loop \in LoopType /\ loop.iter \in Iters /\ loop.total + Usd(cost) \in Nat
      BY <1>3, LoopFields DEF LoopInv, Typed
    <3> QED
      BY <1>2, <3>1 DEF Proposed, LoopType
  <2>2. last' \in LastType
    BY <1>2 DEF Proposed, LoopInv, Typed, LastType
  <2> QED
    BY <1>1, <2>1, <2>2 DEF LoopInv, Typed
<1>5. MoneyInv'
  <2>1. loop.total \in Nat /\ reported \in Nat /\ guard.spent \in Nat
    BY LoopFields DEF LoopInv
  <2>2. SumIs(lines, loop.total) /\ reported + loop.total = guard.spent
    BY <1>2, <1>3, <2>1 DEF LoopInv, MoneyInv, At
  <2>3. loop'.total - Pending' = loop.total /\ Pending' <= loop'.total
    BY <1>1, <1>3, <2>1
  <2>4. reported' + loop'.total = guard'.spent
    BY <1>1, <1>3, <2>1, <2>2
  <2> QED
    BY <1>1, <2>2, <2>3, <2>4 DEF MoneyInv, At
<1>6. TraceInv'
  BY <1>1 DEF LoopInv, TraceInv
<1>7. WorkingInv'
  <2>1. Id' = Id
    BY <1>1 DEF Id
  <2> QED
    BY <1>1, <1>2, <2>1 DEF LoopInv, WorkingInv, At, RepairsFollowLatest
<1> QED
  BY <1>1, <1>4, <1>5, <1>6, <1>7 DEF LoopInv, EndedInv, Ended, At

(* complete() raised: an error line and no attempt. *)
LEMMA NotProposedKeeps ==
  ASSUME LoopInv, At("propose"), NEW kind \in {"budget_exceeded", "llm_error"},
         NEW ids \in LastType, NEW cost \in Nat \cup {None}, NotProposed(kind, ids, cost),
         guard' \in GuardType, guard'.spent = guard.spent + Usd(cost)
  PROVE  LoopInv'
<1> DEFINE l == Line("error", ids.llm, None, cost)
<1>1. /\ loop'.pc = "ready" /\ loop'.iter = loop.iter /\ loop'.final = loop.artifact
      /\ loop'.kind = kind /\ loop'.total = loop.total + Usd(cost)
      /\ reported' = reported + loop'.total /\ last' = ids /\ lines' = Append(lines, l)
      /\ UNCHANGED <<run, count, budget, attempts>>
  BY DEF NotProposed, Return, LoopInv, Typed, LoopType
<1>2. /\ loop.pc = "propose" /\ Working /\ count >= 1 /\ Len(lines) = loop.iter
      /\ Len(attempts) = loop.iter
      /\ loop.artifact = IF loop.iter = 0 THEN None ELSE loop.iter - 1
      /\ \A i \in 1 .. Len(lines) : lines[i].outcome \in {"compile_fail", "check_fail"}
      /\ \A i \in 1 .. Len(attempts) : attempts[i].check_result # "ok"
  BY DEF At, Working, LoopInv, WorkingInv
<1>3. /\ Usd(cost) \in Nat /\ Pending = 0 /\ Pending' = 0 /\ loop.iter \in Nat
      /\ loop.iter <= MaxRepair /\ loop.total \in Nat /\ reported \in Nat
      /\ guard.spent \in Nat /\ MaxRepair \in Nat
  BY <1>1, <1>2, LoopFields DEF Usd, Pending, LoopInv
<1>4. l \in LineType /\ l.iter = loop.iter /\ l.outcome = "error" /\ l.cost = cost
  BY LoopFields DEF Line, LineType, LastType, IdOrNone, LoopInv
<1> HIDE DEF l
<1>5. /\ lines' \in Seq(LineType) /\ Len(lines') = loop.iter + 1
      /\ \A i \in 1 .. loop.iter : lines'[i] = lines[i]
      /\ lines'[loop.iter + 1] = l
  BY <1>1, <1>2, <1>4, Appended DEF LoopInv, Typed
<1>6. Typed'
  <2>1. loop' \in LoopType
    <3>1. loop.total + Usd(cost) \in Nat
      BY <1>3
    <3>2. loop \in LoopType /\ kind \in Kinds
      BY Zenon DEF LoopInv, Typed, Kinds
    <3>3. loop.artifact \in Iters \cup {None}
      BY LoopFields DEF LoopInv
    <3> QED
      BY <3>1, <3>2, <3>3 DEF NotProposed, Return, LoopType
  <2>2. reported' \in Nat
    BY <1>1, <1>3
  <2>3. /\ run' \in 1 .. MaxRuns /\ count' \in 0 .. MaxObligations /\ budget' \in Budgets
        /\ last' \in LastType /\ attempts' \in Seq(AttemptType)
    BY <1>1, Zenon DEF LoopInv, Typed
  <2> QED
    BY <1>5, <2>1, <2>2, <2>3, Zenon DEF Typed
<1>7. MoneyInv'
  <2>1. SumIs(lines, loop.total) /\ reported + loop.total = guard.spent
    BY <1>2, <1>3 DEF LoopInv, MoneyInv, At
  <2>2. SumIs(lines', loop'.total)
    BY <1>1, <1>3, <1>4, <2>1, SumGrows DEF LoopInv, Typed
  <2>3. loop'.total - Pending' = loop'.total /\ Pending' <= loop'.total
        /\ reported' = guard'.spent /\ loop'.total <= reported'
    BY <1>1, <1>3, <2>1
  <2>4. SumIs(lines', loop'.total - Pending')
    BY <2>2, <2>3
  <2>5. reported' + 0 = guard'.spent
    BY <1>1, <1>3, <2>3
  <2> QED
    BY <1>1, <2>3, <2>4, <2>5 DEF MoneyInv, At
<1>8. TraceInv'
  <2>1. ASSUME NEW i \in 1 .. Len(lines')
        PROVE  /\ lines'[i].iter = i - 1
               /\ lines'[i].outcome # "error" =>
                    /\ lines'[i].llm = <<run', count', i - 1>>
                    /\ lines'[i].prover = <<run', count', i - 1>>
    <3>1. CASE i \in 1 .. loop.iter
      BY <1>1, <1>2, <1>5, <3>1 DEF LoopInv, TraceInv
    <3>2. CASE i = loop.iter + 1
      BY <1>3, <1>4, <1>5, <3>2
    <3> QED
      BY <1>3, <1>5, <3>1, <3>2, SMTT(30)
  <2>2. \A i \in 1 .. Len(attempts') : attempts'[i].artifact = i - 1
    BY <1>1 DEF LoopInv, TraceInv
  <2> QED
    BY <2>1, <2>2 DEF TraceInv
<1>9. OutcomeMatchesTrace'
  <2>1. loop.iter + 1 \in 1 .. MaxRepair + 1
    BY <1>3
  <2>2. \A i \in 1 .. Len(lines') : lines'[i].iter = i - 1
    BY <1>8 DEF TraceInv
  <2>3. \A i \in 1 .. loop.iter : lines'[i].outcome \in {"compile_fail", "check_fail"}
    BY <1>2, <1>5
  <2>4. Len(lines') - 1 = loop.iter
    BY <1>3, <1>5
  <2> QED
    BY <1>1, <1>4, <1>5, <2>1, <2>2, <2>3, <2>4 DEF OutcomeMatchesTrace
<1>10. FinalArtifactIsLatest'
  <2>1. DOMAIN attempts = 1 .. Len(attempts) /\ (attempts = <<>> <=> Len(attempts) = 0)
    BY DEF LoopInv, Typed
  <2>2. loop.artifact = IF attempts = <<>> THEN None ELSE attempts[Len(attempts)].artifact
    BY <1>2, <1>3, <2>1 DEF LoopInv, TraceInv
  <2>3. \A i \in DOMAIN attempts : attempts[i].check_result # "ok"
    BY <1>2, <2>1
  <2> QED
    BY <1>1, <2>2, <2>3 DEF FinalArtifactIsLatest
<1>11. EndedInv'
  BY <1>1, <1>2, <1>5, <1>9, <1>10 DEF EndedInv
<1> QED
  BY <1>1, <1>6, <1>7, <1>8, <1>11 DEF LoopInv, WorkingInv, Working

(* The ways complete() ends. A paid answer adds the same to the guard and  *)
(* to the total, accepted or not: nothing, where it has no price.          *)
LEMMA CompleteKeeps ==
  ASSUME LoopInv,
         \/ CompleteHit \/ (\E bill \in Bills : CompletePaid(bill))
         \/ CompleteRefused \/ CompleteFails
  PROVE  LoopInv'
<1>1. /\ guard \in GuardType /\ guard.spent \in Nat /\ last \in LastType
      /\ budget \in BudgetType /\ Usd(None) = 0
  BY LoopFields DEF LoopInv, Typed, Usd
<1>2. At("propose") => [last EXCEPT !.llm = Id] \in LastType
  <2>1. At("propose") => Id \in IdOrNone
    BY IdType DEF LoopInv, WorkingInv, Working, At
  <2> QED
    BY <1>1, <2>1 DEF LastType
<1>3. CASE CompleteHit
  <2>1. guard' \in GuardType /\ guard'.spent = guard.spent + Usd(None)
    BY <1>1, <1>3 DEF CompleteHit
  <2> QED
    BY <1>3, <2>1, ProposedKeeps DEF CompleteHit
<1>4. ASSUME NEW bill \in Bills, CompletePaid(bill)
      PROVE  LoopInv'
  <2>1. bill \in BillType /\ bill.cost \in Nat
    BY OracleAssumption DEF BillType
  <2>2. /\ guard' \in GuardType /\ guard'.spent = guard.spent + bill.cost
        /\ Unaccountable(budget, bill) => bill.cost = 0
    BY <1>1, <1>4, <2>1, RecordedCounts DEF CompletePaid
  <2>3. CASE RecordReturns(budget, guard, bill)
    <3>1. Usd(bill.cost) = bill.cost
      BY <2>1, NoneAssumption DEF Usd
    <3> QED
      BY <1>4, <2>1, <2>2, <2>3, <3>1, ProposedKeeps DEF CompletePaid
  <2>4. CASE ~RecordReturns(budget, guard, bill)
    <3> DEFINE cost == IF Unaccountable(budget, bill) THEN None
                       ELSE AttemptedCost(budget, bill)
    <3>1. cost \in Nat \cup {None} /\ Usd(cost) = bill.cost
      BY <2>1, <2>2, NoneAssumption DEF Usd, AttemptedCost
    <3>2. NotProposed("budget_exceeded", [last EXCEPT !.llm = Id], cost) /\ At("propose")
      BY <1>4, <2>4 DEF CompletePaid
    <3> HIDE DEF cost
    <3> QED
      BY <1>2, <2>2, <3>1, <3>2, NotProposedKeeps
  <2> QED
    BY <2>3, <2>4
<1>5. CASE CompleteRefused
  <2>1. guard' \in GuardType /\ guard'.spent = guard.spent + Usd(None)
    BY <1>1, <1>5 DEF CompleteRefused
  <2> QED
    BY <1>1, <1>5, <2>1, NotProposedKeeps DEF CompleteRefused
<1>6. CASE CompleteFails
  <2>1. guard' \in GuardType /\ guard'.spent = guard.spent + Usd(None)
    BY <1>1, <1>6 DEF CompleteFails
  <2> QED
    BY <1>2, <1>6, <2>1, NotProposedKeeps DEF CompleteFails
<1> QED
  BY <1>3, <1>4, <1>5, <1>6

(* An exception that nothing catches leaves the records as they are. *)
LEMMA AbortsKeeps == LoopInv /\ CompleteAborts => LoopInv'
<1> SUFFICES ASSUME LoopInv, CompleteAborts PROVE LoopInv'
  OBVIOUS
<1>1. /\ loop.pc = "propose" /\ loop'.pc = "aborted" /\ loop'.total = loop.total
      /\ UNCHANGED <<run, count, last, budget, guard, lines, attempts, reported>>
  BY DEF CompleteAborts, At, LoopInv, Typed, LoopType
<1>2. Typed'
  <2>1. loop' \in LoopType
    BY DEF CompleteAborts, LoopInv, Typed, LoopType
  <2> QED
    BY <1>1, <2>1 DEF LoopInv, Typed
<1>3. MoneyInv'
  <2>1. Pending = 0 /\ Pending' = 0
    BY <1>1 DEF Pending
  <2> QED
    BY <1>1, <2>1 DEF LoopInv, MoneyInv, At
<1> QED
  BY <1>1, <1>2, <1>3 DEF LoopInv, TraceInv, WorkingInv, EndedInv, Working, Ended, At

-----------------------------------------------------------------------------
(* What a verdict of compile or check adds to the records: the line and    *)
(* the attempt of this iteration, and all of the total is now in lines.    *)
VerdictAdded(outcome, verdict) ==
  /\ lines' \in Seq(LineType) /\ attempts' \in Seq(AttemptType)
  /\ Len(lines') = loop.iter + 1 /\ Len(attempts') = loop.iter + 1
  /\ \A i \in 1 .. loop.iter : lines'[i].outcome \in {"compile_fail", "check_fail"}
  /\ \A i \in 1 .. loop.iter : attempts'[i].check_result # "ok"
  /\ lines'[loop.iter + 1].outcome = outcome
  /\ attempts'[loop.iter + 1].check_result = verdict
  /\ TraceInv' /\ SumIs(lines', loop.total)

LEMMA VerdictRecorded ==
  ASSUME LoopInv, loop.pc \in {"compile", "check"},
         NEW outcome \in {"ok", "compile_fail", "check_fail", "error"},
         NEW prover \in IdOrNone, outcome # "error" => prover = Id,
         NEW verdict \in {"ok", "fail", None},
         lines' = Append(lines, Line(outcome, loop.llm, prover, loop.cost)),
         attempts' = Append(attempts, Attempt(verdict)),
         run' = run, count' = count
  PROVE  VerdictAdded(outcome, verdict)
<1> DEFINE l == Line(outcome, loop.llm, prover, loop.cost)
           a == Attempt(verdict)
<1>1. /\ Working /\ Len(lines) = loop.iter /\ Len(attempts) = loop.iter
      /\ loop.artifact = loop.iter /\ loop.llm = Id
      /\ \A i \in 1 .. Len(lines) : lines[i].outcome \in {"compile_fail", "check_fail"}
      /\ \A i \in 1 .. Len(attempts) : attempts[i].check_result # "ok"
  BY DEF Working, LoopInv, WorkingInv, At
<1>2. /\ l \in LineType /\ l.iter = loop.iter /\ l.outcome = outcome /\ l.llm = loop.llm
      /\ l.prover = prover /\ l.cost = loop.cost
  BY LoopFields DEF Line, LineType, LoopInv
<1>3. a \in AttemptType /\ a.artifact = loop.iter /\ a.check_result = verdict
  BY <1>1, LoopFields DEF Attempt, AttemptType, LoopInv
<1> HIDE DEF l, a
<1>4. /\ lines' \in Seq(LineType) /\ Len(lines') = loop.iter + 1
      /\ \A i \in 1 .. loop.iter : lines'[i] = lines[i]
      /\ lines'[loop.iter + 1] = l
  BY <1>1, <1>2, Appended DEF LoopInv, Typed, l
<1>5. /\ attempts' \in Seq(AttemptType) /\ Len(attempts') = loop.iter + 1
      /\ \A i \in 1 .. loop.iter : attempts'[i] = attempts[i]
      /\ attempts'[loop.iter + 1] = a
  BY <1>1, <1>3, Appended DEF LoopInv, Typed, a
<1>6. /\ loop.iter \in Nat /\ loop.total \in Nat /\ Usd(loop.cost) \in Nat
      /\ Pending = Usd(loop.cost)
  BY LoopFields DEF LoopInv, Pending
<1>7. TraceInv'
  <2>1. ASSUME NEW i \in 1 .. Len(lines')
        PROVE  /\ lines'[i].iter = i - 1
               /\ lines'[i].outcome # "error" =>
                    /\ lines'[i].llm = <<run', count', i - 1>>
                    /\ lines'[i].prover = <<run', count', i - 1>>
    <3>1. CASE i \in 1 .. loop.iter
      <4>1. /\ lines[i].iter = i - 1
            /\ lines[i].outcome # "error" =>
                 lines[i].llm = <<run, count, i - 1>> /\ lines[i].prover = <<run, count, i - 1>>
        BY <1>1, <3>1 DEF LoopInv, TraceInv
      <4> QED
        BY <1>4, <3>1, <4>1
    <3>2. CASE i = loop.iter + 1
      <4>1. i - 1 = loop.iter /\ lines'[i] = l /\ Id = <<run', count', i - 1>>
        BY <1>4, <1>6, <3>2 DEF Id
      <4> QED
        BY <1>1, <1>2, <4>1
    <3> QED
      BY <1>4, <1>6, <3>1, <3>2
  <2>2. ASSUME NEW i \in 1 .. Len(attempts')
        PROVE  attempts'[i].artifact = i - 1
    <3>1. CASE i \in 1 .. loop.iter
      BY <1>1, <1>5, <3>1 DEF LoopInv, TraceInv
    <3>2. CASE i = loop.iter + 1
      BY <1>3, <1>5, <1>6, <3>2
    <3> QED
      BY <1>5, <1>6, <3>1, <3>2
  <2> QED
    BY <2>1, <2>2 DEF TraceInv
<1>8. SumIs(lines', loop.total)
  <2>1. loop.total - Pending \in Nat /\ SumIs(lines, loop.total - Pending)
    BY <1>6 DEF LoopInv, MoneyInv
  <2>2. SumIs(lines', (loop.total - Pending) + Usd(l.cost))
    BY <1>2, <2>1, SumGrows DEF LoopInv, Typed, l
  <2>3. (loop.total - Pending) + Usd(l.cost) = loop.total
    BY <1>2, <1>6
  <2> QED
    BY <2>2, <2>3
<1> QED
  BY <1>1, <1>2, <1>3, <1>4, <1>5, <1>7, <1>8 DEF VerdictAdded

(* The verdict ends the obligation: well, in an exception of the prover's, *)
(* or because it was the last one allowed.                                 *)
LEMMA VerdictReturns ==
  ASSUME LoopInv, loop.pc \in {"compile", "check"},
         NEW kind \in {"solved", "prover_error", "gave_up"},
         NEW outcome, NEW verdict, VerdictAdded(outcome, verdict),
         outcome = "ok" <=> kind = "solved", verdict = "ok" <=> kind = "solved",
         outcome = "error" <=> kind = "prover_error",
         kind = "gave_up" => loop.iter = MaxRepair,
         Return(kind, loop.artifact, loop.total),
         last' \in LastType, run' = run, count' = count, budget' = budget, guard' = guard
  PROVE  LoopInv'
<1>1. /\ loop'.pc = "ready" /\ loop'.final = loop.artifact /\ loop'.kind = kind
      /\ loop'.total = loop.total /\ reported' = reported + loop.total
  BY DEF Return, LoopInv, Typed, LoopType
<1>2. /\ Working /\ count >= 1 /\ loop.artifact = loop.iter /\ ~At("ready")
      /\ loop.iter \in Nat /\ loop.iter <= MaxRepair /\ loop.total \in Nat
      /\ reported \in Nat /\ MaxRepair \in Nat /\ Pending' = 0
  BY <1>1, LoopFields DEF Working, LoopInv, WorkingInv, At, Pending
<1>3. Typed'
  <2>1. loop' \in LoopType
    <3>1. loop \in LoopType /\ kind \in Kinds /\ loop.artifact \in Iters \cup {None}
      BY LoopFields DEF LoopInv, Typed, Kinds
    <3> QED
      BY <1>2, <3>1 DEF Return, LoopType
  <2> QED
    BY <1>1, <1>2, <2>1 DEF LoopInv, Typed, VerdictAdded
<1>4. MoneyInv'
  <2>1. reported + loop.total = guard.spent
    BY <1>2 DEF LoopInv, MoneyInv
  <2>2. loop'.total - Pending' = loop.total /\ Pending' <= loop'.total
        /\ reported' + 0 = guard'.spent /\ loop'.total <= reported'
    BY <1>1, <1>2, <2>1
  <2>3. SumIs(lines', loop'.total - Pending')
    BY <2>2 DEF VerdictAdded
  <2> QED
    BY <1>1, <2>2, <2>3 DEF MoneyInv, At
<1>5. OutcomeMatchesTrace'
  <2>1. Len(lines') = loop.iter + 1 /\ loop.iter + 1 \in 1 .. MaxRepair + 1
        /\ Len(lines') - 1 = loop.iter
    BY <1>2 DEF VerdictAdded
  <2>2. \A i \in 1 .. Len(lines') : lines'[i].iter = i - 1
    BY DEF VerdictAdded, TraceInv
  <2>3. /\ \A i \in 1 .. loop.iter : lines'[i].outcome \in {"compile_fail", "check_fail"}
        /\ lines'[loop.iter + 1].outcome = outcome
    BY DEF VerdictAdded
  <2> QED
    BY <1>1, <2>1, <2>2, <2>3 DEF OutcomeMatchesTrace
<1>6. FinalArtifactIsLatest'
  <2>1. /\ DOMAIN attempts' = 1 .. Len(attempts') /\ Len(attempts') = loop.iter + 1
        /\ attempts' # <<>>
    BY <1>2 DEF VerdictAdded
  <2>2. /\ \A i \in 1 .. Len(attempts') : attempts'[i].artifact = i - 1
        /\ \A i \in 1 .. loop.iter : attempts'[i].check_result # "ok"
        /\ attempts'[loop.iter + 1].check_result = verdict
    BY DEF VerdictAdded, TraceInv
  <2>3. attempts'[Len(attempts')].artifact = loop'.final
    BY <1>1, <1>2, <2>1, <2>2
  <2>4. ASSUME NEW i \in DOMAIN attempts'
        PROVE  attempts'[i].check_result = "ok" <=>
                 (loop'.kind = "solved" /\ loop'.final = attempts'[i].artifact)
    <3>1. CASE i \in 1 .. loop.iter
      BY <1>1, <1>2, <2>1, <2>2, <3>1
    <3>2. CASE i = loop.iter + 1
      BY <1>1, <1>2, <2>1, <2>2, <3>2
    <3> QED
      BY <1>2, <2>1, <3>1, <3>2
  <2> QED
    BY <2>1, <2>3, <2>4 DEF FinalArtifactIsLatest
<1>7. EndedInv'
  <2>1. Len(lines') = Len(attempts') + 0
    BY <1>2 DEF VerdictAdded
  <2> QED
    BY <1>1, <1>2, <1>5, <1>6, <2>1 DEF EndedInv
<1> QED
  BY <1>1, <1>3, <1>4, <1>7 DEF LoopInv, VerdictAdded, WorkingInv, Working

(* The verdict asks for a repair: the next prompt is about this attempt,   *)
(* with this verdict's diagnostics; or there is no next one.               *)
LEMMA RepairKeeps ==
  ASSUME LoopInv, NEW op \in {"compile", "check"}, At(op), NEW outcome,
         outcome = IF op = "compile" THEN "compile_fail" ELSE "check_fail",
         NEW verdict \in {"fail", None}, VerdictAdded(outcome, verdict), Repair(op),
         last' \in LastType, run' = run, count' = count, budget' = budget, guard' = guard
  PROVE  LoopInv'
<1>1. /\ loop.pc = op /\ loop.pc \in {"compile", "check"} /\ verdict # "ok"
      /\ outcome # "ok" /\ outcome # "error"
      /\ outcome \in {"compile_fail", "check_fail"}
  BY OracleAssumption DEF At
<1>2. CASE loop.iter >= MaxRepair
  <2>1. loop.iter = MaxRepair
    BY <1>2, LoopFields DEF LoopInv
  <2>2. Return("gave_up", loop.artifact, loop.total)
    BY <1>2 DEF Repair
  <2> QED
    BY <1>1, <2>1, <2>2, VerdictReturns
<1>3. CASE ~(loop.iter >= MaxRepair)
  <2>1. /\ loop'.pc = "propose" /\ loop'.iter = loop.iter + 1 /\ loop'.diag = <<loop.iter, op>>
        /\ loop'.artifact = loop.artifact /\ loop'.total = loop.total /\ reported' = reported
    BY <1>3 DEF Repair, LoopInv, Typed, LoopType
  <2>2. /\ Working /\ count >= 1 /\ loop.artifact = loop.iter /\ ~At("ready")
        /\ loop.iter \in Nat /\ MaxRepair \in Nat /\ loop.iter + 1 \in Iters
        /\ loop.total \in Nat /\ Pending' = 0
    BY <1>1, <1>3, <2>1, LoopFields DEF Working, LoopInv, WorkingInv, At, Pending, Iters
  <2>3. Typed'
    <3>1. loop \in LoopType /\ <<loop.iter, op>> \in Iters \X {"compile", "check"}
      BY LoopFields DEF LoopInv, Typed
    <3>2. loop' \in LoopType
      BY <1>3, <2>2, <3>1, ZenonT(60) DEF Repair, LoopType
    <3> QED
      BY <2>1, <3>2 DEF LoopInv, Typed, VerdictAdded
  <2>4. MoneyInv'
    <3>1. reported + loop.total = guard.spent
      BY <2>2 DEF LoopInv, MoneyInv
    <3>2. loop'.total - Pending' = loop.total /\ Pending' <= loop'.total
          /\ reported' + loop'.total = guard'.spent
      BY <2>1, <2>2, <3>1
    <3>3. SumIs(lines', loop'.total - Pending')
      BY <3>2 DEF VerdictAdded
    <3> QED
      BY <2>1, <3>2, <3>3 DEF MoneyInv, At
  <2>5. WorkingInv'
    <3>1. /\ Len(lines') = loop'.iter /\ Len(attempts') = loop'.iter
          /\ lines'[loop'.iter].outcome = outcome
          /\ loop'.iter # 0 /\ loop'.iter - 1 = loop.iter
      BY <2>1, <2>2 DEF VerdictAdded
    <3>2. ASSUME NEW i \in 1 .. Len(lines')
          PROVE  lines'[i].outcome \in {"compile_fail", "check_fail"}
      <4>1. i \in 1 .. loop.iter \/ i = loop.iter + 1
        BY <2>1, <2>2, <3>1
      <4> QED
        BY <1>1, <4>1 DEF VerdictAdded
    <3>3. ASSUME NEW i \in 1 .. Len(attempts')
          PROVE  attempts'[i].check_result # "ok"
      <4>1. i \in 1 .. loop.iter \/ i = loop.iter + 1
        BY <2>1, <2>2, <3>1
      <4> QED
        BY <1>1, <4>1 DEF VerdictAdded
    <3>4. RepairsFollowLatest'
      <4>1. op = IF outcome = "compile_fail" THEN "compile" ELSE "check"
        OBVIOUS
      <4> QED
        BY <2>1, <2>2, <3>1, <4>1 DEF RepairsFollowLatest
    <3> QED
      BY <2>1, <2>2, <3>1, <3>2, <3>3, <3>4 DEF WorkingInv, At
  <2> QED
    BY <2>1, <2>3, <2>4, <2>5 DEF LoopInv, VerdictAdded, EndedInv, Ended, At
<1> QED
  BY <1>2, <1>3

(* The steps after complete(): compile and check. *)
LEMMA VerdictsKeep ==
  LoopInv /\ (CompileRaises \/ CompileFails \/ CheckRaises \/ CheckFails \/ CheckOk)
    => LoopInv'
<1> SUFFICES ASSUME LoopInv,
                    CompileRaises \/ CompileFails \/ CheckRaises \/ CheckFails \/ CheckOk
             PROVE  LoopInv'
  OBVIOUS
<1>1. /\ last \in LastType /\ last.compile \in IdOrNone /\ last.check \in IdOrNone
      /\ loop.compile \in IdOrNone
  BY LoopFields DEF LoopInv, Typed
<1>2. ASSUME loop.pc \in {"compile", "check"}
      PROVE  /\ Id \in IdOrNone /\ [last EXCEPT !.compile = Id] \in LastType
             /\ [last EXCEPT !.check = Id] \in LastType
  <2>1. Id \in IdOrNone
    BY <1>2, IdType DEF LoopInv, WorkingInv, Working
  <2> QED
    BY <1>1, <2>1 DEF LastType
<1>3. None # "ok"
  BY OracleAssumption
<1>4. CASE CompileRaises
  <2>1. /\ loop.pc \in {"compile", "check"} /\ UNCHANGED <<run, count, last, budget, guard>>
        /\ lines' = Append(lines, Line("error", loop.llm, last.compile, loop.cost))
        /\ attempts' = Append(attempts, Attempt(None))
        /\ Return("prover_error", loop.artifact, loop.total)
    BY <1>4 DEF CompileRaises, At
  <2>2. VerdictAdded("error", None)
    BY <1>1, <2>1, VerdictRecorded
  <2> QED
    BY <1>1, <1>3, <2>1, <2>2, VerdictReturns
<1>5. CASE CheckRaises
  <2> DEFINE join == IF last.check # None THEN last.check ELSE loop.compile
  <2>1. /\ loop.pc \in {"compile", "check"} /\ UNCHANGED <<run, count, last, budget, guard>>
        /\ lines' = Append(lines, Line("error", loop.llm, join, loop.cost))
        /\ attempts' = Append(attempts, Attempt(None))
        /\ Return("prover_error", loop.artifact, loop.total)
    BY <1>5 DEF CheckRaises, At
  <2>2. join \in IdOrNone
    BY <1>1
  <2> HIDE DEF join
  <2>3. VerdictAdded("error", None)
    BY <2>1, <2>2, VerdictRecorded
  <2> QED
    BY <1>1, <1>3, <2>1, <2>3, VerdictReturns
<1>6. CASE CompileFails
  <2>1. /\ At("compile") /\ loop.pc \in {"compile", "check"}
        /\ UNCHANGED <<run, count, budget, guard>> /\ last' = [last EXCEPT !.compile = Id]
        /\ lines' = Append(lines, Line("compile_fail", loop.llm, Id, loop.cost))
        /\ attempts' = Append(attempts, Attempt(None)) /\ Repair("compile")
    BY <1>6 DEF CompileFails, At
  <2>2. last' \in LastType /\ Id \in IdOrNone
    BY <1>2, <2>1
  <2>3. VerdictAdded("compile_fail", None)
    BY <2>1, <2>2, VerdictRecorded
  <2> QED
    BY <2>1, <2>2, <2>3, RepairKeeps
<1>7. CASE CheckFails
  <2>1. /\ At("check") /\ loop.pc \in {"compile", "check"}
        /\ UNCHANGED <<run, count, budget, guard>> /\ last' = [last EXCEPT !.check = Id]
        /\ lines' = Append(lines, Line("check_fail", loop.llm, Id, loop.cost))
        /\ attempts' = Append(attempts, Attempt("fail")) /\ Repair("check")
    BY <1>7 DEF CheckFails, At
  <2>2. last' \in LastType /\ Id \in IdOrNone
    BY <1>2, <2>1
  <2>3. VerdictAdded("check_fail", "fail")
    BY <2>1, <2>2, VerdictRecorded
  <2> QED
    BY <2>1, <2>2, <2>3, RepairKeeps
<1>8. CASE CheckOk
  <2>1. /\ loop.pc \in {"compile", "check"} /\ UNCHANGED <<run, count, budget, guard>>
        /\ last' = [last EXCEPT !.check = Id]
        /\ lines' = Append(lines, Line("ok", loop.llm, Id, loop.cost))
        /\ attempts' = Append(attempts, Attempt("ok"))
        /\ Return("solved", loop.artifact, loop.total)
    BY <1>8 DEF CheckOk, At
  <2>2. last' \in LastType /\ Id \in IdOrNone
    BY <1>2, <2>1
  <2>3. VerdictAdded("ok", "ok")
    BY <2>1, <2>2, VerdictRecorded
  <2> QED
    BY <2>1, <2>2, <2>3, VerdictReturns
<1> QED
  BY <1>4, <1>5, <1>6, <1>7, <1>8

LEMMA CompiledKeeps == LoopInv /\ CompileOk => LoopInv'
<1> SUFFICES ASSUME LoopInv, CompileOk PROVE LoopInv'
  OBVIOUS
<1>1. /\ loop.pc = "compile" /\ loop'.pc = "check" /\ loop'.iter = loop.iter
      /\ loop'.artifact = loop.artifact /\ loop'.llm = loop.llm /\ loop'.cost = loop.cost
      /\ loop'.total = loop.total
      /\ UNCHANGED <<run, count, budget, guard, lines, attempts, reported>>
  BY DEF CompileOk, At, LoopInv, Typed, LoopType
<1>2. Id \in IdOrNone /\ Id' = Id
  BY <1>1, IdType DEF LoopInv, WorkingInv, Working, Id
<1>3. Typed'
  <2>1. loop' \in LoopType
    BY <1>2 DEF CompileOk, LoopInv, Typed, LoopType
  <2>2. last' \in LastType
    BY <1>2 DEF CompileOk, LoopInv, Typed, LastType
  <2> QED
    BY <1>1, <2>1, <2>2 DEF LoopInv, Typed
<1>4. MoneyInv'
  <2>1. Pending' = Pending
    BY <1>1 DEF Pending, Usd
  <2> QED
    BY <1>1, <2>1 DEF LoopInv, MoneyInv, At
<1>5. WorkingInv'
  BY <1>1, <1>2 DEF LoopInv, WorkingInv, Working, At, RepairsFollowLatest
<1> QED
  BY <1>1, <1>3, <1>4, <1>5 DEF LoopInv, TraceInv, EndedInv, Ended, At

LEMMA RunKeeps == LoopInv /\ Run => LoopInv'
BY CompleteKeeps, AbortsKeeps, VerdictsKeep, CompiledKeeps DEF Run

-----------------------------------------------------------------------------
(* Saving fails after the outcome was reached: the command loses it. *)
LEMMA SaveFailsKeeps == LoopInv /\ FilesInv /\ SaveFails => LoopInv'
<1> SUFFICES ASSUME LoopInv, FilesInv, SaveFails PROVE LoopInv'
  OBVIOUS
<1>1. /\ loop.pc = "ready" /\ loop'.pc = "aborted" /\ loop'.total = loop.total
      /\ reported' = reported - loop.total
      /\ UNCHANGED <<run, count, last, budget, guard, lines, attempts>>
  BY DEF SaveFails, FilesInv, Ended, At, LoopInv, Typed, LoopType
<1>2. /\ loop.total \in Nat /\ reported \in Nat /\ guard.spent \in Nat
      /\ loop.total <= reported /\ reported = guard.spent
  BY <1>1, LoopFields DEF LoopInv, MoneyInv, At
<1>3. Typed'
  <2>1. loop' \in LoopType
    BY DEF SaveFails, LoopInv, Typed, LoopType
  <2>2. reported' \in Nat
    BY <1>1, <1>2
  <2> QED
    BY <1>1, <2>1, <2>2 DEF LoopInv, Typed
<1>4. MoneyInv'
  <2>1. Pending = 0 /\ Pending' = 0
    BY <1>1 DEF Pending
  <2>2. reported' + loop'.total = guard'.spent
    BY <1>1, <1>2
  <2> QED
    BY <1>1, <2>1, <2>2 DEF LoopInv, MoneyInv, At
<1> QED
  BY <1>1, <1>3, <1>4 DEF LoopInv, TraceInv, WorkingInv, EndedInv, Working, Ended, At

(* A step that leaves the loop alone. *)
LEMMA SameLoop == LoopInv /\ UNCHANGED vars => LoopInv'
<1> SUFFICES ASSUME LoopInv, UNCHANGED vars PROVE LoopInv'
  OBVIOUS
<1>1. UNCHANGED <<run, count, last, budget, guard, loop, lines, attempts, reported>>
  BY DEF vars
<1>2. Typed'
  BY <1>1 DEF LoopInv, Typed
<1>3. MoneyInv'
  <2>1. Pending' = Pending
    BY <1>1 DEF Pending
  <2> QED
    BY <1>1, <2>1 DEF LoopInv, MoneyInv, At
<1>4. TraceInv'
  BY <1>1 DEF LoopInv, TraceInv
<1>5. WorkingInv'
  BY <1>1 DEF LoopInv, WorkingInv, Working, At, Id, RepairsFollowLatest
<1>6. EndedInv'
  <2>1. (OutcomeMatchesTrace' <=> OutcomeMatchesTrace) /\ (Ended' <=> Ended)
    BY <1>1 DEF OutcomeMatchesTrace, Ended, At
  <2>2. FinalArtifactIsLatest' <=> FinalArtifactIsLatest
    BY <1>1 DEF FinalArtifactIsLatest, Ended, At
  <2> QED
    BY <1>1, <2>1, <2>2 DEF LoopInv, EndedInv
<1> QED
  BY <1>2, <1>3, <1>4, <1>5, <1>6 DEF LoopInv

(* What a step of the loop does to the lengths of the records. *)
LEMMA RunCounts ==
  ASSUME LoopInv, Run
  PROVE  /\ UNCHANGED <<run, count>> /\ loop.pc # "ready" /\ Working
         /\ loop'.pc = "ready" => Ended'
         /\ \/ /\ At("propose") /\ loop'.pc = "compile" /\ UNCHANGED <<lines, attempts>>
            \/ /\ At("propose") /\ loop'.pc = "ready" /\ attempts' = attempts
               /\ Len(lines') = Len(lines) + 1
            \/ /\ At("propose") /\ loop'.pc = "aborted" /\ UNCHANGED <<lines, attempts>>
            \/ /\ At("compile") /\ loop'.pc = "check" /\ UNCHANGED <<lines, attempts>>
            \/ /\ loop.pc \in {"compile", "check"} /\ loop'.pc \in {"propose", "ready"}
               /\ Len(lines') = Len(lines) + 1 /\ Len(attempts') = Len(attempts) + 1
<1>1. loop \in LoopType /\ lines \in Seq(LineType) /\ attempts \in Seq(AttemptType)
  BY DEF LoopInv, Typed
<1>2. /\ \A l : Len(Append(lines, l)) = Len(lines) + 1
      /\ \A a : Len(Append(attempts, a)) = Len(attempts) + 1
  BY <1>1
<1>3. CASE At("propose")
  <2>1. ASSUME NEW cost, Proposed(cost)
        PROVE  loop'.pc = "compile" /\ UNCHANGED <<run, count, lines, attempts>>
    BY <1>1, <2>1 DEF Proposed, LoopType
  <2>2. ASSUME NEW kind \in Kinds, NEW ids, NEW cost, NotProposed(kind, ids, cost)
        PROVE  /\ loop'.pc = "ready" /\ Ended' /\ UNCHANGED <<run, count, attempts>>
               /\ Len(lines') = Len(lines) + 1
    BY <1>1, <1>2, <2>2 DEF NotProposed, Return, LoopType, Ended, At, Kinds
  <2>3. CASE CompleteHit \/ \E bill \in Bills : CompletePaid(bill)
    BY <1>3, <2>1, <2>2, <2>3 DEF CompleteHit, CompletePaid, Kinds, At, Working
  <2>4. CASE CompleteRefused \/ CompleteFails
    BY <1>3, <2>2, <2>4 DEF CompleteRefused, CompleteFails, Kinds, At, Working
  <2>5. CASE CompleteAborts
    BY <1>1, <1>3, <2>5 DEF CompleteAborts, LoopType, At, Working
  <2> QED
    BY <1>3, <2>3, <2>4, <2>5 DEF Run, CompileRaises, CompileFails, CompileOk,
       CheckRaises, CheckFails, CheckOk, At
<1>4. CASE ~At("propose")
  <2>1. ASSUME NEW kind \in Kinds, NEW final, NEW total, Return(kind, final, total)
        PROVE  loop'.pc = "ready" /\ Ended'
    BY <1>1, <2>1 DEF Return, LoopType, Ended, At, Kinds
  <2>2. ASSUME NEW op, Repair(op)
        PROVE  loop'.pc = "propose" \/ (loop'.pc = "ready" /\ Ended')
    BY <1>1, <2>1, <2>2 DEF Repair, LoopType, Kinds
  <2>3. CASE CompileRaises
    BY <1>2, <1>4, <2>1, <2>3 DEF CompileRaises, Kinds, At, Working
  <2>4. CASE CompileFails
    BY <1>2, <1>4, <2>2, <2>4 DEF CompileFails, At, Working
  <2>5. CASE CompileOk
    BY <1>1, <1>4, <2>5 DEF CompileOk, LoopType, At, Working
  <2>6. CASE CheckRaises
    BY <1>2, <1>4, <2>1, <2>6 DEF CheckRaises, Kinds, At, Working
  <2>7. CASE CheckFails
    BY <1>2, <1>4, <2>2, <2>7 DEF CheckFails, At, Working
  <2>8. CASE CheckOk
    BY <1>2, <1>4, <2>1, <2>8 DEF CheckOk, Kinds, At, Working
  <2> QED
    BY <1>4, <2>3, <2>4, <2>5, <2>6, <2>7, <2>8 DEF Run, CompleteHit, CompletePaid,
       CompleteRefused, CompleteFails, CompleteAborts
<1> QED
  BY <1>3, <1>4

(* A conversation goes on with the prompt and then with the answer of the  *)
(* next iteration.                                                         *)
LEMMA NextTurn ==
  ASSUME NEW m \in Conversations, Turns(m), NEW i \in Iters,
         NEW word, \/ word = Prompt(i) /\ Len(m) = 2 * i
                   \/ word = Answer(i) /\ Len(m) = 2 * i + 1
  PROVE  /\ m \o <<word>> \in Conversations /\ Turns(m \o <<word>>)
         /\ Len(m \o <<word>>) = Len(m) + 1
<1>1. m \in Seq(Messages) /\ word \in Messages /\ MaxRepair \in Nat /\ i \in Nat
      /\ i <= MaxRepair
  BY OracleAssumption DEF Conversations, Messages, Prompt, Answer, Iters
<1> DEFINE n == m \o <<word>>
<1>2. /\ n \in Seq(Messages) /\ Len(n) = Len(m) + 1
      /\ \A j \in 1 .. Len(m) : n[j] = m[j]
      /\ n[Len(m) + 1] = word
  BY <1>1
<1> HIDE DEF n
<1>3. n \in Conversations
  BY <1>1, <1>2 DEF Conversations
<1>4. ASSUME NEW j \in Iters
      PROVE  /\ 2 * j + 1 <= Len(n) => n[2 * j + 1] = Prompt(j)
             /\ 2 * j + 2 <= Len(n) => n[2 * j + 2] = Answer(j)
  <2>1. j \in Nat /\ Len(m) \in Nat
    BY <1>1 DEF Iters
  <2>2. /\ 2 * j + 1 <= Len(m) => n[2 * j + 1] = Prompt(j)
        /\ 2 * j + 2 <= Len(m) => n[2 * j + 2] = Answer(j)
    BY <1>2, <2>1 DEF Turns
  <2>3. 2 * j + 1 = Len(m) + 1 => n[2 * j + 1] = Prompt(j)
    <3>1. 2 * j + 1 = Len(m) + 1 => j = i /\ word = Prompt(i)
      BY <1>1, <2>1
    <3> QED
      BY <1>2, <3>1
  <2>4. 2 * j + 2 = Len(m) + 1 => n[2 * j + 2] = Answer(j)
    <3>1. 2 * j + 2 = Len(m) + 1 => j = i /\ word = Answer(i)
      BY <1>1, <2>1
    <3> QED
      BY <1>2, <3>1
  <2> QED
    BY <1>2, <2>1, <2>2, <2>3, <2>4, SMTT(30)
<1> QED
  BY <1>2, <1>3, <1>4 DEF Turns, n

-----------------------------------------------------------------------------
(* The buffer grows with the trace: a prompt before complete(), an answer  *)
(* when it returns one.                                                    *)
LEMMA HeardKeeps == LoopInv /\ BufferInv /\ TRun => BufferInv'
<1> SUFFICES ASSUME LoopInv, BufferInv, TRun PROVE BufferInv'
  OBVIOUS
<1> DEFINE asked == transcript_buf \o <<Prompt(loop.iter)>>
<1>1. Run /\ transcript_buf' = Heard
  BY DEF TRun
<1>2. /\ transcript_buf \in Conversations /\ Turns(transcript_buf)
      /\ transcript_buf \in Seq(Messages) /\ Len(transcript_buf) \in Nat
      /\ loop.iter \in Iters /\ loop.iter \in Nat /\ Len(lines) \in Nat /\ Len(attempts) \in Nat
  <2>1. /\ transcript_buf \in Conversations /\ Turns(transcript_buf)
        /\ transcript_buf \in Seq(Messages)
    BY Zenon DEF BufferInv, Conversations
  <2>2. loop.iter \in Iters /\ loop.iter \in Nat
    BY LoopFields DEF LoopInv
  <2>3. lines \in Seq(LineType) /\ attempts \in Seq(AttemptType)
    BY Zenon DEF LoopInv, Typed
  <2> QED
    BY <2>1, <2>2, <2>3
<1>3. Working /\ (loop'.pc = "ready" => Ended')
  BY <1>1, RunCounts
<1>4. CASE At("propose")
  <2>1. loop.pc = "propose" /\ Len(lines) = loop.iter /\ Len(attempts) = loop.iter
    BY <1>3, <1>4 DEF At, LoopInv, WorkingInv
  <2>2. Len(transcript_buf) = 2 * loop.iter
    BY <1>2, <1>3, <2>1 DEF BufferInv
  <2>3. asked \in Conversations /\ Turns(asked) /\ Len(asked) = 2 * loop.iter + 1
    BY <1>2, <2>2, NextTurn
  <2> HIDE DEF asked
  <2>4. CASE loop'.pc = "compile"
    <3>1. transcript_buf' = asked \o <<Answer(loop.iter)>>
      BY <1>1, <1>4, <2>4 DEF Heard, asked
    <3> DEFINE answered == asked \o <<Answer(loop.iter)>>
    <3>2. /\ answered \in Conversations /\ Turns(answered)
          /\ Len(answered) = 2 * loop.iter + 2
      <4>1. /\ answered \in Conversations /\ Turns(answered)
            /\ Len(answered) = Len(asked) + 1
        BY <1>2, <2>3, NextTurn
      <4> HIDE DEF answered
      <4> QED
        BY <1>2, <2>3, <4>1
    <3> HIDE DEF answered
    <3>3. UNCHANGED <<lines, attempts>>
      BY <1>1, <1>2, <1>4, <2>1, <2>4, RunCounts DEF At
    <3>4. Len(lines') + Len(attempts') + 2 = 2 * loop.iter + 2
      BY <1>2, <2>1, <3>3
    <3> QED
      BY <2>4, <3>1, <3>2, <3>4 DEF BufferInv, Turns, answered
  <2>5. CASE loop'.pc # "compile"
    <3>1. transcript_buf' = asked \o <<>>
      BY <1>1, <1>4, <2>5 DEF Heard, asked
    <3>2. transcript_buf' = asked
      BY <2>3, <3>1 DEF Conversations
    <3>3. \/ loop'.pc = "ready" /\ attempts' = attempts /\ Len(lines') = Len(lines) + 1
          \/ loop'.pc = "aborted"
      BY <1>1, <2>1, <2>5, RunCounts DEF At
    <3>4. loop'.pc = "ready" => Len(lines') + Len(attempts') + 0 = 2 * loop.iter + 1
      BY <1>2, <2>1, <3>3
    <3> QED
      BY <2>3, <3>2, <3>3, <3>4 DEF BufferInv, Turns, Working, Ended, At
  <2> QED
    BY <2>4, <2>5
<1>5. CASE ~At("propose")
  <2>1. loop.pc \in {"compile", "check"} /\ transcript_buf' = transcript_buf
    BY <1>1, <1>3, <1>5 DEF Heard, Working, At
  <2>2. Len(transcript_buf) = Len(lines) + Len(attempts) + 2
    BY <1>3, <2>1 DEF BufferInv
  <2>3. \/ loop'.pc = "check" /\ UNCHANGED <<lines, attempts>>
        \/ /\ loop'.pc \in {"propose", "ready"}
           /\ Len(lines') = Len(lines) + 1 /\ Len(attempts') = Len(attempts) + 1
    BY <1>1, <1>5, RunCounts
  <2>4. CASE loop'.pc = "check" /\ UNCHANGED <<lines, attempts>>
    BY <1>2, <2>1, <2>2, <2>4 DEF BufferInv, Turns
  <2>5. CASE /\ loop'.pc \in {"propose", "ready"}
             /\ Len(lines') = Len(lines) + 1 /\ Len(attempts') = Len(attempts) + 1
    <3>1. Len(transcript_buf) = Len(lines') + Len(attempts') + 0
      BY <1>2, <2>2, <2>5
    <3> QED
      BY <1>2, <2>1, <2>5, <3>1 DEF BufferInv, Turns
  <2> QED
    BY <2>3, <2>4, <2>5
<1> QED
  BY <1>4, <1>5

(* An obligation begins with an empty buffer. *)
LEMMA EmptyBuffer ==
  ASSUME transcript_buf' = <<>>,
         \/ loop'.pc = "ready" /\ loop'.kind = "none"
         \/ loop'.pc = "propose" /\ lines' = <<>> /\ attempts' = <<>>
  PROVE  BufferInv'
<1>1. Len(<<>>) = 0 /\ <<>> \in Seq(Messages) /\ 0 <= 2 * (MaxRepair + 1)
  BY OracleAssumption
<1>2. \A i \in Iters : ~(2 * i + 1 <= 0) /\ ~(2 * i + 2 <= 0)
  BY OracleAssumption DEF Iters
<1> QED
  BY <1>1, <1>2 DEF BufferInv, Conversations, Turns, Working, Ended, At

LEMMA NoFiles == <<>> \in [DOMAIN <<>> -> Conversations \cup {Torn}]
OBVIOUS

(* The inductive invariant holds in every state. *)
LEMMA InitT == TInit => IInv
<1> SUFFICES ASSUME TInit PROVE IInv
  OBVIOUS
<1>1. LoopInv /\ loop.pc = "ready" /\ ~Ended /\ ~Working
  BY InitLoop DEF TInit, Init, NewLoop, Ended, Working
<1>2. BufferInv
  <2>1. Len(<<>>) = 0 /\ <<>> \in Seq(Messages) /\ 0 <= 2 * (MaxRepair + 1)
    BY OracleAssumption
  <2>2. \A i \in Iters : ~(2 * i + 1 <= 0) /\ ~(2 * i + 2 <= 0)
    BY OracleAssumption DEF Iters
  <2> QED
    BY <1>1, <2>1, <2>2 DEF TInit, BufferInv, Conversations, Turns
<1>3. FilesInv
  BY <1>1, NoFiles DEF TInit, FilesInv
<1> QED
  BY <1>1, <1>2, <1>3 DEF IInv

LEMMA StepT == IInv /\ [TNext]_<<vars, tvars>> => IInv'
<1> SUFFICES ASSUME IInv, [TNext]_<<vars, tvars>> PROVE IInv'
  OBVIOUS
<1>1. LoopInv /\ BufferInv /\ FilesInv
  BY DEF IInv
<1>2. CASE TBegin
  <2>1. LoopInv'
    BY <1>1, <1>2, BeginKeeps DEF TBegin
  <2>2. loop'.pc = "propose" /\ lines' = <<>> /\ attempts' = <<>> /\ transcript_buf' = <<>>
    BY <1>2 DEF TBegin, Begin, NewLoop
  <2>3. BufferInv'
    BY <2>2, EmptyBuffer
  <2>4. FilesInv'
    BY <1>1, <1>2, <2>2 DEF TBegin, FilesInv, Ended, At
  <2> QED
    BY <2>1, <2>3, <2>4 DEF IInv
<1>3. CASE TRun
  <2>1. LoopInv' /\ BufferInv'
    BY <1>1, <1>3, RunKeeps, HeardKeeps DEF TRun
  <2>2. loop'.pc = "ready" => Ended'
    BY <1>1, <1>3, RunCounts DEF TRun
  <2>3. FilesInv'
    BY <1>1, <1>3, <2>2 DEF TRun, FilesInv, Ended, At
  <2> QED
    BY <2>1, <2>3 DEF IInv
<1>4. CASE Open
  <2>1. UNCHANGED <<vars, names, transcript_buf>> /\ files' = Opened /\ saving' = "writing"
        /\ saving = "opening"
    BY <1>4 DEF Open
  <2>2. LoopInv' /\ BufferInv'
    BY <1>1, <2>1, SameLoop DEF BufferInv, Turns, Working, Ended, At, vars
  <2>3. FilesInv'
    <3>1. files' \in [DOMAIN files' -> Conversations \cup {Torn}] /\ File \in DOMAIN files'
      BY <1>1, <2>1 DEF FilesInv, Opened
    <3>2. File' = File /\ (Ended' <=> Ended)
      BY <2>1 DEF File, Ended, At, vars
    <3> QED
      BY <1>1, <2>1, <3>1, <3>2 DEF FilesInv
  <2> QED
    BY <2>2, <2>3 DEF IInv
<1>5. CASE Write
  <2>1. UNCHANGED <<vars, names, transcript_buf>> /\ saving' = "no" /\ saving = "writing"
        /\ files' = [files EXCEPT ![File] = transcript_buf]
    BY <1>5 DEF Write
  <2>2. LoopInv' /\ BufferInv'
    BY <1>1, <2>1, SameLoop DEF BufferInv, Turns, Working, Ended, At, vars
  <2>3. FilesInv'
    <3>1. File' = File /\ (Ended' <=> Ended) /\ File \in DOMAIN files
      BY <1>1, <2>1 DEF File, Ended, At, vars, FilesInv
    <3>2. transcript_buf \in Conversations
      BY <1>1 DEF BufferInv
    <3>3. files' \in [DOMAIN files' -> Conversations \cup {Torn}] /\ File \in DOMAIN files'
          /\ files'[File] = transcript_buf
      BY <1>1, <2>1, <3>1, <3>2 DEF FilesInv
    <3> QED
      BY <2>1, <3>1, <3>3 DEF FilesInv
  <2> QED
    BY <2>2, <2>3 DEF IInv
<1>6. CASE SaveFails
  <2>1. LoopInv'
    BY <1>1, <1>6, SaveFailsKeeps
  <2>2. loop'.pc = "aborted" /\ saving' = "no" /\ UNCHANGED <<transcript_buf, files>>
    BY <1>1, <1>6 DEF SaveFails, LoopInv, Typed, LoopType
  <2>3. BufferInv' /\ FilesInv'
    BY <1>1, <2>2 DEF BufferInv, Turns, FilesInv, Working, Ended, At
  <2> QED
    BY <2>1, <2>3 DEF IInv
<1>7. CASE TNewRun
  <2>1. LoopInv' /\ loop' = NewLoop /\ transcript_buf' = <<>> /\ files' = <<>> /\ saving' = "no"
    BY <1>1, <1>7, NewRunKeeps DEF TNewRun, NextTask, NextCommand, NewRun
  <2>2. loop'.pc = "ready" /\ loop'.kind = "none" /\ ~Ended'
    BY <2>1 DEF NewLoop, Ended
  <2>3. BufferInv'
    BY <2>1, <2>2, EmptyBuffer
  <2>4. FilesInv'
    BY <2>1, <2>2, NoFiles DEF FilesInv
  <2> QED
    BY <2>1, <2>3, <2>4 DEF IInv
<1>8. CASE UNCHANGED <<vars, tvars>>
  <2>1. UNCHANGED vars /\ UNCHANGED tvars
    BY <1>8
  <2>2. LoopInv' /\ BufferInv' /\ FilesInv'
    BY <1>1, <2>1, SameLoop
       DEF BufferInv, Turns, FilesInv, File, Working, Ended, At, vars, tvars
  <2> QED
    BY <2>2 DEF IInv
<1> QED
  BY <1>2, <1>3, <1>4, <1>5, <1>6, <1>7, <1>8 DEF TNext

LEMMA Inductive == TSpec => []IInv
BY InitT, StepT, PTL DEF TSpec

-----------------------------------------------------------------------------
(* Every state is well typed, and no transcript is longer than a prompt    *)
(* and an answer for every round.                                          *)
THEOREM TypeCorrect == TSpec => []TTypeOK
<1>1. IInv => TTypeOK
  <2> SUFFICES ASSUME IInv PROVE TTypeOK
    OBVIOUS
  <2>1. TypeOK
    BY LoopFields DEF IInv, LoopInv, Typed, LastType, TypeOK, IdOrNone, Iters
  <2>2. \A f \in DOMAIN files : files[f] # Torn => files[f] \in Conversations
    BY DEF IInv, FilesInv
  <2>3. \A m \in Conversations :
          Len(m) <= 2 * (MaxRepair + 1) /\ \A i \in DOMAIN m : m[i] \in Messages
    BY DEF Conversations
  <2> QED
    BY <2>1, <2>2, <2>3 DEF TTypeOK, IInv, FilesInv
<1> QED
  BY <1>1, Inductive, PTL

(* The outcome, the trace, the prompts, the transcript and the money of an *)
(* obligation tell one story: what _run_sync returns, what it logs, what   *)
(* save_transcript leaves and what the guard counted.                      *)
THEOREM RecordsAlwaysAgree == TSpec => []RecordsAgree
<1>1. IInv => RecordsAgree
  <2> SUFFICES ASSUME IInv PROVE RecordsAgree
    OBVIOUS
  <2>1. LoopInv /\ BufferInv /\ FilesInv
    BY DEF IInv
  <2>2. TraceExplainsOutcome
    <3>1. OutcomeMatchesTrace /\ FinalArtifactIsLatest
      <4>1. CASE Ended
        BY <2>1, <4>1 DEF LoopInv, EndedInv
      <4>2. CASE ~Ended
        BY <4>2 DEF OutcomeMatchesTrace, FinalArtifactIsLatest
      <4> QED
        BY <4>1, <4>2
    <3>2. RepairsFollowLatest
      <4>1. CASE Working
        BY <2>1, <4>1 DEF LoopInv, WorkingInv
      <4>2. CASE ~Working
        BY <4>2 DEF RepairsFollowLatest, Working, At
      <4> QED
        BY <4>1, <4>2
    <3> QED
      BY <3>1, <3>2 DEF TraceExplainsOutcome
  <2>3. TranscriptMatchesTrace
    <3> SUFFICES ASSUME Ended, saving = "no" PROVE TranscriptMatchesTrace
      BY DEF TranscriptMatchesTrace
    <3>1. files[File] = transcript_buf /\ Turns(transcript_buf)
      BY <2>1 DEF FilesInv, BufferInv
    <3>2. /\ Len(lines) \in Nat /\ Len(attempts) \in Nat /\ MaxRepair \in Nat
          /\ Len(lines) <= MaxRepair + 1
          /\ Len(attempts) <= Len(lines) /\ Len(lines) <= Len(attempts) + 1
      BY <2>1, <2>2, OracleAssumption
         DEF LoopInv, Typed, EndedInv, TraceExplainsOutcome, OutcomeMatchesTrace
    <3>3. Len(transcript_buf) = Len(lines) + Len(attempts)
      <4>1. loop.pc = "ready"
        BY DEF Ended, At
      <4> QED
        BY <2>1, <3>2, <4>1 DEF BufferInv
    <3>4. ASSUME NEW i \in 1 .. Len(lines)
          PROVE  transcript_buf[2 * i - 1] = Prompt(lines[i].iter)
      <4>1. /\ i - 1 \in Iters /\ 2 * (i - 1) + 1 <= Len(transcript_buf)
            /\ 2 * (i - 1) + 1 = 2 * i - 1
        BY <3>2, <3>3 DEF Iters
      <4>2. lines[i].iter = i - 1
        BY <2>1 DEF LoopInv, TraceInv
      <4> QED
        BY <3>1, <4>1, <4>2 DEF Turns
    <3>5. ASSUME NEW i \in 1 .. Len(attempts)
          PROVE  transcript_buf[2 * i] = Answer(attempts[i].artifact)
      <4>1. /\ i - 1 \in Iters /\ 2 * (i - 1) + 2 <= Len(transcript_buf)
            /\ 2 * (i - 1) + 2 = 2 * i
        BY <3>2, <3>3 DEF Iters
      <4>2. attempts[i].artifact = i - 1
        BY <2>1 DEF LoopInv, TraceInv
      <4> QED
        BY <3>1, <4>1, <4>2 DEF Turns
    <3>6. loop.final # None => transcript_buf[2 * Len(attempts)] = Answer(loop.final)
      <4>1. /\ loop.final # None => loop.final = attempts[Len(attempts)].artifact
            /\ loop.final # None => attempts # <<>>
        BY <2>2 DEF TraceExplainsOutcome, FinalArtifactIsLatest
      <4>2. attempts # <<>> => Len(attempts) \in 1 .. Len(attempts)
        BY <2>1 DEF LoopInv, Typed
      <4> QED
        BY <3>5, <4>1, <4>2
    <3> QED
      BY <3>1, <3>3, <3>4, <3>5, <3>6 DEF TranscriptMatchesTrace
  <2>4. TotalIsBilled
    <3>1. (Working \/ At("aborted")) <=> ~At("ready")
      BY <2>1, LoopFields DEF LoopInv, Working, At
    <3>2. reported + (IF Working \/ At("aborted") THEN loop.total ELSE 0) = guard.spent
      BY <2>1, <3>1 DEF LoopInv, MoneyInv
    <3>3. Ended => loop.total = SumOfCosts(lines)
      <4> SUFFICES ASSUME Ended PROVE loop.total = SumOfCosts(lines)
        OBVIOUS
      <4>1. loop.total \in Nat /\ loop.total - Pending = loop.total
        BY <2>1, LoopFields DEF LoopInv, Pending, Ended, At
      <4>2. SumIs(lines, loop.total)
        BY <2>1, <4>1 DEF LoopInv, MoneyInv
      <4> QED
        BY <4>2, SumIsSum
    <3> QED
      BY <3>2, <3>3 DEF TotalIsBilled
  <2> QED
    BY <2>2, <2>3, <2>4 DEF RecordsAgree
<1> QED
  BY <1>1, Inductive, PTL

(* A verdict's line joins the rows of its own calls, although the ids it   *)
(* is given are read from globals of the process.                          *)
THEOREM JoinsAreOwn == TSpec => []VerdictsJoinOwnCalls
<1>1. IInv => VerdictsJoinOwnCalls
  <2> SUFFICES ASSUME IInv PROVE VerdictsJoinOwnCalls
    OBVIOUS
  <2>1. DOMAIN lines = 1 .. Len(lines)
    BY DEF IInv, LoopInv, Typed
  <2> QED
    BY <2>1 DEF IInv, LoopInv, TraceInv, VerdictsJoinOwnCalls
<1> QED
  BY <1>1, Inductive, PTL

-----------------------------------------------------------------------------
(* OracleLoop.run keeps ObligationContract: a proposal at a time, a        *)
(* verdict on each, "gave_up" on the last and never sooner, and a total    *)
(* that only grows (loop.py 85-372).                                       *)
THEOREM Refinement == TSpec => ImplementsContract
<1>1. TInit => Contract!Init
  BY DEF TInit, Init, NewLoop, Contract!Init, Working, At
<1>2. IInv /\ IInv' /\ [TNext]_<<vars, tvars>> => [Contract!Next]_(Contract!vars)
  <2> SUFFICES ASSUME IInv, IInv', [TNext]_<<vars, tvars>>
               PROVE  [Contract!Next]_(Contract!vars)
    OBVIOUS
  <2> USE DEF Contract!vars
  <2>1. /\ loop \in LoopType /\ attempts \in Seq(AttemptType) /\ Len(attempts) \in Nat
        /\ loop.total \in Nat /\ MaxRepair \in Nat /\ Typed /\ loop.iter \in Nat
        /\ loop.iter <= MaxRepair
    BY LoopFields DEF IInv, LoopInv, Typed
  <2>2. \A a : Len(Append(attempts, a)) = Len(attempts) + 1
    BY <2>1
  <2>3. Working => Len(attempts) = loop.iter
    BY DEF IInv, LoopInv, WorkingInv
  <2>4. CASE TBegin
    <3>1. /\ loop.pc = "ready" /\ loop'.pc = "propose" /\ loop'.total = 0
          /\ attempts' = <<>> /\ Len(attempts') = 0
      BY <2>4 DEF TBegin, Begin, NewLoop, At
    <3> QED
      BY <2>1, <3>1 DEF Contract!Next, Contract!Start, Working, At, LoopType, Kinds
  <2>5. ASSUME NEW cost \in Nat \cup {None}, Proposed(cost), At("propose")
        PROVE  Contract!Propose
    <3>1. /\ loop'.pc = "compile" /\ attempts' = attempts /\ loop.pc = "propose"
          /\ loop'.total = loop.total + Usd(cost) /\ Usd(cost) \in Nat
      BY <2>1, <2>5 DEF Proposed, LoopType, At, Usd
    <3> QED
      BY <2>1, <2>3, <3>1 DEF Contract!Propose, Working, At
  <2>6. ASSUME NEW kind \in {"llm_error", "budget_exceeded"}, NEW ids,
               NEW cost \in Nat \cup {None}, kind = "llm_error" => cost = None,
               NotProposed(kind, ids, cost), At("propose")
        PROVE  Contract!NoProposal
    <3>1. /\ loop'.pc = "ready" /\ attempts' = attempts /\ loop.pc = "propose"
          /\ loop'.kind = kind
          /\ loop'.total = loop.total + Usd(cost) /\ Usd(cost) \in Nat
          /\ kind = "llm_error" => Usd(cost) = 0
      BY <2>1, <2>6 DEF NotProposed, Return, LoopType, At, Usd
    <3> QED
      BY <2>1, <2>3, <3>1 DEF Contract!NoProposal, Working, At
  <2>7. ASSUME NEW op \in {"compile", "check"}, At(op), Repair(op),
               Len(attempts') = Len(attempts) + 1
        PROVE  Contract!Verdict
    <3>1. /\ loop.pc = op /\ loop'.total = loop.total
          /\ \/ loop'.pc = "propose" /\ loop.iter < MaxRepair
             \/ loop'.pc = "ready" /\ loop'.kind = "gave_up" /\ loop.iter = MaxRepair
      <4>1. CASE loop.iter >= MaxRepair
        <5>1. loop.iter = MaxRepair /\ Return("gave_up", loop.artifact, loop.total)
          BY <2>1, <2>7, <4>1 DEF Repair
        <5> QED
          BY <2>1, <2>7, <5>1 DEF Return, LoopType, At
      <4>2. CASE ~(loop.iter >= MaxRepair)
        <5>1. loop'.pc = "propose" /\ loop'.total = loop.total
          BY <2>1, <2>7, <4>2 DEF Repair, LoopType
        <5>2. loop.pc = op /\ loop.iter < MaxRepair
          BY <2>1, <2>7, <4>2 DEF At
        <5> QED
          BY <5>1, <5>2
      <4> QED
        BY <4>1, <4>2
    <3> QED
      BY <2>1, <2>3, <2>7, <3>1 DEF Contract!Verdict, Working, At
  <2>8. ASSUME NEW kind \in {"solved", "prover_error"}, loop.pc \in {"compile", "check"},
               NEW final, Return(kind, final, loop.total), Len(attempts') = Len(attempts) + 1
        PROVE  Contract!Verdict
    <3>1. loop'.total = loop.total /\ loop'.pc = "ready" /\ loop'.kind = kind
      BY <2>1, <2>8 DEF Return, LoopType
    <3> QED
      BY <2>1, <2>3, <2>8, <3>1 DEF Contract!Verdict, Working, At
  <2>9. CASE TRun
    <3>1. CASE CompleteHit
      BY <2>5, <3>1 DEF CompleteHit, Contract!Next
    <3>2. ASSUME NEW bill \in Bills, CompletePaid(bill)
          PROVE  Contract!Next
      <4>1. bill.cost \in Nat /\ AttemptedCost(budget, bill) \in Nat
        BY OracleAssumption DEF BillType, AttemptedCost
      <4> QED
        BY <2>5, <2>6, <3>2, <4>1 DEF CompletePaid, Contract!Next
    <3>3. CASE CompleteRefused \/ CompleteFails
      BY <2>6, <3>3 DEF CompleteRefused, CompleteFails, Contract!Next
    <3>4. CASE CompleteAborts
      <4>1. /\ loop.pc = "propose" /\ loop'.pc = "aborted" /\ loop'.total = loop.total
            /\ attempts' = attempts
        BY <2>1, <3>4 DEF CompleteAborts, At, LoopType
      <4> QED
        BY <4>1 DEF Contract!Next, Contract!Abort, Working, At
    <3>5. CASE CompileRaises \/ CheckRaises \/ CheckOk
      BY <2>2, <2>8, <3>5 DEF CompileRaises, CheckRaises, CheckOk, At, Contract!Next
    <3>6. CASE CompileFails \/ CheckFails
      BY <2>2, <2>7, <3>6 DEF CompileFails, CheckFails, Contract!Next
    <3>7. CASE CompileOk
      <4>1. /\ loop.pc = "compile" /\ loop'.pc = "check" /\ loop'.total = loop.total
            /\ attempts' = attempts
        BY <2>1, <3>7 DEF CompileOk, At, LoopType
      <4> QED
        BY <4>1 DEF Working, At
    <3> QED
      BY <2>9, <3>1, <3>2, <3>3, <3>4, <3>5, <3>6, <3>7 DEF TRun, Run
  <2>10. CASE SaveFails
    <3>1. /\ loop.pc = "ready" /\ loop.kind # "none" /\ loop'.pc = "aborted"
          /\ loop'.total = loop.total /\ attempts' = attempts
      BY <2>1, <2>10 DEF SaveFails, IInv, FilesInv, Ended, At, LoopType
    <3> QED
      BY <2>1, <3>1 DEF Contract!Next, Contract!Abort, Working, At, LoopType, Kinds
  <2>11. CASE TNewRun
    <3>1. /\ loop.pc \in {"ready", "aborted"} /\ loop'.pc = "ready" /\ loop'.kind = "none"
          /\ loop'.total = 0 /\ attempts' = <<>> /\ Len(attempts') = 0
      BY <2>11 DEF TNewRun, NextTask, NextCommand, NewRun, NewLoop, At
    <3> QED
      BY <2>1, <3>1 DEF Contract!Next, Contract!Restart, Working, At, LoopType, Kinds
  <2>12. CASE Open \/ Write \/ UNCHANGED <<vars, tvars>>
    BY <2>12 DEF Open, Write, vars, Working, At
  <2> QED
    BY <2>4, <2>9, <2>10, <2>11, <2>12 DEF TNext
<1> QED
  BY <1>1, <1>2, Inductive, PTL DEF TSpec, ImplementsContract, Contract!Spec
=============================================================================
