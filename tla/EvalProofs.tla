----------------------------- MODULE EvalProofs -----------------------------
(***************************************************************************)
(* What kalinov eval promises, for every suite, matrix, budget and         *)
(* experiment file (Eval).                                                 *)
(*                                                                         *)
(* The runner. What the providers charged is in five places at different   *)
(* times: the obligation under way, the task, the manifests on disk, the   *)
(* results in memory and the rows of the report. BooksInv says which sums  *)
(* agree in which state; Tallied and Judged say that counts of solved      *)
(* obligations and verdicts of tasks cannot drift apart. Sums are a        *)
(* recursion over the rows, and what a recursion computes needs induction; *)
(* Sound says instead that the recursion has a solution and that all its   *)
(* solutions end alike, which one more row preserves.                      *)
(*                                                                         *)
(* The plan. A repeated label ends in the number of labels given so far,   *)
(* which is new because every number given before was smaller. The         *)
(* configurations so far and the combinations still to come are always the *)
(* product of the matrix, and the product has every choice of its four     *)
(* dimensions (Place) and nothing else (Placed).                           *)
(***************************************************************************)
EXTENDS Eval, CommonProofs, FiniteSetTheorems, SequenceTheorems, TLAPS

(* s is the sums of f up to n: a solution of the recursion of SumTo. *)
IsSum(s, f, n) == s = [k \in 0 .. n |-> IF k = 0 THEN 0 ELSE s[k - 1] + f[k]]

(* The recursion has a solution, and all its solutions end alike. *)
Sound(f, n) ==
  /\ \E s : IsSum(s, f, n)
  /\ \A s, t : IsSum(s, f, n) /\ IsSum(t, f, n) => s[n] = t[n]

-----------------------------------------------------------------------------
LEMMA SumEnds ==
  ASSUME NEW f, NEW n, Sound(f, n), NEW s, IsSum(s, f, n)
  PROVE  SumTo(f, n) = s[n]
<1>1. SumTo(f, n) = (CHOOSE t : IsSum(t, f, n))[n]
  BY DEF SumTo, IsSum
<1>2. IsSum(CHOOSE t : IsSum(t, f, n), f, n)
  BY Zenon DEF Sound
<1> QED
  BY <1>1, <1>2 DEF Sound

LEMMA SumOfNone ==
  ASSUME NEW f
  PROVE  Sound(f, 0) /\ SumTo(f, 0) = 0
<1> DEFINE zero == [k \in 0 .. 0 |-> 0]
<1>1. \A k \in 0 .. 0 : k = 0
  OBVIOUS
<1>2. IsSum(zero, f, 0)
  BY <1>1 DEF IsSum
<1>3. \A s : IsSum(s, f, 0) => s[0] = 0
  BY <1>1 DEF IsSum
<1>4. zero[0] = 0
  OBVIOUS
<1> HIDE DEF zero
<1>5. Sound(f, 0)
  BY <1>2, <1>3 DEF Sound
<1> QED
  BY <1>2, <1>4, <1>5, SumEnds

(* A sum grows with its sequence. *)
LEMMA SumGrows ==
  ASSUME NEW f, NEW g, NEW n \in Nat, Sound(f, n), \A k \in 1 .. n : g[k] = f[k]
  PROVE  Sound(g, n + 1) /\ SumTo(g, n + 1) = SumTo(f, n) + g[n + 1]
<1>1. PICK s : IsSum(s, f, n)
  BY DEF Sound
<1> DEFINE t == [k \in 0 .. n + 1 |-> IF k = n + 1 THEN s[n] + g[n + 1] ELSE s[k]]
<1>2. IsSum(t, g, n + 1)
  <2>1. ASSUME NEW k \in 0 .. n + 1
        PROVE  t[k] = IF k = 0 THEN 0 ELSE t[k - 1] + g[k]
    <3>1. CASE k = n + 1
      BY <3>1
    <3>2. CASE k # n + 1
      <4>1. k \in 0 .. n /\ s[k] = IF k = 0 THEN 0 ELSE s[k - 1] + f[k]
        BY <1>1, <3>2 DEF IsSum
      <4>2. k # 0 => k - 1 \in 0 .. n + 1 /\ k - 1 # n + 1 /\ g[k] = f[k]
        BY <4>1
      <4> QED
        BY <3>2, <4>1, <4>2
    <3> QED
      BY <3>1, <3>2
  <2> QED
    BY <2>1 DEF IsSum
<1>3. t[n + 1] = s[n] + g[n + 1]
  OBVIOUS
<1> HIDE DEF t
<1>4. ASSUME NEW u, IsSum(u, g, n + 1)
      PROVE  u[n + 1] = s[n] + g[n + 1]
  <2> DEFINE v == [k \in 0 .. n |-> u[k]]
  <2>1. \A k \in 0 .. n + 1 : u[k] = IF k = 0 THEN 0 ELSE u[k - 1] + g[k]
    BY <1>4 DEF IsSum
  <2>2. IsSum(v, f, n)
    <3>1. ASSUME NEW k \in 0 .. n
          PROVE  v[k] = IF k = 0 THEN 0 ELSE v[k - 1] + f[k]
      <4>1. k \in 0 .. n + 1 /\ (k # 0 => k - 1 \in 0 .. n /\ g[k] = f[k])
        OBVIOUS
      <4> QED
        BY <2>1, <4>1
    <3> QED
      BY <3>1 DEF IsSum
  <2>3. v[n] = u[n]
    OBVIOUS
  <2>4. u[n] = s[n]
    BY <1>1, <2>2, <2>3 DEF Sound
  <2>5. n + 1 \in 0 .. n + 1 /\ n + 1 # 0 /\ n + 1 - 1 = n
    OBVIOUS
  <2> QED
    BY <2>1, <2>4, <2>5
<1>5. Sound(g, n + 1)
  BY <1>2, <1>4 DEF Sound
<1>6. SumTo(f, n) = s[n] /\ SumTo(g, n + 1) = t[n + 1]
  BY <1>1, <1>2, <1>5, SumEnds
<1> QED
  BY <1>3, <1>5, <1>6

(* How many of the first n numbers have a property: all of them, or less.  *)
LEMMA CountedAll ==
  ASSUME NEW n \in Nat, NEW S \in SUBSET (1 .. n)
  PROVE  /\ IsFiniteSet(S) /\ Cardinality(S) \in 0 .. n
         /\ Cardinality(S) = n <=> S = 1 .. n
         /\ Cardinality(S) > 0 <=> S # {}
<1>1. IsFiniteSet(1 .. n) /\ Cardinality(1 .. n) = n
  BY FS_Interval
<1>2. /\ IsFiniteSet(S) /\ Cardinality(S) <= n
      /\ Cardinality(S) = n => S = 1 .. n
  BY <1>1, FS_Subset
<1>3. Cardinality(S) \in Nat
  BY <1>2, FS_CardinalityType
<1>4. Cardinality(S) = 0 <=> S = {}
  BY <1>2, FS_EmptySet
<1>5. S = 1 .. n => Cardinality(S) = n
  BY <1>1, Zenon
<1>6. Cardinality(S) \in 0 .. n /\ (Cardinality(S) > 0 <=> Cardinality(S) # 0)
  BY <1>2, <1>3
<1> QED
  BY <1>2, <1>4, <1>5, <1>6, Zenon

-----------------------------------------------------------------------------
(* What the books hold. *)
TaskType ==
  [expected : Expected, outcomes : Seq(Kinds), obligations_total : Nat,
   obligations_solved : Nat, total_cost_usd : Nat, matched_expected : BOOLEAN]

ManifestType ==
  [config : Nat, task : Nat, obligations_total : Nat, obligations_solved : Nat,
   total_cost_usd : Nat]

Typed ==
  /\ TypeOK
  /\ manifests \in Seq(ManifestType)
  /\ task_results \in Seq(TaskType)
  /\ results \in Seq(Seq(TaskType))
  /\ pc = "round" => todo > 0

(* The guard has counted what the providers charged, and has let no call   *)
(* through that could pass a cap by more than itself.                      *)
GuardInv ==
  /\ guard.spent = billed /\ guard.calls = counted
  /\ budget.max_cost_usd # None => billed <= budget.max_cost_usd + MaxBill
  /\ budget.max_calls # None => counted <= budget.max_calls
  /\ GuardUninstalled

RowCosts == [c \in DOMAIN results |-> CostOf(results[c])]

(* Spending of the task under way, and of the configuration under way. *)
Unwritten == IF pc \in {"obligation", "round"} THEN sum_usd + cost ELSE 0
Unfiled == IF pc \in {"config", "done"} THEN 0 ELSE CostOf(task_results)

Summed ==
  /\ Sound(Costs(manifests), Len(manifests)) /\ CostOf(manifests) \in Nat
  /\ Sound(Costs(task_results), Len(task_results)) /\ CostOf(task_results) \in Nat
  /\ Sound(RowCosts, Len(results)) /\ SumTo(RowCosts, Len(results)) \in Nat

(* The manifests and the task under way are what was charged, and the      *)
(* results are what the manifests are.                                     *)
BooksInv ==
  /\ Summed
  /\ pc \notin {"round", "failed"} => cost = 0
  /\ pc = "spec" => sum_usd = 0
  /\ pc # "failed" => CostOf(manifests) + Unwritten = billed
  /\ pc # "failed" => SumTo(RowCosts, Len(results)) + Unfiled = CostOf(manifests)

(* What the result of the i-th task says is what its outcomes are. *)
Judged(tr, i) ==
  /\ tr.expected = Suite[i]
  /\ tr.obligations_total = Len(tr.outcomes)
  /\ tr.obligations_solved = Count("solved", tr.outcomes)
  /\ tr.matched_expected = Matches(tr.expected, tr.outcomes)

(* The obligations of tasks, and that all are solved exactly if every task's are. *)
Tallied(trs) ==
  LET totals == SumTo(Totals(trs), Len(trs))
      solved == SumTo(Solved(trs), Len(trs))
  IN  /\ Sound(Totals(trs), Len(trs)) /\ Sound(Solved(trs), Len(trs))
      /\ totals \in Nat /\ solved \in Nat /\ solved <= totals
      /\ solved = totals <=>
           \A i \in 1 .. Len(trs) : trs[i].obligations_solved = trs[i].obligations_total

HasError(tr) == \E j \in DOMAIN tr.outcomes : tr.outcomes[j] \in ErrorKinds

(* The tasks so far are the first of the suite, and the results so far are *)
(* of whole suites.                                                        *)
TasksInv ==
  /\ Len(task_results) <= Len(Suite)
  /\ pc \in {"spec", "obligation", "round"} => Len(task_results) < Len(Suite)
  /\ \A i \in 1 .. Len(task_results) : Judged(task_results[i], i)
  /\ Tallied(task_results)

ResultsInv ==
  /\ Len(results) <= Configs
  /\ pc \in {"task", "spec", "obligation", "round"} => Len(results) < Configs
  /\ \A c \in 1 .. Len(results) :
       /\ Len(results[c]) = Len(Suite)
       /\ \A i \in 1 .. Len(Suite) : Judged(results[c][i], i)
       /\ Tallied(results[c])
  /\ hard_failure <=>
       \E c \in 1 .. Len(results) : \E i \in 1 .. Len(results[c]) : HasError(results[c][i])

ReportInv ==
  /\ pc # "done" => report = None
  /\ pc = "done" =>
       /\ Len(results) = Configs
       /\ report = [c \in DOMAIN results |->
                      [metrics |-> Aggregate(results[c]), task_results |-> results[c]]]

RunInv == Typed /\ GuardInv /\ BooksInv /\ TasksInv /\ ResultsInv /\ ReportInv

-----------------------------------------------------------------------------
LEMMA Fields ==
  ASSUME Typed
  PROVE  /\ budget \in BudgetType /\ guard \in GuardType /\ MaxBill \in Nat
         /\ asked.experiment \in BudgetType /\ asked.max_cost_usd \in Cap
         /\ guard.spent \in Nat /\ guard.calls \in Nat
         /\ billed \in Nat /\ counted \in Nat /\ cost \in Nat /\ sum_usd \in Nat
         /\ rounds \in Nat /\ todo \in Nat /\ extracted \in Nat
         /\ MaxObligations \in Nat /\ MaxRounds \in Nat \ {0}
         /\ Len(manifests) \in Nat /\ Len(task_results) \in Nat /\ Len(results) \in Nat
         /\ Suite \in Seq(Expected) /\ Len(Suite) \in Nat /\ Configs \in Nat
<1>1. /\ asked \in [experiment : BudgetType, max_cost_usd : Cap]
      /\ MaxBill \in Nat /\ MaxObligations \in Nat /\ MaxRounds \in Nat \ {0}
      /\ Suite \in Seq(Expected) /\ Configs \in Nat
  BY EvalAssumption DEF Typed, TypeOK
<1>2. asked.experiment \in BudgetType /\ asked.max_cost_usd \in Cap
  BY <1>1
<1>3. budget \in BudgetType
  BY <1>2 DEF budget, BudgetType
<1>4. /\ guard \in GuardType /\ cost \in Nat /\ sum_usd \in Nat /\ billed \in Nat /\ counted \in Nat
      /\ rounds \in 0 .. MaxRounds /\ todo \in 0 .. MaxObligations
      /\ extracted \in 0 .. MaxObligations
      /\ manifests \in Seq(ManifestType) /\ task_results \in Seq(TaskType)
      /\ results \in Seq(Seq(TaskType))
  BY DEF Typed, TypeOK
<1>5. guard.spent \in Nat /\ guard.calls \in Nat
  BY <1>4 DEF GuardType
<1>6. rounds \in Nat /\ todo \in Nat /\ extracted \in Nat
  BY <1>1, <1>4
<1>7. /\ Len(manifests) \in Nat /\ Len(task_results) \in Nat /\ Len(results) \in Nat
      /\ Len(Suite) \in Nat
  BY <1>1, <1>4
<1> QED
  BY <1>1, <1>2, <1>3, <1>4, <1>5, <1>6, <1>7, Zenon

(* One more element. *)
LEMMA Appended ==
  ASSUME NEW S, NEW s \in Seq(S), NEW e \in S
  PROVE  /\ Append(s, e) \in Seq(S)
         /\ Len(Append(s, e)) = Len(s) + 1 /\ Len(s) \in Nat
         /\ DOMAIN s = 1 .. Len(s) /\ DOMAIN Append(s, e) = 1 .. Len(s) + 1
         /\ \A i \in 1 .. Len(s) : Append(s, e)[i] = s[i]
         /\ Append(s, e)[Len(s) + 1] = e
  OBVIOUS

LEMMA CountType ==
  ASSUME NEW kinds \in Seq(Kinds), NEW kind
  PROVE  /\ Len(kinds) \in Nat /\ DOMAIN kinds = 1 .. Len(kinds)
         /\ Count(kind, kinds) \in 0 .. Len(kinds)
         /\ Count(kind, kinds) = Len(kinds) <=> \A i \in DOMAIN kinds : kinds[i] = kind
         /\ Count(kind, kinds) > 0 <=> \E i \in DOMAIN kinds : kinds[i] = kind
<1> DEFINE S == {i \in DOMAIN kinds : kinds[i] = kind}
<1>1. Len(kinds) \in Nat /\ DOMAIN kinds = 1 .. Len(kinds)
  OBVIOUS
<1>2. S \in SUBSET (1 .. Len(kinds)) /\ Count(kind, kinds) = Cardinality(S)
  BY <1>1 DEF Count
<1>3. S = 1 .. Len(kinds) <=> \A i \in DOMAIN kinds : kinds[i] = kind
  BY <1>1, Zenon
<1>4. S # {} <=> \E i \in DOMAIN kinds : kinds[i] = kind
  BY Zenon
<1> HIDE DEF S
<1>5. /\ Cardinality(S) \in 0 .. Len(kinds)
      /\ Cardinality(S) = Len(kinds) <=> S = 1 .. Len(kinds)
      /\ Cardinality(S) > 0 <=> S # {}
  BY <1>1, <1>2, CountedAll
<1> QED
  BY <1>1, <1>2, <1>3, <1>4, <1>5, Zenon

(* The result of the task that ends. *)
LEMMA ResultType ==
  ASSUME Typed, Len(task_results) < Len(Suite)
  PROVE  /\ TaskResult \in TaskType /\ Manifest \in ManifestType
         /\ Judged(TaskResult, Len(task_results) + 1)
         /\ TaskResult.total_cost_usd = sum_usd /\ Manifest.total_cost_usd = sum_usd
         /\ TaskResult.obligations_total \in Nat /\ TaskResult.obligations_solved \in Nat
         /\ TaskResult.obligations_solved <= TaskResult.obligations_total
<1> DEFINE e == Suite[Len(task_results) + 1]
           n == Count("solved", outcomes)
           m == Matches(e, outcomes)
<1>1. e \in Expected
  <2>1. Suite \in Seq(Expected) /\ Len(task_results) \in Nat /\ Len(Suite) \in Nat
    BY Fields, Zenon
  <2> QED
    BY <2>1
<1>2. outcomes \in Seq(Kinds)
  BY DEF Typed, TypeOK
<1>3. n \in Nat /\ Len(outcomes) \in Nat /\ n <= Len(outcomes)
  BY <1>2, CountType
<1>4. m \in BOOLEAN
  BY Zenon DEF Matches
<1>5. TaskResult = [expected |-> e, outcomes |-> outcomes, obligations_total |-> Len(outcomes),
                    obligations_solved |-> n, total_cost_usd |-> sum_usd, matched_expected |-> m]
  BY Zenon DEF TaskResult
<1>6. /\ Len(results) + 1 \in Nat /\ Len(task_results) + 1 \in Nat /\ extracted \in Nat
      /\ sum_usd \in Nat
  <2>1. Len(results) \in Nat /\ Len(task_results) \in Nat /\ extracted \in Nat /\ sum_usd \in Nat
    BY Fields, Zenon
  <2> QED
    BY <2>1
<1>7. Manifest = [config |-> Len(results) + 1, task |-> Len(task_results) + 1,
                  obligations_total |-> extracted, obligations_solved |-> n,
                  total_cost_usd |-> sum_usd]
  BY Zenon DEF Manifest
<1> HIDE DEF e, n, m
<1>8. TaskResult \in TaskType
  BY <1>1, <1>2, <1>3, <1>4, <1>5, <1>6 DEF TaskType
<1>9. Manifest \in ManifestType
  BY <1>3, <1>6, <1>7 DEF ManifestType
<1>10. /\ TaskResult.expected = e /\ TaskResult.outcomes = outcomes
       /\ TaskResult.obligations_total = Len(outcomes)
       /\ TaskResult.obligations_solved = n /\ TaskResult.matched_expected = m
       /\ TaskResult.total_cost_usd = sum_usd
  BY <1>5
<1>11. Manifest.total_cost_usd = sum_usd
  BY <1>7
<1>12. Judged(TaskResult, Len(task_results) + 1)
  BY <1>10 DEF Judged, e, n, m
<1> QED
  BY <1>3, <1>8, <1>9, <1>10, <1>11, <1>12

-----------------------------------------------------------------------------
(* Types. An outcome is one of an obligation under way. *)
LEMMA OutcomeTyped ==
  ASSUME Typed, pc = "round", NEW kind \in Kinds, NEW total \in Nat, Outcome(kind, total)
  PROVE  /\ outcomes' \in Seq(Kinds) /\ todo' \in 0 .. MaxObligations
         /\ sum_usd' \in Nat /\ rounds' \in 0 .. MaxRounds /\ cost' \in Nat
         /\ pc' = "obligation" /\ extracted' \in 0 .. MaxObligations
         /\ UNCHANGED <<asked, installed, task_results, results, hard_failure, manifests, report>>
<1>1. /\ outcomes \in Seq(Kinds) /\ todo \in 0 .. MaxObligations /\ todo > 0
      /\ extracted \in 0 .. MaxObligations
  BY DEF Typed, TypeOK
<1>2. sum_usd \in Nat /\ MaxRounds \in Nat /\ MaxObligations \in Nat
  BY Fields
<1>3. outcomes' \in Seq(Kinds)
  BY <1>1 DEF Outcome
<1>4. todo' \in 0 .. MaxObligations /\ sum_usd' \in Nat /\ rounds' = 0 /\ cost' = 0
  BY <1>1, <1>2 DEF Outcome
<1> QED
  BY <1>1, <1>2, <1>3, <1>4 DEF Outcome, command

(* What a round does to the money. *)
LEMMA PaidFields ==
  ASSUME Typed, NEW bill \in Bills, PaidRound(bill)
  PROVE  /\ pc = "round" /\ rounds < MaxRounds /\ EnsureNotExceeded(budget, guard)
         /\ bill \in BillType /\ bill.cost \in Nat /\ bill.cost <= MaxBill
         /\ guard' \in GuardType /\ guard'.spent = guard.spent + bill.cost
         /\ billed' = billed + bill.cost
         /\ Unaccountable(budget, bill) => bill.cost = 0 /\ guard'.calls = guard.calls
                                           /\ counted' = counted
         /\ ~Unaccountable(budget, bill) => guard'.calls = guard.calls + 1
                                            /\ counted' = counted + 1
         /\ AttemptedCost(budget, bill) = bill.cost
         /\ \/ /\ rounds' = rounds + 1 /\ cost' = cost + bill.cost
               /\ UNCHANGED <<pc, asked, installed, command, task>>
            \/ Outcome("budget_exceeded", cost + bill.cost)
<1>1. bill \in BillType /\ bill.cost <= MaxBill
  BY EvalAssumption
<1>2. bill.cost \in Nat
  BY <1>1 DEF BillType
<1>3. /\ budget \in BudgetType /\ guard \in GuardType /\ guard.calls \in Nat /\ counted \in Nat
  BY Fields
<1>4. /\ guard' = Recorded(budget, guard, bill) /\ billed' = billed + bill.cost
      /\ counted' = counted + IF Unaccountable(budget, bill) THEN 0 ELSE 1
      /\ pc = "round" /\ rounds < MaxRounds /\ EnsureNotExceeded(budget, guard)
  BY DEF PaidRound
<1>5. /\ guard' \in GuardType /\ guard'.spent = guard.spent + bill.cost
      /\ Unaccountable(budget, bill) => bill.cost = 0
  BY <1>1, <1>3, <1>4, RecordedCounts
<1>6. /\ Unaccountable(budget, bill) => guard'.calls = guard.calls
      /\ ~Unaccountable(budget, bill) => guard'.calls = guard.calls + 1
  BY <1>1, <1>3, <1>4, RecordedFields
<1>7. /\ Unaccountable(budget, bill) => counted' = counted
      /\ ~Unaccountable(budget, bill) => counted' = counted + 1
  BY <1>3, <1>4
<1>8. AttemptedCost(budget, bill) = bill.cost
  BY <1>5 DEF AttemptedCost
<1>9. \/ /\ rounds' = rounds + 1 /\ cost' = cost + bill.cost
         /\ UNCHANGED <<pc, asked, installed, command, task>>
      \/ Outcome("budget_exceeded", cost + bill.cost)
  BY <1>8, Zenon DEF PaidRound
<1> QED
  BY <1>1, <1>2, <1>4, <1>5, <1>6, <1>7, <1>8, <1>9, Zenon

LEMMA InitTyped == Init => Typed
<1> SUFFICES ASSUME Init PROVE Typed
  OBVIOUS
<1>1. MaxObligations \in Nat /\ MaxRounds \in Nat
  BY EvalAssumption
<1>2. guard \in GuardType
  BY DEF Init, NewGuard, GuardType
<1>3. /\ outcomes \in Seq(Kinds) /\ manifests \in Seq(ManifestType)
      /\ task_results \in Seq(TaskType) /\ results \in Seq(Seq(TaskType))
  BY DEF Init
<1>4. /\ pc \in {"config", "task", "spec", "obligation", "round", "done", "failed"}
      /\ pc # "round" /\ asked \in Requests
  BY DEF Init
<1>5. installed \in BOOLEAN /\ hard_failure \in BOOLEAN
  BY Zenon DEF Init
<1>6. /\ todo \in 0 .. MaxObligations /\ extracted \in 0 .. MaxObligations
      /\ rounds \in 0 .. MaxRounds
  BY <1>1 DEF Init
<1>7. {cost, sum_usd, billed, counted} \subseteq Nat
  BY DEF Init
<1> QED
  BY <1>2, <1>3, <1>4, <1>5, <1>6, <1>7, Zenon DEF Typed, TypeOK

(* The steps that leave the books alone. *)
LEMMA TypedKept ==
  ASSUME Typed, UNCHANGED <<task_results, results, manifests>>,
         pc' \in {"config", "task", "spec", "obligation", "round", "done", "failed"},
         asked' \in Requests, guard' \in GuardType, installed' \in BOOLEAN,
         outcomes' \in Seq(Kinds), todo' \in 0 .. MaxObligations,
         extracted' \in 0 .. MaxObligations, rounds' \in 0 .. MaxRounds,
         cost' \in Nat, sum_usd' \in Nat, billed' \in Nat, counted' \in Nat,
         hard_failure' \in BOOLEAN, pc' = "round" => todo' > 0
  PROVE  Typed'
BY Zenon DEF Typed, TypeOK

LEMMA RoundTyped ==
  ASSUME Typed, FreeRound \/ (\E bill \in Bills : PaidRound(bill)) \/ RefusedRound \/ FailedRound
         \/ (\E kind \in {"solved", "gave_up", "prover_error"} : EndRounds(kind))
  PROVE  Typed'
<1> USE DEF money, command, task, obligation
<1>1. /\ asked \in Requests /\ guard \in GuardType /\ installed \in BOOLEAN
      /\ outcomes \in Seq(Kinds) /\ todo \in 0 .. MaxObligations
      /\ extracted \in 0 .. MaxObligations /\ hard_failure \in BOOLEAN
      /\ rounds \in 0 .. MaxRounds /\ (pc = "round" => todo > 0)
  BY Zenon DEF Typed, TypeOK
<1>2. /\ MaxRounds \in Nat /\ cost \in Nat /\ sum_usd \in Nat /\ billed \in Nat /\ counted \in Nat
  BY Fields
<1>3. CASE FreeRound
  <2>1. rounds' \in 0 .. MaxRounds
    BY <1>1, <1>2, <1>3 DEF FreeRound
  <2>2. UNCHANGED <<pc, asked, guard, installed, outcomes, todo, extracted, cost, sum_usd,
                    task_results, results, hard_failure, manifests, billed, counted>>
    BY <1>3 DEF FreeRound
  <2>3. pc = "round"
    BY <1>3 DEF FreeRound
  <2> QED
    BY <1>1, <1>2, <2>1, <2>2, <2>3, TypedKept
<1>4. ASSUME NEW bill \in Bills, PaidRound(bill)
      PROVE  Typed'
  <2>1. guard' \in GuardType /\ billed' \in Nat /\ counted' \in Nat /\ bill.cost \in Nat
    BY <1>2, <1>4, PaidFields
  <2>2. CASE /\ rounds' = rounds + 1 /\ cost' = cost + bill.cost
             /\ UNCHANGED <<pc, asked, installed, command, task>>
    <3>1. rounds' \in 0 .. MaxRounds /\ cost' \in Nat
      BY <1>1, <1>2, <1>4, <2>1, <2>2, PaidFields
    <3>2. UNCHANGED <<pc, asked, installed, outcomes, todo, extracted, sum_usd,
                      task_results, results, hard_failure, manifests>>
      BY <2>2
    <3>3. pc = "round"
      BY <1>4, PaidFields
    <3> QED
      BY <1>1, <1>2, <2>1, <3>1, <3>2, <3>3, TypedKept
  <2>3. CASE Outcome("budget_exceeded", cost + bill.cost)
    <3>1. pc = "round" /\ "budget_exceeded" \in Kinds /\ cost + bill.cost \in Nat
      BY <1>2, <1>4, <2>1, PaidFields DEF Kinds, ErrorKinds
    <3>2. /\ outcomes' \in Seq(Kinds) /\ todo' \in 0 .. MaxObligations
          /\ sum_usd' \in Nat /\ rounds' \in 0 .. MaxRounds /\ cost' \in Nat
          /\ pc' = "obligation" /\ extracted' \in 0 .. MaxObligations
          /\ UNCHANGED <<asked, installed, task_results, results, hard_failure, manifests>>
      BY <2>3, <3>1, OutcomeTyped
    <3> QED
      BY <1>1, <2>1, <3>2, TypedKept
  <2> QED
    BY <1>4, <2>2, <2>3, PaidFields
<1>5. ASSUME NEW kind \in Kinds, pc = "round", Outcome(kind, cost), UNCHANGED money
      PROVE  Typed'
  <2>1. /\ outcomes' \in Seq(Kinds) /\ todo' \in 0 .. MaxObligations
        /\ sum_usd' \in Nat /\ rounds' \in 0 .. MaxRounds /\ cost' \in Nat
        /\ pc' = "obligation" /\ extracted' \in 0 .. MaxObligations
        /\ UNCHANGED <<asked, installed, task_results, results, hard_failure, manifests>>
    BY <1>2, <1>5, OutcomeTyped
  <2>2. guard' = guard /\ billed' = billed /\ counted' = counted
    BY <1>5
  <2> QED
    BY <1>1, <1>2, <2>1, <2>2, TypedKept
<1>6. {"budget_exceeded", "llm_error", "solved", "gave_up", "prover_error"} \subseteq Kinds
  BY DEF Kinds, ErrorKinds
<1> QED
  BY <1>3, <1>4, <1>5, <1>6 DEF RefusedRound, FailedRound, EndRounds

(* The other steps. *)
LEMMA StepTyped ==
  ASSUME Typed, TasksInv, [Next]_vars
  PROVE  Typed'
<1> USE DEF money, command, task, obligation
<1>1. /\ asked \in Requests /\ guard \in GuardType /\ installed \in BOOLEAN
      /\ outcomes \in Seq(Kinds) /\ todo \in 0 .. MaxObligations
      /\ extracted \in 0 .. MaxObligations /\ hard_failure \in BOOLEAN
      /\ rounds \in 0 .. MaxRounds /\ (pc = "round" => todo > 0)
      /\ pc \in {"config", "task", "spec", "obligation", "round", "done", "failed"}
      /\ manifests \in Seq(ManifestType) /\ task_results \in Seq(TaskType)
      /\ results \in Seq(Seq(TaskType))
  BY Zenon DEF Typed, TypeOK
<1>2. /\ MaxRounds \in Nat /\ MaxObligations \in Nat
      /\ cost \in Nat /\ sum_usd \in Nat /\ billed \in Nat /\ counted \in Nat
  BY Fields
<1>3. 0 \in 0 .. MaxObligations /\ 0 \in 0 .. MaxRounds /\ 0 \in Nat
      /\ <<>> \in Seq(Kinds) /\ <<>> \in Seq(TaskType)
  BY <1>2
<1>4. CASE UNCHANGED vars
  BY <1>1, <1>2, <1>4, TypedKept DEF vars
<1>5. CASE Configure
  <2>1. /\ task_results' = <<>> /\ pc' = "task"
        /\ UNCHANGED <<asked, installed, results, hard_failure, manifests, outcomes, todo,
                       extracted, sum_usd, rounds, cost, guard, billed, counted>>
    BY <1>5 DEF Configure
  <2> QED
    BY <1>1, <1>2, <1>3, <2>1, Zenon DEF Typed, TypeOK
<1>6. CASE ConfigFails \/ SpecRaises \/ RoundRaises
  <2>1. /\ pc' = "failed" /\ installed' \in BOOLEAN
        /\ UNCHANGED <<asked, task_results, results, hard_failure, manifests, outcomes, todo,
                       extracted, sum_usd, rounds, cost, guard, billed, counted>>
    BY <1>1, <1>6 DEF ConfigFails, SpecRaises, RoundRaises
  <2> QED
    BY <1>1, <1>2, <2>1, TypedKept
<1>7. CASE StartTask
  <2>1. /\ pc' = "spec" /\ installed' = TRUE
        /\ outcomes' = <<>> /\ todo' = 0 /\ extracted' = 0 /\ sum_usd' = 0
        /\ UNCHANGED <<asked, task_results, results, hard_failure, manifests, rounds, cost,
                       guard, billed, counted>>
    BY <1>7 DEF StartTask
  <2> QED
    BY <1>1, <1>2, <1>3, <2>1, TypedKept
<1>8. ASSUME NEW n \in 0 .. MaxObligations, PrepareSpec(n)
      PROVE  Typed'
  <2>1. /\ pc' = "obligation" /\ todo' = n /\ extracted' = n
        /\ UNCHANGED <<asked, installed, task_results, results, hard_failure, manifests,
                       outcomes, sum_usd, rounds, cost, guard, billed, counted>>
    BY <1>8 DEF PrepareSpec
  <2> QED
    BY <1>1, <1>2, <2>1, TypedKept
<1>9. CASE SpecError
  <2>1. /\ pc' = "obligation" /\ outcomes' = <<"prover_error">>
        /\ UNCHANGED <<asked, installed, task_results, results, hard_failure, manifests, todo,
                       extracted, sum_usd, rounds, cost, guard, billed, counted>>
    BY <1>9 DEF SpecError
  <2>2. outcomes' \in Seq(Kinds)
    BY <2>1 DEF Kinds, ErrorKinds
  <2> QED
    BY <1>1, <1>2, <2>1, <2>2, TypedKept
<1>10. CASE BeginObligation
  <2>1. /\ pc' = "round" /\ rounds' = 0 /\ cost' = 0 /\ todo > 0
        /\ UNCHANGED <<asked, installed, task_results, results, hard_failure, manifests,
                       outcomes, todo, extracted, sum_usd, guard, billed, counted>>
    BY <1>10 DEF BeginObligation
  <2> QED
    BY <1>1, <1>2, <1>3, <2>1, TypedKept
<1>11. CASE EndTask
  <2>1. /\ pc' = "task" /\ installed' = FALSE
        /\ manifests' = Append(manifests, Manifest)
        /\ task_results' = Append(task_results, TaskResult)
        /\ UNCHANGED <<asked, results, hard_failure, outcomes, todo, extracted, sum_usd,
                       rounds, cost, guard, billed, counted>>
    BY <1>11 DEF EndTask
  <2>2. Manifest \in ManifestType /\ TaskResult \in TaskType
    BY <1>11, ResultType DEF EndTask, TasksInv
  <2>3. manifests' \in Seq(ManifestType) /\ task_results' \in Seq(TaskType)
    BY <1>1, <2>1, <2>2, Appended
  <2> QED
    BY <1>1, <1>2, <2>1, <2>3, Zenon DEF Typed, TypeOK
<1>12. CASE EndConfig
  <2>1. /\ pc' = "config" /\ results' = Append(results, task_results)
        /\ hard_failure' \in BOOLEAN
        /\ UNCHANGED <<asked, installed, task_results, manifests, outcomes, todo, extracted,
                       sum_usd, rounds, cost, guard, billed, counted>>
    BY <1>12 DEF EndConfig
  <2>2. results' \in Seq(Seq(TaskType))
    BY <1>1, <2>1, Appended
  <2> QED
    BY <1>1, <1>2, <2>1, <2>2, Zenon DEF Typed, TypeOK
<1>13. CASE WriteReport
  <2>1. /\ pc' = "done"
        /\ UNCHANGED <<asked, installed, task_results, results, hard_failure, manifests,
                       outcomes, todo, extracted, sum_usd, rounds, cost, guard, billed, counted>>
    BY <1>13 DEF WriteReport
  <2> QED
    BY <1>1, <1>2, <2>1, TypedKept
<1> QED
  BY <1>4, <1>5, <1>6, <1>7, <1>8, <1>9, <1>10, <1>11, <1>12, <1>13, RoundTyped DEF Next

-----------------------------------------------------------------------------
(* The caps. *)
LEMMA GuardKept ==
  ASSUME GuardInv, UNCHANGED <<asked, guard, billed, counted>>, GuardUninstalled'
  PROVE  GuardInv'
<1>1. budget' = budget
  BY DEF budget
<1> QED
  BY <1>1 DEF GuardInv

LEMMA GuardPaid ==
  ASSUME Typed, GuardInv, NEW bill \in Bills, PaidRound(bill)
  PROVE  GuardInv'
<1>1. /\ pc = "round" /\ EnsureNotExceeded(budget, guard)
      /\ bill.cost \in Nat /\ bill.cost <= MaxBill
      /\ guard'.spent = guard.spent + bill.cost /\ billed' = billed + bill.cost
      /\ \/ guard'.calls = guard.calls /\ counted' = counted
         \/ guard'.calls = guard.calls + 1 /\ counted' = counted + 1
      /\ \/ /\ rounds' = rounds + 1 /\ cost' = cost + bill.cost
            /\ UNCHANGED <<pc, asked, installed, command, task>>
         \/ Outcome("budget_exceeded", cost + bill.cost)
  BY PaidFields
<1>2. asked' = asked /\ (pc' = "round" \/ pc' = "obligation")
  BY <1>1 DEF Outcome
<1>3. budget' = budget
  BY <1>2 DEF budget
<1>4. /\ budget \in BudgetType /\ guard.spent \in Nat /\ guard.calls \in Nat
      /\ billed \in Nat /\ counted \in Nat /\ MaxBill \in Nat
  BY Fields
<1>5. /\ budget.max_cost_usd # None => budget.max_cost_usd \in Nat
      /\ budget.max_calls # None => budget.max_calls \in Nat
  BY <1>4 DEF BudgetType, Cap
<1>6. guard.spent = billed /\ guard.calls = counted
      /\ (budget.max_calls # None => counted <= budget.max_calls)
  BY DEF GuardInv
<1>7. /\ budget.max_cost_usd # None => billed <= budget.max_cost_usd
      /\ budget.max_calls # None => counted < budget.max_calls
  BY <1>1, <1>6 DEF EnsureNotExceeded
<1>8. budget.max_cost_usd # None => billed' <= budget.max_cost_usd + MaxBill
  BY <1>1, <1>4, <1>5, <1>7
<1>9. budget.max_calls # None => counted' <= budget.max_calls
  BY <1>1, <1>4, <1>5, <1>7
<1>10. guard'.spent = billed' /\ guard'.calls = counted'
  BY <1>1, <1>6
<1>11. GuardUninstalled'
  BY <1>2 DEF GuardUninstalled
<1> QED
  BY <1>3, <1>8, <1>9, <1>10, <1>11, Zenon DEF GuardInv

LEMMA StepGuard ==
  ASSUME Typed, GuardInv, [Next]_vars
  PROVE  GuardInv'
<1>1. ASSUME NEW bill \in Bills, PaidRound(bill)
      PROVE  GuardInv'
  BY <1>1, GuardPaid
<1>2. CASE UNCHANGED vars
  BY <1>2, GuardKept DEF vars, GuardInv, GuardUninstalled
<1>3. CASE Configure \/ ConfigFails \/ EndConfig \/ WriteReport
  <2>1. UNCHANGED <<asked, guard, billed, counted, installed>> /\ ~installed
    BY <1>3 DEF Configure, ConfigFails, EndConfig, WriteReport, money, GuardInv,
       GuardUninstalled
  <2> QED
    BY <2>1, GuardKept DEF GuardUninstalled
<1>4. CASE SpecRaises \/ RoundRaises \/ EndTask
  <2>1. UNCHANGED <<asked, guard, billed, counted>> /\ installed' = FALSE
    BY <1>4 DEF SpecRaises, RoundRaises, EndTask, money
  <2> QED
    BY <2>1, GuardKept DEF GuardUninstalled
<1>5. CASE \/ StartTask \/ (\E n \in 0 .. MaxObligations : PrepareSpec(n)) \/ SpecError
           \/ BeginObligation \/ FreeRound \/ RefusedRound \/ FailedRound
           \/ \E kind \in {"solved", "gave_up", "prover_error"} : EndRounds(kind)
  <2>1. /\ UNCHANGED <<asked, guard, billed, counted>>
        /\ pc' \in {"spec", "obligation", "round"}
    BY <1>5 DEF StartTask, PrepareSpec, SpecError, BeginObligation, FreeRound, RefusedRound,
       FailedRound, EndRounds, Outcome, money
  <2> QED
    BY <2>1, GuardKept DEF GuardUninstalled
<1> QED
  BY <1>1, <1>2, <1>3, <1>4, <1>5 DEF Next

LEMMA GuardTells ==
  ASSUME Typed, GuardInv
  PROVE  CapHoldsAcrossMatrix /\ GuardUninstalled
<1>1. asked.experiment \in BudgetType /\ asked.max_cost_usd \in Cap
  BY Fields
<1>2. /\ budget.max_calls = asked.experiment.max_calls
      /\ budget.max_cost_usd = IF asked.max_cost_usd # None THEN asked.max_cost_usd
                               ELSE asked.experiment.max_cost_usd
  BY <1>1 DEF budget, BudgetType
<1> QED
  BY <1>2 DEF GuardInv, CapHoldsAcrossMatrix

-----------------------------------------------------------------------------
(* The sums over the rows of the books. *)
LEMMA NoRows ==
  /\ Sound(Costs(<<>>), Len(<<>>)) /\ CostOf(<<>>) = 0
  /\ Tallied(<<>>)
<1>1. Len(<<>>) = 0 /\ \A i \in 1 .. 0 : FALSE
  OBVIOUS
<1>2. Sound(Costs(<<>>), 0) /\ SumTo(Costs(<<>>), 0) = 0
  BY SumOfNone
<1>3. /\ Sound(Totals(<<>>), 0) /\ SumTo(Totals(<<>>), 0) = 0
      /\ Sound(Solved(<<>>), 0) /\ SumTo(Solved(<<>>), 0) = 0
  BY SumOfNone
<1> QED
  BY <1>1, <1>2, <1>3 DEF CostOf, Tallied

LEMMA CostGrows ==
  ASSUME NEW S, NEW rows \in Seq(S), NEW row \in S, Sound(Costs(rows), Len(rows))
  PROVE  /\ Sound(Costs(Append(rows, row)), Len(Append(rows, row)))
         /\ CostOf(Append(rows, row)) = CostOf(rows) + row.total_cost_usd
<1> DEFINE more == Append(rows, row)
           n == Len(rows)
<1>1. /\ Len(more) = n + 1 /\ n \in Nat /\ DOMAIN rows = 1 .. n /\ DOMAIN more = 1 .. n + 1
      /\ \A i \in 1 .. n : more[i] = rows[i]
      /\ more[n + 1] = row
  BY Appended
<1> HIDE DEF more, n
<1>2. \A i \in 1 .. n : Costs(more)[i] = Costs(rows)[i]
  BY <1>1 DEF Costs
<1>3. Costs(more)[n + 1] = row.total_cost_usd
  BY <1>1 DEF Costs
<1>4. Sound(Costs(rows), n)
  BY DEF n
<1>5. /\ Sound(Costs(more), n + 1)
      /\ SumTo(Costs(more), n + 1) = SumTo(Costs(rows), n) + Costs(more)[n + 1]
  BY <1>1, <1>2, <1>4, SumGrows
<1> QED
  BY <1>1, <1>3, <1>5 DEF CostOf, more, n

LEMMA TalliedGrows ==
  ASSUME NEW trs \in Seq(TaskType), NEW tr \in TaskType, Tallied(trs),
         tr.obligations_solved <= tr.obligations_total
  PROVE  Tallied(Append(trs, tr))
<1> DEFINE more == Append(trs, tr)
           n == Len(trs)
           total == SumTo(Totals(trs), n)
           solved == SumTo(Solved(trs), n)
           Even(x) == x.obligations_solved = x.obligations_total
<1>1. /\ Len(more) = n + 1 /\ n \in Nat /\ DOMAIN trs = 1 .. n /\ DOMAIN more = 1 .. n + 1
      /\ \A i \in 1 .. n : more[i] = trs[i]
      /\ more[n + 1] = tr
  BY Appended
<1>2. /\ Sound(Totals(trs), n) /\ Sound(Solved(trs), n)
      /\ total \in Nat /\ solved \in Nat /\ solved <= total
      /\ solved = total <=> \A i \in 1 .. n : Even(trs[i])
  BY DEF Tallied
<1>3. tr.obligations_solved \in Nat /\ tr.obligations_total \in Nat
  BY DEF TaskType
<1> HIDE DEF more, n
<1>4. \A i \in 1 .. n : Totals(more)[i] = Totals(trs)[i] /\ Solved(more)[i] = Solved(trs)[i]
  BY <1>1 DEF Totals, Solved
<1>5. /\ Totals(more)[n + 1] = tr.obligations_total
      /\ Solved(more)[n + 1] = tr.obligations_solved
  BY <1>1 DEF Totals, Solved
<1>6. /\ Sound(Totals(more), n + 1)
      /\ SumTo(Totals(more), n + 1) = total + tr.obligations_total
  BY <1>1, <1>2, <1>4, <1>5, SumGrows
<1>7. /\ Sound(Solved(more), n + 1)
      /\ SumTo(Solved(more), n + 1) = solved + tr.obligations_solved
  BY <1>1, <1>2, <1>4, <1>5, SumGrows
<1> HIDE DEF total, solved
<1>8. (\A i \in 1 .. n + 1 : Even(more[i])) <=> (\A i \in 1 .. n : Even(trs[i])) /\ Even(tr)
  <2>1. \A i \in 1 .. n + 1 : i \in 1 .. n \/ i = n + 1
    BY <1>1
  <2>2. n + 1 \in 1 .. n + 1 /\ \A i \in 1 .. n : i \in 1 .. n + 1
    BY <1>1
  <2> QED
    BY <1>1, <2>1, <2>2, Zenon
<1>9. /\ total + tr.obligations_total \in Nat /\ solved + tr.obligations_solved \in Nat
      /\ solved + tr.obligations_solved <= total + tr.obligations_total
      /\ solved + tr.obligations_solved = total + tr.obligations_total
           <=> (solved = total /\ Even(tr))
  <2>1. PICK x \in Nat, y \in Nat : x = tr.obligations_solved /\ y = tr.obligations_total
    BY <1>3, Zenon
  <2>2. PICK a \in Nat, b \in Nat : a = solved /\ b = total /\ a <= b
    BY <1>2, Zenon
  <2>3. /\ b + y \in Nat /\ a + x \in Nat /\ (x <= y => a + x <= b + y)
        /\ x <= y => (a + x = b + y <=> (a = b /\ x = y))
    BY <2>2
  <2> QED
    BY <2>1, <2>2, <2>3, Zenon
<1> HIDE DEF Even
<1>10. /\ SumTo(Totals(more), n + 1) \in Nat /\ SumTo(Solved(more), n + 1) \in Nat
       /\ SumTo(Solved(more), n + 1) <= SumTo(Totals(more), n + 1)
       /\ SumTo(Solved(more), n + 1) = SumTo(Totals(more), n + 1)
            <=> \A i \in 1 .. n + 1 : Even(more[i])
  BY <1>2, <1>6, <1>7, <1>8, <1>9, Zenon
<1> USE DEF Even
<1>11. Tallied(more)
  BY <1>1, <1>6, <1>7, <1>10, Zenon DEF Tallied
<1> QED
  BY <1>11 DEF more

-----------------------------------------------------------------------------
(* The money in the books. *)
LEMMA BooksFields ==
  ASSUME Typed, BooksInv
  PROVE  /\ CostOf(manifests) \in Nat /\ CostOf(task_results) \in Nat
         /\ SumTo(RowCosts, Len(results)) \in Nat
         /\ Summed
         /\ pc \notin {"round", "failed"} => cost = 0
         /\ pc = "spec" => sum_usd = 0
         /\ pc \in {"obligation", "round"} => CostOf(manifests) + sum_usd + cost = billed
         /\ pc \in {"config", "task", "spec", "done"} => CostOf(manifests) = billed
         /\ pc \in {"config", "done"} => SumTo(RowCosts, Len(results)) = CostOf(manifests)
         /\ pc \in {"task", "spec", "obligation", "round"} =>
              SumTo(RowCosts, Len(results)) + CostOf(task_results) = CostOf(manifests)
<1>1. /\ CostOf(manifests) \in Nat /\ CostOf(task_results) \in Nat
      /\ SumTo(RowCosts, Len(results)) \in Nat
      /\ cost \in Nat /\ sum_usd \in Nat /\ billed \in Nat
  BY Fields DEF BooksInv, Summed
<1>2. pc \in {"obligation", "round"} => CostOf(manifests) + sum_usd + cost = billed
  BY <1>1 DEF BooksInv, Unwritten
<1>3. pc \in {"config", "task", "spec", "done"} => CostOf(manifests) = billed
  BY <1>1 DEF BooksInv, Unwritten
<1>4. /\ pc \in {"config", "done"} => SumTo(RowCosts, Len(results)) = CostOf(manifests)
      /\ pc \in {"task", "spec", "obligation", "round"} =>
           SumTo(RowCosts, Len(results)) + CostOf(task_results) = CostOf(manifests)
  BY <1>1 DEF BooksInv, Unfiled
<1> QED
  BY <1>1, <1>2, <1>3, <1>4 DEF BooksInv

LEMMA SumsKept ==
  ASSUME Summed, UNCHANGED <<manifests, task_results, results>>
  PROVE  /\ Summed'
         /\ CostOf(manifests)' = CostOf(manifests)
         /\ CostOf(task_results)' = CostOf(task_results)
         /\ SumTo(RowCosts, Len(results))' = SumTo(RowCosts, Len(results))
BY DEF Summed, RowCosts

(* Steps that write to no book. *)
LEMMA BooksKept ==
  ASSUME Typed, BooksInv, UNCHANGED <<manifests, task_results, results>>,
         cost' \in Nat, sum_usd' \in Nat, billed' \in Nat,
         pc' \notin {"round", "failed"} => cost' = 0,
         pc' = "spec" => sum_usd' = 0,
         \/ pc' = "failed"
         \/ pc' \in {"obligation", "round"} /\ pc \in {"obligation", "round"}
            /\ sum_usd' + cost' + billed = sum_usd + cost + billed'
         \/ pc' = "obligation" /\ pc = "spec" /\ sum_usd' = 0 /\ cost' = 0 /\ billed' = billed
         \/ pc' \in {"task", "spec"} /\ pc \in {"task", "spec"} /\ billed' = billed
         \/ pc' \in {"config", "done"} /\ pc \in {"config", "done"} /\ billed' = billed
  PROVE  BooksInv'
<1>1. /\ Summed'
      /\ CostOf(manifests)' = CostOf(manifests)
      /\ CostOf(task_results)' = CostOf(task_results)
      /\ SumTo(RowCosts, Len(results))' = SumTo(RowCosts, Len(results))
  BY SumsKept DEF BooksInv
<1>2. /\ CostOf(manifests) \in Nat /\ CostOf(task_results) \in Nat
      /\ SumTo(RowCosts, Len(results)) \in Nat
      /\ billed \in Nat /\ cost \in Nat /\ sum_usd \in Nat
  BY Fields, BooksFields
<1>3. CASE pc' = "failed"
  BY <1>1, <1>3 DEF BooksInv
<1>4. CASE pc' \in {"obligation", "round"} /\ pc \in {"obligation", "round"}
           /\ sum_usd' + cost' + billed = sum_usd + cost + billed'
  <2>1. CostOf(manifests) + sum_usd + cost = billed
        /\ SumTo(RowCosts, Len(results)) + CostOf(task_results) = CostOf(manifests)
    BY <1>4, BooksFields
  <2>2. CostOf(manifests)' + (sum_usd' + cost') = billed'
    <3>1. PICK s \in Nat, c \in Nat, b \in Nat : s = sum_usd' /\ c = cost' /\ b = billed'
      OBVIOUS
    <3>2. PICK m \in Nat : m = CostOf(manifests)
      BY <1>2
    <3>3. s + c + billed = sum_usd + cost + b /\ m + sum_usd + cost = billed
      BY <1>4, <2>1, <3>1, <3>2
    <3>4. m + (s + c) = b
      BY <1>2, <3>3
    <3> QED
      BY <1>1, <3>1, <3>2, <3>4
  <2> QED
    BY <1>1, <1>4, <2>1, <2>2 DEF BooksInv, Unwritten, Unfiled
<1>5. CASE pc' = "obligation" /\ pc = "spec" /\ sum_usd' = 0 /\ cost' = 0 /\ billed' = billed
  <2>1. CostOf(manifests) = billed
        /\ SumTo(RowCosts, Len(results)) + CostOf(task_results) = CostOf(manifests)
    BY <1>5, BooksFields
  <2> QED
    BY <1>1, <1>2, <1>5, <2>1 DEF BooksInv, Unwritten, Unfiled
<1>6. CASE pc' \in {"task", "spec"} /\ pc \in {"task", "spec"} /\ billed' = billed
  <2>1. CostOf(manifests) = billed
        /\ SumTo(RowCosts, Len(results)) + CostOf(task_results) = CostOf(manifests)
    BY <1>6, BooksFields
  <2> QED
    BY <1>1, <1>2, <1>6, <2>1 DEF BooksInv, Unwritten, Unfiled
<1>7. CASE pc' \in {"config", "done"} /\ pc \in {"config", "done"} /\ billed' = billed
  <2>1. CostOf(manifests) = billed /\ SumTo(RowCosts, Len(results)) = CostOf(manifests)
    BY <1>7, BooksFields
  <2> QED
    BY <1>1, <1>2, <1>7, <2>1 DEF BooksInv, Unwritten, Unfiled
<1> QED
  BY <1>3, <1>4, <1>5, <1>6, <1>7

(* An obligation that ends puts its cost into the sum of the task. *)
LEMMA BooksOutcome ==
  ASSUME Typed, BooksInv, pc = "round", NEW kind \in Kinds, NEW paid \in Nat,
         Outcome(kind, cost + paid), billed' = billed + paid
  PROVE  BooksInv'
<1>1. /\ sum_usd' = sum_usd + (cost + paid) /\ cost' = 0 /\ pc' = "obligation"
      /\ UNCHANGED <<manifests, task_results, results>>
  BY DEF Outcome, command
<1>2. cost \in Nat /\ sum_usd \in Nat /\ billed \in Nat
  BY Fields
<1>3. sum_usd + (cost + paid) + 0 + billed = sum_usd + cost + (billed + paid)
  BY <1>2
<1>4. sum_usd + (cost + paid) \in Nat /\ 0 \in Nat /\ billed + paid \in Nat
  BY <1>2
<1>5. sum_usd' + cost' + billed = sum_usd + cost + billed'
  BY <1>1, <1>3
<1>6. sum_usd' \in Nat /\ cost' \in Nat /\ billed' \in Nat
  BY <1>1, <1>4
<1> QED
  BY <1>1, <1>5, <1>6, BooksKept

LEMMA BooksRound ==
  ASSUME Typed, BooksInv,
         FreeRound \/ (\E bill \in Bills : PaidRound(bill)) \/ RefusedRound \/ FailedRound
         \/ (\E kind \in {"solved", "gave_up", "prover_error"} : EndRounds(kind))
  PROVE  BooksInv'
<1>1. cost \in Nat /\ sum_usd \in Nat /\ billed \in Nat
  BY Fields
<1>2. CASE FreeRound
  <2>1. /\ pc = "round" /\ pc' = "round"
        /\ UNCHANGED <<manifests, task_results, results, cost, sum_usd, billed>>
    BY <1>2 DEF FreeRound, command, task, money
  <2> QED
    BY <1>1, <2>1, BooksKept
<1>3. ASSUME NEW bill \in Bills, PaidRound(bill)
      PROVE  BooksInv'
  <2>1. pc = "round" /\ bill.cost \in Nat /\ billed' = billed + bill.cost
    BY <1>3, PaidFields
  <2>2. CASE /\ rounds' = rounds + 1 /\ cost' = cost + bill.cost
             /\ UNCHANGED <<pc, asked, installed, command, task>>
    <3>1. /\ pc' = "round" /\ sum_usd' = sum_usd
          /\ UNCHANGED <<manifests, task_results, results>>
      BY <2>1, <2>2 DEF command, task
    <3>2. /\ sum_usd + (cost + bill.cost) + billed = sum_usd + cost + (billed + bill.cost)
          /\ cost + bill.cost \in Nat /\ billed + bill.cost \in Nat
      BY <1>1, <2>1
    <3>3. sum_usd' + cost' + billed = sum_usd + cost + billed'
      BY <2>1, <2>2, <3>1, <3>2
    <3>4. cost' \in Nat /\ billed' \in Nat /\ sum_usd' \in Nat
      BY <1>1, <2>1, <2>2, <3>1, <3>2
    <3> QED
      BY <2>1, <3>1, <3>3, <3>4, BooksKept
  <2>3. CASE Outcome("budget_exceeded", cost + bill.cost)
    BY <2>1, <2>3, BooksOutcome DEF Kinds, ErrorKinds
  <2> QED
    BY <1>3, <2>2, <2>3, PaidFields
<1>4. ASSUME NEW kind \in Kinds, pc = "round", Outcome(kind, cost), UNCHANGED money
      PROVE  BooksInv'
  <2>1. cost + 0 = cost /\ billed + 0 = billed /\ 0 \in Nat
    BY <1>1
  <2>2. Outcome(kind, cost + 0) /\ billed' = billed + 0
    BY <1>4, <2>1 DEF money
  <2> QED
    BY <1>4, <2>1, <2>2, BooksOutcome
<1>5. {"budget_exceeded", "llm_error", "solved", "gave_up", "prover_error"} \subseteq Kinds
  BY DEF Kinds, ErrorKinds
<1> QED
  BY <1>2, <1>3, <1>4, <1>5 DEF RefusedRound, FailedRound, EndRounds

(* The task that ends is written down twice. *)
LEMMA BooksEndTask ==
  ASSUME Typed, TasksInv, BooksInv, EndTask
  PROVE  BooksInv'
<1>1. /\ pc = "obligation" /\ pc' = "task" /\ cost' = cost
      /\ manifests' = Append(manifests, Manifest)
      /\ task_results' = Append(task_results, TaskResult)
      /\ UNCHANGED <<results, billed>>
  BY DEF EndTask, obligation, money
<1>2. /\ Manifest \in ManifestType /\ TaskResult \in TaskType
      /\ TaskResult.total_cost_usd = sum_usd /\ Manifest.total_cost_usd = sum_usd
  BY <1>1, ResultType DEF TasksInv
<1>3. /\ manifests \in Seq(ManifestType) /\ task_results \in Seq(TaskType)
      /\ sum_usd \in Nat /\ cost = 0 /\ billed \in Nat
  BY <1>1, Fields, BooksFields DEF Typed
<1>4. PICK m \in Nat, t \in Nat, r \in Nat :
        /\ m = CostOf(manifests) /\ t = CostOf(task_results)
        /\ r = SumTo(RowCosts, Len(results))
  BY BooksFields
<1>5. m + sum_usd = billed /\ r + t = m
  <2>1. /\ CostOf(manifests) + sum_usd + cost = billed
        /\ SumTo(RowCosts, Len(results)) + CostOf(task_results) = CostOf(manifests)
    BY <1>1, BooksFields
  <2>2. m + sum_usd + cost = billed /\ r + t = m
    BY <1>4, <2>1
  <2> QED
    BY <1>3, <2>2
<1>6. /\ Sound(Costs(manifests'), Len(manifests'))
      /\ CostOf(manifests') = m + sum_usd
  BY <1>1, <1>2, <1>3, <1>4, CostGrows DEF BooksInv, Summed
<1>7. /\ Sound(Costs(task_results'), Len(task_results'))
      /\ CostOf(task_results') = t + sum_usd
  BY <1>1, <1>2, <1>3, <1>4, CostGrows DEF BooksInv, Summed
<1>8. RowCosts' = RowCosts /\ Len(results') = Len(results)
  BY <1>1 DEF RowCosts
<1>9. m + sum_usd \in Nat /\ t + sum_usd \in Nat /\ r + (t + sum_usd) = m + sum_usd
  BY <1>3, <1>5
<1>10. Summed'
  BY <1>4, <1>6, <1>7, <1>8, <1>9 DEF BooksInv, Summed
<1>11. CostOf(manifests') + 0 = billed'
  BY <1>1, <1>3, <1>5, <1>6, <1>9
<1>12. SumTo(RowCosts', Len(results')) + CostOf(task_results') = CostOf(manifests')
  BY <1>4, <1>6, <1>7, <1>8, <1>9
<1> QED
  BY <1>1, <1>3, <1>10, <1>11, <1>12 DEF BooksInv, Unwritten, Unfiled

(* The configuration that ends becomes a row. *)
LEMMA BooksEndConfig ==
  ASSUME Typed, BooksInv, EndConfig
  PROVE  BooksInv'
<1>1. /\ pc = "task" /\ pc' = "config" /\ cost' = cost
      /\ results' = Append(results, task_results)
      /\ UNCHANGED <<manifests, task_results, billed>>
  BY DEF EndConfig, obligation, money
<1>2. /\ results \in Seq(Seq(TaskType)) /\ task_results \in Seq(TaskType) /\ cost = 0
      /\ CostOf(manifests) = billed
      /\ SumTo(RowCosts, Len(results)) + CostOf(task_results) = CostOf(manifests)
  BY <1>1, BooksFields DEF Typed
<1>3. /\ Len(results') = Len(results) + 1 /\ Len(results) \in Nat
      /\ DOMAIN results = 1 .. Len(results) /\ DOMAIN results' = 1 .. Len(results) + 1
      /\ \A c \in 1 .. Len(results) : results'[c] = results[c]
      /\ results'[Len(results) + 1] = task_results
  BY <1>1, <1>2, Appended
<1>4. \A c \in 1 .. Len(results) : RowCosts'[c] = RowCosts[c]
  BY <1>3 DEF RowCosts
<1>5. RowCosts'[Len(results) + 1] = CostOf(task_results)
  BY <1>3 DEF RowCosts
<1>6. /\ Sound(RowCosts', Len(results) + 1)
      /\ SumTo(RowCosts', Len(results) + 1) = SumTo(RowCosts, Len(results)) + CostOf(task_results)
  BY <1>3, <1>4, <1>5, SumGrows DEF BooksInv, Summed
<1>7. SumTo(RowCosts', Len(results')) = CostOf(manifests)
  BY <1>2, <1>3, <1>6
<1>8. CostOf(manifests) \in Nat
  BY BooksFields
<1>9. Summed'
  BY <1>1, <1>3, <1>6, <1>7, <1>8 DEF BooksInv, Summed
<1>10. CostOf(manifests') + 0 = billed' /\ SumTo(RowCosts', Len(results')) + 0 = CostOf(manifests')
  BY <1>1, <1>2, <1>7, <1>8
<1> QED
  BY <1>1, <1>2, <1>9, <1>10 DEF BooksInv, Unwritten, Unfiled

LEMMA StepBooks ==
  ASSUME Typed, TasksInv, BooksInv, [Next]_vars
  PROVE  BooksInv'
<1>1. cost \in Nat /\ sum_usd \in Nat /\ billed \in Nat
  BY Fields
<1>2. CASE UNCHANGED vars
  BY <1>2 DEF vars, BooksInv, Summed, RowCosts, Unwritten, Unfiled
<1>3. CASE Configure
  <2>1. /\ pc = "config" /\ pc' = "task" /\ task_results' = <<>>
        /\ UNCHANGED <<results, manifests, cost, billed>>
    BY <1>3 DEF Configure, obligation, money
  <2>2. /\ CostOf(manifests) \in Nat /\ CostOf(manifests) = billed /\ cost = 0
        /\ SumTo(RowCosts, Len(results)) = CostOf(manifests)
    BY <2>1, BooksFields
  <2>3. RowCosts' = RowCosts /\ CostOf(task_results') = 0
        /\ Sound(Costs(task_results'), Len(task_results'))
    BY <2>1, NoRows DEF RowCosts
  <2>4. Summed'
    BY <2>1, <2>3 DEF BooksInv, Summed
  <2>5. CostOf(manifests) + 0 = billed
        /\ SumTo(RowCosts, Len(results)) + 0 = CostOf(manifests)
    BY <2>2
  <2> QED
    BY <2>1, <2>2, <2>3, <2>4, <2>5 DEF BooksInv, Unwritten, Unfiled
<1>4. CASE ConfigFails \/ SpecRaises \/ RoundRaises
  <2>1. /\ pc' = "failed"
        /\ UNCHANGED <<task_results, results, manifests, sum_usd, cost, billed>>
    BY <1>4 DEF ConfigFails, SpecRaises, RoundRaises, command, task, obligation, money
  <2> QED
    BY <1>1, <2>1, BooksKept
<1>5. CASE StartTask
  <2>1. /\ pc = "task" /\ pc' = "spec" /\ sum_usd' = 0
        /\ UNCHANGED <<task_results, results, manifests, cost, billed>>
    BY <1>5 DEF StartTask, command, obligation, money
  <2>2. cost = 0
    BY <2>1, BooksFields
  <2> QED
    BY <1>1, <2>1, <2>2, BooksKept
<1>6. CASE (\E n \in 0 .. MaxObligations : PrepareSpec(n)) \/ SpecError
  <2>1. /\ pc = "spec" /\ pc' = "obligation"
        /\ UNCHANGED <<task_results, results, manifests, sum_usd, cost, billed>>
    BY <1>6 DEF PrepareSpec, SpecError, command, obligation, money
  <2>2. sum_usd = 0 /\ cost = 0
    BY <2>1, BooksFields
  <2> QED
    BY <1>1, <2>1, <2>2, BooksKept
<1>7. CASE BeginObligation
  <2>1. /\ pc = "obligation" /\ pc' = "round" /\ cost' = 0
        /\ UNCHANGED <<task_results, results, manifests, sum_usd, billed>>
    BY <1>7 DEF BeginObligation, command, task, money
  <2>2. cost = 0
    BY <2>1, BooksFields
  <2> QED
    BY <1>1, <2>1, <2>2, BooksKept
<1>8. CASE WriteReport
  <2>1. /\ pc = "config" /\ pc' = "done"
        /\ UNCHANGED <<task_results, results, manifests, sum_usd, cost, billed>>
    BY <1>8 DEF WriteReport, task, obligation, money
  <2>2. cost = 0
    BY <2>1, BooksFields
  <2> QED
    BY <1>1, <2>1, <2>2, BooksKept
<1> QED
  BY <1>2, <1>3, <1>4, <1>5, <1>6, <1>7, <1>8, BooksRound, BooksEndTask, BooksEndConfig
  DEF Next

-----------------------------------------------------------------------------
(* The tasks of the configuration under way, and the configurations before. *)
LEMMA TasksKept ==
  ASSUME TasksInv, UNCHANGED task_results,
         pc' \in {"spec", "obligation", "round"} => Len(task_results) < Len(Suite)
  PROVE  TasksInv'
BY DEF TasksInv, Tallied, Judged

LEMMA ResultsKept ==
  ASSUME ResultsInv, UNCHANGED <<results, hard_failure>>,
         pc' \in {"task", "spec", "obligation", "round"} => Len(results) < Configs
  PROVE  ResultsInv'
BY DEF ResultsInv

(* Steps that only move within a task, or end the command. *)
Inner ==
  \/ (\E n \in 0 .. MaxObligations : PrepareSpec(n)) \/ SpecError \/ SpecRaises
  \/ BeginObligation
  \/ FreeRound \/ (\E bill \in Bills : PaidRound(bill)) \/ RefusedRound \/ FailedRound
  \/ (\E kind \in {"solved", "gave_up", "prover_error"} : EndRounds(kind)) \/ RoundRaises

LEMMA InnerKeeps ==
  ASSUME Inner
  PROVE  /\ UNCHANGED <<task_results, results, hard_failure, report>>
         /\ pc \in {"spec", "obligation", "round"}
         /\ pc' \in {"obligation", "round", "failed"}
<1>1. ASSUME NEW n \in 0 .. MaxObligations, PrepareSpec(n)
      PROVE  /\ UNCHANGED command /\ pc = "spec" /\ pc' = "obligation"
  BY <1>1 DEF PrepareSpec
<1>2. CASE SpecError \/ SpecRaises \/ BeginObligation \/ FreeRound \/ RoundRaises
  BY <1>2 DEF SpecError, SpecRaises, BeginObligation, FreeRound, RoundRaises, command
<1>3. ASSUME NEW bill \in Bills, PaidRound(bill)
      PROVE  UNCHANGED command /\ pc = "round" /\ pc' \in {"obligation", "round"}
  BY <1>3 DEF PaidRound, Outcome
<1>4. CASE RefusedRound \/ FailedRound
           \/ \E kind \in {"solved", "gave_up", "prover_error"} : EndRounds(kind)
  BY <1>4 DEF RefusedRound, FailedRound, EndRounds, Outcome, command
<1> QED
  BY <1>1, <1>2, <1>3, <1>4 DEF Inner, command

LEMMA TasksEndTask ==
  ASSUME Typed, TasksInv, EndTask
  PROVE  TasksInv'
<1>1. /\ pc = "obligation" /\ pc' = "task" /\ task_results' = Append(task_results, TaskResult)
  BY DEF EndTask
<1>2. Len(task_results) < Len(Suite) /\ Tallied(task_results)
      /\ \A i \in 1 .. Len(task_results) : Judged(task_results[i], i)
  BY <1>1 DEF TasksInv
<1>3. /\ TaskResult \in TaskType /\ Judged(TaskResult, Len(task_results) + 1)
      /\ TaskResult.obligations_solved <= TaskResult.obligations_total
  BY <1>2, ResultType
<1>4. task_results \in Seq(TaskType) /\ Len(Suite) \in Nat
  BY Fields DEF Typed
<1>5. /\ Len(task_results') = Len(task_results) + 1 /\ Len(task_results) \in Nat
      /\ \A i \in 1 .. Len(task_results) : task_results'[i] = task_results[i]
      /\ task_results'[Len(task_results) + 1] = TaskResult
  BY <1>1, <1>3, <1>4, Appended
<1>6. Tallied(task_results')
  BY <1>1, <1>2, <1>3, <1>4, TalliedGrows
<1>7. \A i \in 1 .. Len(task_results') : Judged(task_results'[i], i)
  <2> SUFFICES ASSUME NEW i \in 1 .. Len(task_results') PROVE Judged(task_results'[i], i)
    OBVIOUS
  <2>1. i \in 1 .. Len(task_results) \/ i = Len(task_results) + 1
    BY <1>5
  <2> QED
    BY <1>2, <1>3, <1>5, <2>1
<1>8. Len(task_results') <= Len(Suite)
  BY <1>2, <1>4, <1>5
<1>9. (\A i \in 1 .. Len(task_results) : Judged(task_results[i], i))'
  BY <1>7 DEF Judged
<1>10. Tallied(task_results)'
  BY <1>6 DEF Tallied
<1> QED
  BY <1>1, <1>8, <1>9, <1>10 DEF TasksInv

LEMMA StepTasks ==
  ASSUME Typed, TasksInv, [Next]_vars
  PROVE  TasksInv'
<1>1. CASE UNCHANGED vars
  BY <1>1, TasksKept DEF vars, TasksInv
<1>2. CASE Inner
  BY <1>2, InnerKeeps, TasksKept DEF TasksInv
<1>3. CASE Configure
  <2>1. task_results' = <<>> /\ pc' = "task"
    BY <1>3 DEF Configure
  <2>2. Len(<<>>) = 0 /\ \A i \in 1 .. 0 : FALSE
    OBVIOUS
  <2>3. Tallied(task_results)'
    BY <2>1, NoRows DEF Tallied
  <2>4. Len(Suite) \in Nat
    BY Fields
  <2> QED
    BY <2>1, <2>2, <2>3, <2>4 DEF TasksInv
<1>4. CASE StartTask
  <2>1. task_results' = task_results /\ Len(task_results) < Len(Suite)
    BY <1>4 DEF StartTask, command
  <2> QED
    BY <2>1, TasksKept
<1>5. CASE ConfigFails \/ EndConfig \/ WriteReport
  <2>1. task_results' = task_results /\ pc' \in {"failed", "config", "done"}
    BY <1>5 DEF ConfigFails, EndConfig, WriteReport, command
  <2> QED
    BY <2>1, TasksKept
<1> QED
  BY <1>1, <1>2, <1>3, <1>4, <1>5, TasksEndTask DEF Next, Inner

LEMMA ResultsEndConfig ==
  ASSUME Typed, TasksInv, ResultsInv, EndConfig
  PROVE  ResultsInv'
<1> DEFINE Failed(trs) == \E i \in 1 .. Len(trs) : HasError(trs[i])
           n == Len(results)
<1>1. /\ pc = "task" /\ pc' = "config" /\ results' = Append(results, task_results)
      /\ Len(task_results) = Len(Suite)
  BY DEF EndConfig
<1>2. /\ task_results \in Seq(TaskType) /\ results \in Seq(Seq(TaskType)) /\ Configs \in Nat
  BY Fields DEF Typed
<1>3. hard_failure' = (hard_failure \/ Failed(task_results))
  <2>1. DOMAIN task_results = 1 .. Len(task_results)
    BY <1>2
  <2> QED
    BY <2>1, Zenon DEF EndConfig, HasError
<1>4. /\ Len(results') = n + 1 /\ n \in Nat
      /\ \A c \in 1 .. n : results'[c] = results[c]
      /\ results'[n + 1] = task_results
  BY <1>1, <1>2, Appended
<1>5. n < Configs /\ (hard_failure <=> \E c \in 1 .. n : Failed(results[c]))
  BY <1>1 DEF ResultsInv
<1>6. \A c \in 1 .. n + 1 : c \in 1 .. n \/ c = n + 1
  BY <1>4
<1>7. n + 1 \in 1 .. n + 1 /\ \A c \in 1 .. n : c \in 1 .. n + 1
  BY <1>4
<1> HIDE DEF n
<1>8. hard_failure' <=> \E c \in 1 .. n + 1 : Failed(results'[c])
  <2> HIDE DEF Failed
  <2> QED
    BY <1>3, <1>4, <1>5, <1>6, <1>7, Zenon
<1> DEFINE Whole(trs) == /\ Len(trs) = Len(Suite)
                         /\ \A i \in 1 .. Len(Suite) : Judged(trs[i], i)
                         /\ Tallied(trs)
<1>9. \A c \in 1 .. n : Whole(results[c])
  BY DEF ResultsInv, n
<1>10. Whole(task_results)
  BY <1>1 DEF TasksInv
<1>11. \A c \in 1 .. n + 1 : Whole(results'[c])
  <2> HIDE DEF Whole
  <2> QED
    BY <1>4, <1>6, <1>9, <1>10, Zenon
<1>12. Len(results') <= Configs
  BY <1>2, <1>4, <1>5
<1>13. (\A c \in 1 .. Len(results) :
          /\ Len(results[c]) = Len(Suite)
          /\ \A i \in 1 .. Len(Suite) : Judged(results[c][i], i)
          /\ Tallied(results[c]))'
  BY <1>4, <1>11 DEF Judged, Tallied
<1>14. (hard_failure <=>
          \E c \in 1 .. Len(results) : \E i \in 1 .. Len(results[c]) : HasError(results[c][i]))'
  BY <1>4, <1>8 DEF HasError
<1> QED
  BY <1>1, <1>12, <1>13, <1>14, Zenon DEF ResultsInv

LEMMA StepResults ==
  ASSUME Typed, TasksInv, ResultsInv, [Next]_vars
  PROVE  ResultsInv'
<1>1. CASE UNCHANGED vars
  BY <1>1, ResultsKept DEF vars, ResultsInv
<1>2. CASE Inner
  BY <1>2, InnerKeeps, ResultsKept DEF ResultsInv
<1>3. CASE Configure
  <2>1. UNCHANGED <<results, hard_failure>> /\ Len(results) < Configs
    BY <1>3 DEF Configure
  <2> QED
    BY <2>1, ResultsKept
<1>4. CASE StartTask \/ EndTask
  <2>1. UNCHANGED <<results, hard_failure>> /\ pc \in {"task", "obligation"}
    BY <1>4 DEF StartTask, EndTask, command
  <2> QED
    BY <2>1, ResultsKept DEF ResultsInv
<1>5. CASE ConfigFails \/ WriteReport
  <2>1. UNCHANGED <<results, hard_failure>> /\ pc' \in {"failed", "done"}
    BY <1>5 DEF ConfigFails, WriteReport, command
  <2> QED
    BY <2>1, ResultsKept
<1> QED
  BY <1>1, <1>2, <1>3, <1>4, <1>5, ResultsEndConfig DEF Next, Inner

LEMMA StepReport ==
  ASSUME ReportInv, [Next]_vars
  PROVE  ReportInv'
<1>1. CASE UNCHANGED vars
  BY <1>1 DEF vars, ReportInv, Aggregate
<1>2. CASE Inner
  BY <1>2, InnerKeeps DEF ReportInv
<1>3. CASE Configure \/ ConfigFails \/ StartTask \/ EndTask \/ EndConfig
  BY <1>3 DEF Configure, ConfigFails, StartTask, EndTask, EndConfig, command, ReportInv
<1>4. CASE WriteReport
  <2>1. /\ pc' = "done" /\ results' = results /\ Len(results) = Configs
        /\ report' = [c \in DOMAIN results |->
                        [metrics |-> Aggregate(results[c]), task_results |-> results[c]]]
    BY <1>4 DEF WriteReport
  <2>2. Len(results') = Configs
        /\ report' = [c \in DOMAIN results' |->
                        [metrics |-> Aggregate(results'[c]), task_results |-> results'[c]]]
    BY <2>1, Zenon
  <2> QED
    BY <2>1, <2>2 DEF ReportInv, Aggregate
<1> QED
  BY <1>1, <1>2, <1>3, <1>4 DEF Next, Inner

LEMMA InitRuns == Init => RunInv
<1> SUFFICES ASSUME Init PROVE RunInv
  OBVIOUS
<1>1. Typed
  BY InitTyped
<1>2. /\ pc = "config" /\ guard = NewGuard /\ billed = 0 /\ counted = 0 /\ cost = 0
      /\ sum_usd = 0 /\ installed = FALSE /\ report = None /\ hard_failure = FALSE
      /\ manifests = <<>> /\ task_results = <<>> /\ results = <<>>
  BY DEF Init
<1>3. Len(<<>>) = 0 /\ \A i \in 1 .. 0 : FALSE
  OBVIOUS
<1>4. /\ MaxBill \in Nat /\ budget \in BudgetType /\ Len(Suite) \in Nat /\ Configs \in Nat
  BY <1>1, Fields
<1>5. GuardInv
  <2>1. /\ budget.max_cost_usd # None => budget.max_cost_usd \in Nat
        /\ budget.max_calls # None => budget.max_calls \in Nat
    BY <1>4 DEF BudgetType, Cap
  <2> QED
    BY <1>2, <1>4, <2>1 DEF GuardInv, NewGuard, GuardUninstalled
<1>6. BooksInv
  <2>1. Sound(RowCosts, Len(results)) /\ SumTo(RowCosts, Len(results)) = 0
    BY <1>2, <1>3, SumOfNone
  <2>2. Summed /\ CostOf(manifests) = 0
    BY <1>2, <2>1, NoRows DEF Summed
  <2> QED
    BY <1>2, <2>1, <2>2 DEF BooksInv, Unwritten, Unfiled
<1>7. TasksInv
  BY <1>2, <1>3, <1>4, NoRows DEF TasksInv
<1>8. ResultsInv
  BY <1>2, <1>3, <1>4 DEF ResultsInv
<1>9. ReportInv
  BY <1>2 DEF ReportInv
<1> QED
  BY <1>1, <1>5, <1>6, <1>7, <1>8, <1>9 DEF RunInv

LEMMA StepRuns == RunInv /\ [Next]_vars => RunInv'
BY StepTyped, StepGuard, StepBooks, StepTasks, StepResults, StepReport DEF RunInv

-----------------------------------------------------------------------------
(* The report is what the results are. *)
LEMMA ReportFields ==
  ASSUME RunInv, pc = "done"
  PROVE  /\ Len(results) = Configs /\ DOMAIN results = 1 .. Configs
         /\ results \in Seq(Seq(TaskType)) /\ Configs \in Nat
         /\ Len(report) = Configs /\ DOMAIN report = 1 .. Configs
         /\ \A c \in 1 .. Configs : /\ report[c].metrics = Aggregate(results[c])
                                    /\ report[c].task_results = results[c]
<1>1. /\ Len(results) = Configs /\ results \in Seq(Seq(TaskType)) /\ Configs \in Nat
      /\ report = [c \in DOMAIN results |->
                     [metrics |-> Aggregate(results[c]), task_results |-> results[c]]]
  BY Fields DEF RunInv, ReportInv, Typed
<1>2. DOMAIN results = 1 .. Configs
  BY <1>1, LenProperties
<1>3. DOMAIN report = 1 .. Configs
  BY <1>1, <1>2
<1>4. Len(report) = Configs
  BY <1>1, <1>3
<1>5. \A c \in 1 .. Configs : /\ report[c].metrics = Aggregate(results[c])
                              /\ report[c].task_results = results[c]
  BY <1>1, <1>2
<1> QED
  BY <1>1, <1>2, <1>3, <1>4, <1>5

LEMMA MoneyTold == RunInv => MoneyReported
<1> SUFFICES ASSUME RunInv PROVE MoneyReported
  OBVIOUS
<1>1. Typed /\ BooksInv
  BY DEF RunInv
<1>2. pc \in {"obligation", "round"} => CostOf(manifests) + sum_usd + cost = billed
  BY <1>1, BooksFields
<1>3. pc \in {"config", "task", "spec", "done"} => CostOf(manifests) = billed
  BY <1>1, BooksFields
<1>4. ASSUME pc = "done"
      PROVE  SumTo([c \in DOMAIN report |-> report[c].metrics.total_cost_usd], Len(report))
               = billed
  <2>1. \A c \in 1 .. Configs : report[c].metrics.total_cost_usd = CostOf(results[c])
    <3>1. ASSUME NEW trs PROVE Aggregate(trs).total_cost_usd = CostOf(trs)
      BY DEF Aggregate
    <3> QED
      BY <1>4, <3>1, ReportFields
  <2>2. [c \in DOMAIN report |-> report[c].metrics.total_cost_usd] = RowCosts
    <3>1. DOMAIN report = 1 .. Configs /\ DOMAIN results = 1 .. Configs
      BY <1>4, ReportFields
    <3> QED
      BY <2>1, <3>1 DEF RowCosts
  <2>3. Len(report) = Len(results)
    BY <1>4, ReportFields
  <2>4. SumTo(RowCosts, Len(results)) = CostOf(manifests)
    BY <1>1, <1>4, BooksFields
  <2> QED
    BY <1>3, <1>4, <2>2, <2>3, <2>4
<1> QED
  BY <1>2, <1>3, <1>4 DEF MoneyReported

LEMMA CompleteTold == RunInv => ReportComplete
<1> SUFFICES ASSUME RunInv, report # None PROVE ReportComplete
  BY DEF ReportComplete
<1>1. pc = "done"
  BY DEF RunInv, ReportInv
<1>2. Suite \in [1 .. Len(Suite) -> Expected]
  BY EvalAssumption, LenProperties
<1>3. ASSUME NEW c \in 1 .. Configs
      PROVE  [t \in DOMAIN report[c].task_results |-> report[c].task_results[t].expected] = Suite
  <2>1. /\ report[c].task_results = results[c] /\ c \in 1 .. Len(results)
        /\ results[c] \in Seq(TaskType)
    BY <1>1, ReportFields
  <2>2. Len(results[c]) = Len(Suite) /\ \A i \in 1 .. Len(Suite) : Judged(results[c][i], i)
    BY <2>1 DEF RunInv, ResultsInv
  <2>3. DOMAIN results[c] = 1 .. Len(Suite)
    BY <2>1, <2>2, LenProperties
  <2>4. \A i \in 1 .. Len(Suite) : results[c][i].expected = Suite[i]
    BY <2>2 DEF Judged
  <2> QED
    BY <1>2, <2>1, <2>3, <2>4
<1> QED
  BY <1>1, <1>3, ReportFields DEF ReportComplete

-----------------------------------------------------------------------------
(* What a task's outcomes say of it. *)
LEMMA TaskTold ==
  ASSUME NEW tr \in TaskType, NEW i, Judged(tr, i)
  PROVE  /\ Categorize(tr) \in {"solved", "gave_up", "errored"}
         /\ Categorize(tr) = "solved" <=> tr.obligations_solved = tr.obligations_total
         /\ Categorize(tr) = "solved" <=> \A j \in DOMAIN tr.outcomes : tr.outcomes[j] = "solved"
         /\ Categorize(tr) = "errored" <=> HasError(tr)
<1>1. tr.outcomes \in Seq(Kinds)
  BY DEF TaskType
<1>2. /\ tr.obligations_total = Len(tr.outcomes)
      /\ tr.obligations_solved = Count("solved", tr.outcomes)
  BY DEF Judged
<1>3. tr.obligations_solved = tr.obligations_total
        <=> \A j \in DOMAIN tr.outcomes : tr.outcomes[j] = "solved"
  BY <1>1, <1>2, CountType
<1>4. (\A j \in DOMAIN tr.outcomes : tr.outcomes[j] = "solved") => ~HasError(tr)
  BY DEF HasError, ErrorKinds
<1>5. Categorize(tr) = IF HasError(tr) THEN "errored"
                       ELSE IF \A j \in DOMAIN tr.outcomes : tr.outcomes[j] = "solved"
                            THEN "solved" ELSE "gave_up"
  BY Zenon DEF Categorize, HasError
<1> HIDE DEF HasError
<1> QED
  BY <1>3, <1>4, <1>5

(* A task that gave up as expected is not solved. *)
LEMMA MatchTold ==
  ASSUME NEW tr \in TaskType, NEW i, Judged(tr, i)
  PROVE  LET solved == Categorize(tr) = "solved"
         IN  /\ solved <=> tr.obligations_solved = tr.obligations_total
             /\ tr.expected = "solved" => (tr.matched_expected <=> solved)
             /\ (tr.expected = "gave_up" /\ tr.matched_expected /\ tr.outcomes # <<>>) => ~solved
<1> DEFINE kinds == tr.outcomes
           AllSolved == \A j \in DOMAIN kinds : kinds[j] = "solved"
<1>1. kinds \in Seq(Kinds) /\ tr.matched_expected = Matches(tr.expected, kinds)
  BY DEF TaskType, Judged
<1>2. /\ Categorize(tr) = "solved" <=> tr.obligations_solved = tr.obligations_total
      /\ Categorize(tr) = "solved" <=> AllSolved
  BY TaskTold
<1>3. kinds = <<>> => AllSolved
  <2>1. DOMAIN <<>> = {}
    OBVIOUS
  <2> QED
    BY <2>1
<1>4. ASSUME tr.expected = "solved"
      PROVE  tr.matched_expected <=> AllSolved
  <2>1. /\ tr.expected # "either" /\ tr.expected # "gave_up"
    BY <1>4
  <2> QED
    BY <1>1, <1>3, <1>4, <2>1, Zenon DEF Matches
<1>5. ASSUME tr.expected = "gave_up", tr.matched_expected, kinds # <<>>
      PROVE  ~AllSolved
  <2>1. tr.expected # "either" /\ tr.expected # "solved"
    BY <1>5
  <2>2. 2 * Count("gave_up", kinds) > Len(kinds)
    BY <1>1, <1>5, <2>1, Zenon DEF Matches
  <2>3. Count("gave_up", kinds) \in 0 .. Len(kinds) /\ Len(kinds) \in Nat
    BY <1>1, CountType
  <2>4. Count("gave_up", kinds) > 0
    BY <2>2, <2>3
  <2>5. PICK j \in DOMAIN kinds : kinds[j] = "gave_up"
    BY <1>1, <2>4, CountType
  <2> QED
    BY <2>5
<1> HIDE DEF AllSolved
<1> QED
  BY <1>2, <1>4, <1>5, Zenon

-----------------------------------------------------------------------------
(* The columns of a row are the tasks, once each. *)
LEMMA ColumnsTold ==
  ASSUME NEW trs \in Seq(TaskType), \A i \in 1 .. Len(trs) : Judged(trs[i], i), Tallied(trs)
  PROVE  LET m == Aggregate(trs)
         IN  /\ m.tasks_solved + m.tasks_gave_up + m.tasks_errored = m.tasks_total
             /\ m.tasks_solved = m.tasks_total <=> m.obligations_solved = m.obligations_total
             /\ m.tasks_errored > 0 <=> \E i \in 1 .. Len(trs) : HasError(trs[i])
<1> DEFINE n == Len(trs)
           In(column) == {i \in DOMAIN trs : Categorize(trs[i]) = column}
           m == Aggregate(trs)
<1>1. n \in Nat /\ DOMAIN trs = 1 .. n /\ \A i \in 1 .. n : trs[i] \in TaskType
  OBVIOUS
<1>2. \A i \in 1 .. n :
        /\ Categorize(trs[i]) \in {"solved", "gave_up", "errored"}
        /\ Categorize(trs[i]) = "solved"
             <=> trs[i].obligations_solved = trs[i].obligations_total
        /\ Categorize(trs[i]) = "errored" <=> HasError(trs[i])
  BY <1>1, TaskTold
<1>3. /\ m.tasks_total = n /\ m.tasks_solved = Cardinality(In("solved"))
      /\ m.tasks_gave_up = Cardinality(In("gave_up"))
      /\ m.tasks_errored = Cardinality(In("errored"))
      /\ m.obligations_total = SumTo(Totals(trs), n)
      /\ m.obligations_solved = SumTo(Solved(trs), n)
  BY DEF Aggregate
<1>4. /\ In("solved") \in SUBSET (1 .. n) /\ In("gave_up") \in SUBSET (1 .. n)
      /\ In("errored") \in SUBSET (1 .. n)
      /\ In("solved") \cap In("gave_up") = {}
      /\ (In("solved") \cup In("gave_up")) \cap In("errored") = {}
  BY <1>1
<1>5. (In("solved") \cup In("gave_up")) \cup In("errored") = 1 .. n
  BY <1>1, <1>2
<1>6. In("solved") = 1 .. n
        <=> \A i \in 1 .. n : trs[i].obligations_solved = trs[i].obligations_total
  BY <1>1, <1>2
<1>7. In("errored") # {} <=> \E i \in 1 .. n : HasError(trs[i])
  BY <1>1, <1>2
<1> HIDE DEF In, m, n
<1>8. m.tasks_solved + m.tasks_gave_up + m.tasks_errored = n
  <2>1. /\ IsFiniteSet(In("solved")) /\ IsFiniteSet(In("gave_up"))
        /\ IsFiniteSet(In("errored"))
    BY <1>1, <1>4, CountedAll
  <2>2. IsFiniteSet(In("solved") \cup In("gave_up"))
        /\ Cardinality(In("solved") \cup In("gave_up"))
             = Cardinality(In("solved")) + Cardinality(In("gave_up"))
                 - Cardinality(In("solved") \cap In("gave_up"))
    BY <2>1, FS_Union
  <2>3. Cardinality((In("solved") \cup In("gave_up")) \cup In("errored"))
          = Cardinality(In("solved") \cup In("gave_up")) + Cardinality(In("errored"))
              - Cardinality((In("solved") \cup In("gave_up")) \cap In("errored"))
    BY <2>1, <2>2, FS_Union
  <2>4. Cardinality({}) = 0
    BY FS_EmptySet
  <2>5. Cardinality(1 .. n) = n
    BY <1>1, CountedAll
  <2>6. /\ Cardinality(In("solved")) \in Nat /\ Cardinality(In("gave_up")) \in Nat
        /\ Cardinality(In("errored")) \in Nat
    BY <2>1, FS_CardinalityType
  <2>7. PICK x \in Nat, y \in Nat, z \in Nat :
          /\ x = Cardinality(In("solved")) /\ y = Cardinality(In("gave_up"))
          /\ z = Cardinality(In("errored"))
    BY <2>6
  <2>8. Cardinality(In("solved") \cup In("gave_up")) = x + y
    <3>1. Cardinality(In("solved") \cap In("gave_up")) = 0
      BY <1>4, <2>4, Zenon
    <3> QED
      BY <2>2, <2>7, <3>1
  <2>9. n = Cardinality(In("solved") \cup In("gave_up")) + z
    <3>1. Cardinality((In("solved") \cup In("gave_up")) \cup In("errored")) = n
      BY <1>5, <2>5, Zenon
    <3>2. Cardinality((In("solved") \cup In("gave_up")) \cap In("errored")) = 0
      BY <1>4, <2>4, Zenon
    <3> QED
      BY <2>3, <2>7, <2>8, <3>1, <3>2
  <2> QED
    BY <1>3, <2>7, <2>8, <2>9
<1>9. m.tasks_solved = m.tasks_total <=> m.obligations_solved = m.obligations_total
  <2>1. Cardinality(In("solved")) = n <=> In("solved") = 1 .. n
    BY <1>1, <1>4, CountedAll
  <2>2. SumTo(Solved(trs), n) = SumTo(Totals(trs), n)
          <=> \A i \in 1 .. n : trs[i].obligations_solved = trs[i].obligations_total
    BY Zenon DEF Tallied, n
  <2> QED
    BY <1>3, <1>6, <2>1, <2>2, Zenon
<1>10. m.tasks_errored > 0 <=> \E i \in 1 .. n : HasError(trs[i])
  <2>1. Cardinality(In("errored")) > 0 <=> In("errored") # {}
    BY <1>1, <1>4, CountedAll
  <2> QED
    BY <1>3, <1>7, <2>1, Zenon
<1>11. m.tasks_total = n
  BY <1>3
<1> QED
  BY <1>8, <1>9, <1>10, <1>11 DEF m, n

LEMMA VerdictsTold == RunInv => TaskVerdictsAgree
<1> SUFFICES ASSUME RunInv PROVE TaskVerdictsAgree
  OBVIOUS
<1>1. /\ task_results \in Seq(TaskType)
      /\ \A i \in 1 .. Len(task_results) : Judged(task_results[i], i)
  BY DEF RunInv, Typed, TasksInv
<1>2. ASSUME NEW i \in DOMAIN task_results
      PROVE  LET tr == task_results[i]
                 solved == Categorize(tr) = "solved"
             IN  /\ solved <=> tr.obligations_solved = tr.obligations_total
                 /\ tr.expected = "solved" => (tr.matched_expected <=> solved)
                 /\ (tr.expected = "gave_up" /\ tr.matched_expected /\ tr.outcomes # <<>>)
                      => ~solved
  <2>1. task_results[i] \in TaskType /\ Judged(task_results[i], i)
    BY <1>1
  <2> QED
    BY <2>1, MatchTold
<1>3. ASSUME report # None
      PROVE  /\ \A c \in DOMAIN report :
                  LET m == report[c].metrics
                  IN  /\ m.tasks_solved + m.tasks_gave_up + m.tasks_errored = m.tasks_total
                      /\ m.tasks_solved = m.tasks_total
                           <=> m.obligations_solved = m.obligations_total
             /\ hard_failure <=> \E c \in DOMAIN report : report[c].metrics.tasks_errored > 0
  <2>1. pc = "done"
    BY <1>3 DEF RunInv, ReportInv
  <2>2. ASSUME NEW c \in 1 .. Configs
        PROVE  LET m == report[c].metrics
               IN  /\ m.tasks_solved + m.tasks_gave_up + m.tasks_errored = m.tasks_total
                   /\ m.tasks_solved = m.tasks_total
                        <=> m.obligations_solved = m.obligations_total
                   /\ m.tasks_errored > 0
                        <=> \E i \in 1 .. Len(results[c]) : HasError(results[c][i])
    <3>1. /\ report[c].metrics = Aggregate(results[c]) /\ c \in 1 .. Len(results)
          /\ results[c] \in Seq(TaskType)
      BY <2>1, ReportFields
    <3>2. /\ \A i \in 1 .. Len(results[c]) : Judged(results[c][i], i)
          /\ Tallied(results[c])
      BY <3>1 DEF RunInv, ResultsInv
    <3> QED
      BY <3>1, <3>2, ColumnsTold
  <2>3. hard_failure <=> \E c \in 1 .. Configs : \E i \in 1 .. Len(results[c]) :
                           HasError(results[c][i])
    BY <2>1, ReportFields DEF RunInv, ResultsInv
  <2>4. DOMAIN report = 1 .. Configs
    BY <2>1, ReportFields
  <2> QED
    BY <2>2, <2>3, <2>4, Zenon
<1> QED
  BY <1>2, <1>3, Zenon DEF TaskVerdictsAgree

-----------------------------------------------------------------------------
LEMMA Multiples ==
  ASSUME NEW k \in Nat, NEW a \in Nat, NEW b \in Nat
  PROVE  /\ a * k \in Nat
         /\ a <= b => a * k <= b * k
         /\ k > 0 /\ a < b => a * k + k <= b * k
<1>1. a * k \in Nat
  OBVIOUS
<1>2. a <= b => a * k <= b * k
  OBVIOUS
<1>3. k > 0 /\ a < b => a * k + k <= b * k
  OBVIOUS
<1> QED
  BY <1>1, <1>2, <1>3

(* Division by k of a multiple of k and a remainder. *)
LEMMA Divided ==
  ASSUME NEW k \in Nat \ {0}, NEW q \in Nat, NEW r \in 0 .. k - 1
  PROVE  (q * k + r) \div k = q /\ (q * k + r) % k = r
<1> DEFINE a == q * k + r
<1>1. a \in Nat
  OBVIOUS
<1>2. PICK d \in Nat, m \in 0 .. k - 1 : a = k * d + m /\ d = a \div k /\ m = a % k
  <2> HIDE DEF a
  <2>1. a \div k \in Nat /\ a % k \in 0 .. k - 1 
    BY <1>1
  <2>2. a = k * (a \div k) + (a % k)
    BY <1>1
  <2> QED
    BY <2>1, <2>2
<1>3. d = q
  <2>1. CASE d < q
     <3>1. d * k + k <= q * k
       BY <2>1, Multiples
     <3> QED
       BY <3>1, <1>2
  <2>2. CASE q < d
     <3>1. q * k + k <= d * k
       BY <2>2, Multiples
     <3> QED
       BY <3>1, <1>2
  <2> QED
    BY <2>1, <2>2
<1>4. m = r
  BY <1>2, <1>3
<1> QED
  BY <1>2, <1>3, <1>4

LEMMA Below ==
  ASSUME NEW k \in Nat \ {0}, NEW p \in Nat, NEW a \in Nat, a < p * k
  PROVE  a \div k \in 0 .. p - 1
<1>1. PICK d \in Nat, m \in 0 .. k - 1 : a = k * d + m /\ d = a \div k
  <2>1. a \div k \in Nat /\ a % k \in 0 .. k - 1 
    OBVIOUS
  <2>2. a = k * (a \div k) + (a % k)
    OBVIOUS
  <2> QED
    BY <2>1, <2>2
<1>2. CASE p <= d
  <2>1. p * k <= d * k
    BY <1>2, Multiples
  <2> QED
    BY <1>1, <2>1
<1>3. CASE d < p
  BY <1>1, <1>3
<1> QED
  BY <1>2, <1>3

LEMMA Factors ==
  ASSUME NEW p \in Nat, NEW v \in Nat, p * v > 0
  PROVE  p > 0 /\ v > 0
<1>1. p # 0
  <2>1. SUFFICES ASSUME p = 0 PROVE FALSE
    OBVIOUS
  <2>2. 0 * v = 0
    OBVIOUS
  <2> QED
    BY <2>1, <2>2
<1>2. v # 0
  <2>1. SUFFICES ASSUME v = 0 PROVE FALSE
    OBVIOUS
  <2>2. p * 0 = 0
    OBVIOUS
  <2> QED
    BY <2>1, <2>2
<1> QED
  BY <1>1, <1>2

LEMMA Digit ==
  ASSUME NEW y \in Nat, NEW k \in Nat, NEW x \in 0 .. y - 1, NEW d \in 0 .. k - 1
  PROVE  x * k + d \in 0 .. y * k - 1
<1>1. x * k + k <= y * k
  BY Multiples
<1>2. x * k \in Nat
  BY Multiples
<1>3. y * k \in Nat
  BY Multiples
<1> QED
  BY <1>1, <1>2, <1>3

(* The n-th of a product of four dimensions is the combination of the      *)
(* a-th, b-th, c-th and d-th, counted from 0.                              *)
IsPlace(n, v, s, o, a, b, c, d) ==
  /\ (n - 1) \div (v * s * o) = a
  /\ ((n - 1) \div (s * o)) % v = b
  /\ ((n - 1) \div o) % s = c
  /\ (n - 1) % o = d

Product(p, v, s, o) == p * v * s * o

LEMMA Place ==
  ASSUME NEW p \in Nat, NEW v \in Nat, NEW s \in Nat, NEW o \in Nat,
         NEW a \in 0 .. p - 1, NEW b \in 0 .. v - 1, NEW c \in 0 .. s - 1,
         NEW d \in 0 .. o - 1
  PROVE  \E n \in 1 .. Product(p, v, s, o) : IsPlace(n, v, s, o, a, b, c, d)
<1> DEFINE ab == a * v + b
           abc == ab * s + c
           n0 == abc * o + d
           cd == c * o + d
           bcd == b * (s * o) + cd
<1>1. /\ v \in Nat \ {0} /\ s \in Nat \ {0} /\ o \in Nat \ {0}
      /\ s * o \in Nat /\ v * (s * o) \in Nat /\ v * s * o = v * (s * o) /\ p * v \in Nat
      /\ p * v * s \in Nat
  <2>1. s * o \in Nat /\ v * s \in Nat /\ p * v \in Nat
    BY Multiples
  <2>2. v * (s * o) \in Nat /\ p * v * s \in Nat
    BY <2>1, Multiples
  <2>3. v * s * o = v * (s * o)
    OBVIOUS
  <2> QED
    BY <2>1, <2>2, <2>3
<1>2. ab \in 0 .. p * v - 1
  BY Digit
<1>3. abc \in 0 .. p * v * s - 1
  <2> HIDE DEF ab
  <2> QED
    BY <1>1, <1>2, Digit
<1>4. n0 \in 0 .. p * v * s * o - 1
  <2> HIDE DEF abc
  <2> QED
    BY <1>1, <1>3, Digit
<1>5. cd \in 0 .. s * o - 1
  BY Digit
<1>6. bcd \in 0 .. v * (s * o) - 1
  <2> HIDE DEF cd
  <2> QED
    BY <1>1, <1>5, Digit
<1>7. n0 = ab * (s * o) + cd
  <2>1. ab \in Nat
    BY <1>2, <1>1
  <2> HIDE DEF ab
  <2> QED
    BY <2>1
<1>8. n0 = a * (v * (s * o)) + bcd
  <2>1. ab * (s * o) = a * (v * (s * o)) + b * (s * o)
    <3> DEFINE so == s * o
    <3>1. so \in Nat
      BY <1>1
    <3> HIDE DEF so
    <3>2. (a * v + b) * so = a * (v * so) + b * so
      BY <3>1
    <3> QED
      BY <3>2 DEF so
  <2> HIDE DEF ab, cd, n0
  <2>2. a * (v * (s * o)) \in Nat /\ b * (s * o) \in Nat /\ cd \in Nat
    BY <1>1, <1>5, Multiples
  <2> QED
    BY <1>7, <2>1, <2>2
<1>9. s * o # 0 /\ v * (s * o) # 0
  BY <1>1, <1>5, <1>6
<1> HIDE DEF n0, cd, bcd
<1>10. n0 \div (v * (s * o)) = a
  BY <1>1, <1>6, <1>8, <1>9, Divided
<1>11. n0 \div (s * o) = ab
  <2>1. ab \in Nat
    BY <1>1, <1>2
  <2> HIDE DEF ab
  <2> QED
    BY <1>1, <1>5, <1>7, <1>9, <2>1, Divided
<1>12. n0 \div o = abc /\ n0 % o = d
  <2>1. abc \in Nat
    BY <1>1, <1>3
  <2>2. n0 = abc * o + d
    BY DEF n0
  <2> HIDE DEF abc
  <2> QED
    BY <1>1, <2>1, <2>2, Divided
<1>13. ab % v = b
  BY <1>1, Divided
<1>14. abc % s = c
  <2>1. ab \in Nat
    BY <1>1, <1>2
  <2> HIDE DEF ab
  <2> QED
    BY <1>1, <2>1, Divided
<1> HIDE DEF ab, abc
<1>15. PICK n \in 1 .. p * v * s * o : n - 1 = n0
  <2> DEFINE N == p * v * s * o
  <2>1. N \in Nat
    BY <1>1, Multiples
  <2>2. n0 \in 0 .. N - 1
    BY <1>4
  <2> HIDE DEF N
  <2>3. \E n \in 1 .. N : n - 1 = n0
    <3>1. \A m \in 0 .. N - 1 : m + 1 \in 1 .. N /\ m + 1 - 1 = m
      BY <2>1
    <3> QED
      BY <2>2, <3>1
  <2> QED
    BY <2>3 DEF N
<1>16. n0 \div (v * s * o) = a
  <2>1. v * s * o = v * (s * o)
    BY <1>1
  <2> QED
    BY <1>10, <2>1, Zenon
<1>17. (n0 \div (s * o)) % v = b /\ (n0 \div o) % s = c /\ n0 % o = d
  BY <1>11, <1>12, <1>13, <1>14, Zenon
<1> QED
  BY <1>15, <1>16, <1>17, Zenon DEF IsPlace, Product

(* Where each number of the product lies in the four dimensions. *)
LEMMA Placed ==
  ASSUME NEW p \in Nat, NEW v \in Nat, NEW s \in Nat, NEW o \in Nat,
         NEW n \in 1 .. p * v * s * o
  PROVE  /\ 1 + ((n - 1) \div (v * s * o)) \in 1 .. p
         /\ 1 + (((n - 1) \div (s * o)) % v) \in 1 .. v
         /\ 1 + (((n - 1) \div o) % s) \in 1 .. s
         /\ 1 + ((n - 1) % o) \in 1 .. o
<1>1. /\ p * v \in Nat /\ p * v * s \in Nat /\ s * o \in Nat /\ v * s \in Nat
  BY Multiples
<1>2. v * s * o \in Nat /\ p * v * s * o \in Nat
  BY <1>1, Multiples
<1>3. p * v * s > 0 /\ o > 0
  <2> HIDE <1>1
  <2>1. p * v * s * o > 0
    BY <1>2
  <2> DEFINE x == p * v * s
  <2>2. x \in Nat /\ x * o > 0
    BY <1>1, <2>1
  <2> HIDE DEF x
  <2>3. x > 0 /\ o > 0
    BY <2>2, Factors
  <2> QED
    BY <2>3 DEF x
<1>4. p * v > 0 /\ s > 0
  <2> DEFINE x == p * v
  <2>1. x \in Nat /\ x * s > 0
    BY <1>1, <1>3
  <2> HIDE DEF x
  <2>2. x > 0 /\ s > 0
    BY <2>1, Factors
  <2> QED
    BY <2>2 DEF x
<1>5. p > 0 /\ v > 0
  BY <1>4, Factors
<1>6. n - 1 \in Nat
  BY <1>2
<1>7. p * v * s * o = p * (v * s * o)
  OBVIOUS
<1>8. v * s * o # 0 /\ s * o # 0
  BY <1>3, <1>4, <1>5
<1>9. n - 1 < p * (v * s * o)
  BY <1>2, <1>7
<1>10. (n - 1) \div (v * s * o) \in 0 .. p - 1
  <2> DEFINE k == v * s * o
  <2>1. k \in Nat \ {0} /\ n - 1 < p * k
    BY <1>2, <1>8, <1>9
  <2> HIDE DEF k
  <2>2. (n - 1) \div k \in 0 .. p - 1
    BY <1>6, <2>1, Below
  <2> QED
    BY <2>2 DEF k
<1>11. (n - 1) \div (s * o) \in Nat
  <2> DEFINE k == s * o
  <2>1. k \in Nat \ {0}
    BY <1>1, <1>8
  <2> HIDE DEF k
  <2>2. (n - 1) \div k \in Nat
    BY <1>6, <2>1
  <2> QED
    BY <2>2 DEF k
<1>12. (n - 1) \div o \in Nat /\ (n - 1) % o \in 0 .. o - 1
  BY <1>3, <1>6
<1>13. \A k \in Nat \ {0} : \A a \in Nat : a % k \in 0 .. k - 1
  OBVIOUS
<1>14. /\ ((n - 1) \div (s * o)) % v \in 0 .. v - 1
       /\ ((n - 1) \div o) % s \in 0 .. s - 1
  BY <1>4, <1>5, <1>11, <1>12, <1>13
<1> QED
  BY <1>10, <1>12, <1>14

-----------------------------------------------------------------------------
(* The labels given are those of the configurations. *)
SeenInv ==
  /\ configs \in Seq({configs[i] : i \in DOMAIN configs})
  /\ \A i \in DOMAIN configs : configs[i].label \in seen

(* Every number given so far is below the number the next one would get. *)
SuffixInv ==
  /\ IsFiniteSet(seen)
  /\ \A l \in seen : l.suffix \in Nat /\ l.suffix < Cardinality(seen)

LabelInv == SeenInv /\ SuffixInv /\ LabelsUnique

-----------------------------------------------------------------------------
(* The label expand settles on was not given before.                       *)
LEMMA UnusedIsNew ==
  ASSUME SuffixInv, NEW c
  PROVE  /\ Unused(MakeLabel(c)) \notin seen
         /\ Unused(MakeLabel(c)).suffix \in {0, Cardinality(seen)}
<1> DEFINE base == MakeLabel(c)
<1>1. base.suffix = 0
  BY DEF MakeLabel
<1>2. Cardinality(seen) \in Nat
  BY FS_CardinalityType DEF SuffixInv
<1>3. CASE base \notin seen
  BY <1>1, <1>3 DEF Unused
<1>4. CASE base \in seen
  <2>1. Unused(base) = [base EXCEPT !.suffix = Cardinality(seen)]
    BY <1>4 DEF Unused
  <2>2. Unused(base).suffix = Cardinality(seen)
    BY <2>1 DEF MakeLabel
  <2>3. QED
    BY <1>2, <2>2 DEF SuffixInv
<1>5. QED
  BY <1>3, <1>4

LEMMA LabelsInit == PlanInit => LabelInv
<1> SUFFICES ASSUME PlanInit PROVE LabelInv
  OBVIOUS
<1>1. seen = {} /\ configs = <<>>
  BY DEF PlanInit
<1>2. IsFiniteSet(seen)
  BY <1>1, FS_EmptySet
<1>3. QED
  BY <1>1, <1>2 DEF LabelInv, SeenInv, SuffixInv, LabelsUnique

(* One turn of the loop: the one step that gives a label. *)
LEMMA LabelsExpand == LabelInv /\ Expand => LabelInv'
<1> SUFFICES ASSUME LabelInv, Expand PROVE LabelInv'
  OBVIOUS
<1> DEFINE label == Unused(MakeLabel(Head(pending)))
           old == {configs[i] : i \in DOMAIN configs}
<1>1. PICK config : config.label = label /\ configs' = Append(configs, config)
  BY DEF Expand
<1>2. seen' = seen \union {label}
  BY DEF Expand
<1>3. label \notin seen /\ label.suffix \in {0, Cardinality(seen)}
  BY UnusedIsNew DEF LabelInv
<1>4. configs \in Seq(old)
  BY DEF LabelInv, SeenInv
<1>5. /\ Len(configs) \in Nat
      /\ DOMAIN configs = 1 .. Len(configs)
      /\ DOMAIN configs' = 1 .. Len(configs) + 1
      /\ \A i \in 1 .. Len(configs) : configs'[i] = configs[i]
      /\ configs'[Len(configs) + 1] = config
  <2> configs \in Seq(old \union {config})
    BY <1>4
  <2> HIDE DEF old
  <2> QED
    BY <1>1
<1>6. Cardinality(seen) \in Nat /\ IsFiniteSet(seen') /\ Cardinality(seen') = Cardinality(seen) + 1
  BY <1>2, <1>3, FS_AddElement, FS_CardinalityType DEF LabelInv, SuffixInv
<1>7. SeenInv'
  <2>1. configs' \in Seq({configs'[i] : i \in DOMAIN configs'})
    <3> DEFINE new == {configs'[i] : i \in DOMAIN configs'}
    <3>1. config \in new /\ old \subseteq new
      BY <1>5
    <3>2. configs \in Seq(new) /\ config \in new
      BY <1>4, <1>5, <3>1
    <3> HIDE DEF new
    <3>3. configs' \in Seq(new)
      BY <1>1, <3>2
    <3> QED
      BY <3>3 DEF new
  <2>2. \A i \in DOMAIN configs' : configs'[i].label \in seen'
    BY <1>1, <1>2, <1>5 DEF LabelInv, SeenInv
  <2> QED
    BY <2>1, <2>2 DEF SeenInv
<1>8. SuffixInv'
  <2>1. \A l \in seen : l.suffix \in Nat /\ l.suffix < Cardinality(seen)
    BY DEF LabelInv, SuffixInv
  <2>2. PICK n \in Nat : n = Cardinality(seen) /\ Cardinality(seen') = n + 1
    BY <1>6
  <2>3. ASSUME NEW l \in seen'
        PROVE  l.suffix \in Nat /\ l.suffix < n + 1
    <3>1. CASE l = label
      BY <1>3, <2>2, <3>1
    <3>2. CASE l \in seen
      BY <2>1, <2>2, <3>2
    <3> QED
      BY <1>2, <3>1, <3>2
  <2> QED
    BY <1>6, <2>2, <2>3 DEF SuffixInv
<1>9. LabelsUnique'
  BY <1>1, <1>3, <1>5 DEF LabelInv, SeenInv, LabelsUnique
<1> QED
  BY <1>7, <1>8, <1>9 DEF LabelInv

LEMMA LabelsStep == LabelInv /\ [PlanNext]_plan => LabelInv'
<1> SUFFICES ASSUME LabelInv, [PlanNext]_plan PROVE LabelInv'
  OBVIOUS
<1>1. CASE Expand
  BY <1>1, LabelsExpand
<1>2. CASE UNCHANGED <<seen, configs>>
  BY <1>2 DEF LabelInv, SeenInv, SuffixInv, LabelsUnique
<1>3. QED
  BY <1>1, <1>2 DEF PlanNext, plan, Refuse, ReadArgs, ReadExperiment, Expanded, RunConfig,
     PlanFails, PlanEnds

-----------------------------------------------------------------------------
(* What the plan holds. *)
ProverType == STRING \union {None}

CombinationType ==
  [prover : ProverType, provider : ProviderType, seed : Int, oracle : OracleType]

MatrixType ==
  [provers : Seq(ProverType), providers : Seq(ProviderType), seeds : Seq(Int),
   oracle_configs : Seq(OracleType)]

ConfigType ==
  [label : Labels, prover : ProverType, provider : ProviderType, seed : Int,
   oracle : OracleType]

RunType ==
  [label : Labels, task_results : Seq([id : STRING, kinds : Signatures, run : Nat \X Nat])]

PlanTyped ==
  /\ args \in CommandLineType
  /\ args.config_file => experiment \in ExperimentType
  /\ stage \in {"read", "expand", "run", "done", "error"}
  /\ matrix \in MatrixType
  /\ pending \in Seq(CombinationType)
  /\ configs \in Seq(ConfigType)
  /\ suite \in Seq(STRING)
  /\ run_results \in Seq(RunType)

Size(m) == Len(m.provers) * Len(m.providers) * Len(m.seeds) * Len(m.oracle_configs)

Same(config, c) ==
  /\ config.prover = c.prover /\ config.provider = c.provider
  /\ config.seed = c.seed /\ config.oracle = c.oracle

(* The configurations so far and the combinations still to come are, in    *)
(* this order, the product of the matrix that was asked for.               *)
ProductInv ==
  /\ Len(configs) + Len(pending) = Size(matrix)
  /\ \A i \in 1 .. Len(configs) : Same(configs[i], Combinations(matrix)[i])
  /\ \A i \in 1 .. Len(pending) : pending[i] = Combinations(matrix)[Len(configs) + i]
  /\ stage = "read" => Len(configs) = 0
  /\ stage # "expand" => pending = <<>>
  /\ args.config_file => matrix \in {NoMatrix, Merged(experiment, args)}

(* The j-th result is of the j-th configuration, and its i-th task of the  *)
(* i-th of the suite.                                                      *)
RunsInv ==
  /\ Len(run_results) <= Len(configs)
  /\ stage \in {"read", "expand"} => Len(run_results) = 0
  /\ \A j \in 1 .. Len(run_results) :
       /\ run_results[j].label = configs[j].label
       /\ Len(run_results[j].task_results) = Len(suite)
       /\ \A i \in 1 .. Len(suite) :
            /\ run_results[j].task_results[i].id = suite[i]
            /\ run_results[j].task_results[i].run = <<j, i>>

-----------------------------------------------------------------------------
(* The elements of a sequence, counted from 0 as well. *)
LEMMA Members ==
  ASSUME NEW T, NEW t \in Seq(T)
  PROVE  /\ \A i \in 1 .. Len(t) : t[i] \in T /\ t[i] \in ToSet(t)
         /\ \A x \in ToSet(t) : \E i \in 0 .. Len(t) - 1 : t[1 + i] = x
<1>1. Len(t) \in Nat /\ DOMAIN t = 1 .. Len(t) /\ \A i \in 1 .. Len(t) : t[i] \in T
  OBVIOUS
<1>2. ToSet(t) = {t[i] : i \in 1 .. Len(t)}
  BY <1>1, Zenon DEF ToSet
<1>3. ASSUME NEW x \in ToSet(t)
      PROVE  \E i \in 0 .. Len(t) - 1 : t[1 + i] = x
  <2>1. PICK k \in 1 .. Len(t) : t[k] = x
    BY <1>2, Zenon
  <2>2. PICK i \in 0 .. Len(t) - 1 : 1 + i = k
    <3>1. k - 1 \in 0 .. Len(t) - 1 /\ 1 + (k - 1) = k
      BY <1>1
    <3> QED
      BY <3>1
  <2> QED
    BY <2>1, <2>2, Zenon
<1> QED
  BY <1>1, <1>2, <1>3, Zenon

(* The product of a matrix. *)
LEMMA ProductTyped ==
  ASSUME NEW m \in MatrixType
  PROVE  /\ Size(m) \in Nat
         /\ Combinations(m) \in Seq(CombinationType) /\ Len(Combinations(m)) = Size(m)
         /\ \A n \in 1 .. Size(m) :
              /\ Combinations(m)[n].prover \in ToSet(m.provers)
              /\ Combinations(m)[n].provider \in ToSet(m.providers)
              /\ Combinations(m)[n].seed \in ToSet(m.seeds)
              /\ Combinations(m)[n].oracle \in ToSet(m.oracle_configs)
<1> DEFINE P == Len(m.provers)
           V == Len(m.providers)
           S == Len(m.seeds)
           O == Len(m.oracle_configs)
           p(n) == 1 + ((n - 1) \div (V * S * O))
           v(n) == 1 + (((n - 1) \div (S * O)) % V)
           s(n) == 1 + (((n - 1) \div O) % S)
           o(n) == 1 + ((n - 1) % O)
           all == [n \in 1 .. Size(m) |->
                     [prover |-> m.provers[p(n)], provider |-> m.providers[v(n)],
                      seed |-> m.seeds[s(n)], oracle |-> m.oracle_configs[o(n)]]]
<1>1. /\ m.provers \in Seq(ProverType) /\ m.providers \in Seq(ProviderType)
      /\ m.seeds \in Seq(Int) /\ m.oracle_configs \in Seq(OracleType)
  BY DEF MatrixType
<1>2. P \in Nat /\ V \in Nat /\ S \in Nat /\ O \in Nat
  BY <1>1
<1>3. Size(m) = P * V * S * O
  BY Zenon DEF Size
<1>4. Size(m) \in Nat
  <2> HIDE DEF P, V, S, O
  <2>1. P * V \in Nat
    BY <1>2, Multiples
  <2>2. P * V * S \in Nat
    BY <1>2, <2>1, Multiples
  <2> QED
    BY <1>2, <1>3, <2>2, Multiples
<1>5. \A n \in 1 .. Size(m) : p(n) \in 1 .. P /\ v(n) \in 1 .. V /\ s(n) \in 1 .. S
                                /\ o(n) \in 1 .. O
  <2> HIDE DEF P, V, S, O
  <2> QED
    BY <1>2, <1>3, Placed
<1>6. Combinations(m) = all
  BY <1>3, Zenon DEF Combinations
<1> HIDE DEF p, v, s, o
<1>7. ASSUME NEW n \in 1 .. Size(m)
      PROVE  /\ all[n] \in CombinationType
             /\ all[n].prover \in ToSet(m.provers) /\ all[n].provider \in ToSet(m.providers)
             /\ all[n].seed \in ToSet(m.seeds) /\ all[n].oracle \in ToSet(m.oracle_configs)
  <2>1. p(n) \in 1 .. P /\ v(n) \in 1 .. V /\ s(n) \in 1 .. S /\ o(n) \in 1 .. O
    BY <1>5
  <2>2. /\ m.provers[p(n)] \in ProverType /\ m.provers[p(n)] \in ToSet(m.provers)
        /\ m.providers[v(n)] \in ProviderType /\ m.providers[v(n)] \in ToSet(m.providers)
        /\ m.seeds[s(n)] \in Int /\ m.seeds[s(n)] \in ToSet(m.seeds)
        /\ m.oracle_configs[o(n)] \in OracleType
        /\ m.oracle_configs[o(n)] \in ToSet(m.oracle_configs)
    BY <1>1, <2>1, Members
  <2>3. all[n] = [prover |-> m.provers[p(n)], provider |-> m.providers[v(n)],
                  seed |-> m.seeds[s(n)], oracle |-> m.oracle_configs[o(n)]]
    OBVIOUS
  <2> HIDE DEF all
  <2> QED
    BY <2>2, <2>3 DEF CombinationType
<1>8. all \in Seq(CombinationType)
  BY <1>4, <1>7
<1>9. Len(all) = Size(m)
  BY <1>4, <1>8
<1> HIDE DEF all
<1> QED
  BY <1>4, <1>6, <1>7, <1>8, <1>9

(* Every choice from the four dimensions is in the product. *)
LEMMA ProductWhole ==
  ASSUME NEW m \in MatrixType,
         NEW p \in ToSet(m.provers), NEW v \in ToSet(m.providers), NEW s \in ToSet(m.seeds),
         NEW o \in ToSet(m.oracle_configs)
  PROVE  \E n \in 1 .. Size(m) :
           /\ Combinations(m)[n].prover = p /\ Combinations(m)[n].provider = v
           /\ Combinations(m)[n].seed = s /\ Combinations(m)[n].oracle = o
<1> DEFINE P == Len(m.provers)
           V == Len(m.providers)
           S == Len(m.seeds)
           O == Len(m.oracle_configs)
<1>1. /\ m.provers \in Seq(ProverType) /\ m.providers \in Seq(ProviderType)
      /\ m.seeds \in Seq(Int) /\ m.oracle_configs \in Seq(OracleType)
  BY DEF MatrixType
<1>2. P \in Nat /\ V \in Nat /\ S \in Nat /\ O \in Nat
  BY <1>1
<1>3. PICK a \in 0 .. P - 1 : m.provers[1 + a] = p
  BY <1>1, Members
<1>4. PICK b \in 0 .. V - 1 : m.providers[1 + b] = v
  BY <1>1, Members
<1>5. PICK c \in 0 .. S - 1 : m.seeds[1 + c] = s
  BY <1>1, Members
<1>6. PICK d \in 0 .. O - 1 : m.oracle_configs[1 + d] = o
  BY <1>1, Members
<1>7. Size(m) = Product(P, V, S, O)
  BY Zenon DEF Size, Product
<1>8. PICK n \in 1 .. Product(P, V, S, O) : IsPlace(n, V, S, O, a, b, c, d)
  <2> HIDE DEF P, V, S, O
  <2> QED
    BY <1>2, Place
<1>9. Combinations(m)[n] =
        [prover |-> m.provers[1 + a], provider |-> m.providers[1 + b],
         seed |-> m.seeds[1 + c], oracle |-> m.oracle_configs[1 + d]]
  BY <1>7, <1>8, Zenon DEF Combinations, IsPlace, Product
<1>10. /\ Combinations(m)[n].prover = p /\ Combinations(m)[n].provider = v
       /\ Combinations(m)[n].seed = s /\ Combinations(m)[n].oracle = o
  BY <1>3, <1>4, <1>5, <1>6, <1>9
<1> QED
  BY <1>7, <1>10, Zenon

-----------------------------------------------------------------------------
(* Types of the plan. *)
LEMMA NoneAsked == /\ NoMatrix \in MatrixType /\ Size(NoMatrix) = 0
<1>1. NoMatrix \in MatrixType
  BY DEF NoMatrix, MatrixType
<1>2. Len(NoMatrix.provers) = 0 /\ Len(NoMatrix.providers) = 0 /\ Len(NoMatrix.seeds) = 0
      /\ Len(NoMatrix.oracle_configs) = 0
  BY DEF NoMatrix
<1>3. 0 * 0 * 0 * 0 = 0
  OBVIOUS
<1> QED
  BY <1>1, <1>2, <1>3 DEF Size

LEMMA OverrideType ==
  ASSUME NEW a \in CommandLineType, NEW oc \in OracleType
  PROVE  Override(a, oc) \in OracleType
<1>1. /\ a.max_repair_attempts \in Int \union {None} /\ a.max_tokens \in Int \union {None}
      /\ a.temperature \in Int \union {None}
  BY DEF CommandLineType
<1>2. oc.max_repair_attempts \in Int /\ oc.max_tokens \in Int /\ oc.temperature \in Int
  BY DEF OracleType
<1>3. /\ Given(a.max_repair_attempts, oc.max_repair_attempts) \in Int
      /\ Given(a.max_tokens, oc.max_tokens) \in Int
      /\ Given(a.temperature, oc.temperature) \in Int
  BY <1>1, <1>2 DEF Given
<1> QED
  BY <1>3 DEF Override, OracleType

LEMMA ProvidersType ==
  ASSUME NEW a \in CommandLineType
  PROVE  /\ ProvidersOf(a) \in Seq(ProviderType)
         /\ Len(ProvidersOf(a)) = Len(a.provider)
         /\ \A i \in 1 .. Len(a.provider) :
              ProvidersOf(a)[i].name = a.provider[i] /\ ProvidersOf(a)[i].model = a.model
<1>1. /\ a.provider \in Seq(STRING) /\ a.model \in STRING \union {None}
      /\ ModelName(a.model) \in STRING
  BY DEF CommandLineType
<1>2. Len(a.provider) \in Nat /\ DOMAIN a.provider = 1 .. Len(a.provider)
      /\ \A i \in 1 .. Len(a.provider) : a.provider[i] \in STRING
  BY <1>1
<1>3. ASSUME NEW i \in 1 .. Len(a.provider)
      PROVE  [name |-> a.provider[i], model |-> a.model] \in ProviderType
  BY <1>1, <1>2 DEF ProviderType
<1>4. ProvidersOf(a) = [i \in 1 .. Len(a.provider) |->
                          [name |-> a.provider[i], model |-> a.model]]
  BY <1>2, Zenon DEF ProvidersOf
<1>5. ProvidersOf(a) \in Seq(ProviderType)
  BY <1>2, <1>3, <1>4
<1> QED
  BY <1>2, <1>4, <1>5

LEMMA ArgsMatrixType ==
  ASSUME NEW a \in CommandLineType
  PROVE  MatrixFromArgs(a) \in MatrixType
<1>1. a.prover \in ProverType /\ a.seed \in Seq(Int)
  BY DEF CommandLineType, ProverType
<1>2. <<a.prover>> \in Seq(ProverType)
  BY <1>1
<1>3. (IF a.seed # <<>> THEN a.seed ELSE <<42>>) \in Seq(Int)
  BY <1>1
<1>4. Override(a, DefaultOracle) \in OracleType
  BY EvalPlanAssumption, OverrideType
<1>5. <<Override(a, DefaultOracle)>> \in Seq(OracleType)
  BY <1>4
<1> QED
  BY <1>2, <1>3, <1>5, ProvidersType DEF MatrixFromArgs, MatrixType

OraclesOf(e) == IF e.oracle_configs # <<>> THEN e.oracle_configs ELSE <<DefaultOracle>>

LEMMA MergedType ==
  ASSUME NEW a \in CommandLineType, NEW e \in ExperimentType
  PROVE  /\ Merged(e, a) \in MatrixType
         /\ OraclesOf(e) \in Seq(OracleType)
         /\ Len(Merged(e, a).oracle_configs) = Len(OraclesOf(e))
         /\ \A i \in 1 .. Len(OraclesOf(e)) :
              Merged(e, a).oracle_configs[i] = Override(a, OraclesOf(e)[i])
<1> DEFINE oracles == OraclesOf(e)
           overridden == [i \in DOMAIN oracles |-> Override(a, oracles[i])]
           provers == IF a.prover # None THEN <<a.prover>> ELSE e.provers
           providers == IF a.provider # <<>> THEN ProvidersOf(a) ELSE e.providers
           seeds == IF a.seed # <<>> THEN a.seed ELSE e.seeds
<1>1. a.prover \in ProverType /\ a.seed \in Seq(Int)
  BY DEF CommandLineType, ProverType
<1>2. /\ e.provers \in Seq(STRING) /\ e.providers \in Seq(ProviderType) /\ e.seeds \in Seq(Int)
      /\ e.oracle_configs \in Seq(OracleType)
  BY DEF ExperimentType
<1>3. oracles \in Seq(OracleType)
  BY <1>2, EvalPlanAssumption DEF OraclesOf
<1>4. /\ DOMAIN oracles = 1 .. Len(oracles) /\ Len(oracles) \in Nat
      /\ \A i \in 1 .. Len(oracles) : Override(a, oracles[i]) \in OracleType
  <2> HIDE DEF oracles
  <2>1. \A i \in 1 .. Len(oracles) : oracles[i] \in OracleType
    BY <1>3
  <2> QED
    BY <1>3, <2>1, OverrideType
<1>5. /\ overridden \in Seq(OracleType) /\ Len(overridden) = Len(oracles)
      /\ \A i \in 1 .. Len(oracles) : overridden[i] = Override(a, oracles[i])
  <2> HIDE DEF oracles
  <2> QED
    BY <1>4
<1>6. provers \in Seq(ProverType)
  <2>1. <<a.prover>> \in Seq(ProverType) /\ e.provers \in Seq(ProverType)
    BY <1>1, <1>2 DEF ProverType
  <2> QED
    BY <2>1
<1>7. providers \in Seq(ProviderType) /\ seeds \in Seq(Int)
  BY <1>1, <1>2, ProvidersType
<1>8. Merged(e, a) = [provers |-> provers, providers |-> providers, seeds |-> seeds,
                      oracle_configs |-> overridden]
  BY Zenon DEF Merged, OraclesOf
<1> HIDE DEF provers, providers, seeds, overridden
<1>9. Merged(e, a) \in MatrixType
  BY <1>5, <1>6, <1>7, <1>8 DEF MatrixType
<1>10. Merged(e, a).oracle_configs = overridden
  BY <1>8
<1> QED
  BY <1>3, <1>5, <1>9, <1>10

LEMMA LabelType ==
  ASSUME NEW c \in CombinationType, SuffixInv
  PROVE  Unused(MakeLabel(c)) \in Labels
<1>1. /\ c.prover \in STRING \union {None} /\ c.provider \in ProviderType /\ c.seed \in Int
      /\ c.oracle \in OracleType
  BY DEF CombinationType, ProverType
<1>2. c.provider.name \in STRING /\ ModelName(c.provider.model) \in STRING
  BY <1>1 DEF ProviderType
<1>3. c.oracle.max_repair_attempts \in Int /\ c.oracle.temperature \in Int
  BY <1>1 DEF OracleType
<1>4. MakeLabel(c) \in Labels
  BY <1>1, <1>2, <1>3 DEF MakeLabel, Labels
<1>5. Cardinality(seen) \in Nat
  BY FS_CardinalityType DEF SuffixInv
<1> QED
  BY <1>4, <1>5 DEF Unused, Labels

-----------------------------------------------------------------------------
(* The plan's inductive invariant. *)
PlanRest == PlanTyped /\ seen = {configs[i].label : i \in DOMAIN configs} /\ ProductInv /\ RunsInv

LEMMA RestInit == PlanInit => PlanRest
<1> SUFFICES ASSUME PlanInit PROVE PlanRest
  OBVIOUS
<1>1. /\ args \in CommandLineType
      /\ experiment \in IF args.config_file THEN Experiments ELSE {None}
      /\ stage = "read" /\ matrix = NoMatrix /\ pending = <<>> /\ seen = {} /\ configs = <<>>
      /\ suite \in IF args.config_file THEN {experiment.suite} ELSE {args.suite}
      /\ run_results = <<>>
  BY EvalPlanAssumption DEF PlanInit
<1>2. args.config_file => experiment \in ExperimentType
  BY <1>1, EvalPlanAssumption
<1>3. suite \in Seq(STRING)
  <2>1. args.suite \in Seq(STRING) /\ (args.config_file => experiment.suite \in Seq(STRING))
    BY <1>1, <1>2 DEF CommandLineType, ExperimentType
  <2> QED
    BY <1>1, <2>1
<1>4. PlanTyped
  BY <1>1, <1>2, <1>3, NoneAsked DEF PlanTyped
<1>5. Len(<<>>) = 0 /\ \A i \in 1 .. 0 : FALSE
  OBVIOUS
<1>6. ProductInv
  BY <1>1, <1>5, NoneAsked DEF ProductInv
<1>7. RunsInv
  BY <1>1, <1>5 DEF RunsInv
<1>8. seen = {configs[i].label : i \in DOMAIN configs}
  BY <1>1
<1> QED
  BY <1>4, <1>6, <1>7, <1>8 DEF PlanRest

(* The plan is laid out: pending is the product of a matrix. *)
LEMMA RestRead ==
  ASSUME PlanRest, stage = "read", stage' = "expand",
         NEW m \in MatrixType, args.config_file => m = Merged(experiment, args),
         matrix' = m, pending' = Combinations(m),
         UNCHANGED <<args, experiment, seen, configs, suite, run_results>>
  PROVE  PlanRest'
<1>1. /\ Size(m) \in Nat /\ Combinations(m) \in Seq(CombinationType)
      /\ Len(Combinations(m)) = Size(m)
  BY ProductTyped
<1>2. PlanTyped'
  BY <1>1 DEF PlanRest, PlanTyped
<1>3. Len(configs) = 0 /\ Len(run_results) = 0 /\ \A i \in 1 .. 0 : FALSE
  BY DEF PlanRest, ProductInv, RunsInv
<1>4. \A i \in 1 .. Len(Combinations(m)) : 0 + i = i
  BY <1>1
<1>5. 0 + Size(m) = Size(m)
  BY <1>1
<1>6. ProductInv'
  <2>1. Len(configs') + Len(pending') = Size(matrix')
    BY <1>1, <1>3, <1>5
  <2>2. \A i \in 1 .. Len(pending') : pending'[i] = Combinations(matrix')[Len(configs') + i]
    BY <1>3, <1>4
  <2>3. \A i \in 1 .. Len(configs') : Same(configs'[i], Combinations(matrix')[i])
    BY <1>3
  <2>4. args'.config_file => matrix' \in {NoMatrix, Merged(experiment', args')}
    OBVIOUS
  <2>5. (args.config_file => matrix \in {NoMatrix, Merged(experiment, args)})'
    BY <2>4
  <2>6. (\A i \in 1 .. Len(configs) : Same(configs[i], Combinations(matrix)[i]))'
    BY <2>3
  <2>7. (\A i \in 1 .. Len(pending) : pending[i] = Combinations(matrix)[Len(configs) + i])'
    BY <2>2
  <2>8. stage' # "read" /\ stage' = "expand"
    OBVIOUS
  <2> QED
    BY <2>1, <2>5, <2>6, <2>7, <2>8 DEF ProductInv
<1>7. RunsInv'
  BY <1>3 DEF PlanRest, RunsInv
<1> QED
  BY <1>2, <1>6, <1>7 DEF PlanRest

(* The next combination becomes a configuration. *)
LEMMA RestExpand ==
  ASSUME PlanRest, LabelInv, Expand
  PROVE  PlanRest'
<1> DEFINE c == Head(pending)
           label == Unused(MakeLabel(c))
           config == [label |-> label, prover |-> c.prover, provider |-> c.provider,
                      seed |-> c.seed, oracle |-> c.oracle]
           n == Len(configs)
           k == Len(pending)
<1>1. /\ stage = "expand" /\ pending # <<>> /\ pending' = Tail(pending)
      /\ seen' = seen \union {label} /\ configs' = Append(configs, config)
      /\ UNCHANGED <<args, experiment, stage, matrix, suite, run_results>>
  BY DEF Expand
<1>2. pending \in Seq(CombinationType) /\ configs \in Seq(ConfigType) /\ matrix \in MatrixType
  BY DEF PlanRest, PlanTyped
<1>3. /\ c \in CombinationType /\ c = pending[1] /\ pending' \in Seq(CombinationType)
      /\ k \in Nat /\ k > 0 /\ Len(pending') = k - 1
      /\ \A i \in 1 .. k - 1 : pending'[i] = pending[i + 1]
  BY <1>1, <1>2
<1>4. config \in ConfigType
  <2>1. label \in Labels
    BY <1>3, LabelType DEF LabelInv
  <2> HIDE DEF label
  <2>2. /\ c.prover \in ProverType /\ c.provider \in ProviderType /\ c.seed \in Int
        /\ c.oracle \in OracleType
    BY <1>3 DEF CombinationType
  <2> QED
    BY <2>1, <2>2 DEF ConfigType
<1>5. config.label = label /\ Same(config, c)
  BY DEF Same
<1> HIDE DEF config
<1>6. /\ configs' \in Seq(ConfigType) /\ n \in Nat /\ Len(configs') = n + 1
      /\ DOMAIN configs = 1 .. n /\ DOMAIN configs' = 1 .. n + 1
      /\ \A i \in 1 .. n : configs'[i] = configs[i]
      /\ configs'[n + 1] = config
  BY <1>1, <1>2, <1>4
<1> HIDE DEF label, c
<1>7. PlanTyped'
  BY <1>1, <1>3, <1>6 DEF PlanRest, PlanTyped
<1>8. seen' = {configs'[i].label : i \in DOMAIN configs'}
  <2>1. seen = {configs[i].label : i \in 1 .. n}
    BY <1>6 DEF PlanRest
  <2>2. \A i : i \in 1 .. n + 1 <=> i \in 1 .. n \/ i = n + 1
    BY <1>6
  <2> HIDE DEF n
  <2> QED
    BY <1>1, <1>5, <1>6, <2>1, <2>2
<1>9. /\ n + k = Size(matrix)
      /\ \A i \in 1 .. n : Same(configs[i], Combinations(matrix)[i])
      /\ \A i \in 1 .. k : pending[i] = Combinations(matrix)[n + i]
      /\ args.config_file => matrix \in {NoMatrix, Merged(experiment, args)}
  BY DEF PlanRest, ProductInv
<1> HIDE DEF n, k
<1>10. \A i \in 1 .. n + 1 : Same(configs'[i], Combinations(matrix)[i])
  <2>1. Same(configs'[n + 1], Combinations(matrix)[n + 1])
    <3>1. 1 \in 1 .. k
      BY <1>3
    <3> QED
      BY <1>3, <1>5, <1>6, <1>9, <3>1
  <2>2. \A i \in 1 .. n + 1 : i \in 1 .. n \/ i = n + 1
    BY <1>6
  <2> QED
    BY <1>6, <1>9, <2>1, <2>2
<1>11. \A i \in 1 .. k - 1 : pending'[i] = Combinations(matrix)[n + 1 + i]
  <2> TAKE i \in 1 .. k - 1
  <2>1. i + 1 \in 1 .. k /\ n + (i + 1) = n + 1 + i
    BY <1>3, <1>6
  <2> QED
    BY <1>3, <1>9, <2>1
<1>12. n + 1 + (k - 1) = n + k
  BY <1>3, <1>6
<1>13. ProductInv'
  <2>1. Len(configs') + Len(pending') = Size(matrix')
    BY <1>1, <1>3, <1>6, <1>9, <1>12
  <2>2. (\A i \in 1 .. Len(configs) : Same(configs[i], Combinations(matrix)[i]))'
    BY <1>1, <1>6, <1>10
  <2>3. (\A i \in 1 .. Len(pending) : pending[i] = Combinations(matrix)[Len(configs) + i])'
    BY <1>1, <1>3, <1>6, <1>11
  <2>4. (args.config_file => matrix \in {NoMatrix, Merged(experiment, args)})'
    BY <1>1, <1>9
  <2> QED
    BY <1>1, <2>1, <2>2, <2>3, <2>4 DEF ProductInv
<1>14. RunsInv'
  <2>1. Len(run_results) = 0 /\ \A j \in 1 .. 0 : FALSE
    BY <1>1 DEF PlanRest, RunsInv
  <2> QED
    BY <1>1, <1>6, <2>1 DEF RunsInv
<1> QED
  BY <1>7, <1>8, <1>13, <1>14 DEF PlanRest

(* The next configuration has its results. *)
LEMMA RestRun ==
  ASSUME PlanRest, RunConfig
  PROVE  PlanRest'
<1> DEFINE n == Len(run_results)
           s == Len(suite)
<1>1. PICK kinds \in [DOMAIN suite -> Signatures] :
        run_results' = Append(run_results,
          [label |-> configs[n + 1].label,
           task_results |-> [i \in DOMAIN suite |->
             [id |-> suite[i], kinds |-> kinds[i], run |-> <<n + 1, i>>]]])
  BY DEF RunConfig
<1>2. /\ stage = "run" /\ n < Len(configs)
      /\ UNCHANGED <<args, experiment, stage, matrix, pending, seen, configs, suite>>
  BY DEF RunConfig
<1>3. /\ suite \in Seq(STRING) /\ run_results \in Seq(RunType) /\ configs \in Seq(ConfigType)
  BY DEF PlanRest, PlanTyped
<1>4. /\ s \in Nat /\ n \in Nat /\ Len(configs) \in Nat /\ DOMAIN suite = 1 .. s
      /\ \A i \in 1 .. s : suite[i] \in STRING
  BY <1>3
<1> DEFINE rows == [i \in DOMAIN suite |->
                      [id |-> suite[i], kinds |-> kinds[i], run |-> <<n + 1, i>>]]
           result == [label |-> configs[n + 1].label, task_results |-> rows]
<1>5. /\ \A i \in 1 .. s : /\ rows[i].id = suite[i] /\ rows[i].run = <<n + 1, i>>
                           /\ rows[i] \in [id : STRING, kinds : Signatures, run : Nat \X Nat]
  BY <1>4
<1>6. rows \in Seq([id : STRING, kinds : Signatures, run : Nat \X Nat])
  BY <1>4, <1>5
<1>7. Len(rows) = s
  BY <1>4, <1>6
<1>8. configs[n + 1].label \in Labels
  <2>1. configs[n + 1] \in ConfigType
    BY <1>2, <1>3, <1>4
  <2> QED
    BY <2>1 DEF ConfigType
<1> HIDE DEF rows
<1>9. /\ result \in RunType /\ result.label = configs[n + 1].label /\ result.task_results = rows
  BY <1>6, <1>8 DEF RunType
<1>10. run_results' = Append(run_results, result)
  BY <1>1 DEF rows
<1> HIDE DEF result
<1>11. /\ run_results' \in Seq(RunType) /\ Len(run_results') = n + 1
       /\ \A j \in 1 .. n : run_results'[j] = run_results[j]
       /\ run_results'[n + 1] = result
  BY <1>3, <1>9, <1>10
<1>12. PlanTyped'
  BY <1>2, <1>11 DEF PlanRest, PlanTyped
<1>13. ProductInv'
  BY <1>2 DEF PlanRest, ProductInv
<1> DEFINE Right(r, j) == /\ r.label = configs[j].label
                          /\ Len(r.task_results) = s
                          /\ \A i \in 1 .. s : /\ r.task_results[i].id = suite[i]
                                               /\ r.task_results[i].run = <<j, i>>
<1>14. \A j \in 1 .. n : Right(run_results[j], j)
  BY DEF PlanRest, RunsInv
<1>15. Right(result, n + 1)
  BY <1>5, <1>7, <1>9
<1>16. \A j \in 1 .. n + 1 : Right(run_results'[j], j)
  <2>1. \A j \in 1 .. n + 1 : j \in 1 .. n \/ j = n + 1
    BY <1>4
  <2> HIDE DEF Right, n
  <2> QED
    BY <1>11, <1>14, <1>15, <2>1, Zenon
<1>17. Len(run_results') <= Len(configs')
  BY <1>2, <1>4, <1>11
<1>18. (\A j \in 1 .. Len(run_results) :
          /\ run_results[j].label = configs[j].label
          /\ Len(run_results[j].task_results) = Len(suite)
          /\ \A i \in 1 .. Len(suite) :
               /\ run_results[j].task_results[i].id = suite[i]
               /\ run_results[j].task_results[i].run = <<j, i>>)'
  BY <1>2, <1>11, <1>16
<1>19. RunsInv'
  BY <1>2, <1>17, <1>18 DEF RunsInv
<1> QED
  BY <1>2, <1>12, <1>13, <1>19 DEF PlanRest

LEMMA RestStep ==
  ASSUME PlanRest, LabelInv, [PlanNext]_plan
  PROVE  PlanRest'
<1>1. CASE UNCHANGED plan
  <2>1. UNCHANGED <<args, experiment, stage, matrix, pending, seen, configs, suite, run_results>>
    BY <1>1 DEF plan
  <2>2. PlanTyped'
    BY <2>1 DEF PlanRest, PlanTyped
  <2>3. ProductInv'
    BY <2>1 DEF PlanRest, ProductInv
  <2>4. RunsInv'
    BY <2>1 DEF PlanRest, RunsInv
  <2> QED
    BY <2>1, <2>2, <2>3, <2>4 DEF PlanRest
<1>2. CASE Refuse \/ Expanded \/ PlanFails \/ PlanEnds
  <2>1. /\ UNCHANGED <<args, experiment, matrix, pending, seen, configs, suite, run_results>>
        /\ stage' \in {"run", "error", "done"} /\ (stage = "expand" => pending = <<>>)
    BY <1>2 DEF Refuse, Expanded, PlanFails, PlanEnds
  <2>2. PlanTyped'
    BY <2>1 DEF PlanRest, PlanTyped
  <2>3. ProductInv'
    BY <2>1 DEF PlanRest, ProductInv
  <2>4. RunsInv'
    BY <2>1 DEF PlanRest, RunsInv
  <2> QED
    BY <2>1, <2>2, <2>3, <2>4 DEF PlanRest
<1>3. CASE ReadArgs
  <2>1. args \in CommandLineType
    BY DEF PlanRest, PlanTyped
  <2>2. MatrixFromArgs(args) \in MatrixType
    BY <2>1, ArgsMatrixType
  <2> QED
    BY <1>3, <2>2, RestRead DEF ReadArgs
<1>4. CASE ReadExperiment
  <2>1. args \in CommandLineType /\ experiment \in ExperimentType
    BY <1>4 DEF ReadExperiment, PlanRest, PlanTyped
  <2>2. Merged(experiment, args) \in MatrixType
    BY <2>1, MergedType
  <2> QED
    BY <1>4, <2>2, RestRead DEF ReadExperiment
<1> QED
  BY <1>1, <1>2, <1>3, <1>4, RestExpand, RestRun DEF PlanNext

-----------------------------------------------------------------------------
(* What the invariant says of a finished plan and of its tables. *)
LEMMA CombinationsRun ==
  ASSUME PlanRest
  PROVE  EveryCombinationRuns
<1> SUFFICES ASSUME stage = "run" PROVE
      /\ Len(configs) = Size(matrix)
      /\ \A p \in ToSet(matrix.provers), v \in ToSet(matrix.providers),
            s \in ToSet(matrix.seeds), o \in ToSet(matrix.oracle_configs) :
           \E i \in DOMAIN configs :
             /\ configs[i].prover = p /\ configs[i].provider = v
             /\ configs[i].seed = s /\ configs[i].oracle = o
  BY Zenon DEF EveryCombinationRuns, Size
<1>1. /\ matrix \in MatrixType /\ configs \in Seq(ConfigType)
  BY DEF PlanRest, PlanTyped
<1>2. /\ Len(configs) \in Nat /\ DOMAIN configs = 1 .. Len(configs)
  BY <1>1
<1>3. Len(configs) = Size(matrix)
  <2>1. pending = <<>> /\ Len(configs) + Len(pending) = Size(matrix)
    BY DEF PlanRest, ProductInv
  <2> QED
    BY <1>2, <2>1
<1>4. ASSUME NEW p \in ToSet(matrix.provers), NEW v \in ToSet(matrix.providers),
             NEW s \in ToSet(matrix.seeds), NEW o \in ToSet(matrix.oracle_configs)
      PROVE  \E i \in DOMAIN configs :
               /\ configs[i].prover = p /\ configs[i].provider = v
               /\ configs[i].seed = s /\ configs[i].oracle = o
  <2>1. PICK n \in 1 .. Size(matrix) :
          /\ Combinations(matrix)[n].prover = p /\ Combinations(matrix)[n].provider = v
          /\ Combinations(matrix)[n].seed = s /\ Combinations(matrix)[n].oracle = o
    <3>1. matrix \in MatrixType
      BY <1>1
    <3> QED
      BY <3>1, ProductWhole
  <2>2. n \in DOMAIN configs /\ Same(configs[n], Combinations(matrix)[n])
    BY <1>2, <1>3 DEF PlanRest, ProductInv
  <2> QED
    BY <2>1, <2>2 DEF Same
<1> QED
  BY <1>3, <1>4

LEMMA FlagsHold ==
  ASSUME PlanRest
  PROVE  FlagsMeanThemselves
<1> DEFINE oracles == OraclesOf(experiment)
<1> SUFFICES ASSUME args.config_file, NEW i \in DOMAIN configs
             PROVE  LET c == configs[i] IN
      /\ c.prover \in IF args.prover # None THEN {args.prover} ELSE ToSet(experiment.provers)
      /\ c.seed \in IF args.seed # <<>> THEN ToSet(args.seed) ELSE ToSet(experiment.seeds)
      /\ IF args.provider # <<>>
         THEN /\ c.provider.name \in ToSet(args.provider)
              /\ args.model # None => c.provider.model = args.model
         ELSE \E p \in ToSet(experiment.providers) :
                c.provider.name = p.name /\ (args.model = None => c.provider = p)
      /\ \E oc \in IF experiment.oracle_configs = <<>> THEN {DefaultOracle}
                   ELSE ToSet(experiment.oracle_configs) :
           /\ c.oracle.max_repair_attempts
                = Given(args.max_repair_attempts, oc.max_repair_attempts)
           /\ c.oracle.max_tokens = Given(args.max_tokens, oc.max_tokens)
           /\ c.oracle.temperature = Given(args.temperature, oc.temperature)
  BY Zenon DEF FlagsMeanThemselves
<1> DEFINE c == configs[i]
<1>1. /\ matrix \in MatrixType /\ configs \in Seq(ConfigType) /\ args \in CommandLineType
      /\ experiment \in ExperimentType
  BY DEF PlanRest, PlanTyped
<1>2. /\ Len(configs) \in Nat /\ Len(pending) \in Nat /\ i \in 1 .. Len(configs)
      /\ Len(configs) + Len(pending) = Size(matrix)
      /\ Same(c, Combinations(matrix)[i])
      /\ matrix \in {NoMatrix, Merged(experiment, args)}
  BY <1>1 DEF PlanRest, PlanTyped, ProductInv
<1>3. Size(matrix) > 0 /\ i \in 1 .. Size(matrix)
  BY <1>2
<1>4. matrix = Merged(experiment, args)
  BY <1>2, <1>3, NoneAsked
<1>5. /\ c.prover \in ToSet(matrix.provers) /\ c.provider \in ToSet(matrix.providers)
      /\ c.seed \in ToSet(matrix.seeds) /\ c.oracle \in ToSet(matrix.oracle_configs)
  <2>1. /\ Combinations(matrix)[i].prover \in ToSet(matrix.provers)
        /\ Combinations(matrix)[i].provider \in ToSet(matrix.providers)
        /\ Combinations(matrix)[i].seed \in ToSet(matrix.seeds)
        /\ Combinations(matrix)[i].oracle \in ToSet(matrix.oracle_configs)
    BY <1>1, <1>3, ProductTyped
  <2> QED
    BY <1>2, <2>1, Zenon DEF Same
<1> HIDE DEF c
<1>6. /\ matrix.provers = IF args.prover # None THEN <<args.prover>> ELSE experiment.provers
      /\ matrix.providers = IF args.provider # <<>> THEN ProvidersOf(args)
                            ELSE experiment.providers
      /\ matrix.seeds = IF args.seed # <<>> THEN args.seed ELSE experiment.seeds
  BY <1>4 DEF Merged
<1>7. c.prover \in IF args.prover # None THEN {args.prover} ELSE ToSet(experiment.provers)
  <2>1. ToSet(<<args.prover>>) = {args.prover}
    BY DEF ToSet
  <2> QED
    BY <1>5, <1>6, <2>1
<1>8. c.seed \in IF args.seed # <<>> THEN ToSet(args.seed) ELSE ToSet(experiment.seeds)
  BY <1>5, <1>6
<1>9. IF args.provider # <<>>
      THEN /\ c.provider.name \in ToSet(args.provider)
           /\ args.model # None => c.provider.model = args.model
      ELSE \E p \in ToSet(experiment.providers) :
             c.provider.name = p.name /\ (args.model = None => c.provider = p)
  <2>1. ASSUME c.provider \in ToSet(ProvidersOf(args))
        PROVE  c.provider.name \in ToSet(args.provider) /\ c.provider.model = args.model
    <3>1. /\ ProvidersOf(args) \in Seq(ProviderType)
          /\ Len(ProvidersOf(args)) = Len(args.provider)
          /\ \A j \in 1 .. Len(args.provider) :
               /\ ProvidersOf(args)[j].name = args.provider[j]
               /\ ProvidersOf(args)[j].model = args.model
          /\ args.provider \in Seq(STRING)
      BY <1>1, ProvidersType DEF CommandLineType
    <3>2. PICK j \in 1 .. Len(args.provider) : ProvidersOf(args)[j] = c.provider
      BY <2>1, <3>1 DEF ToSet
    <3> QED
      BY <3>1, <3>2, Members
  <2> QED
    BY <1>5, <1>6, <2>1
<1>10. /\ oracles \in Seq(OracleType) /\ matrix.oracle_configs \in Seq(OracleType)
       /\ Len(matrix.oracle_configs) = Len(oracles)
       /\ \A j \in 1 .. Len(oracles) : matrix.oracle_configs[j] = Override(args, oracles[j])
  BY <1>1, <1>4, MergedType DEF MatrixType
<1>11. PICK j \in 1 .. Len(oracles) : c.oracle = Override(args, oracles[j])
  <2> HIDE DEF oracles
  <2> QED
    BY <1>5, <1>10 DEF ToSet
<1>12. oracles[j] \in IF experiment.oracle_configs = <<>> THEN {DefaultOracle}
                      ELSE ToSet(experiment.oracle_configs)
  <2>1. oracles[j] \in ToSet(oracles)
    BY <1>10, Members
  <2>2. CASE experiment.oracle_configs = <<>>
    BY <1>10, <2>2 DEF OraclesOf
  <2>3. CASE experiment.oracle_configs # <<>>
    BY <2>1, <2>3 DEF OraclesOf
  <2> QED
    BY <2>2, <2>3
<1> HIDE DEF oracles
<1>13. /\ c.oracle.max_repair_attempts
            = Given(args.max_repair_attempts, oracles[j].max_repair_attempts)
       /\ c.oracle.max_tokens = Given(args.max_tokens, oracles[j].max_tokens)
       /\ c.oracle.temperature = Given(args.temperature, oracles[j].temperature)
  BY <1>11 DEF Override
<1> QED
  BY <1>7, <1>8, <1>9, <1>12, <1>13, Zenon DEF c

(* A look-up by label or by task finds the one row there is. *)
LEMMA FoundByLabel ==
  ASSUME PlanRest, LabelsUnique, NEW j \in 1 .. Len(run_results)
  PROVE  ByLabel(run_results[j].label) = run_results[j]
<1> DEFINE last == {i \in DOMAIN run_results : run_results[i].label = run_results[j].label}
<1>1. run_results \in Seq(RunType) /\ configs \in Seq(ConfigType)
  BY DEF PlanRest, PlanTyped
<1>2. /\ DOMAIN run_results = 1 .. Len(run_results) /\ DOMAIN configs = 1 .. Len(configs)
      /\ Len(run_results) \in Nat /\ Len(configs) \in Nat
  BY <1>1
<1>3. last = {j}
  <2>1. ASSUME NEW i \in 1 .. Len(run_results), run_results[i].label = run_results[j].label
        PROVE  i = j
    <3>1. configs[i].label = configs[j].label /\ i \in DOMAIN configs /\ j \in DOMAIN configs
      BY <1>2, <2>1 DEF PlanRest, RunsInv
    <3> QED
      BY <3>1 DEF LabelsUnique
  <2> QED
    BY <1>2, <2>1
<1>4. (CHOOSE i \in last : \A k \in last : k <= i) = j
  <2>1. j <= j
    BY <1>2
  <2> QED
    BY <1>3, <2>1
<1>5. ByLabel(run_results[j].label) =
        IF last = {} THEN None ELSE run_results[CHOOSE i \in last : \A k \in last : k <= i]
  BY Zenon DEF ByLabel, LastWith
<1> QED
  BY <1>3, <1>4, <1>5

LEMMA FoundByTask ==
  ASSUME PlanRest, DistinctIds, NEW j \in 1 .. Len(run_results), NEW i \in 1 .. Len(suite)
  PROVE  ByTask(run_results[j], suite[i]) = run_results[j].task_results[i]
<1> DEFINE rows == run_results[j].task_results
           last == {k \in DOMAIN rows : rows[k].id = suite[i]}
<1>1. run_results \in Seq(RunType) /\ suite \in Seq(STRING)
  BY DEF PlanRest, PlanTyped
<1>2. Len(suite) \in Nat /\ DOMAIN suite = 1 .. Len(suite)
  BY <1>1
<1>3. DOMAIN rows = 1 .. Len(suite) /\ \A k \in 1 .. Len(suite) : rows[k].id = suite[k]
  <2>1. run_results[j] \in RunType
    BY <1>1
  <2>2. rows \in Seq([id : STRING, kinds : Signatures, run : Nat \X Nat])
    BY <2>1 DEF RunType
  <2>3. Len(rows) = Len(suite) /\ \A k \in 1 .. Len(suite) : rows[k].id = suite[k]
    BY DEF PlanRest, RunsInv
  <2> HIDE DEF rows
  <2> QED
    BY <2>2, <2>3
<1>4. last = {i}
  <2> HIDE DEF rows
  <2> QED
    BY <1>2, <1>3 DEF DistinctIds
<1>5. (CHOOSE k \in last : \A l \in last : l <= k) = i
  <2>1. i <= i
    BY <1>2
  <2> HIDE DEF last
  <2> QED
    BY <1>4, <2>1
<1>6. ByTask(run_results[j], suite[i]) =
        IF last = {} THEN None ELSE rows[CHOOSE k \in last : \A l \in last : l <= k]
  BY Zenon DEF ByTask, LastWith
<1> HIDE DEF last
<1> QED
  BY <1>4, <1>5, <1>6

LEMMA TablesHold ==
  ASSUME PlanRest, LabelsUnique
  PROVE  CellsAreOwn /\ ComparisonTells
<1>1. run_results \in Seq(RunType) /\ suite \in Seq(STRING)
  BY DEF PlanRest, PlanTyped
<1>2. /\ DOMAIN run_results = 1 .. Len(run_results) /\ Len(run_results) \in Nat
      /\ DOMAIN suite = 1 .. Len(suite) /\ Len(suite) \in Nat
  BY <1>1
<1>3. \A j \in 1 .. Len(run_results) : \A i \in 1 .. Len(suite) :
        /\ run_results[j].task_results[i].id = suite[i]
        /\ run_results[j].task_results[i].run = <<j, i>>
  BY DEF PlanRest, RunsInv
<1>4. ASSUME DistinctIds, NEW i \in 1 .. Len(suite), NEW j \in 1 .. Len(run_results)
      PROVE  Cell(i, j).run = <<j, i>>
  <2>1. 1 \in 1 .. Len(run_results)
    BY <1>2
  <2>2. Cell(i, j) = ByTask(run_results[j], suite[i])
    BY <1>3, <2>1, FoundByLabel DEF Cell
  <2> QED
    BY <1>3, <1>4, <2>2, FoundByTask
<1>5. ASSUME DistinctIds, NEW a \in 1 .. Len(run_results), NEW b \in 1 .. Len(run_results)
      PROVE  Changed(run_results[a], run_results[b]) =
               {suite[i] : i \in {n \in 1 .. Len(suite) :
                  run_results[a].task_results[n].kinds # run_results[b].task_results[n].kinds}}
  <2>1. \A j \in 1 .. Len(run_results) :
          IdsOf(run_results[j]) = {suite[i] : i \in 1 .. Len(suite)}
    <3> TAKE j \in 1 .. Len(run_results)
    <3>1. run_results[j] \in RunType
      BY <1>1
    <3>2. /\ run_results[j].task_results
               \in Seq([id : STRING, kinds : Signatures, run : Nat \X Nat])
          /\ Len(run_results[j].task_results) = Len(suite)
      BY <3>1 DEF RunType, PlanRest, RunsInv
    <3>3. DOMAIN run_results[j].task_results = 1 .. Len(suite)
      BY <3>2
    <3>4. IdsOf(run_results[j]) =
            {run_results[j].task_results[i].id : i \in 1 .. Len(suite)}
      BY <3>3, Zenon DEF IdsOf
    <3>5. \A i \in 1 .. Len(suite) : run_results[j].task_results[i].id = suite[i]
      BY <1>3, Zenon
    <3> QED
      BY <3>4, <3>5
  <2>2. \A i \in 1 .. Len(suite) :
          /\ ByTask(run_results[a], suite[i]) = run_results[a].task_results[i]
          /\ ByTask(run_results[b], suite[i]) = run_results[b].task_results[i]
    BY <1>5, FoundByTask
  <2> DEFINE Ids == {suite[i] : i \in 1 .. Len(suite)}
             A == run_results[a]
             B == run_results[b]
  <2>3. Changed(A, B) = {id \in Ids \union Ids :
                           \/ id \notin Ids \intersect Ids
                           \/ ByTask(A, id).kinds # ByTask(B, id).kinds}
    BY <2>1 DEF Changed
  <2>4. /\ Ids \union Ids = Ids
        /\ \A i \in 1 .. Len(suite) : suite[i] \in Ids
        /\ \A id \in Ids : \E i \in 1 .. Len(suite) : id = suite[i]
    OBVIOUS
  <2> HIDE DEF A, B, Ids
  <2>5. ASSUME NEW id
        PROVE  id \in Changed(A, B) <=>
                 \E i \in 1 .. Len(suite) :
                   id = suite[i] /\ A.task_results[i].kinds # B.task_results[i].kinds
    <3>1. \A i \in 1 .. Len(suite) : /\ ByTask(A, suite[i]) = A.task_results[i]
                                    /\ ByTask(B, suite[i]) = B.task_results[i]
      BY <2>2 DEF A, B
    <3>2. id \in Changed(A, B) <=> id \in Ids /\ ByTask(A, id).kinds # ByTask(B, id).kinds
      BY <2>3, <2>4
    <3> QED
      BY <2>4, <3>1, <3>2
  <2>6. Changed(A, B) = {suite[i] : i \in {n \in 1 .. Len(suite) :
                           A.task_results[n].kinds # B.task_results[n].kinds}}
    <3> DEFINE Differ == {n \in 1 .. Len(suite) :
                            A.task_results[n].kinds # B.task_results[n].kinds}
    <3>1. \A id : id \in Changed(A, B) <=> \E i \in Differ : id = suite[i]
      BY <2>5
    <3> HIDE DEF Differ
    <3>2. Changed(A, B) = {suite[i] : i \in Differ}
      BY <3>1
    <3> QED
      BY <3>2 DEF Differ
  <2> QED
    BY <2>6 DEF A, B
<1>6. CellsAreOwn
  BY <1>2, <1>4 DEF CellsAreOwn
<1>7. ASSUME DistinctIds, NEW a \in DOMAIN run_results, NEW b \in DOMAIN run_results
      PROVE  Changed(run_results[a], run_results[b]) =
               {suite[i] : i \in {n \in DOMAIN suite :
                  run_results[a].task_results[n].kinds # run_results[b].task_results[n].kinds}}
  BY <1>2, <1>5, <1>7
<1> QED
  BY <1>6, <1>7, Zenon DEF ComparisonTells

-----------------------------------------------------------------------------
(* Both halves: each keeps its invariant, and keeps still in the other's   *)
(* steps.                                                                  *)
EvalInv == RunInv /\ LabelInv /\ PlanRest

LEMMA EvalStarts == HalvesInit => EvalInv
BY InitRuns, LabelsInit, RestInit DEF HalvesInit, EvalInv

LEMMA EvalSteps == EvalInv /\ [HalvesNext]_<<half, vars, plan>> => EvalInv'
<1> SUFFICES ASSUME EvalInv, [HalvesNext]_<<half, vars, plan>> PROVE EvalInv'
  OBVIOUS
<1>1. [Next]_vars /\ [PlanNext]_plan
  BY DEF HalvesNext
<1> QED
  BY <1>1, StepRuns, LabelsStep, RestStep DEF EvalInv

(* A state of eval always has its type. *)
THEOREM TypesHold == HalvesSpec => []HalvesTypeOK
<1>1. EvalInv => HalvesTypeOK
  <2> SUFFICES ASSUME EvalInv PROVE HalvesTypeOK
    OBVIOUS
  <2>1. TypeOK
    BY DEF EvalInv, RunInv, Typed
  <2>2. /\ stage \in {"read", "expand", "run", "done", "error"} /\ configs \in Seq(ConfigType)
        /\ seen = {configs[i].label : i \in DOMAIN configs}
    BY DEF EvalInv, PlanRest, PlanTyped
  <2>3. Len(run_results) <= Len(configs) /\ (stage # "expand" => pending = <<>>)
    BY DEF EvalInv, PlanRest, ProductInv, RunsInv
  <2>4. seen \subseteq Labels
    <3>1. \A i \in DOMAIN configs : configs[i] \in ConfigType
      BY <2>2
    <3>2. \A c \in ConfigType : c.label \in Labels
      BY DEF ConfigType
    <3> QED
      BY <2>2, <3>1, <3>2
  <2> QED
    BY <2>1, <2>2, <2>3, <2>4 DEF HalvesTypeOK, PlanTypeOK
<1> QED
  BY EvalStarts, EvalSteps, <1>1, PTL DEF HalvesSpec

(* However many configurations, tasks, obligations and repairs a matrix    *)
(* has, no cap is passed by more than the call that crosses it, and no     *)
(* task leaves its guard installed.                                        *)
THEOREM CapAlwaysHolds == HalvesSpec => []CapHolds
<1>1. EvalInv => CapHolds
  BY GuardTells DEF EvalInv, RunInv, CapHolds
<1> QED
  BY EvalStarts, EvalSteps, <1>1, PTL DEF HalvesSpec

(* The report has every task, its money and the manifests' are what the    *)
(* providers charged, and columns, success rates, matches and exit code    *)
(* never contradict each other.                                            *)
THEOREM ReportAlwaysTells == HalvesSpec => []ReportTellsAll
<1>1. EvalInv => ReportTellsAll
  BY MoneyTold, CompleteTold, VerdictsTold DEF EvalInv, ReportTellsAll
<1> QED
  BY EvalStarts, EvalSteps, <1>1, PTL DEF HalvesSpec

(* No two configurations of an eval have the same label, whatever its      *)
(* dimensions repeat and however names come out as one.                    *)
THEOREM OwnLabels == HalvesSpec => []LabelsUnique
<1>1. EvalInv => LabelsUnique
  BY DEF EvalInv, LabelInv
<1> QED
  BY EvalStarts, EvalSteps, <1>1, PTL DEF HalvesSpec

(* What runs is the whole product of what was asked for, and each flag     *)
(* stands for itself only.                                                 *)
THEOREM AskedIsPlanned == HalvesSpec => []PlanIsAsked
<1>1. EvalInv => PlanIsAsked
  BY CombinationsRun, FlagsHold DEF EvalInv, PlanIsAsked
<1> QED
  BY EvalStarts, EvalSteps, <1>1, PTL DEF HalvesSpec

(* A cell of the report is about its own task and configuration, and a     *)
(* comparison lists exactly the tasks whose outcomes differ.               *)
THEOREM TablesAlwaysTell == HalvesSpec => []TablesTell
<1>1. EvalInv => TablesTell
  BY TablesHold DEF EvalInv, LabelInv, TablesTell
<1> QED
  BY EvalStarts, EvalSteps, <1>1, PTL DEF HalvesSpec
=============================================================================
